---------------------------- MODULE HandOffProofs ----------------------------
(***************************************************************************)
(* Proofs about HandOff.tla, for every set of game-thread identities: the  *)
(* invariant Inv is inductive, it gives the safety properties the runs     *)
(* check, and the two threads implement the turns of TurnTaking.           *)
(***************************************************************************)
EXTENDS HandOff, TLAPS

LEMMA InitInv == Init => Inv
<1> SUFFICES ASSUME Init PROVE Inv
    OBVIOUS
<1> USE MainAssumption DEF Init, Thread, MainPC, GamePC
<1>1. TypeOK
  BY DEF TypeOK
<1>2. OneGameThread /\ HandleIsLive /\ RunningHasTurn /\ FrameIsLive /\ DoneIsOver
  BY DEF OneGameThread, HandleIsLive, RunningHasTurn, GameRuns, FrameIsLive, DoneIsOver
<1>3. ExitMeansJoin /\ StoppedIsDead /\ TurnIsTaken
  BY DEF ExitMeansJoin, StoppedIsDead, TurnIsTaken
<1>4. SleepersWait /\ NoLostWakeup /\ KnowsItself
  BY DEF SleepersWait, NoLostWakeup, KnowsItself
<1> QED BY <1>1, <1>2, <1>3, <1>4 DEF Inv

-----------------------------------------------------------------------------
(* One lemma per step.  Each shows the type first, then the conjuncts of Inv   *)
(* the step can disturb, from those they rest on.                              *)

LEMMA RunOneFrameInv ==
  ASSUME Inv, RunOneFrame
  PROVE  Inv'
<1> USE MainAssumption DEF Inv, RunOneFrame, TypeOK, Thread, MainPC, GamePC, Broadcast
<1>1. TypeOK'
  OBVIOUS
<1>2. OneGameThread' /\ HandleIsLive' /\ FrameIsLive' /\ DoneIsOver' /\ StoppedIsDead'
  BY <1>1 DEF OneGameThread, HandleIsLive, FrameIsLive, DoneIsOver, StoppedIsDead
<1>3. RunningHasTurn'
  BY <1>1 DEF RunningHasTurn, GameRuns, OneGameThread, HandleIsLive, DoneIsOver,
              TurnIsTaken
<1>4. ExitMeansJoin' /\ TurnIsTaken'
  BY <1>1 DEF ExitMeansJoin, TurnIsTaken
<1>5. SleepersWait' /\ NoLostWakeup' /\ KnowsItself'
  BY <1>1 DEF SleepersWait, NoLostWakeup, MainMustWait, GameMustWait, KnowsItself
<1> QED BY <1>1, <1>2, <1>3, <1>4, <1>5

LEMMA FrameWakeInv ==
  ASSUME Inv, FrameWake
  PROVE  Inv'
<1> USE MainAssumption DEF Inv, FrameWake, TypeOK, Thread, MainPC, GamePC, Broadcast
<1>1. TypeOK'
  OBVIOUS
<1>2. OneGameThread' /\ HandleIsLive' /\ FrameIsLive' /\ DoneIsOver' /\ StoppedIsDead'
  BY <1>1 DEF OneGameThread, HandleIsLive, FrameIsLive, DoneIsOver, StoppedIsDead,
              MainMustWait
<1>3. RunningHasTurn'
  BY <1>1 DEF RunningHasTurn, GameRuns, MainMustWait
<1>4. ExitMeansJoin' /\ TurnIsTaken'
  BY <1>1 DEF ExitMeansJoin, TurnIsTaken, RunningHasTurn, GameRuns, FrameIsLive,
              StoppedIsDead, MainMustWait
<1>5. SleepersWait' /\ NoLostWakeup' /\ KnowsItself'
  BY <1>1 DEF SleepersWait, NoLostWakeup, MainMustWait, GameMustWait, KnowsItself
<1> QED BY <1>1, <1>2, <1>3, <1>4, <1>5

LEMMA StopGameInv ==
  ASSUME Inv, NEW reset \in BOOLEAN, StopGame(reset)
  PROVE  Inv'
<1> USE MainAssumption DEF Inv, StopGame, TypeOK, Thread, MainPC, GamePC, Broadcast
<1>1. TypeOK'
  OBVIOUS
<1>2. OneGameThread' /\ HandleIsLive' /\ FrameIsLive' /\ DoneIsOver' /\ StoppedIsDead'
  BY <1>1 DEF OneGameThread, HandleIsLive, FrameIsLive, DoneIsOver, StoppedIsDead
<1>3. RunningHasTurn'
  BY <1>1 DEF RunningHasTurn, GameRuns
<1>4. ExitMeansJoin' /\ TurnIsTaken'
  BY <1>1 DEF ExitMeansJoin, TurnIsTaken
<1>5. SleepersWait' /\ NoLostWakeup' /\ KnowsItself'
  BY <1>1 DEF SleepersWait, NoLostWakeup, MainMustWait, GameMustWait, KnowsItself,
              OneGameThread
<1> QED BY <1>1, <1>2, <1>3, <1>4, <1>5

LEMMA JoinInv ==
  ASSUME Inv, Join
  PROVE  Inv'
<1> USE MainAssumption DEF Inv, Join, TypeOK, Thread, MainPC, GamePC, Broadcast
<1>1. TypeOK'
  OBVIOUS
<1>2. OneGameThread' /\ HandleIsLive' /\ FrameIsLive' /\ DoneIsOver' /\ StoppedIsDead'
  BY <1>1 DEF OneGameThread, HandleIsLive, FrameIsLive, DoneIsOver, StoppedIsDead
<1>3. RunningHasTurn'
  BY <1>1 DEF RunningHasTurn, GameRuns, OneGameThread, ExitMeansJoin
<1>4. ExitMeansJoin' /\ TurnIsTaken'
  BY <1>1 DEF ExitMeansJoin, TurnIsTaken
<1>5. SleepersWait' /\ NoLostWakeup' /\ KnowsItself'
  BY <1>1 DEF SleepersWait, NoLostWakeup, MainMustWait, GameMustWait, KnowsItself,
              OneGameThread
<1> QED BY <1>1, <1>2, <1>3, <1>4, <1>5

LEMMA SpawnInv ==
  ASSUME Inv, NEW g \in Game, Spawn(g)
  PROVE  Inv'
<1> USE MainAssumption DEF Inv, Spawn, TypeOK, Thread, MainPC, GamePC, Broadcast
<1>1. TypeOK'
  OBVIOUS
<1>2. OneGameThread' /\ HandleIsLive' /\ FrameIsLive' /\ DoneIsOver' /\ StoppedIsDead'
  BY <1>1 DEF OneGameThread, HandleIsLive, FrameIsLive, DoneIsOver, StoppedIsDead
<1>3. RunningHasTurn'
  BY <1>1 DEF RunningHasTurn, GameRuns, OneGameThread, StoppedIsDead
<1>4. ExitMeansJoin' /\ TurnIsTaken'
  BY <1>1 DEF ExitMeansJoin, TurnIsTaken
<1>5. SleepersWait' /\ NoLostWakeup' /\ KnowsItself'
  BY <1>1 DEF SleepersWait, NoLostWakeup, MainMustWait, GameMustWait, KnowsItself,
              OneGameThread, StoppedIsDead
<1> QED BY <1>1, <1>2, <1>3, <1>4, <1>5

LEMMA GameStartInv ==
  ASSUME Inv, NEW g \in Game, GameStart(g)
  PROVE  Inv'
<1> USE MainAssumption DEF Inv, GameStart, TypeOK, Thread, MainPC, GamePC, Broadcast
<1>1. TypeOK'
  OBVIOUS
<1>2. OneGameThread' /\ HandleIsLive' /\ FrameIsLive' /\ DoneIsOver' /\ StoppedIsDead'
  BY <1>1 DEF OneGameThread, HandleIsLive, FrameIsLive, DoneIsOver, StoppedIsDead,
              GameMustWait
<1>3. RunningHasTurn'
  BY <1>1 DEF RunningHasTurn, GameRuns, OneGameThread, HandleIsLive, DoneIsOver,
              ExitMeansJoin, TurnIsTaken, FrameIsLive, StoppedIsDead, GameMustWait
<1>4. ExitMeansJoin' /\ TurnIsTaken'
  BY <1>1 DEF ExitMeansJoin, TurnIsTaken, GameMustWait
<1>5. SleepersWait' /\ NoLostWakeup' /\ KnowsItself'
  BY <1>1 DEF SleepersWait, NoLostWakeup, MainMustWait, GameMustWait, KnowsItself
<1> QED BY <1>1, <1>2, <1>3, <1>4, <1>5

LEMMA GameWakeInv ==
  ASSUME Inv, NEW g \in Game, GameWake(g)
  PROVE  Inv'
<1> USE MainAssumption DEF Inv, GameWake, TypeOK, Thread, MainPC, GamePC, Broadcast
<1>1. TypeOK'
  OBVIOUS
<1>2. OneGameThread' /\ HandleIsLive' /\ FrameIsLive' /\ DoneIsOver' /\ StoppedIsDead'
  BY <1>1 DEF OneGameThread, HandleIsLive, FrameIsLive, DoneIsOver, StoppedIsDead,
              GameMustWait
<1>3. RunningHasTurn'
  BY <1>1 DEF RunningHasTurn, GameRuns, OneGameThread, HandleIsLive, DoneIsOver,
              ExitMeansJoin, TurnIsTaken, FrameIsLive, StoppedIsDead, GameMustWait
<1>4. ExitMeansJoin' /\ TurnIsTaken'
  BY <1>1 DEF ExitMeansJoin, TurnIsTaken, GameMustWait
<1>5. SleepersWait' /\ NoLostWakeup' /\ KnowsItself'
  BY <1>1 DEF SleepersWait, NoLostWakeup, MainMustWait, GameMustWait, KnowsItself
<1> QED BY <1>1, <1>2, <1>3, <1>4, <1>5

LEMMA FlowReturnsInv ==
  ASSUME Inv, NEW g \in Game, FlowReturns(g)
  PROVE  Inv'
<1> USE MainAssumption DEF Inv, FlowReturns, TypeOK, Thread, MainPC, GamePC, Broadcast
<1>1. TypeOK'
  OBVIOUS
<1>2. OneGameThread' /\ HandleIsLive' /\ FrameIsLive' /\ DoneIsOver' /\ StoppedIsDead'
  BY <1>1 DEF OneGameThread, HandleIsLive, FrameIsLive, DoneIsOver, StoppedIsDead,
              RunningHasTurn, GameRuns
<1>3. RunningHasTurn'
  BY <1>1 DEF RunningHasTurn, GameRuns
<1>4. ExitMeansJoin' /\ TurnIsTaken'
  BY <1>1 DEF ExitMeansJoin, TurnIsTaken
<1>5. SleepersWait' /\ NoLostWakeup' /\ KnowsItself'
  BY <1>1 DEF SleepersWait, NoLostWakeup, MainMustWait, GameMustWait, KnowsItself
<1> QED BY <1>1, <1>2, <1>3, <1>4, <1>5

LEMMA GameFinishInv ==
  ASSUME Inv, NEW g \in Game, GameFinish(g)
  PROVE  Inv'
<1> USE MainAssumption DEF Inv, GameFinish, TypeOK, Thread, MainPC, GamePC, Broadcast
<1>1. TypeOK'
  OBVIOUS
<1>2. OneGameThread' /\ HandleIsLive' /\ FrameIsLive' /\ DoneIsOver' /\ StoppedIsDead'
  BY <1>1 DEF OneGameThread, HandleIsLive, FrameIsLive, DoneIsOver, StoppedIsDead,
              RunningHasTurn, GameRuns
<1>3. RunningHasTurn'
  BY <1>1 DEF RunningHasTurn, GameRuns, OneGameThread
<1>4. ExitMeansJoin' /\ TurnIsTaken'
  BY <1>1 DEF ExitMeansJoin, TurnIsTaken
<1>5. SleepersWait' /\ NoLostWakeup' /\ KnowsItself'
  BY <1>1 DEF SleepersWait, NoLostWakeup, MainMustWait, GameMustWait, KnowsItself
<1> QED BY <1>1, <1>2, <1>3, <1>4, <1>5

LEMMA GameLeaveInv ==
  ASSUME Inv, NEW g \in Game, GameLeave(g)
  PROVE  Inv'
<1> USE MainAssumption DEF Inv, GameLeave, TypeOK, Thread, MainPC, GamePC, Broadcast
<1>1. TypeOK'
  OBVIOUS
<1>2. OneGameThread' /\ HandleIsLive' /\ FrameIsLive' /\ DoneIsOver' /\ StoppedIsDead'
  BY <1>1 DEF OneGameThread, HandleIsLive, FrameIsLive, DoneIsOver, StoppedIsDead
<1>3. RunningHasTurn'
  BY <1>1 DEF RunningHasTurn, GameRuns
<1>4. ExitMeansJoin' /\ TurnIsTaken'
  BY <1>1 DEF ExitMeansJoin, TurnIsTaken
<1>5. SleepersWait' /\ NoLostWakeup' /\ KnowsItself'
  BY <1>1 DEF SleepersWait, NoLostWakeup, MainMustWait, GameMustWait, KnowsItself
<1> QED BY <1>1, <1>2, <1>3, <1>4, <1>5

LEMMA YieldInv ==
  ASSUME Inv, NEW t \in Thread, Yield(t)
  PROVE  Inv'
<1> USE MainAssumption DEF Inv, Yield, TypeOK, Thread, MainPC, GamePC, Broadcast
<1>1. TypeOK'
  BY DEF KnowsItself
<1>2. OneGameThread' /\ HandleIsLive' /\ FrameIsLive' /\ DoneIsOver' /\ StoppedIsDead'
  BY <1>1 DEF OneGameThread, HandleIsLive, FrameIsLive, DoneIsOver, StoppedIsDead,
              RunningHasTurn, GameRuns
<1>3. RunningHasTurn'
  BY <1>1 DEF RunningHasTurn, GameRuns, OneGameThread, KnowsItself
<1>4. ExitMeansJoin' /\ TurnIsTaken'
  BY <1>1 DEF ExitMeansJoin, TurnIsTaken
<1>5. SleepersWait' /\ NoLostWakeup' /\ KnowsItself'
  BY <1>1 DEF SleepersWait, NoLostWakeup, MainMustWait, GameMustWait, KnowsItself
<1> QED BY <1>1, <1>2, <1>3, <1>4, <1>5

\* The remaining steps move the main thread between two places where no flag
\* changes, or only wake a sleeper.
LEMMA SmallStepInv ==
  ASSUME Inv,
         VectorEnter \/ VectorReturn \/ Fini \/ UNCHANGED vars
           \/ \E t \in Thread : SpuriousWake(t)
  PROVE  Inv'
<1> USE MainAssumption DEF Inv, TypeOK, Thread, MainPC, GamePC, OneGameThread,
        HandleIsLive, RunningHasTurn, GameRuns, FrameIsLive, DoneIsOver, ExitMeansJoin,
        StoppedIsDead, TurnIsTaken, SleepersWait, NoLostWakeup, KnowsItself,
        MainMustWait, GameMustWait
<1>1. CASE VectorEnter
  BY <1>1 DEF VectorEnter
<1>2. CASE VectorReturn
  BY <1>2 DEF VectorReturn
<1>3. CASE Fini
  BY <1>3 DEF Fini
<1>4. CASE UNCHANGED vars
  BY <1>4 DEF vars
<1>5. ASSUME NEW t \in Thread, SpuriousWake(t) PROVE Inv'
  BY <1>5 DEF SpuriousWake
<1> QED BY <1>1, <1>2, <1>3, <1>4, <1>5

LEMMA StepInv == Inv /\ [Next]_vars => Inv'
<1> SUFFICES ASSUME Inv, [Next]_vars PROVE Inv'
    OBVIOUS
<1>1. CASE MainNext
  BY <1>1, RunOneFrameInv, FrameWakeInv, StopGameInv, JoinInv, SpawnInv, SmallStepInv
     DEF MainNext, Ended
<1>2. ASSUME NEW g \in Game, GameNext(g) PROVE Inv'
  BY <1>2, GameStartInv, GameWakeInv, FlowReturnsInv, GameFinishInv, GameLeaveInv
     DEF GameNext
<1>3. ASSUME NEW t \in Thread, Yield(t) \/ SpuriousWake(t) PROVE Inv'
  BY <1>3, YieldInv, SmallStepInv
<1>4. CASE UNCHANGED vars
  BY <1>4, SmallStepInv
<1> QED BY <1>1, <1>2, <1>3, <1>4 DEF Next

-----------------------------------------------------------------------------
(* The safety properties of the runs. *)

\* Whatever the guest, the player and the scheduler do, the flags and the two
\* threads stay in step (game_loop.c, s_turn, s_game_done, s_game_exit_req).
THEOREM InvHolds == Spec => []Inv
<1> QED BY InitInv, StepInv, PTL DEF Spec

\* The type invariant.
THEOREM TypeCorrect == Spec => []TypeOK
<1>1. Inv => TypeOK
  BY DEF Inv
<1> QED BY <1>1, InvHolds, PTL

\* "EXACTLY ONE runs at a time": guest code on a game thread runs alone.
THEOREM ExactlyOneRuns == Spec => []OneRuns
<1>1. Inv => OneRuns
  BY DEF Inv, OneRuns, OneGameThread, RunningHasTurn, GameRuns
<1> QED BY <1>1, InvHolds, PTL

\* No restart leaves two game threads, and the handle names the one there is.
THEOREM AtMostOneGameThread == Spec => []OneGameThread
<1>1. Inv => OneGameThread
  BY DEF Inv
<1> QED BY <1>1, InvHolds, PTL

\* Every change of a waited-for flag wakes whoever waits for it.
THEOREM WakeupsReachTheirThread == Spec => []NoLostWakeup
<1>1. Inv => NoLostWakeup
  BY DEF Inv
<1> QED BY <1>1, InvHolds, PTL

\* Only a spawn withdraws the exit request, and it leaves the main thread running.
LEMMA ExitWithdrawn ==
  ASSUME Inv, [Next]_vars, exitReq, ~exitReq'
  PROVE  pc'[Main] = "host"
<1>1. PICK g \in Game : Spawn(g)
  BY DEF Next, MainNext, GameNext, vars, RunOneFrame, FrameWake, VectorEnter, VectorReturn,
         StopGame, Join, Fini, Ended, GameStart, GameWake, FlowReturns, GameFinish,
         GameLeave, Yield, SpuriousWake
<1> QED BY <1>1, MainAssumption DEF Spawn, Inv, TypeOK, Thread

\* After the exit request the game thread never takes up the guest again.
THEOREM StoppedThreadRunsNothing == Spec => ExitRunsNoGuestCode
<1> DEFINE Quiet == \A g \in Game : exitReq => ~(~GameRuns(g) /\ GameRuns(g)')
<1>1. Inv /\ Inv' /\ [Next]_vars => [Quiet]_vars
  <2> SUFFICES ASSUME Inv, Inv', [Next]_vars, NEW g \in Game, exitReq, GameRuns(g)'
               PROVE  FALSE
      BY DEF Quiet
  <2>1. pc'[Main] = "frame" /\ ~exitReq'
    BY DEF Inv, RunningHasTurn
  <2> QED BY <2>1, ExitWithdrawn
<1>2. ([][Quiet]_vars) => ExitRunsNoGuestCode
  BY DEF ExitRunsNoGuestCode
<1> QED BY <1>1, <1>2, InvHolds, PTL DEF Spec

-----------------------------------------------------------------------------
(* The refinement: every step of the threads is a step of TurnTaking or none. *)

LEMMA InitTurns == Init => Turns!Init
<1> SUFFICES ASSUME Init PROVE Turns!Init
    OBVIOUS
<1>1. pc[Main] = "host" /\ ~live
  BY DEF Init, Thread
<1>2. ControlMap = "host"
  BY <1>1 DEF ControlMap
<1>3. FlowMap = "absent"
  BY <1>1 DEF FlowMap
<1> QED BY <1>2, <1>3 DEF Turns!Init

LEMMA MainTurns ==
  ASSUME Inv, Inv', MainNext
  PROVE  [Turns!Next]_(Turns!vars)
<1> USE MainAssumption DEF Inv, TypeOK, Thread, MainPC, GamePC, RunningHasTurn, GameRuns,
        MainMustWait, ControlMap, FlowMap, Turns!vars
<1>1. CASE RunOneFrame /\ ~done
  <2>1. Turns!Grant
    BY <1>1 DEF RunOneFrame, ExitMeansJoin, Turns!Grant
  <2> QED BY <2>1 DEF Turns!Next
<1>2. CASE FrameWake /\ ~MainMustWait
  <2>1. Turns!Regain
    BY <1>2 DEF FrameWake, Turns!Regain
  <2> QED BY <2>1 DEF Turns!Next
<1>3. ASSUME NEW reset \in BOOLEAN, StopGame(reset), live PROVE Turns!Next
  <2>1. Turns!Retire
    BY <1>3 DEF StopGame, ExitMeansJoin, Turns!Retire
  <2> QED BY <2>1 DEF Turns!Next
<1>4. ASSUME NEW g \in Game, Spawn(g) PROVE Turns!Next
  <2>1. Turns!Create
    BY <1>4 DEF Spawn, StoppedIsDead, Turns!Create
  <2> QED BY <2>1 DEF Turns!Next
<1>5. CASE \/ RunOneFrame /\ done
           \/ FrameWake /\ MainMustWait
           \/ VectorEnter \/ VectorReturn \/ Join \/ Fini \/ Ended
           \/ \E reset \in BOOLEAN : StopGame(reset) /\ ~live
  <2>1. UNCHANGED <<ControlMap, FlowMap>>
    BY <1>5 DEF RunOneFrame, FrameWake, VectorEnter, VectorReturn, Join, Fini, Ended, vars,
       StopGame, ExitMeansJoin, StoppedIsDead
  <2> QED BY <2>1
<1> QED BY <1>1, <1>2, <1>3, <1>4, <1>5 DEF MainNext

LEMMA GameTurns ==
  ASSUME Inv, Inv', NEW g \in Game, GameNext(g) \/ Yield(g)
  PROVE  [Turns!Next]_(Turns!vars)
<1> USE MainAssumption DEF Inv, TypeOK, Thread, MainPC, GamePC, RunningHasTurn, GameRuns,
        OneGameThread, MainMustWait, ControlMap, FlowMap, Turns!vars
<1>1. CASE (GameStart(g) \/ GameWake(g)) /\ GameRuns(g)'
  <2>1. Turns!Begin
    BY <1>1 DEF GameStart, GameWake, Turns!Begin
  <2> QED BY <2>1 DEF Turns!Next
<1>2. CASE (GameStart(g) \/ GameWake(g)) /\ ~GameRuns(g)'
  BY <1>2 DEF GameStart, GameWake
<1>3. CASE FlowReturns(g)
  BY <1>3 DEF FlowReturns
<1>4. CASE GameFinish(g)
  <2>1. Turns!Return
    BY <1>4 DEF GameFinish, Turns!Return
  <2> QED BY <2>1 DEF Turns!Next
<1>5. CASE GameLeave(g)
  BY <1>5 DEF GameLeave
<1>6. CASE Yield(g)
  <2>1. Turns!Park
    BY <1>6 DEF Yield, KnowsItself, Turns!Park
  <2> QED BY <2>1 DEF Turns!Next
<1> QED BY <1>1, <1>2, <1>3, <1>4, <1>5, <1>6 DEF GameNext

LEMMA StepTurns == Inv /\ Inv' /\ [Next]_vars => [Turns!Next]_(Turns!vars)
<1> SUFFICES ASSUME Inv, Inv', [Next]_vars PROVE [Turns!Next]_(Turns!vars)
    OBVIOUS
<1>1. CASE UNCHANGED vars \/ Yield(Main) \/ \E t \in Thread : SpuriousWake(t)
  BY <1>1 DEF vars, Yield, Inv, KnowsItself, SpuriousWake, ControlMap, FlowMap, GameRuns,
     MainMustWait, Turns!vars
<1> QED BY <1>1, MainTurns, GameTurns DEF Next, Thread

\* The hand-off implements the turns: one grant, one frame, one return of control,
\* and a flow is replaced only in the host's turn.
THEOREM ImplementsTurnTaking == Spec => TurnsTaken
<1> QED BY InitTurns, StepTurns, InvHolds, PTL DEF Spec, TurnsTaken, Turns!Spec
=============================================================================
