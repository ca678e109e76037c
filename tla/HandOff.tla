------------------------------- MODULE HandOff -------------------------------
(***************************************************************************)
(* The ping-pong between the main thread and the game thread of            *)
(* src/src/port/game_loop.c: s_turn, s_game_exit_req and s_game_done,      *)
(* handed over under s_hand_mtx and signalled through s_hand_cv.           *)
(*                                                                         *)
(* Every critical section of the code takes the mutex, works and either    *)
(* releases it or falls asleep on the condition variable, so each is one   *)
(* action and the mutex needs no variable.  What is not atomic is kept:    *)
(* falling asleep and being woken, a wake-up that finds its condition      *)
(* false, spurious wake-ups, and the code that runs between two sections.  *)
(***************************************************************************)
EXTENDS Naturals, FiniteSets

CONSTANTS
  Main,     \* the SDL / host thread
  Game      \* identities the game threads take, one after the other

ASSUME MainAssumption == Main \notin Game

Thread == Game \cup {Main}

VARIABLES
  pc,        \* where each thread is
  asleep,    \* the threads blocked in pthread_cond_wait(&s_hand_cv, ..)
  isGame,    \* the thread-local s_is_game_thread
  turn,      \* s_turn: "game" is 1, "main" is 0
  exitReq,   \* s_game_exit_req
  done,      \* s_game_done (on g_state)
  live,      \* s_game_thread_live
  handle     \* s_game_thread, the thread pthread_join waits for

vars == <<pc, asleep, isGame, turn, exitReq, done, live, handle>>

\* The main thread: in the frame loop's own code; running an interrupt vector
\* of the guest (call_fn_as); in run_one_frame's wait; in pthread_join; after
\* game_thread_stop and before the spawn; after pc_fini.
MainPC == {"host", "vector", "frame", "join", "stopped", "ended"}

\* A game thread: not created; created; in its initial wait; running the guest
\* flow; returned from it; in a frame wait; past its last critical section; ended
\* but not joined.
GamePC == {"none", "created", "first", "flow", "returned", "wait", "leaving", "exited"}

TypeOK == /\ pc \in [Thread -> MainPC \cup GamePC]
          /\ pc[Main] \in MainPC
          /\ \A g \in Game : pc[g] \in GamePC
          /\ asleep \subseteq Thread
          /\ isGame \in [Thread -> BOOLEAN]
          /\ turn \in {"main", "game"}
          /\ exitReq \in BOOLEAN /\ done \in BOOLEAN /\ live \in BOOLEAN
          /\ handle \in Thread

Init == /\ pc = [t \in Thread |-> IF t = Main THEN "host" ELSE "none"]
        /\ asleep = {}
        /\ isGame = [t \in Thread |-> FALSE]
        /\ turn = "main"
        /\ exitReq = FALSE /\ done = FALSE /\ live = FALSE
        /\ handle = Main

-----------------------------------------------------------------------------
(* The condition variable. *)

\* pthread_cond_broadcast: every sleeper becomes runnable.
Broadcast == {}

\* The loop conditions of the two kinds of wait.
GameMustWait == turn = "main" /\ ~exitReq
MainMustWait == turn = "game" /\ ~done

\* A sleeper may wake for no reason.
SpuriousWake(t) == /\ t \in asleep
                   /\ asleep' = asleep \ {t}
                   /\ UNCHANGED <<pc, isGame, turn, exitReq, done, live, handle>>

-----------------------------------------------------------------------------
(* The main thread. *)

RunEndedFlow == \* mutant: the wait does not look at s_game_done
               /\ pc[Main] = "host" /\ live
               /\ turn' = "game"
               /\ asleep' = Broadcast \cup {Main}
               /\ pc' = [pc EXCEPT ![Main] = "frame"]
               /\ UNCHANGED <<isGame, exitReq, done, live, handle>>

\* game_thread_run_one_frame: release the game thread and wait for it.  With no
\* live thread it does nothing; when the flow is over it does not wait.
RunOneFrame == /\ pc[Main] = "host" /\ live
               /\ turn' = "game"
               /\ IF done THEN /\ asleep' = Broadcast
                               /\ UNCHANGED pc
                          ELSE /\ asleep' = Broadcast \cup {Main}
                               /\ pc' = [pc EXCEPT ![Main] = "frame"]
               /\ UNCHANGED <<isGame, exitReq, done, live, handle>>

\* Its wait, woken: back to sleep, or on with the frame.
FrameWake == /\ pc[Main] = "frame" /\ Main \notin asleep
             /\ IF MainMustWait THEN /\ asleep' = asleep \cup {Main}
                                     /\ UNCHANGED pc
                                ELSE /\ pc' = [pc EXCEPT ![Main] = "host"]
                                     /\ UNCHANGED asleep
             /\ UNCHANGED <<isGame, turn, exitReq, done, live, handle>>

\* An interrupt vector of the guest, delivered on the main thread.
VectorEnter == /\ pc[Main] = "host"
               /\ pc' = [pc EXCEPT ![Main] = "vector"]
               /\ UNCHANGED <<asleep, isGame, turn, exitReq, done, live, handle>>

VectorReturn == /\ pc[Main] = "vector"
                /\ pc' = [pc EXCEPT ![Main] = "host"]
                /\ UNCHANGED <<asleep, isGame, turn, exitReq, done, live, handle>>

StopNoJoin(reset) == \* mutant: a stop that does not wait for the thread to end
  /\ pc[Main] = "host"
  /\ done' = (done /\ ~reset)
  /\ exitReq' = TRUE /\ turn' = "game" /\ asleep' = Broadcast /\ live' = FALSE
  /\ pc' = [pc EXCEPT ![Main] = "stopped"]
  /\ UNCHANGED <<isGame, handle>>

StopSilently(reset) == \* mutant: a stop that does not signal the condition
  /\ pc[Main] = "host"
  /\ done' = (done /\ ~reset)
  /\ exitReq' = (exitReq \/ live) /\ turn' = IF live THEN "game" ELSE turn
  /\ pc' = [pc EXCEPT ![Main] = IF live THEN "join" ELSE "stopped"]
  /\ UNCHANGED <<asleep, isGame, live, handle>>

\* game_thread_stop.  Without a live thread it returns at once.  The cold restart
\* and the credits start have zeroed g_state, and s_game_done with it, before they
\* call it (reset).
StopGame(reset) ==
  /\ pc[Main] = "host"
  /\ done' = (done /\ ~reset)
  /\ IF live THEN /\ exitReq' = TRUE /\ turn' = "game"
                  /\ asleep' = Broadcast
                  /\ pc' = [pc EXCEPT ![Main] = "join"]
             ELSE /\ pc' = [pc EXCEPT ![Main] = "stopped"]
                  /\ UNCHANGED <<exitReq, turn, asleep>>
  /\ UNCHANGED <<isGame, live, handle>>

\* pthread_join returns; the thread's thread-local state is gone with it.
Join == /\ pc[Main] = "join" /\ pc[handle] = "exited"
        /\ pc' = [pc EXCEPT ![Main] = "stopped", ![handle] = "none"]
        /\ isGame' = [isGame EXCEPT ![handle] = FALSE]
        /\ live' = FALSE
        /\ UNCHANGED <<asleep, turn, exitReq, done, handle>>

\* game_thread_spawn: the flags are set without the mutex, then the thread exists.
Spawn(g) == /\ pc[Main] = "stopped" /\ pc[g] = "none"
            /\ done' = FALSE /\ exitReq' = FALSE /\ turn' = "main"
            /\ handle' = g
            /\ pc' = [pc EXCEPT ![Main] = "host", ![g] = "created"]
            /\ live' = TRUE
            /\ UNCHANGED <<asleep, isGame>>

\* pc_fini, after its game_thread_stop.
Fini == /\ pc[Main] = "stopped"
        /\ pc' = [pc EXCEPT ![Main] = "ended"]
        /\ UNCHANGED <<asleep, isGame, turn, exitReq, done, live, handle>>

Ended == pc[Main] = "ended" /\ UNCHANGED vars

-----------------------------------------------------------------------------
(* The game thread. *)

\* game_thread_main up to its first wait, or through it.
GameStart(g) ==
  /\ pc[g] = "created"
  /\ isGame' = [isGame EXCEPT ![g] = TRUE]
  /\ IF GameMustWait
     THEN /\ pc' = [pc EXCEPT ![g] = "first"]
          /\ asleep' = asleep \cup {g}
     ELSE /\ pc' = [pc EXCEPT ![g] = IF exitReq THEN "leaving" ELSE "flow"]
          /\ UNCHANGED asleep
  /\ UNCHANGED <<turn, exitReq, done, live, handle>>

WakeIgnoringExit(g) == \* mutant: the woken thread does not look at the request
  /\ pc[g] \in {"first", "wait"} /\ g \notin asleep
  /\ IF GameMustWait THEN asleep' = asleep \cup {g} /\ UNCHANGED pc
                     ELSE pc' = [pc EXCEPT ![g] = "flow"] /\ UNCHANGED asleep
  /\ UNCHANGED <<isGame, turn, exitReq, done, live, handle>>

\* Either wait of the game thread, woken: sleep again, leave the thread
\* (the return of game_thread_main, pthread_exit in the yield), or run.
GameWake(g) ==
  /\ pc[g] \in {"first", "wait"} /\ g \notin asleep
  /\ IF GameMustWait
     THEN asleep' = asleep \cup {g} /\ UNCHANGED pc
     ELSE /\ pc' = [pc EXCEPT ![g] = IF exitReq THEN "leaving" ELSE "flow"]
          /\ UNCHANGED asleep
  /\ UNCHANGED <<isGame, turn, exitReq, done, live, handle>>

\* game_thread_yield, reached by guest code on thread t.  On the main thread (an
\* interrupt handler that hits a wait) it is refused and returns at once.
Yield(t) ==
  /\ pc[t] \in {"flow", "vector"}
  /\ IF isGame[t]
     THEN /\ turn' = "main"
          /\ IF exitReq
             THEN /\ pc' = [pc EXCEPT ![t] = "leaving"]
                  /\ asleep' = Broadcast
             ELSE /\ pc' = [pc EXCEPT ![t] = "wait"]
                  /\ asleep' = Broadcast \cup {t}
     ELSE UNCHANGED <<turn, pc, asleep>>
  /\ UNCHANGED <<isGame, exitReq, done, live, handle>>

\* rt_call / rt_resume returns: the flow is over, the thread still has to say so.
FlowReturns(g) == /\ pc[g] = "flow"
                  /\ pc' = [pc EXCEPT ![g] = "returned"]
                  /\ UNCHANGED <<asleep, isGame, turn, exitReq, done, live, handle>>

\* The last critical section of game_thread_main.
GameFinish(g) == /\ pc[g] = "returned"
                 /\ done' = TRUE /\ turn' = "main"
                 /\ asleep' = Broadcast
                 /\ pc' = [pc EXCEPT ![g] = "leaving"]
                 /\ UNCHANGED <<isGame, exitReq, live, handle>>

\* With the mutex released, the thread function returns, or pthread_exit runs.
GameLeave(g) == /\ pc[g] = "leaving"
                /\ pc' = [pc EXCEPT ![g] = "exited"]
                /\ UNCHANGED <<asleep, isGame, turn, exitReq, done, live, handle>>

-----------------------------------------------------------------------------
MainNext == \/ RunOneFrame \/ FrameWake
            \/ VectorEnter \/ VectorReturn
            \/ \E reset \in BOOLEAN : StopGame(reset)
            \/ Join
            \/ \E g \in Game : Spawn(g)
            \/ Fini \/ Ended

GameNext(g) == \/ GameStart(g) \/ GameWake(g)
               \/ FlowReturns(g) \/ GameFinish(g) \/ GameLeave(g)

Next == \/ MainNext
        \/ \E g \in Game : GameNext(g)
        \/ \E t \in Thread : Yield(t) \/ SpuriousWake(t)

Spec == Init /\ [][Next]_vars

\* The threads are scheduled: what the host and the C library do on their own is
\* done.  Nothing is assumed of the guest flow ...
Scheduled == /\ WF_vars(FrameWake) /\ WF_vars(Join)
             /\ \A g \in Game : /\ WF_vars(GameStart(g)) /\ WF_vars(GameWake(g))
                                /\ WF_vars(GameFinish(g)) /\ WF_vars(GameLeave(g))

\* ... except here: it reaches a frame wait or returns.  The frame watchdog ends
\* the process when it does not (hw_watchdog.c).
GuestReachesWait ==
  \A g \in Game : WF_vars(pc[g] = "flow" /\ (Yield(g) \/ FlowReturns(g)))

\* Only the properties that need the guest assume it.
ScheduledSpec == Spec /\ Scheduled

-----------------------------------------------------------------------------
(* What must hold. *)

\* The code that touches the shared guest state (g_mem, s_game_ctx, g_state).
MainRuns == pc[Main] \in {"host", "vector", "stopped"}
GameRuns(g) == pc[g] \in {"flow", "returned"}

\* "EXACTLY ONE runs at a time" (game_loop.c:231): while a game thread runs guest
\* code the main thread is in run_one_frame's wait, and no second game thread runs.
OneRuns == \A g \in Game : GameRuns(g) =>
             /\ pc[Main] = "frame"
             /\ \A h \in Game : GameRuns(h) => h = g

\* A restart never leaves two game threads behind, and the handle the next stop
\* would join is the one that exists.
OneGameThread == \A g \in Game : pc[g] # "none" => live /\ g = handle

\* No wake-up is lost: a thread sleeps on the condition variable only while the
\* condition it waits for is false.
NoLostWakeup == /\ Main \in asleep => MainMustWait
                /\ \A g \in asleep \ {Main} : GameMustWait

\* The inductive strengthening of the three: who may be where for each value of
\* the shared flags.
HandleIsLive == live => handle \in Game /\ pc[handle] # "none"
RunningHasTurn == \A g \in Game : GameRuns(g) =>
                    pc[Main] = "frame" /\ turn = "game" /\ ~done /\ ~exitReq
FrameIsLive == pc[Main] = "frame" => live
DoneIsOver == done => \A g \in Game : pc[g] \in {"none", "leaving", "exited"}
ExitMeansJoin == live => (exitReq <=> pc[Main] = "join")
StoppedIsDead == /\ pc[Main] \in {"stopped", "ended"} => ~live
                 /\ pc[Main] = "join" => live
TurnIsTaken == turn = "game" /\ live /\ pc[Main] \notin {"frame", "join"} => done
SleepersWait == /\ Main \in asleep => pc[Main] = "frame"
                /\ \A g \in Game \cap asleep : pc[g] \in {"first", "wait"}
KnowsItself == /\ ~isGame[Main]
               /\ \A g \in Game : pc[g] \notin {"none", "created"} => isGame[g]

\* Every state of the hand-off: one live thread at most, running only in a frame
\* the host released, and every flag in step with where the two threads are.
Inv == /\ TypeOK
       /\ OneGameThread /\ HandleIsLive
       /\ RunningHasTurn /\ FrameIsLive /\ DoneIsOver
       /\ ExitMeansJoin /\ StoppedIsDead /\ TurnIsTaken
       /\ SleepersWait /\ NoLostWakeup /\ KnowsItself

\* A thread told to exit executes no guest instruction on its way out.
ExitRunsNoGuestCode ==
  [][\A g \in Game : exitReq => ~(~GameRuns(g) /\ GameRuns(g)')]_vars

\* A frame that was released comes back to the host, if the guest reaches its waits.
FrameReturns == GuestReachesWait => (pc[Main] = "frame" ~> pc[Main] = "host")

\* Stopping terminates whatever the guest flow would have done next: no guest
\* fairness is needed, the thread leaves from the wait it is parked in.
StopReturns == pc[Main] = "join" ~> pc[Main] = "stopped"

\* What the host waits for comes: the frame it released, and the thread it stops.
HostGetsBack == FrameReturns /\ StopReturns

-----------------------------------------------------------------------------
(* Refinement: the threads implement the turns of TurnTaking. *)

ControlMap == IF pc[Main] # "frame" THEN "host"
              ELSE IF \E g \in Game : GameRuns(g) THEN "guest"
              ELSE IF MainMustWait THEN "granted" ELSE "back"

FlowMap == IF ~live \/ exitReq THEN "absent" ELSE IF done THEN "over" ELSE "alive"

Turns == INSTANCE TurnTaking WITH control <- ControlMap, flow <- FlowMap

\* The detailed protocol takes exactly the turns the abstract one allows ...
TurnsTaken == Turns!Spec

\* ... and, when the guest reaches its waits, takes every turn it promises.
TurnsPromised == GuestReachesWait => Turns!Fairness
=============================================================================
