---------------------------- MODULE MCGuestFlow ----------------------------
(* The threads' hand-off, the runs and bodies on their stacks and the frame *)
(* loop with its programs and files each keep their own view of the flow,   *)
(* and the control channel's script of the frame: each is run on a bench of *)
(* its own.  Three game threads: a restart needs one and its successor,     *)
(* which would overlap if a stop did not wait for the join; the third       *)
(* overlaps both.                                                           *)
EXTENDS HandOff, Sequences

CONSTANTS MaxStack, MaxGuest, MaxImage, Drives, SaveMayFail, MaxFrames, Fast, Overlap

VARIABLES bench,
          stack, frames, out, a7, saved, active, view, runs, restart,
          at, ret, screen, image, bytes, flow, req, over, menu, freecam, pend, file,
          fast, overlap, place, frozen, shown, armed, armedOnce, paused, stepLeft, pressLeft, buttons, seen, http,
          asked, saw, budget

C == INSTANCE GuestCalls WITH image <- active, turn <- runs
L == INSTANCE GameLoop WITH done <- over
H == INSTANCE FrameHold WITH at <- place

ASSUME CallsBounded == C!BoundAssumption
ASSUME LoopBounds == L!ParameterAssumption
ASSUME HoldBounds == H!ParameterAssumption

calls == <<stack, frames, out, a7, saved, active, view, runs, restart>>
loop  == <<at, ret, screen, image, bytes, flow, req, over, menu, freecam, pend, file>>
hold  == <<fast, overlap, place, frozen, shown, armed, armedOnce, paused, stepLeft, pressLeft, buttons, seen, http,
           asked, saw, budget>>

\* A bench that is not run starts in one state.
Only(b, S) == IF bench = b THEN S ELSE {CHOOSE x \in S : TRUE}

FlowInit == /\ bench \in {"handoff", "calls", "loop", "hold"} /\ Init /\ C!Init
            /\ screen \in Only("loop", {"intro", "overlay"}) /\ L!Init
            /\ fast \in Only("hold", Fast) /\ overlap \in Only("hold", Overlap) /\ ~(fast /\ overlap) /\ H!Init

\* The calls' bounds may end a run of that bench.  A held frame that is not shown, or that
\* requests may overlap, is asked for one frame at a time.
FlowNext == /\ UNCHANGED bench
            /\ \/ bench = "handoff" /\ Next /\ UNCHANGED <<calls, loop, hold>>
               \/ bench = "calls" /\ (C!Next \/ UNCHANGED calls) /\ UNCHANGED <<vars, loop, hold>>
               \/ bench = "loop" /\ L!Next /\ UNCHANGED <<vars, calls, hold>>
               \/ /\ bench = "hold" /\ H!Next /\ UNCHANGED <<vars, calls, loop>>
                  /\ fast \/ overlap => http'.n <= 1

Threads(A) == bench = "handoff" /\ A
FlowSpec ==
  /\ FlowInit /\ [][FlowNext]_<<bench, vars, calls, loop, hold>>
  /\ WF_vars(Threads(FrameWake)) /\ WF_vars(Threads(Join))
  /\ \A g \in Game : /\ WF_vars(Threads(GameStart(g))) /\ WF_vars(Threads(GameWake(g)))
                     /\ WF_vars(Threads(GameFinish(g))) /\ WF_vars(Threads(GameLeave(g)))
  /\ WF_loop(bench = "loop" /\ L!Step)
  /\ WF_hold(bench = "hold" /\ H!FrameLoop) /\ WF_hold(bench = "hold" /\ H!Finish)

\* The turns are promised where the threads run.
TurnsKept == TurnsTaken /\ (bench = "handoff" => TurnsPromised)

CallsOK == C!Inv /\ C!NoStaleCall
CallsUnwind == C!CallsUnwind
LoopOK == L!Inv /\ L!ProgramMatchesImage /\ L!FilesResume
HandOffSurvivesOldFlow == L!HandOffSurvivesOldFlow
HoldOK == bench = "hold" => H!TypeOK /\ H!WatchKept /\ H!PressKept
HoldEnds == [][bench = "hold" => H!StepBegins]_hold /\ H!PauseHolds /\ H!ResumeRuns
RestartHappens == L!RestartHappens
=============================================================================
