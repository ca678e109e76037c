----------------------------- MODULE FrameHold -----------------------------
(***************************************************************************)
(* Holding, stepping and pressing from the control channel: the InputScript*)
(* of src/src/port/control/input_script.cpp, written by the HTTP thread of *)
(* control_server.cpp and by breakpoints (port/debug/debugger.cpp), read   *)
(* and counted down by the frame loop inside a present (engine/hw.c), with *)
(* the frame watchdog of engine/hw_watchdog.c standing down while held.    *)
(*                                                                         *)
(* The script's fields are plain ints and bools shared by two threads, so  *)
(* each load and each store is a step.  One request is served at a time.   *)
(***************************************************************************)
EXTENDS Integers

CONSTANTS
  MaxFrames,    \* bound: the longest press and step asked for
  Fast,         \* does the player hold fast-forward (frames produced, not shown)
  Overlap       \* can a request run while InputScript::frame() runs

ParameterAssumption == /\ MaxFrames \in Nat \ {0}
                       /\ Fast \subseteq BOOLEAN /\ Overlap \subseteq BOOLEAN

Frames == 1..MaxFrames

VARIABLES
  fast,       \* fast-forward may be held: a value of Fast, chosen once
  overlap,    \* requests may overlap frame(): a value of Overlap, chosen once
  at,         \* where the frame loop is
  frozen,     \* this step is one of the pause menu or of free cam
  shown,      \* this frame is presented (not skipped by fast-forward)
  armed,      \* the watchdog's timer is running
  armedOnce,  \* s_wd_what is set: what hw_watchdog_rearm re-arms
  paused,     \* paused_
  stepLeft,   \* step_left_, -1 when not stepping
  pressLeft,  \* press_left_
  buttons,    \* what apply() last gave the hardware: held_ or a press
  seen,       \* the counter frame() has loaded and not stored back
  http,       \* the second half of the request being served
  asked,      \* history: the length of the press applied last
  saw,        \* history: the game frames that have begun with it
  budget      \* history: game frames a step from a hold may still begin, -1: any

loop   == <<fast, overlap, at, frozen, shown, armed, armedOnce>>
script == <<paused, stepLeft, pressLeft, buttons, seen>>
past   == <<asked, saw, budget>>
vars   == <<loop, script, http, past>>

\* InputScript::frame(), load by load and store by store.
FrameCode == {"pressLoad", "pressStore", "release", "stepLoad", "stepStore", "stepClear",
              "stepHold"}
Held == {"hold", "gameBreak", "audioBreak"}
Places == {"top", "game", "present", "pace", "after", "audio"} \cup FrameCode \cup Held
Request == [op : {"idle", "step", "pause", "resume", "press", "hold"}, n : 0..MaxFrames]
Idle == [op |-> "idle", n |-> 0]

TypeOK == /\ fast \in Fast /\ overlap \in Overlap
          /\ at \in Places
          /\ frozen \in BOOLEAN /\ shown \in BOOLEAN
          /\ armed \in BOOLEAN /\ armedOnce \in BOOLEAN /\ (armed => armedOnce)
          /\ paused \in BOOLEAN
          /\ stepLeft \in -1..MaxFrames /\ pressLeft \in 0..MaxFrames
          /\ buttons \in {"held", "pressed"}
          /\ seen \in 0..MaxFrames
          /\ http \in Request
          /\ asked \in 0..MaxFrames /\ saw \in 0..(MaxFrames + 1) /\ budget \in -1..MaxFrames

Init == /\ fast \in Fast /\ overlap \in Overlap
        /\ at = "top" /\ frozen = FALSE /\ shown = TRUE
        /\ armed = FALSE /\ armedOnce = FALSE
        /\ paused = FALSE /\ stepLeft = -1 /\ pressLeft = 0 /\ buttons = "held" /\ seen = 0
        /\ http = Idle
        /\ asked = 0 /\ saw = 0 /\ budget = -1

-----------------------------------------------------------------------------
(* The frame loop. *)

\* Without overlap a request falls between two runs of frame().
Alone == overlap \/ http = Idle

\* pc_step: a frozen step presents without releasing the game or arming anything.
Freeze == /\ at = "top"
          /\ at' = "audio" /\ frozen' = TRUE
          /\ UNCHANGED <<shown, armed, armedOnce, script, http, past>>

\* hw_watchdog_arm, then pc_step_threaded begins a game frame.
Begin == /\ at = "top"
         /\ at' = "game" /\ frozen' = FALSE
         /\ armed' = TRUE /\ armedOnce' = TRUE
         /\ saw' = IF buttons = "pressed" /\ saw <= MaxFrames THEN saw + 1 ELSE saw
         /\ budget' = IF budget > 0 THEN budget - 1 ELSE budget
         /\ UNCHANGED <<shown, script, http, asked>>

BreakKeepsTimer == \* mutant: the watchdog does not stand down at a breakpoint
  /\ at \in {"game", "audio"} /\ paused' = TRUE /\ stepLeft' = -1 /\ budget' = -1
  /\ at' = IF at = "game" THEN "gameBreak" ELSE "audioBreak"
  /\ UNCHANGED <<frozen, shown, armed, armedOnce, pressLeft, buttons, seen, http, asked, saw>>

\* A breakpoint reached by the flow, or by the music vector of pc_audio_frame:
\* Debugger::reached pauses, the handler holds the thread where it is.
Break == /\ at \in {"game", "audio"}
         /\ paused' = TRUE /\ stepLeft' = -1
         /\ armed' = FALSE
         /\ at' = IF at = "game" THEN "gameBreak" ELSE "audioBreak"
         /\ budget' = -1
         /\ UNCHANGED <<frozen, shown, armedOnce, pressLeft, buttons, seen, http, asked, saw>>

\* The loop of the breakpoint handler ends; hw_watchdog_rearm.
Unbreak == /\ at \in {"gameBreak", "audioBreak"} /\ ~paused
           /\ at' = IF at = "gameBreak" THEN "game" ELSE "audio"
           /\ armed' = armedOnce
           /\ UNCHANGED <<frozen, shown, armedOnce, script, http, past>>

\* The game parks; hw_present_body renders the frame or skips it.
Parks == /\ at = "game"
         /\ at' = "present"
         /\ UNCHANGED <<frozen, shown, armed, armedOnce, script, http, past>>

Present == /\ at = "present"
           /\ at' = "pace"
           /\ shown' \in (IF fast THEN BOOLEAN ELSE {TRUE})
           /\ UNCHANGED <<frozen, armed, armedOnce, script, http, past>>

PaceDone == IF shown THEN "pressLoad" ELSE "after"

\* hw_pace_frame: held by the channel, or on at the frame's own pace.
Pace == /\ at = "pace"
        /\ at' = IF paused THEN "hold" ELSE PaceDone
        /\ armed' = (armed /\ ~paused)
        /\ UNCHANGED <<frozen, shown, armedOnce, script, http, past>>

Unhold == /\ at = "hold" /\ ~paused
          /\ at' = PaceDone
          /\ armed' = armedOnce
          /\ UNCHANGED <<frozen, shown, armedOnce, script, http, past>>

\* Back in pc_step: a game frame disarms and goes on to its audio.
After == /\ at = "after"
         /\ at' = IF frozen THEN "top" ELSE "audio"
         /\ armed' = (armed /\ frozen)
         /\ UNCHANGED <<frozen, shown, armedOnce, script, http, past>>

\* The frozen step plays its audio before its present, the game frame after.
Audio == /\ at = "audio"
         /\ at' = IF frozen THEN "present" ELSE "top"
         /\ UNCHANGED <<frozen, shown, armed, armedOnce, script, http, past>>

-----------------------------------------------------------------------------
(* InputScript::frame(): if (press_left_ > 0 && --press_left_ == 0) apply(held_) *)
(* and the same for the step.                                                    *)

PressLoad == /\ at = "pressLoad"
             /\ IF pressLeft > 0 THEN at' = "pressStore" /\ seen' = pressLeft
                                 ELSE at' = "stepLoad" /\ UNCHANGED seen
             /\ UNCHANGED <<frozen, shown, armed, armedOnce, paused, stepLeft, pressLeft,
                            buttons, http, past>>

PressStore == /\ at = "pressStore"
              /\ pressLeft' = seen - 1
              /\ at' = IF seen = 1 THEN "release" ELSE "stepLoad"
              /\ UNCHANGED <<frozen, shown, armed, armedOnce, paused, stepLeft, buttons, seen,
                             http, past>>

Release == /\ at = "release"
           /\ buttons' = "held"
           /\ at' = "stepLoad"
           /\ UNCHANGED <<frozen, shown, armed, armedOnce, paused, stepLeft, pressLeft, seen,
                          http, past>>

StepLoad == /\ at = "stepLoad"
            /\ IF stepLeft > 0 THEN at' = "stepStore" /\ seen' = stepLeft
                               ELSE at' = "after" /\ UNCHANGED seen
            /\ UNCHANGED <<frozen, shown, armed, armedOnce, paused, stepLeft, pressLeft,
                           buttons, http, past>>

StepStoreLate == \* mutant: the step ends one frame after its count
  /\ at = "stepStore" /\ stepLeft' = seen - 1 /\ at' = "after"
  /\ UNCHANGED <<frozen, shown, armed, armedOnce, paused, pressLeft, buttons, seen, http, past>>

StepStore == /\ at = "stepStore"
             /\ stepLeft' = seen - 1
             /\ at' = IF seen = 1 THEN "stepClear" ELSE "after"
             /\ UNCHANGED <<frozen, shown, armed, armedOnce, paused, pressLeft, buttons, seen,
                            http, past>>

StepClear == /\ at = "stepClear"
             /\ stepLeft' = -1
             /\ at' = "stepHold"
             /\ UNCHANGED <<frozen, shown, armed, armedOnce, paused, pressLeft, buttons, seen,
                            http, past>>

StepHold == /\ at = "stepHold"
            /\ paused' = TRUE
            /\ at' = "after"
            /\ UNCHANGED <<frozen, shown, armed, armedOnce, stepLeft, pressLeft, buttons, seen,
                           http, past>>

FrameLoop == /\ Alone /\ UNCHANGED <<fast, overlap>>
             /\ \/ Freeze \/ Begin \/ Break \/ Unbreak \/ Parks \/ Present \/ Pace \/ Unhold
                \/ After \/ Audio
                \/ PressLoad \/ PressStore \/ Release
                \/ StepLoad \/ StepStore \/ StepClear \/ StepHold

-----------------------------------------------------------------------------
(* The routes, each two stores. *)

Serve(op, n) == /\ http = Idle /\ (overlap \/ at \notin FrameCode)
                /\ http' = [op |-> op, n |-> n]
                /\ UNCHANGED loop

AskStep(n) == /\ Serve("step", n)
              /\ stepLeft' = n
              /\ UNCHANGED <<paused, pressLeft, buttons, seen, past>>

AskPause == /\ Serve("pause", 0)
            /\ paused' = TRUE
            /\ budget' = -1
            /\ UNCHANGED <<stepLeft, pressLeft, buttons, seen, asked, saw>>

AskResume == /\ Serve("resume", 0)
             /\ paused' = FALSE
             /\ budget' = -1
             /\ UNCHANGED <<stepLeft, pressLeft, buttons, seen, asked, saw>>

AskPress(n) == /\ Serve("press", n)
               /\ pressLeft' = n
               /\ UNCHANGED <<paused, stepLeft, buttons, seen, past>>

AskHold == /\ Serve("hold", 0)
           /\ pressLeft' = 0
           /\ UNCHANGED <<paused, stepLeft, buttons, seen, past>>

\* The other store of each.
Finish == /\ http # Idle
          /\ http' = Idle
          /\ CASE http.op = "step" ->
                    /\ paused' = FALSE
                    /\ budget' = IF at = "hold" THEN http.n ELSE -1
                    /\ UNCHANGED <<stepLeft, pressLeft, buttons, asked, saw>>
               [] http.op \in {"pause", "resume"} ->
                    /\ stepLeft' = -1
                    /\ UNCHANGED <<paused, pressLeft, buttons, past>>
               [] http.op = "press" ->
                    /\ buttons' = "pressed"
                    /\ asked' = http.n /\ saw' = 0
                    /\ UNCHANGED <<paused, stepLeft, pressLeft, budget>>
               [] OTHER ->
                    /\ buttons' = "held"
                    /\ UNCHANGED <<paused, stepLeft, pressLeft, past>>
          /\ UNCHANGED <<loop, seen>>

Channel == \/ \E n \in Frames : AskStep(n) \/ AskPress(n)
           \/ AskPause \/ AskResume \/ AskHold
           \/ Finish

Next == FrameLoop \/ Channel

Spec == Init /\ [][Next]_vars

\* The frame loop keeps stepping (pc_run) and a request that was begun is finished.
FairSpec == Spec /\ WF_vars(FrameLoop) /\ WF_vars(Finish)

-----------------------------------------------------------------------------
(* What must hold. *)

\* "the frame watchdog has to stand down" while the game is held (hw.c:521), however
\* long the hold and wherever in the step it began; and the guest never runs a
\* frame unwatched: what stood down is armed again.
WatchKept == /\ at \in Held => ~armed
             /\ at = "game" \/ (at \in FrameCode /\ ~frozen) => armed

\* A press in force is one the frame loop will still release: its count of
\* InputScript::frame() is not spent.
PressReleased == buttons = "pressed" /\ http = Idle => pressLeft > 0 \/ at = "release"

\* When no request falls inside frame(), that holds, and the game sees the press for
\* no more frames than were asked for.
PressKept == ~overlap => PressReleased /\ (~fast /\ buttons = "pressed" => saw <= asked)

\* From a hold, /step?frames=N lets N game frames begin and not one more.
StepBegins == ~overlap /\ ~fast /\ Begin => budget # 0

\* A pause that is not withdrawn stops the game ...
PauseHolds == <>[](paused /\ http = Idle) => <>[](at \in Held)

\* ... and one that is withdrawn for good lets it go on, whatever requests go on
\* (without overlap they could take every turn, which the code does not let them).
ResumeRuns == <>[](~paused /\ (overlap \/ http = Idle)) => []<>(at = "top")
=============================================================================
