----------------------------- MODULE TurnTaking -----------------------------
(***************************************************************************)
(* What the hand-off between Benefactor's main thread and its game thread  *)
(* promises, without threads, mutex or condition variable: the host (the   *)
(* SDL loop) and the guest flow take turns, one grant buys exactly one     *)
(* frame of the flow, and the flow is replaced only in the host's turn.    *)
(* HandOff.tla is the detailed specification; it implements this one.      *)
(***************************************************************************)

VARIABLES
  control,  \* whose turn it is: "host", "granted", "guest", "back"
  flow      \* the guest flow: "absent", "alive", "over" (returned)

vars == <<control, flow>>

Controls == {"host", "granted", "guest", "back"}
Flows    == {"absent", "alive", "over"}

Init == control = "host" /\ flow = "absent"

\* The host buys one frame of the flow.
Grant == /\ control = "host" /\ flow = "alive"
         /\ control' = "granted"
         /\ UNCHANGED flow

\* The flow takes the turn it was granted.
Begin == /\ control = "granted"
         /\ control' = "guest"
         /\ UNCHANGED flow

\* The flow reaches its next frame wait and parks ...
Park == /\ control = "guest"
        /\ control' = "back"
        /\ UNCHANGED flow

\* ... or its outermost guest call returns: it will never run again.
Return == /\ control = "guest"
          /\ control' = "back"
          /\ flow' = "over"

\* The host notices that the frame is over.
Regain == /\ control = "back"
          /\ control' = "host"
          /\ UNCHANGED flow

\* The flow is retired, and a new one created, in the host's turn only.
Retire == /\ control = "host" /\ flow # "absent"
          /\ flow' = "absent"
          /\ UNCHANGED control

Create == /\ control = "host" /\ flow = "absent"
          /\ flow' = "alive"
          /\ UNCHANGED control

Next == \/ Grant \/ Begin \/ Park \/ Return \/ Regain \/ Retire \/ Create

Spec == Init /\ [][Next]_vars

\* Every granted frame starts, ends (the guest reaches a wait or returns) and
\* is handed back.
Fairness == /\ WF_vars(Begin)
            /\ WF_vars(Park \/ Return)
            /\ WF_vars(Regain)
=============================================================================
