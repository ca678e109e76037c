----------------------------- MODULE GuestCalls -----------------------------
(***************************************************************************)
(* Calls between the 68000 program and the port's native bodies, through   *)
(* the adapter in src/src/runtime/guest_runtime.cpp.                       *)
(*                                                                         *)
(* A thread's C stack alternates: an executor run interprets guest code;   *)
(* at an intercepted address it enters a native body; the body may call    *)
(* guest code again, which is a new run above it, send the guest somewhere *)
(* else, or ask for the whole run to be given back to the host.  The game  *)
(* flow has one such stack and parks inside a body; an interrupt vector    *)
(* then runs on the host thread with a stack of its own, over the same CPU *)
(* state, guest stack and active image.                                    *)
(*                                                                         *)
(* Of the guest only the depth of its own stack is kept: a7 is the number  *)
(* of return addresses on it.  The executor (amigaport) is outside the     *)
(* repository; what a run does is taken from how the adapter uses it.      *)
(***************************************************************************)
EXTENDS Naturals, Sequences

CONSTANTS MaxStack,  \* runs and bodies one thread has open
          MaxGuest,  \* return addresses on the guest's stack
          MaxImage   \* images activated

BoundAssumption == /\ MaxStack \in Nat \ {0} /\ MaxGuest \in Nat \ {0}
                   /\ MaxImage \in Nat \ {0}

Thread == {"game", "host"}
Kind   == {"replacement", \* stands for a whole subroutine: the adapter owes its RTS
           "observer",    \* runs the original by calling or continuing its own address
           "loader"}      \* brings in the next image, then jumps to it or leaves
Entry  == {"jsr", "jump"} \* what the guest's last instruction was

VARIABLES
  stack,   \* per thread: its open runs and bodies, innermost last
  frames,  \* Runtime::frames: what an exit or a continuation will flag
  out,     \* per thread: how the run on top ended, if it has
  a7,      \* return addresses on the guest's stack
  saved,   \* what call_fn_as will put back into it
  image,   \* the generation of the active image
  view,    \* s_game_ctx.image
  turn,    \* the thread that runs
  restart  \* a loader has asked the frame loop for a new flow

vars == <<stack, frames, out, a7, saved, image, view, turn, restart>>

Run == [is : {"run"}, stop : 0..MaxGuest,
        self  : BOOLEAN,   \* its caller called its own address
        fresh : BOOLEAN]   \* it has executed nothing yet
Native == [is : {"native"}, kind : Kind, entry : Entry,
           base   : 0..MaxGuest,       \* a7 on entry
           owed   : BOOLEAN,           \* its return address is on top at base
           image  : 1..MaxImage,       \* ctx->image
           loaded : BOOLEAN,
           moved  : BOOLEAN,           \* the PC is no longer its own address
           cont   : BOOLEAN, exit : BOOLEAN]

TypeOK == /\ stack \in [Thread -> Seq(Run \cup Native)]
          /\ \A t \in Thread : Len(stack[t]) <= MaxStack
          /\ frames \in [Thread -> Seq([on : Thread, at : 1..MaxStack])]
          /\ out \in [Thread -> {"none", "return", "handoff", "stale"}]
          /\ a7 \in 0..MaxGuest /\ saved \in 0..MaxGuest
          /\ image \in 1..MaxImage /\ view \in 1..MaxImage
          /\ turn \in Thread /\ restart \in BOOLEAN

NewRun(stop, self) == [is |-> "run", stop |-> stop, self |-> self, fresh |-> TRUE]

\* The flow parked before its first frame: its entry's return address is on the stack.
Init == /\ stack = [t \in Thread |-> IF t = "game" THEN <<NewRun(0, FALSE)>> ELSE <<>>]
        /\ frames = [t \in Thread |-> <<>>]
        /\ out = [t \in Thread |-> "none"]
        /\ a7 = 1 /\ saved = 0 /\ image = 1 /\ view = 1
        /\ turn = "host" /\ restart = FALSE

Top(t)   == stack[t][Len(stack[t])]
Below(t) == stack[t][Len(stack[t]) - 1]
Popped(s) == SubSeq(s, 1, Len(s) - 1)

\* Runtime::frames is thread_local: the list a thread adds to and flags is its own.
Owner(t) == t
Innermost(t) == frames[Owner(t)][Len(frames[Owner(t)])]

\* *frames().host_exits.back() = true, *frames().continuations.back() = true
ExitFlagged(s, t) == [s EXCEPT ![Innermost(t).on][Innermost(t).at].exit = TRUE]
ContFlagged(s, t) == [s EXCEPT ![Innermost(t).on][Innermost(t).at].cont = TRUE]

\* A run stops when the return address it watches has been taken off.
Ended(depth, run) == IF depth = run.stop THEN "return" ELSE "none"

-----------------------------------------------------------------------------
(* Guest code, in the run on top of a thread's stack. *)

Interprets(t) == /\ turn = t /\ stack[t] # <<>>
                 /\ Top(t).is = "run" /\ out[t] = "none"

Executed(t) == [stack EXCEPT ![t][Len(stack[t])].fresh = FALSE]

GuestCall(t) == /\ Interprets(t) /\ a7 < MaxGuest
                /\ a7' = a7 + 1 /\ stack' = Executed(t)
                /\ UNCHANGED <<frames, out, saved, image, view, turn, restart>>

GuestReturn(t) == /\ Interprets(t) /\ a7 > Top(t).stop
                  /\ a7' = a7 - 1 /\ stack' = Executed(t)
                  /\ out' = [out EXCEPT ![t] = Ended(a7 - 1, Top(t))]
                  /\ UNCHANGED <<frames, saved, image, view, turn, restart>>

\* The executor reaches an intercepted address: by a subroutine call, by a jump
\* or branch, or because the address is the one the host called.  The policy sees
\* only the last instruction retired, which in the third case is its caller's.
Enter(t, kind, how) ==
  /\ Interprets(t) /\ Len(stack[t]) < MaxStack
  /\ kind = "replacement" => how # "jump"
  /\ kind = "loader" => how = "jump"
  /\ how = "host" => Top(t).fresh /\ ~Top(t).self /\ Len(stack[t]) > 1
  /\ how = "jsr" => a7 < MaxGuest
  /\ a7' = IF how = "jsr" THEN a7 + 1 ELSE a7
  /\ stack' = [Executed(t) EXCEPT ![t] = Append(@,
       [is |-> "native", kind |-> kind,
        entry |-> IF how = "host" THEN Below(t).entry ELSE how,
        base |-> a7', owed |-> how # "jump", image |-> image, loaded |-> FALSE,
        moved |-> FALSE, cont |-> FALSE, exit |-> FALSE])]
  /\ frames' = [frames EXCEPT ![Owner(t)] =
                  Append(@, [on |-> t, at |-> Len(stack[t]) + 1])]
  /\ UNCHANGED <<out, saved, image, view, turn, restart>>

-----------------------------------------------------------------------------
(* A native body, on top of a thread's stack. *)

Inside(t) == /\ turn = t /\ stack[t] # <<>> /\ Top(t).is = "native" /\ out[t] = "none"

\* It has not spoken for its boundary yet.
Undecided(t) == Inside(t) /\ ~Top(t).moved /\ ~Top(t).cont /\ ~Top(t).exit

\* GuestCallPolicy::nested_boundary
Boundary(native, self) == IF ~self THEN "host"
                          ELSE IF native.entry = "jump" THEN "tail"
                          ELSE "subroutine"

\* A call stops at the return address the guest already pushed, at one pushed for
\* it, or, for a tail transfer, where the run under the body stops.
Stop(t, boundary) == CASE boundary = "host"       -> a7
                       [] boundary = "subroutine" -> a7 - 1
                       [] OTHER                   -> Below(t).stop

\* require_image throws; nothing between the adapter and the thread's C entry
\* catches it.
Stale(t) == /\ Top(t).image # image
            /\ out' = [out EXCEPT ![t] = "stale"]
            /\ UNCHANGED <<stack, frames, a7, saved, image, view, turn, restart>>

Call(t, self) ==
  /\ Undecided(t) /\ Len(stack[t]) < MaxStack
  /\ IF self THEN Top(t).kind = "observer" ELSE Top(t).kind = "replacement" /\ a7 < MaxGuest
  /\ \/ Stale(t)
     \/ LET boundary == Boundary(Top(t), self)
        IN  /\ Top(t).image = image
            /\ stack' = [stack EXCEPT ![t] = Append(@, NewRun(Stop(t, boundary), self))]
            /\ a7' = IF boundary = "host" THEN a7 + 1 ELSE a7
            /\ UNCHANGED <<frames, out, saved, image, view, turn, restart>>

\* rt_jump: only an observer, or a loader whose own context follows its image.
Jump(t) == /\ Undecided(t)
           /\ \/ Top(t).kind = "observer"
              \/ Top(t).kind = "loader" /\ Top(t).loaded /\ t = "game" /\ ~restart
           /\ \/ Stale(t)
              \/ /\ Top(t).image = image
                 /\ stack' = [ContFlagged(stack, t) EXCEPT ![t][Len(stack[t])].moved = TRUE]
                 /\ UNCHANGED <<frames, out, a7, saved, image, view, turn, restart>>

\* rt_continue_original
Continue(t) == /\ Undecided(t) /\ Top(t).kind = "observer"
               /\ \/ Stale(t)
                  \/ /\ Top(t).image = image
                     /\ stack' = ContFlagged(stack, t)
                     /\ UNCHANGED <<frames, out, a7, saved, image, view, turn, restart>>

\* rt_return_from_native, by a body that takes its own return address.
ReturnItself(t) == /\ Undecided(t) /\ Top(t).kind = "replacement"
                   /\ a7' = a7 - 1
                   /\ stack' = [stack EXCEPT ![t][Len(stack[t])].moved = TRUE]
                   /\ UNCHANGED <<frames, out, saved, image, view, turn, restart>>

\* The title loader rebinds its own context and on the flow goes on to jump.
LoadTitle(t) == /\ Undecided(t) /\ Top(t).kind = "loader" /\ ~Top(t).loaded
                /\ t = "game" => Len(stack[t]) = 2
                /\ image < MaxImage /\ image' = image + 1
                /\ stack' = [stack EXCEPT ![t][Len(stack[t])].loaded = TRUE,
                                          ![t][Len(stack[t])].image = image + 1]
                /\ restart' = (restart \/ t = "host")
                /\ UNCHANGED <<frames, out, a7, saved, view, turn>>

\* The gameplay loader activates without a context and always leaves.
LoadGameplay(t) == /\ Undecided(t) /\ Top(t).kind = "loader" /\ ~Top(t).loaded
                   /\ image < MaxImage /\ image' = image + 1
                   /\ stack' = [stack EXCEPT ![t][Len(stack[t])].loaded = TRUE]
                   /\ restart' = TRUE
                   /\ UNCHANGED <<frames, out, a7, saved, view, turn>>

\* rt_exit_to_host: a loader that has asked for a new flow, or the $0 trap.
Exit(t) == /\ Undecided(t) /\ Top(t).kind = "loader"
           /\ Top(t).loaded => restart
           /\ stack' = ExitFlagged(stack, t)
           /\ UNCHANGED <<frames, out, a7, saved, image, view, turn, restart>>

\* hw_vblank_wait: the flow gives the turn to the host thread inside a body.  Off
\* the flow the wait returns at once and changes nothing here.
Park == /\ Undecided("game")
        /\ turn' = "host"
        /\ UNCHANGED <<stack, frames, out, a7, saved, image, view, restart>>

\* GuestCallPolicy::completes_replacement
Completes(native) == native.kind = "replacement" /\ ~native.cont /\ ~native.exit /\ ~native.moved

\* The body returns to the run that entered it.
Return(t) == /\ Inside(t)
             /\ Top(t).kind = "replacement" \/ Top(t).moved \/ Top(t).cont \/ Top(t).exit
             /\ a7' = IF Completes(Top(t)) THEN a7 - 1 ELSE a7
             /\ stack' = [stack EXCEPT ![t] = Popped(@)]
             /\ frames' = [frames EXCEPT ![Owner(t)] = Popped(@)]
             /\ out' = [out EXCEPT ![t] = IF Top(t).exit THEN "handoff"
                                                         ELSE Ended(a7', Below(t))]
             /\ UNCHANGED <<saved, image, view, turn, restart>>

\* Mutant: rt_call without the test of hand_off_to_host.
LeaveIgnoring(t) == /\ turn = t /\ Len(stack[t]) > 1 /\ out[t] \in {"return", "handoff"}
                    /\ LET rest == [stack EXCEPT ![t] = Popped(@)]
                       IN  stack' = IF Top(t).self
                                    THEN [rest EXCEPT ![t][Len(rest[t])].moved = TRUE]
                                    ELSE rest
                    /\ out' = [out EXCEPT ![t] = "none"]
                    /\ UNCHANGED <<frames, a7, saved, image, view, turn, restart>>

\* A nested run is over: rt_call returns into the body that made it, and flags it
\* when the run was handed off.
Leave(t) == /\ turn = t /\ Len(stack[t]) > 1 /\ out[t] \in {"return", "handoff"}
            /\ LET rest == [stack EXCEPT ![t] = Popped(@)]
               IN  stack' = IF out[t] = "handoff" THEN ExitFlagged(rest, t)
                            ELSE IF Top(t).self
                                 THEN [rest EXCEPT ![t][Len(rest[t])].moved = TRUE]
                                 ELSE rest
            /\ out' = [out EXCEPT ![t] = "none"]
            /\ UNCHANGED <<frames, a7, saved, image, view, turn, restart>>

\* The outermost run is over: the flow has returned, or the vector has.
LeaveOutermost(t) == /\ turn = t /\ Len(stack[t]) = 1 /\ out[t] \in {"return", "handoff"}
                     /\ stack' = [stack EXCEPT ![t] = <<>>]
                     /\ out' = [out EXCEPT ![t] = "none"]
                     /\ a7' = IF t = "host" THEN saved ELSE a7
                     /\ turn' = "host"
                     /\ UNCHANGED <<frames, saved, image, view, restart>>

-----------------------------------------------------------------------------
(* The host thread between vectors. *)

Idle == turn = "host" /\ stack["host"] = <<>>

\* Mutant: the context is left as it was.
NotRebound == view

\* call_fn_as rebinds the frame loop's context before it lends the CPU.
Rebound == image

Vector == /\ Idle /\ stack["game"] # <<>> /\ a7 < MaxGuest
          /\ view' = Rebound
          /\ saved' = a7
          /\ IF view' # image
             THEN out' = [out EXCEPT !["host"] = "stale"] /\ UNCHANGED <<stack, a7>>
             ELSE /\ stack' = [stack EXCEPT !["host"] = <<NewRun(a7, FALSE)>>]
                  /\ a7' = a7 + 1 /\ UNCHANGED out
          /\ UNCHANGED <<frames, image, turn, restart>>

Resume == /\ Idle /\ stack["game"] # <<>> /\ ~restart
          /\ turn' = "game"
          /\ UNCHANGED <<stack, frames, out, a7, saved, image, view, restart>>

\* game_thread_stop ends the flow where it parks; the new thread's own lists are empty.
NoFrames == <<>>

Restart == /\ Idle /\ image < MaxImage
           /\ image' = image + 1 /\ view' = image + 1
           /\ stack' = [stack EXCEPT !["game"] = <<NewRun(0, FALSE)>>]
           /\ frames' = [frames EXCEPT !["game"] = NoFrames]
           /\ out' = [out EXCEPT !["game"] = "none"]
           /\ a7' = 1 /\ restart' = FALSE
           /\ UNCHANGED <<saved, turn>>

-----------------------------------------------------------------------------
GuestStep(t) == \/ GuestCall(t) \/ GuestReturn(t)
                \/ \E kind \in Kind, how \in {"jsr", "jump", "host"} : Enter(t, kind, how)

BodyStep(t) == \/ \E self \in BOOLEAN : Call(t, self)
               \/ Jump(t) \/ Continue(t) \/ ReturnItself(t)
               \/ LoadTitle(t) \/ LoadGameplay(t) \/ Exit(t)
               \/ Return(t)

Next == \/ \E t \in Thread : GuestStep(t) \/ BodyStep(t) \/ Leave(t) \/ LeaveOutermost(t)
        \/ Park \/ Vector \/ Resume \/ Restart

Spec == Init /\ [][Next]_vars

-----------------------------------------------------------------------------
(* Properties *)

\* What an exit or a continuation can flag is exactly the bodies the thread is
\* inside: a frame never outlives the C stack it points into, whether the body
\* returned or its thread was stopped inside it (guest_runtime.cpp:332).
Inv == /\ TypeOK
       /\ \A t \in Thread :
            /\ \A i \in 1..Len(stack[t]) :
                 stack[t][i].is = IF i % 2 = 1 THEN "run" ELSE "native"
            /\ frames[t] = [i \in 1..(Len(stack[t]) \div 2) |-> [on |-> t, at |-> 2 * i]]

\* However a body came to its end, the guest sees one return: the address it was
\* called with has been taken off once and nothing under it has been, or, for a
\* body that was jumped to, the run under it is at its own return.
ReturnsOwed == [][\A t \in Thread :
  /\ Inside(t) /\ Len(stack'[t]) < Len(stack[t])
  /\ ~Top(t).exit /\ ~Top(t).cont
  => a7' = IF Top(t).owed THEN Top(t).base - 1 ELSE Below(t).stop]_vars

\* No body and no vector reaches the executor with a context of an earlier image.
NoStaleCall == \A t \in Thread : out[t] # "stale"

\* A run is being given back to the host.
Leaving(t) == \/ out[t] = "handoff"
              \/ \E i \in 1..Len(stack[t]) : stack[t][i].is = "native" /\ stack[t][i].exit

\* Once a body asks for the host, every run and body below it goes the same way
\* and the guest executes nothing more on that thread (docs/issues/0012).
HostExitUnwinds == [][\A t \in Thread : Leaving(t) =>
                       /\ Len(stack'[t]) <= Len(stack[t]) /\ turn' \in {t, "host"}
                       /\ stack'[t] = <<>> \/ Leaving(t)']_vars

\* A vector, and whatever bodies it enters, leaves the parked flow's bodies and
\* flags as they were, and its guest stack as deep.
VectorsLeaveFlow == [][stack["host"] # <<>> =>
                        /\ stack'["game"] = stack["game"] /\ frames'["game"] = frames["game"]
                        /\ stack'["host"] = <<>> => a7' = stack["host"][1].stop]_vars

\* The three together: what a step of the stacks may never do.
CallsUnwind == ReturnsOwed /\ HostExitUnwinds /\ VectorsLeaveFlow
=============================================================================
