------------------------------ MODULE MCDisks ------------------------------
(* A disk set is installed, and a setup screen asks for one: each is run on  *)
(* a bench of its own, with two images: enough for a set that is partly      *)
(* whole, partly copied or removed, and for a choice that is incomplete;     *)
(* and three presses, so that two choices can be on their way while a third  *)
(* is asked for.                                                             *)
EXTENDS DiskStore

CONSTANTS d1, d2, Platforms, Players, Activities, MaxPicks

VARIABLES bench,
          platform, player, activity, pc, pmutex, gmutex, pending, active, chosen, staged, accepted, running, picks,
          slot, posted, importing, chooser, ui, answer, queue, names

S == INSTANCE SetupFlow

ASSUME PicksBounded == S!SetupAssumption

setup == <<platform, player, activity, pc, pmutex, gmutex, pending, active, chosen, staged, accepted, running, picks,
           slot, posted, importing, chooser, ui, answer, queue, names>>

\* A bench that is not run starts in one state.
Only(b, T) == IF bench = b THEN T ELSE {CHOOSE x \in T : TRUE}

DisksInit == /\ bench \in {"disks", "setup"} /\ Init
             /\ platform \in Only("setup", Platforms) /\ player \in Only("setup", Players)
             /\ activity \in Only("setup", Activities) /\ S!Init

\* A setup screen that was closed stays closed.
DisksNext == /\ UNCHANGED bench
             /\ \/ bench = "disks" /\ Next /\ UNCHANGED setup
                \/ bench = "setup" /\ (S!Next \/ UNCHANGED setup) /\ UNCHANGED vars

DisksSpec == /\ DisksInit /\ [][DisksNext]_<<bench, vars, setup>>
             /\ WF_vars(bench = "disks" /\ (Import \/ Promote))
             /\ WF_setup(bench = "setup" /\ S!FlowStep) /\ SF_setup(bench = "setup" /\ S!HostStep)

\* A bench's properties are about its own states; a setup screen that is not run asks for
\* nothing.
SetupOK == bench = "setup" => S!TypeOK /\ S!PatientIsSafe /\ S!SomeoneWillAnswer /\ S!AnswersNotMixed
PicksArrive == S!NothingDropped /\ S!PickEnds
DisksEnd == ImportEnds /\ (bench = "disks" => DebrisIsHarmless)

TwoDisks == {d1, d2}
=============================================================================
