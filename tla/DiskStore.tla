------------------------------ MODULE DiskStore ------------------------------
(***************************************************************************)
(* How a set of disk images becomes the installed one:                     *)
(* validate_staged_disks (src/src/platform/staged_disks.cpp), the          *)
(* DiskSelectionStore it publishes through (disk_selection_store.cpp) and  *)
(* committed_disks (setup_flow.cpp), step by step on the file system.      *)
(*                                                                         *)
(* The store keeps a selection file, which names the three images, two     *)
(* install slots (disk-set-a, disk-set-b) and an import area.  Every call  *)
(* to the file system may fail, and the process may be killed between any  *)
(* two of them; what is on disk then is what the next run finds.  Removing *)
(* a directory and copying an image take several steps; a rename is one.   *)
(***************************************************************************)
EXTENDS Naturals, FiniteSets

CONSTANT Disk        \* the images of a set: Disk.1, Disk.2 and Disk.3

VARIABLES
  at,        \* the step the program is about to take, "off" when none runs
  sel,       \* the slot the selection file names, "none" without a readable one
  temp,      \* the selection being written next to it: "absent", "torn" or a slot
  dir,       \* what each directory holds
  pick,      \* the staged choice of the player the validator works on
  target     \* the slot publish_import took for it

vars == <<at, sel, temp, dir, pick, target>>

Slot == {"a", "b"}
Place == Slot \cup {"import"}

\* An image is missing, half written, the supported one or another file.
Image == {"missing", "torn", "whole", "wrong"}
Files == [Disk -> Image]
None == [d \in Disk |-> "missing"]
Whole(files) == \A d \in Disk : files[d] = "whole"

\* What the player can present: loose images or an archive of them.
Pick == [archive : BOOLEAN, files : [Disk -> Image \ {"torn"}]]
NoPick == [archive |-> FALSE, files |-> None]

\* The steps of validate_staged_disks, of publish_import with persist, and of
\* what each clears away again when it gives up.
Importing == {"reserve", "extract", "judge", "copy"}
Publishing == {"publish", "clear", "rename", "open", "write", "swap"}
Undoing == {"discard", "untemp", "undo"}
At == {"off", "setup", "confirm", "game"} \cup Importing \cup Publishing \cup Undoing

TypeOK == /\ at \in At
          /\ sel \in Slot \cup {"none"}
          /\ temp \in Slot \cup {"absent", "torn"}
          /\ dir \in [Place -> Files]
          /\ pick \in Pick
          /\ target \in Slot

Init == /\ at = "off" /\ sel = "none" /\ temp = "absent"
        /\ dir = [p \in Place |-> None]
        /\ pick = NoPick
        /\ target = "a"

\* The program goes on, having changed nothing on disk; the validator's own
\* variables do not outlive its call.
To(next) == /\ at' = next /\ UNCHANGED <<sel, temp, dir>>
            /\ IF next \in {"setup", "off"} THEN pick' = NoPick /\ target' = "a"
                                           ELSE UNCHANGED <<pick, target>>

\* The game starts from the disks the selection names when they still validate.
Committed == sel # "none" /\ Whole(dir[sel])

Launch == at = "off" /\ To(IF Committed THEN "game" ELSE "setup")

Leave == at \in {"setup", "game"} /\ To("off")

\* Loose files are judged where they are staged, before the store is touched.
Refused(p) == ~p.archive /\ ~Whole(p.files)

Choose(p) == /\ at = "setup" /\ ~Refused(p)
             /\ pick' = p /\ at' = "reserve"
             /\ UNCHANGED <<sel, temp, dir, target>>

\* remove_all of directory p: one image at a time, in any order.
Remove(p, d) == /\ dir[p][d] # "missing"
                /\ dir' = [dir EXCEPT ![p][d] = "missing"]
                /\ UNCHANGED <<at, sel, temp, pick, target>>

\* The directories the current step removes.
Removes(p) == \/ at \in {"reserve", "discard"} /\ p = "import"
              \/ at \in {"clear", "undo"} /\ p = target

RemoveOne == \E p \in Place, d \in Disk : Removes(p) /\ Remove(p, d)

Removed(p, next) == dir[p] = None /\ To(next)

ReserveKeeps == \* mutant: what an earlier import left is not cleared away
  at = "reserve" /\ To(IF pick.archive THEN "extract" ELSE "copy")

\* reserve_import: whatever an earlier import left is cleared away first.
Reserve == at = "reserve" /\ Removed("import", IF pick.archive THEN "extract" ELSE "copy")

ReserveFails == at = "reserve" /\ To("setup")

\* The archive is unpacked aside and moved into place, which must not exist.
Extract == /\ at = "extract"
           /\ IF dir["import"] = None
                THEN /\ dir' = [dir EXCEPT !["import"] = pick.files]
                     /\ at' = "judge"
                     /\ UNCHANGED <<sel, temp, pick, target>>
                ELSE To("discard")

\* A failed extraction leaves what it left.
ExtractFails == /\ at = "extract" /\ dir["import"] = None /\ at' = "discard"
                /\ \E left \in Files : dir' = [dir EXCEPT !["import"] = left]
                /\ UNCHANGED <<sel, temp, pick, target>>

JudgeNothing == \* mutant: an archive is published without validate_set
  at = "judge" /\ To("publish")

\* validate_set on what came out of the archive.
Judge == at = "judge" /\ To(IF Whole(dir["import"]) THEN "publish" ELSE "discard")

CopyBegin(d) == /\ at = "copy" /\ dir["import"][d] = "missing"
                /\ dir' = [dir EXCEPT !["import"][d] = "torn"]
                /\ UNCHANGED <<at, sel, temp, pick, target>>

CopyEnd(d) == /\ at = "copy" /\ dir["import"][d] = "torn"
              /\ dir' = [dir EXCEPT !["import"][d] = pick.files[d]]
              /\ UNCHANGED <<at, sel, temp, pick, target>>

CopyFails == at = "copy" /\ To("discard")

CopiedTorn == \* mutant: a short copy_file is taken for a complete one
  /\ at = "copy" /\ \A d \in Disk : dir["import"][d] # "missing"
  /\ To("publish")

Copied == /\ at = "copy"
          /\ \A d \in Disk : dir["import"][d] \notin {"missing", "torn"}
          /\ To("publish")

\* discard_import after a refusal: its own failure is only reported.
Discard == at = "discard" /\ (Removed("import", "setup") \/ To("setup"))

InactiveFirst == \* mutant: inactive_slot always takes the first slot
  "a"

\* The slot the stored selection does not name.
Inactive == IF sel = "a" THEN "b" ELSE "a"

Publish == /\ at = "publish"
           /\ target' = Inactive
           /\ at' = "clear"
           /\ UNCHANGED <<sel, temp, dir, pick>>

Clear == at = "clear" /\ Removed(target, "rename")

\* publish_import gives up and leaves the import area for the next reserve.
PublishFails == at \in {"publish", "clear", "rename"} /\ To("setup")

Rename == /\ at = "rename"
          /\ dir' = [dir EXCEPT ![target] = dir["import"], !["import"] = None]
          /\ at' = "open"
          /\ UNCHANGED <<sel, temp, pick, target>>

\* persist: truncate, write and close the new selection, then rename it.
OpenSelection == /\ at = "open"
                 /\ temp' = "torn"
                 /\ at' = "write"
                 /\ UNCHANGED <<sel, dir, pick, target>>

OpenFails == at = "open" /\ To("undo")

WriteSelection == /\ at = "write"
                  /\ temp' = target
                  /\ at' = "swap"
                  /\ UNCHANGED <<sel, dir, pick, target>>

SwapSelection == /\ at = "swap"
                 /\ sel' = temp /\ temp' = "absent"
                 /\ at' = "confirm"
                 /\ UNCHANGED <<dir, pick, target>>

PersistFails == at \in {"write", "swap"} /\ To("untemp")

\* A failed persist discards what it staged, then the slot it would have named.
Untemp == /\ at = "untemp"
          /\ \/ temp' = "absent"
             \/ UNCHANGED temp
          /\ at' = "undo"
          /\ UNCHANGED <<sel, dir, pick, target>>

Undo == at = "undo" /\ (Removed(target, "setup") \/ To("setup"))

\* finish_accepted reads the selection back.
Confirm == at = "confirm" /\ To(IF Committed THEN "game" ELSE "off")

Crash == at # "off" /\ To("off")

\* Between two runs anyone may alter the files; an unreadable selection is none.
Disturb == /\ at = "off"
           /\ \/ \E p \in Slot, d \in Disk, f \in {"missing", "wrong"} :
                   /\ dir' = [dir EXCEPT ![p][d] = f]
                   /\ UNCHANGED sel
              \/ sel' = "none" /\ UNCHANGED dir
           /\ UNCHANGED <<at, temp, pick, target>>

Import == \/ RemoveOne \/ Reserve \/ Extract \/ Judge \/ Copied \/ Discard
          \/ \E d \in Disk : CopyBegin(d) \/ CopyEnd(d)

Promote == \/ Publish \/ Clear \/ Rename \/ OpenSelection \/ WriteSelection
           \/ SwapSelection \/ Untemp \/ Undo \/ Confirm

Fault == \/ ReserveFails \/ ExtractFails \/ CopyFails \/ PublishFails
         \/ OpenFails \/ PersistFails \/ Crash

Next == Launch \/ Leave \/ (\E p \in Pick : Choose(p)) \/ Import \/ Promote \/ Fault \/ Disturb

Spec == Init /\ [][Next]_vars

\* Everything but the player's and the environment's choices is carried out.
FairSpec == Spec /\ WF_vars(Import \/ Promote)

-----------------------------------------------------------------------------
(* What the steps of an import rely on, each on what the earlier ones left. *)

\* The slot being filled is never the one the selection names.
TargetIsFree == at \in (Publishing \ {"publish"}) \cup {"untemp", "undo"} => target # sel

\* What publish_import promotes has been judged, and stays whole while it moves.
PromotesWhole == /\ at \in {"publish", "clear", "rename"} => Whole(dir["import"])
                 /\ at \in {"open", "write", "swap"} => Whole(dir[target])

\* Loose files were judged before the store is touched, and are not judged again.
PickJudged == at = "reserve" => pick.archive \/ Whole(pick.files)
CopiesJudged == at = "copy" => /\ Whole(pick.files)
                               /\ \A d \in Disk : dir["import"][d] # "wrong"

\* A selection is renamed into place only when it is written to the end.
SwapsWritten == at = "swap" => temp = target

\* The game runs from the set the selection names, and that set is whole.
GameRunsWhole == at \in {"confirm", "game"} => Committed

\* What makes the import safe to interrupt at any step, by a failure of the
\* file system or by the death of the process.
Safe == /\ TargetIsFree /\ PromotesWhole /\ PickJudged /\ CopiesJudged /\ SwapsWritten
        /\ GameRunsWhole
Inv == TypeOK /\ Safe

\* While the program runs no step of it alters an image of the slot the stored
\* selection names, whatever an import in progress does to the rest.
SelectedUntouched == [][at # "off" /\ sel # "none" => dir'[sel] = dir[sel]]_vars

\* The installed set is replaced whole or not at all: "so a rejected upload
\* never displaces the current installation" (staged_disks.cpp:4-6).
mode == IF at \in {"off", "game"} THEN at ELSE "setup"
installed == IF sel = "none" THEN "none" ELSE IF Committed THEN "whole" ELSE "broken"
Product == INSTANCE Installation
InstallsWholeOrNothing == Product!Spec

\* Every import comes to an end: back at the screen, in the game or gone.
ImportEnds == (at \in Importing \cup Publishing \cup Undoing) ~> (at \in {"setup", "game", "off"})

\* What earlier imports left behind never makes a later one fail: unless the
\* file system fails or the files are disturbed for ever, a player presents a
\* whole set a finite number of times.
DebrisIsHarmless == \/ []<><<Fault \/ Disturb>>_vars
                    \/ <>[](at # "reserve" \/ ~Whole(pick.files))
=============================================================================
