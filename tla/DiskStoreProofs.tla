-------------------------- MODULE DiskStoreProofs --------------------------
(***************************************************************************)
(* Proofs about DiskStore.tla, for a set of any number of images: Safe is   *)
(* inductive, no step disturbs the slot in use, and the steps of an import *)
(* implement the single commit of Installation.                            *)
(***************************************************************************)
EXTENDS MCDisks, SequenceTheorems, TLAPS

LEMMA InitInv == Init => Inv
  BY DEF Init, Inv, TypeOK, Safe, TargetIsFree, PromotesWhole, CopiesJudged, PickJudged, SwapsWritten,
         GameRunsWhole, At, Importing, Publishing, Undoing, Slot, Place, Pick, Files, Image,
         NoPick, None

-----------------------------------------------------------------------------
(* One lemma per kind of step: those that change nothing on disk, those that   *)
(* change a directory, and those that change the selection.                    *)

\* A step that only moves on keeps Safe when what the next step relies on holds.
LEMMA ToInv ==
  ASSUME Inv, NEW next \in At, To(next),
         next \in (Publishing \ {"publish"}) \cup {"untemp", "undo"} => target # sel,
         next \in {"publish", "clear", "rename"} => Whole(dir["import"]),
         next \in {"open", "write", "swap"} => Whole(dir[target]),
         next = "reserve" => FALSE,
         next = "copy" => Whole(pick.files) /\ \A d \in Disk : dir["import"][d] # "wrong",
         next = "swap" => temp = target,
         next \in {"confirm", "game"} => Committed
  PROVE  Inv'
<1>1. CASE next \in {"setup", "off"}
  <2>1. NoPick \in Pick /\ "a" \in Slot
    BY DEF NoPick, None, Pick, Image, Slot
  <2>2. TypeOK'
    BY <1>1, <2>1 DEF Inv, TypeOK, To
  <2>3. Safe'
    BY <1>1 DEF To, Safe, TargetIsFree, PromotesWhole, CopiesJudged, PickJudged, SwapsWritten,
                GameRunsWhole, Publishing
  <2> QED BY <2>2, <2>3 DEF Inv
<1>2. CASE next \notin {"setup", "off"}
  <2>1. at' = next /\ UNCHANGED <<sel, temp, dir, pick, target>>
    BY <1>2 DEF To
  <2>2. TypeOK'
    BY <2>1 DEF Inv, TypeOK
  <2>3. Safe'
    BY <2>1 DEF Safe, TargetIsFree, PromotesWhole, CopiesJudged, PickJudged, SwapsWritten,
                GameRunsWhole, Committed, Whole
  <2> QED BY <2>2, <2>3 DEF Inv
<1> QED BY <1>1, <1>2

LEMMA ChooseInv ==
  ASSUME Inv, NEW p \in Pick, Choose(p)
  PROVE  Inv'
<1>1. TypeOK'
  BY DEF Inv, TypeOK, Choose, At, Importing
<1>2. Safe'
  BY DEF Choose, Refused, Safe, TargetIsFree, PromotesWhole, CopiesJudged, PickJudged,
         SwapsWritten, GameRunsWhole,
         Publishing
<1> QED BY <1>1, <1>2 DEF Inv

LEMMA LaunchInv ==
  ASSUME Inv, Launch
  PROVE  Inv'
<1>1. PICK next \in {"game", "setup"} : To(next) /\ (next = "game" => Committed)
  BY DEF Launch
<1> QED BY <1>1, ToInv DEF At, Publishing

LEMMA FaultInv ==
  ASSUME Inv, Fault
  PROVE  Inv'
<1>1. CASE ReserveFails \/ PublishFails
  <2>1. To("setup")
    BY <1>1 DEF ReserveFails, PublishFails
  <2> QED BY <2>1, ToInv DEF At, Publishing
<1>2. CASE CopyFails
  <2>1. To("discard")
    BY <1>2 DEF CopyFails
  <2> QED BY <2>1, ToInv DEF At, Undoing, Publishing
<1>6. CASE ExtractFails
  <2>1. TypeOK'
    BY <1>6 DEF ExtractFails, Inv, TypeOK, Place, At, Undoing
  <2>2. Safe'
    BY <1>6 DEF ExtractFails, Safe, TargetIsFree, PromotesWhole, CopiesJudged, PickJudged,
                SwapsWritten, GameRunsWhole, Publishing
  <2> QED BY <2>1, <2>2 DEF Inv
<1>3. CASE OpenFails
  <2>1. To("undo") /\ target # sel
    BY <1>3 DEF OpenFails, Inv, Safe, TargetIsFree, Publishing
  <2> QED BY <2>1, ToInv DEF At, Undoing, Publishing
<1>4. CASE PersistFails
  <2>1. To("untemp") /\ target # sel
    BY <1>4 DEF PersistFails, Inv, Safe, TargetIsFree, Publishing
  <2> QED BY <2>1, ToInv DEF At, Undoing, Publishing
<1>5. CASE Crash
  <2>1. To("off")
    BY <1>5 DEF Crash
  <2> QED BY <2>1, ToInv DEF At, Publishing
<1> QED BY <1>1, <1>2, <1>3, <1>4, <1>5, <1>6 DEF Fault

LEMMA RemoveOneInv ==
  ASSUME Inv, RemoveOne
  PROVE  Inv'
<1>1. PICK p \in Place, d \in Disk : Removes(p) /\ Remove(p, d)
  BY DEF RemoveOne
<1>2. TypeOK'
  BY <1>1 DEF Inv, TypeOK, Remove, Files, Image
<1>3. at \in {"reserve", "discard", "clear", "undo"}
  BY <1>1 DEF Removes
<1>4. at = "clear" => p # "import"
  BY <1>1 DEF Removes, Inv, TypeOK, Slot
<1>5. PromotesWhole'
  BY <1>1, <1>3, <1>4 DEF Inv, TypeOK, Safe, PromotesWhole, Remove, Whole
<1>6. (TargetIsFree /\ CopiesJudged /\ PickJudged /\ SwapsWritten /\ GameRunsWhole)'
  BY <1>1, <1>3 DEF Inv, Safe, TargetIsFree, CopiesJudged, PickJudged,
         SwapsWritten, GameRunsWhole, Remove
<1> QED BY <1>2, <1>5, <1>6 DEF Inv, Safe

LEMMA CopyInv ==
  ASSUME Inv, NEW d \in Disk, CopyBegin(d) \/ CopyEnd(d)
  PROVE  Inv'
<1> USE DEF CopyBegin, CopyEnd
<1>1. pick.files[d] = "whole"
  BY DEF Inv, Safe, CopiesJudged, Whole
<1>2. TypeOK'
  BY <1>1 DEF Inv, TypeOK, Files, Image, Place
<1>3. CopiesJudged'
  BY <1>1 DEF Inv, TypeOK, Safe, CopiesJudged, Whole, Place, Files
<1>4. (TargetIsFree /\ PromotesWhole /\ PickJudged /\ SwapsWritten /\ GameRunsWhole)'
  BY DEF Inv, Safe, TargetIsFree, PromotesWhole, PickJudged, SwapsWritten,
         GameRunsWhole, Publishing
<1> QED BY <1>2, <1>3, <1>4 DEF Inv, Safe

LEMMA ImportInv ==
  ASSUME Inv, Import
  PROVE  Inv'
<1>1. CASE RemoveOne
  BY <1>1, RemoveOneInv
<1>2. CASE \E d \in Disk : CopyBegin(d) \/ CopyEnd(d)
  BY <1>2, CopyInv
<1>3. CASE Reserve
  <2>1. at = "reserve" /\ dir["import"] = None
    BY <1>3 DEF Reserve, Removed
  <2>2. CASE pick.archive
    BY <1>3, <2>2, ToInv DEF Reserve, Removed, At, Importing, Publishing
  <2>3. CASE ~pick.archive
    <3>1. Whole(pick.files)
      BY <2>1, <2>3 DEF Inv, Safe, PickJudged
    <3> QED BY <1>3, <2>1, <2>3, <3>1, ToInv
            DEF Reserve, Removed, At, Importing, Publishing, None
  <2> QED BY <2>2, <2>3
<1>4. CASE Extract
  <2>1. CASE dir["import"] = None
    <3>1. TypeOK'
      BY <1>4, <2>1 DEF Extract, Inv, TypeOK, Pick, Files, Place, At, Importing
    <3>2. Safe'
      BY <1>4, <2>1 DEF Extract, Safe, TargetIsFree, PromotesWhole, CopiesJudged, PickJudged,
                        SwapsWritten, GameRunsWhole, Publishing
    <3> QED BY <3>1, <3>2 DEF Inv
  <2>2. CASE dir["import"] # None
    BY <1>4, <2>2, ToInv DEF Extract, At, Undoing, Publishing
  <2> QED BY <2>1, <2>2
<1>5. CASE Judge
  <2>1. PICK next \in {"publish", "discard"} :
          To(next) /\ (next = "publish" => Whole(dir["import"]))
    BY <1>5 DEF Judge
  <2> QED BY <2>1, ToInv DEF At, Undoing, Publishing
<1>6. CASE Copied
  <2>1. Whole(dir["import"])
    BY <1>6 DEF Copied, Inv, TypeOK, Safe, CopiesJudged, Whole, Place, Files, Image
  <2> QED BY <1>6, <2>1, ToInv DEF Copied, At, Publishing
<1>7. CASE Discard
  BY <1>7, ToInv DEF Discard, Removed, At, Publishing
<1> QED BY <1>1, <1>2, <1>3, <1>4, <1>5, <1>6, <1>7 DEF Import

LEMMA PromoteInv ==
  ASSUME Inv, Promote
  PROVE  Inv'
<1>1. CASE Publish
  <2>1. TypeOK'
    BY <1>1 DEF Publish, Inactive, Inv, TypeOK, Slot, At, Publishing
  <2>2. Safe'
    BY <1>1 DEF Publish, Inactive, Inv, Safe, TargetIsFree, PromotesWhole, CopiesJudged,
                PickJudged, SwapsWritten, GameRunsWhole, TypeOK, Slot
  <2> QED BY <2>1, <2>2 DEF Inv
<1>2. CASE Clear
  <2>1. To("rename") /\ target # sel /\ Whole(dir["import"])
    BY <1>2 DEF Clear, Removed, Inv, Safe, TargetIsFree, PromotesWhole, Publishing
  <2> QED BY <2>1, ToInv DEF At, Publishing
<1>3. CASE Rename
  <2>1. TypeOK'
    BY <1>3 DEF Rename, Inv, TypeOK, Files, Image, None, Place, At, Publishing
  <2>2. Whole(dir'[target])
    BY <1>3 DEF Rename, Inv, TypeOK, Safe, PromotesWhole, Whole, Place, Slot
  <2>3. Safe'
    BY <1>3, <2>2 DEF Rename, Inv, Safe, TargetIsFree, PromotesWhole, CopiesJudged, Whole,
                      PickJudged, SwapsWritten, GameRunsWhole, Publishing
  <2> QED BY <2>1, <2>3 DEF Inv
<1>4. CASE OpenSelection \/ WriteSelection
  <2>1. TypeOK'
    BY <1>4 DEF OpenSelection, WriteSelection, Inv, TypeOK, At, Publishing
  <2>2. Safe'
    BY <1>4 DEF OpenSelection, WriteSelection, Inv, Safe, TargetIsFree, PromotesWhole,
                CopiesJudged, PickJudged, SwapsWritten, GameRunsWhole, Publishing, Whole
  <2> QED BY <2>1, <2>2 DEF Inv
<1>5. CASE SwapSelection
  <2>1. TypeOK'
    BY <1>5 DEF SwapSelection, Inv, TypeOK, At, Safe, SwapsWritten
  <2>2. Committed'
    BY <1>5 DEF SwapSelection, Inv, TypeOK, Safe, SwapsWritten, PromotesWhole, Committed,
                Slot, Whole
  <2>3. Safe'
    BY <1>5, <2>2 DEF SwapSelection, Safe, TargetIsFree, PromotesWhole, CopiesJudged,
                      PickJudged, SwapsWritten, GameRunsWhole, Publishing
  <2> QED BY <2>1, <2>3 DEF Inv
<1>6. CASE Untemp
  <2>1. TypeOK'
    BY <1>6 DEF Untemp, Inv, TypeOK, At, Undoing
  <2>2. Safe'
    BY <1>6 DEF Untemp, Inv, Safe, TargetIsFree, PromotesWhole, CopiesJudged,
                PickJudged, SwapsWritten, GameRunsWhole, Publishing
  <2> QED BY <2>1, <2>2 DEF Inv
<1>7. CASE Undo
  BY <1>7, ToInv DEF Undo, Removed, At, Publishing
<1>8. CASE Confirm
  <2>1. To("game") /\ Committed
    BY <1>8 DEF Confirm, Inv, Safe, GameRunsWhole
  <2> QED BY <2>1, ToInv DEF At, Publishing
<1> QED BY <1>1, <1>2, <1>3, <1>4, <1>5, <1>6, <1>7, <1>8 DEF Promote

LEMMA DisturbInv ==
  ASSUME Inv, Disturb
  PROVE  Inv'
<1>1. TypeOK'
  BY DEF Disturb, Inv, TypeOK, Files, Image, Place
<1>2. Safe'
  BY DEF Disturb, Safe, TargetIsFree, PromotesWhole, CopiesJudged, PickJudged, SwapsWritten,
         GameRunsWhole, Publishing
<1> QED BY <1>1, <1>2 DEF Inv

LEMMA NextInv == Inv /\ [Next]_vars => Inv'
<1> SUFFICES ASSUME Inv, [Next]_vars PROVE Inv'
    OBVIOUS
<1>1. CASE Launch
  BY <1>1, LaunchInv
<1>2. CASE Leave
  BY <1>2, ToInv DEF Leave, At, Publishing
<1>3. CASE \E p \in Pick : Choose(p)
  BY <1>3, ChooseInv
<1>4. CASE Import \/ Promote \/ Fault
  BY <1>4, ImportInv, PromoteInv, FaultInv
<1>5. CASE Disturb
  BY <1>5, DisturbInv
<1>6. CASE UNCHANGED vars
  BY <1>6 DEF vars, Inv, TypeOK, Safe, TargetIsFree, PromotesWhole, CopiesJudged, PickJudged,
              SwapsWritten, GameRunsWhole, Committed, Whole
<1> QED BY <1>1, <1>2, <1>3, <1>4, <1>5, <1>6 DEF Next

\* At every step of an import, and wherever it is interrupted, what the next step
\* relies on holds: the slot being filled is free, what is promoted is whole, and
\* the game runs from a whole set (publish_import, validate_staged_disks).
THEOREM InvHolds == Spec => []Inv
  BY InitInv, NextInv, PTL DEF Spec

-----------------------------------------------------------------------------
(* Only a clean-up, a copy, an unpacking, the rename of the import and the     *)
(* player change a directory, and none of them the one in use.                 *)

LEMMA StepSelectedUntouched ==
  ASSUME Inv, [Next]_vars, at # "off", sel # "none"
  PROVE  dir'[sel] = dir[sel]
<1> USE DEF Inv, TypeOK
<1>1. sel \in Slot /\ sel # "import" /\ sel \in Place
  BY DEF Slot, Place
<1>2. CASE RemoveOne
  <2>1. PICK p \in Place, d \in Disk : Removes(p) /\ Remove(p, d)
    BY <1>2 DEF RemoveOne
  <2>2. p # sel
    BY <1>1, <2>1 DEF Removes, Safe, TargetIsFree, Publishing
  <2> QED BY <1>1, <2>1, <2>2 DEF Remove
<1>3. CASE Extract \/ ExtractFails \/ \E d \in Disk : CopyBegin(d) \/ CopyEnd(d)
  BY <1>1, <1>3 DEF Extract, ExtractFails, To, CopyBegin, CopyEnd
<1>4. CASE Rename
  BY <1>1, <1>4 DEF Rename, Safe, TargetIsFree, Publishing
<1>5. CASE UNCHANGED dir
  BY <1>5
<1>6. RemoveOne \/ Rename \/ Extract \/ ExtractFails \/ (\E d \in Disk : CopyBegin(d) \/ CopyEnd(d))
      \/ UNCHANGED dir
  BY DEF Next, vars, Launch, Leave, Choose, Import, Promote, Fault, Disturb, Reserve, Judge,
         Copied, Discard, Publish, Clear, OpenSelection, WriteSelection, SwapSelection,
         Untemp, Undo, Confirm, ReserveFails, CopyFails, PublishFails,
         OpenFails, PersistFails, Crash, Removed, To
<1> QED BY <1>2, <1>3, <1>4, <1>5, <1>6

\* A running program never alters an image of the slot the stored selection names,
\* whatever import, failure or clean-up it is in (inactive_slot, discard_import).
THEOREM SelectedStays == Spec => SelectedUntouched
<1>1. Inv /\ [Next]_vars => [at # "off" /\ sel # "none" => dir'[sel] = dir[sel]]_vars
  BY StepSelectedUntouched
<1>2. Spec => []Inv
  BY InitInv, NextInv, PTL DEF Spec
<1> QED BY <1>1, <1>2, PTL DEF Spec, SelectedUntouched

-----------------------------------------------------------------------------
(* The import implements Installation's single commit, the rename of the       *)
(* selection file; every other step of it changes nothing a player can tell.   *)

LEMMA InstalledStays ==
  ASSUME UNCHANGED sel, sel # "none" => dir'[sel] = dir[sel]
  PROVE  UNCHANGED installed
  BY DEF installed, Committed, Whole

LEMMA NextImplements == Inv /\ [Next]_vars => [Product!Next]_<<mode, installed>>
<1> SUFFICES ASSUME Inv, [Next]_vars PROVE [Product!Next]_<<mode, installed>>
    OBVIOUS
<1> USE DEF mode
<1>1. CASE at = "off" /\ at' = "off"
  BY <1>1 DEF Product!Next, Product!Disturb, installed
<1>2. CASE Launch
  <2>1. UNCHANGED installed /\ (Committed <=> installed = "whole")
    BY <1>2, InstalledStays DEF Launch, To, installed, Committed
  <2> QED BY <1>2, <2>1 DEF Launch, To, Product!Next, Product!Start
<1>3. CASE at # "off" /\ at' = "off"
  <2>1. UNCHANGED sel /\ dir' = dir
    BY <1>3 DEF Next, vars, Launch, Leave, Choose, Import, Promote, Fault, Disturb, Reserve,
           RemoveOne, Remove, Extract, CopyBegin, CopyEnd, Judge,
           Copied, Discard, Publish, Clear, Rename, OpenSelection, WriteSelection,
           SwapSelection, Untemp, Undo, Confirm, ReserveFails, ExtractFails, CopyFails,
           PublishFails, OpenFails, PersistFails, Crash, Removed, To
  <2>2. UNCHANGED installed
    BY <2>1, InstalledStays
  <2> QED BY <1>3, <2>2 DEF Product!Next, Product!Stop
<1>4. CASE SwapSelection
  <2>1. Inv'
    BY NextInv
  <2>2. installed' = "whole" /\ mode = "setup" /\ mode' = "setup"
    BY <1>4, <2>1 DEF SwapSelection, Inv, Safe, GameRunsWhole, installed, Committed
  <2> QED BY <2>2 DEF Product!Next, Product!Install
<1>5. CASE Confirm
  <2>1. UNCHANGED installed /\ installed = "whole" /\ at' = "game"
    BY <1>5, InstalledStays DEF Confirm, To, Inv, Safe, GameRunsWhole, installed, Committed
  <2> QED BY <1>5, <2>1 DEF Confirm, Product!Next, Product!Play
<1>6. CASE at # "off" /\ at' # "off" /\ ~SwapSelection /\ ~Confirm
  <2>1. UNCHANGED sel /\ UNCHANGED mode
    BY <1>6 DEF Next, vars, Launch, Leave, Choose, Import, Promote, Fault, Disturb, Reserve,
           RemoveOne, Remove, Extract, CopyBegin, CopyEnd, Judge,
           Copied, Discard, Publish, Clear, Rename, OpenSelection, WriteSelection,
           Untemp, Undo, ReserveFails, ExtractFails, CopyFails,
           PublishFails, OpenFails, PersistFails, Crash, Removed, To
  <2>2. UNCHANGED installed
    BY <1>6, <2>1, StepSelectedUntouched, InstalledStays
  <2> QED BY <2>1, <2>2
<1>7. at = "off" /\ at' # "off" => Launch
  BY DEF Next, vars, Launch, Leave, Choose, Import, Promote, Fault, Disturb, Reserve,
         RemoveOne, Removes, Remove, Extract, CopyBegin, CopyEnd, Judge,
         Copied, Discard, Publish, Clear, Rename, OpenSelection, WriteSelection,
         SwapSelection, Untemp, Undo, Confirm, ReserveFails, ExtractFails, CopyFails,
         PublishFails, OpenFails, PersistFails, Crash, Removed, To
<1> QED BY <1>1, <1>2, <1>3, <1>4, <1>5, <1>6, <1>7

\* The disks the product would boot from are replaced whole or not at all, and the
\* game runs only from a whole set (disk_selection_store.cpp, staged_disks.cpp:4-6).
THEOREM Implements == Spec => InstallsWholeOrNothing
<1>1. Init => Product!Init
  BY DEF Init, Product!Init, mode, installed
<1>2. Spec => []Inv
  BY InitInv, NextInv, PTL DEF Spec
<1> QED BY <1>1, <1>2, NextImplements, PTL DEF Spec, Product!Spec, Product!vars,
           InstallsWholeOrNothing

-----------------------------------------------------------------------------
(* The setup screen and the host that answers it (SetupFlow). *)

\* Every runnable posted to the UI thread comes from a press.
Counted == posted + (IF pc \in {"ask", "call", "sorry"} THEN 1 ELSE 0) <= picks
\* What only Android has, and that whoever keeps a delivery has somebody to call it.
Answered == /\ slot \/ importing \/ posted > 0 \/ ui # "idle" \/ pc \in {"call", "sorry"} => platform = "android"
            /\ importing => chooser
            /\ S!SomeoneWillAnswer
\* The names gathered are of the answer in front.
Unmixed == names # {} => queue # <<>> /\ names \subseteq queue[1]
\* At most one choice is on its way: posted, on the screen, queued or being reported.
OneWay == /\ posted > 0 => posted = 1 /\ ~chooser /\ ui = "idle" /\ queue = <<>>
          /\ chooser => ui = "idle" /\ queue = <<>>
          /\ queue # <<>> => ui = "idle" /\ Len(queue) = 1
\* Where nothing can be on its way: a choice has arrived or is being asked for, taken or judged,
\* or the screen is ending.
Quiet == \/ pending # {}
         \/ pc \in {"ask", "call", "closed"}
         \/ pc = "apply" /\ chosen # {}
         \/ ~running \/ accepted
\* For the undisturbed player, one choice at a time goes round, and a delivery is kept for it.
Patient == S!Undisturbed =>
           /\ pc \notin {"sorry", "deliver"}
           /\ OneWay
           /\ Quiet => S!HostIdle
           /\ pc \in {"ask", "call"} => pending = {} /\ running /\ ~accepted
           /\ accepted => pc \in {"frame", "closed"}
           /\ accepted \/ ~running \/ (pc = "apply" /\ chosen # {}) => pending = {}
           /\ platform = "android" /\ (pc = "call" \/ posted > 0 \/ chooser \/ ui = "report") => slot
\* The inductive invariant of the setup screen.
SetupInv == S!TypeOK /\ Counted /\ Answered /\ Unmixed /\ Patient

\* What a step may not do to a choice.
NothingLost == S!Undisturbed => /\ pending # {} => pending' = pending \/ chosen' = pending
                                /\ ui = "report" /\ ui' = "idle" => answer = {}

\* One lemma per action of the flow's thread and of the host's.
LEMMA BeginKeeps ==
  ASSUME SetupInv, S!Begin
  PROVE  SetupInv' /\ NothingLost
  <1>1. S!TypeOK'
    BY PicksBounded DEF SetupInv, S!Begin, S!TypeOK, Counted, S!PC, S!Holder, S!SetupAssumption, S!setting,
       S!flowVars, S!hostVars
  <1>2. Counted'
    BY PicksBounded DEF SetupInv, S!Begin, S!TypeOK, Counted, S!SetupAssumption, S!setting, S!flowVars,
       S!hostVars
  <1>3. Answered' /\ Unmixed'
    BY PicksBounded DEF SetupInv, S!Begin, S!TypeOK, Answered, S!SomeoneWillAnswer, Unmixed,
       S!SetupAssumption, S!setting, S!flowVars, S!hostVars
  <1>4. Patient'
    BY PicksBounded DEF SetupInv, S!Begin, S!TypeOK, Patient, S!Undisturbed, OneWay, Quiet, S!HostIdle,
       S!SetupAssumption, S!setting, S!flowVars, S!hostVars
  <1>5. NothingLost
    BY DEF SetupInv, S!Begin, S!TypeOK, Patient, S!Undisturbed, OneWay, Quiet, S!HostIdle, NothingLost,
       S!setting, S!flowVars, S!hostVars
  <1> QED BY <1>1, <1>2, <1>3, <1>4, <1>5 DEF SetupInv

LEMMA PolledKeeps ==
  ASSUME SetupInv, S!Polled
  PROVE  SetupInv' /\ NothingLost
  <1>1. S!TypeOK'
    BY PicksBounded DEF SetupInv, S!Polled, S!TypeOK, Counted, S!PC, S!Holder, S!SetupAssumption, S!setting,
       S!flowVars, S!hostVars
  <1>2. Counted'
    BY PicksBounded DEF SetupInv, S!Polled, S!TypeOK, Counted, S!SetupAssumption, S!setting, S!flowVars,
       S!hostVars
  <1>3. Answered' /\ Unmixed'
    BY PicksBounded DEF SetupInv, S!Polled, S!TypeOK, Answered, S!SomeoneWillAnswer, Unmixed,
       S!SetupAssumption, S!setting, S!flowVars, S!hostVars
  <1>4. Patient'
    BY PicksBounded DEF SetupInv, S!Polled, S!TypeOK, Patient, S!Undisturbed, OneWay, Quiet, S!HostIdle,
       S!SetupAssumption, S!setting, S!flowVars, S!hostVars
  <1>5. NothingLost
    BY DEF SetupInv, S!Polled, S!TypeOK, Patient, S!Undisturbed, OneWay, Quiet, S!HostIdle, NothingLost,
       S!setting, S!flowVars, S!hostVars
  <1> QED BY <1>1, <1>2, <1>3, <1>4, <1>5 DEF SetupInv

LEMMA TakeKeeps ==
  ASSUME SetupInv, S!Take
  PROVE  SetupInv' /\ NothingLost
  <1>1. S!TypeOK'
    BY PicksBounded DEF SetupInv, S!Take, S!TypeOK, Counted, S!PC, S!Holder, S!SetupAssumption, S!setting,
       S!flowVars, S!hostVars
  <1>2. Counted'
    BY PicksBounded DEF SetupInv, S!Take, S!TypeOK, Counted, S!SetupAssumption, S!setting, S!flowVars,
       S!hostVars
  <1>3. Answered' /\ Unmixed'
    BY PicksBounded DEF SetupInv, S!Take, S!TypeOK, Answered, S!SomeoneWillAnswer, Unmixed, S!SetupAssumption,
       S!setting, S!flowVars, S!hostVars
  <1>4. Patient'
    BY PicksBounded DEF SetupInv, S!Take, S!TypeOK, Patient, S!Undisturbed, OneWay, Quiet, S!HostIdle,
       S!SetupAssumption, S!setting, S!flowVars, S!hostVars
  <1>5. NothingLost
    BY DEF SetupInv, S!Take, S!TypeOK, Patient, S!Undisturbed, OneWay, Quiet, S!HostIdle, NothingLost,
       S!setting, S!flowVars, S!hostVars
  <1> QED BY <1>1, <1>2, <1>3, <1>4, <1>5 DEF SetupInv

LEMMA ApplyKeeps ==
  ASSUME SetupInv, S!Apply
  PROVE  SetupInv' /\ NothingLost
  <1>1. S!TypeOK'
    BY PicksBounded DEF SetupInv, S!Apply, S!TypeOK, Counted, S!PC, S!Holder, S!SetupAssumption, S!setting,
       S!flowVars, S!hostVars
  <1>2. Counted'
    BY PicksBounded DEF SetupInv, S!Apply, S!TypeOK, Counted, S!SetupAssumption, S!setting, S!flowVars,
       S!hostVars
  <1>3. Answered' /\ Unmixed'
    BY PicksBounded DEF SetupInv, S!Apply, S!TypeOK, Answered, S!SomeoneWillAnswer, Unmixed,
       S!SetupAssumption, S!setting, S!flowVars, S!hostVars
  <1>4. Patient'
    BY PicksBounded DEF SetupInv, S!Apply, S!TypeOK, Patient, S!Undisturbed, OneWay, Quiet, S!HostIdle,
       S!SetupAssumption, S!setting, S!flowVars, S!hostVars
  <1>5. NothingLost
    BY DEF SetupInv, S!Apply, S!TypeOK, Patient, S!Undisturbed, OneWay, Quiet, S!HostIdle, NothingLost,
       S!setting, S!flowVars, S!hostVars
  <1> QED BY <1>1, <1>2, <1>3, <1>4, <1>5 DEF SetupInv

LEMMA FrameKeeps ==
  ASSUME SetupInv, S!Frame
  PROVE  SetupInv' /\ NothingLost
  <1>1. S!TypeOK'
    BY PicksBounded DEF SetupInv, S!Frame, S!TypeOK, Counted, S!PC, S!Holder, S!SetupAssumption, S!setting,
       S!flowVars, S!hostVars
  <1>2. Counted'
    BY PicksBounded DEF SetupInv, S!Frame, S!TypeOK, Counted, S!SetupAssumption, S!setting, S!flowVars,
       S!hostVars
  <1>3. Answered' /\ Unmixed'
    BY PicksBounded DEF SetupInv, S!Frame, S!TypeOK, Answered, S!SomeoneWillAnswer, Unmixed,
       S!SetupAssumption, S!setting, S!flowVars, S!hostVars
  <1>4. Patient'
    BY PicksBounded DEF SetupInv, S!Frame, S!TypeOK, Patient, S!Undisturbed, OneWay, Quiet, S!HostIdle,
       S!SetupAssumption, S!setting, S!flowVars, S!hostVars
  <1>5. NothingLost
    BY DEF SetupInv, S!Frame, S!TypeOK, Patient, S!Undisturbed, OneWay, Quiet, S!HostIdle, NothingLost,
       S!setting, S!flowVars, S!hostVars
  <1> QED BY <1>1, <1>2, <1>3, <1>4, <1>5 DEF SetupInv

LEMMA StartKeeps ==
  ASSUME SetupInv, S!Start
  PROVE  SetupInv' /\ NothingLost
  <1>1. S!TypeOK'
    BY PicksBounded DEF SetupInv, S!Start, S!TypeOK, Counted, S!PC, S!Holder, S!SetupAssumption, S!setting,
       S!flowVars, S!hostVars
  <1>2. Counted'
    BY PicksBounded DEF SetupInv, S!Start, S!TypeOK, Counted, S!SetupAssumption, S!setting, S!flowVars,
       S!hostVars
  <1>3. Answered' /\ Unmixed'
    BY PicksBounded DEF SetupInv, S!Start, S!TypeOK, Answered, S!SomeoneWillAnswer, Unmixed,
       S!SetupAssumption, S!setting, S!flowVars, S!hostVars
  <1>4. Patient'
    BY PicksBounded DEF SetupInv, S!Start, S!TypeOK, Patient, S!Undisturbed, OneWay, Quiet, S!HostIdle,
       S!SetupAssumption, S!setting, S!flowVars, S!hostVars
  <1>5. NothingLost
    BY DEF SetupInv, S!Start, S!TypeOK, Patient, S!Undisturbed, OneWay, Quiet, S!HostIdle, NothingLost,
       S!setting, S!flowVars, S!hostVars
  <1> QED BY <1>1, <1>2, <1>3, <1>4, <1>5 DEF SetupInv

LEMMA CancelKeeps ==
  ASSUME SetupInv, S!Cancel
  PROVE  SetupInv' /\ NothingLost
  <1>1. S!TypeOK'
    BY PicksBounded DEF SetupInv, S!Cancel, S!MayPress, S!TypeOK, Counted, S!PC, S!Holder, S!SetupAssumption,
       S!setting, S!flowVars, S!hostVars
  <1>2. Counted'
    BY PicksBounded DEF SetupInv, S!Cancel, S!MayPress, S!TypeOK, Counted, S!SetupAssumption, S!setting,
       S!flowVars, S!hostVars
  <1>3. Answered' /\ Unmixed'
    BY PicksBounded DEF SetupInv, S!Cancel, S!MayPress, S!TypeOK, Answered, S!SomeoneWillAnswer, Unmixed,
       S!SetupAssumption, S!setting, S!flowVars, S!hostVars
  <1>4. Patient'
    BY PicksBounded DEF SetupInv, S!Cancel, S!MayPress, S!TypeOK, Patient, S!Undisturbed, OneWay, Quiet,
       S!HostIdle, S!SetupAssumption, S!setting, S!flowVars, S!hostVars
  <1>5. NothingLost
    BY DEF SetupInv, S!Cancel, S!MayPress, S!TypeOK, Patient, S!Undisturbed, OneWay, Quiet, S!HostIdle,
       NothingLost, S!setting, S!flowVars, S!hostVars
  <1> QED BY <1>1, <1>2, <1>3, <1>4, <1>5 DEF SetupInv

LEMMA BrowseKeeps ==
  ASSUME SetupInv, S!Browse
  PROVE  SetupInv' /\ NothingLost
  <1>1. S!TypeOK'
    <2>1. /\ platform' \in Platforms /\ player' \in Players /\ activity' \in Activities
          /\ pc' \in S!PC /\ pmutex' \in S!Holder /\ gmutex' \in S!Holder
      BY DEF SetupInv, S!Browse, S!MayPress, S!TypeOK, S!PC, S!Holder, S!setting, S!flowVars, S!hostVars
    <2>2. /\ pending' \subseteq Disk /\ chosen' \subseteq Disk /\ staged' \subseteq Disk
          /\ active' \in BOOLEAN /\ accepted' \in BOOLEAN /\ running' \in BOOLEAN
          /\ slot' \in BOOLEAN /\ importing' \in BOOLEAN /\ chooser' \in BOOLEAN
          /\ ui' \in {"idle", "report", "deliver"} /\ answer' \subseteq Disk /\ names' \subseteq Disk
      BY DEF SetupInv, S!Browse, S!MayPress, S!TypeOK, S!setting, S!flowVars, S!hostVars
    <2>3. picks' \in 0..MaxPicks /\ posted' \in 0..MaxPicks
      BY PicksBounded DEF SetupInv, S!Browse, S!MayPress, S!TypeOK, S!SetupAssumption, S!setting, S!flowVars,
         S!hostVars
    <2>4. queue' \in Seq(SUBSET Disk)
      BY DEF SetupInv, S!Browse, S!MayPress, S!TypeOK, S!setting, S!flowVars, S!hostVars
    <2> QED BY <2>1, <2>2, <2>3, <2>4 DEF S!TypeOK
  <1>2. Counted'
    BY PicksBounded DEF SetupInv, S!Browse, S!MayPress, S!TypeOK, Counted, S!SetupAssumption, S!setting,
       S!flowVars, S!hostVars
  <1>3. Answered' /\ Unmixed'
    BY PicksBounded DEF SetupInv, S!Browse, S!MayPress, S!TypeOK, Answered, S!SomeoneWillAnswer, Unmixed,
       S!SetupAssumption, S!setting, S!flowVars, S!hostVars
  <1>4. Patient'
    BY PicksBounded DEF SetupInv, S!Browse, S!MayPress, S!TypeOK, Patient, S!Undisturbed, OneWay, Quiet,
       S!HostIdle, S!SetupAssumption, S!setting, S!flowVars, S!hostVars
  <1>5. NothingLost
    BY DEF SetupInv, S!Browse, S!MayPress, S!TypeOK, Patient, S!Undisturbed, OneWay, Quiet, S!HostIdle,
       NothingLost, S!setting, S!flowVars, S!hostVars
  <1> QED BY <1>1, <1>2, <1>3, <1>4, <1>5 DEF SetupInv

LEMMA AskDialogKeeps ==
  ASSUME SetupInv, S!AskDialog
  PROVE  SetupInv' /\ NothingLost
  <1>1. S!TypeOK'
    BY PicksBounded DEF SetupInv, S!AskDialog, S!FlowStays, S!Asked, S!TypeOK, Counted, S!PC, S!Holder,
       S!SetupAssumption, S!setting, S!flowVars, S!hostVars
  <1>2. Counted'
    BY PicksBounded DEF SetupInv, S!AskDialog, S!FlowStays, S!Asked, S!TypeOK, Counted, S!SetupAssumption,
       S!setting, S!flowVars, S!hostVars
  <1>3. Answered' /\ Unmixed'
    BY PicksBounded DEF SetupInv, S!AskDialog, S!FlowStays, S!Asked, S!TypeOK, Answered, S!SomeoneWillAnswer,
       Unmixed, S!SetupAssumption, S!setting, S!flowVars, S!hostVars
  <1>4. Patient'
    BY PicksBounded DEF SetupInv, S!AskDialog, S!FlowStays, S!Asked, S!TypeOK, Patient, S!Undisturbed, OneWay,
       Quiet, S!HostIdle, S!SetupAssumption, S!setting, S!flowVars, S!hostVars
  <1>5. NothingLost
    BY DEF SetupInv, S!AskDialog, S!FlowStays, S!Asked, S!TypeOK, Patient, S!Undisturbed, OneWay, Quiet,
       S!HostIdle, NothingLost, S!setting, S!flowVars, S!hostVars
  <1> QED BY <1>1, <1>2, <1>3, <1>4, <1>5 DEF SetupInv

LEMMA AskActivityKeeps ==
  ASSUME SetupInv, S!AskActivity
  PROVE  SetupInv' /\ NothingLost
  <1>1. S!TypeOK'
    BY PicksBounded DEF SetupInv, S!AskActivity, S!FlowStays, S!Asked, S!TypeOK, Counted, S!PC, S!Holder,
       S!SetupAssumption, S!setting, S!flowVars, S!hostVars
  <1>2. Counted'
    BY PicksBounded DEF SetupInv, S!AskActivity, S!FlowStays, S!Asked, S!TypeOK, Counted, S!SetupAssumption,
       S!setting, S!flowVars, S!hostVars
  <1>3. Answered' /\ Unmixed'
    BY PicksBounded DEF SetupInv, S!AskActivity, S!FlowStays, S!Asked, S!TypeOK, Answered,
       S!SomeoneWillAnswer, Unmixed, S!SetupAssumption, S!setting, S!flowVars, S!hostVars
  <1>4. Patient'
    BY PicksBounded DEF SetupInv, S!AskActivity, S!FlowStays, S!Asked, S!TypeOK, Patient, S!Undisturbed,
       OneWay, Quiet, S!HostIdle, S!SetupAssumption, S!setting, S!flowVars, S!hostVars
  <1>5. NothingLost
    BY DEF SetupInv, S!AskActivity, S!FlowStays, S!Asked, S!TypeOK, Patient, S!Undisturbed, OneWay, Quiet,
       S!HostIdle, NothingLost, S!setting, S!flowVars, S!hostVars
  <1> QED BY <1>1, <1>2, <1>3, <1>4, <1>5 DEF SetupInv

LEMMA CallFailsKeeps ==
  ASSUME SetupInv, S!CallFails
  PROVE  SetupInv' /\ NothingLost
  <1>1. S!TypeOK'
    BY PicksBounded DEF SetupInv, S!CallFails, S!FlowStays, S!Asked, S!TypeOK, Counted, S!PC, S!Holder,
       S!SetupAssumption, S!setting, S!flowVars, S!hostVars
  <1>2. Counted'
    BY PicksBounded DEF SetupInv, S!CallFails, S!FlowStays, S!Asked, S!TypeOK, Counted, S!SetupAssumption,
       S!setting, S!flowVars, S!hostVars
  <1>3. Answered' /\ Unmixed'
    BY PicksBounded DEF SetupInv, S!CallFails, S!FlowStays, S!Asked, S!TypeOK, Answered, S!SomeoneWillAnswer,
       Unmixed, S!SetupAssumption, S!setting, S!flowVars, S!hostVars
  <1>4. Patient'
    BY PicksBounded DEF SetupInv, S!CallFails, S!FlowStays, S!Asked, S!TypeOK, Patient, S!Undisturbed, OneWay,
       Quiet, S!HostIdle, S!SetupAssumption, S!setting, S!flowVars, S!hostVars
  <1>5. NothingLost
    BY DEF SetupInv, S!CallFails, S!FlowStays, S!Asked, S!TypeOK, Patient, S!Undisturbed, OneWay, Quiet,
       S!HostIdle, NothingLost, S!setting, S!flowVars, S!hostVars
  <1> QED BY <1>1, <1>2, <1>3, <1>4, <1>5 DEF SetupInv

LEMMA SorryKeeps ==
  ASSUME SetupInv, S!Sorry
  PROVE  SetupInv' /\ NothingLost
  <1>1. S!TypeOK'
    BY PicksBounded DEF SetupInv, S!Sorry, S!FlowStays, S!Asked, S!TypeOK, Counted, S!PC, S!Holder,
       S!SetupAssumption, S!setting, S!flowVars, S!hostVars
  <1>2. Counted'
    BY PicksBounded DEF SetupInv, S!Sorry, S!FlowStays, S!Asked, S!TypeOK, Counted, S!SetupAssumption,
       S!setting, S!flowVars, S!hostVars
  <1>3. Answered' /\ Unmixed'
    BY PicksBounded DEF SetupInv, S!Sorry, S!FlowStays, S!Asked, S!TypeOK, Answered, S!SomeoneWillAnswer,
       Unmixed, S!SetupAssumption, S!setting, S!flowVars, S!hostVars
  <1>4. Patient'
    BY PicksBounded DEF SetupInv, S!Sorry, S!FlowStays, S!Asked, S!TypeOK, Patient, S!Undisturbed, OneWay,
       Quiet, S!HostIdle, S!SetupAssumption, S!setting, S!flowVars, S!hostVars
  <1>5. NothingLost
    BY DEF SetupInv, S!Sorry, S!FlowStays, S!Asked, S!TypeOK, Patient, S!Undisturbed, OneWay, Quiet,
       S!HostIdle, NothingLost, S!setting, S!flowVars, S!hostVars
  <1> QED BY <1>1, <1>2, <1>3, <1>4, <1>5 DEF SetupInv

LEMMA AskPageKeeps ==
  ASSUME SetupInv, S!AskPage
  PROVE  SetupInv' /\ NothingLost
  <1>1. S!TypeOK'
    BY PicksBounded DEF SetupInv, S!AskPage, S!FlowStays, S!Asked, S!TypeOK, Counted, S!PC, S!Holder,
       S!SetupAssumption, S!setting, S!flowVars, S!hostVars
  <1>2. Counted'
    BY PicksBounded DEF SetupInv, S!AskPage, S!FlowStays, S!Asked, S!TypeOK, Counted, S!SetupAssumption,
       S!setting, S!flowVars, S!hostVars
  <1>3. Answered' /\ Unmixed'
    BY PicksBounded DEF SetupInv, S!AskPage, S!FlowStays, S!Asked, S!TypeOK, Answered, S!SomeoneWillAnswer,
       Unmixed, S!SetupAssumption, S!setting, S!flowVars, S!hostVars
  <1>4. Patient'
    BY PicksBounded DEF SetupInv, S!AskPage, S!FlowStays, S!Asked, S!TypeOK, Patient, S!Undisturbed, OneWay,
       Quiet, S!HostIdle, S!SetupAssumption, S!setting, S!flowVars, S!hostVars
  <1>5. NothingLost
    BY DEF SetupInv, S!AskPage, S!FlowStays, S!Asked, S!TypeOK, Patient, S!Undisturbed, OneWay, Quiet,
       S!HostIdle, NothingLost, S!setting, S!flowVars, S!hostVars
  <1> QED BY <1>1, <1>2, <1>3, <1>4, <1>5 DEF SetupInv

LEMMA CallKeeps ==
  ASSUME SetupInv, S!Call
  PROVE  SetupInv' /\ NothingLost
  <1>1. S!TypeOK'
    BY PicksBounded DEF SetupInv, S!Call, S!FlowStays, S!Asked, S!TypeOK, Counted, S!PC, S!Holder,
       S!SetupAssumption, S!setting, S!flowVars, S!hostVars
  <1>2. Counted'
    BY PicksBounded DEF SetupInv, S!Call, S!FlowStays, S!Asked, S!TypeOK, Counted, S!SetupAssumption,
       S!setting, S!flowVars, S!hostVars
  <1>3. Answered' /\ Unmixed'
    BY PicksBounded DEF SetupInv, S!Call, S!FlowStays, S!Asked, S!TypeOK, Answered, S!SomeoneWillAnswer,
       Unmixed, S!SetupAssumption, S!setting, S!flowVars, S!hostVars
  <1>4. Patient'
    BY PicksBounded DEF SetupInv, S!Call, S!FlowStays, S!Asked, S!TypeOK, Patient, S!Undisturbed, OneWay,
       Quiet, S!HostIdle, S!SetupAssumption, S!setting, S!flowVars, S!hostVars
  <1>5. NothingLost
    BY DEF SetupInv, S!Call, S!FlowStays, S!Asked, S!TypeOK, Patient, S!Undisturbed, OneWay, Quiet,
       S!HostIdle, NothingLost, S!setting, S!flowVars, S!hostVars
  <1> QED BY <1>1, <1>2, <1>3, <1>4, <1>5 DEF SetupInv

LEMMA RunPostedKeeps ==
  ASSUME SetupInv, S!RunPosted
  PROVE  SetupInv' /\ NothingLost
  <1>1. S!TypeOK'
    <2>1. /\ platform' \in Platforms /\ player' \in Players /\ activity' \in Activities
          /\ pc' \in S!PC /\ pmutex' \in S!Holder /\ gmutex' \in S!Holder
      BY DEF SetupInv, S!RunPosted, S!FlowIdles, S!PageRuns, S!TypeOK, S!PC, S!Holder, S!setting, S!flowVars,
         S!hostVars
    <2>2. /\ pending' \subseteq Disk /\ chosen' \subseteq Disk /\ staged' \subseteq Disk
          /\ active' \in BOOLEAN /\ accepted' \in BOOLEAN /\ running' \in BOOLEAN
          /\ slot' \in BOOLEAN /\ importing' \in BOOLEAN /\ chooser' \in BOOLEAN
          /\ ui' \in {"idle", "report", "deliver"} /\ answer' \subseteq Disk /\ names' \subseteq Disk
      BY DEF SetupInv, S!RunPosted, S!FlowIdles, S!PageRuns, S!TypeOK, S!setting, S!flowVars, S!hostVars
    <2>3. picks' \in 0..MaxPicks /\ posted' \in 0..MaxPicks
      BY PicksBounded DEF SetupInv, S!RunPosted, S!FlowIdles, S!PageRuns, S!TypeOK, S!SetupAssumption,
         S!setting, S!flowVars, S!hostVars
    <2>4. queue' \in Seq(SUBSET Disk)
      BY DEF SetupInv, S!RunPosted, S!FlowIdles, S!PageRuns, S!TypeOK, S!setting, S!flowVars, S!hostVars
    <2> QED BY <2>1, <2>2, <2>3, <2>4 DEF S!TypeOK
  <1>2. Counted'
    BY PicksBounded DEF SetupInv, S!RunPosted, S!FlowIdles, S!PageRuns, S!TypeOK, Counted, S!SetupAssumption,
       S!setting, S!flowVars, S!hostVars
  <1>3. Answered' /\ Unmixed'
    BY PicksBounded DEF SetupInv, S!RunPosted, S!FlowIdles, S!PageRuns, S!TypeOK, Answered,
       S!SomeoneWillAnswer, Unmixed, S!SetupAssumption, S!setting, S!flowVars, S!hostVars
  <1>4. Patient'
    BY PicksBounded DEF SetupInv, S!RunPosted, S!FlowIdles, S!PageRuns, S!TypeOK, Patient, S!Undisturbed,
       OneWay, Quiet, S!HostIdle, S!SetupAssumption, S!setting, S!flowVars, S!hostVars
  <1>5. NothingLost
    BY DEF SetupInv, S!RunPosted, S!FlowIdles, S!PageRuns, S!TypeOK, Patient, S!Undisturbed, OneWay, Quiet,
       S!HostIdle, NothingLost, S!setting, S!flowVars, S!hostVars
  <1> QED BY <1>1, <1>2, <1>3, <1>4, <1>5 DEF SetupInv

LEMMA PickedKeeps ==
  ASSUME SetupInv, S!Picked
  PROVE  SetupInv' /\ NothingLost
  <1>1. S!TypeOK'
    BY PicksBounded DEF SetupInv, S!Picked, S!FlowIdles, S!PageRuns, S!TypeOK, Counted, S!PC, S!Holder,
       S!SetupAssumption, S!setting, S!flowVars, S!hostVars
  <1>2. Counted'
    BY PicksBounded DEF SetupInv, S!Picked, S!FlowIdles, S!PageRuns, S!TypeOK, Counted, S!SetupAssumption,
       S!setting, S!flowVars, S!hostVars
  <1>3. Answered' /\ Unmixed'
    BY PicksBounded DEF SetupInv, S!Picked, S!FlowIdles, S!PageRuns, S!TypeOK, Answered, S!SomeoneWillAnswer,
       Unmixed, S!SetupAssumption, S!setting, S!flowVars, S!hostVars
  <1>4. Patient'
    BY PicksBounded DEF SetupInv, S!Picked, S!FlowIdles, S!PageRuns, S!TypeOK, Patient, S!Undisturbed, OneWay,
       Quiet, S!HostIdle, S!SetupAssumption, S!setting, S!flowVars, S!hostVars
  <1>5. NothingLost
    BY DEF SetupInv, S!Picked, S!FlowIdles, S!PageRuns, S!TypeOK, Patient, S!Undisturbed, OneWay, Quiet,
       S!HostIdle, NothingLost, S!setting, S!flowVars, S!hostVars
  <1> QED BY <1>1, <1>2, <1>3, <1>4, <1>5 DEF SetupInv

LEMMA ReportKeeps ==
  ASSUME SetupInv, S!Report
  PROVE  SetupInv' /\ NothingLost
  <1>1. S!TypeOK'
    BY PicksBounded DEF SetupInv, S!Report, S!FlowIdles, S!PageRuns, S!TypeOK, Counted, S!PC, S!Holder,
       S!SetupAssumption, S!setting, S!flowVars, S!hostVars
  <1>2. Counted'
    BY PicksBounded DEF SetupInv, S!Report, S!FlowIdles, S!PageRuns, S!TypeOK, Counted, S!SetupAssumption,
       S!setting, S!flowVars, S!hostVars
  <1>3. Answered' /\ Unmixed'
    BY PicksBounded DEF SetupInv, S!Report, S!FlowIdles, S!PageRuns, S!TypeOK, Answered, S!SomeoneWillAnswer,
       Unmixed, S!SetupAssumption, S!setting, S!flowVars, S!hostVars
  <1>4. Patient'
    BY PicksBounded DEF SetupInv, S!Report, S!FlowIdles, S!PageRuns, S!TypeOK, Patient, S!Undisturbed, OneWay,
       Quiet, S!HostIdle, S!SetupAssumption, S!setting, S!flowVars, S!hostVars
  <1>5. NothingLost
    BY DEF SetupInv, S!Report, S!FlowIdles, S!PageRuns, S!TypeOK, Patient, S!Undisturbed, OneWay, Quiet,
       S!HostIdle, NothingLost, Answered, S!setting, S!flowVars, S!hostVars
  <1> QED BY <1>1, <1>2, <1>3, <1>4, <1>5 DEF SetupInv

LEMMA PageChosenKeeps ==
  ASSUME SetupInv, S!PageChosen
  PROVE  SetupInv' /\ NothingLost
  <1>1. S!TypeOK'
    <2>1. /\ platform' \in Platforms /\ player' \in Players /\ activity' \in Activities
          /\ pc' \in S!PC /\ pmutex' \in S!Holder /\ gmutex' \in S!Holder
      BY DEF SetupInv, S!PageChosen, S!FlowIdles, S!PageRuns, S!TypeOK, S!PC, S!Holder, S!setting, S!flowVars,
         S!hostVars
    <2>2. /\ pending' \subseteq Disk /\ chosen' \subseteq Disk /\ staged' \subseteq Disk
          /\ active' \in BOOLEAN /\ accepted' \in BOOLEAN /\ running' \in BOOLEAN
          /\ slot' \in BOOLEAN /\ importing' \in BOOLEAN /\ chooser' \in BOOLEAN
          /\ ui' \in {"idle", "report", "deliver"} /\ answer' \subseteq Disk /\ names' \subseteq Disk
      BY DEF SetupInv, S!PageChosen, S!FlowIdles, S!PageRuns, S!TypeOK, S!setting, S!flowVars, S!hostVars
    <2>3. picks' \in 0..MaxPicks /\ posted' \in 0..MaxPicks
      BY PicksBounded DEF SetupInv, S!PageChosen, S!FlowIdles, S!PageRuns, S!TypeOK, S!SetupAssumption,
         S!setting, S!flowVars, S!hostVars
    <2>4. queue' \in Seq(SUBSET Disk)
      BY AppendProperties DEF SetupInv, S!PageChosen, S!FlowIdles, S!PageRuns, S!TypeOK
    <2> QED BY <2>1, <2>2, <2>3, <2>4 DEF S!TypeOK
  <1>2. Counted'
    BY PicksBounded DEF SetupInv, S!PageChosen, S!FlowIdles, S!PageRuns, S!TypeOK, Counted, S!SetupAssumption,
       S!setting, S!flowVars, S!hostVars
  <1>3. Answered' /\ Unmixed'
    <2>1. PICK files \in SUBSET Disk : queue' = Append(queue, files)
      BY DEF S!PageChosen
    <2>2. queue # <<>> => queue' # <<>> /\ queue'[1] = queue[1]
      <3>1. SUFFICES ASSUME queue # <<>> PROVE queue' # <<>> /\ queue'[1] = queue[1]
        OBVIOUS
      <3>2. queue \in Seq(SUBSET Disk) /\ 1 \in 1..Len(queue)
        BY <3>1, EmptySeq DEF SetupInv, S!TypeOK
      <3> QED BY <2>1, <3>2, AppendProperties
    <2>3. Answered'
      BY DEF SetupInv, S!PageChosen, S!FlowIdles, S!PageRuns, S!TypeOK, Answered, S!SomeoneWillAnswer,
         S!setting, S!flowVars, S!hostVars
    <2>4. Unmixed'
      BY <2>2 DEF SetupInv, S!PageChosen, S!FlowIdles, S!PageRuns, Unmixed, S!setting, S!flowVars, S!hostVars
    <2> QED BY <2>3, <2>4
  <1>4. Patient'
    BY PicksBounded DEF SetupInv, S!PageChosen, S!FlowIdles, S!PageRuns, S!TypeOK, Patient, S!Undisturbed,
       OneWay, Quiet, S!HostIdle, S!SetupAssumption, S!setting, S!flowVars, S!hostVars
  <1>5. NothingLost
    BY DEF SetupInv, S!PageChosen, S!FlowIdles, S!PageRuns, S!TypeOK, Patient, S!Undisturbed, OneWay, Quiet,
       S!HostIdle, NothingLost, S!setting, S!flowVars, S!hostVars
  <1> QED BY <1>1, <1>2, <1>3, <1>4, <1>5 DEF SetupInv

LEMMA PageAddsKeeps ==
  ASSUME SetupInv, S!PageAdds
  PROVE  SetupInv' /\ NothingLost
  <1>1. S!TypeOK'
    BY PicksBounded DEF SetupInv, S!PageAdds, S!FlowIdles, S!PageRuns, S!Turn, S!TypeOK, Counted, S!PC,
       S!Holder, S!SetupAssumption, S!setting, S!flowVars, S!hostVars
  <1>2. Counted'
    BY PicksBounded DEF SetupInv, S!PageAdds, S!FlowIdles, S!PageRuns, S!Turn, S!TypeOK, Counted,
       S!SetupAssumption, S!setting, S!flowVars, S!hostVars
  <1>3. Answered' /\ Unmixed'
    BY PicksBounded DEF SetupInv, S!PageAdds, S!FlowIdles, S!PageRuns, S!Turn, S!TypeOK, Answered,
       S!SomeoneWillAnswer, Unmixed, S!SetupAssumption, S!setting, S!flowVars, S!hostVars
  <1>4. Patient'
    BY PicksBounded DEF SetupInv, S!PageAdds, S!FlowIdles, S!PageRuns, S!Turn, S!TypeOK, Patient,
       S!Undisturbed, OneWay, Quiet, S!HostIdle, S!SetupAssumption, S!setting, S!flowVars, S!hostVars
  <1>5. NothingLost
    BY DEF SetupInv, S!PageAdds, S!FlowIdles, S!PageRuns, S!Turn, S!TypeOK, Patient, S!Undisturbed, OneWay,
       Quiet, S!HostIdle, NothingLost, S!setting, S!flowVars, S!hostVars
  <1> QED BY <1>1, <1>2, <1>3, <1>4, <1>5 DEF SetupInv

LEMMA PageAnswersKeeps ==
  ASSUME SetupInv, S!PageAnswers
  PROVE  SetupInv' /\ NothingLost
  <1>1. S!TypeOK'
    BY PicksBounded DEF SetupInv, S!PageAnswers, S!PageRuns, S!TypeOK, Counted, S!PC, S!Holder,
       S!SetupAssumption, S!setting, S!flowVars, S!hostVars
  <1>2. Counted'
    BY PicksBounded DEF SetupInv, S!PageAnswers, S!PageRuns, S!TypeOK, Counted, S!SetupAssumption, S!setting,
       S!flowVars, S!hostVars
  <1>3. Answered' /\ Unmixed'
    BY PicksBounded DEF SetupInv, S!PageAnswers, S!PageRuns, S!TypeOK, Answered, S!SomeoneWillAnswer, Unmixed,
       S!SetupAssumption, S!setting, S!flowVars, S!hostVars
  <1>4. Patient'
    BY PicksBounded DEF SetupInv, S!PageAnswers, S!PageRuns, S!TypeOK, Patient, S!Undisturbed, OneWay, Quiet,
       S!HostIdle, S!SetupAssumption, S!setting, S!flowVars, S!hostVars
  <1>5. NothingLost
    BY DEF SetupInv, S!PageAnswers, S!PageRuns, S!TypeOK, Patient, S!Undisturbed, OneWay, Quiet, S!HostIdle,
       NothingLost, S!setting, S!flowVars, S!hostVars
  <1> QED BY <1>1, <1>2, <1>3, <1>4, <1>5 DEF SetupInv

LEMMA DeliverKeeps ==
  ASSUME SetupInv, NEW t \in {"flow", "ui"}, S!Deliver(t)
  PROVE  SetupInv' /\ NothingLost
  <1>1. S!TypeOK'
    BY PicksBounded DEF SetupInv, S!Deliver, S!Returns, S!TypeOK, Counted, S!PC, S!Holder, S!SetupAssumption,
       S!setting, S!flowVars, S!hostVars
  <1>2. Counted'
    BY PicksBounded DEF SetupInv, S!Deliver, S!Returns, S!TypeOK, Counted, S!SetupAssumption, S!setting,
       S!flowVars, S!hostVars
  <1>3. Answered' /\ Unmixed'
    BY PicksBounded DEF SetupInv, S!Deliver, S!Returns, S!TypeOK, Answered, S!SomeoneWillAnswer, Unmixed,
       S!SetupAssumption, S!setting, S!flowVars, S!hostVars
  <1>4. Patient'
    BY PicksBounded DEF SetupInv, S!Deliver, S!Returns, S!TypeOK, Patient, S!Undisturbed, OneWay, Quiet,
       S!HostIdle, S!SetupAssumption, S!setting, S!flowVars, S!hostVars
  <1>5. NothingLost
    BY DEF SetupInv, S!Deliver, S!Returns, S!TypeOK, Patient, S!Undisturbed, OneWay, Quiet, S!HostIdle,
       NothingLost, S!setting, S!flowVars, S!hostVars
  <1> QED BY <1>1, <1>2, <1>3, <1>4, <1>5 DEF SetupInv

\* The first states satisfy the invariant ...
LEMMA SetupBegins == S!Init => SetupInv
  <1> SUFFICES ASSUME S!Init PROVE SetupInv
    OBVIOUS
  <1>1. S!TypeOK
    <2>1. <<>> \in Seq(SUBSET Disk) /\ 0 \in 0..MaxPicks
      BY PicksBounded, EmptySeq DEF S!SetupAssumption
    <2> QED BY <2>1 DEF S!Init, S!TypeOK, S!PC, S!Holder
  <1>2. Counted /\ Answered /\ Unmixed /\ Patient
    BY DEF S!Init, Counted, Answered, S!SomeoneWillAnswer, Unmixed, Patient, Quiet, OneWay, S!HostIdle
  <1> QED BY <1>1, <1>2 DEF SetupInv

\* ... and every step keeps it and loses no choice.
LEMMA SetupStep == SetupInv /\ [S!Next]_setup => SetupInv' /\ (NothingLost \/ UNCHANGED setup)
  <1> SUFFICES ASSUME SetupInv, [S!Next]_setup PROVE SetupInv' /\ (NothingLost \/ UNCHANGED setup)
    OBVIOUS
  <1>1. CASE S!FlowStep \/ S!Browse \/ S!Start \/ S!Cancel
    BY <1>1, BeginKeeps, PolledKeeps, AskDialogKeeps, AskPageKeeps, AskActivityKeeps, CallKeeps,
       CallFailsKeeps, SorryKeeps,
       TakeKeeps, ApplyKeeps, FrameKeeps, BrowseKeeps, StartKeeps, CancelKeeps DEF S!FlowStep
  <1>2. CASE S!HostStep
    BY <1>2, RunPostedKeeps, PickedKeeps, ReportKeeps, PageChosenKeeps, PageAddsKeeps, PageAnswersKeeps,
       DeliverKeeps
    DEF S!HostStep
  <1>3. CASE UNCHANGED setup
    <2>1. S!TypeOK' /\ Counted' /\ Answered' /\ Unmixed'
      BY <1>3 DEF SetupInv, setup, S!setting, S!flowVars, S!hostVars, S!TypeOK, Counted, Answered,
         S!SomeoneWillAnswer, Unmixed
    <2>2. Patient'
      BY <1>3 DEF SetupInv, setup, S!setting, S!flowVars, S!hostVars, Patient, S!Undisturbed, Quiet, OneWay,
         S!HostIdle
    <2> QED BY <1>3, <2>1, <2>2 DEF SetupInv
  <1> QED BY <1>1, <1>2, <1>3 DEF S!Next

\* What the run checks follows from it.
LEMMA SetupImplied == SetupInv => S!TypeOK /\ S!PatientIsSafe /\ S!SomeoneWillAnswer /\ S!AnswersNotMixed
  <1> SUFFICES ASSUME SetupInv PROVE S!TypeOK /\ S!PatientIsSafe /\ S!SomeoneWillAnswer /\ S!AnswersNotMixed
    OBVIOUS
  <1>1. S!PatientIsSafe
    BY DEF SetupInv, Patient, Quiet, S!HostIdle, S!PatientIsSafe, S!NobodyStuck, S!FlowOutlivesDelivery
  <1>2. S!AnswersNotMixed
    BY DEF SetupInv, Unmixed, S!AnswersNotMixed, S!TypeOK
  <1> QED BY <1>1, <1>2 DEF SetupInv, Answered

-----------------------------------------------------------------------------
(* The bench of MCDisks: both components, each in its own turn. *)

\* The disks bench behaves as DiskStore does ...
LEMMA DisksRun == DisksSpec => Spec
  <1>1. DisksInit => Init
    BY DEF DisksInit
  <1>2. [DisksNext]_<<bench, vars, setup>> => [Next]_vars
    BY DEF DisksNext
  <1> QED BY <1>1, <1>2, PTL DEF DisksSpec, Spec

\* ... and the setup bench as SetupFlow does.
LEMMA SetupRuns == DisksSpec => S!Init /\ [][S!Next]_setup
  <1>1. DisksInit => S!Init
    BY DEF DisksInit
  <1>2. [DisksNext]_<<bench, vars, setup>> => [S!Next]_setup
    BY DEF DisksNext
  <1> QED BY <1>1, <1>2, PTL DEF DisksSpec

\* The setup screen's inductive invariant holds, for any number of images and presses.
THEOREM SetupInvariant == DisksSpec => []SetupInv
  <1>1. SetupInv /\ [S!Next]_setup => SetupInv'
    BY SetupStep
  <1> QED BY <1>1, SetupBegins, SetupRuns, PTL

\* For a player who waits for each choice, on Android with its activity and in the browser: no
\* thread waits for a lock it holds and no report reaches a flow that was destroyed; and always,
\* somebody will answer a kept delivery and two answers' documents are not mixed.
THEOREM SetupHolds == DisksSpec => []SetupOK
  <1>1. SetupInv => SetupOK
    BY SetupImplied DEF SetupOK
  <1> QED BY <1>1, SetupInvariant, PTL

\* For that player, what was chosen is taken before another report replaces it, and no report
\* with something in it finds its delivery gone: the safety half of PicksArrive.
THEOREM ChoicesArrive == DisksSpec => S!NothingDropped
  <1>1. SetupInv /\ [S!Next]_setup =>
          [S!Undisturbed => /\ pending # {} => pending' = pending \/ chosen' = pending
                            /\ ui = "report" /\ ui' = "idle" => answer = {}]_(S!vars)
    BY SetupStep DEF NothingLost, S!vars, S!setting, S!flowVars, S!hostVars, setup
  <1> QED BY <1>1, SetupInvariant, SetupRuns, PTL DEF S!NothingDropped
=============================================================================
