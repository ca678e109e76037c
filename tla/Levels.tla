------------------------------- MODULE Levels -------------------------------
(* Worlds, levels and the player's way through them: the layout and the names *)
(* that the disks give (level_layout.c), what is completed and so unlocked    *)
(* (profile.c), the picker and CONTINUE of the title menu (boot.c) and its    *)
(* panel keys (hw.c), and the level the hand-off starts ($20).                *)
EXTENDS Integers, Sequences

CONSTANTS
  Counts,   \* levels of the vanilla worlds
  Slots,    \* extra worlds there is room for on Disk.4
  PerExtra, \* levels of one
  Readable, \* which slots a Disk.4 may really fill: a set of sets
  Tables,   \* what may look like a world's level table: sequences of runs of name slots
  Faults    \* crashes and failed writes, at most

LevelsAssumption == /\ Counts \in Seq(Nat \ {0}) /\ Counts # <<>> /\ PerExtra \in Nat \ {0}
                    /\ Slots \in Nat /\ Readable \subseteq SUBSET (0..Slots - 1) /\ Faults \in Nat
                    /\ Tables \subseteq Seq(Seq(Int))

VARIABLES
  disk,      \* the slots of Disk.4 that load and carry a crunched world
  completed, \* s_completed
  saved,     \* what profile.json lists
  start,     \* g_pc_start_level
  guest,     \* $20, the level the game is on
  at,        \* "menu", "picker", "play", "saving" or "banner"
  faults

levels == <<disk, completed, saved, start, guest, at, faults>>

-----------------------------------------------------------------------------
(* The layout *)

VanillaIn(w) == IF w \in 0..Len(Counts) - 1 THEN Counts[w + 1] ELSE 0
Vanilla == LET sum[w \in Nat] == IF w = 0 THEN 0 ELSE sum[w - 1] + VanillaIn(w - 1) IN sum[Len(Counts)]

\* Slots are taken in order, up to the first that is missing.
Extras    == CHOOSE n \in 0..Slots : 0..n - 1 \subseteq disk /\ n \notin disk
Worlds    == Len(Counts) + Extras
NumLevels == Vanilla + PerExtra * Extras
LevelsIn(w) == IF w \in Len(Counts)..Worlds - 1 THEN PerExtra ELSE VanillaIn(w)
FirstLevel(w) == LET first[v \in Nat] == IF v = 0 THEN 1 ELSE first[v - 1] + LevelsIn(v - 1)
                 IN IF w \in 0..Worlds - 1 THEN first[w] ELSE 0

\* pc_level_split: the world, and the level in it.
Split(level) ==
  LET left[w \in Nat] == IF w = 0 THEN level - 1 ELSE left[w - 1] - LevelsIn(w - 1)
      world == CHOOSE w \in 0..Worlds - 1 : left[w] < LevelsIn(w) /\ \A v \in 0..w - 1 : left[v] >= LevelsIn(v)
  IN IF level \in 1..NumLevels THEN [world |-> world, liw |-> left[world]] ELSE [world |-> 0, liw |-> 0]

\* The name slot of a level of a world of n levels: by the first run that is a permutation.
IsTable(run, n) == Len(run) >= n /\ {run[k] : k \in 1..n} = 0..n - 1
Slot(runs, n, liw) ==
  LET found == {i \in 1..Len(runs) : IsTable(runs[i], n)}
      first == CHOOSE i \in found : \A j \in found : i <= j
  IN IF found = {} THEN liw ELSE runs[first][liw + 1]

-----------------------------------------------------------------------------
(* The profile *)

Highest == IF completed = {} THEN 0 ELSE CHOOSE l \in completed : \A m \in completed : m <= l

Unlocked(level) ==
  /\ level \in 1..NumLevels
  /\ IF level > Vanilla THEN (level - Vanilla - 1) % PerExtra = 0 \/ {level - 1, level} \cap completed # {}
     ELSE level \in completed \/ level <= Highest + 1

\* pc_profile_try_select
Tried(level) == IF Unlocked(level) THEN level ELSE start

-----------------------------------------------------------------------------
(* The title menu *)

Between(lo, n, hi) == IF n < lo THEN lo ELSE IF n > hi THEN hi ELSE n

\* Mutant: only the player's own choice is looked at.
CursorOfHost == IF start > 0 THEN start ELSE 1

\* pc_get_start_level
Cursor == IF start > 0 THEN start ELSE IF guest \in 1..NumLevels THEN guest ELSE 1

\* The title keeps $20 within the levels it knows.
ToMenu(g) == at' = "menu" /\ guest' = Between(1, g, Vanilla)

\* The hand-off to the gameplay overlay ($150).
HandOff(s) == at' = "play" /\ start' = s /\ guest' = IF s > 0 THEN s ELSE guest

\* pc_menu_continue_level: the first vanilla level not cleared, the last if all are.
ContinueLevel ==
  LET open == {l \in 1..Vanilla - 1 : l \notin completed}
  IN IF open = {} THEN Vanilla ELSE CHOOSE l \in open : \A m \in open : l <= m
Continue == /\ at = "menu"
            /\ HandOff(IF Unlocked(ContinueLevel) THEN ContinueLevel ELSE 1)
            /\ UNCHANGED <<disk, completed, saved, faults>>

OpenPicker == at = "menu" /\ at' = "picker" /\ UNCHANGED <<disk, completed, saved, start, guest, faults>>

\* Mutant: the next world or none.
Beside(world, dir) == LET l == FirstLevel((world + dir + Worlds) % Worlds) IN IF Unlocked(l) THEN l ELSE 0

\* Where left and right look, one world after the other, for one that is open.
Around(world, dir) ==
  LET First(k) == FirstLevel((world + k * dir + Worlds) % Worlds)
      open == {k \in 1..Worlds - 1 : Unlocked(First(k))}
  IN IF open = {} THEN 0 ELSE First(CHOOSE k \in open : \A j \in open : k <= j)

\* A press on the stick in the picker.
Pick == LET c == Split(Cursor) IN
  /\ at = "picker"
  /\ \/ c.liw > 0 /\ start' = Tried(FirstLevel(c.world) + c.liw - 1)
     \/ c.liw < LevelsIn(c.world) - 1 /\ start' = Tried(FirstLevel(c.world) + c.liw + 1)
     \/ \E dir \in {-1, 1} : start' = (IF Around(c.world, dir) = 0 THEN start ELSE Around(c.world, dir))
  /\ UNCHANGED <<disk, completed, saved, guest, at, faults>>

\* The arrow keys go by level, and by vanilla world without wrapping round.
PanelKey == LET w == IF Split(Cursor).world < Len(Counts) THEN Split(Cursor).world ELSE 0 IN
  /\ at = "picker"
  /\ \E level \in {Cursor - 1, Cursor + 1, FirstLevel(IF w > 0 THEN w - 1 ELSE 0),
                   FirstLevel(IF w < Len(Counts) - 1 THEN w + 1 ELSE w)} : start' = Tried(level)
  /\ UNCHANGED <<disk, completed, saved, guest, at, faults>>

Confirm == at = "picker" /\ HandOff(start) /\ UNCHANGED <<disk, completed, saved, faults>>
Dismiss == at = "picker" /\ at' = "menu" /\ UNCHANGED <<disk, completed, saved, start, guest, faults>>

-----------------------------------------------------------------------------
(* In the game *)

\* The guest has advanced $20 when the banner of a won level asks for its text; a level that
\* was not completed before is saved: profile.json is truncated, then written.
Win == /\ at = "play" /\ guest' = guest + 1
       /\ LET won == guest' - 1 IN
          IF won \in completed \/ won \notin 1..NumLevels
            THEN at' = "banner" /\ UNCHANGED <<completed, saved, faults>>
            ELSE /\ completed' = completed \cup {won}
                 /\ \/ at' = "saving" /\ saved' = {} /\ UNCHANGED faults
                    \/ at' = "banner" /\ faults < Faults /\ faults' = faults + 1 /\ UNCHANGED saved
       /\ UNCHANGED <<disk, start>>
Written == at = "saving" /\ at' = "banner" /\ saved' = completed /\ UNCHANGED <<disk, completed, start, guest, faults>>

\* The next level, or past the last one the title.
Onwards == /\ at = "banner"
           /\ IF guest <= NumLevels THEN at' = "play" /\ guest' = guest ELSE ToMenu(guest)
           /\ UNCHANGED <<disk, completed, saved, start, faults>>

\* The pause menu's exit is a cold restart, which resets the host's choice and leaves $20.
ExitToMenu == at = "play" /\ ToMenu(guest) /\ start' = 0 /\ UNCHANGED <<disk, completed, saved, faults>>

\* The process ends and starts again, with whatever disks it then finds.
Restart == /\ faults < Faults /\ faults' = faults + 1
           /\ completed' = saved /\ start' = 0 /\ ToMenu(0) /\ disk' \in Readable /\ UNCHANGED saved

Init == /\ disk \in Readable /\ completed = {} /\ saved = {} /\ start = 0 /\ guest = 1 /\ at = "menu" /\ faults = 0

Next == Continue \/ OpenPicker \/ Pick \/ PanelKey \/ Confirm \/ Dismiss
        \/ Win \/ Written \/ Onwards \/ ExitToMenu \/ Restart

Spec == Init /\ [][Next]_levels

-----------------------------------------------------------------------------
(* Properties *)

\* The layout's two directions agree, and each stored name is listed once, whatever is taken for
\* the world's level table.
LayoutAgrees ==
  /\ \A l \in 1..NumLevels : LET c == Split(l) IN FirstLevel(c.world) + c.liw = l /\ c.liw < LevelsIn(c.world)
  /\ \A runs \in Tables, w \in 0..Worlds - 1 :
       \A i, j \in 0..LevelsIn(w) - 1 : Slot(runs, LevelsIn(w), i) = Slot(runs, LevelsIn(w), j) => i = j

\* CONTINUE always has an open level to start, however many were won, in whatever order.
ContinueIsOpen == Unlocked(ContinueLevel)

\* From wherever the picker stands, pressing right again and again comes by every other world
\* whose first level is open.
RightFrom(world) ==
  LET after[n \in Nat] == [w \in 0..Worlds - 1 |->
        IF n = 0 \/ Around(w, 1) = 0 THEN {} ELSE {Around(w, 1)} \cup after[n - 1][Split(Around(w, 1)).world]]
  IN after[Worlds][world]
WorldsReachable ==
  at = "picker" => LET w == Split(Cursor).world IN
    \A v \in 0..Worlds - 1 : v # w /\ Unlocked(FirstLevel(v)) => FirstLevel(v) \in RightFrom(w)

\* profile.json never lists what was not won, and lists all of it but while it is being
\* written or after a write failed.
ProfileHonest == saved \subseteq completed /\ (faults = 0 /\ at # "saving" => saved = completed)

LevelsOK == (completed = {} => LayoutAgrees) /\ ContinueIsOpen /\ WorldsReachable /\ ProfileHonest

\* The hand-off starts the level the picker shows, even where the player chose none, after an
\* exit from the level the game was on; what the menus start is open, or was the game's own;
\* and winning takes nothing away that was open.
LevelStep ==
  /\ at = "picker" /\ at' = "play" => guest' = Cursor
  /\ at \in {"menu", "picker"} /\ at' = "play" => Unlocked(guest') \/ guest' = guest
  /\ disk' = disk /\ completed # completed' /\ completed \subseteq completed' => \A l \in 1..NumLevels : Unlocked(l) => Unlocked(l)'

\* What profile.c says of the extra levels: their progression is their own.
OwnProgression == \A l \in 2..Vanilla : Unlocked(l) => \E m \in completed : m \in l - 1..Vanilla
=============================================================================
