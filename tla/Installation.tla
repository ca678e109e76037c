---------------------------- MODULE Installation ----------------------------
(***************************************************************************)
(* What the disk store promises the product that starts from it            *)
(* (src/src/platform/disk_selection_store.cpp, staged_disks.cpp and        *)
(* setup_flow.cpp's committed_disks): the set of disk images the product   *)
(* would boot from is replaced by a whole one in a single step or not at   *)
(* all.  While the program runs nothing damages it; it is asked for again  *)
(* only when it is missing or no longer whole; and the game never runs     *)
(* from anything but a whole set.                                          *)
(***************************************************************************)
VARIABLES mode,        \* "off", "setup" (the setup screen is up) or "game"
          installed    \* the disks the stored selection names

vars == <<mode, installed>>

TypeOK == mode \in {"off", "setup", "game"} /\ installed \in {"none", "whole", "broken"}

Init == mode = "off" /\ installed = "none"

\* The entry points (android_setup_disks, desktop_setup_disks) use a whole set
\* and otherwise show the setup screen.
Start == /\ mode = "off"
         /\ mode' = IF installed = "whole" THEN "game" ELSE "setup"
         /\ UNCHANGED installed

\* The commit: whatever was there, the selection now names a whole set.
Install == mode = "setup" /\ installed' = "whole" /\ UNCHANGED mode

Play == mode = "setup" /\ installed = "whole" /\ mode' = "game" /\ UNCHANGED installed

\* The player leaves, or the process dies.
Stop == mode # "off" /\ mode' = "off" /\ UNCHANGED installed

\* The player, or another program, alters the files between two runs.
Disturb == mode = "off" /\ installed' \in {"none", "whole", "broken"} /\ UNCHANGED mode

Next == Start \/ Install \/ Play \/ Stop \/ Disturb

Spec == Init /\ [][Next]_vars
=============================================================================
