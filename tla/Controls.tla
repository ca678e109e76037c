------------------------------ MODULE Controls ------------------------------
(* From held keys to what the guest does with them: the input shadow that     *)
(* hw.c resolves on every event, the bridge over the guest's input decode in  *)
(* a frame (gameplay.c) and the wrappers round its object handlers            *)
(* (pickup.c).  Where a device has modern controls, the interact key picks    *)
(* up, puts down, throws levers and, with Down, drops; fire only jumps.       *)
EXTENDS Integers, FiniteSets

CONSTANTS
  Presses,   \* pairs of a device and an action that a player may hold
  Schemes,   \* the devices with modern controls: the choices
  MaxHeld,   \* held at once
  Tile,      \* the width of an object (16)
  Spots      \* a handler's own window (bias, range), the player's column as seen from its object (px)
             \* and the setting of interact_extend (reach)

ControlsAssumption ==
  Tile \in Int /\ \A spot \in Spots : {spot.bias, spot.px} \subseteq Int /\ {spot.range, spot.reach} \subseteq Nat

Dirs == {"left", "right", "up", "down"}

VARIABLES
  modern,    \* the devices with modern controls
  playing,   \* the playfield is up
  held,      \* the presses held
  sig,       \* the input shadow: s_joy_*, s_hop, s_fire_pressed ("fire"), s_mouse_lmb ("lmb"), ..
  cam,       \* free cam is on
  camKey,    \* prev_fc
  bridged,   \* s_mm_intent_consumed
  thrown,    \* s_interact_consumed
  item,      \* $1094: an item is carried
  alone,     \* the guest decoded fire alone in the last frame
  lifts, throws, \* times the current press of interact lifted or put down the man, and threw a lever
  mixed,     \* fire was held during that press
  stale,     \* free cam ended since the shadow was resolved
  acts       \* what the guest did in the last frame

controls == <<modern, playing, held, sig, cam, camKey, bridged, thrown, item, alone, lifts, throws, mixed, stale, acts>>

-----------------------------------------------------------------------------
(* The shadow *)

Any(a, h) == \E d \in {"kb", "pad", "touch"} : <<d, a>> \in h
From(devs, a, h) == \E d \in devs : <<d, a>> \in h
Others == {"kb", "pad", "touch"} \ modern

Resolved(h, c) ==
  LET hop == From(modern, "hop", h)
      fire == Any("fire", h) \/ (hop /\ ~playing)
  IN IF c THEN {}
     ELSE {a \in Dirs : Any(a, h)} \cup {a \in {"hop", "interact", "drop"} : From(modern, a, h)}
          \cup (IF fire THEN {"fire", "lmb"} ELSE {}) \cup (IF From(Others, "fire", h) THEN {"vanilla"} ELSE {})

\* apply_bound_input, at every event.
Apply(h) ==
  LET key == Any("freecam", h)
      c == IF key /\ ~camKey THEN ~cam /\ playing ELSE cam
  IN held' = h /\ camKey' = key /\ cam' = c /\ sig' = Resolved(h, c) /\ stale' = FALSE

Event == /\ \/ \E p \in Presses \ held : Cardinality(held) < MaxHeld /\ Apply(held \cup {p})
            \/ \E p \in held : Apply(held \ {p})
         /\ IF "interact" \in sig' /\ "interact" \notin sig THEN lifts' = 0 /\ throws' = 0 ELSE UNCHANGED <<lifts, throws>>
         /\ mixed' = ("interact" \in sig' /\ ("fire" \in sig' \/ ("interact" \in sig /\ mixed)))
         /\ acts' = {}
         /\ UNCHANGED <<modern, playing, bridged, thrown, item, alone>>

\* pc_freecam_tick brought the camera home.
CamEnds == /\ cam /\ cam' = FALSE /\ stale' = TRUE /\ acts' = {}
           /\ UNCHANGED <<modern, playing, held, sig, camKey, bridged, thrown, item, alone, lifts, throws, mixed>>

-----------------------------------------------------------------------------
(* The bridge over the guest's decode *)

Down     == "down" \in sig
Interact == "interact" \in sig
Vanilla  == "vanilla" \in sig
DropMeant == (Interact /\ Down) \/ "drop" \in sig
LiftMeant == Interact /\ ~bridged /\ ~item /\ sig \cap {"down", "left", "right"} = {}
BareFire == sig \cap {"fire", "lmb"} # {} /\ ~Interact /\ ~Vanilla /\ sig \cap Dirs = {}

Pressed(s)  == s \cup {"fire", "lmb"}
Stripped(s) == s \ {"fire", "lmb"}

\* What the guest is shown; `platformer' keeps the jump button to itself.
Shown(platformer) ==
  LET s == IF "hop" \in sig /\ ~platformer THEN sig \cup {"up"} ELSE sig
  IN IF LiftMeant THEN Pressed(s)
     ELSE IF DropMeant /\ item THEN Pressed(s) \cup {"down"}
     ELSE IF DropMeant THEN s \ {"down"}
     ELSE IF Down /\ ~Vanilla THEN Stripped(s)
     ELSE IF BareFire THEN Stripped(s)
     ELSE s

\* The shadow put back: what was changed, as it was found.
Restored(s) == (s \ {"fire", "lmb", "down", "up"}) \cup (sig \cap {"fire", "lmb", "down", "up"})

Bridge(platformer) ==
  IF modern = {} THEN [shown |-> sig, after |-> sig, bridged |-> bridged]
  ELSE LET s == Shown(platformer) IN [shown |-> s, after |-> Restored(s), bridged |-> Interact]

-----------------------------------------------------------------------------
(* The wrapper round a handler *)

\* Where the handler is told the player stands.
Nudged(spot) ==
  IF spot.px < -spot.reach \/ spot.px > Tile + spot.reach THEN spot.px
  ELSE IF spot.px < spot.bias THEN spot.bias
  ELSE IF spot.px > spot.bias + spot.range THEN spot.bias + spot.range
  ELSE spot.px

InWindow(spot, px) == px \in spot.bias..spot.bias + spot.range

\* Mutant: without the latch.
WrappedEachFrame(fire, latch, spot) ==
  IF modern # {} /\ Interact THEN [fire |-> TRUE, px |-> Nudged(spot)]
  ELSE [fire |-> fire /\ (modern = {} \/ Vanilla),
        px |-> IF spot.reach > 0 /\ fire /\ (modern = {} \/ Vanilla) THEN Nudged(spot) ELSE spot.px]

\* An object's handler sees a fire bit and a place; a lever's is wrapped with the latch.
Wrapped(fire, latch, spot) ==
  LET active == Interact /\ ~(latch /\ thrown)
      near == IF spot.reach > 0 THEN Nudged(spot) ELSE spot.px
  IN IF modern = {} THEN [fire |-> fire, px |-> IF fire THEN near ELSE spot.px]
     ELSE IF active THEN [fire |-> TRUE, px |-> Nudged(spot)]
     ELSE IF Vanilla /\ fire THEN [fire |-> TRUE, px |-> near]
     ELSE [fire |-> FALSE, px |-> spot.px]
Fires(fire, latch, spot) == LET c == Wrapped(fire, latch, spot) IN c.fire /\ InWindow(spot, c.px)

-----------------------------------------------------------------------------
(* A frame: the decode, the player's pose machine and the object walk *)

\* The guest's pose machine: fire alone, newly pressed, lifts the man and lets go of him; fire
\* and Down drop the item.
Poses(s) == (IF s \cap (Dirs \cup {"fire"}) = {"fire"} /\ ~alone THEN {"man"} ELSE {})
            \cup (IF {"fire", "down"} \subseteq s /\ item THEN {"drop"} ELSE {})
            \cup (IF "down" \in s /\ "fire" \notin s THEN {"prone"} ELSE {})

Frame(platformer, spot) ==
  LET b == Bridge(platformer)
      did == Poses(b.shown)
      \* the handler runs with the shadow as restored, and the bits of this decode
      throw == Fires("fire" \in b.shown, TRUE, spot)
      take == Fires("fire" \in b.shown, FALSE, spot)
      active == modern # {} /\ Interact /\ ~thrown
  IN /\ playing /\ ~cam
     /\ sig' = b.after /\ bridged' = b.bridged
     /\ alone' = (b.shown \cap (Dirs \cup {"fire"}) = {"fire"})
     /\ item' = IF "drop" \in did THEN FALSE ELSE item
     /\ thrown' = IF modern = {} THEN thrown ELSE IF ~Interact THEN FALSE ELSE IF active /\ throw THEN TRUE ELSE thrown
     /\ lifts' = lifts + (IF "man" \in did /\ lifts < 2 THEN 1 ELSE 0)
     /\ throws' = throws + (IF throw /\ throws < 2 THEN 1 ELSE 0)
     /\ acts' = did \cup (IF throw THEN {"throw"} ELSE {}) \cup (IF take THEN {"take"} ELSE {})
     /\ UNCHANGED <<modern, playing, held, cam, camKey, mixed, stale>>

\* The card comes and goes; the guest hands the player an item.
World == /\ \/ playing' = ~playing /\ item' = item /\ stale' = TRUE
            \/ ~item /\ item' = TRUE /\ UNCHANGED <<playing, stale>>
         /\ acts' = {}
         /\ UNCHANGED <<modern, held, sig, cam, camKey, bridged, thrown, alone, lifts, throws, mixed>>

Init == /\ modern \in Schemes /\ playing = TRUE /\ held = {} /\ sig = {} /\ cam = FALSE /\ camKey = FALSE
        /\ bridged = FALSE /\ thrown = FALSE /\ item = FALSE /\ alone = FALSE
        /\ lifts = 0 /\ throws = 0 /\ mixed = FALSE /\ stale = FALSE /\ acts = {}

Next == Event \/ CamEnds \/ World
        \/ \E platformer \in BOOLEAN, spot \in Spots : Frame(platformer, spot)

Spec == Init /\ [][Next]_controls

-----------------------------------------------------------------------------
(* Properties *)

OnlyModernFire == "vanilla" \notin sig /\ sig \cap {"interact", "drop"} = {}

\* The shadow is what the held keys make of it, also after a frame in which the guest was shown
\* something else.
ShadowTrue == ~stale => sig = Resolved(held, cam)

\* Where every device has modern controls, one press of interact lifts or puts down at most one
\* man and throws at most one lever, however long it is held; and fire alone does neither.
PressOnce == Others \cap {p[1] : p \in Presses} = {} /\ ~mixed /\ Interact => lifts <= 1 /\ throws <= 1
FireOnlyJumps == OnlyModernFire /\ modern # {} => acts \cap {"man", "drop", "throw", "take"} = {}

\* A press that means to drop never lays him down.
DropStandsUp == DropMeant => "prone" \notin acts

\* What the guest's own window takes, and everything within the reach of the object, is in
\* reach; nothing else is.
ReachIs(spot) == InWindow(spot, Nudged(spot)) <=> InWindow(spot, spot.px) \/ spot.px \in -spot.reach..Tile + spot.reach

ControlsOK == ShadowTrue /\ PressOnce /\ FireOnlyJumps /\ DropStandsUp /\ \A spot \in Spots : ReachIs(spot)
=============================================================================
