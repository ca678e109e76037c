------------------------------ MODULE WideView ------------------------------
(***************************************************************************)
(* Where the wide view stands in the level (native_renderer.c, ws_view_left*)
(* and ws_follow_clamp) and which objects the engine's walker passes on to *)
(* be drawn (gameplay.c, ws_obj_cull_skip).                                *)
(***************************************************************************)
EXTENDS Integers

CONSTANTS
  Tile,    \* columns of a tile (16)
  Screen,  \* columns the engine's camera sees (320)
  Display, \* HW_DISPLAY_W (352)
  Pad,     \* PAD (48)
  Word     \* values of a 16-bit word

ViewSizes ==
  /\ {Tile, Screen, Display, Pad, Word} \subseteq Nat \ {0} /\ Display >= Screen
  /\ Screen % 2 = 0

ASSUME ViewAssumption == ViewSizes

\* v: the camera, the edges its clamp leaves it, and the free camera's point when it is used.
LevelLo(v) == LET e == IF v.lo < 0 THEN 0 ELSE v.lo IN e - (e % Tile)
LevelHi(v) == LET e == v.hi + Screen IN e - (e % Tile)
Narrow(v, ow) == LevelHi(v) - LevelLo(v) <= ow
Half(ow)      == (ow - Screen) \div 2
Follow(v)     == IF v.free THEN v.x ELSE v.camera + Tile

Between(lo, n, hi) == IF n < lo THEN lo ELSE IF n > hi THEN hi ELSE n

\* The leftmost column of the level in the view.
ViewLeft(v, ow) ==
  IF Narrow(v, ow) THEN LevelLo(v) - (ow - (LevelHi(v) - LevelLo(v))) \div 2
  ELSE Between(LevelLo(v), Follow(v) - Half(ow), LevelHi(v) - ow)

\* The free camera's point is kept where it moves the view.
FollowClamp(v, ow, x) ==
  IF Narrow(v, ow) THEN LevelLo(v) + Half(ow)
  ELSE Between(LevelLo(v) + Half(ow), x, (LevelHi(v) - ow) + Half(ow))

\* A word as a signed number.
Signed(n) == IF n >= Word \div 2 THEN n - Word ELSE n

\* An object the walker leaves out: outside the engine's own window when the output is no
\* wider than the engine's, and outside the view when it is.
Skipped(v, ow, x, left, width) ==
  IF ow <= Display THEN (x + left - v.camera) % Word > width
  ELSE LET rel == Signed(x) - (ViewLeft(v, ow) - Pad) IN rel < 0 \/ rel > ow + 2 * Pad

\* Columns from..from+w of the level are seen, some of them.
Seen(v, ow, from, w) == from < ViewLeft(v, ow) + ow /\ from + w > ViewLeft(v, ow)

-----------------------------------------------------------------------------
(* What a view and an object in it satisfy *)

\* The view shows nothing but the level, or all of a level that is narrower, in its middle.
ShowsLevel(v, ow) ==
  IF Narrow(v, ow)
    THEN LET left  == LevelLo(v) - ViewLeft(v, ow)
             right == (ViewLeft(v, ow) + ow) - LevelHi(v)
         IN left >= 0 /\ right - left \in {0, 1}
    ELSE LevelLo(v) <= ViewLeft(v, ow) /\ ViewLeft(v, ow) + ow <= LevelHi(v)

At(v, x) == [v EXCEPT !.free = TRUE, !.x = x]

\* The clamped point shows what the point itself would show, and a step of it inside its range
\* moves the view by that step: the free camera never has to be steered back through points
\* that show nothing new (native_renderer.c:764-771).
ClampedPointMovesView(v, ow, x, y) ==
  LET cx == FollowClamp(v, ow, x)
      cy == FollowClamp(v, ow, y)
  IN /\ ViewLeft(At(v, cx), ow) = ViewLeft(At(v, x), ow)
     /\ ~Narrow(v, ow) => ViewLeft(At(v, cx), ow) - ViewLeft(At(v, cy), ow) = cx - cy

\* No object of at most the pad's width is left out while some of it is seen.
NothingSeenIsSkipped(v, ow, x, w, left, width) ==
  ow > Display /\ w <= Pad /\ Seen(v, ow, Signed(x), w) => ~Skipped(v, ow, x, left, width)
=============================================================================
