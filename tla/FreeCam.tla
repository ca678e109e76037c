------------------------------ MODULE FreeCam ------------------------------
(* The detachable camera (src/port/freecam.c): panned by the held directions, *)
(* kept where it moves the view, and brought back to the engine's camera by    *)
(* a pan or, when that would take longer, behind a curtain.  The game may run  *)
(* on meanwhile: its camera moves, levels change, the playfield goes.          *)
EXTENDS WideView

CONSTANTS
  Step, Fast,      \* FREECAM_STEP, FREECAM_STEP_FAST
  Return,          \* FREECAM_RETURN_STEP
  FadeHalf,        \* FREECAM_FADE_HALF
  Curtain,         \* the alpha of the closed curtain (255)
  Drift,           \* how far the engine's camera goes between two ticks
  Edges,           \* the levels, by the range of their camera: records lo, hi
  Output,          \* columns of the output
  Changes          \* of the level, at most

CameraAssumption == /\ ViewSizes /\ {Step, Fast, Return, FadeHalf, Curtain} \subseteq Nat \ {0} /\ Drift \in Nat
                    /\ Step <= Return /\ Fast <= Return /\ Drift < Return
                    /\ Output \in Nat /\ Edges \subseteq {e \in [lo : Int, hi : Int] : e.lo <= e.hi}

VARIABLES
  active,  \* s_active
  x,       \* s_x
  home,    \* s_return
  fade,    \* s_fade
  level,   \* the level that is loaded
  camera,  \* the engine's camera
  playing, \* g_gameplay_active
  still,   \* freecam_pause: the game is frozen while the camera is out
  since,   \* ticks of its return while the engine's camera stood still; -1: the level changed
  changes

freecam == <<active, x, home, fade, level, camera, playing, still, since, changes>>

Limits    == Return * 2 * FadeHalf
FollowPt  == camera + Tile
V         == [camera |-> camera, lo |-> level.lo, hi |-> level.hi, free |-> active, x |-> x]
Distance  == IF x < FollowPt THEN FollowPt - x ELSE x - FollowPt
Alpha     == IF fade < 0 THEN 0
             ELSE IF fade <= FadeHalf THEN (fade * Curtain) \div FadeHalf
             ELSE ((2 * FadeHalf - fade) * Curtain) \div FadeHalf

\* pc_freecam_toggle; `benren' is the renderer that can show other columns.
Toggle(benren) ==
  /\ IF fade >= 0 THEN UNCHANGED <<active, x, home, fade>>
     ELSE IF home THEN home' = FALSE /\ UNCHANGED <<active, x, fade>>
     ELSE IF active
       THEN /\ fade' = (IF Distance > Limits THEN 0 ELSE fade)
            /\ home' = (0 < Distance /\ Distance <= Limits)
            /\ active' = (Distance > 0)
            /\ x' = x
     ELSE IF playing /\ benren THEN active' = TRUE /\ x' = FollowPt /\ UNCHANGED <<home, fade>>
     ELSE UNCHANGED <<active, x, home, fade>>
  /\ since' = 0
  /\ UNCHANGED <<level, camera, playing, still, changes>>

Gone == active' = FALSE /\ home' = FALSE /\ UNCHANGED <<x, fade>>
\* Mutant: the cut comes with the first frame of the curtain.
CurtainAfterTheCut ==
  /\ fade' = (IF fade + 1 >= 2 * FadeHalf THEN -1 ELSE fade + 1)
  /\ active' = FALSE /\ home' = FALSE /\ x' = x

\* The curtain closes, the camera is cut back, the curtain opens.
CurtainMoves ==
  /\ fade' = (IF fade + 1 >= 2 * FadeHalf THEN -1 ELSE fade + 1)
  /\ IF fade + 1 = FadeHalf THEN active' = FALSE /\ home' = FALSE ELSE UNCHANGED <<active, home>>
  /\ x' = x
ComesHome == IF x > FollowPt + Return THEN x' = x - Return /\ UNCHANGED <<active, home, fade>>
             ELSE IF x < FollowPt - Return THEN x' = x + Return /\ UNCHANGED <<active, home, fade>>
             ELSE Gone
Pans(dir, fast) == /\ x' = FollowClamp(V, Output, x + dir * (IF fast THEN Fast ELSE Step))
                   /\ UNCHANGED <<active, home, fade>>

\* pc_freecam_tick, once per presented frame.
Tick(dir, fast) ==
  /\ IF fade >= 0 THEN CurtainMoves
     ELSE IF ~active THEN UNCHANGED <<active, x, home, fade>>
     ELSE IF ~playing THEN Gone
     ELSE IF home THEN ComesHome
     ELSE Pans(dir, fast)

\* pc_freecam_paused
Frozen == active /\ still

\* A presented frame's tick, and what the game does to its camera until the next.
Frame(dir, fast, drift) ==
  /\ Frozen => drift = 0
  /\ Tick(dir, fast)
  /\ camera' = Between(level.lo, camera + drift, level.hi)
  /\ since' = (IF since < 0 THEN since ELSE IF (home' \/ fade' >= 0) /\ drift = 0 THEN since + 1 ELSE 0)
  /\ UNCHANGED <<level, playing, still, changes>>

\* A level is loaded or left (also by RETRY and EXIT of the pause menu while the game is frozen).
World == /\ changes < Changes /\ changes' = changes + 1
         /\ \/ playing' = ~playing /\ UNCHANGED <<level, camera>>
            \/ \E l \in Edges : level' = l /\ camera' \in {l.lo, l.hi} /\ playing' = playing
         /\ since' = -1 /\ UNCHANGED <<active, x, home, fade, still>>

Init == /\ active = FALSE /\ x = 0 /\ home = FALSE /\ fade = -1 /\ since = 0 /\ changes = 0
        /\ level \in Edges /\ camera = level.lo /\ playing = TRUE /\ still \in BOOLEAN

AFrame == \E dir \in {-1, 0, 1}, fast \in BOOLEAN, drift \in -Drift..Drift : Frame(dir, fast, drift)
Next == AFrame \/ World \/ \E benren \in BOOLEAN : Toggle(benren)

\* Frames are presented for as long as the program runs, whatever the player does.
Spec == Init /\ [][Next]_freecam /\ WF_freecam(AFrame)

-----------------------------------------------------------------------------
(* Properties *)

View   == ViewLeft(V, Output)
Apart(m, n) == IF m < n THEN n - m ELSE m - n
Coming == home \/ fade >= 0

\* The return that was chosen is the quicker one: while the engine's camera stands still, no
\* pan takes longer than the curtain would, and the curtain is not down for longer than that.
QuickHome == since <= 2 * FadeHalf

\* Nothing jumps in sight: within a level, the view moves in a frame by no more than the pan home and
\* the engine's camera together, or else behind the closed curtain.  And once the point is
\* where it moves the view, every change of it shows: no pan runs dry.
InRange == FollowClamp(V, Output, x) = x
ViewStep ==
  /\ changes' = changes => Apart(View, View') <= Return + Drift \/ Alpha' = Curtain \/ ~playing
  /\ changes' = changes /\ active /\ active' /\ ~home /\ InRange => Apart(View, View') = Apart(x, x')

\* And a camera that was told to come home does, whichever way; with it a frozen game goes on.
CameraReturns == []QuickHome /\ [][ViewStep]_freecam /\ (Coming ~> ~Coming)
=============================================================================
