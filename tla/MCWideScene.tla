---------------------------- MODULE MCWideScene ----------------------------
(* The copper walk, the captures and the scene share no state that these   *)
(* modules keep: what one hands the next is an input of the next, and each *)
(* runs on a bench of its own.  A tile is four columns.                    *)
EXTENDS WideScene

CONSTANTS CopperH, Chips, Places, Later, Width, First, Wrap, High, MaxAnchors, Ring, Delays, MaxFrames,
          CapTile, CapScreen, CapDisplay, CapPad, CapWord,
          Nodes, Looks, Type, Cams, Edges, Outs, MaxObjs, Slack, Windows, MaxWalks, MaxEras,
          Things, MaxThings, Ttl, MaxBoxes, Ropes

VARIABLES bench, rope,
          chip, cop1lc, curCop1lc, ring, widx, count, delay, pic, past,
          look, cam, width, era, dirty, page, back, next, building, commit, walks,
          pass, drawn, list, done, walked, active, fresh, ttl, at, inside, text, won, since

C == INSTANCE CopperWalk WITH H <- CopperH
O == INSTANCE WideCapture WITH out <- width, Tile <- CapTile, Screen <- CapScreen, Display <- CapDisplay, Pad <- CapPad, Word <- CapWord
B == INSTANCE WideOverlay

ASSUME CopperAssumed   == C!CopperAssumption
ASSUME CapturesAssumed == O!CaptureAssumption
ASSUME MovesAssumed    == O!MovesWithFrame
ASSUME OverlayAssumed  == B!OverlayAssumption
ASSUME RopesAssumed    == Ropes # {} /\ \A r \in Ropes : {r.x0, r.y0, r.x1, r.y1} \subseteq Int

copper  == <<chip, cop1lc, curCop1lc, ring, widx, count, delay, pic, past>>
capture == <<look, cam, width, era, dirty, page, back, next, building, commit, walks>>
overlay == <<pass, drawn, list, done, walked, active, fresh, ttl, at, inside, text, won, since>>

Only(b, S) == IF bench = b THEN S ELSE {CHOOSE e \in S : TRUE}

WideInit == /\ bench \in {"copper", "objects", "passes", "banner", "scene", "ropes"}
            /\ rope \in Only("ropes", Ropes) /\ frame = (CHOOSE f \in Frames : f.live)
            /\ chip \in Only("copper", Chips) /\ cop1lc \in Only("copper", Places) /\ delay \in Only("copper", Delays)
            /\ look \in Only("objects", O!Everything) /\ cam \in Only("objects", Cams) /\ width \in Only("objects", Outs)
            /\ Init /\ C!Init /\ O!Init /\ B!Init

WideNext == /\ UNCHANGED <<bench, rope>>
            /\ \/ bench = "copper" /\ C!Next /\ UNCHANGED <<vars, capture, overlay>>
               \/ bench = "objects" /\ O!Next /\ UNCHANGED <<vars, copper, overlay>>
               \/ bench = "passes" /\ (B!Passes \/ B!Present) /\ UNCHANGED <<vars, copper, capture>>
               \/ bench = "banner" /\ (B!Banners \/ B!Present) /\ UNCHANGED <<vars, copper, capture>>
               \/ bench = "scene" /\ Next /\ UNCHANGED <<copper, capture, overlay>>

WideSpec == WideInit /\ [][WideNext]_<<bench, rope, vars, copper, capture, overlay>>
            /\ WF_overlay(bench = "banner" /\ B!Present) /\ WF_overlay(bench = "banner" /\ B!EndPass)

CopperOK    == C!CopperOK
CapturesOK  == O!ObjectsOK /\ B!OverlayOK
PicturesOK  == SceneOK /\ RopeHolds(rope)
BannerLasts == B!BannerLasts

\* A copper list: planes, a fetch and pointers, a WAIT, moves, another WAIT and more moves.
M(r, v)    == [op |-> "move", reg |-> r, val |-> v]
P(r, p, v) == [op |-> "move", reg |-> r, plane |-> p, val |-> v]
W(v)       == [op |-> "wait", vp |-> v]
Con(n, d)  == M("con", [planes |-> n, dual |-> d])
Ptr(p, v)  == <<P("high", p, v \div 4), P("low", p, v % 4)>>
Parts  == {<<M("color", 1)>>, <<Con(1, FALSE), M("scroll", 1)>>, <<Con(3, TRUE), M("mod", <<1, 0>>)>>,
           Ptr(1, 2) \o Ptr(0, 9), <<P("low", 0, 3)>>, <<[op |-> "skip"], M("color", 2)>>,
           <<M("stop", 3), M("window", <<1, 3>>)>>}
Start0 == <<Con(2, FALSE), M("stop", 2)>> \o Ptr(0, 1) \o Ptr(1, 6)
MCLists == {Start0 \o <<W(v)>> \o a \o <<W(w)>> \o b \o <<W(4)>> : v \in {3}, w \in {0, 5}, a, b \in Parts}
\* Two lists, for the guest to show one while it writes the other.
Two(a, b) == [front |-> a, back |-> b]
MCLater == {[lists |-> Two(Start0 \o <<W(3)>>, <<Con(1, FALSE), W(2)>>), bits |-> {3, 4, 5}],
            [lists |-> Two(<<Con(1, FALSE), W(2)>>, <<Con(1, FALSE), M("color", 1), W(2)>>), bits |-> {0, 2}]}
MCChips == {[lists |-> Two(l, Start0 \o <<W(3)>>), bits |-> {a \in 0..40 : a % 3 = 0 \/ a % 7 = 1}] : l \in MCLists} \cup MCLater

\* Two objects of one kind, one that moves across the right edge of the engine's window and
\* one at the left end of the level.
Look(x, w, f, k) == [x |-> x, w |-> w, frame |-> f, kind |-> k]
MCNodes == <<"n", "m">>
MCLooks == [n |-> {Look(400, 2, 1, "lively"), Look(416, 2, 3, "still")},
            m |-> {Look(120, 1, 2, "fast"), Look(65534, 2, 1, "still"), Look(120, 1, 2, "gone")}]
MCType  == [n |-> "t", m |-> "t"]
MCEdges == <<0, 700>>
MCWindows == <<368, 432>>

MCThings == {"a"}

MCRopes == [x0 : {0, 3}, y0 : {0, 4}, x1 : 0..8, y1 : 0..6]

-----------------------------------------------------------------------------
(* Frames *)

Img(w, h, k) == [w |-> w, h |-> h, drop |-> k - 1,
                 ink |-> [t \in (0..h - 1) \X (0..w - 1) |-> (t[1] + 2 * t[2] + k) % 4],
                 mask |-> {t \in (0..h - 1) \X (0..w - 1) : (t[1] + t[2]) % 3 # k % 3}]
MCSheet == [n \in 0..7 |-> Img(2, 2, n % 3)]
MCAtlas == <<9, 40>>

Map(last) == [a \in {<<0, 0>>, <<0, 1>>, <<0, last - 1>>, <<0, last>>} |-> Img(4, 4, a[2])]
Eye(c, lo, hi, free, x) == [camera |-> c, lo |-> lo, hi |-> hi, free |-> free, x |-> x]
Rows(broken) == [y \in 0..5 |-> y \in 1..4 \ broken]

Plain == [ow |-> 14, mode |-> "benren", compare |-> FALSE, hardware |-> TRUE, live |-> TRUE, sound |-> TRUE,
          covered |-> FALSE, overlay |-> {}, gpu |-> FALSE, shadows |-> FALSE, five |-> Rows({}), anchors |-> {0, 5}, window |-> <<1, 9>>, fetch |-> 1,
          view |-> Eye(3, -2, 12, FALSE, 0), map |-> Map(5), water |-> <<>>, objects |-> <<>>,
          player |-> <<>>, chars |-> <<>>, men |-> <<>>, ropes |-> <<>>, banner |-> <<>>]
Busy == [Plain EXCEPT
  !.water = <<[x |-> 5, y |-> 2, pic |-> Img(4, 1, 2)]>>,
  !.objects = <<[x |-> 14, y |-> 1, pic |-> Img(4, 2, 0)], [x |-> 2, y |-> -1, pic |-> Img(4, 2, 1)]>>,
  !.player = <<[x |-> 8, y |-> 4, dx |-> 1, dy |-> -1, flipped |-> TRUE, hurt |-> FALSE, flash |-> FALSE, pic |-> Img(3, 3, 1)]>>,
  !.chars = <<[x |-> 9, y |-> 1, pic |-> Img(2, 3, 2)]>>,
  !.men = <<[x |-> 6, y |-> 9, frame |-> 1, turned |-> FALSE, blind |-> TRUE, dust |-> <<[x |-> 8, y |-> 0, pic |-> Img(3, 2, 1)]>>]>>,
  !.ropes = <<[x0 |-> 12, y0 |-> 0, x1 |-> 9, y1 |-> 3]>>]
Hurt   == [Busy EXCEPT !.player = <<[@[1] EXCEPT !.hurt = TRUE, !.flipped = FALSE]>>, !.five = Rows({3})]
Banner == [rel |-> 12, row |-> 1, shift |-> 1, pic |-> Img(6, 2, 2),
           children |-> <<[rel |-> 14, pic |-> Img(2, 1, 1), opaque |-> TRUE], [rel |-> 20, pic |-> Img(2, 1, 0), opaque |-> FALSE]>>]
Titled == [Busy EXCEPT !.banner = <<Banner>>, !.view.camera = 11]
MCFrames ==
  {Hurt, Busy,
   [Busy EXCEPT !.view = Eye(0, 0, 2, FALSE, 0), !.map = Map(2)],  \* narrower than the view
   [Plain EXCEPT !.map = Map(3), !.view.hi = 6, !.mode = "auto"],  \* and one just wider
   [Busy EXCEPT !.view.free = TRUE, !.view.x = 20, !.covered = TRUE],
   [Busy EXCEPT !.ow = 8], [Busy EXCEPT !.ow = 8, !.view.free = TRUE, !.view.x = 9],
   [Titled EXCEPT !.ow = 10, !.compare = TRUE, !.hardware = FALSE],
   [Plain EXCEPT !.sound = FALSE],
   [Titled EXCEPT !.overlay = {<<0, 0>>, <<2, 3>>}],
   [Titled EXCEPT !.overlay = {<<0, 0>>, <<2, 3>>}, !.gpu = TRUE, !.shadows = TRUE],
   [Hurt EXCEPT !.gpu = TRUE],
   [Busy EXCEPT !.mode = "vanilla", !.live = FALSE],
   [Busy EXCEPT !.objects = [i \in 1..9 |-> [x |-> 2 * i, y |-> i % 3, pic |-> Img(4, 4, i % 3)]]]}
=============================================================================
