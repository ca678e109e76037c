----------------------------- MODULE WideScene -----------------------------
(***************************************************************************)
(* A frame's draw list and its two consumers: engine/hw.c's                *)
(* hw_compose_output and native_renderer.c's native_render_wide_bg paint it*)
(* on a layer in world columns and project that to the output; a window    *)
(* that draws sprites takes the list itself (scene.c, scene_sdl.c,         *)
(* present_sdl.c).                                                         *)
(***************************************************************************)
EXTENDS WideSprites

CONSTANTS
  Frames,   \* what a frame may be: its settings, its lines, what was captured
  LayerMin, \* WS_LAYER_MIN
  Arena,    \* SCENE_ARENA_BYTES
  MaxQuads, \* SCENE_MAX_QUADS
  Atlas     \* SCENE_SDL_ATLAS_W and _H

Lines == 0..H - 1

\* What a frame has: lines, a view of a level, and lists of what was captured.
Whole(f) ==
  /\ f.ow \in Nat /\ f.five \in [Lines -> BOOLEAN] /\ f.anchors \subseteq Nat
  /\ f.view \in [camera : Int, lo : Int, hi : Nat, free : BOOLEAN, x : Int] /\ f.view.lo <= f.view.hi
  /\ DOMAIN f.map \subseteq Nat \X Nat /\ \A a \in DOMAIN f.map : IsPicture(f.map[a])
  /\ Captured(f.water) /\ Captured(f.objects) /\ Captured(f.chars)
  /\ Captured(f.player) /\ \A i \in DOMAIN f.player : f.player[i].dx \in Int /\ f.player[i].dy \in Int
  /\ f.men \in Seq(Range(f.men))
  /\ \A i \in DOMAIN f.men :
       /\ f.men[i].x \in Int /\ f.men[i].y \in Int /\ ManPicture(f.men[i]).drop \in Int /\ IsPicture(ManPicture(f.men[i]))
       /\ Captured(f.men[i].dust) /\ \A j \in DOMAIN f.men[i].dust : f.men[i].dust[j].pic.drop \in Int
  /\ f.ropes \in Seq([x0 : Int, y0 : Int, x1 : Int, y1 : Int])
  /\ f.banner \in Seq(Range(f.banner))
  /\ \A i \in DOMAIN f.banner :
       /\ {f.banner[i].rel, f.banner[i].row, f.banner[i].shift} \subseteq Int /\ IsPicture(f.banner[i].pic)
       /\ LET cs == f.banner[i].children
          IN cs \in Seq(Range(cs)) /\ \A j \in DOMAIN cs : cs[j].rel \in Int /\ IsPicture(cs[j].pic)

ASSUME SceneAssumption ==
  /\ {LayerMin, Arena, MaxQuads} \subseteq Nat \ {0} /\ Atlas \in Nat \X Nat
  /\ \A f \in Frames : Whole(f)

VARIABLES
  frame, \* the frame composed last
  layer, \* s_layer_w
  scene, \* s_scene: its quads, the view, the rows it is for
  ready, \* s_scene_ready
  of,    \* the frame the scene was built for
  out,   \* s_out
  seen,  \* what the window shows, and by which path
  shade  \* the dots of it that lie in a shadow

vars == <<frame, layer, scene, ready, of, out, seen, shade>>

-----------------------------------------------------------------------------
(* The rows of the playfield *)

Five(f) == {y \in Lines : f.five[y]}
Top(f)  == Min(Five(f))
Bot(f)  == Min({Top(f) + 8 * Tile, H} \cup {a \in f.anchors : a > Top(f)})

Columns(f) == <<(IF f.view.lo < 0 THEN 0 ELSE f.view.lo) \div Tile, (f.view.hi + Screen) \div Tile>>

-----------------------------------------------------------------------------
(* The draw list *)

\* objlayer_ensure: as wide as the level, and never narrower again.
LayerEnsured(f, n) == Max({LayerMin, n, Columns(f)[2] * Tile})

\* scene_alloc_idx and scene_add_quad_space: what no longer fits is left out.
Added(s, q) ==
  LET used == s.used + (((q.w * q.h) + 3) \div 4) * 4
  IN IF used > Arena THEN s
     ELSE [s EXCEPT !.used = used, !.quads = IF Len(@) < MaxQuads THEN Append(@, q) ELSE @]

Empty(f, n) ==
  LET cols == Columns(f)
  IN [quads |-> <<>>, used |-> 0, left |-> ViewLeft(f.view, f.ow), rows |-> <<Top(f), Bot(f)>>,
      clip |-> <<cols[1] * Tile, Min({cols[2] * Tile, n})>>]

Built(f, n) ==
  LET all == Emitted(f, Columns(f), Top(f), Bot(f), n)
      g[k \in 0..Len(all)] == IF k = 0 THEN Empty(f, n) ELSE Added(g[k - 1], all[k])
  IN g[Len(all)]

Covers(q, space, x, y) ==
  /\ q.space = space /\ q.x <= x /\ x < q.x + q.w /\ q.y <= y /\ y < q.y + q.h
  /\ q.ink[<<y - q.y, x - q.x>>] # Clear

\* The last quad over a dot: its index there, in the colours of the row.
Painted(quads, space, x, y, under) ==
  LET on == {i \in DOMAIN quads : Covers(quads[i], space, x, y)}
      q  == quads[Max(on)]
  IN IF on = {} THEN under ELSE <<y, q.ink[<<y - q.y, x - q.x>>]>>

Background(y) == <<y, 0>> \* COLOR00 of the line

-----------------------------------------------------------------------------
(* Composing *)

Margin(f) == (f.ow - Display) \div 2 \* of an even width
Wide(f)   == Margin(f) > 0 \/ (Margin(f) < 0 /\ f.view.free)

\* s_fb, centred between margins of the background or cut off on the right; a dot of it is
\* written as one of a line below the last.
EnginePicture(f) ==
  [p \in Lines \X (0..f.ow - 1) |->
     IF Margin(f) <= 0 THEN <<H, p[2]>>
     ELSE IF p[2] < Margin(f) \/ p[2] >= Margin(f) + Display THEN Background(p[1])
     ELSE <<H, p[2] - Margin(f)>>]

\* The column of the world an output column shows; outside the window of the display, none.
WorldAt(f, s, x) ==
  IF Wide(f) THEN s.left + x
  ELSE IF x < f.window[1] \/ x >= f.window[2] THEN -1
  ELSE (f.view.camera - (f.view.camera % Tile)) + x - f.fetch

\* scene_composite_argb, the projection, and scene_composite_screen_argb.
WidePicture(f, s, n) ==
  LET cols == Columns(f)
      base == EnginePicture(f)
      world(x) == WorldAt(f, s, x)
      field(p) ==
        IF ~(p[1] \in s.rows[1]..s.rows[2] - 1 /\ f.five[p[1]]) THEN base[p]
        ELSE LET shown == world(p[2]) \in 0..n - 1 /\ world(p[2]) \div Tile \in cols[1]..cols[2] - 1
                 void  == IF Wide(f) THEN Background(p[1]) ELSE base[p]
             IN IF shown THEN Painted(s.quads, "world", world(p[2]), p[1], void) ELSE void
  IN [p \in DOMAIN base |-> Painted(s.quads, "screen", p[2], p[1], field(p))]

\* native_render_wide_bg draws in the game only, and from an engine state that is sound.
DrawsWide(f) == /\ Margin(f) > 0 \/ f.compare \/ f.hardware \/ f.view.free
                /\ Margin(f) < 0 => f.view.free
                /\ f.live /\ f.sound /\ Five(f) # {}

\* The renderer is asked for, or the width asks for it.
Benren(f) == f.mode = "benren" \/ (f.mode = "auto" /\ f.ow > Display) \/ f.compare

Invalidated == FALSE

Compose(f) ==
  /\ frame' = f
  /\ IF Benren(f) /\ DrawsWide(f)
       THEN /\ layer' = LayerEnsured(f, layer) /\ scene' = Built(f, layer')
            /\ out' = WidePicture(f, scene', layer') /\ ready' = TRUE /\ of' = f
       ELSE out' = EnginePicture(f) /\ ready' = Invalidated /\ UNCHANGED <<layer, scene, of>>
  /\ seen' = <<"nothing", out'>> /\ shade' = {}

-----------------------------------------------------------------------------
(* The window that draws sprites *)

\* Mutant: a new shelf lies where the last one began.
ShelfLow(at, q) == [x |-> q.w, y |-> at.y, shelf |-> q.h, full |-> at.y + q.h > Atlas[2]]

\* A quad that does not fit beside the last is the first of a new shelf.
NextShelf(at, q) == [x |-> q.w, y |-> at.y + at.shelf, shelf |-> q.h, full |-> at.y + at.shelf + q.h > Atlas[2]]

Placed(at, q) ==
  IF at.full \/ q.w > Atlas[1] THEN [at EXCEPT !.full = TRUE]
  ELSE IF at.x + q.w > Atlas[1] THEN NextShelf(at, q)
  ELSE [at EXCEPT !.x = @ + q.w, !.shelf = Max({@, q.h}), !.full = at.y + q.h > Atlas[2]]

\* atlas_pack_bake: the atlas after so many quads.
Packed(quads) ==
  LET f[n \in 0..Len(quads)] ==
        IF n = 0 THEN [x |-> 0, y |-> 0, shelf |-> 0, full |-> FALSE] ELSE Placed(f[n - 1], quads[n])
  IN f

\* The texel a quad's own texel was baked to holds what the last one baked there put there.
Baked(quads, at, i, t) ==
  LET left(j) == at[j].x - quads[j].w
      x  == left(i) + t[2]
      y  == at[i].y + t[1]
      on == {j \in DOMAIN quads :
               left(j) <= x /\ x < at[j].x /\ at[j].y <= y /\ y < at[j].y + quads[j].h}
      j == Max(on)
  IN quads[j].ink[<<y - at[j].y, x - left(j)>>]

\* The bake, of vk_atlas_pack_bake as of the SDL one: the quads as their places in the atlas show them.
FromAtlas(quads) ==
  LET at == Packed(quads)
  IN [i \in DOMAIN quads |-> [quads[i] EXCEPT !.ink = [t \in DOMAIN quads[i].ink |-> Baked(quads, at, i, t)]]]

\* scene_draw_sdl_window: the rows the list is not for come from the output, the others are
\* the background and the quads, clipped to the level and to the rows.
WindowPicture(f, s) ==
  LET held == FromAtlas(s.quads)
      field(p) ==
        IF p[1] \notin s.rows[1]..s.rows[2] - 1 THEN out[p]
        ELSE IF p[2] + s.left \in s.clip[1]..s.clip[2] - 1
               THEN Painted(held, "world", p[2] + s.left, p[1], Background(p[1]))
               ELSE Background(p[1])
  IN [p \in DOMAIN out |-> Painted(held, "screen", p[2], p[1], field(p))]

\* The GPU draws quad after quad, a character's shadow before the character and over what is
\* there already; a dot is what it shows and whether it lies in a shadow.
Laid(f, q, x, y, dot) ==
  LET shaded == f.shadows /\ q.shadow /\ Covers([q EXCEPT !.x = @ + 1, !.y = @ + 1], "world", x, y)
  IN IF Covers(q, "world", x, y) THEN <<<<y, q.ink[<<y - q.y, x - q.x>>]>>, FALSE>>
     ELSE IF shaded THEN <<dot[1], TRUE>> ELSE dot

\* One dot of the world after all quads.
Overlaid(f, quads, x, y, under) ==
  LET g[n \in 0..Len(quads)] == IF n = 0 THEN under ELSE Laid(f, quads[n], x, y, g[n - 1])
  IN g[Len(quads)]

\* vulkan_present_scene: the rows of the border and the status, the void, the world inside a
\* scissor of the columns the level has in this window, the screen's own quads.
GpuPicture(f, s) ==
  LET held == FromAtlas(s.quads)
      cols == Max({0, s.clip[1] - s.left})..Min({s.clip[2] - s.left, f.ow}) - 1
      base(p) == IF p[1] \in s.rows[1]..s.rows[2] - 1 THEN <<Background(p[1]), FALSE>> ELSE <<out[p], FALSE>>
      field(p) == IF p[1] \in s.rows[1]..s.rows[2] - 1 /\ p[2] \in cols
                    THEN Overlaid(f, held, p[2] + s.left, p[1], base(p)) ELSE base(p)
      dot(p) == LET top == Painted(held, "screen", p[2], p[1], <<-1, 0>>)
                IN IF top[1] # -1 THEN <<top, FALSE>> ELSE field(p)
  IN [p \in DOMAIN out |-> dot(p)]

\* present_scene when the list is this frame's and nothing covers the whole screen; the output
\* is presented as it is otherwise, and when the atlas is full.  Small overlays are put on top
\* from the output.
Present ==
  /\ seen[1] = "nothing"
  /\ IF frame.hardware /\ ready /\ ~frame.covered /\ ~Packed(scene.quads)[Len(scene.quads)].full
       THEN LET gpu   == GpuPicture(frame, scene)
                drawn == IF frame.gpu THEN [p \in DOMAIN out |-> gpu[p][1]] ELSE WindowPicture(frame, scene)
            IN /\ seen' = <<"scene", [p \in DOMAIN out |-> IF p \in frame.overlay THEN out[p] ELSE drawn[p]]>>
               /\ shade' = IF frame.gpu THEN {p \in DOMAIN out \ frame.overlay : gpu[p][2]} ELSE {}
       ELSE seen' = <<"output", out>> /\ shade' = {}
  /\ UNCHANGED <<frame, layer, scene, ready, of, out>>

NoScene == [quads |-> <<>>, used |-> 0, left |-> 0, rows |-> <<0, 0>>, clip |-> <<0, 0>>]

Init == /\ frame \in Frames /\ layer = LayerMin /\ scene = NoScene /\ ready = FALSE /\ of = frame
        /\ out = EnginePicture(frame) /\ seen = <<"output", out>> /\ shade = {}

Next == Present \/ \E f \in Frames : seen[1] # "nothing" /\ Compose(f)

Spec == Init /\ [][Next]_vars

-----------------------------------------------------------------------------
(* Properties *)

TypeOK == frame \in Frames /\ layer >= LayerMin /\ ready \in BOOLEAN /\ of \in Frames
          /\ DOMAIN out = Lines \X (0..frame.ow - 1)

\* What the window draws from the list is what was composed, dot by dot, and the list is the
\* frame's own, on every row of the playfield the game still runs five planes on
\* (scene_sdl.c:159-162, "byte-identity"; native_renderer.c:777-780).
SamePicture ==
  /\ seen[1] = "scene" => of = frame
  /\ seen[1] = "scene" /\ Wide(frame) =>
       \A p \in DOMAIN out :
         p[1] \in scene.rows[1]..scene.rows[2] - 1 => (frame.five[p[1]] => seen[2][p] = out[p])

\* Every column of the level in view is drawn as far as the level goes: the picture is that of
\* the captured things themselves, as long as they fit, whatever the layer was sized for before.
LevelDrawn ==
  ready /\ Wide(frame) =>
    LET all  == Emitted(frame, Columns(frame), Top(frame), Bot(frame), Columns(frame)[2] * Tile)
        left == ViewLeft(frame.view, frame.ow)
        lo   == Columns(frame)[1] * Tile
        hi   == Columns(frame)[2] * Tile
    IN Len(all) = Len(scene.quads) => \A p \in DOMAIN out :
         p[1] \in Top(frame)..Bot(frame) - 1 /\ frame.five[p[1]] /\ p[2] + left \in lo..hi - 1 =>
           out[p] = Painted(all, "screen", p[2], p[1], Painted(all, "world", p[2] + left, p[1], Background(p[1])))

\* A shadow falls on the world behind a character, never on it, on the banner, the status rows
\* or an overlay (present_vulkan.c: "over the terrain ... behind/below the character").
ShadowsBehind ==
  \A p \in shade :
    /\ p[1] \in scene.rows[1]..scene.rows[2] - 1 /\ p \notin frame.overlay
    /\ \E i \in DOMAIN scene.quads :
         /\ scene.quads[i].shadow
         /\ \A j \in i..Len(scene.quads) : ~Covers(scene.quads[j], "world", p[2] + scene.left, p[1])

SceneOK == TypeOK /\ SamePicture /\ LevelDrawn /\ ShadowsBehind
=============================================================================
