---------------------------- MODULE WideSprites ----------------------------
(***************************************************************************)
(* render/native_renderer.c, the native_ws*_compose passes: how each kind  *)
(* of captured thing becomes a quad of colour indices, in the order they   *)
(* are painted.                                                            *)
(*                                                                         *)
(* A picture is [w, h, ink, mask]: an index for each texel of the data, and*)
(* the texels of the one-plane mask.                                       *)
(***************************************************************************)
EXTENDS WideView, Sequences, SequencesExt

CONSTANTS
  H,       \* HW_DISPLAY_H
  Sheet,   \* the Marry Men's pictures, by frame
  Mirror,  \* frames from a picture to the one that faces the other way ($55)
  Blind,   \* and to the blind one
  LowestY, \* where they are drawn at the lowest ($D7)
  Page,    \* bytes of a page row (46)
  Byte,    \* pixels of a byte (8)
  Rope     \* WS_ROPE_CI

ASSUME SpriteAssumption == {H, Mirror, Blind, LowestY, Page, Byte, Rope} \subseteq Nat \ {0}

Clear == -1 \* SCENE_TRANSPARENT

Texels(p)  == (0..p.h - 1) \X (0..p.w - 1)

IsPicture(p) == p.w \in Nat \ {0} /\ p.h \in Nat \ {0} /\ p.ink \in [Texels(p) -> Nat]

\* A list of things, each at a place and with a picture.
Captured(s) == s \in Seq(Range(s)) /\ \A i \in DOMAIN s : s[i].x \in Int /\ s[i].y \in Int /\ IsPicture(s[i].pic)

\* scene_add_quad and _screen: only a character of the world casts a shadow.
QuadOf(space, x, y, w, h, ink, shadow) ==
  [space |-> space, x |-> x, y |-> y, w |-> w, h |-> h, ink |-> ink,
   shadow |-> shadow /\ space = "world"]

World(x, y, p, ink)     == QuadOf("world", x, y, p.w, p.h, ink, FALSE)
Character(x, y, p, ink) == QuadOf("world", x, y, p.w, p.h, ink, TRUE)
OnScreen(x, y, p, ink)  == QuadOf("screen", x, y, p.w, p.h, ink, FALSE)

SeeThrough(p) == [t \in Texels(p) |-> IF p.ink[t] = 0 THEN Clear ELSE p.ink[t]]
CookieCut(p)  == [t \in Texels(p) |-> IF t \in p.mask THEN p.ink[t] ELSE Clear]
Silhouette(p) == [t \in Texels(p) |-> IF t \in p.mask THEN 0 ELSE Clear]

\* native_wstiles_compose: every tile of the rows between top and bot, opaque.
TileRows(top, bot) == (bot - top + Tile - 1) \div Tile
TilesOn(map, cols, layer) ==
  {a \in DOMAIN map : a[2] \in cols[1]..cols[2] - 1 /\ a[2] * Tile >= 0 /\ (a[2] + 1) * Tile <= layer}

Tiled(map, on, cols, top, bot) ==
  LET n == cols[2] - cols[1]
      f[i \in 0..n * TileRows(top, bot)] == \* so many of them gone through, row by row
        IF i = 0 THEN <<>>
        ELSE LET a == <<(i - 1) \div n, cols[1] + ((i - 1) % n)>>
             IN IF a \in on THEN Append(f[i - 1], World(a[2] * Tile, top + a[1] * Tile, map[a], map[a].ink)) ELSE f[i - 1]
  IN f[n * TileRows(top, bot)]

TileQuads(map, cols, top, bot, layer) == Tiled(map, TilesOn(map, cols, layer), cols, top, bot)

WaterQuads(water, top)    == [i \in DOMAIN water |-> World(water[i].x, top + water[i].y, water[i].pic, water[i].pic.ink)]
ObjectQuads(objects, top) == [i \in DOMAIN objects |-> World(objects[i].x, top + objects[i].y, objects[i].pic, SeeThrough(objects[i].pic))]
CharQuads(chars, top)     == [i \in DOMAIN chars |-> Character(chars[i].x, top + chars[i].y, chars[i].pic, CookieCut(chars[i].pic))]

\* native_player_capture: where he is drawn, and whether he is black.
PlayerCaptured(p) ==
  [x |-> p.x - Tile \div 2 + (IF p.flipped THEN 2 - p.dx ELSE p.dx),
   y |-> Max({0, Min({p.y, LowestY + 1}) - Tile \div 2 + p.dy}), black |-> p.hurt /\ ~p.flash]

\* native_wsplayer_compose: blinking, he is a black silhouette.
PlayerQuads(player, top) ==
  [i \in DOMAIN player |->
     LET at == PlayerCaptured(player[i])
         p  == player[i].pic
     IN Character(at.x, top + at.y, p, IF at.black THEN Silhouette(p) ELSE CookieCut(p))]

\* native_wsstatic_compose and ws_draw_static: a man, and the dust over the one he repairs.
ManPicture(m) == Sheet[m.frame + (IF m.turned THEN 0 ELSE Mirror) + (IF m.blind THEN Blind ELSE 0)]
Static(x, y, p, shadow) ==
  QuadOf("world", x, y, p.w, p.h, [t \in Texels(p) |-> IF t \in p.mask THEN SeeThrough(p)[t] ELSE Clear], shadow)
ManQuads(men, top) ==
  LET man(m)  == Static(m.x - Tile \div 2, top + Min({m.y, LowestY}) + ManPicture(m).drop, ManPicture(m), TRUE)
      dust(d) == Static(d.x - (3 * Tile) \div 4, top + d.y + d.pic.drop, d.pic, FALSE)
  IN FlattenSeq([i \in DOMAIN men |-> <<man(men[i])>> \o [j \in DOMAIN men[i].dust |-> dust(men[i].dust[j])]])

\* One step of native_wsrope_compose's line.
RopeStep(s, dx, dy, sx, sy) ==
  LET twice == 2 * s.err
      over  == twice >= dy
      down  == twice <= dx
  IN [x |-> IF over THEN s.x + sx ELSE s.x, y |-> IF down THEN s.y + sy ELSE s.y,
      err |-> s.err + (IF over THEN dy ELSE 0) + (IF down THEN dx ELSE 0)]

Abs(n)  == IF n < 0 THEN -n ELSE n
Sign(n) == IF n > 0 THEN 1 ELSE -1

RopeTexels(r) ==
  LET dx == Abs(r.x1 - r.x0)
      dy == -Abs(r.y1 - r.y0)
      f[n \in 0..dx - dy] == \* n steps, no further than the end
        IF n = 0 THEN [x |-> r.x0, y |-> r.y0, err |-> dx + dy]
        ELSE LET s == f[n - 1]
             IN IF s.x = r.x1 /\ s.y = r.y1 THEN s ELSE RopeStep(s, dx, dy, Sign(r.x1 - r.x0), Sign(r.y1 - r.y0))
  IN [n \in 0..dx - dy |-> <<f[n].x, f[n].y>>]

RopeQuad(r, top) ==
  LET bx == Min({r.x0, r.x1})
      by == Min({r.y0, r.y1})
      w  == Abs(r.x1 - r.x0) + 1
      h  == Abs(r.y1 - r.y0) + 1
      on == {RopeTexels(r)[n] : n \in DOMAIN RopeTexels(r)}
  IN QuadOf("world", bx, top + by, w, h,
            [t \in (0..h - 1) \X (0..w - 1) |-> IF <<bx + t[2], by + t[1]>> \in on THEN Rope ELSE Clear], FALSE)

RopeQuads(ropes, top) == [i \in DOMAIN ropes |-> RopeQuad(ropes[i], top)]

\* native_wsbanner_compose: the box in the middle of a wide view or where the engine has it,
\* and what is in it by its distance on the page, less the shift the box alone is drawn with.
BannerQuads(b, cam, ow, top) ==
  LET left == IF ow > Display THEN (ow - b.pic.w) \div 2 ELSE ((cam \div Tile + 3) * Tile - cam) - 1
      place(rel) == LET d == rel - b.rel
                    IN <<left + Byte * (d - Page * (d \div Page)) - b.shift, top + b.row + d \div Page>>
      child(c) == OnScreen(place(c.rel)[1], place(c.rel)[2], c.pic, IF c.opaque THEN c.pic.ink ELSE CookieCut(c.pic))
  IN <<OnScreen(left, top + b.row, b.pic, CookieCut(b.pic))>> \o [i \in DOMAIN b.children |-> child(b.children[i])]

\* All of them, in the order they are painted.
Emitted(f, cols, top, bot, layer) ==
  TileQuads(f.map, cols, top, bot, layer) \o WaterQuads(f.water, top) \o ObjectQuads(f.objects, top)
  \o PlayerQuads(f.player, top) \o CharQuads(f.chars, top) \o ManQuads(f.men, top)
  \o RopeQuads(f.ropes, top)
  \o FlattenSeq([i \in DOMAIN f.banner |-> BannerQuads(f.banner[i], f.view.camera, f.ow, top)])

-----------------------------------------------------------------------------

\* A rope is one unbroken line from end to end, never further from the straight one than
\* half a pixel.
RopeHolds(r) ==
  LET t   == RopeTexels(r)
      n   == Abs(r.x1 - r.x0) + Abs(r.y1 - r.y0)
      far == IF Abs(r.x1 - r.x0) > Abs(r.y1 - r.y0) THEN Abs(r.x1 - r.x0) ELSE Abs(r.y1 - r.y0)
  IN /\ t[0] = <<r.x0, r.y0>> /\ t[n] = <<r.x1, r.y1>>
     /\ \A i \in 1..n : Abs(t[i][1] - t[i - 1][1]) <= 1 /\ Abs(t[i][2] - t[i - 1][2]) <= 1
     /\ \A i \in 0..n : 2 * Abs((t[i][1] - r.x0) * (r.y1 - r.y0) - (t[i][2] - r.y0) * (r.x1 - r.x0)) <= far
=============================================================================
