----------------------------- MODULE CopperWalk -----------------------------
(***************************************************************************)
(* render/native_renderer.c: a frame drawn from the copper list and the    *)
(* bit planes, both read from a snapshot of chip memory some frames old;   *)
(* where the list is, COP1LC says as the frame is drawn.                   *)
(*                                                                         *)
(* A copper list is a sequence of MOVEs, WAITs and SKIPs; a pointer is     *)
(* moved in two halves.  An address is that of one pixel of one plane.     *)
(***************************************************************************)
EXTENDS Integers, Sequences, FiniteSetsExt, Functions

CONSTANTS
  Chips,      \* chip memories: [lists, bits], a list at each place
  Places,     \* values of COP1LC
  Later,      \* the ones a frame may leave behind
  H,          \* HW_DISPLAY_H
  Width,      \* HW_DISPLAY_W
  First,      \* FIRST_VISIBLE, the raster line of display line 0
  Wrap,       \* 256, where the copper's line numbers start again
  High,       \* what the high half of a pointer counts
  MaxAnchors, \* MAX_ANCHORS
  Ring,       \* RENDER_SNAP_RING
  Delays,     \* g_native_render_delay
  MaxFrames   \* bound: frames rendered

Planes    == 0..2
Lines     == 0..H - 1
Registers == {"con", "scroll", "mod", "start", "stop", "window", "color"}

\* A list of MOVEs, WAITs and SKIPs sets a pointer's low half after its high half, and waits no
\* more often than there is room for pointers.
Sane(l) ==
  /\ l \in Seq(Range(l)) /\ Cardinality({i \in DOMAIN l : l[i].op = "wait"}) <= MaxAnchors
  /\ \A i \in DOMAIN l :
       \/ l[i].op = "skip"
       \/ l[i].op = "wait" /\ l[i].vp \in 0..Wrap - 1
       \/ l[i].op = "move" /\ l[i].reg \in Registers
       \/ l[i].op = "move" /\ l[i].reg = "low" /\ l[i].plane \in Planes
       \/ /\ l[i].op = "move" /\ l[i].reg = "high" /\ l[i].plane \in Planes /\ i + 1 \in DOMAIN l
          /\ l[i + 1].op = "move" /\ l[i + 1].reg = "low" /\ l[i + 1].plane = l[i].plane

CopperAssumption ==
  /\ {H, Width, First, Wrap, High, MaxAnchors} \subseteq Nat \ {0} /\ Ring \in Nat \ {0, 1}
  /\ Later \subseteq Chips /\ Delays \subseteq Nat /\ MaxFrames \in Nat
  /\ \A c \in Chips, p \in Places : Sane(c.lists[p])

VARIABLES
  chip,  \* chip memory
  cop1lc,    \* s_regs[COP1LC]
  curCop1lc, \* s_cur_cop1lc, where the list walked last is
  ring,  \* s_snap_ring
  widx,  \* s_snap_widx
  count, \* s_snap_count
  delay, \* g_native_render_delay
  pic,   \* s_fb
  past   \* chip memory at each frame so far

vars == <<chip, cop1lc, curCop1lc, ring, widx, count, delay, pic, past>>

-----------------------------------------------------------------------------
(* The walk *)

\* Before the first MOVE: no planes, no scroll, the standard fetch and window. Colour 0 stands for
\* s_palette as the frame finds it, which is no part of the snapshot.
Reset == [con |-> [planes |-> 0, dual |-> FALSE], scroll |-> 0, mod |-> <<0, 0>>, start |-> 0,
          stop |-> 1, window |-> <<0, Width>>, color |-> 0]

Start == [ip |-> 1, line |-> 0, prev |-> -1, base |-> 0, cur |-> Reset, over |-> FALSE,
          high |-> {}, ready |-> {}, ptr |-> [p \in Planes |-> <<0, 0>>], anchors |-> <<>>,
          scan |-> [y \in Lines |-> Reset]]

\* MOVE: a low half counts only after its high half.
Moved(s, i) ==
  CASE i.reg = "high" -> [s EXCEPT !.ptr[i.plane] = <<i.val, @[2]>>, !.high = @ \cup {i.plane}]
    [] i.reg = "low"  -> IF i.plane \notin s.high THEN s
                         ELSE [s EXCEPT !.ptr[i.plane] = <<@[1], i.val>>, !.ready = @ \cup {i.plane}]
    [] OTHER          -> [s EXCEPT !.cur[i.reg] = i.val]

Pointer(halves) == High * halves[1] + halves[2]

\* A line number lower than the last is 256 lines further down.
Wrapped(s, vp) == s.base + (IF vp < s.prev THEN Wrap ELSE 0)

Stamped(s, upTo) == [y \in Lines |-> IF s.line <= y /\ y < upTo THEN s.cur ELSE s.scan[y]]

\* WAIT: the lines up to it are drawn as the registers are now, and pointers completed since
\* the last WAIT are set from the line it reached.
Waited(s, vp) ==
  LET base == Wrapped(s, vp)
      line == Min({Max({vp + base - First, 0}), H})
      kept == s.ready # {} /\ Len(s.anchors) < MaxAnchors
  IN [s EXCEPT !.base = base, !.prev = vp, !.scan = Stamped(s, line), !.line = line,
               !.over = line = H,
               !.anchors = IF kept THEN Append(@, [from |-> s.line, of |-> s.ready, at |-> [p \in Planes |-> Pointer(s.ptr[p])]]) ELSE @,
               !.high = IF kept THEN {} ELSE @, !.ready = IF kept THEN {} ELSE @]

Stepped(s, i) ==
  CASE i.op = "move" -> [Moved(s, i) EXCEPT !.ip = @ + 1]
    [] i.op = "wait" -> [Waited(s, i.vp) EXCEPT !.ip = @ + 1]
    [] i.op = "skip" -> [s EXCEPT !.ip = @ + 2]

\* walk_copper: the registers of every line, and where plane pointers are set.
Walk(l) ==
  LET f[n \in 0..Len(l)] ==
        IF n = 0 THEN Start
        ELSE LET s == f[n - 1] IN IF s.over \/ s.ip > Len(l) THEN s ELSE Stepped(s, l[s.ip])
      end == f[Len(l)]
  IN [scan |-> Stamped(end, H), anchors |-> end.anchors]

-----------------------------------------------------------------------------
(* The lines *)

Fetch(st) == Max({st.stop - st.start, 1})

BitAt(bits, a) == a \in bits

\* decode_planes and decode_dpf: the second playfield's one plane lies over the first's two.
Colour(st, bits, ptr, lx) ==
  IF st.con.dual
    THEN IF BitAt(bits, ptr[1] + lx) THEN <<{1}>>
         ELSE <<{p \in {0, 2} : BitAt(bits, ptr[p] + lx)}>>
    ELSE <<{p \in Planes : p < st.con.planes /\ BitAt(bits, ptr[p] + lx)}>>

\* One line of native_render_frame: a pixel outside the window or the fetch is background.
Row(st, bits, ptr) ==
  [x \in 0..Width - 1 |->
     LET lx == x - st.start - (IF st.con.dual THEN 0 ELSE st.scroll)
     IN IF st.con.planes > 0 /\ st.window[1] <= x /\ x < st.window[2] /\ lx \in 0..Fetch(st) - 1
        THEN <<st.color>> \o Colour(st, bits, ptr, lx) ELSE <<st.color>>]

\* Where a line leaves a plane's pointer.
Fetched(st, p, from) == IF st.con.planes = 0 THEN from ELSE from + Fetch(st) + st.mod[1 + (p % 2)]

Advanced(st, ptr) == [p \in Planes |-> Fetched(st, p, ptr[p])]

\* Every anchor reached sets its planes, in the order of the list.
Anchored(anchors, y, ptr) ==
  LET f[n \in 0..Len(anchors)] ==
        IF n = 0 THEN ptr
        ELSE LET a == anchors[n] b == f[n - 1]
             IN IF a.from = y THEN [p \in Planes |-> IF p \in a.of THEN a.at[p] ELSE b[p]] ELSE b
  IN f[Len(anchors)]

Drawn(c) ==
  LET w == Walk(c.list)
      f[y \in 0..H] == \* pointers before line y
        IF y = 0 THEN [p \in Planes |-> 0]
        ELSE LET b == Anchored(w.anchors, y - 1, f[y - 1]) IN Advanced(w.scan[y - 1], b)
  IN [y \in Lines |-> Row(w.scan[y], c.bits, Anchored(w.anchors, y, f[y]))]

-----------------------------------------------------------------------------

\* The snapshot drawn from: so many frames back, or memory itself until there are that many.
Depth == Min({delay, Ring - 1})

\* Mutant: the slot written next, which is the oldest frame.
OldestSlot == ring[widx]

DelayedSlot == ring[(widx - Depth + Ring) % Ring]

Source == IF delay > 0 /\ count >= Depth THEN DelayedSlot ELSE chip

\* What walk_copper and the planes' decoders read of memory m.
Read(m, place) == [list |-> m.lists[place], bits |-> m.bits]

RenderFrame ==
  /\ Len(past) < MaxFrames /\ curCop1lc' = cop1lc
  /\ pic' = Drawn(Read(Source, cop1lc)) /\ past' = Append(past, chip)
  /\ IF delay > 0 THEN /\ ring' = [ring EXCEPT ![widx] = chip] /\ widx' = (widx + 1) % Ring
                       /\ count' = Min({count + 1, Ring})
     ELSE UNCHANGED <<ring, widx, count>>
  /\ UNCHANGED <<chip, cop1lc, delay>>

\* The guest writes its copper lists and its planes, and shows a list of its choice.
GuestWrites == chip' \in Later /\ cop1lc' \in Places /\ UNCHANGED <<curCop1lc, ring, widx, count, delay, pic, past>>

NoPic == [y \in Lines |-> [x \in 0..Width - 1 |-> <<0>>]]

Init == /\ chip \in Chips /\ cop1lc \in Places /\ curCop1lc = cop1lc /\ ring = [n \in 0..Ring - 1 |-> chip] /\ widx = 0 /\ count = 0
        /\ delay \in Delays /\ pic = NoPic /\ past = <<>>

Next == RenderFrame \/ GuestWrites

Spec == Init /\ [][Next]_vars

-----------------------------------------------------------------------------
(* Properties *)

TypeOK == /\ chip \in Chips /\ {cop1lc, curCop1lc} \subseteq Places /\ DOMAIN ring = 0..Ring - 1 /\ widx \in 0..Ring - 1
          /\ count \in 0..Ring /\ DOMAIN pic = Lines

(* What the chips would show, line by line.  An instruction runs unless a SKIP that runs stands *)
(* before it; it takes effect at the line of the last WAIT before it.                           *)
Skips(l, i) == {j \in 1..i - 1 : \A k \in j..i - 1 : l[k].op = "skip"}
Runs(l, i)  == Cardinality(Skips(l, i)) % 2 = 0
Waits(l, i) == {j \in 1..i - 1 : l[j].op = "wait" /\ Runs(l, j)}
Falls(l, i) == {j \in Waits(l, i) : Waits(l, j) # {} /\ l[j].vp < l[Max(Waits(l, j))].vp}
EffectAt(l, i) == IF Waits(l, i) = {} THEN 0
                  ELSE Max({l[Max(Waits(l, i))].vp + Wrap * Cardinality(Falls(l, i)) - First, 0})

Moves(l, reg, i)      == {j \in 1..i - 1 : l[j].op = "move" /\ l[j].reg = reg /\ Runs(l, j)}
RegisterAt(l, reg, y) == LET m == {j \in Moves(l, reg, Len(l) + 1) : EffectAt(l, j) <= y}
                         IN IF m = {} THEN Reset[reg] ELSE l[Max(m)].val
LineAt(l, y)          == [r \in Registers |-> RegisterAt(l, r, y)]

\* The low halves that set plane p's pointer for line y: after a high half, and before a WAIT.
Highs(l, p, i)   == {j \in Moves(l, "high", i) : l[j].plane = p}
Lows(l, p, i)    == {j \in Moves(l, "low", i) : l[j].plane = p /\ \E h \in Highs(l, p, j) : Waits(l, h) = Waits(l, j)}
SetFor(l, p, y)  == {j \in Lows(l, p, Len(l) + 1) : EffectAt(l, j) = y /\ Waits(l, j) # Waits(l, Len(l) + 1)}
Value(l, p, j)   == Pointer(<<l[Max(Highs(l, p, j))].val, l[j].val>>)

\* A plane's pointer at each line: the one it is set to there, or what the line above left.
PointerOf(l, p) ==
  LET f[y \in Lines] ==
        IF SetFor(l, p, y) # {} THEN Value(l, p, Max(SetFor(l, p, y)))
        ELSE IF y = 0 THEN 0 ELSE Fetched(LineAt(l, y - 1), p, f[y - 1])
  IN f

\* A frame is the picture the chips would show of memory as it was so many frames ago, the
\* copper list where COP1LC is now and the planes of the same moment, for every list, in every line.
PictureIsBeams ==
  past # <<>> =>
    LET n == Len(past)
        of == Read(IF delay > 0 /\ n > Depth THEN past[n - Depth] ELSE past[n], curCop1lc)
    IN \A y \in Lines :
         pic[y] = Row(LineAt(of.list, y), of.bits, [p \in Planes |-> PointerOf(of.list, p)[y]])

CopperOK == TypeOK /\ PictureIsBeams
=============================================================================
