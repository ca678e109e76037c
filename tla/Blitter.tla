------------------------------ MODULE Blitter ------------------------------
(***************************************************************************)
(* The blitter of engine/hw_blitter.c: area blits with shifts, masks,      *)
(* minterms and fill, line mode, and the pointers a finished blit leaves   *)
(* for the next one.                                                       *)
(*                                                                         *)
(* A word is the set of its bits that are 1, bit 0 the least significant.  *)
(* Pointers and modulos are in bytes, two to a word, as in the registers.  *)
(* The clock a blit charges is GuestTime's; the log of blits, the watched  *)
(* address and the per-blit traces are diagnostics and left out.           *)
(***************************************************************************)
EXTENDS Integers, FiniteSets, Sequences

CONSTANTS
  W,          \* bits in a word (16)
  Words,      \* words of chip memory
  Copper,     \* words of the title's copper list, which area blits leave alone
  Pictures,   \* what memory may hold at first
  Areas,      \* the area blits programmed, with the pointers each starts from
  Lines,      \* the lines programmed
  MaxRows     \* rows drawn with one programming of the registers

Bits    == 0..W - 1
Channel == {"A", "B", "C", "D"}

\* What is programmed for an area: a modulo is of whole words, as rows are.
AreaRegs == [use : SUBSET Channel, lf : SUBSET (0..7), ash : Bits, bsh : Bits, first : SUBSET Bits, last : SUBSET Bits,
             desc : BOOLEAN, fill : BOOLEAN, inclusive : BOOLEAN, carryIn : BOOLEAN, w : Nat \ {0},
             mod : [Channel -> {m \in Int : m % 2 = 0}]]

\* And for a line, which also says from which dot and along which sides it goes.
LineRegs == [x : Nat, y : Nat, sx : {-1, 1}, sy : {-1, 1}, steep : BOOLEAN, major : Nat, minor : Nat,
             cpt : Int, mod : Int, pen : SUBSET Bits, lf : SUBSET (0..7), ash : Bits, small : Int, large : Int, acc : Int,
             sign : BOOLEAN, single : BOOLEAN, sud : BOOLEAN, sul : BOOLEAN, aul : BOOLEAN]

BlitterAssumption ==
  /\ W \in Nat \ {0} /\ W % 2 = 0 /\ Words \in Nat /\ Copper \subseteq 0..Words - 1 /\ MaxRows \in Nat
  /\ Pictures \subseteq [0..Words - 1 -> SUBSET Bits]
  /\ Lines \subseteq LineRegs /\ \A a \in Areas : a.from \in [Channel -> Int] /\ a.with \in AreaRegs

VARIABLES
  mem,    \* chip memory
  pt,     \* BLTxPT
  prog,   \* the other registers
  bzero,  \* s_blt_bzero
  origin, \* memory, pointers and registers when they were programmed
  rows,   \* rows, or steps of a line, drawn since
  blits   \* with so many writes of BLTSIZE

vars == <<mem, pt, prog, bzero, origin, rows, blits>>

-----------------------------------------------------------------------------
(* Memory and logic *)

WordAt(m, a)     == IF a \div 2 \in DOMAIN m THEN m[a \div 2] ELSE {}
Stored(m, a, v)  == IF a \div 2 \in DOMAIN m THEN [m EXCEPT ![a \div 2] = v] ELSE m
Even(p)          == [c \in Channel |-> p[c] - (p[c] % 2)]
Bit(set, i)      == IF i \in set THEN 1 ELSE 0

Minterm(a, b, c, lf) == {i \in Bits : 4 * Bit(a, i) + 2 * Bit(b, i) + Bit(c, i) \in lf}

\* A channel's word after its shift, with the bits the word before it left behind.
Shifted(desc, word, before, by) ==
  IF desc THEN {i \in Bits : IF i < by THEN i + W - by \in before ELSE i - by \in word}
  ELSE {i \in Bits : IF i + by < W THEN i + by \in word ELSE i + by - W \in before}

\* One entry of the fill table: a half word, from its least significant bit up.
FillHalf(data, half, carry, inclusive) ==
  LET first == half * (W \div 2)
      f[n \in 0..W \div 2] ==
        IF n = 0 THEN [bits |-> {}, carry |-> carry]
        ELSE LET i  == first + n - 1
                 on == i \in data
                 before == f[n - 1]
                 lit == IF inclusive THEN on \/ before.carry ELSE on # before.carry
             IN [bits  |-> IF lit THEN before.bits \cup {i} ELSE before.bits,
                 carry |-> before.carry # on]
  IN f[W \div 2]

Filled(b, data, carry) ==
  IF ~b.fill THEN [bits |-> data, carry |-> carry]
  ELSE LET low  == FillHalf(data, 0, carry, b.inclusive)
           high == FillHalf(data, 1, low.carry, b.inclusive)
       IN [bits |-> low.bits \cup high.bits, carry |-> high.carry]

-----------------------------------------------------------------------------
(* An area blit: b is the programming, p the pointers *)

Used(b, m, c, a) == IF c \in b.use THEN WordAt(m, a) ELSE {}

\* One word of a row.  s carries memory, the last word of A and of B, and the fill carry.
WordStep(b, p, s, x) ==
  LET off == IF b.desc THEN -2 * x ELSE 2 * x
      a   == Used(b, s.mem, "A", p["A"] + off)
               \cap (IF x = 0 THEN b.first ELSE Bits)
               \cap (IF x = b.w - 1 THEN b.last ELSE Bits)
      bw  == Used(b, s.mem, "B", p["B"] + off)
      d   == Filled(b, Minterm(Shifted(b.desc, a, s.a, b.ash), Shifted(b.desc, bw, s.b, b.bsh),
                               Used(b, s.mem, "C", p["C"] + off), b.lf), s.carry)
      to  == p["D"] + off
  IN [mem   |-> IF "D" \in b.use /\ to \div 2 \notin Copper THEN Stored(s.mem, to, d.bits) ELSE s.mem,
      a     |-> a, b |-> bw, carry |-> d.carry]

Row(b, p, s) ==
  LET f[x \in 0..b.w] == IF x = 0 THEN [s EXCEPT !.carry = b.carryIn]
                         ELSE WordStep(b, p, f[x - 1], x - 1)
  IN f[b.w]

Advanced(b, p) ==
  [c \in Channel |-> IF c \notin b.use THEN p[c]
                     ELSE IF b.desc THEN p[c] - b.mod[c] - 2 * b.w ELSE p[c] + b.mod[c] + 2 * b.w]

\* Mutant: the advanced pointers stay in the blitter.
LeftAsWritten(b, p, end) == p

\* What a finished blit leaves in the pointer registers: only the channels used have moved.
PointersLeft(b, p, end) == [c \in Channel |-> IF c \in b.use THEN end[c] ELSE p[c]]

\* h rows; the pointers of the channels used are left where the blit ended.
Area(b, m, p, h) ==
  LET f[y \in 0..h] ==
        IF y = 0 THEN [p |-> Even(p), s |-> [mem |-> m, a |-> {}, b |-> {}, carry |-> FALSE]]
        ELSE LET above == f[y - 1]
             IN [p |-> Advanced(b, above.p), s |-> Row(b, above.p, above.s)]
      end == f[h]
  IN [mem |-> end.s.mem, pt |-> PointersLeft(b, p, end.p)]

-----------------------------------------------------------------------------
(* A line: l holds the decision terms, the octant and the pen *)

\* One step of hw_do_line.  s: memory, C's pointer, the shift, the accumulator, the sign and
\* whether this row has its dot.
LineStep(l, s) ==
  LET acc   == s.acc + (IF s.sign THEN l.small ELSE l.large)
      pen   == {i \in Bits : i + s.ash \in l.pen}
      drawn == IF l.single /\ s.dotted THEN s.mem
               ELSE Stored(s.mem, s.cpt, Minterm(pen, Bits, WordAt(s.mem, s.cpt), l.lf))
      movesX == l.sud \/ ~s.sign
      movesY == ~l.sud \/ ~s.sign
      left   == IF l.sud THEN l.aul ELSE l.sul
      up     == IF l.sud THEN l.sul ELSE l.aul
      across == IF ~movesX THEN 0
                ELSE IF left THEN (IF s.ash = 0 THEN -2 ELSE 0)
                ELSE (IF s.ash = W - 1 THEN 2 ELSE 0)
      down   == IF ~movesY THEN 0 ELSE IF up THEN -l.mod ELSE l.mod
  IN [mem    |-> drawn,
      cpt    |-> s.cpt + across + down,
      ash    |-> IF ~movesX THEN s.ash ELSE (s.ash + (IF left THEN -1 ELSE 1)) % W,
      acc    |-> acc,
      sign   |-> acc < 0,
      dotted |-> ~movesY]

Line(l, m, p, n) ==
  LET f[k \in 0..n] ==
        IF k = 0 THEN [mem |-> m, cpt |-> Even(p)["C"], ash |-> l.ash, acc |-> l.acc,
                       sign |-> l.sign, dotted |-> FALSE]
        ELSE LineStep(l, f[k - 1])
  IN f[n]

-----------------------------------------------------------------------------

Programmed(kind, p, with) ==
  /\ prog.kind = "none" /\ prog' = [kind |-> kind, with |-> with] /\ pt' = p
  /\ origin' = [mem |-> mem, pt |-> p, with |-> with] /\ rows' = 0 /\ blits' = 0
  /\ UNCHANGED <<mem, bzero>>

\* The guest loads every register but BLTSIZE.
ProgramArea == \E a \in Areas : Programmed("area", a.from, a.with)
ProgramLine == \E l \in Lines : Programmed("line", [c \in Channel |-> l.cpt], l)

\* BLTSIZE written with an area of h rows: again, it goes on from where it ended.
BlitArea == /\ prog.kind = "area" /\ bzero' = TRUE
            /\ \E h \in 1..MaxRows - rows :
                 LET done == Area(prog.with, mem, pt, h)
                 IN mem' = done.mem /\ pt' = done.pt /\ rows' = rows + h
            /\ blits' = blits + 1 /\ UNCHANGED <<prog, origin>>

\* BLTSIZE written in line mode: the shift, the sign and the pointers are written back, the
\* accumulator is not.
BlitLine ==
  /\ prog.kind = "line" /\ bzero' = TRUE
  /\ \E n \in 1..prog.with.major + 1 - rows :
       LET done == Line(prog.with, mem, pt, n)
       IN /\ mem' = done.mem /\ rows' = rows + n
          /\ pt' = [pt EXCEPT !["C"] = done.cpt, !["D"] = done.cpt]
          /\ prog' = [prog EXCEPT !.with.ash = done.ash, !.with.sign = done.sign]
  /\ blits' = blits + 1 /\ UNCHANGED origin

\* The diagnostic that drops a routine's blits: BLTSIZE has cleared BZERO, nothing sets it.
SkipBlit == prog.kind # "none" /\ bzero' = FALSE /\ UNCHANGED <<mem, pt, prog, origin, rows, blits>>

\* DMACONR or hw_blitter_bzero reads the flag and clears it.
ReadBzero == bzero' = FALSE /\ UNCHANGED <<mem, pt, prog, origin, rows, blits>>

Init == /\ mem \in Pictures /\ pt = [c \in Channel |-> 0]
        /\ prog = [kind |-> "none"] /\ bzero = FALSE
        /\ origin = [mem |-> mem, pt |-> pt, with |-> prog] /\ rows = 0 /\ blits = 0

Next == ProgramArea \/ ProgramLine \/ BlitArea \/ BlitLine \/ SkipBlit \/ ReadBzero

Spec == Init /\ [][Next]_vars

-----------------------------------------------------------------------------
(* Properties *)

TypeOK == /\ DOMAIN mem = 0..Words - 1 /\ \A a \in DOMAIN mem : mem[a] \subseteq Bits
          /\ DOMAIN pt = Channel /\ \A c \in Channel : pt[c] \in Int
          /\ prog.kind \in {"none", "area", "line"} /\ bzero \in BOOLEAN /\ rows \in Nat

\* Blits that follow each other with no pointer reloaded draw what one blit of all their rows
\* draws, unless bits of a last word were still to be shifted into the next row (the cover
\* art's halves, hw_blitter.c:642-651).
ChainedIsOne ==
  prog.kind = "area" /\ rows > 0 =>
    LET whole == Area(prog.with, origin.mem, origin.pt, rows)
    IN /\ pt = whole.pt
       /\ prog.with.ash = 0 /\ prog.with.bsh = 0 => mem = whole.mem

\* Where a channel takes its k-th word: row by row, down memory or up.
AddressOf(b, p, c, k) == LET on == (k \div b.w) * (b.mod[c] + 2 * b.w) + 2 * (k % b.w)
                         IN IF b.desc THEN p[c] - on ELSE p[c] + on

\* The words of a channel in the order the blit takes them, as one stream of bits, in the
\* direction the shifts and the fill run.
Stream(b, m, c) ==
  [i \in 0..rows * b.w * W - 1 |->
     Bit(WordAt(m, AddressOf(b, Even(origin.pt), c, i \div W)), IF b.desc THEN i % W ELSE W - 1 - (i % W))]

Copies(b) == b.use = {"A", "D"} /\ b.lf = {4, 5, 6, 7} /\ b.first = Bits /\ b.last = Bits

\* A copy in one blit moves the whole stream by the shift, across words and rows alike.
CopyShifts ==
  prog.kind = "area" /\ blits = 1 /\ Copies(prog.with) /\ ~prog.with.fill =>
    LET in  == Stream(prog.with, origin.mem, "A")
        out == Stream(prog.with, mem, "D")
    IN \A i \in DOMAIN out : out[i] = IF i < prog.with.ash THEN 0 ELSE in[i - prog.with.ash]

Ones(s, from, to) == Cardinality({i \in from..to : s[i] = 1})

\* A filled row is lit between its first and second edge, its third and fourth, and so on;
\* an inclusive fill keeps both edges, an exclusive one loses the second.
FillsBetweenEdges ==
  prog.kind = "area" /\ rows > 0 /\ Copies(prog.with) /\ prog.with.fill =>
    LET b    == prog.with
        edge == Stream(b, origin.mem, "A")
        out  == Stream(b, mem, "D")
    IN \A i \in DOMAIN out :
         LET start  == i - (i % (b.w * W))
             inside == (Ones(edge, start, i - 1) + (IF b.carryIn THEN 1 ELSE 0)) % 2
         IN out[i] = IF b.inclusive THEN (IF inside = 1 \/ edge[i] = 1 THEN 1 ELSE 0)
                     ELSE (inside + edge[i]) % 2

\* The dots of a line of n dots: along its longer side one by one, across it as near the
\* true line as a dot can be.
Across(l, k) == (2 * k * l.minor + l.major) \div (2 * l.major)
Dot(l, k) == IF l.steep THEN <<l.x + l.sx * Across(l, k), l.y + l.sy * k>>
             ELSE <<l.x + l.sx * k, l.y + l.sy * Across(l, k)>>
Dots(l) == {Dot(l, k) : k \in {n \in 0..l.major : l.single => \A j \in 0..n - 1 : Dot(l, j)[2] # Dot(l, n)[2]}}

\* The picture as dots: rows of the line's modulo, the leftmost dot the highest bit.
Canvas(mod) == (0..(mod \div 2) * W - 1) \X (0..(2 * Words) \div mod - 1)
Lit(m, mod) == {d \in Canvas(mod) : W - 1 - (d[1] % W) \in m[d[2] * (mod \div 2) + d[1] \div W]}

\* A line drawn in one blit is Bresenham's, in every octant, and has one dot to a row when
\* that is asked for.
LinesAreStraight ==
  prog.kind = "line" /\ blits = 1 /\ rows = prog.with.major + 1 =>
    Lit(mem, prog.with.mod) = Lit(origin.mem, prog.with.mod) \cup Dots(origin.with)

\* hw_blitter.c:291: "Carry ASH/BSH/SIGN back so chained line segments continue cleanly".
LinesContinue ==
  prog.kind = "line" /\ blits > 1 /\ rows = prog.with.major + 1 =>
    Lit(mem, prog.with.mod) = Lit(origin.mem, prog.with.mod) \cup Dots(origin.with)

\* What is drawn is what the registers ask for: shifted copies, fills and lines.
DrawsWhatIsAsked == CopyShifts /\ FillsBetweenEdges /\ LinesAreStraight

\* It is asked of copies whose words lie in memory, outside the copper list, each a word of its own
\* and none of those read; of fills down memory, with no shift, the way they run;
Apart(a) ==
  LET b == a.with
      p == Even(a.from)
      N == 0..MaxRows * b.w - 1
  IN Copies(b) => /\ b.fill => b.desc /\ b.ash = 0 /\ b.bsh = 0
                  /\ \A i \in N : AddressOf(b, p, "D", i) \div 2 \in (0..Words - 1) \ Copper
                  /\ \A i, j \in N : /\ i # j => AddressOf(b, p, "D", i) \div 2 # AddressOf(b, p, "D", j) \div 2
                                     /\ AddressOf(b, p, "A", i) \div 2 # AddressOf(b, p, "D", j) \div 2

\* and of lines whose registers hold a line's terms, pen and octant, all of its dots on the picture.
Drawable(l) ==
  /\ l.major > 0 /\ l.minor <= l.major /\ l.mod > 0 /\ l.mod % 2 = 0
  /\ l.cpt = l.y * l.mod + 2 * (l.x \div W) /\ l.ash = l.x % W /\ l.pen = {W - 1} /\ l.lf = {1, 3, 6, 7}
  /\ l.small = 2 * l.minor /\ l.large = 2 * (l.minor - l.major)
  /\ l.acc = 2 * l.minor - l.major /\ l.sign = (l.acc < 0)
  /\ l.sud = ~l.steep /\ l.sul = (IF l.steep THEN l.sx < 0 ELSE l.sy < 0)
  /\ l.aul = (IF l.steep THEN l.sy < 0 ELSE l.sx < 0)
  /\ \A k \in 0..l.major : Dot(l, k) \in Canvas(l.mod)
=============================================================================
