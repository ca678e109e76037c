-------------------------- MODULE GuestTimeProofs --------------------------
(***************************************************************************)
(* Proofs about GuestTime.tla, for every number of lines, every set of     *)
(* handlers and polled lines, every number of music ticks and every lag of *)
(* a loaded state: Inv is inductive, a turn of the flow costs a frame, and *)
(* interrupts come in turn.                                                *)
(***************************************************************************)
EXTENDS GuestTime, TLAPS

-----------------------------------------------------------------------------
(* The clock.                                                              *)

\* A line taken modulo the lines of a frame is a line.
LEMMA ModIsLine ==
  ASSUME NEW a \in Nat, NEW b \in Nat \ {0}
  PROVE  a % b \in 0..b - 1
  BY SMT

\* Whatever is charged, the beam stays on a line and the clock gets no further behind.
LEMMA ElapseKeeps ==
  ASSUME TypeOK, NEW n \in Nat, Elapse(n)
  PROVE  /\ line' \in 0..Lines - 1 /\ behind' \in Nat /\ crossed' \in BOOLEAN
         /\ behind = 0 => behind' = 0
<1> DEFINE gain == IF n > behind THEN n - behind ELSE 0
<1>1. behind \in Nat /\ line \in Nat /\ Lines \in Nat \ {0}
  BY TimeAssumption DEF TypeOK
<1>2. gain \in Nat /\ behind - (n - gain) \in Nat
  BY <1>1
<1>3. line' = (line + gain) % Lines /\ behind' = behind - (n - gain)
  BY DEF Elapse
<1>4. line + gain \in Nat
  BY <1>1, <1>2
<1>5. line' \in 0..Lines - 1
  BY <1>1, <1>3, <1>4, ModIsLine
<1>6. crossed' \in BOOLEAN
  BY DEF Elapse, TypeOK
<1>7. ASSUME behind = 0 PROVE behind' = 0
  <2>1. gain = n
    BY <1>1, <1>7
  <2> HIDE DEF gain
  <2> QED BY <1>1, <1>3, <1>7, <2>1
<1> QED BY <1>2, <1>3, <1>5, <1>6, <1>7

\* With the clock caught up, charging the flow for the rest of a frame crosses its boundary.
LEMMA ElapseCrosses ==
  ASSUME TypeOK, NEW n \in Nat, Elapse(n), at = "flow", behind = 0, line + n >= Lines
  PROVE  crossed'
<1> DEFINE gain == IF n > behind THEN n - behind ELSE 0
<1>1. gain = n
  OBVIOUS
<1>2. line + gain >= Lines
  BY <1>1
<1>3. crossed' = (crossed \/ (at = "flow" /\ line + gain >= Lines))
  BY DEF Elapse
<1> HIDE DEF gain
<1> QED BY <1>2, <1>3, Zenon

LEMMA InitInv == Init => Inv
<1> SUFFICES ASSUME Init PROVE Inv
  OBVIOUS
<1>1. 0 \in 0..Lines - 1 /\ 0 \in 0..Ticks /\ 0 \in Nat
  BY TimeAssumption
<1>2. TypeOK
  <2>1. /\ at \in Places /\ back \in Places /\ level \in Levels \cup {0}
        /\ frozen \in BOOLEAN /\ game \in BOOLEAN /\ asked \subseteq Asks /\ newFlow \in BOOLEAN
        /\ inten \subseteq Levels /\ vec3 \in BOOLEAN /\ vec6 \in Handlers \cup {0}
    BY DEF Init, Places, Levels
  <2>2. line \in 0..Lines - 1 /\ behind \in Nat /\ ticks \in 0..Ticks /\ used \in 0..2
    BY <1>1 DEF Init
  <2>3. /\ open \in BOOLEAN /\ reg \in Owner /\ lent \in Owner \cup {"nothing"}
        /\ setup \in BOOLEAN /\ borrows \in BOOLEAN /\ seen \subseteq Handlers
        /\ owed \in BOOLEAN /\ crossed \in BOOLEAN /\ late \in BOOLEAN
    BY DEF Init, Owner
  <2> QED BY <2>1, <2>2, <2>3 DEF TypeOK
<1>3. OneBorrower /\ FlowsCopy
  BY DEF Init, OneBorrower, BlitIntact, FlowsCopy
<1>4. VectorsApart /\ TurnKept
  BY DEF Init, VectorsApart, TurnKept
<1> QED BY <1>2, <1>3, <1>4 DEF Inv

-----------------------------------------------------------------------------
(* One lemma for the steps of the flow, of a vector and of the frame loop. *)

\* What the flow leaves alone: nothing is lent or borrowed in its turn.
LEMMA FlowsOwn ==
  ASSUME Inv, at = "flow"
  PROVE  /\ level = 0 /\ lent = "nothing" /\ ~borrows /\ ~frozen
         /\ ~late => behind = 0
         /\ setup /\ used <= 1 => reg = "flow"
  BY DEF Inv, VectorsApart, FlowsCopy, TurnKept

\* INTENA and the vectors, whoever writes them.
LEMMA ProgramsTyped ==
  ASSUME TypeOK, Programs
  PROVE  inten' \subseteq Levels /\ vec3' \in BOOLEAN /\ vec6' \in Handlers \cup {0}
  BY DEF Programs, TypeOK

\* A wait that gives the frame back, from a clock that moved and a blit that did not.
LEMMA ParkInv ==
  ASSUME Inv, at = "flow", NEW n \in Nat, Elapse(n), Park, UNCHANGED <<blit, irq>>, newFlow' \in BOOLEAN
  PROVE  Inv'
<1>1. TypeOK'
  BY ElapseKeeps DEF Inv, TypeOK, Park, blit, irq, Places
<1>2. VectorsApart'
  BY DEF Inv, VectorsApart, Park, irq
<1>3. OneBorrower' /\ FlowsCopy'
  BY DEF Inv, OneBorrower, BlitIntact, FlowsCopy, Park, blit, irq
<1>4. TurnKept'
  BY DEF TurnKept, Park
<1> QED BY <1>1, <1>2, <1>3, <1>4 DEF Inv

\* Time passes within the turn.
LEMMA StayInv ==
  ASSUME Inv, at = "flow", NEW n \in Nat, Elapse(n), UNCHANGED <<at, blit, irq, rest>>
  PROVE  Inv'
<1>1. TypeOK'
  BY ElapseKeeps DEF Inv, TypeOK, blit, irq, rest
<1>2. VectorsApart'
  BY DEF Inv, VectorsApart, irq
<1>3. OneBorrower' /\ FlowsCopy'
  BY DEF Inv, OneBorrower, BlitIntact, FlowsCopy, blit, irq
<1>4. TurnKept'
  <2>1. ~late => behind' = 0
    BY ElapseKeeps DEF Inv, TurnKept
  <2> QED BY <2>1 DEF Inv, TurnKept, rest
<1> QED BY <1>1, <1>2, <1>3, <1>4 DEF Inv

LEMMA LineFacts ==
  ASSUME TypeOK, NEW l \in Polled
  PROVE  /\ l \in Nat /\ line \in Nat /\ Lines - line \in Nat /\ ToLine(l) \in Nat
         /\ line >= l => line + ToLine(l) >= Lines
         /\ line + (Lines - line) >= Lines
<1>1. l \in 0..Lines - 1 /\ line \in 0..Lines - 1 /\ Lines \in Nat
  BY TimeAssumption DEF TypeOK
<1> QED BY <1>1 DEF ToLine

LEMMA WaitInv ==
  ASSUME Inv, WaitFrame \/ WaitBelow \/ WaitAbove \/ (\E l \in Polled : WaitScanline(l))
  PROVE  Inv'
<1>1. TypeOK /\ Lines - line \in Nat /\ newFlow \in BOOLEAN
  BY TimeAssumption DEF Inv, TypeOK
<1>2. CASE WaitFrame \/ WaitAbove
  <2>1. at = "flow" /\ Elapse(Lines - line) /\ Park /\ UNCHANGED <<blit, irq>> /\ newFlow' \in BOOLEAN
    BY <1>1, <1>2 DEF WaitFrame, WaitAbove, Flow
  <2> QED BY <1>1, <2>1, ParkInv
<1>3. CASE WaitBelow
  <2>1. V8 - line \in Nat
    BY <1>3, TimeAssumption DEF WaitBelow, Inv, TypeOK
  <2>2. at = "flow" /\ Elapse(V8 - line) /\ UNCHANGED <<at, blit, irq, rest>>
    BY <1>3 DEF WaitBelow, FlowGoesOn, Flow
  <2> QED BY <2>1, <2>2, StayInv
<1>4. ASSUME NEW l \in Polled, WaitScanline(l)
      PROVE  Inv'
  <2>1. ToLine(l) \in Nat
    BY <1>1, LineFacts
  <2>2. at = "flow" /\ UNCHANGED <<blit, irq>>
    BY <1>4 DEF WaitScanline, Flow
  <2>3. \/ Elapse(Lines - line) /\ Park /\ newFlow' \in BOOLEAN
        \/ Elapse(ToLine(l)) /\ Park /\ newFlow' \in BOOLEAN
        \/ Elapse(ToLine(l)) /\ UNCHANGED <<at, rest>>
    BY <1>1, <1>4 DEF WaitScanline
  <2> QED BY <1>1, <2>1, <2>2, <2>3, ParkInv, StayInv
<1> QED BY <1>2, <1>3, <1>4

LEMMA FlowInv ==
  ASSUME Inv, FlowStep
  PROVE  Inv'
<1>1. at = "flow"
  BY DEF FlowStep, Executes, WritesBlitter, WritesBltsize, FlowPrograms, WaitFrame, WaitBelow,
         WaitAbove, WaitScanline, LoadsTitle, FlowAsks, FlowGoesOn, Flow
<1>2. CASE Executes
  BY <1>1, <1>2, StayInv DEF Executes, FlowGoesOn
<1>3. CASE WritesBlitter
  <2>1. UNCHANGED <<at, clock, irq, rest>> /\ open' = TRUE /\ reg' = "flow" /\ setup' = TRUE /\ used' = 0
    BY <1>3 DEF WritesBlitter, FlowGoesOn
  <2>2. TypeOK'
    BY <2>1 DEF Inv, TypeOK, clock, irq, rest, Owner
  <2>3. VectorsApart' /\ TurnKept'
    BY <2>1 DEF Inv, VectorsApart, TurnKept, clock, irq, rest
  <2>4. at' = "flow" /\ lent' = "nothing" /\ ~borrows'
    BY <1>1, <2>1, FlowsOwn DEF irq
  <2>5. OneBorrower' /\ FlowsCopy'
    BY <2>1, <2>4 DEF OneBorrower, BlitIntact, FlowsCopy
  <2> QED BY <2>2, <2>3, <2>5 DEF Inv
<1>4. CASE WritesBltsize
  <2>1. UNCHANGED <<at, clock, reg, irq, rest>> /\ open' = FALSE /\ setup' = FALSE /\ used' = 0
    BY <1>4 DEF WritesBltsize, FlowGoesOn
  <2>2. TypeOK'
    <3>1. open' \in BOOLEAN /\ setup' \in BOOLEAN
      BY <2>1, Zenon
    <3>2. used' \in 0..2
      BY <2>1
    <3> QED BY <2>1, <3>1, <3>2 DEF Inv, TypeOK, clock, irq, rest
  <2>3. VectorsApart' /\ TurnKept'
    BY <2>1 DEF Inv, VectorsApart, TurnKept, clock, irq, rest
  <2>4. OneBorrower' /\ FlowsCopy'
    BY <2>1 DEF OneBorrower, BlitIntact, FlowsCopy
  <2> QED BY <2>2, <2>3, <2>4 DEF Inv
<1>5. CASE FlowPrograms
  <2>1. /\ UNCHANGED <<at, clock, blit, irq, frozen, game, asked, newFlow, seen, ticks, owed, late>>
        /\ Programs
    BY <1>5 DEF FlowPrograms, FlowGoesOn, Programs
  <2>2. TypeOK'
    BY <2>1, ProgramsTyped DEF Inv, TypeOK, clock, blit, irq
  <2>3. VectorsApart' /\ TurnKept' /\ OneBorrower' /\ FlowsCopy'
    BY <2>1 DEF Inv, VectorsApart, TurnKept, OneBorrower, BlitIntact, FlowsCopy, clock, blit, irq
  <2> QED BY <2>2, <2>3 DEF Inv
<1>6. CASE WaitFrame \/ WaitBelow \/ WaitAbove \/ (\E l \in Polled : WaitScanline(l))
  BY <1>6, WaitInv
<1>7. CASE LoadsTitle
  <2>1. game' = TRUE /\ UNCHANGED <<at, clock, blit, irq, frozen, asked, newFlow, inten, vec3, vec6,
                                    seen, ticks, owed, late>>
    BY <1>7 DEF LoadsTitle, FlowGoesOn
  <2>2. TypeOK'
    BY <2>1 DEF Inv, TypeOK, clock, blit, irq
  <2>3. VectorsApart' /\ TurnKept' /\ OneBorrower' /\ FlowsCopy'
    BY <2>1 DEF Inv, VectorsApart, TurnKept, OneBorrower, BlitIntact, FlowsCopy, clock, blit, irq
  <2> QED BY <2>2, <2>3 DEF Inv
<1>8. CASE FlowAsks
  <2>1. /\ at' = "present" /\ asked' = asked \cup {"gameplay"}
        /\ UNCHANGED <<clock, blit, irq, frozen, game, newFlow, inten, vec3, vec6, seen, ticks, owed,
                       late>>
    BY <1>8 DEF FlowAsks
  <2>2. TypeOK'
    BY <2>1 DEF Inv, TypeOK, clock, blit, irq, Places, Asks
  <2>3. VectorsApart' /\ TurnKept'
    BY <1>1, <2>1 DEF Inv, VectorsApart, TurnKept, irq
  <2>4. OneBorrower' /\ FlowsCopy'
    BY <1>1, <2>1 DEF Inv, OneBorrower, BlitIntact, FlowsCopy, blit, irq
  <2> QED BY <2>2, <2>3, <2>4 DEF Inv
<1> QED BY <1>2, <1>3, <1>4, <1>5, <1>6, <1>7, <1>8 DEF FlowStep

\* A vector uses the blitter: the first to do so was lent the flow's copy.
LEMMA BorrowInv ==
  ASSUME Inv, at = "vector", Borrow, UNCHANGED <<at, level, back, lent, clock, setup, rest>>,
         open' \in BOOLEAN, reg' \in Owner
  PROVE  Inv'
<1>1. setup \in BOOLEAN /\ borrows \in BOOLEAN /\ used \in 0..2
  BY DEF Inv, TypeOK
<1>2. borrows' \in BOOLEAN /\ used' \in 0..2
  BY <1>1 DEF Borrow
<1>3. TypeOK'
  BY <1>2 DEF Inv, TypeOK, clock, rest
<1>4. VectorsApart' /\ TurnKept' /\ OneBorrower'
  BY DEF Inv, VectorsApart, TurnKept, OneBorrower, BlitIntact
<1>5. ASSUME setup PROVE borrows' /\ used' # 0 /\ (used' = 1 => lent' = "flow")
  <2>1. /\ borrows => used # 0
        /\ used = 0 => lent = "flow"
        /\ used = 1 /\ borrows => lent = "flow"
    BY <1>5 DEF Inv, FlowsCopy
  <2>2. borrows' /\ used' = IF ~borrows /\ used < 2 THEN used + 1 ELSE used
    BY <1>5 DEF Borrow
  <2>3. CASE borrows
    BY <1>1, <2>1, <2>2, <2>3
  <2>4. CASE ~borrows /\ used < 2
    <3>1. used' = used + 1
      BY <2>2, <2>4
    <3>2. used' # 0 /\ (used' = 1 => used = 0)
      BY <1>1, <3>1
    <3> QED BY <2>1, <2>2, <2>4, <3>2
  <2>5. CASE ~borrows /\ ~(used < 2)
    BY <1>1, <2>2, <2>5
  <2> QED BY <2>3, <2>4, <2>5
<1>6. FlowsCopy'
  BY <1>5 DEF FlowsCopy
<1> QED BY <1>3, <1>4, <1>6 DEF Inv

LEMMA ReturnInv ==
  ASSUME Inv, VectorReturns
  PROVE  Inv'
<1>1. /\ at = "vector" /\ at' = back /\ level' = 0 /\ back' = "step" /\ lent' = "nothing"
      /\ borrows' = FALSE /\ reg' = (IF lent = "nothing" THEN reg ELSE lent)
      /\ UNCHANGED <<clock, open, setup, used, rest>>
  BY DEF VectorReturns, Vector
<1>2. at' \in {"step", "hand", "chain", "ticks"}
  BY <1>1 DEF Inv, VectorsApart
<1>3. reg' \in Owner
  BY <1>1 DEF Inv, TypeOK, Owner
<1>4. TypeOK'
  <2>1. at' \in Places /\ back' \in Places /\ level' \in Levels \cup {0} /\ lent' \in Owner \cup {"nothing"}
    BY <1>1, <1>2 DEF Places
  <2>2. borrows' \in BOOLEAN
    BY <1>1, Zenon
  <2> QED BY <1>1, <1>3, <2>1, <2>2 DEF Inv, TypeOK, clock, rest
<1>5. VectorsApart' /\ TurnKept' /\ OneBorrower'
  BY <1>1, <1>2 DEF VectorsApart, TurnKept, OneBorrower, BlitIntact
<1>6. ASSUME setup, used <= 1 PROVE reg' = "flow"
  <2>1. used \in {0, 1}
    BY <1>6 DEF Inv, TypeOK
  <2>2. /\ borrows => used # 0
        /\ ~borrows => reg = "flow" /\ lent \in {"flow", "nothing"}
        /\ used = 1 /\ borrows => lent = "flow"
    BY <1>6 DEF Inv, FlowsCopy
  <2> QED BY <1>1, <2>1, <2>2
<1>7. FlowsCopy'
  BY <1>1, <1>2, <1>6 DEF Inv, FlowsCopy
<1> QED BY <1>4, <1>5, <1>7 DEF Inv

LEMMA VectorInv ==
  ASSUME Inv, VectorStep
  PROVE  Inv'
<1>1. at = "vector"
  BY DEF VectorStep, VectorExecutes, VectorWritesBlitter, VectorWritesBltsize, VectorPrograms,
         VectorAsks, VectorReturns, VectorGoesOn, Vector
<1>2. CASE VectorExecutes
  <2>1. Elapse(1) /\ UNCHANGED <<at, level, back, lent, blit, borrows, rest>>
    BY <1>2 DEF VectorExecutes, VectorGoesOn
  <2>2. TypeOK'
    BY <2>1, ElapseKeeps DEF Inv, TypeOK, blit, rest
  <2>3. VectorsApart' /\ TurnKept' /\ OneBorrower' /\ FlowsCopy'
    BY <1>1, <2>1 DEF Inv, VectorsApart, TurnKept, OneBorrower, BlitIntact, FlowsCopy, blit
  <2> QED BY <2>2, <2>3 DEF Inv
<1>3. CASE VectorWritesBlitter
  <2>1. /\ Borrow /\ UNCHANGED <<at, level, back, lent, clock, setup, rest>>
        /\ open' = TRUE /\ reg' = "vector"
    BY <1>3 DEF VectorWritesBlitter, VectorGoesOn
  <2>2. open' \in BOOLEAN /\ reg' \in Owner
    BY <2>1 DEF Owner
  <2> QED BY <1>1, <2>1, <2>2, BorrowInv
<1>4. CASE VectorWritesBltsize
  <2>1. /\ Borrow /\ UNCHANGED <<at, level, back, lent, clock, setup, rest>>
        /\ open' = FALSE /\ reg' = reg
    BY <1>4 DEF VectorWritesBltsize, VectorGoesOn
  <2>2. open' \in BOOLEAN /\ reg' \in Owner
    BY <2>1 DEF Inv, TypeOK
  <2> QED BY <1>1, <2>1, <2>2, BorrowInv
<1>5. CASE VectorPrograms
  <2>1. /\ UNCHANGED <<at, level, back, lent, clock, blit, borrows, frozen, game, asked, newFlow, seen,
                       ticks, owed, late>>
        /\ Programs
    BY <1>5 DEF VectorPrograms, VectorGoesOn, Programs
  <2>2. TypeOK'
    BY <2>1, ProgramsTyped DEF Inv, TypeOK, clock, blit
  <2>3. VectorsApart' /\ TurnKept' /\ OneBorrower' /\ FlowsCopy'
    BY <1>1, <2>1 DEF Inv, VectorsApart, TurnKept, OneBorrower, BlitIntact, FlowsCopy, blit
  <2> QED BY <2>2, <2>3 DEF Inv
<1>6. CASE VectorAsks
  <2>1. /\ UNCHANGED <<at, level, back, lent, clock, blit, borrows, frozen, newFlow, inten, vec3, vec6,
                       seen, ticks, owed, late>>
        /\ game' \in BOOLEAN /\ asked' \subseteq Asks
    BY <1>6 DEF VectorAsks, VectorGoesOn, Inv, TypeOK, Asks
  <2>2. TypeOK'
    BY <2>1 DEF Inv, TypeOK, clock, blit
  <2>3. VectorsApart' /\ TurnKept' /\ OneBorrower' /\ FlowsCopy'
    BY <1>1, <2>1 DEF Inv, VectorsApart, TurnKept, OneBorrower, BlitIntact, FlowsCopy, blit
  <2> QED BY <2>2, <2>3 DEF Inv
<1>7. CASE VectorReturns
  BY <1>7, ReturnInv
<1> QED BY <1>2, <1>3, <1>4, <1>5, <1>6, <1>7 DEF VectorStep

\* A vector is entered: it is lent the flow's register when the set-up is open.
LEMMA EnterInv ==
  ASSUME Inv, at # "vector", NEW l \in Levels, NEW next \in {"hand", "chain", "ticks"}, Enter(l, next),
         UNCHANGED <<clock, blit>>, seen' \subseteq Handlers, ticks' \in 0..Ticks, owed' \in BOOLEAN,
         UNCHANGED <<frozen, game, asked, newFlow, inten, vec3, vec6, late>>
  PROVE  Inv'
<1>1. /\ at' = "vector" /\ level' = l /\ back' = next /\ borrows' = FALSE
      /\ lent' = IF open THEN reg ELSE "nothing"
  BY DEF Enter
<1>2. TypeOK'
  <2>1. at' \in Places /\ back' \in Places /\ level' \in Levels \cup {0}
    BY <1>1 DEF Places
  <2>2. borrows' \in BOOLEAN
    BY <1>1, Zenon
  <2>3. lent' \in Owner \cup {"nothing"}
    BY <1>1 DEF Inv, TypeOK
  <2> QED BY <2>1, <2>2, <2>3 DEF Inv, TypeOK, clock, blit
<1>3. VectorsApart' /\ TurnKept' /\ OneBorrower'
  BY <1>1 DEF VectorsApart, TurnKept, OneBorrower, BlitIntact, Levels
<1>4. FlowsCopy'
  <2>1. ~borrows
    BY DEF Inv, VectorsApart
  <2>2. setup => /\ used = 0 => open
                 /\ used <= 1 => reg = "flow"
    BY <2>1 DEF Inv, FlowsCopy
  <2>3. setup /\ used <= 1 => lent' \in {"flow", "nothing"}
    BY <1>1, <2>2
  <2>4. setup /\ used = 0 => lent' = "flow"
    BY <1>1, <2>2
  <2> QED BY <1>1, <2>2, <2>3, <2>4 DEF FlowsCopy, blit
<1> QED BY <1>2, <1>3, <1>4 DEF Inv

\* A step of the frame loop that neither runs the flow nor enters a vector.
LEMMA HostInv ==
  ASSUME Inv, at \notin {"flow", "vector"}, at' \notin {"flow", "vector"}, at' \in Places,
         UNCHANGED <<irq, seen>> \/ (UNCHANGED irq /\ seen' = {}),
         line' \in 0..Lines - 1, behind' \in Nat, crossed' = crossed,
         inten' \subseteq Levels, vec3' \in BOOLEAN, vec6' \in Handlers \cup {0},
         frozen' \in BOOLEAN, game' \in BOOLEAN, asked' \subseteq Asks, newFlow' \in BOOLEAN,
         ticks' \in 0..Ticks, UNCHANGED <<open, owed, late>>,
         \/ UNCHANGED <<setup, used, reg>>
         \/ setup' = FALSE /\ used' = 0 /\ reg' \in Owner,
         TurnKept'
  PROVE  Inv'
<1>1. TypeOK'
  <2>1. setup' \in BOOLEAN /\ used' \in 0..2 /\ reg' \in Owner
    <3>1. CASE UNCHANGED <<setup, used, reg>>
      BY <3>1 DEF Inv, TypeOK
    <3>2. CASE setup' = FALSE /\ used' = 0 /\ reg' \in Owner
      <4>1. setup' \in BOOLEAN
        BY <3>2, Zenon
      <4> QED BY <3>2, <4>1
    <3> QED BY <3>1, <3>2
  <2>2. level' = level /\ back' = back /\ lent' = lent /\ borrows' = borrows /\ seen' \subseteq Handlers
    BY DEF irq, Inv, TypeOK
  <2> QED BY <2>1, <2>2 DEF Inv, TypeOK
<1>2. VectorsApart' /\ OneBorrower'
  BY DEF Inv, VectorsApart, OneBorrower, BlitIntact, irq
<1>3. FlowsCopy'
  BY DEF Inv, VectorsApart, FlowsCopy, irq
<1> QED BY <1>1, <1>2, <1>3 DEF Inv

LEMMA ReleaseInv ==
  ASSUME Inv, Release
  PROVE  Inv'
<1>1. /\ at = "step" /\ at' = "flow" /\ frozen' = FALSE /\ crossed' = FALSE /\ late' = (behind # 0)
      /\ UNCHANGED <<line, behind, blit, irq, game, asked, newFlow, inten, vec3, vec6, seen, ticks, owed>>
  BY DEF Release
<1>2. TypeOK'
  <2>1. frozen' \in BOOLEAN /\ crossed' \in BOOLEAN /\ late' \in BOOLEAN
    BY <1>1, Zenon
  <2>2. at' \in Places
    BY <1>1 DEF Places
  <2> QED BY <1>1, <2>1, <2>2 DEF Inv, TypeOK, blit, irq
<1>3. VectorsApart' /\ FlowsCopy'
  BY <1>1 DEF Inv, VectorsApart, FlowsCopy, blit, irq
<1>4. OneBorrower'
  BY <1>1 DEF Inv, VectorsApart, FlowsCopy, OneBorrower, BlitIntact, blit
<1>5. TurnKept'
  <2>1. behind \in Nat
    BY DEF Inv, TypeOK
  <2>2. ~late' => behind' = 0
    BY <1>1, <2>1
  <2> QED BY <1>1, <2>2 DEF TurnKept
<1> QED BY <1>2, <1>3, <1>4, <1>5 DEF Inv

LEMMA PresentInv ==
  ASSUME Inv, Present
  PROVE  Inv'
<1>1. /\ at = "present" /\ frozen' = FALSE
      /\ at' = (IF frozen THEN "step" ELSE IF "gameplay" \in asked THEN "hand" ELSE "irq")
      /\ UNCHANGED <<clock, blit, irq, game, asked, newFlow, inten, vec3, vec6, seen, ticks, owed, late>>
  BY DEF Present
<1>2. TurnKept'
  BY <1>1 DEF Inv, TurnKept
<1>3. frozen' \in BOOLEAN
  BY <1>1, Zenon
<1>4. at' \in {"step", "hand", "irq"}
  BY <1>1
<1> QED BY <1>1, <1>2, <1>3, <1>4, HostInv DEF Inv, TypeOK, clock, blit, irq, Places

\* Level 3, a link of the level-6 chain, or a music tick: a vector is entered, or passed over.
LEMMA InterruptInv ==
  ASSUME Inv, Level3 \/ Level6Chain \/ MusicTick
  PROVE  Inv'
<1> USE DEF Inv
<1>1. CASE Level3
  <2> DEFINE next == IF game THEN "hand" ELSE "chain"
  <2>1. /\ at = "irq" /\ next \in {"hand", "chain"} /\ 3 \in Levels
        /\ UNCHANGED <<clock, blit, frozen, game, asked, newFlow, inten, vec3, vec6, seen, ticks, late>>
    BY <1>1 DEF Level3, Levels
  <2>2. CASE Enter(3, next) /\ owed' = FALSE
    <3>1. owed' \in BOOLEAN
      BY <2>2, Zenon
    <3>2. seen' \subseteq Handlers /\ ticks' \in 0..Ticks
      BY <2>1 DEF TypeOK
    <3> HIDE DEF next
    <3> QED BY <2>1, <2>2, <3>1, <3>2, EnterInv
  <2>3. CASE at' = next /\ UNCHANGED <<irq, owed>>
    <3>1. TurnKept'
      BY <2>1, <2>3 DEF TurnKept
    <3> HIDE DEF next
    <3> QED BY <2>1, <2>3, <3>1, HostInv DEF TypeOK, clock, blit, Places
  <2> QED BY <1>1, <2>2, <2>3 DEF Level3
<1>2. CASE Level6Chain
  <2>1. /\ at = "chain" /\ 6 \in Levels
        /\ UNCHANGED <<clock, blit, frozen, game, asked, newFlow, inten, vec3, vec6, ticks, owed, late>>
    BY <1>2 DEF Level6Chain, Levels
  <2>2. CASE Link /\ Enter(6, "chain") /\ seen' = seen \cup {vec6}
    <3>1. seen' \subseteq Handlers /\ ticks' \in 0..Ticks /\ owed' \in BOOLEAN
      BY <2>1, <2>2 DEF Link, TypeOK
    <3> QED BY <2>1, <2>2, <3>1, EnterInv
  <2>3. CASE at' = "hand" /\ seen' = {} /\ UNCHANGED irq
    <3>1. TurnKept'
      BY <2>3 DEF TurnKept
    <3> QED BY <2>1, <2>3, <3>1, HostInv DEF TypeOK, clock, blit, Places
  <2> QED BY <1>2, <2>2, <2>3 DEF Level6Chain
<1>3. CASE MusicTick
  <2>1. /\ at = "ticks" /\ 6 \in Levels
        /\ UNCHANGED <<clock, blit, frozen, game, asked, newFlow, inten, vec3, vec6, seen, owed, late>>
    BY <1>3 DEF MusicTick, Levels
  <2>2. ticks' \in 0..Ticks
    BY <1>3, TimeAssumption DEF MusicTick, TypeOK
  <2>3. CASE Enter(6, "ticks")
    <3>1. seen' \subseteq Handlers /\ owed' \in BOOLEAN
      BY <2>1 DEF TypeOK
    <3> QED BY <2>1, <2>2, <2>3, <3>1, EnterInv
  <2>4. CASE at' \in {"ticks", "present", "step"} /\ UNCHANGED irq
    <3>1. at' = "present" => frozen
      BY <1>3, <2>1, <2>4 DEF MusicTick, AfterAudio, Enter
    <3>2. TurnKept'
      BY <2>1, <2>4, <3>1 DEF TurnKept
    <3> QED BY <2>1, <2>2, <2>4, <3>2, HostInv DEF TypeOK, clock, blit, Places
  <2>5. Enter(6, "ticks") \/ (at' \in {"ticks", "present", "step"} /\ UNCHANGED irq)
    BY <1>3 DEF MusicTick, AfterAudio, irq
  <2> QED BY <2>3, <2>4, <2>5
<1> QED BY <1>1, <1>2, <1>3

\* A new flow, for the requests that stand when the frame's interrupts have been delivered.
LEMMA HandInv ==
  ASSUME Inv, Hand
  PROVE  Inv'
<1>1. /\ at = "hand" /\ at' = "audio"
      /\ asked' = asked \ (IF "title" \in asked THEN {"title"} ELSE {"gameplay"})
      /\ game' = (game \/ asked # {}) /\ newFlow' = (newFlow \/ asked = {"gameplay"})
      /\ setup' = (setup /\ asked = {}) /\ used' = IF setup' THEN used ELSE 0
      /\ UNCHANGED <<clock, open, reg, irq, frozen, inten, vec3, vec6, seen, ticks, owed, late>>
  BY DEF Hand
<1>2. /\ game \in BOOLEAN /\ newFlow \in BOOLEAN /\ setup \in BOOLEAN /\ asked \subseteq Asks
      /\ used \in 0..2 /\ reg \in Owner
  BY DEF Inv, TypeOK
<1>3. game' \in BOOLEAN /\ newFlow' \in BOOLEAN /\ setup' \in BOOLEAN
  BY <1>1, <1>2, Zenon
<1>4. asked' \subseteq Asks
  BY <1>1, <1>2
<1>5. used' \in 0..2
  BY <1>1, <1>2
<1>6. TypeOK'
  BY <1>1, <1>2, <1>3, <1>4, <1>5 DEF Inv, TypeOK, clock, irq, Places
<1>7. VectorsApart' /\ TurnKept' /\ OneBorrower'
  BY <1>1 DEF Inv, VectorsApart, TurnKept, OneBorrower, BlitIntact, irq
<1>8. ASSUME setup' PROVE setup /\ used' = used
  <2>1. setup /\ asked = {}
    BY <1>1, <1>8, Zenon
  <2> QED BY <1>1, <1>8, <2>1
<1>9. FlowsCopy'
  BY <1>1, <1>8 DEF Inv, VectorsApart, FlowsCopy, irq
<1> QED BY <1>6, <1>7, <1>9 DEF Inv

\* A loaded state: the registers and the vectors are its own, the clock partly.
LEMMA LoadInv ==
  ASSUME Inv, LoadState
  PROVE  Inv'
<1>1. /\ at = "step" /\ behind' \in Lags /\ game' = TRUE /\ inten' \subseteq Levels
      /\ vec3' \in BOOLEAN /\ vec6' \in Handlers \cup {0} /\ asked' \in {{}, {"gameplay"}}
      /\ reg' = "flow" /\ setup' = FALSE /\ used' = 0
      /\ UNCHANGED <<at, crossed, open, irq, frozen, newFlow, seen, ticks, owed, late>>
  BY DEF LoadState
<1>2. line' \in 0..Lines - 1
  BY DEF LoadState, Inv, TypeOK
<1>3. behind' \in Nat /\ asked' \subseteq Asks /\ reg' \in Owner
  BY <1>1, TimeAssumption DEF Asks, Owner
<1>4. game' \in BOOLEAN
  BY <1>1, Zenon
<1>5. TurnKept'
  BY <1>1 DEF TurnKept
<1> QED BY <1>1, <1>2, <1>3, <1>4, <1>5, HostInv DEF Inv, TypeOK, Places

\* What the player or a pause does between two turns.
LEMMA PausedInv ==
  ASSUME Inv, Freeze \/ Audio \/ PlayerRestarts \/ ToTitle
  PROVE  Inv'
<1>1. CASE Freeze
  <2>1. /\ at = "step" /\ at' = "audio" /\ frozen' = TRUE
        /\ UNCHANGED <<clock, blit, irq, game, asked, newFlow, inten, vec3, vec6, seen, ticks, owed,
                       late>>
    BY <1>1 DEF Freeze
  <2>2. TurnKept'
    BY <2>1 DEF TurnKept
  <2>3. frozen' \in BOOLEAN
    BY <2>1, Zenon
  <2> QED BY <2>1, <2>2, <2>3, HostInv DEF Inv, TypeOK, clock, blit, Places
<1>2. CASE Audio
  <2>1. /\ at = "audio" /\ at' \in {"ticks", "present", "step"} /\ ticks' \in {ticks, Ticks}
        /\ at' = "present" => frozen
        /\ UNCHANGED <<clock, blit, irq, frozen, game, asked, newFlow, inten, vec3, vec6, seen, owed,
                       late>>
    BY <1>2 DEF Audio, AfterAudio
  <2>2. TurnKept'
    BY <2>1 DEF TurnKept
  <2>3. ticks' \in 0..Ticks
    BY <2>1, TimeAssumption DEF Inv, TypeOK
  <2> QED BY <2>1, <2>2, <2>3, HostInv DEF Inv, TypeOK, clock, blit, Places
<1>3. CASE PlayerRestarts
  <2>1. /\ at = "step" /\ asked' = asked \cup {"gameplay"}
        /\ UNCHANGED <<at, clock, blit, irq, frozen, game, newFlow, inten, vec3, vec6, seen, ticks,
                       owed, late>>
    BY <1>3 DEF PlayerRestarts
  <2>2. TurnKept'
    BY <2>1 DEF TurnKept
  <2>3. asked' \subseteq Asks
    BY <2>1 DEF Inv, TypeOK, Asks
  <2> QED BY <2>1, <2>2, <2>3, HostInv DEF Inv, TypeOK, clock, blit, Places
<1>4. CASE ToTitle
  <2>1. /\ at = "step" /\ game' = TRUE /\ setup' = FALSE /\ used' = 0 /\ asked' = {} /\ inten' = {}
        /\ UNCHANGED <<at, clock, open, reg, irq, frozen, newFlow, vec3, vec6, seen, ticks, owed,
                       late>>
    BY <1>4 DEF ToTitle
  <2>2. TurnKept'
    BY <2>1 DEF TurnKept
  <2>3. game' \in BOOLEAN
    BY <2>1, Zenon
  <2> QED BY <2>1, <2>2, <2>3, HostInv DEF Inv, TypeOK, clock, Places
<1> QED BY <1>1, <1>2, <1>3, <1>4

LEMMA HostStepInv ==
  ASSUME Inv, HostStep
  PROVE  Inv'
  BY ReleaseInv, PresentInv, InterruptInv, HandInv, LoadInv, PausedInv DEF HostStep

LEMMA StutterInv ==
  ASSUME Inv, UNCHANGED vars
  PROVE  Inv'
<1>1. TypeOK'
  BY DEF Inv, TypeOK, vars, clock, blit, irq, rest
<1>2. VectorsApart' /\ TurnKept' /\ OneBorrower' /\ FlowsCopy'
  BY DEF Inv, VectorsApart, TurnKept, OneBorrower, BlitIntact, FlowsCopy, vars, clock, blit, irq, rest
<1> QED BY <1>1, <1>2 DEF Inv

-----------------------------------------------------------------------------
(* The theorems.                                                           *)

\* Whatever the flow, the vectors and the frame loop do, in whatever order, the flow's copy of the
\* blitter's registers is in the register or lent to the vector that runs, as long as at most one
\* vector used the blitter during the set-up (hw_blit_regs_save, hw_blit_regs_restore).
THEOREM InvHolds == Spec => []Inv
<1>1. Inv /\ [Next]_vars => Inv'
  BY FlowInv, VectorInv, HostStepInv, StutterInv DEF Next
<1> QED BY InitInv, <1>1, PTL DEF Spec

\* A set-up the flow was parked in is intact when it goes on, if at most one vector used the
\* blitter meanwhile (coro_call_vector_as).
THEOREM OneBorrowerIsHarmless == Spec => []OneBorrower
<1>1. Inv => OneBorrower
  BY DEF Inv
<1> QED BY InvHolds, <1>1, PTL

\* A step that takes the flow from its turn to the frame's presentation either asked for a new
\* gameplay flow or has taken the beam over a frame boundary, unless the clock was behind.
LEMMA WaitsCross ==
  ASSUME Inv, Next, at = "flow", at' = "present", "gameplay" \notin asked', ~late
  PROVE  crossed'
<1>1. TypeOK /\ behind = 0
  BY DEF Inv, TurnKept
<1>2. Lines - line \in Nat /\ line + (Lines - line) >= Lines
  BY <1>1, TimeAssumption DEF TypeOK
<1>3. CASE Elapse(Lines - line)
  BY <1>1, <1>2, <1>3, ElapseCrosses
<1>4. ASSUME NEW l \in Polled, line >= l, Elapse(ToLine(l)) PROVE crossed'
  BY <1>1, <1>4, LineFacts, ElapseCrosses
<1>5. \/ Elapse(Lines - line)
      \/ \E l \in Polled : line >= l /\ Elapse(ToLine(l))
  <2>1. CASE FlowStep
    BY <2>1 DEF FlowStep, Executes, WritesBlitter, WritesBltsize, FlowPrograms, WaitFrame, WaitBelow,
                WaitAbove, WaitScanline, LoadsTitle, FlowAsks, FlowGoesOn, Flow
  <2>2. CASE VectorStep
    BY <2>2 DEF VectorStep, VectorExecutes, VectorWritesBlitter, VectorWritesBltsize,
                VectorPrograms, VectorAsks, VectorReturns, VectorGoesOn, Vector
  <2>3. CASE HostStep
    BY <2>3 DEF HostStep, Release, Freeze, Present, Level3, Level6Chain, Hand, Audio, MusicTick,
                PlayerRestarts, ToTitle, LoadState
  <2> QED BY <2>1, <2>2, <2>3 DEF Next
<1> QED BY <1>3, <1>4, <1>5

\* Each turn of the flow that ends in a wait has taken the beam over a frame boundary, whatever it
\* polled for and whatever the vectors charged (hw_vblank_wait, hw_beam_wait_above, _scanline).
THEOREM FlowPaysForItsTurns == Spec => ParkCostsFrame
<1>1. Inv /\ [Next]_vars => [ at = "flow" /\ at' = "present" /\ "gameplay" \notin asked' /\ ~late
                              => crossed' ]_vars
  BY WaitsCross
<1> QED BY InvHolds, <1>1, PTL DEF Spec, ParkCostsFrame

\* A vector is entered only by the frame loop, in its turn.
LEMMA EntersInTurn ==
  ASSUME Inv, Next, at # "vector", at' = "vector"
  PROVE  /\ level' = 3 => owed /\ ~frozen
         /\ at # "chain" /\ game => level' \in inten
         /\ at = "chain" => vec6 \notin seen
<1>1. Level3 \/ Level6Chain \/ MusicTick
  <2>1. CASE FlowStep
    BY <2>1 DEF FlowStep, Executes, WritesBlitter, WritesBltsize, FlowPrograms, WaitFrame, WaitBelow,
                WaitAbove, WaitScanline, LoadsTitle, FlowAsks, FlowGoesOn, Flow, Park
  <2>2. CASE VectorStep
    BY <2>2 DEF VectorStep, VectorExecutes, VectorWritesBlitter, VectorWritesBltsize,
                VectorPrograms, VectorAsks, VectorReturns, VectorGoesOn, Vector
  <2>3. CASE HostStep
    BY <2>3 DEF HostStep, Release, Freeze, Present, Hand, Audio, AfterAudio, PlayerRestarts, ToTitle,
                LoadState
  <2> QED BY <2>1, <2>2, <2>3 DEF Next
<1>2. CASE Level3
  <2>1. at = "irq" /\ owed /\ ~frozen
    BY <1>2 DEF Level3, Inv, TurnKept
  <2>2. game => 3 \in inten /\ level' = 3
    BY <1>2 DEF Level3, Enter
  <2> QED BY <2>1, <2>2
<1>3. CASE Level6Chain
  BY <1>3 DEF Level6Chain, Link, Enter
<1>4. CASE MusicTick
  BY <1>4 DEF MusicTick, Audible, AfterAudio, Enter
<1> QED BY <1>1, <1>2, <1>3, <1>4

\* Interrupts come in turn, whatever the handlers do to the vectors and to INTENA: level 3 at most
\* once for a frame of the flow, a handler of the chain at most once a frame, nothing masked
\* outside the intro (coro_deliver_timer_irq, pc_music_tick).
THEOREM InterruptsInTurn == Spec => VectorsInTurn
<1>1. Inv /\ [Next]_vars => [ at # "vector" /\ at' = "vector" =>
                                 /\ level' = 3 => owed /\ ~frozen
                                 /\ at # "chain" /\ game => level' \in inten
                                 /\ at = "chain" => vec6 \notin seen ]_vars
  BY EntersInTurn
<1> QED BY InvHolds, <1>1, PTL DEF Spec, VectorsInTurn
=============================================================================
