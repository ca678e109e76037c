------------------------------- MODULE Ports -------------------------------
(***************************************************************************)
(* The register file of engine/hw.c as guest code sees it: word and byte   *)
(* accesses, the pointers cached from two registers, the set/clear         *)
(* registers, CIA-B's timer, and what the beam, the joystick and the       *)
(* buttons read as.  The blitter's registers are Blitter's, the audio      *)
(* registers Paula's.                                                      *)
(*                                                                         *)
(* A byte is the set of its bits, SetBit being bit 7 of an upper byte.     *)
(***************************************************************************)
EXTENDS Integers, FiniteSets

CONSTANTS
  Pointers, \* BPL1PT..BPL6PT and SPR0PT..SPR7PT
  Bytes,    \* the bytes the guest writes
  SetBit,   \* bit 15 of a set/clear register
  LineMod,  \* lines VHPOSR tells apart (256)
  LastLine  \* the last line of a frame (311)

PortsAssumption == LineMod \in Nat /\ LastLine \in LineMod..2 * LineMod - 1

Ways    == {"left", "right", "up", "down"}
Strobes == {"INTENA", "INTREQ"} \X {"all"}
Regs    == Strobes \cup (Pointers \X {"high", "low"})

VARIABLES
  shadow, \* s_regs: the upper and the lower byte last written to a register
  cached, \* s_bplptr, s_sprpt
  on,     \* s_intena, s_intreq
  cia,    \* latch, counter, running, what happened and what is asked for
  told,   \* the timer events ICR has reported since one happened
  stick,  \* the directions held
  fire, lmb,
  line    \* s_scanline

vars == <<shadow, cached, on, cia, told, stick, fire, lmb, line>>
chips == <<shadow, cached, on>>
hands == <<stick, fire, lmb>>

Join(s, p) == <<s[<<p, "high">>], s[<<p, "low">>]>>

\* The bits of a word, by half; the set/clear bit is none of them.
Named(w) == {<<"upper", b>> : b \in w.upper \ {SetBit}} \cup {<<"lower", b>> : b \in w.lower}

-----------------------------------------------------------------------------
(* Writes *)

\* Mutant: only the lower half's write brings the cached pointer up to date.
RefreshedByLow(r, s) ==
  IF r[2] = "low" THEN [cached EXCEPT ![r[1]] = Join(s, r[1])] ELSE cached

\* A write of either half rebuilds the pointer cached from both.
Refreshed(r, s) == [cached EXCEPT ![r[1]] = Join(s, r[1])]

Strobed(before, w) == IF SetBit \in w.upper THEN before \cup Named(w) ELSE before \ Named(w)

WriteWord(r, w) ==
  /\ shadow' = [shadow EXCEPT ![r] = w]
  /\ IF r \in Strobes
       THEN on' = [on EXCEPT ![r] = Strobed(@, w)] /\ UNCHANGED cached
       ELSE cached' = Refreshed(r, shadow') /\ UNCHANGED on

Word == \E r \in Regs, u, l \in Bytes :
  WriteWord(r, [upper |-> u, lower |-> l]) /\ UNCHANGED <<cia, told, hands, line>>

\* A byte write is a read of the register's shadow and a write of the whole word.
Byte == \E r \in Regs, b \in Bytes, half \in {"upper", "lower"} :
  /\ WriteWord(r, [shadow[r] EXCEPT ![half] = b])
  /\ UNCHANGED <<cia, told, hands, line>>

\* A savestate holds the shadows with what is cached from them.
LoadState == \E w \in Bytes : 
  /\ shadow' = [r \in Regs |-> [upper |-> w, lower |-> w]]
  /\ cached' = [p \in Pointers |-> Join(shadow', p)]
  /\ on' = [r \in Strobes |-> IF SetBit \in w THEN Named(shadow'[r]) ELSE {}]
  /\ UNCHANGED <<cia, told, hands, line>>

-----------------------------------------------------------------------------
(* CIA-B, whose byte registers take no part in the above *)

Timer(c) == cia' = c /\ UNCHANGED <<chips, hands, line>>

\* A high byte written while the timer stands still counts as an underflow at once.
TimerHigh == \E n \in 0..1 :
  /\ Timer([cia EXCEPT !.latch = n, !.happened = @ \/ ~cia.running])
  /\ told' = IF cia.running \/ cia.happened THEN told ELSE 0

TimerLow == \E n \in 0..1 : Timer([cia EXCEPT !.latch = n]) /\ UNCHANGED told

TimerControl == \E run, load \in BOOLEAN :
  /\ Timer([cia EXCEPT !.running = run, !.count = IF load THEN cia.latch ELSE @])
  /\ UNCHANGED told

TimerMask == \E want \in BOOLEAN : Timer([cia EXCEPT !.wanted = want]) /\ UNCHANGED told

\* Reading ICR reports what happened and forgets it.
ReadIcr == /\ Timer([cia EXCEPT !.happened = FALSE])
           /\ told' = IF cia.happened THEN told + 1 ELSE told

-----------------------------------------------------------------------------
(* What is read *)

\* hw_joystick: the quadrature code of the directions held.
Xor(a, b) == a # b
Quadrature ==
  LET left == "left" \notin stick  right == "right" \notin stick
      top  == "up" \notin stick    bottom == "down" \notin stick
  IN [b0 |-> Xor(bottom, right), b1 |-> ~right, b8 |-> Xor(top, left), b9 |-> ~left]

Vposr  == (line \div LineMod) % 2
Vhposr == line % LineMod

\* CIA-A's port, low when pressed: bit 7 is the fire the guest's loops test.
Pra == [fir0 |-> ~fire, fir1 |-> ~(fire \/ lmb)]

\* When hw_wait_fire, which stands for such a loop, goes on.
FireWaitEnds(pressed) == IF pressed THEN fire \/ lmb ELSE ~(fire \/ lmb)

Hands == /\ stick' \in SUBSET Ways /\ fire' \in BOOLEAN /\ lmb' \in BOOLEAN
         /\ UNCHANGED <<chips, cia, told, line>>

Beam == line' = (line + 1) % (LastLine + 1) /\ UNCHANGED <<chips, cia, told, hands>>

Init == /\ shadow = [r \in Regs |-> [upper |-> {}, lower |-> {}]]
        /\ cached = [p \in Pointers |-> Join(shadow, p)]
        /\ on = [r \in Strobes |-> {}]
        /\ cia = [latch |-> 0, count |-> 0, running |-> FALSE, happened |-> FALSE, wanted |-> FALSE]
        /\ told = 0 /\ stick = {} /\ fire = FALSE /\ lmb = FALSE /\ line = 0

Registers == Word \/ Byte \/ LoadState
CiaB      == TimerHigh \/ TimerLow \/ TimerControl \/ TimerMask \/ ReadIcr
Outside   == Hands \/ Beam

Next == Registers \/ CiaB \/ Outside

Spec == Init /\ [][Next]_vars

-----------------------------------------------------------------------------
(* Properties *)

TypeOK == /\ DOMAIN shadow = Regs /\ stick \subseteq Ways /\ line \in 0..LastLine
          /\ cia \in [latch : 0..1, count : 0..1, running : BOOLEAN, happened : BOOLEAN,
                      wanted : BOOLEAN]

\* What is drawn from is where the registers point, whichever half was written last and in
\* words or bytes.
PointersJoined == \A p \in Pointers : cached[p] = Join(shadow, p)

\* What a set/clear register's shadow says was done to it last is what it still is, so that
\* the half a byte write writes back changes nothing.
ByteTouchesItsHalf ==
  \A r \in Strobes : IF SetBit \in shadow[r].upper THEN Named(shadow[r]) \subseteq on[r]
                     ELSE Named(shadow[r]) \cap on[r] = {}

\* The guest's decoding of JOYxDAT finds the directions held, all combinations of them.
StickDecodes == LET q == Quadrature
                IN stick = {w \in Ways : CASE w = "right" -> q.b1 [] w = "left" -> q.b9
                                           [] w = "down" -> Xor(q.b0, q.b1)
                                           [] w = "up" -> Xor(q.b8, q.b9)}

\* The two beam registers together tell the line.
BeamDecodes == Vposr * LineMod + Vhposr = line

\* An underflow is reported at most once.
ReportedOnce == told \in 0..1

\* A folded fire loop ends exactly when the guest's own would.
FireLoopAgrees == \A pressed \in BOOLEAN : FireWaitEnds(pressed) = (Pra.fir1 = ~pressed)

\* The register file answers with what was put in.
Coherent == /\ TypeOK /\ PointersJoined /\ ByteTouchesItsHalf /\ ReportedOnce
            /\ StickDecodes /\ BeamDecodes /\ FireLoopAgrees
=============================================================================
