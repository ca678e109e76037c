---------------------------- MODULE MCDevices ----------------------------
(* The blitter, Paula, the register file, the frame clock, a present        *)
(* through the Vulkan window and the life of the backend share no state     *)
(* that these modules keep, so each is run on a bench of its own, and the   *)
(* register file's three parts one at a time.                               *)
EXTENDS Blitter

CONSTANTS Chans, Locs, Lens, Pers, Sounds, Clock, Rate, Frame, Ticks, MaxQueued, MaxSounds,
          Pointers, Bytes, SetBit, LineMod, LastLine,
          Second, Speeds, FastPct, Modes, FreePct, StallFrames, RebaseEvery, Works, Lates, Rests, Exact,
          MaxNow, MaxChanges, Sizes, Contents, Failures, MaxEvents, Built, Wanted, Windows, Desktop, MaxFaults

VARIABLES bench,
          reg, dma, stopped, voice, flag, desc, loaded, heard, tick, done, buffered, effects,
          shadow, cached, on, cia, told, stick, fire, lmb, line,
          now, pace, display, audio, knob, fast, how, mode, due, seams, sample, changes,
          at, content, scene, window, asked, chain, targets, base, bound, fence, taken, job, shown, events,
          doing, backend, made, absent, want, wideMode, out, frameOf, before, full, fullKnob, queued, faults

P == INSTANCE Paula WITH asked <- effects, queued <- buffered
R == INSTANCE Ports
F == INSTANCE FramePacing
V == INSTANCE VulkanWindow
H == INSTANCE PresentBackend WITH mode <- wideMode, window <- frameOf, knob <- fullKnob

ASSUME BlitterAssumed == BlitterAssumption
ASSUME DrawingAssumed == (\A a \in Areas : Apart(a)) /\ (\A l \in Lines : Drawable(l))
ASSUME PaulaAssumed == P!PaulaAssumption
ASSUME PortsAssumed == R!PortsAssumption
ASSUME PacingAssumed == F!PacingAssumption
ASSUME WindowAssumed == V!WindowAssumption
ASSUME BackendAssumed == H!BackendAssumption

paula   == <<reg, dma, stopped, voice, flag, desc, loaded, heard, tick, done, buffered, effects>>
ports   == <<shadow, cached, on, cia, told, stick, fire, lmb, line>>
pacing  == <<now, pace, display, audio, knob, fast, how, mode, due, seams, sample, changes>>
flight  == <<at, content, scene, window, asked, chain, targets, base, bound, fence, taken, job, shown, events>>
owning  == <<doing, backend, made, absent, want, wideMode, out, frameOf, before, full, fullKnob, queued, faults>>
chips   == <<paula, ports>>
host    == <<pacing, flight, owning>>

Benches == {"blitter", "paula", "registers", "timer", "hands", "pacing", "window", "backend"}

\* A bench that is not run starts in one state.
Only(b, S) == IF bench = b THEN S ELSE {CHOOSE x \in S : TRUE}

Shapes == {"disabled", "16:9", "ultrawide", "auto", "unset"}

DevInit == /\ bench \in Benches /\ Init /\ P!Init /\ R!Init
           /\ bench # "blitter" => mem[0] = {} /\ mem[1] = {}
           /\ knob \in Only("pacing", Speeds) /\ mode \in Only("pacing", Modes) /\ F!Init
           /\ content \in Only("window", Contents) /\ window \in Only("window", Sizes) /\ V!Init
           /\ want \in Only("backend", Wanted) /\ wideMode \in Only("backend", Shapes)
           /\ fullKnob \in Only("backend", BOOLEAN) /\ H!Init

DevNext == /\ UNCHANGED bench
           /\ \/ bench = "blitter" /\ Next /\ UNCHANGED <<chips, host>>
              \/ bench = "paula" /\ P!Next /\ UNCHANGED <<vars, ports, host>>
              \/ bench = "registers" /\ R!Registers /\ UNCHANGED <<vars, paula, host>>
              \/ bench = "timer" /\ R!CiaB /\ UNCHANGED <<vars, paula, host>>
              \/ bench = "hands" /\ R!Outside /\ UNCHANGED <<vars, paula, host>>
              \/ bench = "pacing" /\ F!Next /\ UNCHANGED <<vars, chips, flight, owning>>
              \/ bench = "window" /\ V!Next /\ UNCHANGED <<vars, chips, pacing, owning>>
              \/ bench = "backend" /\ H!Next /\ UNCHANGED <<vars, chips, pacing, flight>>

OnWindow(A) == bench = "window" /\ A

DevSpec == /\ DevInit /\ [][DevNext]_<<bench, vars, chips, host>>
           /\ WF_tick(bench = "paula" /\ P!FrameGoesOn)
           /\ WF_flight(OnWindow(V!Onward)) /\ WF_flight(OnWindow(V!Present)) /\ WF_flight(OnWindow(V!GpuDone))

\* A bench's properties are about its own states.
Draws == bench = "blitter" => TypeOK /\ ChainedIsOne /\ DrawsWhatIsAsked
Sound == bench = "paula" => P!Sound
EffectsEnd == P!EffectsEnd
Coherent == bench \in {"registers", "timer", "hands"} => R!Coherent
Timed == bench = "pacing" => F!Paced /\ F!Sampled
VulkanSafe == bench = "window" => V!VulkanSafe
FollowsWindow == bench = "window" => V!FollowsWindow
Backed == bench = "backend" => H!Backed

MCWindows == {<<400, 900>>}
MCDesktop == <<1920, 1080>>

\* The second loops its last two bytes, to where it ends.
MCSounds == {[base |-> 8, len |-> 4, loop |-> 0, again |-> 0, per |-> 1, pri |-> 1, vol |-> 1],
             [base |-> 16, len |-> 3, loop |-> 17, again |-> 2, per |-> 2, pri |-> 1, vol |-> 2]}

All == 0..3
Word4(n) == {i \in All : (n \div 2^i) % 2 = 1}

\* Four words of source and four of destination; a picture for lines is empty.
MCPictures == {[a \in 0..8 |-> CASE a = 0 -> Word4(x) [] a = 1 -> Word4(y) [] a = 2 -> {1}
                                 [] a = 3 -> {0, 3} [] OTHER -> {}] : x, y \in {0, 6, 11}}

Copy(ash, down, w) ==
  [use |-> {"A", "D"}, lf |-> {4, 5, 6, 7}, ash |-> ash, bsh |-> 0, desc |-> down, fill |-> FALSE,
   inclusive |-> FALSE, carryIn |-> FALSE, first |-> All, last |-> All, w |-> w,
   mod |-> [c \in {"A", "B", "C", "D"} |-> 0]]
Fill(inclusive, carryIn) ==
  [Copy(0, TRUE, 2) EXCEPT !.fill = TRUE, !.inclusive = inclusive, !.carryIn = carryIn]
\* A masked bob: mask from A, picture from B, background through C, into D.
Cookie(ash) ==
  [Copy(ash, FALSE, 1) EXCEPT !.use = {"A", "B", "C", "D"}, !.lf = {1, 3, 6, 7}, !.bsh = ash,
                              !.first = {0, 1, 2}, !.mod = [c \in {"A", "B", "C", "D"} |-> 2]]
From(firsts, kinds) == {[from |-> p, with |-> b] : p \in firsts, b \in kinds}
\* Ascending blits start at the first word, descending ones at the last; an odd byte is dropped.
MCAreas ==
  From({[A |-> 0, B |-> 4, C |-> 8, D |-> 8], [A |-> 1, B |-> 5, C |-> 9, D |-> 9]},
       {Copy(0, FALSE, 2), Copy(1, FALSE, 2), Copy(2, FALSE, 1), Cookie(0), Cookie(2)})
  \cup From({[A |-> 6, B |-> 2, C |-> 14, D |-> 14]},
            {Copy(0, TRUE, 1), Copy(3, TRUE, 2)} \cup {Fill(i, c) : i, c \in BOOLEAN})

\* Every line of at most three steps that stays on a picture of eight dots by four rows.
LineFrom(x, y, dx, dy, single) ==
  LET ax == IF dx < 0 THEN -dx ELSE dx
      ay == IF dy < 0 THEN -dy ELSE dy
      steep == ay > ax
      major == IF steep THEN ay ELSE ax
      minor == IF steep THEN ax ELSE ay
  IN [x |-> x, y |-> y, sx |-> IF dx < 0 THEN -1 ELSE 1, sy |-> IF dy < 0 THEN -1 ELSE 1,
      steep |-> steep, major |-> major, minor |-> minor,
      cpt |-> y * 4 + 2 * (x \div 4), mod |-> 4, pen |-> {3}, lf |-> {1, 3, 6, 7}, ash |-> x % 4,
      small |-> 2 * minor, large |-> 2 * (minor - major), acc |-> 2 * minor - major,
      sign |-> 2 * minor < major, single |-> single,
      sud |-> ~steep, sul |-> IF steep THEN dx < 0 ELSE dy < 0, aul |-> IF steep THEN dy < 0 ELSE dx < 0]
MCLines == {LineFrom(x, y, dx, dy, s) : x \in {3, 4}, y \in {0, 3}, dx \in -3..3, dy \in -3..3, s \in BOOLEAN}
OnPicture == {l \in MCLines : l.major > 0 /\ l.y + l.sy * (IF l.steep THEN l.major ELSE l.minor) \in 0..3}
=============================================================================
