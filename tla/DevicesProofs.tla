--------------------------- MODULE DevicesProofs ---------------------------
(* What TLAPS proves of the benches of MCDevices, for every value of their *)
(* constants: a present through the Vulkan window, the register file, the  *)
(* sound, the life of the backends, the frame clock, the blitter.  Each    *)
(* has an inductive invariant, a lemma per operation and the theorems at   *)
(* the end.                                                                *)
EXTENDS MCDevices, SequenceTheorems, FiniteSetTheorems, WellFoundedInduction, TLAPS
-----------------------------------------------------------------------------
(* A present. *)

\* The calls that may fail are the ones whose failure the code survives: a base texture without memory
\* and a swapchain that could not be rebuilt are not (README, section 7).
Survived == Failures \subseteq {"image", "acquire"}

\* Where a present may be.
Stages == {"idle", "base", "copy", "resize", "rebuildThenWait", "wait", "acquire", "rebuild",
         "submit", "present"}

\* The kinds of what the window and the present hold.
Sized == /\ window \in Sizes /\ asked \in Sizes /\ content \in Contents
         /\ base \in [id : 0..2, size : Contents, image : BOOLEAN, whole : BOOLEAN]
         /\ chain \in [id : 1..2, size : Sizes]
         /\ job \in [chain : 0..2, base : 0..2, reads : SUBSET {"base", "atlas"}]
         /\ events \in 0..MaxEvents
         /\ at \in Stages

\* What is bound, rendered into and used by the GPU is what exists now, whole and of the content's size.
Kept == /\ targets = chain
        /\ base.image => base.whole /\ bound = base.id
        /\ at \notin {"idle", "base"} => base.image /\ base.size = content
        /\ ~V!Idle => job.chain = chain.id /\ job.base = base.id

\* The fence is up when the GPU is idle, but between the acquire and the submit, which alone holds a semaphore.
Fenced == /\ fence \in BOOLEAN /\ taken \in BOOLEAN
          /\ at = "submit" => V!Idle /\ ~fence
          /\ at # "submit" => (fence <=> V!Idle) /\ ~taken
          /\ at = "acquire" => fence

\* The inductive invariant of a present: V!Safe speaks of what the GPU uses and needs to know which
\* swapchain and which base a job was recorded for, and where the fence was reset.
WindowInv == Sized /\ Kept /\ Fenced

\* It holds of a window just opened.
LEMMA WindowStarts == V!Init => WindowInv
  <1> SUFFICES ASSUME V!Init PROVE WindowInv
    OBVIOUS
  <1>1. /\ 0 \in 0..2 /\ 1 \in 1..2 /\ 0 \in 0..MaxEvents
    BY WindowAssumed DEF V!WindowAssumption
  <1>2. V!NoJob \in [chain : 0..2, base : 0..2, reads : SUBSET {"base", "atlas"}]
    BY <1>1 DEF V!NoJob
  <1>3. chain \in [id : 1..2, size : Sizes]
    BY <1>1 DEF V!Init
  <1>4. base \in [id : 0..2, size : Contents, image : BOOLEAN, whole : BOOLEAN]
    BY <1>1 DEF V!Init
  <1>5. Sized
    BY <1>1, <1>2, <1>3, <1>4 DEF V!Init, Sized, Stages
  <1>6. Kept
    BY DEF V!Init, Kept, V!Idle
  <1>7. Fenced
    BY DEF V!Init, Fenced, V!Idle
  <1> QED BY <1>5, <1>6, <1>7 DEF WindowInv

\* It implies what a present promises.
LEMMA WindowSafe == WindowInv => V!VulkanSafe
  BY DEF WindowInv, Sized, Kept, Fenced, V!VulkanSafe, V!TypeOK, V!Safe

\* A new object is never the one it replaces, nor none.
LEMMA FreshIs == \A i : V!Fresh(i) \in 1..2
  BY DEF V!Fresh

\* An event within the bound is counted within it.
LEMMA SpentIn ==
  ASSUME events \in 0..MaxEvents, events < MaxEvents
  PROVE  events + 1 \in 0..MaxEvents
  BY WindowAssumed DEF V!WindowAssumption

\* Every call of a present, and whatever window and GPU do between two, keeps it.
LEMMA WindowSteps ==
  ASSUME Survived, WindowInv, [V!Next]_(V!vars)
  PROVE  WindowInv'
  <1> USE DEF WindowInv
  <1>1. ASSUME NEW z \in Sizes, V!Resize(z) PROVE WindowInv'
    BY <1>1, SpentIn DEF V!Resize, Sized, Kept, Fenced, V!Idle
  <1>2. CASE V!GpuDone
    BY <1>2 DEF V!GpuDone, Sized, Kept, Fenced, V!Idle, V!NoJob
  <1>3. ASSUME NEW c \in Contents, NEW s \in BOOLEAN, V!Begin(c, s) PROVE WindowInv'
    BY <1>3 DEF V!Begin, Sized, Kept, Fenced, V!Idle, Stages
  <1>4. CASE V!Ensure
    <2>1. at = "base" /\ UNCHANGED <<content, scene, window, asked, chain, targets, fence, taken, job, shown>>
      BY <1>4 DEF V!Ensure
    <2>2. CASE base.image /\ base.size = content /\ at' = "copy" /\ UNCHANGED <<base, bound, events>>
      BY <2>1, <2>2 DEF Sized, Kept, Fenced, V!Idle, Stages
    <2>3. CASE /\ V!Idle /\ at' = "copy" /\ UNCHANGED events /\ bound' = V!Bound(base')
               /\ base' = [id |-> V!Fresh(base.id), size |-> content, image |-> TRUE, whole |-> TRUE]
      <3>1. PICK i \in 0..2 : i = V!Fresh(base.id)
        BY FreshIs
      <3>2. /\ base' \in [id : 0..2, size : Contents, image : BOOLEAN, whole : BOOLEAN]
            /\ base'.image /\ base'.whole /\ base'.size = content
        BY <2>3, <3>1 DEF Sized
      <3>3. Sized'
        BY <2>1, <2>3, <3>2 DEF Sized, Stages
      <3>4. Kept'
        BY <2>1, <2>3, <3>2 DEF Kept, V!Idle, V!Bound
      <3>5. Fenced'
        BY <2>1, <2>3 DEF Fenced, V!Idle
      <3> QED BY <3>3, <3>4, <3>5
    <2>4. CASE /\ V!Idle /\ at' = "idle" /\ events' = events + 1 /\ V!Fails("image")
               /\ base' = [id |-> V!Fresh(base.id), size |-> content, image |-> FALSE, whole |-> FALSE]
      <3>1. PICK i \in 0..2 : i = V!Fresh(base.id)
        BY FreshIs
      <3>2. /\ base' \in [id : 0..2, size : Contents, image : BOOLEAN, whole : BOOLEAN]
            /\ ~base'.image
        BY <2>4, <3>1 DEF Sized
      <3>3. events' \in 0..MaxEvents
        BY <2>4, SpentIn DEF V!Fails, Sized
      <3>4. Sized'
        BY <2>1, <2>4, <3>2, <3>3 DEF Sized, Stages
      <3>5. Kept'
        BY <2>1, <2>4, <3>2 DEF Kept, V!Idle
      <3>6. Fenced'
        BY <2>1, <2>4 DEF Fenced, V!Idle
      <3> QED BY <3>4, <3>5, <3>6
    <2>5. ~V!Fails("memory")
      BY DEF V!Fails, Survived
    <2> QED BY <1>4, <2>2, <2>3, <2>4, <2>5 DEF V!Ensure
  <1>5. CASE V!Copy
    BY <1>5 DEF V!Copy, Sized, Kept, Fenced, V!Idle, Stages
  <1>6. CASE V!CheckResize
    BY <1>6 DEF V!CheckResize, Sized, Kept, Fenced, V!Idle, Stages
  <1>7. CASE V!Rebuild
    <2>1. /\ at \in {"rebuildThenWait", "rebuild"} /\ V!Idle /\ at' \in {"wait", "idle"}
          /\ UNCHANGED <<content, scene, window, asked, base, bound, fence, taken, job, shown, events>>
      BY <1>7 DEF V!Rebuild, V!Fails, Survived, V!After
    <2>2. PICK z \in {asked, window} : chain' = [id |-> V!Fresh(chain.id), size |-> z] /\ targets' = chain'
      BY <1>7 DEF V!Rebuild, V!Fails, Survived
    <2>3. chain' \in [id : 1..2, size : Sizes]
      BY <2>2, FreshIs DEF Sized
    <2>4. Sized'
      BY <2>1, <2>3 DEF Sized, Stages
    <2>5. Kept'
      BY <2>1, <2>2 DEF Kept, V!Idle
    <2>6. Fenced'
      BY <2>1 DEF Fenced, V!Idle
    <2> QED BY <2>4, <2>5, <2>6
  <1>8. CASE V!WaitFence
    BY <1>8 DEF V!WaitFence, Sized, Kept, Fenced, V!Idle, Stages
  <1>9. CASE V!Acquire
    <2>0. at = "acquire" /\ V!Idle /\ fence = TRUE /\ taken = FALSE
      BY <1>9 DEF V!Acquire, Fenced
    <2>1. Sized'
      <3>1. events' \in 0..MaxEvents
        BY <1>9, SpentIn DEF V!Acquire, V!Fails, Sized
      <3> QED BY <1>9, <3>1 DEF V!Acquire, Sized, Stages
    <2>2. Kept'
      BY <1>9 DEF V!Acquire, Kept, V!Idle
    <2>6. V!Idle'
      BY <1>9, <2>0 DEF V!Acquire, V!Idle
    <2>3. ASSUME at' = "submit", taken' = TRUE, fence' = FALSE
          PROVE  Fenced'
      BY <2>3, <2>6 DEF Fenced
    <2>4. ASSUME at' \in {"rebuild", "idle"}, UNCHANGED <<taken, fence>>
          PROVE  Fenced'
      BY <2>0, <2>4, <2>6 DEF Fenced
    <2>5. Fenced'
      BY <1>9, <2>3, <2>4 DEF V!Acquire
    <2> QED BY <2>1, <2>2, <2>5
  <1>10. CASE V!Submit
    <2>1. ~V!Idle'
      BY <1>10 DEF V!Submit, V!Idle, V!NoJob, Kept, Sized
    <2>2. Sized'
      <3>1. job' \in [chain : 0..2, base : 0..2, reads : SUBSET {"base", "atlas"}]
        BY <1>10 DEF V!Submit, Sized, Kept
      <3> QED BY <1>10, <3>1 DEF V!Submit, Sized, Stages
    <2>3. Kept'
      BY <1>10 DEF V!Submit, Kept, Sized
    <2>5. ~fence
      BY <1>10 DEF V!Submit, Fenced
    <2>4. Fenced'
      BY <1>10, <2>1, <2>5 DEF V!Submit, Fenced
    <2> QED BY <2>2, <2>3, <2>4
  <1>11. CASE V!Queue
    BY <1>11 DEF V!Queue, Sized, Kept, Fenced, V!Idle, Stages
  <1>12. CASE UNCHANGED V!vars
    BY <1>12 DEF V!vars, Sized, Kept, Fenced, V!Idle
  <1> QED BY <1>1, <1>2, <1>3, <1>4, <1>5, <1>6, <1>7, <1>8, <1>9, <1>10, <1>11, <1>12
          DEF V!Next, V!Onward, V!Present

-----------------------------------------------------------------------------
(* The register file. *)

\* What may be written to one half of a register.
Halves == SUBSET UNION Bytes

\* Which registers have a shadow, a joined pointer, an enable word.
PortsShape ==
  /\ shadow \in [R!Regs -> [upper : Halves, lower : Halves]]
  /\ DOMAIN cached = Pointers
  /\ DOMAIN on = R!Strobes

\* A timer event is not reported while it is only pending.
CiaOK ==
  /\ cia \in [latch : 0..1, count : 0..1, running : BOOLEAN, happened : BOOLEAN, wanted : BOOLEAN]
  /\ told \in 0..1 /\ (cia.happened => told = 0)

\* What the player's hands may hold.
HandsOK == stick \subseteq R!Ways /\ fire \in BOOLEAN /\ lmb \in BOOLEAN

\* Pointers are the join of their halves, and a byte write touches the bits of its half only.
RegsOK == PortsShape /\ R!PointersJoined /\ R!ByteTouchesItsHalf

\* The beam is in the frame.
BeamOK == line \in 0..LastLine

\* The inductive invariant of the register file.
PortsInv == RegsOK /\ CiaOK /\ HandsOK /\ BeamOK

\* The decode of JOYxDAT finds the directions held, for every set of them.
LEMMA SticksDecode == ASSUME HandsOK PROVE R!StickDecodes
  <1> DEFINE l == "left" \in stick  r == "right" \in stick  u == "up" \in stick  d == "down" \in stick
             D(w) == CASE w = "right" -> R!Quadrature.b1 [] w = "left" -> R!Quadrature.b9
                                           [] w = "down" -> R!Xor(R!Quadrature.b0, R!Quadrature.b1)
                                           [] w = "up" -> R!Xor(R!Quadrature.b8, R!Quadrature.b9)
  <1>1. R!Quadrature.b1 = r /\ R!Quadrature.b9 = l /\ R!Quadrature.b0 = (d # r) /\ R!Quadrature.b8 = (u # l)
    BY DEF R!Quadrature, R!Xor
  <1>2. D("right") = r /\ D("left") = l /\ D("down") = d /\ D("up") = u
    BY <1>1 DEF R!Xor
  <1>3. \A w \in R!Ways : D(w) <=> w \in stick
    BY <1>2 DEF R!Ways
  <1> HIDE DEF D
  <1>4. stick = {w \in R!Ways : D(w)}
    BY <1>3 DEF HandsOK
  <1> QED BY <1>4 DEF R!StickDecodes, D

\* VPOSR's bit and VHPOSR's byte give back the line, for every frame of less than two times LineMod lines.
LEMMA BeamReads == ASSUME BeamOK PROVE R!BeamDecodes
  <1>1. LineMod \in Nat /\ LastLine \in Int /\ LineMod <= LastLine /\ LastLine <= 2 * LineMod - 1
    BY PortsAssumed DEF R!PortsAssumption
  <1>2. line \in Nat /\ line < 2 * LineMod
    BY <1>1 DEF BeamOK
  <1>3. CASE line < LineMod
    <2>1. line \div LineMod = 0 /\ line % LineMod = line
      BY <1>1, <1>2, <1>3
    <2> QED BY <1>1, <1>2, <2>1 DEF R!BeamDecodes, R!Vposr, R!Vhposr
  <1>4. CASE line >= LineMod
    <2>1. line \div LineMod = 1 /\ line % LineMod = line - LineMod
      BY <1>1, <1>2, <1>4
    <2> QED BY <1>1, <1>2, <2>1 DEF R!BeamDecodes, R!Vposr, R!Vhposr
  <1> QED BY <1>1, <1>2, <1>3, <1>4

\* The fire loop ends when the button is up.
LEMMA FireReads == ASSUME HandsOK PROVE R!FireLoopAgrees
  BY DEF HandsOK, R!FireLoopAgrees, R!FireWaitEnds, R!Pra

\* The invariant implies what guest code may suppose of its registers.
LEMMA PortsSafe == PortsInv => R!Coherent
  <1> SUFFICES ASSUME PortsInv PROVE R!Coherent
    OBVIOUS
  <1>1. R!TypeOK
    BY DEF PortsInv, RegsOK, PortsShape, CiaOK, HandsOK, BeamOK, R!TypeOK
  <1>2. R!ReportedOnce
    BY DEF PortsInv, CiaOK, R!ReportedOnce
  <1> QED BY <1>1, <1>2, SticksDecode, BeamReads, FireReads DEF PortsInv, RegsOK, R!Coherent

\* It holds at power-on.
LEMMA PortsStart == R!Init => PortsInv
  <1> SUFFICES ASSUME R!Init PROVE PortsInv
    OBVIOUS
  <1>1. RegsOK
    <2>1. [upper |-> {}, lower |-> {}] \in [upper : Halves, lower : Halves]
      BY DEF Halves
    <2>2. PortsShape
      BY <2>1 DEF R!Init, PortsShape
    <2>3. \A r \in R!Regs : shadow[r] = [upper |-> {}, lower |-> {}]
      BY DEF R!Init
    <2>4. \A r \in R!Strobes : on[r] = {} /\ ~(SetBit \in shadow[r].upper)
      BY <2>3 DEF R!Init, R!Regs
    <2>5. R!ByteTouchesItsHalf
      BY <2>4 DEF R!ByteTouchesItsHalf
    <2>6. R!PointersJoined
      BY DEF R!Init, R!PointersJoined
    <2> QED BY <2>2, <2>5, <2>6 DEF RegsOK
  <1>2. CiaOK /\ HandsOK
    <2>1. 0 \in 0..1
      OBVIOUS
    <2>2. cia \in [latch : 0..1, count : 0..1, running : BOOLEAN, happened : BOOLEAN, wanted : BOOLEAN]
      BY <2>1 DEF R!Init
    <2> QED BY <2>1, <2>2 DEF R!Init, CiaOK, HandsOK
  <1>3. BeamOK
    BY PortsAssumed DEF R!Init, BeamOK, R!PortsAssumption
  <1> QED BY <1>1, <1>2, <1>3 DEF PortsInv

\* The set/clear bit decides whether a word's bits are all on or all off.
LEMMA SetOrCleared ==
  ASSUME NEW w, NEW was, NEW is, is = R!Strobed(was, w)
  PROVE  IF SetBit \in w.upper THEN R!Named(w) \subseteq is ELSE R!Named(w) \cap is = {}
  BY DEF R!Strobed

\* A write of a word keeps every pointer joined and every other register's bits.
LEMMA WriteKeeps ==
  ASSUME RegsOK, NEW r \in R!Regs, NEW w \in [upper : Halves, lower : Halves], R!WriteWord(r, w)
  PROVE  RegsOK'
  <1>1. shadow' = [shadow EXCEPT ![r] = w] /\ shadow' \in [R!Regs -> [upper : Halves, lower : Halves]]
    BY DEF R!WriteWord, RegsOK, PortsShape
  <1>2. shadow'[r] = w /\ \A q \in R!Regs : q # r => shadow'[q] = shadow[q]
    BY <1>1 DEF RegsOK, PortsShape
  <1>3. CASE r \in R!Strobes
    <2>1. on' = [on EXCEPT ![r] = R!Strobed(on[r], w)] /\ cached' = cached
      BY <1>3 DEF R!WriteWord
    <2>2. on'[r] = R!Strobed(on[r], w) /\ DOMAIN on' = R!Strobes /\ \A q \in R!Strobes : q # r => on'[q] = on[q]
      BY <1>3, <2>1 DEF RegsOK, PortsShape
    <2>3. PICK is : is = on'[r]
      OBVIOUS
    <2>4. IF SetBit \in w.upper THEN R!Named(w) \subseteq on'[r] ELSE R!Named(w) \cap on'[r] = {}
      BY <2>2, SetOrCleared
    <2>5. ASSUME NEW q \in R!Strobes
          PROVE  IF SetBit \in shadow'[q].upper THEN R!Named(shadow'[q]) \subseteq on'[q]
                 ELSE R!Named(shadow'[q]) \cap on'[q] = {}
      BY <1>2, <2>2, <2>4 DEF RegsOK, R!ByteTouchesItsHalf, R!Regs
    <2>6. R!ByteTouchesItsHalf'
      BY <2>5 DEF R!ByteTouchesItsHalf
    <2>7. \A p \in Pointers : r # <<p, "high">> /\ r # <<p, "low">>
      BY <1>3 DEF R!Strobes
    <2>8. \A p \in Pointers : <<p, "high">> \in R!Regs /\ <<p, "low">> \in R!Regs
      BY DEF R!Regs
    <2>9. ASSUME NEW p \in Pointers PROVE cached'[p] = <<shadow'[<<p, "high">>], shadow'[<<p, "low">>]>>
      BY <1>2, <2>1, <2>7, <2>8 DEF RegsOK, R!PointersJoined, R!Join
    <2>10. R!PointersJoined'
      BY <2>9 DEF R!PointersJoined, R!Join
    <2> QED BY <1>1, <2>1, <2>2, <2>6, <2>10 DEF RegsOK, PortsShape
  <1>4. CASE r \notin R!Strobes
    <2>1. cached' = [cached EXCEPT ![r[1]] = R!Join(shadow', r[1])] /\ on' = on
      BY <1>4 DEF R!WriteWord, R!Refreshed
    <2>2. R!ByteTouchesItsHalf'
      <3>1. ASSUME NEW q \in R!Strobes PROVE shadow'[q] = shadow[q]
        BY <1>2, <1>4 DEF R!Regs
      <3> QED BY <2>1, <3>1 DEF RegsOK, R!ByteTouchesItsHalf
    <2>3. PICK p \in Pointers, h \in {"high", "low"} : r = <<p, h>>
      BY <1>4 DEF R!Regs
    <2>4. cached'[p] = R!Join(shadow', p) /\ \A q \in Pointers : q # p => cached'[q] = cached[q]
      BY <2>1, <2>3 DEF RegsOK, PortsShape
    <2>5. ASSUME NEW q \in Pointers, q # p PROVE R!Join(shadow', q) = R!Join(shadow, q)
      <3>1. <<q, "high">> \in R!Regs /\ <<q, "low">> \in R!Regs /\ <<q, "high">> # r /\ <<q, "low">> # r
        BY <2>3, <2>5 DEF R!Regs
      <3> QED BY <1>2, <3>1 DEF R!Join
    <2>6. ASSUME NEW q \in Pointers PROVE cached'[q] = R!Join(shadow', q)
      BY <2>4, <2>5 DEF RegsOK, R!PointersJoined
    <2>7. R!PointersJoined'
      BY <2>6 DEF R!PointersJoined
    <2> QED BY <1>1, <2>1, <2>2, <2>7 DEF RegsOK, PortsShape
  <1> QED BY <1>3, <1>4

\* So do word writes, byte writes and a load of a savestate.
LEMMA RegistersKeep ==
  ASSUME RegsOK, R!Registers
  PROVE  RegsOK' /\ UNCHANGED <<cia, told, R!hands, line>>
  <1>1. CASE R!Word
    <2>1. PICK r \in R!Regs, u \in Bytes, l \in Bytes :
            R!WriteWord(r, [upper |-> u, lower |-> l]) /\ UNCHANGED <<cia, told, R!hands, line>>
      BY <1>1 DEF R!Word
    <2>2. [upper |-> u, lower |-> l] \in [upper : Halves, lower : Halves]
      BY DEF Halves
    <2> QED BY <2>1, <2>2, WriteKeeps
  <1>2. CASE R!Byte
    <2>1. PICK r \in R!Regs, b \in Bytes, half \in {"upper", "lower"} :
            R!WriteWord(r, [shadow[r] EXCEPT ![half] = b]) /\ UNCHANGED <<cia, told, R!hands, line>>
      BY <1>2 DEF R!Byte
    <2>2. shadow[r] \in [upper : Halves, lower : Halves] /\ b \in Halves
      BY DEF RegsOK, PortsShape, Halves
    <2>3. [shadow[r] EXCEPT ![half] = b] \in [upper : Halves, lower : Halves]
      <3>1. CASE half = "upper"
        BY <2>2, <3>1
      <3>2. CASE half = "lower"
        BY <2>2, <3>2
      <3> QED BY <3>1, <3>2
    <2> QED BY <2>1, <2>3, WriteKeeps
  <1>3. CASE R!LoadState
    <2>1. PICK w \in Bytes : /\ shadow' = [r \in R!Regs |-> [upper |-> w, lower |-> w]]
                             /\ cached' = [p \in Pointers |-> R!Join(shadow', p)]
                             /\ on' = [r \in R!Strobes |-> IF SetBit \in w THEN R!Named(shadow'[r]) ELSE {}]
                             /\ UNCHANGED <<cia, told, R!hands, line>>
      BY <1>3 DEF R!LoadState
    <2>2. [upper |-> w, lower |-> w] \in [upper : Halves, lower : Halves]
      BY DEF Halves
    <2>3. PortsShape'
      BY <2>1, <2>2 DEF PortsShape
    <2>4. ASSUME NEW q \in Pointers PROVE cached'[q] = R!Join(shadow', q)
      BY <2>1
    <2>5. R!PointersJoined'
      BY <2>4 DEF R!PointersJoined
    <2>6. \A r \in R!Strobes : shadow'[r] = [upper |-> w, lower |-> w]
      BY <2>1 DEF R!Regs
    <2>7. ASSUME NEW q \in R!Strobes
          PROVE  IF SetBit \in shadow'[q].upper THEN R!Named(shadow'[q]) \subseteq on'[q]
                 ELSE R!Named(shadow'[q]) \cap on'[q] = {}
      <3>1. on'[q] = IF SetBit \in w THEN R!Named(shadow'[q]) ELSE {}
        BY <2>1
      <3> QED BY <2>6, <3>1
    <2>8. R!ByteTouchesItsHalf'
      BY <2>7 DEF R!ByteTouchesItsHalf
    <2> QED BY <2>1, <2>3, <2>5, <2>8 DEF RegsOK
  <1> QED BY <1>1, <1>2, <1>3 DEF R!Registers

\* The timer's registers keep an event from being reported twice.
LEMMA TimerKeeps ==
  ASSUME CiaOK, R!CiaB
  PROVE  CiaOK' /\ UNCHANGED <<R!chips, R!hands, line>>
  <1>1. CASE R!TimerHigh
    <2>1. PICK n \in 0..1 : /\ R!Timer([cia EXCEPT !.latch = n, !.happened = cia.happened \/ ~cia.running])
                            /\ told' = IF cia.running \/ cia.happened THEN told ELSE 0
      BY <1>1 DEF R!TimerHigh
    <2>2. cia' = [cia EXCEPT !.latch = n, !.happened = cia.happened \/ ~cia.running]
      BY <2>1 DEF R!Timer
    <2>3. /\ cia' \in [latch : 0..1, count : 0..1, running : BOOLEAN, happened : BOOLEAN, wanted : BOOLEAN]
          /\ cia'.happened = (cia.happened \/ ~cia.running)
      BY <2>2 DEF CiaOK
    <2> QED BY <2>1, <2>3 DEF CiaOK, R!Timer
  <1>2. CASE R!TimerLow
    BY <1>2 DEF R!TimerLow, R!Timer, CiaOK
  <1>3. CASE R!TimerControl
    BY <1>3 DEF R!TimerControl, R!Timer, CiaOK
  <1>4. CASE R!TimerMask
    BY <1>4 DEF R!TimerMask, R!Timer, CiaOK
  <1>5. CASE R!ReadIcr
    <2>1. cia' = [cia EXCEPT !.happened = FALSE] /\ told' = IF cia.happened THEN told + 1 ELSE told
      BY <1>5 DEF R!ReadIcr, R!Timer
    <2>2. /\ cia' \in [latch : 0..1, count : 0..1, running : BOOLEAN, happened : BOOLEAN, wanted : BOOLEAN]
          /\ cia'.happened = FALSE
      BY <2>1 DEF CiaOK
    <2>3. told' \in 0..1
      BY <2>1 DEF CiaOK
    <2> QED BY <1>5, <2>2, <2>3 DEF R!ReadIcr, R!Timer, CiaOK
  <1> QED BY <1>1, <1>2, <1>3, <1>4, <1>5 DEF R!CiaB

\* The player and the beam.
LEMMA HandsKeep ==
  ASSUME HandsOK, BeamOK, R!Outside
  PROVE  HandsOK' /\ BeamOK' /\ UNCHANGED <<R!chips, cia, told>>
  <1>1. CASE R!Hands
    BY <1>1 DEF R!Hands, HandsOK, BeamOK
  <1>2. CASE R!Beam
    <2>1. LastLine \in Nat
      BY PortsAssumed DEF R!PortsAssumption
    <2>2. (line + 1) % (LastLine + 1) \in 0..LastLine
      BY <2>1 DEF BeamOK
    <2> QED BY <1>2, <2>2 DEF R!Beam, HandsOK, BeamOK, R!hands
  <1> QED BY <1>1, <1>2 DEF R!Outside

\* Every step of the register file keeps the invariant.
LEMMA PortsStep == ASSUME PortsInv, R!Next \/ UNCHANGED R!vars PROVE PortsInv'
  <1>1. CASE R!Registers
    BY <1>1, RegistersKeep DEF PortsInv, CiaOK, HandsOK, BeamOK, R!hands
  <1>2. CASE R!CiaB
    BY <1>2, TimerKeeps
    DEF PortsInv, R!chips, R!hands, RegsOK, PortsShape, R!PointersJoined, R!Join,
        R!ByteTouchesItsHalf, HandsOK, BeamOK
  <1>3. CASE R!Outside
    BY <1>3, HandsKeep
    DEF PortsInv, R!chips, RegsOK, PortsShape, R!PointersJoined, R!Join, R!ByteTouchesItsHalf, CiaOK
  <1>4. CASE UNCHANGED R!vars
    BY <1>4
    DEF R!vars, R!chips, R!hands, PortsInv, RegsOK, PortsShape, R!PointersJoined, R!Join,
        R!ByteTouchesItsHalf, CiaOK, HandsOK, BeamOK
  <1> QED BY <1>1, <1>2, <1>3, <1>4 DEF R!Next

-----------------------------------------------------------------------------
(* Numbers and lists. *)

\* A set of naturals that is not empty has a least element: < is well-founded on Nat.
LEMMA Least ==
  ASSUME NEW T, T \subseteq Nat, T # {}
  PROVE  \E x \in T : \A y \in T : x <= y
  <1> DEFINE Q == OpToRel(<, Nat)
  <1>1. IsWellFoundedOn(Q, Nat)
    BY NatLessThanWellFounded
  <1>2. \A x, y \in Nat : x < y => <<x, y>> \in Q
    BY DEF OpToRel
  <1> HIDE DEF Q
  <1>3. \E x \in T : \A y \in T : ~(<<y, x>> \in Q)
    BY <1>1, WFMin
  <1>4. PICK x \in T : \A y \in T : ~(<<y, x>> \in Q)
    BY <1>3
  <1>5. ASSUME NEW y \in T PROVE x <= y
    <2>1. x \in Nat /\ y \in Nat
      OBVIOUS
    <2>2. ~(y < x)
      BY <1>2, <1>4, <2>1
    <2> QED BY <2>1, <2>2
  <1> QED BY <1>5

\* Induction over Nat, for a set: the library's theorem takes an operator, which the provers cannot
\* instantiate; a set they can.
LEMMA Induction ==
  ASSUME NEW S, 0 \in S, \A n \in Nat : n \in S => n + 1 \in S
  PROVE  Nat \subseteq S
  <1>1. SUFFICES ASSUME Nat \ S # {} PROVE FALSE
    OBVIOUS
  <1>2. PICK x \in Nat \ S : \A y \in Nat \ S : x <= y
    BY <1>1, Least
  <1>3. x # 0
    OBVIOUS
  <1>4. x - 1 \in Nat /\ ~(x <= x - 1)
    BY <1>3
  <1>5. x - 1 \in S
    BY <1>2, <1>4
  <1>6. (x - 1) + 1 = x
    OBVIOUS
  <1> QED BY <1>4, <1>5, <1>6

\* h takes D to D. An operator of its own, for the provers to match.
Within(h, D) == h \in [D -> D]

\* f lists a, h[a], h[h[a]] .. up to the m-th: what a LET-recursive function of the models is.
IsIterate(f, D, a, h, m) ==
  f \in [0..m -> D] /\ \A k \in 0..m : f[k] = IF k = 0 THEN a ELSE h[f[k - 1]]

\* There is such an f, for every m.
LEMMA Iterates ==
  ASSUME NEW D, NEW a \in D, NEW h, Within(h, D), NEW m \in Nat
  PROVE  \E f : IsIterate(f, D, a, h, m)
  <1> USE DEF Within, IsIterate
  <1> DEFINE Is(f, n) == f \in [0..n -> D] /\ \A k \in 0..n : f[k] = IF k = 0 THEN a ELSE h[f[k - 1]]
             S == {n \in Nat : \E f : Is(f, n)}
  <1>1. 0 \in S
    <2>1. Is([k \in 0..0 |-> a], 0)
      OBVIOUS
    <2> QED BY <2>1
  <1>2. ASSUME NEW n \in Nat, n \in S PROVE n + 1 \in S
    <2>1. PICK f : Is(f, n)
      BY <1>2
    <2>2. PICK g : g = [k \in 0..n + 1 |-> IF k = n + 1 THEN h[f[n]] ELSE f[k]]
      OBVIOUS
    <2>3. ASSUME NEW k \in 0..n + 1 PROVE g[k] \in D /\ g[k] = IF k = 0 THEN a ELSE h[g[k - 1]]
      BY <2>1, <2>2
    <2>4. g \in [0..n + 1 -> D]
      BY <2>2, <2>3
    <2>5. Is(g, n + 1)
      BY <2>3, <2>4
    <2> HIDE DEF Is
    <2> QED BY <2>5
  <1> HIDE DEF S
  <1>3. Nat \subseteq S
    BY <1>1, <1>2, Induction
  <1> USE DEF S
  <1> QED BY <1>3

-----------------------------------------------------------------------------
(* Paula. *)

\* A byte is heard for a sample at least.
LEMMA StepIsLong == \A per \in Nat : P!Step(per) \in Nat /\ P!Step(per) >= Rate
  <1> SUFFICES ASSUME NEW per \in Nat PROVE P!Step(per) \in Nat /\ P!Step(per) >= Rate
    OBVIOUS
  <1>1. Rate \in Nat /\ Rate > 0
    BY PaulaAssumed DEF P!PaulaAssumption
  <1>2. PICK p \in Nat : p = (IF per > 0 THEN per ELSE 1) /\ p >= 1
    OBVIOUS
  <1>3. p * Rate = (p - 1) * Rate + Rate /\ (p - 1) * Rate >= 0
    BY <1>1, <1>2
  <1> QED BY <1>1, <1>2, <1>3 DEF P!Step

\* How often a loop may turn is a number.
LEMMA TurnsIn ==
  ASSUME NEW d, d.tick \in Nat
  PROVE  P!Turns(d) \in Nat
  BY PaulaAssumed DEF P!PaulaAssumption, P!Turns

\* What the voice may play.
Effects == Sounds \cup {P!NoSound}
\* What the voice may be.
Voices == [on : BOOLEAN, ptr : Nat, rem : Nat, tick : Nat, of : Effects, first : BOOLEAN]

\* The fields of a sound are numbers.
LEMMA EffectsIn == \A d \in Effects : {d.base, d.len, d.loop, d.again, d.per} \subseteq Nat
  BY PaulaAssumed DEF P!PaulaAssumption, Effects, P!NoSound

\* A sounding voice has bytes left, and ends where its sound or the sound's loop ends.
Inside(v) == v.on => v.rem > 0 /\ v.ptr + v.rem \in {v.of.base + v.of.len, v.of.loop + v.of.again}

\* The voices that are so.
Playing == {v \in Voices : Inside(v)}

\* How much of a sound's first pass has been heard, in units of time.
Ended(v) == (v.of.len - v.rem) * P!Step(v.of.per) + v.tick

\* A byte taken keeps the voice inside its sound, and what was heard of it is what was due.
LEMMA VoiceTurnKeeps ==
  ASSUME NEW v \in Playing
  PROVE  /\ P!VoiceTurn(v) \in Playing /\ P!VoiceTurn(v).of = v.of
         /\ P!VoiceTurn(v).on => v.on
         /\ P!FirstPass(P!VoiceTurn(v)) => P!FirstPass(v) /\ Ended(P!VoiceTurn(v)) = Ended(v)
  <1> DEFINE s == P!Step(v.of.per)
  <1>1. v \in Voices /\ Inside(v) /\ {v.of.base, v.of.len, v.of.loop, v.of.again, v.of.per} \subseteq Nat
    BY EffectsIn DEF Playing, Voices
  <1>2. s \in Nat
    BY <1>1, StepIsLong
  <1>3. CASE ~v.on \/ v.tick < s
    BY <1>3 DEF P!VoiceTurn
  <1>4. ASSUME v.on, ~(v.tick < s)
        PROVE  /\ P!VoiceTurn(v) \in Playing /\ P!VoiceTurn(v).of = v.of
               /\ P!VoiceTurn(v).on => v.on
               /\ P!FirstPass(P!VoiceTurn(v)) => P!FirstPass(v) /\ Ended(P!VoiceTurn(v)) = Ended(v)
    <2> HIDE DEF s
    <2>1. v.tick - s \in Nat /\ v.ptr + 1 \in Nat /\ v.rem - 1 \in Nat /\ v.rem > 0
      BY <1>1, <1>2, <1>4 DEF Voices, Inside
    <2>2. P!VoiceByte(v) = [v EXCEPT !.tick = v.tick - s, !.ptr = v.ptr + 1, !.rem = v.rem - 1]
      BY DEF P!VoiceByte, s
    <2>3. CASE v.rem > 1
      <3>1. P!VoiceTurn(v) = [v EXCEPT !.tick = v.tick - s, !.ptr = v.ptr + 1, !.rem = v.rem - 1]
        BY <1>4, <2>2, <2>3 DEF P!VoiceTurn, s
      <3>2. PICK w : w = P!VoiceTurn(v)
        OBVIOUS
      <3>3. /\ w \in Voices /\ w.of = v.of /\ w.on = v.on /\ w.first = v.first
            /\ w.tick = v.tick - s /\ w.ptr = v.ptr + 1 /\ w.rem = v.rem - 1
        BY <1>1, <2>1, <3>1, <3>2 DEF Voices
      <3>4. w.ptr + w.rem = v.ptr + v.rem /\ w.rem > 0
        BY <1>1, <2>3, <3>3 DEF Voices
      <3>5. w \in Playing
        BY <1>1, <1>4, <3>3, <3>4 DEF Playing, Inside
      <3>6. (v.of.len - w.rem) * s = (v.of.len - v.rem) * s + s
        BY <1>1, <1>2, <3>3 DEF Voices
      <3>7. Ended(w) = Ended(v)
        <4>1. (v.of.len - v.rem) * s \in Int
          BY <1>1, <1>2 DEF Voices
        <4> QED BY <1>1, <1>2, <3>3, <3>6, <4>1 DEF Ended, s, Voices
      <3> QED BY <3>2, <3>3, <3>5, <3>7 DEF P!FirstPass
    <2>4. CASE ~(v.rem > 1) /\ v.of.again > 0
      <3>1. P!VoiceTurn(v) = [v EXCEPT !.tick = v.tick - s, !.ptr = v.of.loop, !.rem = v.of.again, !.first = FALSE]
        BY <1>4, <2>2, <2>4 DEF P!VoiceTurn, s
      <3>2. PICK w : w = P!VoiceTurn(v)
        OBVIOUS
      <3>3. /\ w \in Voices /\ w.of = v.of /\ w.on = v.on /\ ~w.first
            /\ w.ptr = v.of.loop /\ w.rem = v.of.again
        BY <1>1, <2>1, <3>1, <3>2 DEF Voices
      <3>5. w \in Playing
        BY <1>1, <1>4, <2>4, <3>3 DEF Playing, Inside
      <3> QED BY <3>2, <3>3, <3>5 DEF P!FirstPass
    <2>5. CASE ~(v.rem > 1) /\ ~(v.of.again > 0)
      <3>1. P!VoiceTurn(v) = [v EXCEPT !.tick = v.tick - s, !.ptr = v.ptr + 1, !.rem = v.rem - 1, !.on = FALSE]
        BY <1>4, <2>2, <2>5 DEF P!VoiceTurn, s
      <3>2. PICK w : w = P!VoiceTurn(v)
        OBVIOUS
      <3>3. w \in Voices /\ w.of = v.of /\ ~w.on
        BY <1>1, <2>1, <3>1, <3>2 DEF Voices
      <3> QED BY <3>2, <3>3 DEF P!FirstPass, Playing, Inside
    <2> QED BY <2>3, <2>4, <2>5
  <1> QED BY <1>3, <1>4

\* What each turn keeps, all turns keep.
LEMMA Stays ==
  ASSUME NEW D, NEW m \in Nat, NEW g, g[0] \in D, \A k \in 1..m : g[k - 1] \in D => g[k] \in D
  PROVE  \A k \in 0..m : g[k] \in D
  <1> DEFINE S == {n \in Nat : n <= m => g[n] \in D}
  <1>1. 0 \in S
    OBVIOUS
  <1>2. ASSUME NEW n \in Nat, n \in S PROVE n + 1 \in S
    <2>1. CASE n + 1 <= m
      <3>1. n + 1 \in 1..m /\ (n + 1) - 1 = n /\ n <= m
        BY <2>1
      <3>2. g[n] \in D
        BY <1>2, <3>1
      <3>3. g[n + 1] \in D
        BY <3>1, <3>2
      <3> QED BY <3>3
    <2>2. CASE ~(n + 1 <= m)
      BY <2>2
    <2> QED BY <2>1, <2>2
  <1> HIDE DEF S
  <1>3. Nat \subseteq S
    BY <1>1, <1>2, Induction
  <1> USE DEF S
  <1> QED BY <1>3

\* A turn takes a byte's time or finds that too little is left.
LEMMA VoiceTurnSpends ==
  ASSUME NEW v \in Playing, P!VoiceTurn(v).on
  PROVE  /\ v.on
         /\ \/ v.tick < P!Step(v.of.per) /\ P!VoiceTurn(v).tick = v.tick
            \/ P!VoiceTurn(v).tick = v.tick - P!Step(v.of.per)
  <1>1. PICK s : s = P!Step(v.of.per)
    OBVIOUS
  <1>2. CASE ~v.on \/ v.tick < s
    BY <1>1, <1>2 DEF P!VoiceTurn
  <1>3. P!VoiceByte(v) = [v EXCEPT !.tick = v.tick - s, !.ptr = v.ptr + 1, !.rem = v.rem - 1]
    BY <1>1 DEF P!VoiceByte
  <1>4. CASE v.on /\ ~(v.tick < s) /\ v.rem > 1
    <2>1. P!VoiceTurn(v) = P!VoiceByte(v)
      BY <1>1, <1>4 DEF P!VoiceTurn
    <2> QED BY <1>1, <1>3, <1>4, <2>1 DEF Playing, Voices
  <1>5. CASE v.on /\ ~(v.tick < s) /\ ~(v.rem > 1) /\ v.of.again > 0
    <2>1. P!VoiceTurn(v) = [v EXCEPT !.tick = v.tick - s, !.ptr = v.of.loop, !.rem = v.of.again, !.first = FALSE]
      BY <1>1, <1>3, <1>5 DEF P!VoiceTurn
    <2> QED BY <1>1, <1>5, <2>1 DEF Playing, Voices
  <1>6. CASE v.on /\ ~(v.tick < s) /\ ~(v.rem > 1) /\ ~(v.of.again > 0)
    <2>1. P!VoiceTurn(v) = [v EXCEPT !.tick = v.tick - s, !.ptr = v.ptr + 1, !.rem = v.rem - 1, !.on = FALSE]
      BY <1>1, <1>3, <1>6 DEF P!VoiceTurn
    <2> QED BY <1>6, <2>1 DEF Playing, Voices
  <1> QED BY <1>2, <1>4, <1>5, <1>6

\* As many turns as fit in the time there is leave less than one byte's time.
LEMMA RunsOut ==
  ASSUME NEW m \in Nat, NEW g, NEW s \in Nat, s >= Rate, NEW u \in Nat, m = u \div Rate,
         \A k \in 0..m : g[k].tick \in Nat,
         g[0].tick = u,
         \A k \in 1..m : g[k].on => /\ g[k - 1].on
                                     /\ \/ g[k - 1].tick < s /\ g[k].tick = g[k - 1].tick
                                        \/ g[k].tick = g[k - 1].tick - s
  PROVE  g[m].on => g[m].tick < s
  <1>1. Rate \in Nat \ {0}
    BY PaulaAssumed DEF P!PaulaAssumption
  <1> DEFINE Down(n) == g[n].on => g[n].tick < s \/ g[n].tick + n * Rate <= u
             S == {n \in Nat : n <= m => Down(n)}
  <1>2. 0 \in S
    <2>1. 0 * Rate = 0
      BY <1>1
    <2> QED BY <2>1
  <1>3. ASSUME NEW n \in Nat, n \in S PROVE n + 1 \in S
    <2>1. SUFFICES ASSUME n + 1 <= m, g[n + 1].on PROVE g[n + 1].tick < s \/ g[n + 1].tick + (n + 1) * Rate <= u
      OBVIOUS
    <2>2. n + 1 \in 1..m /\ (n + 1) - 1 = n /\ n \in 0..m /\ n + 1 \in 0..m
      BY <2>1
    <2>3. g[n].on /\ (\/ g[n].tick < s /\ g[n + 1].tick = g[n].tick
                      \/ g[n + 1].tick = g[n].tick - s)
      BY <2>1, <2>2
    <2>4. Down(n)
      BY <1>3, <2>2
    <2>5. (n + 1) * Rate = n * Rate + Rate /\ n * Rate \in Nat
      BY <1>1
    <2>6. PICK x \in Nat, y \in Nat : x = g[n].tick /\ y = g[n + 1].tick
      BY <2>2
    <2> QED BY <1>1, <2>3, <2>4, <2>5, <2>6
  <1>4. Nat \subseteq S
    <2> HIDE DEF S
    <2> QED BY <1>2, <1>3, Induction
  <1>5. Down(m)
    BY <1>4
  <1>6. u < m * Rate + Rate /\ m * Rate \in Nat
    BY <1>1
  <1> QED BY <1>1, <1>5, <1>6

\* One sample of the voice: the turns the model allows are all that the while loop of
\* hw_audio_render makes, for less than a byte's time is left when they are over.
LEMMA VoiceSampleKeeps ==
  ASSUME NEW v \in Playing
  PROVE  /\ P!VoiceSample(v) \in Playing /\ P!VoiceSample(v).of = v.of
         /\ P!VoiceSample(v).on => v.on
         /\ P!FirstPass(P!VoiceSample(v)) => P!FirstPass(v) /\ Ended(P!VoiceSample(v)) = Ended(v) + Clock
         /\ P!VoiceSample(v).on => P!VoiceSample(v).tick < P!Step(v.of.per)
  <1>0. PICK m \in Nat : m = P!Turns(v)
    BY TurnsIn DEF Playing, Voices
  <1>1. PICK u : u = [v EXCEPT !.tick = v.tick + Clock]
    OBVIOUS
  <1>2. u \in Voices /\ u.of = v.of /\ u.on = v.on /\ u.first = v.first /\ u.tick = v.tick + Clock
        /\ u.ptr = v.ptr /\ u.rem = v.rem
    BY <1>1, PaulaAssumed DEF P!PaulaAssumption, Playing, Voices
  <1>3. u \in Playing
    BY <1>2 DEF Playing, Inside
  <1>4. Ended(u) = Ended(v) + Clock
    <2>1. (v.of.len - v.rem) * P!Step(v.of.per) \in Int
      BY EffectsIn, StepIsLong DEF Playing, Voices
    <2> QED BY <1>2, <2>1, PaulaAssumed DEF Ended, P!PaulaAssumption, Playing, Voices
  <1>5. \E f : f = [n \in 0..m |-> IF n = 0 THEN u ELSE P!VoiceTurn(f[n - 1])]
    <2>1. PICK h : h = [w \in Playing |-> P!VoiceTurn(w)]
      OBVIOUS
    <2>2. Within(h, Playing)
      BY <2>1, VoiceTurnKeeps DEF Within
    <2>6. PICK f : IsIterate(f, Playing, u, h, m)
      BY <1>3, <2>2, Iterates
    <2>3. f \in [0..m -> Playing] /\ \A k \in 0..m : f[k] = IF k = 0 THEN u ELSE h[f[k - 1]]
      BY <2>6 DEF IsIterate
    <2>4. \A k \in 0..m : f[k] = IF k = 0 THEN u ELSE P!VoiceTurn(f[k - 1])
      <3>1. ASSUME NEW k \in 0..m, k # 0 PROVE f[k - 1] \in Playing
        BY <2>3, <3>1
      <3> QED BY <2>1, <2>3, <3>1
    <2>5. f = [n \in 0..m |-> IF n = 0 THEN u ELSE P!VoiceTurn(f[n - 1])]
      BY <2>3, <2>4
    <2> QED BY <2>5
  <1> DEFINE g == CHOOSE f : f = [n \in 0..m |-> IF n = 0 THEN u ELSE P!VoiceTurn(f[n - 1])]
  <1>6. g = [n \in 0..m |-> IF n = 0 THEN u ELSE P!VoiceTurn(g[n - 1])]
    BY <1>5, Zenon
  <1>7. P!VoiceSample(v) = g[m]
    BY <1>0, <1>1 DEF P!VoiceSample
  <1> HIDE DEF g
  <1> DEFINE D == {w \in Playing : /\ w.of = v.of /\ (w.on => v.on)
                                   /\ (P!FirstPass(w) => P!FirstPass(u) /\ Ended(w) = Ended(u))}
  <1>8. g[0] \in D
    BY <1>2, <1>3, <1>6
  <1>9. ASSUME NEW k \in 1..m, g[k - 1] \in D PROVE g[k] \in D
    <2>1. g[k] = P!VoiceTurn(g[k - 1])
      BY <1>6
    <2> QED BY <1>9, <2>1, VoiceTurnKeeps
  <1>10. \A k \in 0..m : g[k] \in D
    <2> HIDE DEF D
    <2> QED BY <1>8, <1>9, Stays
  <1>11. g[m] \in D
    BY <1>10
  <1>12. P!FirstPass(u) => P!FirstPass(v)
    BY <1>2 DEF P!FirstPass
  <1>13. PICK s \in Nat : s = P!Step(v.of.per) /\ s >= Rate
    BY EffectsIn, StepIsLong DEF Playing, Voices
  <1>14. \A k \in 0..m : g[k].tick \in Nat
    BY <1>10 DEF Playing, Voices
  <1>15. ASSUME NEW k \in 1..m, g[k].on
         PROVE  /\ g[k - 1].on
                /\ \/ g[k - 1].tick < s /\ g[k].tick = g[k - 1].tick
                   \/ g[k].tick = g[k - 1].tick - s
    <2>0. k - 1 \in 0..m /\ k \in 0..m /\ k # 0
      OBVIOUS
    <2>1. g[k] = P!VoiceTurn(g[k - 1]) /\ g[k - 1] \in Playing /\ g[k - 1].of = v.of
      BY <1>6, <1>10, <2>0
    <2> QED BY <1>13, <1>15, <2>1, VoiceTurnSpends
  <1>16. g[0].tick = u.tick /\ u.tick \in Nat /\ m = u.tick \div Rate
    BY <1>0, <1>1, <1>2, <1>6, PaulaAssumed DEF P!Turns, Playing, Voices, P!PaulaAssumption
  <1>17. g[m].on => g[m].tick < s
    <2> HIDE DEF D
    <2> QED BY <1>13, <1>14, <1>15, <1>16, RunsOut
  <1> QED BY <1>4, <1>7, <1>11, <1>12, <1>13, <1>17

\* Any number of samples.
LEMMA VoiceStretchKeeps ==
  ASSUME NEW v \in Playing, NEW m \in Nat
  PROVE  /\ P!VoiceAfter(v, m) \in Playing /\ P!VoiceAfter(v, m).of = v.of
         /\ P!VoiceAfter(v, m).on => v.on
         /\ P!FirstPass(P!VoiceAfter(v, m)) => P!FirstPass(v) /\ Ended(P!VoiceAfter(v, m)) = Ended(v) + m * Clock
  <1>1. \A w \in Playing : P!VoiceOn(w) \in Playing
    BY VoiceSampleKeeps DEF P!VoiceOn
  <1>2. \E f : f = [k \in 0..m |-> IF k = 0 THEN v ELSE P!VoiceOn(f[k - 1])]
    <2>1. PICK h : h = [w \in Playing |-> P!VoiceOn(w)]
      OBVIOUS
    <2>2. Within(h, Playing)
      BY <2>1, <1>1 DEF Within
    <2>6. PICK f : IsIterate(f, Playing, v, h, m)
      BY <2>2, Iterates
    <2>3. f \in [0..m -> Playing] /\ \A k \in 0..m : f[k] = IF k = 0 THEN v ELSE h[f[k - 1]]
      BY <2>6 DEF IsIterate
    <2>4. \A k \in 0..m : f[k] = IF k = 0 THEN v ELSE P!VoiceOn(f[k - 1])
      <3>1. ASSUME NEW k \in 0..m, k # 0 PROVE f[k - 1] \in Playing
        BY <2>3, <3>1
      <3> QED BY <2>1, <2>3, <3>1
    <2>5. f = [k \in 0..m |-> IF k = 0 THEN v ELSE P!VoiceOn(f[k - 1])]
      BY <2>3, <2>4
    <2> QED BY <2>5
  <1> DEFINE g == CHOOSE f : f = [k \in 0..m |-> IF k = 0 THEN v ELSE P!VoiceOn(f[k - 1])]
  <1>3. g = [k \in 0..m |-> IF k = 0 THEN v ELSE P!VoiceOn(g[k - 1])]
    BY <1>2, Zenon
  <1>4. P!VoiceAfter(v, m) = g[m]
    BY DEF P!VoiceAfter
  <1> HIDE DEF g
  <1> DEFINE Told(n) == /\ g[n] \in Playing /\ g[n].of = v.of /\ (g[n].on => v.on)
                        /\ (P!FirstPass(g[n]) => P!FirstPass(v) /\ Ended(g[n]) = Ended(v) + n * Clock)
             S == {n \in Nat : n <= m => Told(n)}
  <1>5. Ended(v) \in Int /\ Clock \in Nat
    <2>1. (v.of.len - v.rem) * P!Step(v.of.per) \in Int
      BY EffectsIn, StepIsLong DEF Playing, Voices
    <2> QED BY <2>1, PaulaAssumed DEF P!PaulaAssumption, Ended, Playing, Voices
  <1>6. 0 \in S
    <2>1. g[0] = v /\ 0 * Clock = 0
      BY <1>3, <1>5
    <2> QED BY <1>5, <2>1
  <1>7. ASSUME NEW n \in Nat, n \in S PROVE n + 1 \in S
    <2>1. SUFFICES ASSUME n + 1 <= m PROVE Told(n + 1)
      OBVIOUS
    <2>2. g[n + 1] = P!VoiceOn(g[n])
      BY <1>3, <2>1
    <2>3. Told(n)
      BY <1>7, <2>1
    <2>4. PICK b : b = g[n]
      OBVIOUS
    <2>5. PICK c : c = P!VoiceOn(b)
      OBVIOUS
    <2>6. b \in Playing /\ c \in Playing /\ c.of = b.of /\ (c.on => b.on)
      BY <2>3, <2>4, <2>5, VoiceSampleKeeps DEF P!VoiceOn
    <2>7. P!FirstPass(c) => P!FirstPass(b) /\ Ended(c) = Ended(b) + Clock
      BY <2>4, <2>5, <2>6, VoiceSampleKeeps DEF P!VoiceOn, P!FirstPass
    <2>8. (n + 1) * Clock = n * Clock + Clock /\ n * Clock \in Int
      BY <1>5
    <2>9. P!FirstPass(c) => P!FirstPass(v) /\ Ended(c) = Ended(v) + (n + 1) * Clock
      BY <1>5, <2>3, <2>4, <2>7, <2>8
    <2>10. c.of = v.of /\ (c.on => v.on)
      BY <2>3, <2>4, <2>6
    <2> QED BY <2>2, <2>4, <2>5, <2>6, <2>9, <2>10
  <1>8. Nat \subseteq S
    <2> HIDE DEF S
    <2> QED BY <1>6, <1>7, Induction
  <1>9. Told(m)
    BY <1>8
  <1> QED BY <1>4, <1>9

(* the channels *)
\* What AUDx's registers may hold.
RegFiles == [lc : Locs \cup {0}, len : Nat, per : Nat]
\* What a channel may be.
Channels == [on : BOOLEAN, ptr : Locs \cup {0}, len : Nat, pos : Nat, tick : Nat]

\* A channel reads inside its buffer, or stands at the start of one of no length.
Reads(d) == d.on => d.pos < 2 * d.len \/ d.pos = 0

\* The channels that do.
Reading == {d \in Channels : Reads(d)}

\* A byte taken keeps a channel inside the buffer it has, the next one when this one is over.
LEMMA ChannelTurnKeeps ==
  ASSUME NEW d \in Reading, NEW r \in RegFiles
  PROVE  P!Turn(d, r) \in Reading
  <1> DEFINE s == P!Step(r.per)
  <1>1. d \in Channels /\ Reads(d) /\ s \in Nat /\ r.len \in Nat /\ r.lc \in Locs \cup {0}
    BY StepIsLong DEF Reading, RegFiles
  <1>2. CASE ~d.on \/ d.tick < s
    BY <1>2 DEF P!Turn
  <1>3. ASSUME d.on, ~(d.tick < s) PROVE P!Turn(d, r) \in Reading
    <2> HIDE DEF s
    <2>1. d.tick - s \in Nat /\ d.pos + 1 \in Nat
      BY <1>1, <1>3 DEF Channels
    <2>2. PICK c : c = P!Turn(d, r)
      OBVIOUS
    <2>3. CASE d.pos + 1 < 2 * d.len
      <3>1. c = [d EXCEPT !.tick = d.tick - s, !.pos = d.pos + 1]
        BY <1>3, <2>2, <2>3 DEF P!Turn, s
      <3>2. c \in Channels /\ c.pos = d.pos + 1 /\ c.len = d.len
        BY <1>1, <2>1, <3>1 DEF Channels
      <3> QED BY <2>2, <2>3, <3>2 DEF Reading, Reads
    <2>4. CASE ~(d.pos + 1 < 2 * d.len)
      <3>1. c = [d EXCEPT !.tick = d.tick - s, !.pos = 0, !.ptr = r.lc, !.len = r.len, !.on = r.len > 0]
        BY <1>3, <2>2, <2>4 DEF P!Turn, s
      <3>2. (r.len > 0) \in BOOLEAN
        OBVIOUS
      <3>3. c \in Channels /\ c.pos = 0
        BY <1>1, <2>1, <3>1, <3>2 DEF Channels
      <3> QED BY <2>2, <3>3 DEF Reading, Reads
    <2> QED BY <2>3, <2>4
  <1> QED BY <1>2, <1>3

\* A turn takes a byte's time or finds that too little is left.
LEMMA ChannelTurnSpends ==
  ASSUME NEW d \in Reading, NEW r \in RegFiles, P!Turn(d, r).on
  PROVE  /\ d.on
         /\ \/ d.tick < P!Step(r.per) /\ P!Turn(d, r).tick = d.tick
            \/ P!Turn(d, r).tick = d.tick - P!Step(r.per)
  <1>1. PICK s : s = P!Step(r.per)
    OBVIOUS
  <1>2. CASE ~d.on \/ d.tick < s
    BY <1>1, <1>2 DEF P!Turn
  <1>3. CASE d.on /\ ~(d.tick < s) /\ d.pos + 1 < 2 * d.len
    <2>1. P!Turn(d, r) = [d EXCEPT !.tick = d.tick - s, !.pos = d.pos + 1]
      BY <1>1, <1>3 DEF P!Turn
    <2> QED BY <1>1, <1>3, <2>1 DEF Reading, Channels
  <1>4. CASE d.on /\ ~(d.tick < s) /\ ~(d.pos + 1 < 2 * d.len)
    <2>1. P!Turn(d, r) = [d EXCEPT !.tick = d.tick - s, !.pos = 0, !.ptr = r.lc, !.len = r.len, !.on = r.len > 0]
      BY <1>1, <1>4 DEF P!Turn
    <2> QED BY <1>1, <1>4, <2>1 DEF Reading, Channels
  <1> QED BY <1>2, <1>3, <1>4

\* One sample of a channel: the turns the model allows are the whole while loop.
LEMMA ChannelSampleKeeps ==
  ASSUME NEW d \in Reading, NEW r \in RegFiles
  PROVE  P!Sample(d, r) \in Reading /\ (P!Sample(d, r).on => P!Sample(d, r).tick < P!Step(r.per))
  <1>0. PICK m \in Nat : m = P!Turns(d)
    BY TurnsIn DEF Reading, Channels
  <1>1. PICK u : u = [d EXCEPT !.tick = d.tick + Clock]
    OBVIOUS
  <1>2. u \in Channels /\ u.on = d.on /\ u.pos = d.pos /\ u.len = d.len
    BY <1>1, PaulaAssumed DEF P!PaulaAssumption, Reading, Channels
  <1>3. u \in Reading
    BY <1>2 DEF Reading, Reads
  <1>5. \E f : f = [n \in 0..m |-> IF n = 0 THEN u ELSE P!Turn(f[n - 1], r)]
    <2>1. PICK h : h = [w \in Reading |-> P!Turn(w, r)]
      OBVIOUS
    <2>2. Within(h, Reading)
      BY <2>1, ChannelTurnKeeps DEF Within
    <2>3. PICK f : IsIterate(f, Reading, u, h, m)
      BY <1>3, <2>2, Iterates
    <2>4. f \in [0..m -> Reading] /\ \A k \in 0..m : f[k] = IF k = 0 THEN u ELSE h[f[k - 1]]
      BY <2>3 DEF IsIterate
    <2>5. \A k \in 0..m : f[k] = IF k = 0 THEN u ELSE P!Turn(f[k - 1], r)
      <3>1. ASSUME NEW k \in 0..m, k # 0 PROVE f[k - 1] \in Reading
        BY <2>4, <3>1
      <3> QED BY <2>1, <2>4, <3>1
    <2>6. f = [n \in 0..m |-> IF n = 0 THEN u ELSE P!Turn(f[n - 1], r)]
      BY <2>4, <2>5
    <2> QED BY <2>6
  <1> DEFINE g == CHOOSE f : f = [n \in 0..m |-> IF n = 0 THEN u ELSE P!Turn(f[n - 1], r)]
  <1>6. g = [n \in 0..m |-> IF n = 0 THEN u ELSE P!Turn(g[n - 1], r)]
    BY <1>5, Zenon
  <1>7. P!Sample(d, r) = g[m]
    BY <1>0, <1>1 DEF P!Sample
  <1> HIDE DEF g
  <1>8. g[0] \in Reading
    BY <1>3, <1>6
  <1>9. ASSUME NEW k \in 1..m, g[k - 1] \in Reading PROVE g[k] \in Reading
    <2>1. g[k] = P!Turn(g[k - 1], r)
      BY <1>6
    <2> QED BY <1>9, <2>1, ChannelTurnKeeps
  <1>10. \A k \in 0..m : g[k] \in Reading
    BY <1>8, <1>9, Stays
  <1>11. PICK s \in Nat : s = P!Step(r.per) /\ s >= Rate
    BY StepIsLong DEF RegFiles
  <1>12. \A k \in 0..m : g[k].tick \in Nat
    BY <1>10 DEF Reading, Channels
  <1>13. ASSUME NEW k \in 1..m, g[k].on
         PROVE  /\ g[k - 1].on
                /\ \/ g[k - 1].tick < s /\ g[k].tick = g[k - 1].tick
                   \/ g[k].tick = g[k - 1].tick - s
    <2>0. k - 1 \in 0..m /\ k \in 0..m /\ k # 0
      OBVIOUS
    <2>1. g[k] = P!Turn(g[k - 1], r) /\ g[k - 1] \in Reading
      BY <1>6, <1>10, <2>0
    <2> QED BY <1>11, <1>13, <2>1, ChannelTurnSpends
  <1>14. g[0].tick = u.tick /\ u.tick \in Nat /\ m = u.tick \div Rate
    BY <1>0, <1>1, <1>2, <1>6, PaulaAssumed DEF P!Turns, Reading, Channels, P!PaulaAssumption
  <1>15. g[m].on => g[m].tick < s
    BY <1>11, <1>12, <1>13, <1>14, RunsOut
  <1> QED BY <1>7, <1>10, <1>11, <1>15

\* Any number of samples; a channel that is off stays as it is.
LEMMA ChannelStretchKeeps ==
  ASSUME NEW d \in Reading, NEW r \in RegFiles, NEW m \in Nat
  PROVE  P!Stream(d, r, m) \in Reading /\ (~d.on => P!Stream(d, r, m) = d)
  <1>1. CASE ~d.on
    BY <1>1 DEF P!Stream
  <1>2. CASE d.on /\ d.len = 0
    BY <1>2 DEF P!Stream, Reading, Channels, Reads
  <1>3. CASE d.on /\ d.len # 0
    <2>1. \A w \in Reading : P!SampleOn(w, r) \in Reading
      BY ChannelSampleKeeps DEF P!SampleOn
    <2>2. \E f : f = [k \in 0..m |-> IF k = 0 THEN d ELSE P!SampleOn(f[k - 1], r)]
      <3>1. PICK h : h = [w \in Reading |-> P!SampleOn(w, r)]
        OBVIOUS
      <3>2. Within(h, Reading)
        BY <2>1, <3>1 DEF Within
      <3>3. PICK f : IsIterate(f, Reading, d, h, m)
        BY <3>2, Iterates
      <3>4. f \in [0..m -> Reading] /\ \A k \in 0..m : f[k] = IF k = 0 THEN d ELSE h[f[k - 1]]
        BY <3>3 DEF IsIterate
      <3>5. \A k \in 0..m : f[k] = IF k = 0 THEN d ELSE P!SampleOn(f[k - 1], r)
        <4>1. ASSUME NEW k \in 0..m, k # 0 PROVE f[k - 1] \in Reading
          BY <3>4, <4>1
        <4> QED BY <3>1, <3>4, <4>1
      <3>6. f = [k \in 0..m |-> IF k = 0 THEN d ELSE P!SampleOn(f[k - 1], r)]
        BY <3>4, <3>5
      <3> QED BY <3>6
    <2> DEFINE g == CHOOSE f : f = [k \in 0..m |-> IF k = 0 THEN d ELSE P!SampleOn(f[k - 1], r)]
    <2>3. g = [k \in 0..m |-> IF k = 0 THEN d ELSE P!SampleOn(g[k - 1], r)]
      BY <2>2, Zenon
    <2>4. P!Stream(d, r, m) = g[m]
      BY <1>3 DEF P!Stream
    <2> HIDE DEF g
    <2>5. g[0] \in Reading
      BY <2>3
    <2>6. ASSUME NEW k \in 1..m, g[k - 1] \in Reading PROVE g[k] \in Reading
      <3>1. g[k] = P!SampleOn(g[k - 1], r)
        BY <2>3
      <3> QED BY <2>1, <2>6, <3>1
    <2>7. \A k \in 0..m : g[k] \in Reading
      BY <2>5, <2>6, Stays
    <2> QED BY <1>3, <2>4, <2>7
  <1> QED BY <1>1, <1>2, <1>3

(* the frame *)
\* Division by a positive number is monotonic.
LEMMA QuotientsGrow ==
  ASSUME NEW a \in Nat, NEW b \in Nat, NEW c \in Nat \ {0}, a <= b
  PROVE  a \div c <= b \div c
  <1>1. PICK q \in Nat : q = a \div c /\ c * q <= a
    OBVIOUS
  <1>2. PICK p \in Nat : p = b \div c /\ b < c * p + c
    OBVIOUS
  <1>3. CASE q <= p
    BY <1>1, <1>2, <1>3
  <1>4. CASE ~(q <= p)
    <2>1. PICK x \in Nat : q = p + 1 + x
      <3>1. q - p - 1 \in Nat /\ q = p + 1 + (q - p - 1)
        BY <1>4
      <3> QED BY <3>1
    <2>2. c * q = c * p + c + c * x /\ c * x >= 0 /\ c * p \in Int /\ c * x \in Int /\ c * q \in Int
      BY <2>1
    <2> QED BY <1>1, <1>2, <2>2
  <1> QED BY <1>3, <1>4

\* The pieces of an audio frame follow one another from its start to its end, whatever the rate and the tick.
LEMMA Pieces ==
  /\ P!PieceEnd(0) = 0 /\ P!PieceEnd(Ticks) = Frame
  /\ \A k \in 0..Ticks : P!PieceEnd(k) \in 0..Frame
  /\ \A k \in 0..Ticks : k < Ticks => P!PieceEnd(k + 1) - P!PieceEnd(k) \in Nat
  <1>1. Frame \in Nat /\ Ticks \in Nat \ {0}
    BY PaulaAssumed DEF P!PaulaAssumption
  <1>2. P!PieceEnd(0) = 0
    BY <1>1 DEF P!PieceEnd
  <1>3. (Frame * Ticks) \div Ticks = Frame
    <2>1. PICK n \in Nat : n = Frame * Ticks
      BY <1>1
    <2>2. n = Ticks * Frame + 0
      BY <1>1, <2>1
    <2> QED BY <1>1, <2>1, <2>2
  <1>4. ASSUME NEW k \in 0..Ticks
        PROVE  /\ P!PieceEnd(k) \in 0..Frame
               /\ k < Ticks => P!PieceEnd(k + 1) - P!PieceEnd(k) \in Nat
    <2>1. PICK a \in Nat : a = Frame * k
      BY <1>1
    <2>2. a \div Ticks \in Nat
      BY <1>1, <2>1
    <2>3. a <= Frame * Ticks /\ Frame * Ticks \in Nat
      <3>1. Frame * Ticks = Frame * k + Frame * (Ticks - k) /\ Frame * (Ticks - k) >= 0
        BY <1>1
      <3> QED BY <1>1, <2>1, <3>1
    <2>4. a \div Ticks <= Frame
      BY <1>1, <1>3, <2>3, QuotientsGrow
    <2>5. ASSUME k < Ticks PROVE P!PieceEnd(k + 1) - P!PieceEnd(k) \in Nat
      <3>1. PICK b \in Nat : b = Frame * (k + 1)
        BY <1>1
      <3>2. b = a + Frame
        BY <1>1, <2>1, <3>1
      <3>3. a \div Ticks <= b \div Ticks
        BY <1>1, <3>2, QuotientsGrow
      <3>4. b \div Ticks \in Nat
        BY <1>1
      <3> QED BY <2>1, <2>2, <3>1, <3>3, <3>4 DEF P!PieceEnd
    <2> QED BY <1>1, <2>1, <2>2, <2>4, <2>5 DEF P!PieceEnd
  <1> QED BY <1>2, <1>3, <1>4 DEF P!PieceEnd

\* A channel reads where it may; one that DMACON has stopped is silent.
ChannelsOK == /\ reg \in [Chans -> RegFiles] /\ dma \in [Chans -> Reading]
              /\ stopped \subseteq Chans /\ P!StoppedIsSilent

\* The voice is inside its sound, the engine's flag speaks of it, and what was heard of it is what was due.
VoiceOK == /\ voice \in Playing /\ flag \in BOOLEAN /\ loaded \in BOOLEAN
           /\ effects \in 0..MaxSounds /\ heard \in Nat
           /\ P!VoiceIsEffect /\ (P!FirstPass(voice) => heard * Clock = Ended(voice))

\* What is rendered of the frame is what the ticks so far make due, and the queue holds one frame too many at most.
FrameOK == tick \in 0..Ticks /\ done = P!PieceEnd(tick) /\ buffered \in 0..MaxQueued + 1

\* The inductive invariant of the sound: P!Sound asks where the voice has got to in its sound, which
\* follows from its having taken every byte in turn (Inside, Ended).
PaulaInv == ChannelsOK /\ VoiceOK /\ FrameOK

\* It implies what is promised of the sound.
LEMMA PaulaSafe == PaulaInv => P!Sound
  <1> SUFFICES ASSUME PaulaInv PROVE P!Sound
    OBVIOUS
  <1>1. P!TypeOK
    <2>1. \A ch \in Chans : dma[ch].on \in BOOLEAN /\ dma[ch].tick \in Nat
      BY DEF PaulaInv, ChannelsOK, Reading, Channels
    <2>2. voice.on \in BOOLEAN
      BY DEF PaulaInv, VoiceOK, Playing, Voices
    <2>3. tick \in 0..Ticks /\ done \in 0..Frame
      BY Pieces DEF PaulaInv, FrameOK
    <2> QED BY <2>1, <2>2, <2>3 DEF PaulaInv, ChannelsOK, VoiceOK, P!TypeOK
  <1>2. P!ReadsInside
    BY DEF PaulaInv, ChannelsOK, VoiceOK, Reading, Reads, Playing, Inside, P!ReadsInside
  <1>3. P!PitchIsExact
    BY DEF PaulaInv, VoiceOK, Ended, P!PitchIsExact
  <1>4. P!QueueBounded
    BY Pieces, PaulaAssumed DEF PaulaInv, FrameOK, P!QueueBounded, P!PaulaAssumption
  <1> QED BY <1>1, <1>2, <1>3, <1>4 DEF PaulaInv, ChannelsOK, VoiceOK, P!Sound

\* It holds of silence.
LEMMA PaulaStarts == P!Init => PaulaInv
  <1> SUFFICES ASSUME P!Init PROVE PaulaInv
    OBVIOUS
  <1>1. ChannelsOK
    <2>1. [lc |-> 0, len |-> 0, per |-> 0] \in RegFiles
      BY DEF RegFiles
    <2>2. [on |-> FALSE, ptr |-> 0, len |-> 0, pos |-> 0, tick |-> 0] \in Reading
      BY DEF Reading, Reads, Channels
    <2> QED BY <2>1, <2>2 DEF P!Init, ChannelsOK, P!StoppedIsSilent
  <1>2. VoiceOK
    <2>1. P!Silent \in Playing /\ ~P!Silent.on
      BY DEF P!Silent, Playing, Inside, Voices, Effects, P!NoSound
    <2>2. voice \in Playing /\ ~voice.on
      BY <2>1 DEF P!Init
    <2>3. ~P!FirstPass(voice) /\ P!VoiceIsEffect
      BY <2>2 DEF P!FirstPass, P!VoiceIsEffect
    <2>4. flag \in BOOLEAN /\ loaded \in BOOLEAN /\ effects \in 0..MaxSounds /\ heard \in Nat
      <3>1. flag = FALSE /\ loaded = FALSE /\ effects = 0 /\ heard = 0
        BY DEF P!Init
      <3>2. MaxSounds \in Nat
        BY PaulaAssumed DEF P!PaulaAssumption
      <3>3. effects \in 0..MaxSounds
        BY <3>1, <3>2
      <3>4. flag \in BOOLEAN /\ loaded \in BOOLEAN
        BY <3>1
      <3> QED BY <3>1, <3>3, <3>4
    <2> QED BY <2>2, <2>3, <2>4 DEF VoiceOK
  <1>3. FrameOK
    BY Pieces, PaulaAssumed DEF P!Init, FrameOK, P!PaulaAssumption
  <1> QED BY <1>1, <1>2, <1>3 DEF PaulaInv

\* What keeps an effect's part is unchanged keeps its facts.
LEMMA EffectKept == ASSUME VoiceOK, UNCHANGED P!effect PROVE VoiceOK'
  BY DEF P!effect, VoiceOK, P!VoiceIsEffect, P!FirstPass, Ended

\* The channels' part on the channels'.
LEMMA ChannelsKept == ASSUME ChannelsOK, UNCHANGED <<reg, dma, stopped>> PROVE ChannelsOK'
  BY DEF ChannelsOK, P!StoppedIsSilent

\* The frame's part on the frame's.
LEMMA FrameKept == ASSUME FrameOK, UNCHANGED P!frame PROVE FrameOK'
  BY DEF P!frame, FrameOK

\* A channel that starts stands at the start of its buffer.
LEMMA StartedIn ==
  ASSUME NEW ch, NEW r \in RegFiles
  PROVE  P!Started(ch, r) \in Reading
  BY DEF P!Started, Reading, Reads, Channels, RegFiles

\* A channel set anew, of which DMACON no longer says it is stopped, keeps the channels' part.
LEMMA ChannelKeeps ==
  ASSUME ChannelsOK, NEW ch \in Chans, NEW d \in Reading,
         dma' = [dma EXCEPT ![ch] = d], stopped' = stopped \ {ch}, reg' \in [Chans -> RegFiles]
  PROVE  ChannelsOK'
  BY DEF ChannelsOK, P!StoppedIsSilent

\* DMACON clearing channels keeps it.
LEMMA ClearKeeps ==
  ASSUME ChannelsOK, NEW which \in SUBSET Chans, P!Cleared(which), UNCHANGED reg
  PROVE  ChannelsOK'
  <1>1. dma' = [ch \in Chans |-> IF ch \in which THEN [dma[ch] EXCEPT !.on = FALSE] ELSE dma[ch]]
    BY DEF P!Cleared
  <1>2. ASSUME NEW ch \in Chans
        PROVE  dma'[ch] \in Reading /\ (ch \in which => ~dma'[ch].on) /\ (ch \notin which => dma'[ch] = dma[ch])
    BY <1>1 DEF ChannelsOK, Reading, Reads, Channels
  <1>3. dma' \in [Chans -> Reading]
    BY <1>1, <1>2
  <1> QED BY <1>2, <1>3 DEF P!Cleared, ChannelsOK, P!StoppedIsSilent

\* Every register write, effect, sample, tick and load keeps the invariant.
LEMMA PaulaSteps == ASSUME PaulaInv, P!Next \/ UNCHANGED P!vars PROVE PaulaInv'
  <1>0. ChannelsOK /\ VoiceOK /\ FrameOK
    BY DEF PaulaInv
  <1>1. CASE P!WritesPointer
    <2>1. PICK ch \in Chans, lc \in Locs, per \in Pers :
            reg' = [reg EXCEPT ![ch].lc = lc, ![ch].per = per] /\ UNCHANGED <<dma, stopped, P!effect, P!frame>>
      BY <1>1 DEF P!WritesPointer
    <2>2. per \in Nat /\ reg[ch] \in RegFiles
      BY <1>0, PaulaAssumed DEF P!PaulaAssumption, ChannelsOK
    <2>3. [reg[ch] EXCEPT !.lc = lc, !.per = per] \in RegFiles
      BY <2>2 DEF RegFiles
    <2>4. reg' = [reg EXCEPT ![ch] = [reg[ch] EXCEPT !.lc = lc, !.per = per]]
      BY <1>0, <2>1 DEF ChannelsOK
    <2>5. reg' \in [Chans -> RegFiles]
      BY <1>0, <2>3, <2>4 DEF ChannelsOK
    <2> QED BY <1>0, <2>1, <2>5, EffectKept, FrameKept DEF PaulaInv, ChannelsOK, P!StoppedIsSilent
  <1>2. CASE P!WritesLength
    <2>1. PICK ch \in Chans, len \in Lens :
            /\ reg' = [reg EXCEPT ![ch].len = len]
            /\ IF ~dma[ch].on /\ len # 0
                 THEN dma' = [dma EXCEPT ![ch] = P!Started(ch, reg'[ch])] /\ stopped' = stopped \ {ch}
                 ELSE UNCHANGED <<dma, stopped>>
            /\ UNCHANGED <<P!effect, P!frame>>
      BY <1>2 DEF P!WritesLength
    <2>2. len \in Nat /\ reg[ch] \in RegFiles
      BY <1>0, PaulaAssumed DEF P!PaulaAssumption, ChannelsOK
    <2>3. [reg[ch] EXCEPT !.len = len] \in RegFiles
      BY <2>2 DEF RegFiles
    <2>4. reg' = [reg EXCEPT ![ch] = [reg[ch] EXCEPT !.len = len]]
      BY <1>0, <2>1 DEF ChannelsOK
    <2>5. reg' \in [Chans -> RegFiles]
      BY <1>0, <2>3, <2>4 DEF ChannelsOK
    <2>6. P!Started(ch, reg'[ch]) \in Reading
      BY <2>5, StartedIn
    <2>7. ChannelsOK'
      BY <1>0, <2>1, <2>5, <2>6, ChannelKeeps DEF ChannelsOK, P!StoppedIsSilent
    <2> QED BY <1>0, <2>1, <2>7, EffectKept, FrameKept DEF PaulaInv
  <1>3. CASE P!WritesData
    <2>1. PICK ch \in Chans : /\ dma' = [dma EXCEPT ![ch] = P!Started(ch, reg[ch])]
                              /\ stopped' = stopped \ {ch} /\ UNCHANGED <<reg, P!effect, P!frame>>
      BY <1>3 DEF P!WritesData
    <2>2. P!Started(ch, reg[ch]) \in Reading /\ reg' \in [Chans -> RegFiles]
      BY <1>0, <2>1, StartedIn DEF ChannelsOK
    <2> QED BY <1>0, <2>1, <2>2, ChannelKeeps, EffectKept, FrameKept DEF PaulaInv
  <1>4. CASE P!WritesDmacon
    BY <1>0, <1>4, ClearKeeps, EffectKept, FrameKept DEF P!WritesDmacon, PaulaInv
  <1>5. CASE P!Trigger
    <2>1. PICK d \in Sounds :
            /\ effects < MaxSounds /\ effects' = effects + 1
            /\ IF flag /\ ~P!Beats(d, desc) THEN UNCHANGED <<dma, stopped, voice, flag, desc, loaded, heard>>
               ELSE /\ desc' = d /\ flag' = TRUE /\ P!Cleared({0})
                    /\ voice' = P!PlaysFromStart(d) /\ loaded' = FALSE /\ heard' = 0
            /\ UNCHANGED <<reg, P!frame>>
      BY <1>5 DEF P!Trigger
    <2>2. effects' \in 0..MaxSounds
      BY <1>0, <2>1, PaulaAssumed DEF VoiceOK, P!PaulaAssumption
    <2>3. CASE flag /\ ~P!Beats(d, desc)
      <3>1. UNCHANGED <<dma, stopped, voice, flag, desc, loaded, heard>>
        BY <2>1, <2>3
      <3>2. VoiceOK'
        BY <1>0, <2>2, <3>1 DEF VoiceOK, P!VoiceIsEffect, P!FirstPass, Ended
      <3> QED BY <1>0, <2>1, <3>1, <3>2, ChannelsKept, FrameKept DEF PaulaInv
    <2>4. CASE ~(flag /\ ~P!Beats(d, desc))
      <3>1. /\ desc' = d /\ flag' = TRUE /\ P!Cleared({0})
            /\ voice' = P!PlaysFromStart(d) /\ loaded' = FALSE /\ heard' = 0
        BY <2>1, <2>4
      <3>2. PICK w : w = P!PlaysFromStart(d)
        OBVIOUS
      <3>3. d \in Effects /\ d.base \in Nat /\ d.len \in Nat /\ d.len > 0
        BY PaulaAssumed DEF P!PaulaAssumption, Effects
      <3>4. w \in Voices /\ w.of = d /\ w.ptr = d.base /\ w.rem = d.len /\ w.tick = 0
        BY <3>2, <3>3 DEF P!PlaysFromStart, Voices
      <3>5. w \in Playing
        BY <3>3, <3>4 DEF Playing, Inside
      <3>6. P!Step(d.per) \in Nat /\ (d.len - d.len) * P!Step(d.per) = 0
        BY <3>3, StepIsLong, EffectsIn
      <3>7. Ended(w) = 0 /\ 0 * Clock = 0
        BY <3>4, <3>6, PaulaAssumed DEF Ended, P!PaulaAssumption
      <3>8. VoiceOK'
        BY <2>2, <3>1, <3>2, <3>4, <3>5, <3>7 DEF VoiceOK, P!VoiceIsEffect, P!FirstPass, Ended
      <3>9. {0} \in SUBSET Chans
        BY PaulaAssumed DEF P!PaulaAssumption
      <3> QED BY <1>0, <2>1, <3>1, <3>8, <3>9, ClearKeeps, FrameKept DEF PaulaInv
    <2> QED BY <2>3, <2>4
  <1>6. CASE P!EngineEnds
    <2>1. VoiceOK'
      BY <1>0, <1>6 DEF P!EngineEnds, VoiceOK, P!VoiceIsEffect, P!FirstPass, Ended
    <2> QED BY <1>0, <1>6, <2>1, ChannelsKept, FrameKept DEF P!EngineEnds, PaulaInv
  <1>7. CASE P!LoadState
    <2>1. VoiceOK'
      BY <1>0, <1>7 DEF P!LoadState, VoiceOK, P!VoiceIsEffect, P!FirstPass, Ended
    <2> QED BY <1>0, <1>7, <2>1, ChannelsKept, FrameKept DEF P!LoadState, PaulaInv
  <1>8. CASE P!Render
    <2>1. PICK n : n = P!PieceEnd(tick + 1) - done
      OBVIOUS
    <2>2. PICK v : v = P!Heeded(voice)
      OBVIOUS
    <2>3. /\ tick < Ticks /\ tick' = tick + 1 /\ done' = P!PieceEnd(tick + 1) /\ buffered' = buffered
          /\ voice' = P!VoiceAfter(v, n)
          /\ heard' = IF P!FirstPass(v) THEN heard + n ELSE heard
          /\ dma' = [ch \in Chans |-> IF ch = 0 /\ v.on THEN dma[ch] ELSE P!Stream(dma[ch], reg[ch], n)]
          /\ UNCHANGED <<reg, stopped, flag, desc, loaded, effects>>
      BY <1>8, <2>1, <2>2 DEF P!Render
    <2>4. n \in Nat
      BY <1>0, <2>1, <2>3, Pieces DEF FrameOK
    <2>5. v \in Voices /\ v.on = (voice.on /\ flag) /\ v.of = voice.of /\ v.first = voice.first
          /\ v.rem = voice.rem /\ v.ptr = voice.ptr /\ v.tick = voice.tick
      BY <1>0, <2>2 DEF P!Heeded, VoiceOK, Playing, Voices
    <2>6. v \in Playing
      BY <1>0, <2>5 DEF VoiceOK, Playing, Inside
    <2>7. FrameOK'
      <3>1. tick + 1 \in 0..Ticks
        BY <1>0, <2>3, PaulaAssumed DEF FrameOK, P!PaulaAssumption
      <3> QED BY <1>0, <2>3, <3>1 DEF FrameOK, P!PieceEnd
    <2>8. ChannelsOK'
      <3>1. ASSUME NEW ch \in Chans PROVE dma'[ch] \in Reading /\ (~dma[ch].on => ~dma'[ch].on)
        <4>1. dma[ch] \in Reading /\ reg[ch] \in RegFiles
          BY <1>0 DEF ChannelsOK
        <4>2. PICK s : s = P!Stream(dma[ch], reg[ch], n)
          OBVIOUS
        <4>3. s \in Reading /\ (~dma[ch].on => s = dma[ch])
          BY <2>4, <4>1, <4>2, ChannelStretchKeeps
        <4>4. dma'[ch] \in {dma[ch], s}
          BY <2>3, <4>2
        <4> QED BY <4>1, <4>3, <4>4
      <3>2. dma' \in [Chans -> Reading]
        BY <2>3, <3>1
      <3> QED BY <1>0, <2>3, <3>1, <3>2 DEF ChannelsOK, P!StoppedIsSilent
    <2>9. VoiceOK'
      <3>1. PICK w : w = P!VoiceAfter(v, n)
        OBVIOUS
      <3>2. /\ w \in Playing /\ w.of = v.of /\ (w.on => v.on)
            /\ P!FirstPass(w) => P!FirstPass(v) /\ Ended(w) = Ended(v) + n * Clock
        BY <2>4, <2>6, <3>1, VoiceStretchKeeps
      <3>3. Ended(v) = Ended(voice)
        BY <2>5 DEF Ended
      <3>4. heard' \in Nat
        BY <1>0, <2>3, <2>4 DEF VoiceOK
      <3>5. ASSUME P!FirstPass(w) PROVE heard' * Clock = Ended(w)
        <4>1. P!FirstPass(voice)
          BY <2>5, <3>2, <3>5 DEF P!FirstPass
        <4>2. heard' = heard + n /\ (heard + n) * Clock = heard * Clock + n * Clock
          BY <1>0, <2>3, <2>4, <3>2, <3>5, PaulaAssumed DEF VoiceOK, P!PaulaAssumption
        <4>3. heard * Clock = Ended(voice)
          BY <1>0, <4>1 DEF VoiceOK
        <4> QED BY <3>2, <3>3, <3>5, <4>2, <4>3
      <3>6. w.on /\ flag /\ ~loaded => w.of = desc
        BY <1>0, <2>5, <3>2 DEF VoiceOK, P!VoiceIsEffect
      <3> QED BY <1>0, <2>3, <3>1, <3>2, <3>4, <3>5, <3>6 DEF VoiceOK, P!VoiceIsEffect, P!FirstPass, Ended
    <2> QED BY <2>7, <2>8, <2>9 DEF PaulaInv
  <1>9. CASE P!Queue
    <2>1. P!AfterDrop(buffered) + 1 \in 0..MaxQueued + 1
      BY <1>0, PaulaAssumed DEF FrameOK, P!AfterDrop, P!PaulaAssumption
    <2>2. FrameOK'
      BY <1>9, <2>1, Pieces, PaulaAssumed DEF P!Queue, FrameOK, P!PaulaAssumption
    <2> QED BY <1>0, <1>9, <2>2, ChannelsKept, EffectKept DEF P!Queue, PaulaInv
  <1>10. CASE P!DevicePlays
    <2>1. FrameOK'
      BY <1>0, <1>10, PaulaAssumed DEF P!DevicePlays, FrameOK, P!PaulaAssumption
    <2> QED BY <1>0, <1>10, <2>1, ChannelsKept, EffectKept DEF P!DevicePlays, PaulaInv
  <1>11. CASE UNCHANGED P!vars
    BY <1>0, <1>11, ChannelsKept, EffectKept, FrameKept DEF P!vars, P!effect, P!frame, PaulaInv
  <1> QED BY <1>1, <1>2, <1>3, <1>4, <1>5, <1>6, <1>7, <1>8, <1>9, <1>10, <1>11 DEF P!Next

-----------------------------------------------------------------------------
(* The backends. *)

\* What vulkan_init makes.
VkObjects == {"vkWindow", "instance", "surface", "device", "swapchain", "renderPass", "targets", "pool", "cmd",
              "sampler", "setLayout", "layout", "setPool", "shaders", "pipe", "shadowPipe",
              "fxShaders", "fxLayout", "fxPipe", "atlas", "atlasMap", "acquireSem", "fence"}

\* s is a sequence of n of them. An operator of its own, for the provers to match.
Lists(s, n) == s \in Seq(VkObjects) /\ Len(s) = n

\* c is s and then t.
Follows(c, s, t, m, n) == \A i \in 1..(m + n) : c[i] = IF i <= m THEN s[i] ELSE t[i - m]

\* What the concatenation of two such sequences is, place by place.
LEMMA Joined ==
  ASSUME NEW s, NEW t, NEW m \in Nat, NEW n \in Nat, Lists(s, m), Lists(t, n)
  PROVE  Lists(s \o t, m + n) /\ Follows(s \o t, s, t, m, n)
  BY ConcatProperties DEF Lists, Follows

\* The order of vulkan_init, place by place.
LEMMA OrderIs ==
  ASSUME NEW o, o = H!Order("vulkan")
  PROVE
     /\ Lists(o, 23)
     /\ o[1] = "vkWindow" /\ o[2] = "instance" /\ o[3] = "surface"
     /\ o[4] = "device" /\ o[5] = "swapchain" /\ o[6] = "renderPass"
     /\ o[7] = "targets" /\ o[8] = "pool" /\ o[9] = "cmd" /\ o[10] = "sampler"
     /\ o[11] = "setLayout" /\ o[12] = "layout" /\ o[13] = "setPool" /\ o[14] = "shaders"
     /\ o[15] = "pipe" /\ o[16] = "shadowPipe" /\ o[17] = "fxShaders"
     /\ o[18] = "fxLayout" /\ o[19] = "fxPipe" /\ o[20] = "atlas" /\ o[21] = "atlasMap"
     /\ o[22] = "acquireSem" /\ o[23] = "fence"
  <1>1. PICK a, t, z, p, q, r :
          /\ a = <<"vkWindow", "instance", "surface", "device", "swapchain">> /\ r = H!RenderPass
          /\ t = <<"targets", "pool", "cmd">> /\ p = H!Pipelines /\ q = H!Effects
          /\ z = <<"atlas", "atlasMap", "acquireSem", "fence">>
    OBVIOUS
  <1>2. /\ Lists(a, 5) /\ a[1] = "vkWindow" /\ a[2] = "instance" /\ a[3] = "surface"
        /\ a[4] = "device" /\ a[5] = "swapchain"
    BY <1>1 DEF Lists, VkObjects
  <1>3. Lists(r, 1) /\ r[1] = "renderPass" /\ Lists(t, 3) /\ t[1] = "targets" /\ t[2] = "pool" /\ t[3] = "cmd"
    BY <1>1 DEF Lists, VkObjects, H!RenderPass
  <1>4. /\ Lists(p, 7) /\ p[1] = "sampler" /\ p[2] = "setLayout" /\ p[3] = "layout" /\ p[4] = "setPool"
        /\ p[5] = "shaders" /\ p[6] = "pipe" /\ p[7] = "shadowPipe"
    BY <1>1 DEF Lists, VkObjects, H!Pipelines
  <1>5. /\ Lists(q, 3) /\ q[1] = "fxShaders" /\ q[2] = "fxLayout" /\ q[3] = "fxPipe"
        /\ Lists(z, 4) /\ z[1] = "atlas" /\ z[2] = "atlasMap" /\ z[3] = "acquireSem" /\ z[4] = "fence"
    BY <1>1 DEF Lists, VkObjects, H!Effects
  <1>6. PICK b : b = a \o r
    OBVIOUS
  <1>7. Lists(b, 6) /\ Follows(b, a, r, 5, 1)
    BY <1>2, <1>3, <1>6, Joined
  <1>8. PICK c : c = b \o t
    OBVIOUS
  <1>9. Lists(c, 9) /\ Follows(c, b, t, 6, 3)
    BY <1>3, <1>7, <1>8, Joined
  <1>10. PICK d : d = c \o p
    OBVIOUS
  <1>11. Lists(d, 16) /\ Follows(d, c, p, 9, 7)
    BY <1>4, <1>9, <1>10, Joined
  <1>12. PICK e : e = d \o q
    OBVIOUS
  <1>13. Lists(e, 19) /\ Follows(e, d, q, 16, 3)
    BY <1>5, <1>11, <1>12, Joined
  <1>14. o = e \o z
    BY <1>1, <1>6, <1>8, <1>10, <1>12 DEF H!Order
  <1>15. Lists(o, 23) /\ Follows(o, e, z, 19, 4)
    <2>1. PICK w : w = e \o z
      OBVIOUS
    <2>2. Lists(w, 23) /\ Follows(w, e, z, 19, 4)
      BY <1>5, <1>13, <2>1, Joined
    <2> QED BY <1>14, <2>1, <2>2
  <1>16. \A i \in 1..5 : b[i] = a[i] /\ c[i] = a[i] /\ d[i] = a[i] /\ e[i] = a[i] /\ o[i] = a[i]
    BY <1>7, <1>9, <1>11, <1>13, <1>15 DEF Follows
  <1>17. o[6] = r[1] /\ o[7] = t[1] /\ o[8] = t[2] /\ o[9] = t[3]
    BY <1>7, <1>9, <1>11, <1>13, <1>15 DEF Follows
  <1>18. \A i \in 1..7 : o[9 + i] = p[i]
    BY <1>11, <1>13, <1>15 DEF Follows
  <1>19. (\A i \in 1..3 : o[16 + i] = q[i]) /\ (\A i \in 1..4 : o[19 + i] = z[i])
    BY <1>13, <1>15 DEF Follows
  <1>20. /\ o[1] = "vkWindow" /\ o[2] = "instance" /\ o[3] = "surface" /\ o[4] = "device" /\ o[5] = "swapchain"
         /\ o[6] = "renderPass" /\ o[7] = "targets" /\ o[8] = "pool" /\ o[9] = "cmd"
    BY <1>2, <1>3, <1>16, <1>17
  <1>21. /\ o[10] = "sampler" /\ o[11] = "setLayout" /\ o[12] = "layout" /\ o[13] = "setPool"
         /\ o[14] = "shaders" /\ o[15] = "pipe" /\ o[16] = "shadowPipe"
    <2>1. /\ o[9 + 1] = p[1] /\ o[9 + 2] = p[2] /\ o[9 + 3] = p[3] /\ o[9 + 4] = p[4] /\ o[9 + 5] = p[5]
          /\ o[9 + 6] = p[6] /\ o[9 + 7] = p[7]
      BY <1>18
    <2> QED BY <1>4, <2>1
  <1>22. /\ o[17] = "fxShaders" /\ o[18] = "fxLayout" /\ o[19] = "fxPipe"
         /\ o[20] = "atlas" /\ o[21] = "atlasMap" /\ o[22] = "acquireSem" /\ o[23] = "fence"
    <2>1. /\ o[16 + 1] = q[1] /\ o[16 + 2] = q[2] /\ o[16 + 3] = q[3]
          /\ o[19 + 1] = z[1] /\ o[19 + 2] = z[2] /\ o[19 + 3] = z[3] /\ o[19 + 4] = z[4]
      BY <1>19
    <2> QED BY <1>5, <2>1
  <1> QED BY <1>15, <1>20, <1>21, <1>22

\* The order of the SDL backend, and what is made at the first frame.
LEMMA RestIs ==
  /\ H!Order("sdl") = <<"window", "renderer", "texture">>
  /\ H!Late("vulkan") = {"base"} /\ H!Late("sdl") = {"sceneCache"}
  BY DEF H!Order, H!Late

\* All that vulkan_init makes.
LEMMA OrderRange == H!Range(H!Order("vulkan")) = VkObjects
  <1>1. PICK o : o = H!Order("vulkan")
    OBVIOUS
  <1>4. Lists(o, 23)
    BY <1>1, OrderIs
  <1>5. DOMAIN o = 1..23 /\ \A i \in 1..23 : o[i] \in VkObjects
    <2>1. o \in Seq(VkObjects) /\ Len(o) = 23
      BY <1>4 DEF Lists
    <2>2. DOMAIN o = 1..23
      BY <2>1
    <2>3. \A i \in 1..Len(o) : o[i] \in VkObjects
      BY <2>1, ElementOfSeq
    <2> QED BY <2>1, <2>2, <2>3
  <1>2. H!Range(o) = {o[i] : i \in 1..23}
    BY <1>5 DEF H!Range
  <1>3. H!Range(o) = VkObjects
    <2>1. \A x \in VkObjects : \E i \in 1..23 : o[i] = x
      <3>1. ASSUME NEW x \in VkObjects PROVE \E i \in 1..23 : o[i] = x
        <4>1. \A i \in 1..23 : o[i] \in H!Range(o)
          BY <1>2
        <4>2. VkObjects \subseteq H!Range(o)
          <5>1. /\ o[1] \in H!Range(o) /\ o[2] \in H!Range(o) /\ o[3] \in H!Range(o) /\ o[4] \in H!Range(o)
                /\ o[5] \in H!Range(o) /\ o[6] \in H!Range(o) /\ o[7] \in H!Range(o) /\ o[8] \in H!Range(o)
                /\ o[9] \in H!Range(o) /\ o[10] \in H!Range(o) /\ o[11] \in H!Range(o) /\ o[12] \in H!Range(o)
                /\ o[13] \in H!Range(o) /\ o[14] \in H!Range(o) /\ o[15] \in H!Range(o) /\ o[16] \in H!Range(o)
                /\ o[17] \in H!Range(o) /\ o[18] \in H!Range(o) /\ o[19] \in H!Range(o) /\ o[20] \in H!Range(o)
                /\ o[21] \in H!Range(o) /\ o[22] \in H!Range(o) /\ o[23] \in H!Range(o)
            BY <4>1
          <5> QED BY <1>1, <5>1, OrderIs DEF VkObjects
        <4> QED BY <1>2, <4>2
      <3> QED BY <3>1
    <2>2. \A i \in 1..23 : o[i] \in VkObjects
      BY <1>5
    <2> QED BY <1>2, <2>1, <2>2
  <1> QED BY <1>1, <1>3

\* All that the Vulkan backend ever makes.
LEMMA VulkanMakes == H!Of("vulkan") = VkObjects \cup {"base"}
  BY OrderRange, RestIs DEF H!Of

\* All that sdl_init makes.
LEMMA SdlOrder == H!Range(H!Order("sdl")) = {"window", "renderer", "texture"}
  <1>1. PICK o : o = H!Order("sdl")
    OBVIOUS
  <1>2. o = <<"window", "renderer", "texture">>
    BY <1>1, RestIs
  <1>3. DOMAIN o = 1..3 /\ o[1] = "window" /\ o[2] = "renderer" /\ o[3] = "texture"
    BY <1>2
  <1>4. H!Range(o) = {"window", "renderer", "texture"}
    BY <1>3 DEF H!Range
  <1> QED BY <1>1, <1>4

\* All that the SDL backend ever makes.
LEMMA SdlMakes == H!Of("sdl") = {"window", "renderer", "texture", "sceneCache"}
  BY SdlOrder, RestIs DEF H!Of

\* What each object is made of, one by one.
LEMMA ParentsAre ==
  /\ H!Parents("vkWindow") = {} /\ H!Parents("instance") = {} /\ H!Parents("window") = {}
  /\ H!Parents("surface") = {"vkWindow", "instance"} /\ H!Parents("device") = {"instance"}
  /\ H!Parents("swapchain") = {"surface", "device"} /\ H!Parents("targets") = {"swapchain", "renderPass"}
  /\ H!Parents("layout") = {"device", "setLayout"}
  /\ H!Parents("cmd") = {"pool"} /\ H!Parents("atlasMap") = {"atlas"}
  /\ H!Parents("pipe") = {"device", "layout"} /\ H!Parents("shadowPipe") = {"device", "layout"}
  /\ H!Parents("fxPipe") = {"device", "fxLayout"} /\ H!Parents("renderer") = {"window"}
  /\ H!Parents("texture") = {"renderer"} /\ H!Parents("sceneCache") = {"renderer"}
  /\ \A o \in {"renderPass", "pool", "sampler", "setLayout", "setPool", "shaders", "fxShaders", "fxLayout",
                "atlas", "acquireSem", "fence", "base"} : H!Parents(o) = {"device"}
  BY DEF H!Parents

\* What an object is made of is made before it.
LEMMA MadeInOrder ==
  ASSUME NEW b, NEW o, o = H!Order(b), NEW i \in DOMAIN o
  PROVE  H!Parents(o[i]) \subseteq {o[j] : j \in {k \in DOMAIN o : k < i}}
  <1>1. CASE b = "vulkan"
    <2>1. DOMAIN o = 1..23
      BY <1>1, OrderIs DEF Lists
    <2> DEFINE Before(k) == {o[j] : j \in {n \in DOMAIN o : n < k}}
    <2>2. \A k \in 1..23, j \in 1..23 : j < k => o[j] \in Before(k)
      BY <2>1
    <2> HIDE DEF Before
    <2>3. H!Parents(o[1]) \subseteq Before(1) /\ H!Parents(o[2]) \subseteq Before(2)
      BY <1>1, OrderIs, ParentsAre
    <2>4. o[1] \in Before(3) /\ o[2] \in Before(3) /\ o[2] \in Before(4) /\ o[3] \in Before(5) /\ o[4] \in Before(5)
      BY <2>2
    <2>5. H!Parents(o[3]) \subseteq Before(3) /\ H!Parents(o[4]) \subseteq Before(4) /\ H!Parents(o[5]) \subseteq Before(5)
      BY <1>1, <2>4, OrderIs, ParentsAre
    <2>6. \A k \in 5..23 : o[4] \in Before(k)
      BY <2>2
    <2>7. \A k \in {6, 8, 10, 11, 13, 14, 17, 18, 20, 22, 23} : H!Parents(o[k]) = {o[4]}
      BY <1>1, OrderIs, ParentsAre
    <2>8. o[5] \in Before(7) /\ o[6] \in Before(7) /\ o[8] \in Before(9) /\ o[11] \in Before(12)
          /\ o[12] \in Before(15) /\ o[12] \in Before(16) /\ o[18] \in Before(19) /\ o[20] \in Before(21)
      BY <2>2
    <2>9. /\ H!Parents(o[7]) = {o[5], o[6]} /\ H!Parents(o[9]) = {o[8]} /\ H!Parents(o[12]) = {o[4], o[11]}
          /\ H!Parents(o[15]) = {o[4], o[12]} /\ H!Parents(o[16]) = {o[4], o[12]}
          /\ H!Parents(o[19]) = {o[4], o[18]} /\ H!Parents(o[21]) = {o[20]}
      BY <1>1, OrderIs, ParentsAre
    <2>10. \A k \in 1..23 : H!Parents(o[k]) \subseteq Before(k)
      <3>1. ASSUME NEW k \in 1..23
              PROVE k \in {1, 2, 3, 4, 5} \cup {6, 8, 10, 11, 13, 14, 17, 18, 20, 22, 23} \cup {7, 9, 12, 15, 16, 19, 21}
        OBVIOUS
      <3>2. \A k \in {1, 2, 3, 4, 5} : H!Parents(o[k]) \subseteq Before(k)
        BY <2>3, <2>5
      <3>3. \A k \in {6, 8, 10, 11, 13, 14, 17, 18, 20, 22, 23} : H!Parents(o[k]) \subseteq Before(k)
        BY <2>6, <2>7
      <3>4. \A k \in {7, 9, 12, 15, 16, 19, 21} : H!Parents(o[k]) \subseteq Before(k)
        BY <2>6, <2>8, <2>9
      <3> QED BY <3>1, <3>2, <3>3, <3>4
    <2> QED BY <2>1, <2>10 DEF Before
  <1>2. CASE b # "vulkan"
    <2>1. o = <<"window", "renderer", "texture">>
      BY <1>2 DEF H!Order
    <2>2. DOMAIN o = 1..3 /\ o[1] = "window" /\ o[2] = "renderer" /\ o[3] = "texture"
      BY <2>1
    <2>3. i \in {1, 2, 3}
      BY <2>2
    <2> QED BY <2>2, <2>3, ParentsAre
  <1> QED BY <1>1, <1>2

\* The order of vulkan_shutdown, place by place.
LEMMA VulkanDestroys ==
  ASSUME NEW s, s = H!Shutdown("vulkan")
  PROVE  /\ DOMAIN s = 1..24
         /\ s[1] = "fence" /\ s[2] = "acquireSem" /\ s[3] = "fxPipe" /\ s[4] = "fxLayout"
         /\ s[5] = "fxShaders" /\ s[6] = "shadowPipe" /\ s[7] = "pipe" /\ s[8] = "shaders"
         /\ s[9] = "layout" /\ s[10] = "setPool" /\ s[11] = "setLayout" /\ s[12] = "sampler"
         /\ s[13] = "atlasMap" /\ s[14] = "atlas" /\ s[15] = "base" /\ s[16] = "targets"
         /\ s[17] = "renderPass" /\ s[18] = "cmd" /\ s[19] = "pool" /\ s[20] = "swapchain"
         /\ s[21] = "device" /\ s[22] = "surface" /\ s[23] = "instance" /\ s[24] = "vkWindow"
  BY DEF H!Shutdown

\* The order of sdl_shutdown.
LEMMA SdlDestroys ==
  ASSUME NEW s, NEW b, b # "vulkan", s = H!Shutdown(b)
  PROVE  /\ DOMAIN s = 1..4
         /\ s[1] = "sceneCache" /\ s[2] = "texture" /\ s[3] = "renderer" /\ s[4] = "window"
  BY DEF H!Shutdown

\* What either backend makes.
AllObjects == H!Of("sdl") \cup H!Of("vulkan")

\* What is made of an object goes before it.
LEMMA ChildrenFirst ==
  ASSUME NEW b, NEW s, s = H!Shutdown(b), NEW i \in DOMAIN s, NEW c \in AllObjects, s[i] \in H!Parents(c)
  PROVE  \E j \in DOMAIN s : j < i /\ s[j] = c
  <1>1. CASE b = "vulkan"
    <2>1. DOMAIN s = 1..24
      BY <1>1, VulkanDestroys
    <2>2. c \in VkObjects \cup {"base", "window", "renderer", "texture", "sceneCache"}
      BY VulkanMakes, SdlMakes DEF AllObjects
    <2>3. CASE c \in {"window", "renderer", "texture", "sceneCache", "vkWindow", "instance"}
      <3>1. H!Parents(c) \subseteq {"window", "renderer"}
        BY <2>3, ParentsAre
      <3>2. s[i] \notin {"window", "renderer"}
        <4>1. \A k \in 1..24 : s[k] \in {"fence", "acquireSem", "fxPipe", "fxLayout", "fxShaders", "shadowPipe",
                 "pipe", "shaders", "layout", "setPool", "setLayout", "sampler", "atlasMap", "atlas", "base", "targets",
                 "renderPass", "cmd", "pool", "swapchain", "device", "surface", "instance", "vkWindow"}
          BY <1>1, VulkanDestroys
        <4>2. s[i] \in {"fence", "acquireSem", "fxPipe", "fxLayout", "fxShaders", "shadowPipe",
                 "pipe", "shaders", "layout", "setPool", "setLayout", "sampler", "atlasMap", "atlas", "base", "targets",
                 "renderPass", "cmd", "pool", "swapchain", "device", "surface", "instance", "vkWindow"}
          BY <2>1, <4>1
        <4> QED BY <4>2
      <3> QED BY <3>1, <3>2
    <2>4. \A k \in 1..24 : /\ s[k] = "device" => k = 21
                           /\ s[k] = "instance" => k = 23
                           /\ s[k] = "vkWindow" => k = 24
                           /\ s[k] = "surface" => k = 22
                           /\ s[k] = "swapchain" => k = 20
                           /\ s[k] = "pool" => k = 19
                           /\ s[k] = "renderPass" => k = 17
                           /\ s[k] = "atlas" => k = 14
                           /\ s[k] = "setLayout" => k = 11
                           /\ s[k] = "layout" => k = 9
                           /\ s[k] = "fxLayout" => k = 4
      BY <1>1, VulkanDestroys
    <2>5. CASE c \in {"renderPass", "pool", "sampler", "setLayout", "setPool", "shaders", "fxShaders", "fxLayout",
                      "atlas", "acquireSem", "fence", "base"}
      <3>1. i = 21
        BY <2>1, <2>4, <2>5, ParentsAre
      <3>2. \E j \in 1..19 : s[j] = c
        <4>1. s[17] = "renderPass" /\ s[19] = "pool" /\ s[12] = "sampler" /\ s[11] = "setLayout" /\ s[10] = "setPool"
              /\ s[8] = "shaders" /\ s[5] = "fxShaders" /\ s[4] = "fxLayout" /\ s[14] = "atlas" /\ s[2] = "acquireSem"
              /\ s[1] = "fence" /\ s[15] = "base"
          BY <1>1, VulkanDestroys
        <4>2. 17 \in 1..19 /\ 19 \in 1..19 /\ 12 \in 1..19 /\ 11 \in 1..19 /\ 10 \in 1..19 /\ 8 \in 1..19
              /\ 5 \in 1..19 /\ 4 \in 1..19 /\ 14 \in 1..19 /\ 2 \in 1..19 /\ 1 \in 1..19 /\ 15 \in 1..19
          OBVIOUS
        <4> QED BY <2>5, <4>1, <4>2
      <3> QED BY <2>1, <3>1, <3>2
    <2>6. CASE c = "surface"
      <3>1. i \in {23, 24} /\ s[22] = c
        BY <1>1, <2>1, <2>4, <2>6, ParentsAre, VulkanDestroys
      <3> QED BY <2>1, <3>1
    <2>7. CASE c = "device"
      <3>1. i \in {23} /\ s[21] = c
        BY <1>1, <2>1, <2>4, <2>7, ParentsAre, VulkanDestroys
      <3> QED BY <2>1, <3>1
    <2>8. CASE c = "swapchain"
      <3>1. i \in {21, 22} /\ s[20] = c
        BY <1>1, <2>1, <2>4, <2>8, ParentsAre, VulkanDestroys
      <3> QED BY <2>1, <3>1
    <2>9. CASE c = "targets"
      <3>1. i \in {20, 17} /\ s[16] = c
        BY <1>1, <2>1, <2>4, <2>9, ParentsAre, VulkanDestroys
      <3> QED BY <2>1, <3>1
    <2>10. CASE c = "layout"
      <3>1. i \in {21, 11} /\ s[9] = c
        BY <1>1, <2>1, <2>4, <2>10, ParentsAre, VulkanDestroys
      <3> QED BY <2>1, <3>1
    <2>11. CASE c = "pipe"
      <3>1. i \in {21, 9} /\ s[7] = c
        BY <1>1, <2>1, <2>4, <2>11, ParentsAre, VulkanDestroys
      <3> QED BY <2>1, <3>1
    <2>12. CASE c = "shadowPipe"
      <3>1. i \in {21, 9} /\ s[6] = c
        BY <1>1, <2>1, <2>4, <2>12, ParentsAre, VulkanDestroys
      <3> QED BY <2>1, <3>1
    <2>13. CASE c = "fxPipe"
      <3>1. i \in {21, 4} /\ s[3] = c
        BY <1>1, <2>1, <2>4, <2>13, ParentsAre, VulkanDestroys
      <3> QED BY <2>1, <3>1
    <2>14. CASE c = "cmd"
      <3>1. i \in {19} /\ s[18] = c
        BY <1>1, <2>1, <2>4, <2>14, ParentsAre, VulkanDestroys
      <3> QED BY <2>1, <3>1
    <2>15. CASE c = "atlasMap"
      <3>1. i \in {14} /\ s[13] = c
        BY <1>1, <2>1, <2>4, <2>15, ParentsAre, VulkanDestroys
      <3> QED BY <2>1, <3>1
    <2> QED BY <2>2, <2>3, <2>5, <2>6, <2>7, <2>8, <2>9, <2>10, <2>11, <2>12, <2>13, <2>14, <2>15 DEF VkObjects
  <1>2. CASE b # "vulkan"
    <2>1. DOMAIN s = 1..4 /\ s[1] = "sceneCache" /\ s[2] = "texture" /\ s[3] = "renderer" /\ s[4] = "window"
      BY <1>2, SdlDestroys
    <2>2. c \in VkObjects \cup {"base", "window", "renderer", "texture", "sceneCache"}
      BY VulkanMakes, SdlMakes DEF AllObjects
    <2>3. s[i] \in {"sceneCache", "texture", "renderer", "window"}
      BY <2>1
    <2>4. CASE c \in {"renderer", "texture", "sceneCache"}
      BY <2>1, <2>3, <2>4, ParentsAre
    <2>5. CASE c \in VkObjects \cup {"base", "window"}
      <3>1. H!Parents(c) \cap {"sceneCache", "texture", "renderer", "window"} = {}
        BY <2>5, ParentsAre DEF VkObjects
      <3> QED BY <2>3, <3>1
    <2> QED BY <2>2, <2>4, <2>5
  <1> QED BY <1>1, <1>2

\* The first of a set of places.
LEMMA FirstOf ==
  ASSUME NEW M, M \subseteq Nat, M # {}, NEW n, n = CHOOSE i \in M : \A j \in M : i <= j
  PROVE  n \in M /\ \A j \in M : n <= j
  <1>1. \E i \in M : \A j \in M : i <= j
    BY Least
  <1> QED BY <1>1

\* The life of the backends: the objects there are, and that what each was made of is there.
Lived == /\ doing \in {"start", "init", "run", "closing", "closed", "refused", "died"}
         /\ backend \in {"none", "sdl", "vulkan"} /\ (doing # "start" => backend # "none")
         /\ made \subseteq AllObjects /\ absent \subseteq H!Ignored \cup {"base"} /\ faults \in 0..MaxFaults
         /\ H!Lifetimes

\* The orders are orders of what the backends make.
LEMMA Domains ==
  /\ \A b : DOMAIN H!Order(b) \subseteq Nat /\ DOMAIN H!Shutdown(b) \subseteq Nat
  /\ \A b \in {"sdl", "vulkan"} : H!Of(b) \subseteq AllObjects /\ H!Range(H!Order(b)) \subseteq H!Of(b)
  <1>1. ASSUME NEW b PROVE DOMAIN H!Order(b) \subseteq Nat /\ DOMAIN H!Shutdown(b) \subseteq Nat
    <2>1. CASE b = "vulkan"
      <3>1. PICK o, s : o = H!Order("vulkan") /\ s = H!Shutdown("vulkan")
        OBVIOUS
      <3>2. DOMAIN o = 1..23
        BY <3>1, OrderIs DEF Lists
      <3>3. DOMAIN s = 1..24
        BY <3>1, VulkanDestroys
      <3> QED BY <2>1, <3>1, <3>2, <3>3
    <2>2. CASE b # "vulkan"
      <3>1. PICK o, s : o = H!Order(b) /\ s = H!Shutdown(b)
        OBVIOUS
      <3>2. o = <<"window", "renderer", "texture">>
        BY <2>2, <3>1 DEF H!Order
      <3>3. DOMAIN s = 1..4
        BY <2>2, <3>1, SdlDestroys
      <3> QED BY <3>1, <3>2, <3>3
    <2> QED BY <2>1, <2>2
  <1> QED BY <1>1 DEF H!Of, AllObjects

\* A backend's objects are made of its own.
LEMMA OfIsWhole ==
  ASSUME NEW b \in {"sdl", "vulkan"}, NEW o \in H!Of(b)
  PROVE  H!Parents(o) \subseteq H!Of(b)
  <1>1. CASE b = "sdl"
    BY <1>1, SdlMakes, ParentsAre
  <1>2. CASE b = "vulkan"
    <2>1. CASE o \in {"vkWindow", "instance", "surface", "device", "swapchain", "targets", "cmd", "atlasMap"}
      BY <1>2, <2>1, VulkanMakes, ParentsAre DEF VkObjects
    <2>2. CASE o \in {"layout", "pipe", "shadowPipe", "fxPipe"}
      BY <1>2, <2>2, VulkanMakes, ParentsAre DEF VkObjects
    <2>3. CASE o \in {"renderPass", "pool", "sampler", "setLayout", "setPool", "shaders", "fxShaders", "fxLayout",
                      "atlas", "acquireSem", "fence", "base"}
      BY <1>2, <2>3, VulkanMakes, ParentsAre DEF VkObjects
    <2> QED BY <1>2, <2>1, <2>2, <2>3, VulkanMakes DEF VkObjects
  <1> QED BY <1>1, <1>2

\* Nothing is made of what a frame shows, which a change of width replaces.
LEMMA PictureHasNone == \A o \in AllObjects : "texture" \notin H!Parents(o) /\ "base" \notin H!Parents(o)
  <1>1. \A o \in {"vkWindow", "instance", "surface", "device", "swapchain", "targets", "cmd", "atlasMap",
                  "layout", "pipe", "shadowPipe", "fxPipe"} : "texture" \notin H!Parents(o) /\ "base" \notin H!Parents(o)
    BY ParentsAre
  <1>2. \A o \in {"renderPass", "pool", "sampler", "setLayout", "setPool", "shaders", "fxShaders", "fxLayout",
                  "atlas", "acquireSem", "fence", "base"} : "texture" \notin H!Parents(o) /\ "base" \notin H!Parents(o)
    BY ParentsAre
  <1>3. \A o \in {"window", "renderer", "texture", "sceneCache"} : "texture" \notin H!Parents(o) /\ "base" \notin H!Parents(o)
    BY ParentsAre
  <1> QED BY <1>1, <1>2, <1>3, VulkanMakes, SdlMakes DEF AllObjects, VkObjects

\* What no init asks after is Vulkan's.
LEMMA SdlAsks ==
  ASSUME NEW b \in {"sdl", "vulkan"}, NEW x \in H!Range(H!Order(b)), x \in H!Ignored
  PROVE  b = "vulkan"
  BY SdlMakes DEF H!Ignored, H!Of

\* The base is not one of what vulkan_init makes, nor of what sdl_init does.
LEMMA BaseIsLate == \A b \in {"sdl", "vulkan"} : "base" \notin H!Range(H!Order(b))
  <1>1. "base" \notin H!Range(H!Order("sdl"))
    BY SdlMakes DEF H!Of
  <1>2. "base" \notin H!Range(H!Order("vulkan"))
    BY OrderRange DEF VkObjects
  <1> QED BY <1>1, <1>2

\* Before hw_init nothing is there.
LEMMA LivedStarts == H!Init => Lived
  BY BackendAssumed DEF H!Init, Lived, H!Lifetimes, H!BackendAssumption

\* Making, failing, presenting, resizing and destroying keep it.
LEMMA LivedSteps ==
  ASSUME Lived, H!Next \/ UNCHANGED H!vars
  PROVE  Lived'
  <1>0. MaxFaults \in Nat
    BY BackendAssumed DEF H!BackendAssumption
  <1>1. CASE H!Select
    BY <1>1 DEF H!Select, Lived, H!Lifetimes, H!size
  <1>2. CASE H!Make
    <2>1. doing = "init" /\ backend \in {"sdl", "vulkan"}
      BY <1>2 DEF H!Make, Lived
    <2>2. PICK o : o = H!Order(backend)
      OBVIOUS
    <2>3. PICK M : M = H!Missing(backend)
      OBVIOUS
    <2>4. PICK n : n = CHOOSE i \in M : \A j \in M : i <= j
      OBVIOUS
    <2>5. M # {} /\ M = {i \in DOMAIN o : o[i] \notin made \cup absent}
      BY <1>2, <2>2, <2>3 DEF H!Make, H!Missing
    <2>6. M \subseteq Nat
      BY <2>2, <2>5, Domains
    <2>7. n \in M /\ \A j \in M : n <= j
      BY <2>4, <2>5, <2>6, FirstOf
    <2>8. H!Parents(o[n]) \subseteq made \cup absent
      <3>1. \A j \in DOMAIN o : j < n => o[j] \in made \cup absent
        BY <2>5, <2>6, <2>7, <2>2, Domains
      <3>2. H!Parents(o[n]) \subseteq {o[j] : j \in {k \in DOMAIN o : k < n}}
        BY <2>2, <2>5, <2>7, MadeInOrder
      <3> QED BY <3>1, <3>2
    <2>9. o[n] \in AllObjects /\ o[n] \in H!Range(H!Order(backend))
      BY <2>1, <2>2, <2>5, <2>7, Domains DEF H!Range
    <2>10. PICK x : x = o[n]
      OBVIOUS
    <2>11. H!Makes(x) \/ H!Misses(x) \/ H!FallsBack(x)
      BY <1>2, <2>2, <2>3, <2>4, <2>10 DEF H!Make
    <2>12. CASE H!Makes(x)
      <3>1. H!Parents(x) \subseteq made /\ made' = made \cup {x} /\ UNCHANGED <<doing, backend, absent>>
        BY <2>8, <2>10, <2>12 DEF H!Makes
      <3>2. faults' \in 0..MaxFaults
        BY <1>0, <2>12 DEF H!Makes, H!Fail, Lived
      <3> QED BY <2>1, <2>9, <2>10, <3>1, <3>2 DEF Lived, H!Lifetimes
    <2>13. CASE H!Misses(x)
      <3>1. backend = "vulkan" /\ x \in H!Ignored
        BY <2>1, <2>9, <2>10, <2>13, SdlAsks DEF H!Misses
      <3>2. absent' = absent \cup {x} /\ doing' \in {"init", "died"} /\ UNCHANGED <<backend, made>>
        BY <2>1, <2>13 DEF H!Misses
      <3>3. faults' \in 0..MaxFaults
        BY <1>0, <2>13 DEF H!Misses, H!Fail, Lived
      <3> QED BY <2>1, <3>1, <3>2, <3>3 DEF Lived, H!Lifetimes
    <2>14. CASE H!FallsBack(x)
      <3>1. faults' \in 0..MaxFaults
        BY <1>0, <2>14 DEF H!FallsBack, H!Fail, Lived
      <3> QED BY <2>1, <2>14, <3>1 DEF H!FallsBack, Lived, H!Lifetimes
    <2> QED BY <2>11, <2>12, <2>13, <2>14
  <1>3. CASE H!Started
    <2>1. PICK o : o = H!Order(backend)
      OBVIOUS
    <2>2. H!Range(o) \subseteq made \cup absent
      BY <1>3, <2>1 DEF H!Started, H!Missing, H!Range
    <2>3. H!Range(H!Order(backend)) \ ({"texture"} \cup absent) \subseteq made
      BY <2>1, <2>2
    <2> QED BY <1>3, <2>3 DEF H!Started, H!objects, Lived, H!Lifetimes
  <1>4. CASE H!Present
    <2>1. /\ doing = "run" /\ backend' = backend /\ backend \in {"sdl", "vulkan"}
          /\ doing' = "run" \/ (backend = "vulkan" /\ absent' # {} /\ doing' = "died")
      BY <1>4 DEF H!Present, Lived
    <2>2. PICK kept : kept = H!Range(H!Order(backend)) \ {"texture"}
      OBVIOUS
    <2>3. kept \ absent \subseteq made /\ "base" \notin kept
      BY <2>1, <2>2, BaseIsLate DEF Lived, H!Lifetimes
    <2>4. ASSUME kept \ absent' \subseteq made', \A o \in made' : H!Parents(o) \subseteq made',
                 made' \subseteq AllObjects, absent' \subseteq H!Ignored \cup {"base"}, faults' \in 0..MaxFaults
          PROVE  Lived'
      <3>1. H!Range(H!Order(backend')) \ ({"texture"} \cup absent') \subseteq made'
        BY <2>1, <2>2, <2>4
      <3> QED BY <2>1, <2>4, <3>1 DEF Lived, H!Lifetimes
    <2>5. ASSUME NEW also \in SUBSET H!Late(backend), made' = made \cup {H!Picture(backend)} \cup also,
                 absent' = absent \ {"base"}, UNCHANGED faults
          PROVE  Lived'
      <3>1. {H!Picture(backend)} \cup also \subseteq H!Of(backend)
        BY <2>1, <2>5, VulkanMakes, SdlMakes, RestIs DEF H!Picture
      <3>2. PICK new : new = {H!Picture(backend)} \cup also
        OBVIOUS
      <3>3. made' = made \cup new /\ new \subseteq AllObjects
        BY <2>1, <2>5, <3>1, <3>2, Domains
      <3>4. \A o \in new : H!Parents(o) \subseteq made
        <4>1. CASE backend = "sdl"
          <5>1. new \subseteq {"texture", "sceneCache"}
            BY <2>5, <3>2, <4>1, RestIs DEF H!Picture
          <5>2. "renderer" \in kept /\ "renderer" \notin absent
            BY <2>2, <4>1, SdlOrder DEF Lived, H!Ignored
          <5> QED BY <2>3, <5>1, <5>2, ParentsAre
        <4>2. CASE backend = "vulkan"
          <5>1. new \subseteq {"base"}
            BY <2>5, <3>2, <4>2, RestIs DEF H!Picture
          <5>2. "device" \in kept /\ "device" \notin absent
            BY <2>2, <4>2, OrderRange DEF Lived, H!Ignored, VkObjects
          <5> QED BY <2>3, <5>1, <5>2, ParentsAre
        <4> QED BY <2>1, <4>1, <4>2
      <3>5. \A o \in made' : H!Parents(o) \subseteq made'
        BY <3>3, <3>4 DEF Lived, H!Lifetimes
      <3>6. kept \ absent' \subseteq made' /\ made' \subseteq AllObjects /\ absent' \subseteq H!Ignored \cup {"base"}
            /\ faults' \in 0..MaxFaults
        BY <2>3, <2>5, <3>3 DEF Lived
      <3> QED BY <2>4, <3>5, <3>6
    <2>6. CASE /\ H!Fail /\ made' = made \ {H!Picture(backend)}
               /\ (absent' = absent \/ (backend = "vulkan" /\ absent' = absent \cup {"base"}))
      <3>1. H!Picture(backend) \in {"texture", "base"} /\ H!Picture(backend) \notin kept
        BY <2>2, <2>3 DEF H!Picture
      <3>2. faults' \in 0..MaxFaults
        BY <1>0, <2>6 DEF H!Fail, Lived
      <3>3. \A o \in made' : H!Parents(o) \subseteq made'
        BY <2>6, <3>1, PictureHasNone DEF Lived, H!Lifetimes
      <3>4. kept \ absent' \subseteq made' /\ made' \subseteq AllObjects /\ absent' \subseteq H!Ignored \cup {"base"}
        BY <2>3, <2>6, <3>1 DEF Lived
      <3> QED BY <2>4, <3>2, <3>3, <3>4
    <2>7. CASE UNCHANGED <<made, absent, faults>>
      <3>1. \A o \in made' : H!Parents(o) \subseteq made'
        BY <2>7 DEF Lived, H!Lifetimes
      <3>2. kept \ absent' \subseteq made' /\ made' \subseteq AllObjects /\ absent' \subseteq H!Ignored \cup {"base"}
            /\ faults' \in 0..MaxFaults
        BY <2>3, <2>7 DEF Lived
      <3> QED BY <2>4, <3>1, <3>2
    <2> QED BY <1>4, <2>5, <2>6, <2>7 DEF H!Present
  <1>5. CASE H!Close
    BY <1>5 DEF H!Close, H!objects, Lived, H!Lifetimes
  <1>6. CASE H!Destroy
    <2>1. PICK s : s = H!Shutdown(backend)
      OBVIOUS
    <2>2. PICK M : M = {i \in DOMAIN s : s[i] \in made}
      OBVIOUS
    <2>3. PICK n : n = CHOOSE i \in M : \A j \in M : i <= j
      OBVIOUS
    <2>4. /\ doing = "closing" /\ UNCHANGED <<backend, absent, faults>> /\ backend \in {"sdl", "vulkan"}
          /\ IF M = {} THEN doing' = "closed" /\ UNCHANGED made
             ELSE made' = made \ {s[n]} /\ UNCHANGED doing
      BY <1>6, <2>1, <2>2, <2>3 DEF H!Destroy, Lived
    <2>5. CASE M = {}
      <3>1. H!Of(backend) \subseteq {s[i] : i \in DOMAIN s}
        <4>1. CASE backend = "vulkan"
          <5>1. \A i \in 1..24 : s[i] \in {s[k] : k \in DOMAIN s}
            BY <2>1, <4>1, VulkanDestroys
          <5>2. /\ s[1] \in {s[k] : k \in DOMAIN s} /\ s[2] \in {s[k] : k \in DOMAIN s} /\ s[3] \in {s[k] : k \in DOMAIN s}
                /\ s[4] \in {s[k] : k \in DOMAIN s} /\ s[5] \in {s[k] : k \in DOMAIN s} /\ s[6] \in {s[k] : k \in DOMAIN s}
                /\ s[7] \in {s[k] : k \in DOMAIN s} /\ s[8] \in {s[k] : k \in DOMAIN s} /\ s[9] \in {s[k] : k \in DOMAIN s}
                /\ s[10] \in {s[k] : k \in DOMAIN s} /\ s[11] \in {s[k] : k \in DOMAIN s} /\ s[12] \in {s[k] : k \in DOMAIN s}
                /\ s[13] \in {s[k] : k \in DOMAIN s} /\ s[14] \in {s[k] : k \in DOMAIN s} /\ s[15] \in {s[k] : k \in DOMAIN s}
                /\ s[16] \in {s[k] : k \in DOMAIN s} /\ s[17] \in {s[k] : k \in DOMAIN s} /\ s[18] \in {s[k] : k \in DOMAIN s}
                /\ s[19] \in {s[k] : k \in DOMAIN s} /\ s[20] \in {s[k] : k \in DOMAIN s} /\ s[21] \in {s[k] : k \in DOMAIN s}
                /\ s[22] \in {s[k] : k \in DOMAIN s} /\ s[23] \in {s[k] : k \in DOMAIN s} /\ s[24] \in {s[k] : k \in DOMAIN s}
            BY <5>1
          <5> QED BY <2>1, <4>1, <5>2, VulkanDestroys, VulkanMakes DEF VkObjects
        <4>2. CASE backend = "sdl"
          BY <2>1, <4>2, SdlDestroys, SdlMakes
        <4> QED BY <2>4, <4>1, <4>2
      <3>2. made \cap H!Of(backend) = {}
        BY <2>2, <2>5, <3>1
      <3> QED BY <2>4, <2>5, <3>2 DEF Lived, H!Lifetimes
    <2>6. CASE M # {}
      <3>1. M \subseteq Nat
        BY <2>1, <2>2, Domains
      <3>2. n \in M /\ \A j \in M : n <= j
        BY <2>3, <2>6, <3>1, FirstOf
      <3>3. ASSUME NEW c \in made, s[n] \in H!Parents(c) PROVE FALSE
        <4>1. c \in AllObjects /\ n \in DOMAIN s
          BY <2>2, <3>2 DEF Lived
        <4>2. PICK j \in DOMAIN s : j < n /\ s[j] = c
          BY <2>1, <3>3, <4>1, ChildrenFirst
        <4>3. j \in M /\ j \in Nat /\ n \in Nat
          BY <2>2, <3>1, <3>2, <4>2
        <4> QED BY <3>2, <4>2, <4>3
      <3> QED BY <2>4, <2>6, <3>3 DEF Lived, H!Lifetimes
    <2> QED BY <2>5, <2>6
  <1>7. CASE H!Shape
    <2>1. UNCHANGED <<doing, H!objects, faults>>
      BY <1>7 DEF H!Shape, H!SetMode, H!SetFull, H!Resized, H!Drag
    <2> QED BY <2>1 DEF H!objects, Lived, H!Lifetimes
  <1>8. CASE UNCHANGED H!vars
    BY <1>8 DEF H!vars, H!objects, Lived, H!Lifetimes
  <1> QED BY <1>1, <1>2, <1>3, <1>4, <1>5, <1>6, <1>7, <1>8 DEF H!Next, H!Life

\* Sizes of a window.
Panes == (Nat \ {0}) \X (Nat \ {0})

\* Widths that the output may have.
Wide(w) == w \in H!Display - 64..H!OutMax /\ w % 2 = 0

\* The clamp gives a width the output may have.
LEMMA ClampFits == \A w \in Int : Wide(H!Clamp(w))
  <1> SUFFICES ASSUME NEW w \in Int PROVE Wide(H!Clamp(w))
    OBVIOUS
  <1>1. PICK in \in 288..960 : in = IF w < 288 THEN 288 ELSE IF w > 960 THEN 960 ELSE w
    OBVIOUS
  <1>2. H!Clamp(w) = in - (in % 2)
    BY <1>1 DEF H!Clamp, H!Display, H!OutMax
  <1>3. in - (in % 2) \in 288..960 /\ (in - (in % 2)) % 2 = 0
    BY <1>1
  <1> QED BY <1>2, <1>3 DEF Wide, H!Display, H!OutMax

\* And leaves such a width alone.
LEMMA ClampKeeps == \A w : Wide(w) => H!Clamp(w) = w
  BY DEF H!Clamp, Wide, H!Display, H!OutMax

\* Every setting gives a width the output may have, in every window.
LEMMA WidthIs == \A m, win : win \in Panes => Wide(H!WidthOf(m, win))
  <1> SUFFICES ASSUME NEW m, NEW win \in Panes PROVE Wide(H!WidthOf(m, win))
    OBVIOUS
  <1>1. (H!H * win[1]) \div win[2] \in Int
    <2>1. PICK a \in Nat, b \in Nat \ {0} : a = H!H * win[1] /\ b = win[2]
      BY DEF Panes, H!H
    <2> QED BY <2>1
  <1>2. (H!H * 16) \div 9 \in Int /\ (H!H * 21) \div 9 \in Int /\ H!Width43 \in Int
    BY DEF H!H, H!Width43
  <1> QED BY <1>1, <1>2, ClampFits DEF H!WidthOf

\* A fixed shape does not ask for the window.
LEMMA FixedWidth == \A m \in H!Fixed : \A a, b : H!WidthOf(m, a) = H!WidthOf(m, b)
  BY DEF H!Fixed, H!WidthOf

\* A window opened for a width gives that width back.
LEMMA OwnShape ==
  ASSUME NEW w, Wide(w)
  PROVE  <<w * 2, H!H * 2>> \in Panes /\ H!WidthOf("auto", <<w * 2, H!H * 2>>) = w
  <1>1. w \in Nat /\ w > 0
    BY DEF Wide, H!Display, H!OutMax
  <1>2. w * 2 \in Nat \ {0} /\ H!H * 2 = 564 /\ H!H = 282
    BY <1>1 DEF H!H
  <1>3. (282 * (w * 2)) \div 564 = w
    BY <1>1
  <1>4. H!WidthOf("auto", <<w * 2, H!H * 2>>) = H!Clamp((282 * (w * 2)) \div 564)
    BY <1>2 DEF H!WidthOf
  <1>5. H!Clamp(w) = w
    BY ClampKeeps
  <1> QED BY <1>2, <1>3, <1>4, <1>5 DEF Panes

\* The output's width is the setting's for the window there is, and the knob shows what the window is.
Shaped == /\ wideMode \in H!Fixed \cup {"auto", "unset"}
          /\ full \in BOOLEAN /\ fullKnob \in BOOLEAN /\ queued \in BOOLEAN
          /\ frameOf \in Panes /\ before \in Panes /\ Wide(out)
          /\ (doing \in {"start", "init", "run"} /\ ~queued /\ wideMode = "auto" => out = H!WidthOf("auto", frameOf))
          /\ (wideMode \in H!Fixed => out = H!WidthOf(wideMode, frameOf))
          /\ (doing \in {"start", "init"} => ~full)
          /\ (doing = "run" => fullKnob = full /\ (full => frameOf = Desktop))

\* The inductive invariant of the backends: H!Backed asks that the width fits the window once no resize
\* is queued, which before hw_init holds because the window's size was computed from the width.
BackendInv == Lived /\ Shaped

\* It implies what is promised of them.
LEMMA BackendSafe == BackendInv => H!Backed
  <1> SUFFICES ASSUME BackendInv PROVE H!Backed
    OBVIOUS
  <1>1. H!TypeOK
    BY DEF BackendInv, Lived, Shaped, H!TypeOK, AllObjects, Wide, H!Display, H!OutMax
  <1>2. H!WidthFits
    BY DEF BackendInv, Shaped, H!WidthFits, Wide
  <1> QED BY <1>1, <1>2 DEF BackendInv, Lived, Shaped, H!FullIsSet, H!Backed

\* The first width is the setting's for the window that will be opened.
LEMMA ShapedStarts == H!Init => Shaped
  <1> SUFFICES ASSUME H!Init PROVE Shaped
    OBVIOUS
  <1>1. Desktop \in Panes
    BY BackendAssumed DEF H!BackendAssumption, Panes
  <1>2. Wide(out)
    <2>1. Wide(H!Display)
      BY DEF Wide, H!Display, H!OutMax
    <2>2. Wide(H!Clamp((H!H * 16) \div 9))
      BY ClampFits DEF H!H
    <2> QED BY <1>1, <2>1, <2>2, WidthIs DEF H!Init
  <1>3. frameOf \in Panes /\ H!WidthOf("auto", frameOf) = out
    BY <1>2, OwnShape DEF H!Init
  <1>4. wideMode \in H!Fixed => out = H!WidthOf(wideMode, frameOf)
    <2>1. wideMode \in H!Fixed => out = H!WidthOf(wideMode, Desktop)
      BY DEF H!Init, H!Fixed
    <2> QED BY <2>1, FixedWidth
  <1> QED BY <1>2, <1>3, <1>4 DEF H!Init, Shaped

\* Settings, drags of the window, full screen and resize events keep it.
LEMMA ShapedSteps ==
  ASSUME Shaped, H!Next \/ UNCHANGED H!vars
  PROVE  Shaped'
  <1>0. Desktop \in Panes /\ Windows \subseteq Panes
    BY BackendAssumed DEF H!BackendAssumption, Panes
  <1>1. CASE H!Select \/ H!Make \/ H!Present \/ H!Close \/ H!Destroy
    <2>1. UNCHANGED H!size /\ (doing' = doing \/ (doing = "start" /\ doing' = "init") \/ doing' \in {"refused", "closing", "closed", "died"})
      <3>1. CASE H!Select \/ H!Present \/ H!Close \/ H!Destroy
        BY <3>1 DEF H!Select, H!Present, H!Close, H!Destroy
      <3>2. CASE H!Make
        <4>1. PICK x : (H!Makes(x) \/ H!Misses(x) \/ H!FallsBack(x)) /\ UNCHANGED H!size /\ doing = "init"
          BY <3>2 DEF H!Make
        <4> QED BY <4>1 DEF H!Makes, H!Misses, H!FallsBack
      <3> QED BY <1>1, <3>1, <3>2
    <2> QED BY <2>1 DEF H!size, Shaped
  <1>2. CASE H!Started
    BY <1>0, <1>2, FixedWidth DEF H!Started, Shaped
  <1>3. ASSUME NEW m \in H!Fixed \cup {"auto"}, H!SetMode(m) PROVE Shaped'
    <2>1. PICK w : w = H!WidthOf(m, frameOf)
      OBVIOUS
    <2>2. /\ doing = "run" /\ wideMode' = m /\ out' = w /\ UNCHANGED <<doing, before, full, fullKnob>>
          /\ IF m \in H!Fixed /\ w # out /\ ~full THEN frameOf' = <<w * 2, H!H * 2>> /\ queued' = TRUE
             ELSE UNCHANGED <<frameOf, queued>>
      BY <1>3, <2>1 DEF H!SetMode, H!Refresh, H!Fits, H!Fixed
    <2>3. Wide(w)
      BY <2>1, WidthIs DEF Shaped
    <2>4. CASE m \in H!Fixed /\ w # out /\ ~full
      <3>1. frameOf' \in Panes
        BY <2>2, <2>3, <2>4, OwnShape
      <3>2. w = H!WidthOf(m, frameOf')
        BY <2>1, <2>4, FixedWidth
      <3>3. wideMode' # "auto"
        BY <2>2, <2>4 DEF H!Fixed
      <3> QED BY <2>2, <2>3, <2>4, <3>1, <3>2, <3>3 DEF Shaped
    <2>5. CASE ~(m \in H!Fixed /\ w # out /\ ~full)
      BY <2>1, <2>2, <2>3, <2>5 DEF Shaped
    <2> QED BY <2>4, <2>5
  <1>4. CASE H!SetFull
    BY <1>0, <1>4, FixedWidth DEF H!SetFull, Shaped
  <1>5. CASE H!Resized
    <2>1. out' = IF wideMode = "auto" THEN H!WidthOf("auto", frameOf) ELSE out
      BY <1>5 DEF H!Resized
    <2>2. Wide(out')
      BY <2>1, WidthIs DEF Shaped
    <2> QED BY <1>5, <2>1, <2>2 DEF H!Resized, Shaped, H!Fixed
  <1>6. ASSUME NEW w \in Windows, H!Drag(w) PROVE Shaped'
    BY <1>0, <1>6, FixedWidth DEF H!Drag, Shaped
  <1>7. CASE UNCHANGED H!vars
    BY <1>7 DEF H!vars, H!size, Shaped
  <1> QED BY <1>1, <1>2, <1>3, <1>4, <1>5, <1>6, <1>7 DEF H!Next, H!Life, H!Shape

-----------------------------------------------------------------------------
(* The frame clock. *)

\* The speeds there are.
Rates == Speeds \cup {FastPct}

\* What the model's unit of time gives: a whole number of units to a PAL frame.
LEMMA PalIs == /\ F!Pal \in Nat /\ F!Pal > 0 /\ Second = 50 * F!Pal
               /\ F!Stall \in Nat /\ F!Stall = StallFrames * F!Pal /\ F!Stall >= 2 * F!Pal
  <1>1. Second \in Nat /\ Second > 0 /\ Second % 50 = 0 /\ StallFrames \in Nat /\ StallFrames >= 2
    BY PacingAssumed DEF F!PacingAssumption
  <1>2. F!Pal \in Nat /\ Second = 50 * F!Pal
    BY <1>1 DEF F!Pal
  <1>3. F!Pal > 0
    BY <1>1, <1>2
  <1>4. \A a, b \in Nat : a >= 2 => a * b \in Nat /\ a * b >= 2 * b
    OBVIOUS
  <1>5. F!Stall \in Nat /\ F!Stall >= 2 * F!Pal
    BY <1>1, <1>2, <1>4 DEF F!Stall
  <1> QED BY <1>2, <1>3, <1>5 DEF F!Stall

\* A factor may be cancelled.
LEMMA Cancels ==
  ASSUME NEW x \in Int, NEW y \in Int, NEW b \in Nat, b > 0
  PROVE  (x * b <= y * b => x <= y) /\ (x * b < y * b => x < y)
  <1>1. ASSUME x > y PROVE x * b > y * b
    <2>1. x * b = y * b + (x - y) * b
      OBVIOUS
    <2>2. \A k \in Nat : k >= 1 => k * b >= b
      OBVIOUS
    <2>3. (x - y) * b >= b
      BY <1>1, <2>2
    <2>4. x * b \in Int /\ y * b \in Int /\ (x - y) * b \in Int
      OBVIOUS
    <2> QED BY <2>1, <2>3, <2>4
  <1>2. x = y => x * b = y * b
    OBVIOUS
  <1>3. x * b \in Int /\ y * b \in Int
    OBVIOUS
  <1> QED BY <1>1, <1>2, <1>3

\* The quotient is the greatest one that fits.
LEMMA Quotient ==
  ASSUME NEW a \in Nat, NEW b \in Nat, b > 0
  PROVE  (a \div b) \in Nat /\ (a \div b) * b <= a /\ a < (a \div b) * b + b
  OBVIOUS

\* A speed is a percentage of PAL at which a frame takes a unit of time or more.
LEMMA PctIs == \A pct \in Rates : pct \in Nat /\ pct > 0 /\ pct <= 2 * Second /\ (100 * Second * Exact) % (50 * pct) = 0
  BY PacingAssumed DEF F!PacingAssumption, Rates

\* An offset is a time, and the first frame's is none.
LEMMA OffsetIs ==
  ASSUME NEW n \in Nat, NEW pct \in Nat, pct > 0
  PROVE  F!Offset(n, pct) \in Nat /\ F!Offset(0, pct) = 0
  <1>1. n * Second * 100 \in Nat /\ 50 * pct \in Nat /\ 50 * pct > 0
    BY PacingAssumed DEF F!PacingAssumption
  <1>2. 0 * Second * 100 = 0
    BY PacingAssumed DEF F!PacingAssumption
  <1>3. \A b \in Nat : b > 0 => (0 \div b) = 0
    OBVIOUS
  <1> QED BY <1>1, <1>2, <1>3, Quotient DEF F!Offset

\* PAL's own is a whole number of frames.
LEMMA OfPalFrames == \A n \in Nat : F!Offset(n, 100) = n * F!Pal
  <1> TAKE n \in Nat
  <1>1. PICK m \in Nat : m = n * F!Pal
    BY PalIs
  <1>2. n * Second * 100 = 5000 * m
    <2>1. n * (50 * F!Pal) * 100 = 5000 * (n * F!Pal)
      BY PalIs
    <2> QED BY <1>1, <2>1, PalIs
  <1>3. (5000 * m) \div (50 * 100) = m
    OBVIOUS
  <1> QED BY <1>1, <1>2, <1>3 DEF F!Offset

\* The exact period of a speed, and what its rounded multiples are of it.
ExactPeriod(pct) == (100 * Second * Exact) \div (50 * pct)

LEMMA Exactly ==
  ASSUME NEW n \in Nat, NEW pct \in Rates
  PROVE  LET x == ExactPeriod(pct)
             o == F!Offset(n, pct)
         IN x \in Nat /\ x >= Exact /\ o * Exact <= n * x /\ n * x < o * Exact + Exact
  <1>0. /\ pct \in Nat /\ pct > 0 /\ pct <= 2 * Second /\ (100 * Second * Exact) % (50 * pct) = 0
        /\ Second \in Nat /\ Exact \in Nat /\ Exact > 0
    BY PctIs, PacingAssumed DEF F!PacingAssumption
  <1>1. PICK b \in Nat : b = 50 * pct /\ b > 0 /\ b <= 100 * Second
    BY <1>0
  <1>2. PICK c \in Nat : c = 100 * Second * Exact
    BY <1>0
  <1>3. PICK x \in Nat : x = ExactPeriod(pct) /\ x = c \div b
    BY <1>1, <1>2, Quotient DEF ExactPeriod
  <1>4. x * b = c
    <2>1. c % b = 0
      BY <1>0, <1>1, <1>2
    <2>2. \A s, t \in Nat : t > 0 /\ s % t = 0 => (s \div t) * t = s
      OBVIOUS
    <2> QED BY <1>1, <1>3, <2>1, <2>2
  <1>5. PICK a \in Nat : a = n * Second * 100
    BY <1>0
  <1>6. PICK o \in Nat : o = F!Offset(n, pct) /\ o * b <= a /\ a < o * b + b
    BY <1>1, <1>5, Quotient DEF F!Offset
  <1>7. (n * x) * b = a * Exact
    <2>1. (n * x) * b = n * (x * b)
      OBVIOUS
    <2>2. a * Exact = n * (100 * Second * Exact)
      BY <1>0, <1>5
    <2> QED BY <1>2, <1>4, <2>1, <2>2
  <1>8. x >= Exact
    <2>1. Exact * b <= Exact * (100 * Second)
      BY <1>0, <1>1
    <2>2. Exact * (100 * Second) = c
      BY <1>0, <1>2
    <2> QED BY <1>0, <1>1, <1>4, <2>1, <2>2, Cancels
  <1>9. o * Exact <= n * x
    <2>1. (o * b) * Exact <= a * Exact
      BY <1>0, <1>6
    <2>2. (o * Exact) * b = (o * b) * Exact
      BY <1>0
    <2>3. o * Exact \in Int /\ n * x \in Int
      BY <1>0
    <2>4. (o * Exact) * b <= (n * x) * b
      BY <1>7, <2>1, <2>2
    <2> QED BY <1>1, <2>3, <2>4, Cancels
  <1>10. n * x < o * Exact + Exact
    <2>1. a * Exact < (o * b + b) * Exact
      BY <1>0, <1>6, Cancels
    <2>2. (o * Exact + Exact) * b = (o * b + b) * Exact
      BY <1>0
    <2>3. o * Exact + Exact \in Int /\ n * x \in Int
      BY <1>0
    <2>4. (n * x) * b < (o * Exact + Exact) * b
      BY <1>7, <2>1, <2>2
    <2> QED BY <1>1, <2>3, <2>4, Cancels
  <1> QED BY <1>3, <1>6, <1>8, <1>9, <1>10
-----------------------------------------------------------------------------
(* What a pacer holds. *)

\* The kinds of what a pacer holds.
Pacers == [pct : Rates \cup {100}, refresh : Modes \cup {0}, always : BOOLEAN, epoch : Nat,
           frames : 0..RebaseEvery - 1, started : BOOLEAN]

\* The exact period of a pacer.
Period(p) == IF F!Holds(p) # 0 THEN F!Holds(p) * p.refresh * Exact ELSE ExactPeriod(p.pct)

\* They are numbers.
LEMMA FieldsIn ==
  ASSUME NEW p \in Pacers
  PROVE  /\ p.pct \in Nat /\ p.pct > 0 /\ p.refresh \in Nat /\ p.epoch \in Nat /\ p.frames \in Nat /\ p.frames < RebaseEvery
         /\ p.always \in BOOLEAN /\ p.started \in BOOLEAN
         /\ RebaseEvery \in Nat /\ RebaseEvery > 0 /\ Exact \in Nat /\ Exact > 0
  BY PacingAssumed, PctIs DEF F!PacingAssumption, Pacers

\* The larger of one and another number.
LEMMA LargerOf == \A a \in Int : F!Max({1, a}) \in {1, a} /\ F!Max({1, a}) >= 1
  <1> TAKE a \in Int
  <1>1. \E x \in {1, a} : \A y \in {1, a} : x >= y
    OBVIOUS
  <1>2. F!Max({1, a}) \in {1, a} /\ \A y \in {1, a} : F!Max({1, a}) >= y
    BY <1>1 DEF F!Max
  <1> QED BY <1>2

\* A frame is held for a whole number of refreshes where the display's is known, or for none.
LEMMA HoldsIn ==
  ASSUME NEW p \in Pacers
  PROVE  F!Holds(p) \in Nat /\ (F!Holds(p) # 0 => p.refresh > 0)
  <1>1. CASE p.refresh = 0
    BY <1>1 DEF F!Holds
  <1>2. CASE p.refresh > 0
    <2>1. PICK ask \in Nat : ask = F!Offset(1, p.pct)
      BY FieldsIn, OffsetIs
    <2>2. PICK h \in Nat : h = (ask + (p.refresh \div 2)) \div p.refresh
      <3>1. PICK k \in Nat : k = p.refresh \div 2
        BY FieldsIn
      <3> QED BY <1>2, <2>1, <3>1, FieldsIn, Quotient
    <2>3. PICK m \in Nat : m = F!Max({1, h})
      BY LargerOf
    <2>4. F!Holds(p) \in {0, m}
      BY <2>1, <2>2, <2>3 DEF F!Holds
    <2> QED BY <1>2, <2>3, <2>4
  <1> QED BY <1>1, <1>2, FieldsIn

\* A deadline is the floor of the exact one, and a frame takes a unit of time at least.
LEMMA DeadlineIs ==
  ASSUME NEW p \in Pacers, p.pct \in Rates, NEW n \in Nat
  PROVE  /\ F!Deadline(p, n) \in Nat /\ Period(p) \in Nat
         /\ (F!Deadline(p, n) - p.epoch) * Exact <= n * Period(p)
         /\ n * Period(p) < (F!Deadline(p, n) - p.epoch) * Exact + Exact
         /\ F!Deadline(p, 0) = p.epoch /\ F!Deadline(p, n) >= p.epoch
         /\ n > 0 => F!Deadline(p, n) > p.epoch
  <1>0. p.epoch \in Nat /\ Exact \in Nat /\ Exact > 0 /\ p.refresh \in Nat /\ p.pct \in Nat /\ p.pct > 0
    BY FieldsIn
  <1>1. PICK h \in Nat : h = F!Holds(p) /\ (h # 0 => p.refresh > 0)
    BY HoldsIn
  <1>2. CASE h # 0
    <2>1. PICK u \in Nat : u = h * p.refresh /\ u > 0
      BY <1>0, <1>1, <1>2
    <2>2. Period(p) = u * Exact
      BY <1>1, <1>2, <2>1 DEF Period
    <2>3. \A m \in Nat : F!Deadline(p, m) = p.epoch + m * u
      <3> TAKE m \in Nat
      <3>1. (m * h) * p.refresh = m * u
        BY <1>0, <2>1
      <3> QED BY <1>1, <1>2, <3>1 DEF F!Deadline
    <2>4. PICK k \in Nat : k = n * u /\ (n > 0 => k > 0)
      BY <2>1
    <2>5. n * Period(p) = k * Exact
      BY <1>0, <2>1, <2>2, <2>4
    <2>6. F!Deadline(p, n) - p.epoch = k
      BY <1>0, <2>3, <2>4
    <2>7. 0 * u = 0
      BY <2>1
    <2>8. Period(p) \in Nat
      BY <1>0, <2>1, <2>2
    <2>9. k * Exact \in Nat
      BY <1>0
    <2> QED BY <1>0, <2>3, <2>4, <2>5, <2>6, <2>7, <2>8, <2>9
  <1>3. CASE h = 0
    <2>1. PICK o \in Nat : o = F!Offset(n, p.pct)
      BY <1>0, OffsetIs
    <2>2. F!Deadline(p, n) = p.epoch + o /\ Period(p) = ExactPeriod(p.pct)
      BY <1>1, <1>3, <2>1 DEF F!Deadline, Period
    <2>3. F!Deadline(p, 0) = p.epoch
      BY <1>0, <1>1, <1>3, OffsetIs DEF F!Deadline
    <2>4. PICK x \in Nat : x = Period(p) /\ x >= Exact /\ o * Exact <= n * x /\ n * x < o * Exact + Exact
      BY <2>1, <2>2, Exactly
    <2>5. n > 0 => o > 0
      <3>1. n > 0 => n * x >= x
        BY <2>4
      <3>2. o = 0 => o * Exact = 0
        BY <1>0
      <3> QED BY <2>4, <3>1, <3>2, <1>0
    <2>6. F!Deadline(p, n) - p.epoch = o
      BY <1>0, <2>2
    <2> QED BY <1>0, <2>2, <2>3, <2>4, <2>5, <2>6
  <1> QED BY <1>2, <1>3

\* What a change makes of a pacer: nothing, or one that starts where the frame now due was due.
AtSeam(p, q) == /\ q \in Pacers /\ q.started = p.started
                /\ q = p \/ (q.started => q.frames = 0 /\ q.epoch = F!Deadline(p, p.frames))

\* Speed, match and refresh are each changed at the deadline now due.
LEMMA SeamShifts ==
  ASSUME NEW p \in Pacers, p.started => p.pct \in Rates
  PROVE  /\ F!Seam(p) \in Pacers /\ F!Seam(p).started = p.started
         /\ p.started => F!Seam(p).frames = 0 /\ F!Seam(p).epoch = F!Deadline(p, p.frames)
         /\ \A pct \in Rates : AtSeam(p, [F!Seam(p) EXCEPT !.pct = pct])
         /\ \A a \in BOOLEAN : AtSeam(p, [F!Seam(p) EXCEPT !.always = a])
         /\ \A r \in Modes \cup {0} : AtSeam(p, [F!Seam(p) EXCEPT !.refresh = r])
  <1>1. CASE p.started
    <2>1. PICK d \in Nat : d = F!Deadline(p, p.frames)
      BY <1>1, FieldsIn, DeadlineIs
    <2>2. F!Seam(p) = [p EXCEPT !.epoch = d, !.frames = 0]
      BY <1>1, <2>1 DEF F!Seam, F!Rebased
    <2>3. 0 \in 0..RebaseEvery - 1
      BY FieldsIn
    <2>4. PICK s : s = F!Seam(p)
      OBVIOUS
    <2>5. s \in Pacers /\ s.started /\ s.frames = 0 /\ s.epoch = d
      <3>1. s = [p EXCEPT !.epoch = d, !.frames = 0]
        BY <2>2, <2>4
      <3>2. PICK e : e = [p EXCEPT !.epoch = d]
        OBVIOUS
      <3>3. e \in Pacers /\ e.started = p.started /\ e.epoch = d
        BY <3>2 DEF Pacers
      <3>4. s = [e EXCEPT !.frames = 0]
        BY <3>1, <3>2
      <3>5. s \in Pacers /\ s.started = e.started /\ s.frames = 0 /\ s.epoch = e.epoch
        BY <2>3, <3>3, <3>4 DEF Pacers
      <3> QED BY <1>1, <3>3, <3>5
    <2>6. ASSUME NEW q, \/ \E pct \in Rates : q = [s EXCEPT !.pct = pct]
                        \/ \E a \in BOOLEAN : q = [s EXCEPT !.always = a]
                        \/ \E m \in Modes \cup {0} : q = [s EXCEPT !.refresh = m]
          PROVE  q \in Pacers /\ q.started /\ q.frames = 0 /\ q.epoch = d
      BY <2>5, <2>6 DEF Pacers
    <2>7. \A q : (q \in Pacers /\ q.started /\ q.frames = 0 /\ q.epoch = d) => AtSeam(p, q)
      BY <1>1, <2>1 DEF AtSeam
    <2> QED BY <1>1, <2>1, <2>4, <2>5, <2>6, <2>7
  <1>2. CASE ~p.started
    BY <1>2 DEF F!Seam, Pacers, AtSeam
  <1> QED BY <1>1, <1>2

\* A second change in one pass finds nothing more to move.
LEMMA ShiftsOn ==
  ASSUME NEW p \in Pacers, NEW q, NEW r, AtSeam(p, q), AtSeam(q, r), q.started => q.pct \in Rates
  PROVE  AtSeam(p, r)
  <1>1. q.started => F!Deadline(q, 0) = q.epoch
    BY DeadlineIs DEF AtSeam
  <1> QED BY <1>1 DEF AtSeam

\* The pacer a frame asks for is the last one's, resynchronised by a hold and moved to its deadline by changes.
LEMMA AskedIs ==
  ASSUME NEW p \in Pacers, p.started => p.pct \in Rates, F!Effective \in Rates, mode \in Modes, NEW rest \in Nat
  PROVE  /\ F!Asked(p, rest) \in Pacers /\ F!Asked(p, rest).pct \in Rates
         /\ F!Asked(p, rest).started = (p.started /\ rest = 0)
         /\ F!Asked(p, rest).started => AtSeam(p, F!Asked(p, rest))
  <1>1. PICK p0 : p0 = F!AfterHold(p, rest)
    OBVIOUS
  <1>2. p0 \in Pacers /\ p0.started = (p.started /\ rest = 0) /\ (p0.started => p0 = p)
    <2>1. CASE rest > 0
      <3>1. p0 = [p EXCEPT !.started = FALSE]
        BY <1>1, <2>1 DEF F!AfterHold, F!Resync
      <3>2. p0 \in Pacers /\ p0.started = FALSE
        BY <3>1 DEF Pacers
      <3>3. (p.started /\ rest = 0) = FALSE
        BY <2>1
      <3> QED BY <3>2, <3>3
    <2>2. CASE rest = 0
      <3>1. p0 = p
        BY <1>1, <2>2 DEF F!AfterHold
      <3> QED BY <2>2, <3>1, FieldsIn
    <2> QED BY <2>1, <2>2
  <1>3. PICK e \in Rates : e = F!Effective
    OBVIOUS
  <1>4. PICK q : q = F!WithSpeed(p0, e)
    OBVIOUS
  <1>5. AtSeam(p0, q) /\ q.pct \in Rates
    <2>1. CASE e = p0.pct
      BY <1>2, <1>4, <2>1 DEF F!WithSpeed, AtSeam
    <2>2. CASE e # p0.pct
      <3>1. q = [F!Seam(p0) EXCEPT !.pct = e]
        BY <1>4, <2>2 DEF F!WithSpeed
      <3>2. AtSeam(p0, q)
        BY <1>2, <3>1, SeamShifts
      <3>3. q.pct = e
        BY <1>2, <3>1, SeamShifts DEF Pacers
      <3> QED BY <3>2, <3>3
    <2> QED BY <2>1, <2>2
  <1>6. ASSUME NEW s \in Pacers, s.pct \in Rates, NEW a \in BOOLEAN
        PROVE  AtSeam(s, F!WithMatch(s, a)) /\ F!WithMatch(s, a).pct = s.pct
    <2>1. CASE a = s.always
      BY <1>6, <2>1 DEF F!WithMatch, AtSeam
    <2>2. CASE a # s.always
      <3>1. F!WithMatch(s, a) = [F!Seam(s) EXCEPT !.always = a]
        BY <2>2 DEF F!WithMatch
      <3>2. F!Seam(s).pct = s.pct
        BY <1>6 DEF F!Seam, F!Rebased, Pacers
      <3> QED BY <1>6, <3>1, <3>2, SeamShifts DEF Pacers
    <2> QED BY <2>1, <2>2
  <1>7. ASSUME NEW s \in Pacers, s.pct \in Rates, NEW r \in Modes \cup {0}
        PROVE  AtSeam(s, F!WithRefresh(s, r)) /\ F!WithRefresh(s, r).pct = s.pct
    <2>1. CASE r = s.refresh
      BY <1>7, <2>1 DEF F!WithRefresh, AtSeam
    <2>2. CASE r # s.refresh
      <3>1. F!WithRefresh(s, r) = [F!Seam(s) EXCEPT !.refresh = r]
        BY <2>2 DEF F!WithRefresh
      <3>2. F!Seam(s).pct = s.pct
        BY <1>7 DEF F!Seam, F!Rebased, Pacers
      <3> QED BY <1>7, <3>1, <3>2, SeamShifts DEF Pacers
    <2> QED BY <2>1, <2>2
  <1>8. PICK m : m = F!WithMatch(q, how = "always")
    OBVIOUS
  <1>9. q \in Pacers /\ m \in Pacers /\ AtSeam(q, m) /\ m.pct \in Rates
    BY <1>5, <1>6, <1>8 DEF AtSeam
  <1>10. PICK z : z = F!Asked(p, rest) /\ (z = F!WithRefresh(m, mode) \/ z = F!WithRefresh(q, 0))
    BY <1>1, <1>3, <1>4, <1>8 DEF F!Asked
  <1>11. AtSeam(p0, z) /\ z.pct \in Rates
    <2>1. CASE z = F!WithRefresh(m, mode)
      <3>1. AtSeam(m, z) /\ z.pct \in Rates
        BY <1>7, <1>9, <2>1
      <3>2. AtSeam(q, z)
        BY <1>9, <3>1, ShiftsOn
      <3> QED BY <1>2, <1>5, <3>1, <3>2, ShiftsOn
    <2>2. CASE z = F!WithRefresh(q, 0)
      <3>1. AtSeam(q, z) /\ z.pct \in Rates
        BY <1>5, <1>7, <1>9, <2>2
      <3> QED BY <1>2, <1>5, <3>1, ShiftsOn
    <2> QED BY <1>10, <2>1, <2>2
  <1> QED BY <1>2, <1>10, <1>11 DEF AtSeam
\* The longest a sleep oversleeps.
LEMMA LatestIs == F!Max(Lates) \in Nat /\ \A l \in Lates : l \in Nat /\ l <= F!Max(Lates)
  <1>1. Lates \subseteq Nat /\ \E most \in Lates : \A l \in Lates : l <= most
    BY PacingAssumed DEF F!PacingAssumption
  <1>2. \E most \in Lates : \A l \in Lates : most >= l
    BY <1>1
  <1>3. F!Max(Lates) \in Lates /\ \A l \in Lates : F!Max(Lates) >= l
    BY <1>2 DEF F!Max
  <1> QED BY <1>1, <1>3

-----------------------------------------------------------------------------
(* The deadlines. *)

\* What a deadline has lost of the exact one: less than a unit each time it was rounded.
Lost(p, exact) == exact - p.epoch * Exact - p.frames * Period(p)

\* The kinds of what the clock holds.
ClockOK == /\ now \in 0..MaxNow /\ due \in Nat /\ seams \in Nat
           /\ pace \in Pacers /\ (pace.started => pace.pct \in Rates)
           /\ knob \in Speeds /\ fast \in BOOLEAN /\ mode \in Modes

\* The inductive invariant of the deadlines.
OnTime == pace.started => /\ Lost(pace, due) \in 0..seams * (Exact - 1)
                          /\ F!Deadline(pace, pace.frames) <= now
                          /\ now <= F!Deadline(pace, pace.frames) + F!Stall + F!Max(Lates)

\* The invariant puts a frame where whole periods of its speeds put it, less what was rounded since.
LEMMA ScheduleKept ==
  ASSUME ClockOK, OnTime
  PROVE  F!OnSchedule
  <1> SUFFICES ASSUME pace.started PROVE
        LET d == F!Deadline(pace, pace.frames)
        IN d * Exact <= due /\ due < (d + seams + 1) * Exact
    BY DEF F!OnSchedule, OnTime
  <1>1. /\ Exact \in Nat /\ Exact > 0 /\ pace.epoch \in Nat /\ pace.frames \in Nat /\ due \in Nat /\ seams \in Nat
        /\ pace \in Pacers /\ pace.pct \in Rates
    BY FieldsIn DEF ClockOK
  <1>2. PICK d \in Nat : d = F!Deadline(pace, pace.frames)
    BY <1>1, DeadlineIs
  <1>3. PICK x \in Nat : x = pace.frames * Period(pace)
    BY <1>1, DeadlineIs
  <1>4. PICK a \in Int : a = (d - pace.epoch) * Exact /\ a <= x /\ x < a + Exact
    BY <1>1, <1>2, <1>3, DeadlineIs
  <1>5. PICK e \in Nat : e = pace.epoch * Exact
    BY <1>1
  <1>6. PICK f \in Nat : f = d * Exact
    BY <1>1
  <1>7. a = f - e
    BY <1>1, <1>4, <1>5, <1>6
  <1>8. PICK s \in Nat : s = seams * Exact
    BY <1>1
  <1>9. seams * (Exact - 1) = s - seams
    BY <1>1, <1>8
  <1>10. (d + seams + 1) * Exact = f + s + Exact
    BY <1>1, <1>6, <1>8
  <1>11. due - e - x \in 0..(s - seams)
    BY <1>3, <1>5, <1>9 DEF OnTime, Lost
  <1> QED BY <1>1, <1>2, <1>4, <1>6, <1>7, <1>10, <1>11

\* A change loses less than a unit, and nothing where no frame was paced since the clock was last set.
LEMMA ShiftLoses ==
  ASSUME ClockOK, OnTime, NEW q, AtSeam(pace, q), q.started, q.pct \in Rates
  PROVE  /\ Lost(q, due) \in Nat
         /\ q.epoch = pace.epoch \/ q = pace => Lost(q, due) <= seams * (Exact - 1)
         /\ q.epoch # pace.epoch => Lost(q, due) <= (seams + 1) * (Exact - 1)
         /\ q.epoch # pace.epoch => q.frames = 0 /\ RebaseEvery > 1
  <1>0. /\ pace.started /\ pace \in Pacers /\ pace.pct \in Rates /\ q \in Pacers /\ due \in Nat /\ seams \in Nat
        /\ Exact \in Nat /\ Exact > 0 /\ RebaseEvery \in Nat
    BY FieldsIn DEF ClockOK, AtSeam
  <1>1. PICK n \in Nat : n = pace.frames /\ n < RebaseEvery
    BY <1>0, FieldsIn
  <1>2. PICK e \in Nat : e = pace.epoch
    BY <1>0, FieldsIn
  <1>3. PICK m \in Nat : m = seams * (Exact - 1) /\ (seams + 1) * (Exact - 1) = m + Exact - 1
    BY <1>0
  <1>4. PICK l \in 0..m : l = Lost(pace, due)
    BY <1>0, <1>3 DEF OnTime
  <1>5. CASE q = pace
    BY <1>3, <1>4, <1>5
  <1>6. CASE q # pace
    <2>1. PICK d \in Nat : d = F!Deadline(pace, n) /\ q.epoch = d /\ q.frames = 0
      BY <1>0, <1>1, <1>6, DeadlineIs DEF AtSeam
    <2>2. PICK x \in Nat : x = n * Period(pace)
      BY <1>0, DeadlineIs
    <2>3. PICK a \in Int : a = (d - e) * Exact /\ a <= x /\ x < a + Exact
      BY <1>0, <1>2, <2>1, <2>2, DeadlineIs
    <2>4. PICK ee \in Nat : ee = e * Exact
      BY <1>0
    <2>5. d * Exact = a + ee
      BY <1>0, <2>3, <2>4
    <2>6. l = due - ee - x
      BY <1>1, <1>2, <1>4, <2>2, <2>4 DEF Lost
    <2>7. q.frames * Period(q) = 0
      BY <1>0, <2>1, DeadlineIs
    <2>8. Lost(q, due) = due - (a + ee)
      BY <1>0, <2>1, <2>3, <2>4, <2>5, <2>7 DEF Lost
    <2>9. n = 0 => d = e
      BY <1>0, <1>1, <1>2, <2>1, DeadlineIs
    <2>10. d = e => a = 0 /\ n = 0
      <3>1. n > 0 => d > e
        BY <1>0, <1>1, <1>2, <2>1, DeadlineIs
      <3> QED BY <1>0, <2>3, <3>1
    <2>11. n = 0 => x = 0
      BY <1>0, <2>2, DeadlineIs
    <2>12. Lost(q, due) = l + (x - a)
      BY <1>0, <2>2, <2>3, <2>4, <2>6, <2>8
    <2>13. x - a \in 0..Exact - 1
      BY <1>0, <2>2, <2>3
    <2> QED BY <1>0, <1>1, <1>2, <1>3, <1>4, <2>1, <2>9, <2>10, <2>11, <2>12, <2>13
  <1> QED BY <1>5, <1>6

\* Reaching a deadline loses nothing, setting the clock at it less than a unit.
LEMMA NextLoses ==
  ASSUME NEW q \in Pacers, q.pct \in Rates, NEW t \in Nat, Lost(q, t) \in Nat,
         NEW d, d = F!Deadline(q, q.frames + 1)
  PROVE  /\ Lost([q EXCEPT !.frames = @ + 1], t + Period(q)) = Lost(q, t)
         /\ Lost(F!Rebased(q, d), t + Period(q)) \in 0..Lost(q, t) + Exact - 1
  <1>0. /\ Exact \in Nat /\ Exact > 0 /\ q.epoch \in Nat /\ q.frames \in Nat /\ d \in Nat /\ Period(q) \in Nat
    BY FieldsIn, DeadlineIs
  <1>1. PICK p \in Nat : p = Period(q)
    BY <1>0
  <1>2. PICK x \in Nat : x = q.frames * p /\ (q.frames + 1) * p = x + p
    BY <1>0
  <1>3. PICK e \in Nat : e = q.epoch * Exact
    BY <1>0
  <1>4. Lost(q, t) = t - e - x
    BY <1>1, <1>2, <1>3 DEF Lost
  <1>5. PICK r : r = [q EXCEPT !.frames = @ + 1]
    OBVIOUS
  <1>6. r.epoch = q.epoch /\ r.frames = q.frames + 1 /\ Period(r) = p
    BY <1>1, <1>5 DEF Pacers, Period, F!Holds
  <1>7. Lost(r, t + p) = (t + p) - e - (x + p)
    BY <1>0, <1>1, <1>2, <1>3, <1>6 DEF Lost
  <1>8. PICK s : s = F!Rebased(q, d)
    OBVIOUS
  <1>9. s.epoch = d /\ s.frames = 0 /\ Period(s) = p
    BY <1>1, <1>8 DEF Pacers, Period, F!Holds, F!Rebased
  <1>10. Lost(s, t + p) = (t + p) - d * Exact
    <2>1. s.frames * Period(s) = 0
      BY <1>1, <1>9
    <2>2. PICK k \in Nat : k = d * Exact
      BY <1>0
    <2> QED BY <1>9, <2>1, <2>2 DEF Lost
  <1>11. PICK a \in Int : a = (d - q.epoch) * Exact /\ a <= x + p /\ x + p < a + Exact
    <2>1. PICK n \in Nat : n = q.frames + 1
      BY <1>0
    <2>2. /\ (F!Deadline(q, n) - q.epoch) * Exact <= n * Period(q)
          /\ n * Period(q) < (F!Deadline(q, n) - q.epoch) * Exact + Exact
      BY DeadlineIs
    <2>3. n * Period(q) = x + p /\ F!Deadline(q, n) = d
      BY <1>1, <1>2, <2>1
    <2>4. (d - q.epoch) * Exact \in Int
      BY <1>0
    <2> QED BY <2>2, <2>3, <2>4
  <1>12. d * Exact = a + e
    BY <1>0, <1>3, <1>11
  <1>13. Lost(s, t + p) = Lost(q, t) + ((x + p) - a)
    BY <1>4, <1>10, <1>12
  <1> QED BY <1>0, <1>1, <1>2, <1>4, <1>5, <1>7, <1>8, <1>11, <1>13
\* The speed asked for is one of them.
LEMMA EffectiveIs == ASSUME ClockOK PROVE F!Effective \in Rates
  BY DEF ClockOK, F!Effective, Rates

\* The clock just set loses nothing and holds the frame that set it.
LEMMA SetIsExact ==
  ASSUME NEW p \in Pacers, p.pct \in Rates, p.frames = 0
  PROVE  Lost(p, p.epoch * Exact) = 0 /\ F!Deadline(p, p.frames) = p.epoch
  <1>1. p.epoch \in Nat /\ Exact \in Nat /\ Period(p) \in Nat /\ F!Deadline(p, p.frames) = p.epoch
    BY FieldsIn, DeadlineIs
  <1>2. p.frames * Period(p) = 0 /\ p.epoch * Exact \in Nat
    BY <1>1
  <1> QED BY <1>1, <1>2 DEF Lost

\* A frame, held for, late, overslept or given up after a stall, keeps the schedule.
LEMMA FrameOnTime ==
  ASSUME ClockOK, OnTime, NEW work \in Works, NEW late \in Lates, NEW rest \in Rests, NEW frozen \in BOOLEAN,
         F!PacedFrame(work, late, rest, frozen)
  PROVE  ClockOK' /\ OnTime'
  <1>0. /\ now \in Nat /\ work \in Nat /\ rest \in Nat /\ late \in Nat /\ late <= F!Max(Lates) /\ F!Max(Lates) \in Nat
        /\ F!Stall \in Nat /\ Exact \in Nat /\ Exact > 0 /\ RebaseEvery \in Nat /\ RebaseEvery > 0
        /\ due \in Nat /\ seams \in Nat /\ pace \in Pacers /\ mode \in Modes /\ MaxNow \in Nat
    BY PacingAssumed, LatestIs, PalIs DEF ClockOK, F!PacingAssumption
  <1>1. PICK t \in Nat : t = now + work + rest
    BY <1>0
  <1>2. PICK q : q = F!Asked(pace, rest)
    OBVIOUS
  <1>3. /\ q \in Pacers /\ q.pct \in Rates /\ q.started = (pace.started /\ rest = 0)
        /\ q.started => AtSeam(pace, q)
    BY <1>0, <1>2, EffectiveIs, AskedIs DEF ClockOK
  <1>4. PICK d \in Nat : d = F!Deadline(q, q.frames + 1)
    BY <1>3, FieldsIn, DeadlineIs
  <1>5. PICK w \in Nat : /\ w = F!Woken(q, t, late)
                         /\ q.started /\ t < d => w = d + late
                         /\ ~(q.started /\ t < d) => w = t
    BY <1>0, <1>4 DEF F!Woken
  <1>6. /\ w <= MaxNow /\ now' = w /\ pace' = F!Waited(q, t) /\ F!Scheduled(q, rest, t, w)
        /\ UNCHANGED <<knob, fast, mode>>
    <2>1. w = F!Woken(F!Asked(pace, rest), (now + work) + rest, late)
      BY <1>1, <1>2, <1>5
    <2> QED BY <1>1, <1>2, <2>1 DEF F!PacedFrame
  <1>7. now' \in 0..MaxNow
    BY <1>0, <1>5, <1>6
  <1>8. F!Behind(q, t) <=> q.started /\ t > d + F!Stall
    BY <1>4 DEF F!Behind
  <1>9. CASE ~q.started \/ F!Behind(q, t)
    <2>1. w = t
      BY <1>0, <1>1, <1>4, <1>5, <1>8, <1>9
    <2>2. due' = w * Exact /\ seams' = 0
      <3>1. rest > 0 \/ ~q.started \/ F!Behind(q, t)
        BY <1>9
      <3> QED BY <1>6, <3>1 DEF F!Scheduled
    <2>3. pace' \in Pacers /\ pace'.pct \in Rates /\ pace'.started /\ pace'.frames = 0 /\ pace'.epoch = t
      <3>1. 0 \in 0..RebaseEvery - 1
        BY <1>0
      <3>2. PICK r : r = F!Rebased(q, t)
        OBVIOUS
      <3>3. r = [[q EXCEPT !.epoch = t] EXCEPT !.frames = 0]
        BY <3>2 DEF F!Rebased
      <3>4. r \in Pacers /\ r.pct = q.pct /\ r.started = q.started /\ r.frames = 0 /\ r.epoch = t
        BY <1>3, <3>1, <3>3 DEF Pacers
      <3>5. CASE ~q.started
        <4>1. pace' = [r EXCEPT !.started = TRUE]
          BY <1>6, <3>2, <3>5 DEF F!Waited
        <4> QED BY <1>3, <3>4, <4>1 DEF Pacers
      <3>6. CASE q.started
        <4>1. pace' = r
          BY <1>6, <1>9, <3>2, <3>6 DEF F!Waited
        <4> QED BY <1>3, <3>4, <3>6, <4>1
      <3> QED BY <3>5, <3>6
    <2>4. PICK p : p = pace'
      OBVIOUS
    <2>5. Lost(p, due') = 0 /\ F!Deadline(p, p.frames) = t
      BY <2>1, <2>2, <2>3, <2>4, SetIsExact
    <2>6. 0 * (Exact - 1) = 0
      BY <1>0
    <2>7. due' \in Nat
      BY <1>0, <2>1, <2>2
    <2>8. ClockOK'
      BY <1>6, <1>7, <2>2, <2>3, <2>7 DEF ClockOK
    <2>9. OnTime'
      <3>1. Lost(p, due') \in 0..seams' * (Exact - 1)
        BY <2>2, <2>5, <2>6
      <3>2. F!Deadline(p, p.frames) <= now' /\ now' <= F!Deadline(p, p.frames) + F!Stall + F!Max(Lates)
        BY <1>0, <1>6, <2>1, <2>5
      <3>3. Lost(p, due') = Lost(pace', due') /\ F!Deadline(p, p.frames) = F!Deadline(pace', pace'.frames)
        BY <2>4
      <3> QED BY <3>1, <3>2, <3>3 DEF OnTime
    <2> QED BY <2>8, <2>9
  <1>10. CASE q.started /\ ~F!Behind(q, t)
    <2>1. d <= w /\ w <= d + F!Stall + F!Max(Lates)
      BY <1>0, <1>1, <1>4, <1>5, <1>8, <1>10
    <2>2. rest = 0 /\ pace.started /\ AtSeam(pace, q)
      BY <1>0, <1>3, <1>10
    <2>3. PICK k : k = IF q.epoch # pace.epoch \/ q.frames + 1 >= RebaseEvery THEN 1 ELSE 0
      OBVIOUS
    <2>4. due' = due + Period(q) /\ seams' = seams + k
      BY <1>6, <1>10, <2>2, <2>3 DEF F!Scheduled, Period, ExactPeriod
    <2>5. PICK l \in Nat : l = Lost(q, due)
      BY <1>3, <1>10, <2>2, ShiftLoses
    <2>6. PICK m \in Nat : m = seams * (Exact - 1) /\ (seams + 1) * (Exact - 1) = m + Exact - 1
                           /\ (seams + 0) * (Exact - 1) = m
      BY <1>0
    <2>7. /\ q.epoch = pace.epoch => l <= m
          /\ q.epoch # pace.epoch => l <= m + Exact - 1 /\ q.frames + 1 < RebaseEvery
      BY <1>0, <1>3, <1>10, <2>2, <2>5, <2>6, ShiftLoses
    <2>8. due' \in Nat /\ seams' \in Nat
      BY <1>0, <1>3, <2>3, <2>4, FieldsIn, DeadlineIs
    <2>9. q.frames \in Nat /\ q.frames < RebaseEvery
      BY <1>3, FieldsIn
    <2>10. PICK p : p = pace'
      OBVIOUS
    <2>11. CASE q.frames + 1 >= RebaseEvery
      <3>1. p = F!Rebased(q, d)
        BY <1>4, <1>6, <1>10, <2>10, <2>11 DEF F!Waited
      <3>2. 0 \in 0..RebaseEvery - 1
        BY <1>0
      <3>3. p = [[q EXCEPT !.epoch = d] EXCEPT !.frames = 0]
        BY <3>1 DEF F!Rebased
      <3>4. p \in Pacers /\ p.pct = q.pct /\ p.frames = 0 /\ p.epoch = d
        BY <1>3, <3>2, <3>3 DEF Pacers
      <3>5. F!Deadline(p, p.frames) = d
        BY <1>3, <3>4, DeadlineIs
      <3>6. Lost(p, due') \in 0..l + Exact - 1
        BY <1>0, <1>3, <1>4, <2>4, <2>5, <3>1, NextLoses
      <3>7. q.epoch = pace.epoch
        BY <2>7, <2>9, <2>11, <1>0
      <3>8. seams' * (Exact - 1) = m + Exact - 1
        BY <2>3, <2>4, <2>6, <2>11
      <3>9. Lost(p, due') \in 0..seams' * (Exact - 1)
        BY <1>0, <2>7, <3>6, <3>7, <3>8
      <3>10. ClockOK'
        BY <1>3, <1>6, <1>7, <2>8, <2>10, <3>4 DEF ClockOK
      <3>11. Lost(p, due') = Lost(pace', due') /\ F!Deadline(p, p.frames) = F!Deadline(pace', pace'.frames)
        BY <2>10
      <3>12. OnTime'
        BY <1>6, <2>1, <3>5, <3>9, <3>11 DEF OnTime
      <3> QED BY <3>10, <3>12
    <2>12. CASE q.frames + 1 < RebaseEvery
      <3>1. p = [q EXCEPT !.frames = @ + 1]
        BY <1>0, <1>6, <1>10, <2>9, <2>10, <2>12 DEF F!Waited
      <3>2. q.frames + 1 \in 0..RebaseEvery - 1
        BY <1>0, <2>9, <2>12
      <3>3. p \in Pacers /\ p.pct = q.pct /\ p.frames = q.frames + 1
        BY <1>3, <3>1, <3>2 DEF Pacers
      <3>4. \A n : F!Deadline(p, n) = F!Deadline(q, n)
        BY <1>3, <3>1 DEF Pacers, F!Deadline, F!Holds
      <3>5. F!Deadline(p, p.frames) = d
        BY <1>4, <3>3, <3>4
      <3>6. Lost(p, due') = l
        BY <1>3, <1>4, <1>0, <2>4, <2>5, <3>1, NextLoses
      <3>7. seams' * (Exact - 1) = IF q.epoch # pace.epoch THEN m + Exact - 1 ELSE m
        BY <1>0, <2>3, <2>4, <2>6, <2>9, <2>12
      <3>8. Lost(p, due') \in 0..seams' * (Exact - 1)
        BY <1>0, <2>7, <3>6, <3>7
      <3>9. ClockOK'
        BY <1>3, <1>6, <1>7, <2>8, <2>10, <3>3 DEF ClockOK
      <3>10. Lost(p, due') = Lost(pace', due') /\ F!Deadline(p, p.frames) = F!Deadline(pace', pace'.frames)
        BY <2>10
      <3>11. OnTime'
        BY <1>6, <2>1, <3>5, <3>8, <3>10 DEF OnTime
      <3> QED BY <3>9, <3>11
    <2> QED BY <1>0, <2>9, <2>11, <2>12
  <1> QED BY <1>9, <1>10
-----------------------------------------------------------------------------
(* The cadences. *)

\* The kinds of what a cadence holds.
Cadences == [started : BOOLEAN, epoch : Nat, frames : 0..RebaseEvery - 1]

\* Where a cadence is: when the last frame it delivered was due.
Place(c) == c.epoch + c.frames * F!Pal

\* It is at the frame made last, or has delivered every frame of this speed.
KeptUp(c, n, r, since, total, t) ==
  /\ c.started => Place(c) <= since + (n + 2 * r) * F!Pal
  /\ \/ /\ c.started /\ Place(c) + 2 * F!Pal > t
        /\ r * RebaseEvery <= n - c.frames + 2 * (RebaseEvery - 1)
     \/ n = total /\ r * RebaseEvery + c.frames <= n + RebaseEvery - 1

\* The inductive invariant of a cadence c that delivered n of the frames made since then, and started again
\* r times: it is never ahead of the clock, nor behind what it delivered by more than a stall.
Delivers(c, n, r, since, total, slow, t) ==
  /\ n \in Nat /\ r \in Nat /\ n <= total
  /\ n > 0 => c.started /\ Place(c) + F!Stall >= since + (n - 1) * F!Pal
  /\ ~slow => KeptUp(c, n, r, since, total, t)

\* What asking it does to its place.
LEMMA TurnIs ==
  ASSUME NEW c \in Cadences, NEW when \in Nat
  PROVE  /\ Place(c) \in Nat /\ F!NextTurn(c) = Place(c) + F!Pal
         /\ F!Turned(c, when) \in Cadences
         /\ F!Turned(c, when).started
         /\ ~c.started \/ F!Restarts(c, when) => Place(F!Turned(c, when)) = when /\ F!Turned(c, when).frames = 0
         /\ c.started /\ ~F!Restarts(c, when) /\ F!Ready(c, when) =>
              Place(F!Turned(c, when)) = Place(c) + F!Pal /\ F!Turned(c, when).frames = c.frames + 1
         /\ c.started /\ ~F!Ready(c, when) => F!Turned(c, when) = c
  <1>0. /\ c.started \in BOOLEAN /\ c.epoch \in Nat /\ c.frames \in Nat /\ c.frames <= RebaseEvery - 1 /\ F!Pal \in Nat
        /\ RebaseEvery \in Nat /\ RebaseEvery > 0
    BY PacingAssumed, PalIs DEF Cadences, F!PacingAssumption
  <1>1. PICK g \in Nat : g = Place(c)
    BY <1>0 DEF Place
  <1>2. F!NextTurn(c) = g + F!Pal
    <2>1. F!Offset(c.frames + 1, 100) = (c.frames + 1) * F!Pal
      BY <1>0, OfPalFrames
    <2>2. PICK k \in Nat : k = c.frames * F!Pal /\ (c.frames + 1) * F!Pal = k + F!Pal
      BY <1>0
    <2> QED BY <1>0, <1>1, <2>1, <2>2 DEF F!NextTurn, Place
  <1>3. 0 \in 0..RebaseEvery - 1 /\ 0 * F!Pal = 0
    BY <1>0
  <1>4. PICK z : z = F!Turned(c, when)
    OBVIOUS
  <1>5. CASE ~c.started
    <2>1. z = [started |-> TRUE, epoch |-> when, frames |-> 0]
      BY <1>4, <1>5 DEF F!Turned
    <2>2. z \in Cadences /\ z.started /\ z.epoch = when /\ z.frames = 0
      BY <1>3, <2>1 DEF Cadences
    <2>3. Place(z) = when
      BY <1>3, <2>2 DEF Place
    <2> QED BY <1>1, <1>2, <1>4, <1>5, <2>2, <2>3
  <1>6. CASE c.started /\ F!Restarts(c, when)
    <2>1. z = [[c EXCEPT !.epoch = when] EXCEPT !.frames = 0]
      BY <1>4, <1>6 DEF F!Turned
    <2>2. z \in Cadences /\ z.started /\ z.epoch = when /\ z.frames = 0
      BY <1>3, <1>6, <2>1 DEF Cadences
    <2>3. Place(z) = when
      BY <1>3, <2>2 DEF Place
    <2> QED BY <1>1, <1>2, <1>4, <1>6, <2>2, <2>3 DEF F!Restarts
  <1>7. CASE c.started /\ ~F!Restarts(c, when) /\ F!Ready(c, when)
    <2>1. z = [c EXCEPT !.frames = @ + 1]
      BY <1>4, <1>7 DEF F!Turned
    <2>2. c.frames + 1 \in 0..RebaseEvery - 1
      BY <1>0, <1>7 DEF F!Restarts
    <2>3. z \in Cadences /\ z.started /\ z.epoch = c.epoch /\ z.frames = c.frames + 1
      BY <1>7, <2>1, <2>2 DEF Cadences
    <2>4. PICK k \in Nat : k = c.frames * F!Pal /\ (c.frames + 1) * F!Pal = k + F!Pal
      BY <1>0
    <2>5. Place(z) = g + F!Pal
      BY <1>0, <1>1, <2>3, <2>4 DEF Place
    <2> QED BY <1>1, <1>2, <1>4, <1>7, <2>3, <2>5
  <1>8. CASE c.started /\ ~F!Ready(c, when)
    <2>1. ~F!Restarts(c, when)
      BY <1>8 DEF F!Restarts
    <2>2. z = c
      BY <1>4, <1>8, <2>1 DEF F!Turned
    <2> QED BY <1>1, <1>2, <1>4, <1>8, <2>1, <2>2
  <1> QED BY <1>0, <1>5, <1>6, <1>7, <1>8

\* Asked once between the clock's t and t2, of one frame more, it keeps its invariant.
LEMMA TurnDelivers ==
  ASSUME NEW c \in Cadences, NEW t \in Nat, NEW when \in Nat, NEW t2 \in Nat, t <= when, when <= t2,
         c.started => Place(c) <= t,
         NEW since \in Nat, since <= t, NEW total \in Nat, NEW slow \in BOOLEAN,
         ~slow => t - since <= total * F!Pal,
         NEW n, NEW r, Delivers(c, n, r, since, total, slow, t),
         NEW slow2, ~slow2 => ~slow /\ t2 - t <= F!Pal
  PROVE  /\ Place(F!Turned(c, when)) <= t2
         /\ Delivers(F!Turned(c, when), IF F!Ready(c, when) THEN n + 1 ELSE n, IF F!Restarts(c, when) THEN r + 1 ELSE r,
                     since, total + 1, slow2, t2)
  <1>0. /\ F!Pal \in Nat /\ F!Pal > 0 /\ F!Stall \in Nat /\ F!Stall >= 2 * F!Pal /\ RebaseEvery \in Nat /\ RebaseEvery > 0
        /\ n \in Nat /\ r \in Nat /\ n <= total /\ c.frames \in Nat /\ c.frames < RebaseEvery /\ c.started \in BOOLEAN
    BY PacingAssumed, PalIs DEF F!PacingAssumption, Delivers, Cadences
  <1>1. PICK z : z = F!Turned(c, when)
    OBVIOUS
  <1>2. PICK g \in Nat : g = Place(c)
    BY TurnIs
  <1>3. z.started /\ F!NextTurn(c) = g + F!Pal
    BY <1>1, <1>2, TurnIs
  <1>4. PICK a \in Nat : a = n * F!Pal /\ (n - 1) * F!Pal = a - F!Pal /\ (n + 1 - 1) * F!Pal = a
    BY <1>0
  <1>5. PICK b \in Nat : /\ b = (n + 2 * r) * F!Pal /\ (n + 1 + 2 * r) * F!Pal = b + F!Pal
                         /\ (n + 1 + 2 * (r + 1)) * F!Pal = b + 3 * F!Pal
    BY <1>0
  <1>6. PICK k \in Nat : k = r * RebaseEvery /\ (r + 1) * RebaseEvery = k + RebaseEvery
    BY <1>0
  <1>7. PICK m \in Nat : m = total * F!Pal
    BY <1>0
  <1>8. b >= a /\ (n = total => a = m)
    <2>1. b = a + (2 * r) * F!Pal
      BY <1>0, <1>4, <1>5
    <2>2. (2 * r) * F!Pal \in Nat
      BY <1>0
    <2> QED BY <1>4, <1>7, <2>1, <2>2
  <1>9. n > 0 => c.started /\ g + F!Stall >= since + a - F!Pal
    BY <1>0, <1>2, <1>4 DEF Delivers
  <1>10. ASSUME ~slow
         PROVE  /\ c.started => g <= since + b
                /\ \/ c.started /\ g + 2 * F!Pal > t /\ k <= n - c.frames + 2 * (RebaseEvery - 1)
                   \/ n = total /\ k + c.frames <= n + RebaseEvery - 1
                /\ t - since <= m
    BY <1>2, <1>5, <1>6, <1>7, <1>10 DEF Delivers, KeptUp
  <1>11. CASE ~c.started
    <2>1. F!Ready(c, when) /\ ~F!Restarts(c, when) /\ Place(z) = when /\ z.frames = 0
      BY <1>1, <1>11, TurnIs DEF F!Ready, F!Restarts
    <2>2. n = 0 /\ a = 0
      BY <1>0, <1>4, <1>9, <1>11
    <2>3. ASSUME ~slow, t2 - t <= F!Pal PROVE KeptUp(z, n + 1, r, since, total + 1, t2)
      <3>1. n = total /\ k <= (n + 1) - 0 + 2 * (RebaseEvery - 1)
        BY <1>0, <1>10, <1>11, <2>3
      <3>2. when <= since + (b + F!Pal)
        BY <1>0, <1>8, <1>10, <2>2, <2>3, <3>1
      <3>3. when + 2 * F!Pal > t2
        BY <1>0, <2>3
      <3> QED BY <1>3, <1>5, <1>6, <2>1, <3>1, <3>2, <3>3 DEF KeptUp
    <2>4. when + F!Stall >= since + a
      BY <1>0, <2>2
    <2> QED BY <1>0, <1>1, <1>3, <1>4, <2>1, <2>3, <2>4 DEF Delivers
  <1>12. CASE c.started /\ ~F!Ready(c, when)
    <2>1. z = c /\ ~F!Restarts(c, when) /\ when < g + F!Pal
      <3>1. z = c
        BY <1>1, <1>12, TurnIs
      <3>2. when < g + F!Pal
        BY <1>0, <1>2, <1>3, <1>12 DEF F!Ready
      <3>3. ~F!Restarts(c, when)
        BY <1>12 DEF F!Restarts
      <3> QED BY <3>1, <3>2, <3>3
    <2>2. ASSUME ~slow, t2 - t <= F!Pal PROVE KeptUp(c, n, r, since, total + 1, t2)
      <3>1. g + 2 * F!Pal > t2
        BY <1>0, <2>1, <2>2
      <3>2. k <= n - c.frames + 2 * (RebaseEvery - 1)
        BY <1>0, <1>10, <2>2
      <3> QED BY <1>2, <1>5, <1>6, <1>10, <1>12, <2>2, <3>1, <3>2 DEF KeptUp
    <2>3. n <= total + 1
      BY <1>0
    <2> QED BY <1>0, <1>1, <1>2, <1>12, <2>1, <2>2, <2>3 DEF Delivers
  <1>13. CASE F!Restarts(c, when)
    <2>1. /\ c.started /\ F!Ready(c, when) /\ Place(z) = when /\ z.frames = 0 /\ when >= g + F!Pal
          /\ when > g + F!Pal + F!Stall \/ c.frames + 1 >= RebaseEvery
      BY <1>0, <1>1, <1>2, <1>3, <1>13, TurnIs DEF F!Ready, F!Restarts
    <2>2. ASSUME ~slow, t2 - t <= F!Pal PROVE KeptUp(z, n + 1, r + 1, since, total + 1, t2)
      <3>1. when + 2 * F!Pal > t2 /\ when <= t + F!Pal
        BY <1>0, <2>2
      <3>2. when <= since + (b + 3 * F!Pal) /\ k + RebaseEvery <= (n + 1) - 0 + 2 * (RebaseEvery - 1)
        <4>1. CASE n = total /\ k + c.frames <= n + RebaseEvery - 1
          BY <1>0, <1>8, <1>10, <2>1, <2>2, <3>1, <4>1
        <4>2. CASE g + 2 * F!Pal > t /\ k <= n - c.frames + 2 * (RebaseEvery - 1)
          <5>1. c.frames + 1 >= RebaseEvery
            BY <1>0, <2>1, <3>1, <4>2
          <5> QED BY <1>0, <1>10, <2>1, <2>2, <3>1, <4>2, <5>1
        <4> QED BY <1>10, <2>2, <4>1, <4>2
      <3>3. Place(z) <= since + (n + 1 + 2 * (r + 1)) * F!Pal
        BY <1>5, <2>1, <3>2
      <3>4. (r + 1) * RebaseEvery <= (n + 1) - z.frames + 2 * (RebaseEvery - 1)
        BY <1>6, <2>1, <3>2
      <3>5. Place(z) + 2 * F!Pal > t2
        BY <2>1, <3>1
      <3> QED BY <1>3, <3>3, <3>4, <3>5 DEF KeptUp
    <2>3. when + F!Stall >= since + a
      BY <1>0, <1>4, <1>9, <2>1
    <2> QED BY <1>0, <1>1, <1>3, <1>4, <1>13, <2>1, <2>2, <2>3 DEF Delivers
  <1>14. CASE c.started /\ F!Ready(c, when) /\ ~F!Restarts(c, when)
    <2>1. Place(z) = g + F!Pal /\ z.frames = c.frames + 1 /\ when >= g + F!Pal /\ when <= g + F!Pal + F!Stall
      <3>1. Place(z) = g + F!Pal /\ z.frames = c.frames + 1
        BY <1>1, <1>2, <1>14, TurnIs
      <3>2. when >= g + F!Pal /\ when <= g + F!Pal + F!Stall
        BY <1>0, <1>3, <1>14 DEF F!Ready, F!Restarts
      <3> QED BY <3>1, <3>2
    <2>2. ASSUME ~slow, t2 - t <= F!Pal PROVE KeptUp(z, n + 1, r, since, total + 1, t2)
      <3>1. g + F!Pal <= since + (b + F!Pal)
        BY <1>0, <1>10, <1>14, <2>2
      <3>2. \/ g + F!Pal + 2 * F!Pal > t2 /\ k <= (n + 1) - (c.frames + 1) + 2 * (RebaseEvery - 1)
            \/ n + 1 = total + 1 /\ k + (c.frames + 1) <= (n + 1) + RebaseEvery - 1
        BY <1>0, <1>10, <2>2
      <3> QED BY <1>3, <1>5, <1>6, <2>1, <3>1, <3>2 DEF KeptUp
    <2>3. g + F!Pal + F!Stall >= since + a
      BY <1>0, <1>4, <1>9, <2>1
    <2> QED BY <1>0, <1>1, <1>3, <1>4, <1>14, <2>1, <2>2, <2>3 DEF Delivers
  <1> QED BY <1>0, <1>11, <1>12, <1>13, <1>14
\* A speed just asked for owes nothing.
LEMMA FreshDelivers ==
  ASSUME NEW c \in Cadences, NEW t \in Nat, c.started => Place(c) <= t
  PROVE  Delivers(c, 0, 0, t, 0, FALSE, t)
  <1>0. c.frames \in Nat /\ c.frames < RebaseEvery /\ RebaseEvery \in Nat /\ F!Pal \in Nat
    BY PacingAssumed, PalIs DEF F!PacingAssumption, Cadences
  <1>1. 0 * RebaseEvery = 0 /\ (0 + 2 * 0) * F!Pal = 0
    BY <1>0
  <1>2. c.started => Place(c) <= t + (0 + 2 * 0) * F!Pal
    BY <1>1
  <1>3. 0 * RebaseEvery + c.frames <= 0 + RebaseEvery - 1
    BY <1>0, <1>1
  <1> QED BY <1>2, <1>3 DEF Delivers, KeptUp

\* The kinds of the sampled.
Samples == [since : Nat, made : Nat, shown : Nat, fed : Nat, reshown : Nat, refed : Nat, slow : BOOLEAN]

\* While no frame took longer than PAL's, no more of them have passed than were made.
SampleOK == /\ sample \in Samples /\ sample.since <= now
            /\ ~sample.slow => now - sample.since <= sample.made * F!Pal

\* No cadence is ahead of the clock.
CadencesOK == /\ display \in Cadences /\ (display.started => Place(display) <= now)
              /\ audio \in Cadences /\ (audio.started => Place(audio) <= now)

\* A fast-forwarded game is sampled, another is shown and heard whole.
DisplayKeeps == IF F!Effective >= 200
                  THEN Delivers(display, sample.shown, sample.reshown, sample.since, sample.made, sample.slow, now)
                  ELSE sample.shown = sample.made
AudioKeeps   == IF F!Effective # 100
                  THEN Delivers(audio, sample.fed, sample.refed, sample.since, sample.made, sample.slow, now)
                  ELSE sample.fed = sample.made

\* The inductive invariant of the frame clock.
PacingInv == ClockOK /\ OnTime /\ SampleOK /\ CadencesOK /\ DisplayKeeps /\ AudioKeeps

\* A cadence's invariant gives its rate.
LEMMA DeliversOfPal ==
  ASSUME NEW c \in Cadences, c.started => Place(c) <= now, now \in Nat, SampleOK,
         NEW n, NEW r, Delivers(c, n, r, sample.since, sample.made, sample.slow, now)
  PROVE  F!OfPal(n, r)
  <1>0. /\ F!Pal \in Nat /\ F!Pal > 0 /\ F!Stall \in Nat /\ F!Stall = StallFrames * F!Pal
        /\ RebaseEvery \in Nat /\ StallFrames \in Nat
        /\ n \in Nat /\ r \in Nat /\ c.frames \in Nat /\ c.frames < RebaseEvery
    BY PacingAssumed, PalIs DEF F!PacingAssumption, Delivers, Cadences
  <1>1. PICK s \in Nat : s = sample.since /\ s <= now
    BY DEF SampleOK, Samples
  <1>2. PICK total \in Nat : total = sample.made
    BY DEF SampleOK, Samples
  <1>3. PICK passed \in Nat : /\ passed = (now - sample.since) \div F!Pal /\ passed * F!Pal <= now - s
                              /\ now - s < passed * F!Pal + F!Pal
    BY <1>0, <1>1, Quotient
  <1>4. PICK g \in Nat : g = Place(c)
    BY <1>0, TurnIs
  <1>5. PICK p \in Nat : p = passed * F!Pal
    BY <1>0
  <1>6. PICK k \in Nat : k = r * RebaseEvery
    BY <1>0
  <1>7. n <= passed + StallFrames + 1
    <2>1. CASE n = 0
      BY <1>0, <2>1
    <2>2. CASE n > 0
      <3>1. c.started /\ g + F!Stall >= s + (n - 1) * F!Pal
        BY <1>1, <1>4, <2>2 DEF Delivers
      <3>2. PICK a \in Nat : a = (n - 1) * F!Pal
        BY <1>0, <2>2
      <3>3. a < p + F!Pal + F!Stall
        BY <1>0, <1>1, <1>3, <1>4, <1>5, <3>1, <3>2
      <3>4. p + F!Pal + F!Stall = (passed + 1 + StallFrames) * F!Pal
        BY <1>0, <1>5
      <3>5. (n - 1) * F!Pal < (passed + 1 + StallFrames) * F!Pal
        BY <3>2, <3>3, <3>4
      <3>6. n - 1 < passed + 1 + StallFrames
        BY <1>0, <2>2, <3>5, Cancels
      <3> QED BY <1>0, <3>6
    <2> QED BY <1>0, <2>1, <2>2
  <1>8. ASSUME ~sample.slow
        PROVE  n >= passed - 1 - 2 * r /\ r * RebaseEvery <= n + 2 * (RebaseEvery - 1)
    <2>1. /\ c.started => g <= s + (n + 2 * r) * F!Pal
          /\ \/ c.started /\ g + 2 * F!Pal > now /\ k <= n - c.frames + 2 * (RebaseEvery - 1)
             \/ n = total /\ k + c.frames <= n + RebaseEvery - 1
      BY <1>1, <1>2, <1>4, <1>6, <1>8 DEF Delivers, KeptUp
    <2>2. k <= n + 2 * (RebaseEvery - 1)
      BY <1>0, <2>1
    <2>3. CASE c.started /\ g + 2 * F!Pal > now
      <3>1. PICK b \in Nat : b = (n + 2 * r) * F!Pal /\ (n + 2 * r + 2) * F!Pal = b + 2 * F!Pal
        BY <1>0
      <3>2. passed * F!Pal < (n + 2 * r + 2) * F!Pal
        BY <1>0, <1>1, <1>3, <1>5, <2>1, <2>3, <3>1
      <3>3. passed < n + 2 * r + 2
        BY <1>0, <3>2, Cancels
      <3> QED BY <1>0, <1>6, <2>2, <3>3
    <2>4. CASE n = total
      <3>1. now - s <= total * F!Pal
        BY <1>1, <1>2, <1>8 DEF SampleOK
      <3>2. total * F!Pal \in Int
        BY <1>0
      <3>3. passed * F!Pal <= total * F!Pal
        BY <1>1, <1>3, <1>5, <3>1, <3>2
      <3>4. passed <= total
        BY <1>0, <3>3, Cancels
      <3> QED BY <1>0, <1>6, <2>2, <2>4, <3>4
    <2> QED BY <2>1, <2>3, <2>4
  <1> QED BY <1>3, <1>7, <1>8 DEF F!OfPal

\* It implies what the frame clock promises.
LEMMA PacingSafe == PacingInv => F!Paced /\ F!Sampled
  <1> SUFFICES ASSUME PacingInv PROVE F!Paced /\ F!Sampled
    OBVIOUS
  <1>0. ClockOK /\ OnTime /\ SampleOK /\ CadencesOK /\ DisplayKeeps /\ AudioKeeps
    BY DEF PacingInv
  <1>1. now \in Nat /\ RebaseEvery \in Nat
    BY <1>0, PacingAssumed DEF ClockOK, F!PacingAssumption
  <1>2. F!TypeOK
    <2>1. \A f \in 0..RebaseEvery - 1 : f \in 0..RebaseEvery
      BY <1>1
    <2>2. pace.frames \in 0..RebaseEvery - 1 /\ display.frames \in 0..RebaseEvery - 1 /\ audio.frames \in 0..RebaseEvery - 1
      BY <1>0 DEF ClockOK, CadencesOK, Pacers, Cadences
    <2> QED BY <1>0, <2>1, <2>2 DEF ClockOK, F!TypeOK
  <1>3. F!OnSchedule
    BY <1>0, ScheduleKept
  <1>4. F!Sampled
    BY <1>0, <1>1, DeliversOfPal DEF F!Sampled, CadencesOK, DisplayKeeps, AudioKeeps
  <1> QED BY <1>2, <1>3, <1>4 DEF F!Paced

\* A sample starts empty.
LEMMA SampleFromIs ==
  \A t \in Nat : LET s == F!SampleFrom(t)
                IN /\ s \in Samples /\ s.since = t /\ s.slow = FALSE
                   /\ s.made = 0 /\ s.shown = 0 /\ s.fed = 0 /\ s.reshown = 0 /\ s.refed = 0
  BY DEF F!SampleFrom, Samples

\* It holds when the program starts.
LEMMA PacingStarts == F!Init => PacingInv
  <1> SUFFICES ASSUME F!Init PROVE PacingInv
    OBVIOUS
  <1>0. 0 \in 0..MaxNow /\ 0 \in 0..RebaseEvery - 1 /\ F!Pal \in Nat
    BY PacingAssumed, PalIs DEF F!PacingAssumption
  <1>1. pace \in Pacers /\ ~pace.started
    BY <1>0 DEF F!Init, Pacers
  <1>2. ClockOK
    BY <1>0, <1>1 DEF F!Init, ClockOK
  <1>3. OnTime
    BY <1>1 DEF OnTime
  <1>4. F!Stopped \in Cadences /\ ~F!Stopped.started
    BY <1>0 DEF F!Stopped, Cadences
  <1>5. CadencesOK
    BY <1>4 DEF F!Init, CadencesOK
  <1>6. /\ sample \in Samples /\ sample.since = 0 /\ sample.made = 0 /\ sample.shown = 0 /\ sample.fed = 0
        /\ sample.reshown = 0 /\ sample.refed = 0 /\ sample.slow = FALSE /\ now = 0
    BY SampleFromIs DEF F!Init
  <1>7. SampleOK
    BY <1>0, <1>6 DEF SampleOK
  <1>8. Delivers(display, 0, 0, 0, 0, FALSE, 0) /\ Delivers(audio, 0, 0, 0, 0, FALSE, 0)
    BY <1>4, FreshDelivers DEF F!Init
  <1>9. DisplayKeeps /\ AudioKeeps
    BY <1>6, <1>8 DEF DisplayKeeps, AudioKeeps
  <1> QED BY <1>2, <1>3, <1>5, <1>7, <1>9 DEF PacingInv
\* A frame made, whether it is shown or played, is sampled.
LEMMA FrameSamples ==
  ASSUME PacingInv, NEW work \in Works, NEW late \in Lates, NEW rest \in Rests, NEW frozen \in BOOLEAN,
         F!PacedFrame(work, late, rest, frozen)
  PROVE  SampleOK' /\ CadencesOK' /\ DisplayKeeps' /\ AudioKeeps'
  <1>0. /\ now \in Nat /\ work \in Nat /\ rest \in Nat /\ late \in Nat /\ F!Pal \in Nat /\ F!Pal > 0
        /\ ClockOK /\ OnTime /\ SampleOK /\ CadencesOK /\ DisplayKeeps /\ AudioKeeps
    BY PacingAssumed, LatestIs, PalIs DEF PacingInv, ClockOK, F!PacingAssumption
  <1>1. PICK q : q = F!Asked(pace, rest)
    OBVIOUS
  <1>2. PICK start \in Nat : start = now + work
    BY <1>0
  <1>3. PICK w : w = F!Woken(q, start + rest, late)
    OBVIOUS
  <1>4. PICK e : e = F!Effective
    OBVIOUS
  <1>5. PICK listen : listen = IF frozen THEN start ELSE w
    OBVIOUS
  <1>6. now' = w /\ F!Effective' = e /\ UNCHANGED <<knob, fast>>
    BY <1>1, <1>2, <1>3, <1>4 DEF F!PacedFrame, F!Effective
  <1>7. w \in Nat /\ start + rest <= w
    <2>1. q \in Pacers /\ q.pct \in Rates
      BY <1>0, <1>1, EffectiveIs, AskedIs DEF ClockOK, F!PacingAssumption
    <2>2. PICK d \in Nat : d = F!Deadline(q, q.frames + 1)
      <3>1. q.frames + 1 \in Nat
        BY <2>1, FieldsIn
      <3> QED BY <2>1, <3>1, DeadlineIs
    <2>3. w = IF q.started /\ start + rest < d THEN d + late ELSE start + rest
      BY <1>3, <2>2 DEF F!Woken
    <2> QED BY <1>0, <1>2, <2>2, <2>3
  <1>8. now <= start /\ start <= w /\ start \in Nat /\ listen \in Nat /\ now <= listen /\ listen <= w
    BY <1>0, <1>2, <1>5, <1>7
  <1>9. PICK s \in Samples : s = sample
    BY <1>0 DEF SampleOK
  <1>10. /\ display' = IF e >= 200 THEN F!Turned(display, start) ELSE display
         /\ audio' = IF e = 100 THEN audio ELSE F!Turned(audio, listen)
         /\ sample' = [s EXCEPT !.made = @ + 1,
                                !.shown = IF e >= 200 /\ ~F!Ready(display, start) THEN @ ELSE @ + 1,
                                !.fed = IF e = 100 \/ F!Ready(audio, listen) THEN @ + 1 ELSE @,
                                !.reshown = IF e >= 200 /\ F!Restarts(display, start) THEN @ + 1 ELSE @,
                                !.refed = IF e # 100 /\ F!Restarts(audio, listen) THEN @ + 1 ELSE @,
                                !.slow = @ \/ w - now > F!Pal]
    <2>1. w = F!Woken(F!Asked(pace, rest), (now + work) + rest, late) /\ start = now + work
      BY <1>1, <1>2, <1>3
    <2>2. listen = IF frozen THEN now + work ELSE w
      BY <1>2, <1>5
    <2>3. /\ display' = IF F!Effective >= 200 THEN F!Turned(display, start) ELSE display
          /\ audio' = IF F!Effective = 100 THEN audio ELSE F!Turned(audio, listen)
      BY <2>1, <2>2 DEF F!PacedFrame
    <2>4. sample' = [sample EXCEPT !.made = @ + 1,
                                   !.shown = IF F!Effective >= 200 /\ ~F!Ready(display, start) THEN @ ELSE @ + 1,
                                   !.fed = IF F!Effective = 100 \/ F!Ready(audio, listen) THEN @ + 1 ELSE @,
                                   !.reshown = IF F!Effective >= 200 /\ F!Restarts(display, start) THEN @ + 1 ELSE @,
                                   !.refed = IF F!Effective # 100 /\ F!Restarts(audio, listen) THEN @ + 1 ELSE @,
                                   !.slow = @ \/ w - now > F!Pal]
      BY <2>1, <2>2 DEF F!PacedFrame
    <2> QED BY <1>4, <1>9, <2>3, <2>4
  <1>11. /\ s.since \in Nat /\ s.made \in Nat /\ s.shown \in Nat /\ s.fed \in Nat /\ s.reshown \in Nat /\ s.refed \in Nat
         /\ s.slow \in BOOLEAN
    BY DEF Samples
  <1>12. PICK z : z = sample'
    OBVIOUS
  <1>13. /\ z.since = s.since /\ z.made = s.made + 1
         /\ z.shown = IF e >= 200 /\ ~F!Ready(display, start) THEN s.shown ELSE s.shown + 1
         /\ z.fed = IF e = 100 \/ F!Ready(audio, listen) THEN s.fed + 1 ELSE s.fed
         /\ z.reshown = IF e >= 200 /\ F!Restarts(display, start) THEN s.reshown + 1 ELSE s.reshown
         /\ z.refed = IF e # 100 /\ F!Restarts(audio, listen) THEN s.refed + 1 ELSE s.refed
         /\ z.slow = (s.slow \/ w - now > F!Pal)
         /\ z = [since |-> z.since, made |-> z.made, shown |-> z.shown, fed |-> z.fed, reshown |-> z.reshown,
                 refed |-> z.refed, slow |-> z.slow]
    BY <1>10, <1>12 DEF Samples
  <1>14. z \in Samples
    <2>1. /\ z.since \in Nat /\ z.made \in Nat /\ z.shown \in Nat /\ z.fed \in Nat /\ z.reshown \in Nat /\ z.refed \in Nat
      BY <1>11, <1>13
    <2>2. z.slow \in BOOLEAN
      BY <1>13
    <2> QED BY <1>13, <2>1, <2>2 DEF Samples
  <1>15. s.since <= now /\ (~s.slow => now - s.since <= s.made * F!Pal)
    BY <1>0, <1>9 DEF SampleOK
  <1>16. SampleOK'
    <2>0. ~z.slow => ~s.slow /\ ~(w - now > F!Pal)
      BY <1>13
    <2>1. z.since <= w
      BY <1>7, <1>8, <1>0, <1>2, <1>11, <1>13, <1>15
    <2>2. ASSUME ~z.slow PROVE w - z.since <= z.made * F!Pal
      <3>1. PICK m \in Nat : m = s.made * F!Pal /\ (s.made + 1) * F!Pal = m + F!Pal
        BY <1>0, <1>11
      <3>2. ~s.slow /\ w - now <= F!Pal
        BY <1>0, <1>7, <2>0, <2>2
      <3>3. now - s.since <= m
        BY <1>15, <3>1, <3>2
      <3>4. z.made * F!Pal = m + F!Pal /\ z.since = s.since
        BY <1>13, <3>1
      <3> QED BY <1>0, <1>7, <1>11, <3>1, <3>2, <3>3, <3>4
    <2> QED BY <1>6, <1>12, <1>14, <2>1, <2>2 DEF SampleOK
  <1>17. /\ display \in Cadences /\ (display.started => Place(display) <= now)
         /\ audio \in Cadences /\ (audio.started => Place(audio) <= now)
    BY <1>0 DEF CadencesOK
  <1>18. ~z.slow => ~s.slow /\ w - now <= F!Pal
    <2>1. ~z.slow => ~s.slow /\ ~(w - now > F!Pal)
      BY <1>13
    <2> QED BY <1>0, <1>7, <2>1
  <1>19. PICK c : c = display'
    OBVIOUS
  <1>20. PICK h : h = audio'
    OBVIOUS
  <1>21. /\ c \in Cadences /\ (c.started => Place(c) <= w)
         /\ e >= 200 => Delivers(c, z.shown, z.reshown, z.since, z.made, z.slow, w)
    <2>1. CASE ~(e >= 200)
      <3>1. c = display
        BY <1>10, <1>19, <2>1
      <3>2. Place(c) \in Nat
        BY <1>0, <1>17, <3>1, TurnIs
      <3> QED BY <1>0, <1>2, <1>7, <1>8, <1>17, <2>1, <3>1, <3>2
    <2>2. CASE e >= 200
      <3>1. Delivers(display, s.shown, s.reshown, s.since, s.made, s.slow, now)
        BY <1>0, <1>4, <1>9, <2>2 DEF DisplayKeeps
      <3>2. c = F!Turned(display, start)
        BY <1>10, <1>19, <2>2
      <3>3. c \in Cadences
        BY <1>17, <3>2, TurnIs
      <3>4. z.shown = IF F!Ready(display, start) THEN s.shown + 1 ELSE s.shown
        BY <1>13, <2>2
      <3>5. z.reshown = IF F!Restarts(display, start) THEN s.reshown + 1 ELSE s.reshown
        BY <1>13, <2>2
      <3>6. /\ Place(F!Turned(display, start)) <= w
            /\ Delivers(F!Turned(display, start), IF F!Ready(display, start) THEN s.shown + 1 ELSE s.shown,
                        IF F!Restarts(display, start) THEN s.reshown + 1 ELSE s.reshown, s.since, s.made + 1, z.slow, w)
        BY <1>0, <1>7, <1>8, <1>11, <1>15, <1>17, <1>18, <3>1, TurnDelivers
      <3>7. Place(c) <= w /\ Delivers(c, z.shown, z.reshown, s.since, s.made + 1, z.slow, w)
        BY <3>2, <3>4, <3>5, <3>6
      <3> QED BY <1>13, <3>3, <3>7
    <2> QED BY <2>1, <2>2
  <1>22. /\ h \in Cadences /\ (h.started => Place(h) <= w)
         /\ e # 100 => Delivers(h, z.fed, z.refed, z.since, z.made, z.slow, w)
    <2>1. CASE e = 100
      <3>1. h = audio
        BY <1>10, <1>20, <2>1
      <3>2. Place(h) \in Nat
        BY <1>0, <1>17, <3>1, TurnIs
      <3> QED BY <1>0, <1>2, <1>7, <1>8, <1>17, <2>1, <3>1, <3>2
    <2>2. CASE e # 100
      <3>1. Delivers(audio, s.fed, s.refed, s.since, s.made, s.slow, now)
        BY <1>0, <1>4, <1>9, <2>2 DEF AudioKeeps
      <3>2. h = F!Turned(audio, listen)
        BY <1>10, <1>20, <2>2
      <3>3. h \in Cadences
        BY <1>8, <1>17, <3>2, TurnIs
      <3>4. z.fed = IF F!Ready(audio, listen) THEN s.fed + 1 ELSE s.fed
        BY <1>13, <2>2
      <3>5. z.refed = IF F!Restarts(audio, listen) THEN s.refed + 1 ELSE s.refed
        BY <1>13, <2>2
      <3>6. /\ Place(F!Turned(audio, listen)) <= w
            /\ Delivers(F!Turned(audio, listen), IF F!Ready(audio, listen) THEN s.fed + 1 ELSE s.fed,
                        IF F!Restarts(audio, listen) THEN s.refed + 1 ELSE s.refed, s.since, s.made + 1, z.slow, w)
        BY <1>0, <1>7, <1>8, <1>11, <1>15, <1>17, <1>18, <3>1, TurnDelivers
      <3>7. Place(h) <= w /\ Delivers(h, z.fed, z.refed, s.since, s.made + 1, z.slow, w)
        BY <3>2, <3>4, <3>5, <3>6
      <3> QED BY <1>13, <3>3, <3>7
    <2> QED BY <2>1, <2>2
  <1>23. CadencesOK'
    BY <1>6, <1>19, <1>20, <1>21, <1>22 DEF CadencesOK
  <1>24. DisplayKeeps'
    <2>1. ~(e >= 200) => z.shown = z.made
      BY <1>0, <1>4, <1>9, <1>13 DEF DisplayKeeps
    <2> QED BY <1>6, <1>12, <1>19, <1>21, <2>1 DEF DisplayKeeps
  <1>25. AudioKeeps'
    <2>1. e = 100 => z.fed = z.made
      BY <1>0, <1>4, <1>9, <1>13 DEF AudioKeeps
    <2> QED BY <1>6, <1>12, <1>20, <1>22, <2>1 DEF AudioKeeps
  <1> QED BY <1>16, <1>23, <1>24, <1>25

\* A change of speed, of display or of match leaves the clock alone and, of speed, samples anew.
LEMMA ChangeSamples ==
  ASSUME PacingInv, F!Change
  PROVE  PacingInv'
  <1>0. ClockOK /\ OnTime /\ SampleOK /\ CadencesOK /\ DisplayKeeps /\ AudioKeeps /\ UNCHANGED F!clock
    BY DEF PacingInv, F!Change
  <1>1. now \in Nat
    BY <1>0 DEF ClockOK
  <1>2. knob' \in Speeds /\ fast' \in BOOLEAN /\ mode' \in Modes
    BY <1>0 DEF ClockOK, F!Change, F!HoldFast, F!TurnKnob, F!Match, F!Move
  <1>3. ClockOK'
    BY <1>0, <1>2 DEF F!clock, ClockOK
  <1>4. OnTime'
    BY <1>0 DEF F!clock, OnTime, Lost, F!Deadline, Period, F!Holds
  <1>5. CadencesOK'
    BY <1>0 DEF F!clock, CadencesOK, Place
  <1>6. F!NewSpeed \/ (UNCHANGED sample /\ F!Effective' = F!Effective)
    BY DEF F!Change, F!HoldFast, F!TurnKnob, F!Match, F!Move, F!Effective
  <1>7. CASE F!NewSpeed
    <2>1. PICK z : z = sample'
      OBVIOUS
    <2>2. /\ z \in Samples /\ z.since = now /\ z.made = 0 /\ z.shown = 0 /\ z.fed = 0 /\ z.reshown = 0 /\ z.refed = 0
          /\ z.slow = FALSE
      BY <1>1, <1>7, <2>1, SampleFromIs DEF F!NewSpeed
    <2>3. SampleOK'
      <3>1. 0 * F!Pal = 0 /\ now - now = 0 /\ now <= now
        BY <1>1, PalIs
      <3>2. now' = now
        BY <1>0 DEF F!clock
      <3> QED BY <2>1, <2>2, <3>1, <3>2 DEF SampleOK
    <2>4. Delivers(display, 0, 0, now, 0, FALSE, now) /\ Delivers(audio, 0, 0, now, 0, FALSE, now)
      BY <1>0, <1>1, FreshDelivers DEF CadencesOK
    <2>5. DisplayKeeps' /\ AudioKeeps'
      <3>1. now' = now /\ display' = display /\ audio' = audio
        BY <1>0 DEF F!clock
      <3> QED BY <2>1, <2>2, <2>4, <3>1 DEF DisplayKeeps, AudioKeeps
    <2> QED BY <1>3, <1>4, <1>5, <2>3, <2>5 DEF PacingInv
  <1>8. CASE UNCHANGED sample /\ F!Effective' = F!Effective
    <2>1. SampleOK' /\ DisplayKeeps' /\ AudioKeeps'
      BY <1>0, <1>8 DEF F!clock, SampleOK, DisplayKeeps, AudioKeeps
    <2> QED BY <1>3, <1>4, <1>5, <2>1 DEF PacingInv
  <1> QED BY <1>6, <1>7, <1>8

\* Every frame and every change keeps it.
LEMMA PacingSteps == ASSUME PacingInv, F!Next \/ UNCHANGED F!vars PROVE PacingInv'
  <1>1. ASSUME NEW work \in Works, NEW late \in Lates, NEW rest \in Rests, NEW frozen \in BOOLEAN,
               F!PacedFrame(work, late, rest, frozen)
        PROVE  PacingInv'
    <2>1. ClockOK' /\ OnTime'
      BY <1>1, FrameOnTime DEF PacingInv
    <2> QED BY <1>1, <2>1, FrameSamples DEF PacingInv
  <1>2. CASE F!Change
    BY <1>2, ChangeSamples
  <1>3. CASE UNCHANGED F!vars
    BY <1>3 DEF F!vars, F!clock, PacingInv, ClockOK, OnTime, Lost, F!Deadline, Period, F!Holds, SampleOK, CadencesOK, Place,
                DisplayKeeps, AudioKeeps, F!Effective
  <1> QED BY <1>1, <1>2, <1>3 DEF F!Next

-----------------------------------------------------------------------------
(* The blitter. *)

\* A recursion over the numbers up to n, of values of one kind.
Turning(g, n, U, b, Q) == g \in [0..n -> U] /\ g[0] = b /\ \A k \in 1..n : g[k] = Q[k][g[k - 1]]

\* There is such a g.
LEMMA Iterated ==
  ASSUME NEW n \in Nat, NEW U, NEW b \in U, NEW Q \in [1..n -> [U -> U]]
  PROVE  \E g : Turning(g, n, U, b, Q)
  <1> DEFINE S == {m \in Nat : m <= n => \E g : Turning(g, m, U, b, Q)}
  <1>1. 0 \in S
    <2> DEFINE h == [k \in 0..0 |-> b]
    <2>1. h \in [0..0 -> U] /\ h[0] = b
      OBVIOUS
    <2>2. Turning(h, 0, U, b, Q)
      BY <2>1 DEF Turning
    <2> QED BY <2>2
  <1>2. ASSUME NEW m \in Nat, m \in S PROVE m + 1 \in S
    <2> SUFFICES ASSUME m + 1 <= n PROVE \E g : Turning(g, m + 1, U, b, Q)
      OBVIOUS
    <2>1. PICK g : Turning(g, m, U, b, Q)
      BY <1>2
    <2>2. g \in [0..m -> U] /\ g[m] \in U /\ m + 1 \in 1..n
      BY <2>1 DEF Turning
    <2> DEFINE e == Q[m + 1][g[m]]
               h == [k \in 0..m + 1 |-> IF k = m + 1 THEN e ELSE g[k]]
    <2>3. e \in U
      <3>1. Q[m + 1] \in [U -> U]
        BY <2>2
      <3> QED BY <2>2, <3>1
    <2>4. h[m + 1] = e /\ h[m] = g[m] /\ h[0] = g[0]
      OBVIOUS
    <2>5. h \in [0..m + 1 -> U]
      <3>1. ASSUME NEW k \in 0..m + 1 PROVE (IF k = m + 1 THEN e ELSE g[k]) \in U
        <4> HIDE DEF e
        <4>1. CASE k = m + 1
          BY <2>3, <4>1
        <4>2. CASE k # m + 1
          <5>1. k \in 0..m
            BY <4>2
          <5> QED BY <2>2, <4>2, <5>1
        <4> QED BY <4>1, <4>2
      <3> HIDE DEF e
      <3> QED BY <3>1
    <2>6. ASSUME NEW k \in 1..m + 1 PROVE h[k] = Q[k][h[k - 1]]
      <3>1. CASE k = m + 1
        BY <2>4, <3>1
      <3>2. CASE k # m + 1
        <4>1. k \in 1..m /\ k - 1 \in 0..m /\ k \in 0..m + 1 /\ k - 1 \in 0..m + 1 /\ k - 1 # m + 1
          BY <3>2
        <4>2. h[k] = g[k] /\ h[k - 1] = g[k - 1]
          BY <3>2, <4>1
        <4> QED BY <2>1, <4>1, <4>2 DEF Turning
      <3> QED BY <3>1, <3>2
    <2> HIDE DEF e, h
    <2>7. Turning(h, m + 1, U, b, Q)
      BY <2>1, <2>4, <2>5, <2>6 DEF Turning
    <2> QED BY <2>7
  <1> HIDE DEF S
  <1>3. n \in S
    BY <1>1, <1>2, Induction
  <1> QED BY <1>3 DEF S
-----------------------------------------------------------------------------
(* The quads of a frame. *)

Mems    == [0..Words - 1 -> SUBSET Bits]
WholeWords == {n \in Int : n % 2 = 0}
\* A row on its way, and the rows of an area.
Spans   == [mem : Mems, a : SUBSET Bits, b : SUBSET Bits, carry : BOOLEAN]
Strides == [p : [Channel -> WholeWords], s : Spans]
\* A line on its way.
Steps   == [mem : Mems, cpt : Int, ash : Bits, acc : Int, sign : BOOLEAN, dotted : BOOLEAN]

\* A word is two halves, and a half's bits are a word's.
LEMMA HalvesAre ==
  /\ W \div 2 \in Nat
  /\ \A half \in {0, 1}, n \in 1..W \div 2 : half * (W \div 2) + n - 1 \in Bits
  <1>1. W \in Nat /\ W % 2 = 0
    BY BlitterAssumed DEF BlitterAssumption
  <1>2. PICK h : h = W \div 2
    OBVIOUS
  <1>3. h \in Nat /\ W = 2 * h
    BY <1>1, <1>2
  <1>4. ASSUME NEW half \in {0, 1}, NEW n \in 1..h PROVE half * h + n - 1 \in 0..W - 1
    <2>1. CASE half = 0
      BY <1>3, <2>1
    <2>2. CASE half = 1
      BY <1>3, <2>2
    <2> QED BY <2>1, <2>2
  <1> QED BY <1>2, <1>3, <1>4 DEF Bits

\* A half of the fill table is bits of a word, and a carry: bit after bit.
HalfBits == [bits : SUBSET Bits, carry : BOOLEAN]
HalfStep(data, half, inclusive, k, u) ==
  LET i   == half * (W \div 2) + k - 1
      lit == IF inclusive THEN i \in data \/ u.carry ELSE (i \in data) # u.carry
  IN [bits |-> IF lit THEN u.bits \cup {i} ELSE u.bits, carry |-> u.carry # (i \in data)]
Halved(f, data, half, carry, inclusive) ==
  /\ f \in [0..W \div 2 -> HalfBits] /\ f[0] = [bits |-> {}, carry |-> carry]
  /\ \A k \in 1..W \div 2 : f[k] = HalfStep(data, half, inclusive, k, f[k - 1])

\* The recursion of a half has its value.
LEMMA HalfIs ==
  ASSUME NEW data, NEW half \in {0, 1}, NEW carry \in BOOLEAN, NEW inclusive \in BOOLEAN
  PROVE  /\ FillHalf(data, half, carry, inclusive) \in HalfBits
         /\ \E f : Halved(f, data, half, carry, inclusive) /\ FillHalf(data, half, carry, inclusive) = f[W \div 2]
  <1> DEFINE n == W \div 2
             U == HalfBits
             start == [bits |-> {}, carry |-> carry]
             step(k, u) == HalfStep(data, half, inclusive, k, u)
             Q == [k \in 1..n |-> [u \in U |-> step(k, u)]]
             Fs(f) == f = [k \in 0..n |-> IF k = 0 THEN start ELSE step(k, f[k - 1])]
             w == CHOOSE f : Fs(f)
  <1>1. n \in Nat /\ start \in U
    BY HalvesAre DEF HalfBits
  <1>2. ASSUME NEW k \in 1..n, NEW u \in U PROVE step(k, u) \in U
    <2> DEFINE i == half * n + k - 1
    <2>1. i \in Bits
      BY HalvesAre
    <2> HIDE DEF i
    <2>2. step(k, u) = [bits |-> IF (IF inclusive THEN i \in data \/ u.carry ELSE (i \in data) # u.carry) THEN u.bits \cup {i} ELSE u.bits,
                        carry |-> u.carry # (i \in data)]
      BY DEF HalfStep, i
    <2> HIDE DEF step
    <2> QED BY <2>1, <2>2 DEF HalfBits
  <1>3. Q \in [1..n -> [U -> U]]
    <2> HIDE DEF step, U, n
    <2> QED BY <1>2
  <1>4. PICK g : Turning(g, n, U, start, Q)
    <2> HIDE DEF Q, U, start, n
    <2> QED BY <1>1, <1>3, Iterated
  <1> HIDE DEF step, U, start, n
  <1>5. Fs(g)
    <2>1. ASSUME NEW k \in 1..n PROVE k - 1 \in 0..n /\ g[k] = step(k, g[k - 1])
      <3>1. k - 1 \in 0..n
        BY <1>1
      <3>2. g[k - 1] \in U /\ g[k] = Q[k][g[k - 1]]
        BY <1>4, <3>1 DEF Turning
      <3> QED BY <3>1, <3>2
    <2> QED BY <1>1, <1>4, <2>1 DEF Turning
  <1>6. Fs(w)
    BY <1>5
  <1> HIDE DEF w
  <1>7. \A k \in 0..n : w[k] \in U
    <2>1. w[0] \in U /\ \A k \in 1..n : w[k - 1] \in U => w[k] \in U
      BY <1>1, <1>2, <1>6
    <2> QED BY <1>1, <2>1, Stays
  <1>8. w \in [0..n -> U] /\ w[0] = start /\ \A k \in 1..n : w[k] = step(k, w[k - 1])
    BY <1>1, <1>6, <1>7
  <1>9. FillHalf(data, half, carry, inclusive) = w[n]
    BY DEF FillHalf, w, step, start, n, HalfStep
  <1>10. Halved(w, data, half, carry, inclusive)
    BY <1>8 DEF Halved, step, start, n, U
  <1>11. w[n] \in U
    BY <1>1, <1>8
  <1> QED BY <1>9, <1>10, <1>11 DEF U, n

\* A word filled is bits and a carry.
LEMMA FilledIs ==
  ASSUME NEW b \in AreaRegs, NEW data \in SUBSET Bits, NEW carry \in BOOLEAN
  PROVE  Filled(b, data, carry) \in HalfBits
  <1>1. b.fill \in BOOLEAN /\ b.inclusive \in BOOLEAN
    BY DEF AreaRegs
  <1> DEFINE low == FillHalf(data, 0, carry, b.inclusive)
             high == FillHalf(data, 1, low.carry, b.inclusive)
  <1>2. low \in HalfBits
    BY <1>1, HalfIs
  <1> HIDE DEF low
  <1>3. high \in HalfBits
    <2>1. low.carry \in BOOLEAN
      BY <1>2 DEF HalfBits
    <2> QED BY <1>1, <2>1, HalfIs
  <1> HIDE DEF high
  <1> QED BY <1>1, <1>2, <1>3 DEF Filled, low, high, HalfBits

\* What is read and written of memory.
LEMMA MemoryIs ==
  ASSUME NEW m \in Mems, NEW a \in Int, NEW v \in SUBSET Bits
  PROVE  WordAt(m, a) \in SUBSET Bits /\ Stored(m, a, v) \in Mems
  BY DEF WordAt, Stored, Mems

\* A minterm of words is a word.
LEMMA MintermIs == \A a, b, c, lf : Minterm(a, b, c, lf) \in SUBSET Bits
  BY DEF Minterm

\* A word drawn leaves memory, the words to be shifted and the carry what they are.
LEMMA WordIs ==
  ASSUME NEW b \in AreaRegs, NEW p \in [Channel -> Int], NEW s \in Spans, NEW x \in Int
  PROVE  WordStep(b, p, s, x) \in Spans
  <1> DEFINE off == IF b.desc THEN -2 * x ELSE 2 * x
             a   == Used(b, s.mem, "A", p["A"] + off)
                      \cap (IF x = 0 THEN b.first ELSE Bits)
                      \cap (IF x = b.w - 1 THEN b.last ELSE Bits)
             bw  == Used(b, s.mem, "B", p["B"] + off)
             got == Minterm(Shifted(b.desc, a, s.a, b.ash), Shifted(b.desc, bw, s.b, b.bsh),
                            Used(b, s.mem, "C", p["C"] + off), b.lf)
             d   == Filled(b, got, s.carry)
             to  == p["D"] + off
             m   == IF "D" \in b.use /\ to \div 2 \notin Copper THEN Stored(s.mem, to, d.bits) ELSE s.mem
  <1>1. off \in Int /\ \A c \in Channel : p[c] + off \in Int
    <2>1. off \in Int
      OBVIOUS
    <2> HIDE DEF off
    <2> QED BY <2>1
  <1>2. s.mem \in Mems /\ s.carry \in BOOLEAN
    BY DEF Spans
  <1> HIDE DEF off
  <1>3. \A c \in Channel : Used(b, s.mem, c, p[c] + off) \in SUBSET Bits
    BY <1>1, <1>2, MemoryIs DEF Used
  <1>4. a \in SUBSET Bits /\ bw \in SUBSET Bits
    BY <1>3 DEF Channel
  <1> HIDE DEF a, bw
  <1>5. got \in SUBSET Bits
    BY MintermIs
  <1> HIDE DEF got
  <1>6. d.bits \in SUBSET Bits /\ d.carry \in BOOLEAN
    BY <1>2, <1>5, FilledIs DEF HalfBits
  <1> HIDE DEF d
  <1>7. to \in Int
    BY <1>1 DEF Channel
  <1> HIDE DEF to
  <1>8. m \in Mems
    BY <1>2, <1>6, <1>7, MemoryIs
  <1> HIDE DEF m
  <1>9. WordStep(b, p, s, x) = [mem |-> m, a |-> a, b |-> bw, carry |-> d.carry]
    BY DEF WordStep, m, to, d, got, a, bw, off
  <1> QED BY <1>4, <1>6, <1>8, <1>9 DEF Spans

\* A row is its words, one after the other.
Rowed(f, b, p, s) == /\ f \in [0..b.w -> Spans] /\ f[0] = [s EXCEPT !.carry = b.carryIn]
                     /\ \A x \in 1..b.w : f[x] = WordStep(b, p, f[x - 1], x - 1)

\* A row is what its recursion gives.
LEMMA RowIs ==
  ASSUME NEW b \in AreaRegs, NEW p \in [Channel -> Int], NEW s \in Spans
  PROVE  Row(b, p, s) \in Spans /\ \E f : Rowed(f, b, p, s) /\ Row(b, p, s) = f[b.w]
  <1> DEFINE n == b.w
             start == [s EXCEPT !.carry = b.carryIn]
             step(k, u) == WordStep(b, p, u, k - 1)
             Q == [k \in 1..n |-> [u \in Spans |-> step(k, u)]]
             Fs(f) == f = [x \in 0..n |-> IF x = 0 THEN start ELSE step(x, f[x - 1])]
             w == CHOOSE f : Fs(f)
  <1>1. n \in Nat /\ start \in Spans
    BY DEF AreaRegs, Spans
  <1>2. ASSUME NEW k \in 1..n, NEW u \in Spans PROVE step(k, u) \in Spans
    <2>1. k - 1 \in Int
      BY <1>1
    <2> QED BY <2>1, WordIs
  <1> HIDE DEF step, start, n
  <1>3. Q \in [1..n -> [Spans -> Spans]]
    BY <1>2
  <1>4. PICK g : Turning(g, n, Spans, start, Q)
    <2> HIDE DEF Q
    <2> QED BY <1>1, <1>3, Iterated
  <1>5. Fs(g)
    <2>1. ASSUME NEW k \in 1..n PROVE k - 1 \in 0..n /\ g[k] = step(k, g[k - 1])
      <3>1. k - 1 \in 0..n
        BY <1>1
      <3>2. g[k - 1] \in Spans /\ g[k] = Q[k][g[k - 1]]
        BY <1>4, <3>1 DEF Turning
      <3> QED BY <3>1, <3>2
    <2> QED BY <1>1, <1>4, <2>1 DEF Turning
  <1>6. Fs(w)
    BY <1>5
  <1> HIDE DEF w
  <1>7. \A k \in 0..n : w[k] \in Spans
    <2>1. w[0] \in Spans /\ \A k \in 1..n : w[k - 1] \in Spans => w[k] \in Spans
      BY <1>1, <1>2, <1>6
    <2> QED BY <1>1, <2>1, Stays
  <1>8. w \in [0..n -> Spans] /\ w[0] = start /\ \A k \in 1..n : w[k] = step(k, w[k - 1])
    BY <1>1, <1>6, <1>7
  <1>9. Row(b, p, s) = w[n]
    BY DEF Row, w, step, start, n
  <1>10. Rowed(w, b, p, s)
    BY <1>8 DEF Rowed, step, start, n
  <1> QED BY <1>1, <1>8, <1>9, <1>10 DEF n

\* A word that is not shifted is drawn from itself alone.
LEMMA Unshifted ==
  ASSUME NEW down \in BOOLEAN, NEW word, NEW u, NEW v
  PROVE  Shifted(down, word, u, 0) = Shifted(down, word, v, 0)
  <1>1. \A i \in Bits : i \in Int /\ i >= 0 /\ i < W
    BY BlitterAssumed DEF Bits, BlitterAssumption
  <1>2. \A i \in Bits : ~(i < 0) /\ i + 0 < W
    BY <1>1
  <1> QED BY <1>2 DEF Shifted

\* Nothing but memory and the carry decides what an unshifted word draws.
LEMMA WordOfMemory ==
  ASSUME NEW b \in AreaRegs, b.ash = 0, b.bsh = 0, NEW p, NEW x, NEW s, NEW t, s.mem = t.mem, s.carry = t.carry
  PROVE  WordStep(b, p, s, x).mem = WordStep(b, p, t, x).mem /\ WordStep(b, p, s, x).carry = WordStep(b, p, t, x).carry
  <1>1. b.desc \in BOOLEAN
    BY DEF AreaRegs
  <1>2. \A word : Shifted(b.desc, word, s.a, 0) = Shifted(b.desc, word, t.a, 0) /\ Shifted(b.desc, word, s.b, 0) = Shifted(b.desc, word, t.b, 0)
    BY <1>1, Unshifted
  <1> QED BY <1>2 DEF WordStep

\* Nor what an unshifted row draws.
LEMMA RowOfMemory ==
  ASSUME NEW b \in AreaRegs, b.ash = 0, b.bsh = 0, NEW p \in [Channel -> Int], NEW s \in Spans, NEW t \in Spans, s.mem = t.mem
  PROVE  Row(b, p, s).mem = Row(b, p, t).mem
  <1>1. PICK f : Rowed(f, b, p, s) /\ Row(b, p, s) = f[b.w]
    BY RowIs
  <1>2. PICK g : Rowed(g, b, p, t) /\ Row(b, p, t) = g[b.w]
    BY RowIs
  <1>3. b.w \in Nat
    BY DEF AreaRegs
  <1> DEFINE S == {n \in Nat : n <= b.w => f[n].mem = g[n].mem /\ f[n].carry = g[n].carry}
  <1>4. 0 \in S
    <2>1. f[0] = [s EXCEPT !.carry = b.carryIn] /\ g[0] = [t EXCEPT !.carry = b.carryIn]
      BY <1>1, <1>2 DEF Rowed
    <2> QED BY <2>1 DEF Spans
  <1>5. ASSUME NEW n \in Nat, n \in S PROVE n + 1 \in S
    <2> SUFFICES ASSUME n + 1 <= b.w PROVE f[n + 1].mem = g[n + 1].mem /\ f[n + 1].carry = g[n + 1].carry
      OBVIOUS
    <2>1. n + 1 \in 1..b.w /\ (n + 1) - 1 = n /\ n <= b.w
      BY <1>3
    <2>2. f[n].mem = g[n].mem /\ f[n].carry = g[n].carry
      BY <1>5, <2>1
    <2>3. f[n + 1] = WordStep(b, p, f[n], n) /\ g[n + 1] = WordStep(b, p, g[n], n)
      BY <1>1, <1>2, <2>1 DEF Rowed
    <2> QED BY <2>2, <2>3, WordOfMemory
  <1> HIDE DEF S
  <1>6. b.w \in S
    BY <1>3, <1>4, <1>5, Induction
  <1> QED BY <1>1, <1>2, <1>3, <1>6 DEF S

\* Whole words: what is left of one is one, and rows away from one too.
LEMMA WholeWordsAre ==
  /\ \A x \in Int : x - (x % 2) \in WholeWords
  /\ \A x \in WholeWords : x \in Int /\ x - (x % 2) = x
  /\ \A x, y \in WholeWords, n \in Nat : x + y + 2 * n \in WholeWords /\ x - y - 2 * n \in WholeWords
  <1>1. ASSUME NEW x \in Int PROVE (x - (x % 2)) \in Int /\ (x - (x % 2)) % 2 = 0
    OBVIOUS
  <1>2. ASSUME NEW x \in Int, NEW y \in Int, x % 2 = 0, y % 2 = 0, NEW n \in Nat
        PROVE  (x + y + 2 * n) % 2 = 0 /\ (x - y - 2 * n) % 2 = 0
    BY <1>2
  <1> QED BY <1>1, <1>2 DEF WholeWords

\* The pointers of the next row are again at whole words; those of channels not used stay.
LEMMA AdvancedIs ==
  ASSUME NEW b \in AreaRegs, NEW p \in [Channel -> WholeWords]
  PROVE  Advanced(b, p) \in [Channel -> WholeWords] /\ \A c \in Channel \ b.use : Advanced(b, p)[c] = p[c]
  <1>1. b.w \in Nat /\ b.mod \in [Channel -> WholeWords]
    BY DEF AreaRegs, WholeWords
  <1>2. \A c \in Channel : p[c] - b.mod[c] - 2 * b.w \in WholeWords /\ p[c] + b.mod[c] + 2 * b.w \in WholeWords
    BY <1>1, WholeWordsAre
  <1> QED BY <1>2 DEF Advanced

\* An area is its rows, one below the other.
Below(b, u) == [p |-> Advanced(b, u.p), s |-> Row(b, u.p, u.s)]
Top(m, p) == [p |-> Even(p), s |-> [mem |-> m, a |-> {}, b |-> {}, carry |-> FALSE]]
Drawn(f, b, m, p, h) == /\ f \in [0..h -> Strides] /\ f[0] = Top(m, p)
                        /\ \A y \in 1..h : f[y] = Below(b, f[y - 1])

\* Without their odd bytes, pointers are at whole words.
LEMMA EvenIs == ASSUME NEW p \in [Channel -> Int] PROVE Even(p) \in [Channel -> WholeWords]
  BY WholeWordsAre DEF Even

\* The row below a row is again a row.
LEMMA BelowIs ==
  ASSUME NEW b \in AreaRegs, NEW u \in Strides
  PROVE  Below(b, u) \in Strides
  <1>1. u.p \in [Channel -> WholeWords] /\ u.p \in [Channel -> Int] /\ u.s \in Spans
    BY WholeWordsAre DEF Strides
  <1>2. Advanced(b, u.p) \in [Channel -> WholeWords] /\ Row(b, u.p, u.s) \in Spans
    BY <1>1, AdvancedIs, RowIs
  <1> QED BY <1>2 DEF Below, Strides

\* An area is what its recursion gives.
LEMMA AreaIs ==
  ASSUME NEW b \in AreaRegs, NEW m \in Mems, NEW p \in [Channel -> Int], NEW h \in Nat
  PROVE  \E f : Drawn(f, b, m, p, h) /\ Area(b, m, p, h) = [mem |-> f[h].s.mem, pt |-> PointersLeft(b, p, f[h].p)]
  <1> DEFINE start == Top(m, p)
             step(u) == Below(b, u)
             Q == [k \in 1..h |-> [u \in Strides |-> step(u)]]
             Fs(f) == f = [y \in 0..h |-> IF y = 0 THEN start ELSE step(f[y - 1])]
             w == CHOOSE f : Fs(f)
  <1>1. start \in Strides
    BY EvenIs DEF Strides, Spans, Top
  <1>2. ASSUME NEW u \in Strides PROVE step(u) \in Strides
    BY BelowIs
  <1> HIDE DEF step, start
  <1>3. Q \in [1..h -> [Strides -> Strides]]
    BY <1>2
  <1>4. PICK g : Turning(g, h, Strides, start, Q)
    <2> HIDE DEF Q
    <2> QED BY <1>1, <1>3, Iterated
  <1>5. Fs(g)
    <2>1. ASSUME NEW k \in 1..h PROVE k - 1 \in 0..h /\ g[k] = step(g[k - 1])
      <3>1. k - 1 \in 0..h
        OBVIOUS
      <3>2. g[k - 1] \in Strides /\ g[k] = Q[k][g[k - 1]]
        BY <1>4, <3>1 DEF Turning
      <3> QED BY <3>1, <3>2
    <2> QED BY <1>1, <1>4, <2>1 DEF Turning
  <1>6. Fs(w)
    BY <1>5
  <1> HIDE DEF w
  <1>7. \A k \in 0..h : w[k] \in Strides
    <2>1. w[0] \in Strides /\ \A k \in 1..h : w[k - 1] \in Strides => w[k] \in Strides
      BY <1>1, <1>2, <1>6
    <2> QED BY <2>1, Stays
  <1>8. w \in [0..h -> Strides] /\ w[0] = start /\ \A k \in 1..h : w[k] = step(w[k - 1])
    BY <1>6, <1>7
  <1>9. Area(b, m, p, h) = [mem |-> w[h].s.mem, pt |-> PointersLeft(b, p, w[h].p)]
    BY DEF Area, w, step, start, Top, Below
  <1>10. Drawn(w, b, m, p, h)
    BY <1>8 DEF Drawn, step, start
  <1> QED BY <1>9, <1>10

\* The pointers a blit leaves are numbers, memory is memory.
LEMMA AreaKeeps ==
  ASSUME NEW b \in AreaRegs, NEW m \in Mems, NEW p \in [Channel -> Int], NEW h \in Nat
  PROVE  Area(b, m, p, h).mem \in Mems /\ Area(b, m, p, h).pt \in [Channel -> Int]
  <1>1. PICK f : Drawn(f, b, m, p, h) /\ Area(b, m, p, h) = [mem |-> f[h].s.mem, pt |-> PointersLeft(b, p, f[h].p)]
    BY AreaIs
  <1>2. f[h] \in Strides
    BY <1>1 DEF Drawn
  <1>3. f[h].s.mem \in Mems /\ f[h].p \in [Channel -> Int]
    BY <1>2, WholeWordsAre DEF Strides, Spans
  <1> QED BY <1>1, <1>3 DEF PointersLeft

\* The channels that are not used stay where they were, less an odd byte.
LEMMA UnusedStay ==
  ASSUME NEW b \in AreaRegs, NEW m, NEW p, NEW h \in Nat, NEW f, Drawn(f, b, m, p, h)
  PROVE  \A y \in 0..h : \A c \in Channel \ b.use : f[y].p[c] = Even(p)[c]
  <1> DEFINE S == {n \in Nat : n <= h => \A c \in Channel \ b.use : f[n].p[c] = Even(p)[c]}
  <1>1. 0 \in S
    BY DEF Drawn, Top
  <1>2. ASSUME NEW n \in Nat, n \in S PROVE n + 1 \in S
    <2> SUFFICES ASSUME n + 1 <= h PROVE \A c \in Channel \ b.use : f[n + 1].p[c] = Even(p)[c]
      OBVIOUS
    <2>1. n + 1 \in 1..h /\ (n + 1) - 1 = n /\ n <= h /\ n \in 0..h
      OBVIOUS
    <2>2. f[n] \in Strides /\ f[n + 1] = Below(b, f[n])
      BY <2>1 DEF Drawn
    <2>3. f[n].p \in [Channel -> WholeWords] /\ f[n + 1].p = Advanced(b, f[n].p)
      BY <2>2 DEF Strides, Below
    <2> QED BY <1>2, <2>1, <2>3, AdvancedIs
  <1> HIDE DEF S
  <1>3. ASSUME NEW y \in 0..h PROVE y \in S
    <2>1. y \in Nat
      OBVIOUS
    <2> QED BY <1>1, <1>2, <2>1, Induction
  <1>4. ASSUME NEW y \in 0..h PROVE \A c \in Channel \ b.use : f[y].p[c] = Even(p)[c]
    BY <1>3 DEF S
  <1> QED BY <1>4

\* The rows drawn first do not depend on how many follow.
LEMMA SameStart ==
  ASSUME NEW b, NEW m, NEW p, NEW h \in Nat, NEW k \in Nat, h <= k, NEW f, NEW g,
         Drawn(f, b, m, p, h), Drawn(g, b, m, p, k)
  PROVE  f[h] = g[h]
  <1> DEFINE S == {n \in Nat : n <= h => f[n] = g[n]}
  <1>1. 0 \in S
    BY DEF Drawn
  <1>2. ASSUME NEW n \in Nat, n \in S PROVE n + 1 \in S
    <2> SUFFICES ASSUME n + 1 <= h PROVE f[n + 1] = g[n + 1]
      OBVIOUS
    <2>1. n + 1 \in 1..h /\ n + 1 \in 1..k /\ (n + 1) - 1 = n /\ n <= h
      OBVIOUS
    <2> QED BY <1>2, <2>1 DEF Drawn
  <1> HIDE DEF S
  <1>3. h \in S
    BY <1>1, <1>2, Induction
  <1> QED BY <1>3 DEF S

\* The same, if nothing is shifted.
Alike(b, l, m) == b.ash = 0 /\ b.bsh = 0 => l = m

\* A blit that starts where the rows of another ended goes on with its pointers and, when nothing is shifted, its words.
LEMMA GoesOn ==
  ASSUME NEW b \in AreaRegs, NEW m, NEW p, NEW l, NEW q, NEW h \in Nat, NEW k \in Nat, NEW f, NEW g,
         Drawn(f, b, m, p, h + k), Drawn(g, b, l, q, k), Even(q) = f[h].p, Alike(b, l, f[h].s.mem)
  PROVE  g[k].p = f[h + k].p /\ Alike(b, g[k].s.mem, f[h + k].s.mem)
  <1> DEFINE plain == b.ash = 0 /\ b.bsh = 0
             Same(n) == g[n].p = f[h + n].p /\ (plain => g[n].s.mem = f[h + n].s.mem)
             S == {n \in Nat : n <= k => Same(n)}
  <1>1. 0 \in S
    <2>1. h + 0 = h
      OBVIOUS
    <2>2. g[0] = [p |-> Even(q), s |-> [mem |-> l, a |-> {}, b |-> {}, carry |-> FALSE]]
      BY DEF Drawn, Top
    <2> QED BY <2>1, <2>2 DEF Alike
  <1>2. ASSUME NEW n \in Nat, n \in S PROVE n + 1 \in S
    <2> SUFFICES ASSUME n + 1 <= k PROVE Same(n + 1)
      OBVIOUS
    <2>1. /\ n + 1 \in 1..k /\ (n + 1) - 1 = n /\ n <= k /\ n \in 0..k
          /\ h + n + 1 \in 1..h + k /\ (h + n + 1) - 1 = h + n /\ h + n \in 0..h + k /\ h + (n + 1) = h + n + 1
      OBVIOUS
    <2>2. g[n + 1] = Below(b, g[n]) /\ f[h + n + 1] = Below(b, f[h + n]) /\ g[n] \in Strides /\ f[h + n] \in Strides
      BY <2>1 DEF Drawn
    <2>3. Same(n)
      BY <1>2, <2>1
    <2>4. g[n + 1].p = f[h + n + 1].p
      BY <2>2, <2>3 DEF Below
    <2>5. ASSUME plain PROVE g[n + 1].s.mem = f[h + n + 1].s.mem
      <3>1. g[n].p \in [Channel -> Int] /\ g[n].s \in Spans /\ f[h + n].s \in Spans
        BY <2>2, WholeWordsAre DEF Strides
      <3>2. g[n + 1].s = Row(b, g[n].p, g[n].s) /\ f[h + n + 1].s = Row(b, g[n].p, f[h + n].s)
        BY <2>2, <2>3 DEF Below
      <3> QED BY <2>3, <2>5, <3>1, <3>2, RowOfMemory
    <2> QED BY <2>1, <2>4, <2>5
  <1> HIDE DEF S
  <1>3. k \in S
    BY <1>1, <1>2, Induction
  <1> QED BY <1>3 DEF S, Alike

\* k rows from l, where h rows from m have left the pointers, are as all of them at once.
Continues(b, m, p, h, k, l) ==
  LET then  == Area(b, l, Area(b, m, p, h).pt, k)
      whole == Area(b, m, p, h + k)
  IN then.pt = whole.pt /\ Alike(b, then.mem, whole.mem)

\* Two blits, the second with no pointer reloaded, are one blit of all their rows.
LEMMA BlitsChain ==
  ASSUME NEW b \in AreaRegs, NEW m \in Mems, NEW p \in [Channel -> Int], NEW h \in Nat, NEW k \in Nat,
         NEW l \in Mems, Alike(b, l, Area(b, m, p, h).mem)
  PROVE  Continues(b, m, p, h, k, l)
  <1> DEFINE first == Area(b, m, p, h)
             then  == Area(b, l, first.pt, k)
             whole == Area(b, m, p, h + k)
  <1>0. first.mem \in Mems /\ first.pt \in [Channel -> Int] /\ h + k \in Nat /\ h <= h + k
    BY AreaKeeps
  <1>1. PICK f : Drawn(f, b, m, p, h) /\ first = [mem |-> f[h].s.mem, pt |-> PointersLeft(b, p, f[h].p)]
    BY AreaIs
  <1> HIDE DEF first
  <1>2. PICK g : Drawn(g, b, m, p, h + k) /\ whole = [mem |-> g[h + k].s.mem, pt |-> PointersLeft(b, p, g[h + k].p)]
    BY <1>0, AreaIs
  <1>3. f[h] = g[h]
    BY <1>0, <1>1, <1>2, SameStart
  <1>4. h \in 0..h /\ f[h] \in Strides /\ f[h].p \in [Channel -> WholeWords]
    BY <1>1 DEF Drawn, Strides
  <1>5. Even(first.pt) = f[h].p
    <2>0. \A y \in 0..h : \A c \in Channel \ b.use : f[y].p[c] = Even(p)[c]
      BY <1>1, UnusedStay
    <2>1. \A c \in Channel : first.pt[c] = IF c \in b.use THEN f[h].p[c] ELSE p[c]
      BY <1>1 DEF PointersLeft
    <2>2. ASSUME NEW c \in Channel PROVE first.pt[c] - (first.pt[c] % 2) = f[h].p[c]
      <3>1. CASE c \in b.use
        <4>1. f[h].p[c] \in WholeWords /\ first.pt[c] = f[h].p[c]
          BY <1>4, <2>1, <3>1
        <4> QED BY <4>1, WholeWordsAre
      <3>2. CASE c \notin b.use
        <4>1. f[h].p[c] = Even(p)[c]
          BY <1>4, <2>0, <3>2
        <4> QED BY <2>1, <3>2, <4>1 DEF Even
      <3> QED BY <3>1, <3>2
    <2> QED BY <1>4, <2>2 DEF Even
  <1>6. PICK e : Drawn(e, b, l, first.pt, k) /\ then = [mem |-> e[k].s.mem, pt |-> PointersLeft(b, first.pt, e[k].p)]
    BY <1>0, AreaIs
  <1>7. Even(first.pt) = g[h].p /\ Alike(b, l, g[h].s.mem)
    BY <1>1, <1>3, <1>5 DEF first, Alike
  <1>8. e[k].p = g[h + k].p /\ Alike(b, e[k].s.mem, g[h + k].s.mem)
    BY <1>2, <1>6, <1>7, GoesOn
  <1>9. PointersLeft(b, first.pt, e[k].p) = PointersLeft(b, p, g[h + k].p)
    BY <1>1, <1>8 DEF PointersLeft
  <1> QED BY <1>2, <1>6, <1>8, <1>9 DEF first, Continues

\* A step of a line.
LEMMA LineStepIs ==
  ASSUME NEW l \in LineRegs, NEW s \in Steps
  PROVE  LineStep(l, s) \in Steps
  <1>1. /\ s.mem \in Mems /\ s.cpt \in Int /\ s.ash \in Bits /\ s.acc \in Int /\ s.sign \in BOOLEAN
        /\ l.small \in Int /\ l.large \in Int /\ l.mod \in Int
        /\ l.sud \in BOOLEAN /\ l.sul \in BOOLEAN /\ l.aul \in BOOLEAN
    BY DEF Steps, LineRegs
  <1> DEFINE acc   == s.acc + (IF s.sign THEN l.small ELSE l.large)
             pen   == {i \in Bits : i + s.ash \in l.pen}
             inked == IF l.single /\ s.dotted THEN s.mem
                      ELSE Stored(s.mem, s.cpt, Minterm(pen, Bits, WordAt(s.mem, s.cpt), l.lf))
             movesX == l.sud \/ ~s.sign
             movesY == ~l.sud \/ ~s.sign
             left   == IF l.sud THEN l.aul ELSE l.sul
             up     == IF l.sud THEN l.sul ELSE l.aul
             across == IF ~movesX THEN 0
                       ELSE IF left THEN (IF s.ash = 0 THEN -2 ELSE 0)
                       ELSE (IF s.ash = W - 1 THEN 2 ELSE 0)
             down   == IF ~movesY THEN 0 ELSE IF up THEN -l.mod ELSE l.mod
             turned == IF ~movesX THEN s.ash ELSE (s.ash + (IF left THEN -1 ELSE 1)) % W
  <1>2. acc \in Int /\ across \in Int /\ down \in Int
    BY <1>1
  <1>3. inked \in Mems
    BY <1>1, MemoryIs, MintermIs
  <1>4. turned \in Bits
    <2>1. W \in Nat /\ W > 0 /\ s.ash \in Int
      BY <1>1, BlitterAssumed DEF BlitterAssumption, Bits
    <2>2. PICK t \in Int : t = s.ash + (IF left THEN -1 ELSE 1)
      BY <2>1
    <2>3. t % W \in 0..W - 1
      BY <2>1, <2>2
    <2> QED BY <1>1, <2>2, <2>3 DEF Bits
  <1> HIDE DEF acc, across, down, turned, inked
  <1>5. s.cpt + across + down \in Int /\ (acc < 0) \in BOOLEAN /\ (~movesY) \in BOOLEAN
    BY <1>1, <1>2
  <1> HIDE DEF movesY
  <1>6. LineStep(l, s) = [mem |-> inked, cpt |-> s.cpt + across + down, ash |-> turned, acc |-> acc, sign |-> acc < 0, dotted |-> ~movesY]
    BY DEF LineStep, inked, across, down, turned, acc, movesY
  <1> QED BY <1>2, <1>3, <1>4, <1>5, <1>6 DEF Steps

\* A line is its steps.
Begun(l, m, p) == [mem |-> m, cpt |-> Even(p)["C"], ash |-> l.ash, acc |-> l.acc, sign |-> l.sign, dotted |-> FALSE]
Lined(f, l, m, p, n) == /\ f \in [0..n -> Steps] /\ f[0] = Begun(l, m, p)
                        /\ \A k \in 1..n : f[k] = LineStep(l, f[k - 1])

\* A line is what its recursion gives.
LEMMA LineIs ==
  ASSUME NEW l \in LineRegs, NEW m \in Mems, NEW p \in [Channel -> Int], NEW n \in Nat
  PROVE  Line(l, m, p, n) \in Steps /\ \E f : Lined(f, l, m, p, n) /\ Line(l, m, p, n) = f[n]
  <1> DEFINE start == Begun(l, m, p)
             step(u) == LineStep(l, u)
             Q == [k \in 1..n |-> [u \in Steps |-> step(u)]]
             Fs(f) == f = [k \in 0..n |-> IF k = 0 THEN start ELSE step(f[k - 1])]
             w == CHOOSE f : Fs(f)
  <1>1. start \in Steps
    <2>1. Even(p)["C"] \in Int
      BY EvenIs, WholeWordsAre DEF Channel
    <2> QED BY <2>1 DEF Steps, LineRegs, Begun
  <1>2. ASSUME NEW u \in Steps PROVE step(u) \in Steps
    BY LineStepIs
  <1> HIDE DEF step, start
  <1>3. Q \in [1..n -> [Steps -> Steps]]
    BY <1>2
  <1>4. PICK g : Turning(g, n, Steps, start, Q)
    <2> HIDE DEF Q
    <2> QED BY <1>1, <1>3, Iterated
  <1>5. Fs(g)
    <2>1. ASSUME NEW k \in 1..n PROVE k - 1 \in 0..n /\ g[k] = step(g[k - 1])
      <3>1. k - 1 \in 0..n
        OBVIOUS
      <3>2. g[k - 1] \in Steps /\ g[k] = Q[k][g[k - 1]]
        BY <1>4, <3>1 DEF Turning
      <3> QED BY <3>1, <3>2
    <2> QED BY <1>1, <1>4, <2>1 DEF Turning
  <1>6. Fs(w)
    BY <1>5
  <1> HIDE DEF w
  <1>7. \A k \in 0..n : w[k] \in Steps
    <2>1. w[0] \in Steps /\ \A k \in 1..n : w[k - 1] \in Steps => w[k] \in Steps
      BY <1>1, <1>2, <1>6
    <2> QED BY <2>1, Stays
  <1>8. w \in [0..n -> Steps] /\ w[0] = start /\ \A k \in 1..n : w[k] = step(w[k - 1])
    BY <1>6, <1>7
  <1>9. Line(l, m, p, n) = w[n]
    BY DEF Line, w, step, start, Begun
  <1>10. Lined(w, l, m, p, n)
    BY <1>8 DEF Lined, step, start
  <1> QED BY <1>8, <1>9, <1>10

\* What the registers and memory hold, where the rows began, and what they have drawn.
Programs == [kind : {"none"}] \cup [kind : {"area"}, with : AreaRegs] \cup [kind : {"line"}, with : LineRegs]
Origins  == prog.kind = "area" => /\ origin.mem \in Mems /\ origin.pt \in [Channel -> Int]
                                  /\ rows = 0 => pt = origin.pt /\ mem = origin.mem
BlitTypes == /\ mem \in Mems /\ pt \in [Channel -> Int] /\ prog \in Programs
             /\ bzero \in BOOLEAN /\ rows \in Nat
BlitInv == BlitTypes /\ Origins /\ ChainedIsOne

\* The invariant says what the registers hold and that chained blits are one.
LEMMA BlitSafe == BlitInv => TypeOK /\ ChainedIsOne
  BY DEF BlitInv, BlitTypes, Mems, Programs, TypeOK

\* It holds before anything is programmed,
LEMMA BlitStarts == Init => BlitInv
  <1> SUFFICES ASSUME Init PROVE BlitInv
    OBVIOUS
  <1>1. mem \in Mems /\ pt \in [Channel -> Int] /\ bzero = FALSE /\ rows = 0 /\ prog = [kind |-> "none"]
    BY BlitterAssumed DEF BlitterAssumption, Init, Mems
  <1>2. prog.kind = "none" /\ prog \in Programs
    BY <1>1 DEF Programs
  <1> QED BY <1>1, <1>2 DEF BlitInv, BlitTypes, Origins, ChainedIsOne

\* is kept by the programming of an area or a line,
LEMMA ProgrammedKeeps ==
  ASSUME BlitInv, NEW kind \in {"area", "line"}, NEW p \in [Channel -> Int], NEW with,
         with \in (IF kind = "area" THEN AreaRegs ELSE LineRegs), Programmed(kind, p, with)
  PROVE  BlitInv'
  <1>1. /\ mem' = mem /\ bzero' = bzero /\ rows' = 0 /\ pt' = p /\ prog' = [kind |-> kind, with |-> with]
        /\ origin' = [mem |-> mem, pt |-> p, with |-> with]
    BY DEF Programmed
  <1>2. prog' \in Programs
    BY <1>1 DEF Programs
  <1>3. BlitTypes'
    BY <1>1, <1>2 DEF BlitInv, BlitTypes
  <1>4. Origins' /\ ChainedIsOne'
    BY <1>1 DEF BlitInv, BlitTypes, Origins, ChainedIsOne
  <1> QED BY <1>3, <1>4 DEF BlitInv

\* by an area drawn,
LEMMA BlitAreaKeeps ==
  ASSUME BlitInv, BlitArea
  PROVE  BlitInv'
  <1>1. PICK h \in 1..MaxRows - rows :
             /\ mem' = Area(prog.with, mem, pt, h).mem /\ pt' = Area(prog.with, mem, pt, h).pt
             /\ rows' = rows + h /\ bzero' = TRUE /\ prog' = prog /\ origin' = origin /\ prog.kind = "area"
    BY DEF BlitArea
  <1>2. PICK b \in AreaRegs : b = prog.with
    BY <1>1 DEF BlitInv, BlitTypes, Programs
  <1>3. /\ mem \in Mems /\ pt \in [Channel -> Int] /\ rows \in Nat /\ prog \in Programs /\ h \in Nat /\ h > 0
        /\ origin.mem \in Mems /\ origin.pt \in [Channel -> Int]
    BY <1>1, BlitterAssumed DEF BlitInv, BlitTypes, Origins, BlitterAssumption
  <1>4. mem' \in Mems /\ pt' \in [Channel -> Int]
    BY <1>1, <1>2, <1>3, AreaKeeps
  <1>5. BlitTypes'
    BY <1>1, <1>3, <1>4 DEF BlitTypes
  <1>6. rows' > 0 /\ Origins'
    BY <1>1, <1>3 DEF Origins
  <1>7. LET whole == Area(b, origin.mem, origin.pt, rows + h)
        IN pt' = whole.pt /\ (b.ash = 0 /\ b.bsh = 0 => mem' = whole.mem)
    <2>1. CASE rows = 0
      <3>1. pt = origin.pt /\ mem = origin.mem /\ rows + h = h
        BY <1>1, <1>3, <2>1 DEF BlitInv, Origins
      <3> QED BY <1>1, <1>2, <3>1
    <2>2. CASE rows # 0
      <3>1. pt = Area(b, origin.mem, origin.pt, rows).pt /\ (b.ash = 0 /\ b.bsh = 0 => mem = Area(b, origin.mem, origin.pt, rows).mem)
        <4>1. rows > 0
          BY <1>3, <2>2
        <4> QED BY <1>1, <1>2, <4>1 DEF BlitInv, ChainedIsOne
      <3> DEFINE start == Area(b, origin.mem, origin.pt, rows)
                 then  == Area(b, mem, start.pt, h)
                 whole == Area(b, origin.mem, origin.pt, rows + h)
      <3>2. then.pt = whole.pt /\ (b.ash = 0 /\ b.bsh = 0 => then.mem = whole.mem)
        <4>1. Alike(b, mem, Area(b, origin.mem, origin.pt, rows).mem)
          BY <3>1 DEF Alike
        <4>2. Continues(b, origin.mem, origin.pt, rows, h, mem)
          BY <1>3, <4>1, BlitsChain
        <4> QED BY <4>2 DEF Continues, Alike
      <3>3. Area(prog.with, mem, pt, h) = then
        BY <1>2, <3>1
      <3> QED BY <1>1, <3>2, <3>3
    <2> QED BY <2>1, <2>2
  <1>8. ChainedIsOne'
    BY <1>1, <1>2, <1>7 DEF ChainedIsOne
  <1> QED BY <1>5, <1>6, <1>8 DEF BlitInv

\* by a line drawn,
LEMMA BlitLineKeeps ==
  ASSUME BlitInv, BlitLine
  PROVE  BlitInv'
  <1>1. PICK n \in 1..prog.with.major + 1 - rows : LET d == Line(prog.with, mem, pt, n) IN
             /\ mem' = d.mem /\ rows' = rows + n
             /\ pt' = [pt EXCEPT !["C"] = d.cpt, !["D"] = d.cpt]
             /\ prog' = [prog EXCEPT !.with.ash = d.ash, !.with.sign = d.sign]
    BY DEF BlitLine
  <1>2. prog.kind = "line" /\ bzero' = TRUE /\ origin' = origin
    BY DEF BlitLine
  <1>3. PICK l \in LineRegs : l = prog.with /\ prog \in [kind : {"line"}, with : LineRegs]
    BY <1>2 DEF BlitInv, BlitTypes, Programs
  <1>4. mem \in Mems /\ pt \in [Channel -> Int] /\ rows \in Nat /\ n \in Nat
    <2>1. l.major \in Nat
      BY DEF LineRegs
    <2> QED BY <1>3, <2>1 DEF BlitInv, BlitTypes
  <1> DEFINE d == Line(l, mem, pt, n)
  <1>5. d \in Steps
    BY <1>4, LineIs
  <1>6. mem' = d.mem /\ rows' = rows + n /\ pt' = [pt EXCEPT !["C"] = d.cpt, !["D"] = d.cpt] /\ prog' = [prog EXCEPT !.with.ash = d.ash, !.with.sign = d.sign]
    BY <1>1, <1>3
  <1> HIDE DEF d
  <1>7. mem' \in Mems /\ pt' \in [Channel -> Int] /\ d.ash \in Bits /\ d.sign \in BOOLEAN
    BY <1>4, <1>5, <1>6 DEF Steps
  <1>8. prog' \in [kind : {"line"}, with : LineRegs]
    BY <1>3, <1>6, <1>7 DEF LineRegs
  <1>9. BlitTypes'
    BY <1>2, <1>4, <1>6, <1>7, <1>8 DEF BlitTypes, Programs
  <1>10. prog'.kind = "line"
    BY <1>8
  <1>11. Origins' /\ ChainedIsOne'
    BY <1>10 DEF Origins, ChainedIsOne
  <1> QED BY <1>9, <1>11 DEF BlitInv

\* and so by every step.
LEMMA BlitSteps ==
  ASSUME BlitInv, Next \/ UNCHANGED vars
  PROVE  BlitInv'
  <1>1. CASE ProgramArea
    <2>1. PICK a \in Areas : Programmed("area", a.from, a.with)
      BY <1>1 DEF ProgramArea
    <2>2. a.from \in [Channel -> Int] /\ a.with \in AreaRegs
      BY BlitterAssumed DEF BlitterAssumption
    <2> QED BY <2>1, <2>2, ProgrammedKeeps
  <1>2. CASE ProgramLine
    <2>1. PICK l \in Lines : Programmed("line", [c \in Channel |-> l.cpt], l)
      BY <1>2 DEF ProgramLine
    <2>2. l \in LineRegs
      BY BlitterAssumed DEF BlitterAssumption
    <2>3. [c \in Channel |-> l.cpt] \in [Channel -> Int]
      BY <2>2 DEF LineRegs
    <2> QED BY <2>1, <2>2, <2>3, ProgrammedKeeps
  <1>3. CASE SkipBlit \/ ReadBzero \/ UNCHANGED vars
    BY <1>3 DEF SkipBlit, ReadBzero, vars, BlitInv, BlitTypes, Origins, ChainedIsOne
  <1> QED BY <1>1, <1>2, <1>3, BlitAreaKeeps, BlitLineKeeps DEF Next

\* With par[i] the parity of a word's edges below i, a filled bit is decided by it, and the carry out is the last of it.
Parities(par, data) == par \in [0..W -> BOOLEAN] /\ \A i \in Bits : par[i + 1] = (par[i] # (i \in data))
Lights(inclusive, data, par, i) == IF inclusive THEN i \in data \/ par[i] ELSE (i \in data) # par[i]

\* A half starts at its first bit.
Starts(from, half, h) == h = W \div 2 /\ W = 2 * h /\ from = half * (W \div 2)
HalfDraws(data, half, inclusive, par, from, h) ==
  FillHalf(data, half, par[from], inclusive)
    = [bits |-> {i \in from..from + h - 1 : Lights(inclusive, data, par, i)}, carry |-> par[from + h]]

\* A half lights what its edges and the parity before them say.
LEMMA HalfOfEdges ==
  ASSUME NEW data \in SUBSET Bits, NEW half \in {0, 1}, NEW inclusive \in BOOLEAN, NEW par, Parities(par, data),
         NEW h \in Nat, NEW from \in Nat, Starts(from, half, h)
  PROVE  HalfDraws(data, half, inclusive, par, from, h)
  <1>2. W = 2 * h /\ from + h <= W /\ W \in Nat
    <2>1. CASE half = 0
      BY <2>1 DEF Starts
    <2>2. CASE half = 1
      BY <2>2 DEF Starts
    <2> QED BY <2>1, <2>2
  <1>4. par[from] \in BOOLEAN
    BY <1>2 DEF Parities
  <1>5. PICK f : Halved(f, data, half, par[from], inclusive) /\ FillHalf(data, half, par[from], inclusive) = f[h]
    BY <1>4, HalfIs DEF Starts
  <1> DEFINE Good(k) == f[k] = [bits |-> {i \in from..from + k - 1 : Lights(inclusive, data, par, i)}, carry |-> par[from + k]]
             S == {n \in Nat : n <= h => Good(n)}
  <1>6. 0 \in S
    <2>1. {i \in from..from + 0 - 1 : Lights(inclusive, data, par, i)} = {} /\ from + 0 = from
      OBVIOUS
    <2> QED BY <1>5, <2>1 DEF Halved
  <1>7. ASSUME NEW n \in Nat, n \in S PROVE n + 1 \in S
    <2> SUFFICES ASSUME n + 1 <= h PROVE Good(n + 1)
      OBVIOUS
    <2>1. n + 1 \in 1..h /\ (n + 1) - 1 = n /\ n <= h
      BY <1>2
    <2>2. Good(n)
      BY <1>7, <2>1
    <2> DEFINE i == from + n
    <2>3. i \in Bits /\ from + (n + 1) = i + 1 /\ i \in Nat
      BY <1>2, <2>1 DEF Bits
    <2>4. par[i] \in BOOLEAN /\ par[i + 1] = (par[i] # (i \in data))
      BY <1>2, <2>3 DEF Parities, Bits
    <2> HIDE DEF i
    <2>5. f[n + 1] = HalfStep(data, half, inclusive, n + 1, f[n])
      BY <1>5, <2>1 DEF Halved, Starts
    <2>6. f[n].carry = par[i] /\ f[n].bits = {j \in from..from + n - 1 : Lights(inclusive, data, par, j)}
      BY <2>2 DEF i
    <2>7. f[n + 1] = [bits |-> IF Lights(inclusive, data, par, i) THEN f[n].bits \cup {i} ELSE f[n].bits, carry |-> par[i + 1]]
      <3>1. half * (W \div 2) + (n + 1) - 1 = i
        BY DEF Starts, i
      <3> QED BY <2>4, <2>5, <2>6, <3>1 DEF HalfStep, Lights
    <2>8. from..from + (n + 1) - 1 = (from..from + n - 1) \cup {i} /\ i \notin from..from + n - 1
      BY DEF i
    <2>9. {j \in from..from + (n + 1) - 1 : Lights(inclusive, data, par, j)}
            = IF Lights(inclusive, data, par, i) THEN f[n].bits \cup {i} ELSE f[n].bits
      BY <2>6, <2>8
    <2> QED BY <2>3, <2>7, <2>9
  <1> HIDE DEF S
  <1>8. h \in S
    BY <1>2, <1>6, <1>7, Induction
  <1>9. Good(h)
    BY <1>2, <1>8 DEF S
  <1> QED BY <1>5, <1>9 DEF HalfDraws

\* And so does a word, whose high half goes on with the carry of its low one.
LEMMA WordOfEdges ==
  ASSUME NEW b \in AreaRegs, b.fill, NEW data \in SUBSET Bits, NEW par, Parities(par, data)
  PROVE  Filled(b, data, par[0]) = [bits |-> {i \in Bits : Lights(b.inclusive, data, par, i)}, carry |-> par[W]]
  <1>1. PICK h : h = W \div 2
    OBVIOUS
  <1>0. Starts(0, 0, h) /\ Starts(h, 1, h)
    BY <1>1, BlitterAssumed DEF Starts, BlitterAssumption
  <1>2. h \in Nat /\ W = 2 * h /\ b.inclusive \in BOOLEAN /\ 0 + h = h /\ h + h = W
    BY <1>1, BlitterAssumed DEF BlitterAssumption, AreaRegs
  <1> DEFINE low  == FillHalf(data, 0, par[0], b.inclusive)
             high == FillHalf(data, 1, par[h], b.inclusive)
             Lit0 == {i \in 0..h - 1 : Lights(b.inclusive, data, par, i)}
             Lit1 == {i \in h..W - 1 : Lights(b.inclusive, data, par, i)}
  <1>5. low = [bits |-> Lit0, carry |-> par[h]]
    <2>1. HalfDraws(data, 0, b.inclusive, par, 0, h)
      BY <1>0, <1>2, HalfOfEdges
    <2>2. {i \in 0..0 + h - 1 : Lights(b.inclusive, data, par, i)} = Lit0 /\ 0 + h = h
      BY <1>2
    <2> HIDE DEF Lit0
    <2> QED BY <2>1, <2>2 DEF HalfDraws
  <1>6. high = [bits |-> Lit1, carry |-> par[W]]
    <2>1. HalfDraws(data, 1, b.inclusive, par, h, h)
      BY <1>0, <1>2, HalfOfEdges
    <2>2. h..h + h - 1 = h..W - 1
      BY <1>2
    <2>3. {i \in h..h + h - 1 : Lights(b.inclusive, data, par, i)} = Lit1 /\ h + h = W
      BY <1>2, <2>2
    <2> HIDE DEF Lit1
    <2> QED BY <2>1, <2>3 DEF HalfDraws
  <1>7. Lit0 \cup Lit1 = {i \in Bits : Lights(b.inclusive, data, par, i)}
    <2>1. Bits = (0..h - 1) \cup (h..W - 1)
      BY <1>2 DEF Bits
    <2> QED BY <2>1
  <1> HIDE DEF low, high, Lit0, Lit1
  <1>8. Filled(b, data, par[0]) = [bits |-> low.bits \cup high.bits, carry |-> high.carry]
    <2>1. low.carry = par[h]
      BY <1>5
    <2> QED BY <2>1 DEF Filled, low, high
  <1> QED BY <1>5, <1>6, <1>7, <1>8
-----------------------------------------------------------------------------
(* What a copy draws. *)

\* The word k of a row of w, in row y at x.
LEMMA PlaceIn ==
  ASSUME NEW w \in Nat, w > 0, NEW y \in Nat, NEW x \in Nat, x < w
  PROVE  (y * w + x) \div w = y /\ (y * w + x) % w = x /\ y * w + x \in Nat
  <1>1. PICK n \in Nat : n = y * w + x
    OBVIOUS
  <1>2. PICK q, r \in Nat : q = n \div w /\ r = n % w /\ n = w * q + r /\ r < w
    <2>1. n = w * (n \div w) + (n % w) /\ (n % w) \in 0..w - 1 /\ (n \div w) \in Nat
      OBVIOUS
    <2> QED BY <2>1
  <1>3. CASE q > y
    <2>1. PICK e \in Nat : q = y + 1 + e
      <3>1. q - y - 1 \in Nat /\ q = y + 1 + (q - y - 1)
        BY <1>3
      <3> QED BY <3>1
    <2>2. w * q = w * y + w + w * e /\ w * e >= 0 /\ w * y = y * w /\ w * e \in Int /\ y * w \in Int /\ w * q \in Int
      BY <2>1
    <2> QED BY <1>1, <1>2, <2>2
  <1>4. CASE q < y
    <2>1. PICK e \in Nat : y = q + 1 + e
      <3>1. y - q - 1 \in Nat /\ y = q + 1 + (y - q - 1)
        BY <1>4
      <3> QED BY <3>1
    <2>2. y * w = w * q + w + w * e /\ w * e >= 0 /\ w * e \in Int /\ y * w \in Int /\ w * q \in Int
      BY <2>1
    <2> QED BY <1>1, <1>2, <2>2
  <1>5. CASE q = y
    <2>1. w * q = y * w /\ y * w \in Int
      BY <1>5
    <2> QED BY <1>1, <1>2, <1>5, <2>1
  <1> QED BY <1>3, <1>4, <1>5

\* And every number below n * w is in a row.
LEMMA Placed ==
  ASSUME NEW w \in Nat, w > 0, NEW n \in Nat, NEW i \in Nat, i < n * w
  PROVE  /\ i \div w \in Nat /\ i \div w < n /\ i % w \in 0..w - 1
         /\ i = (i \div w) * w + (i % w)
  <1>1. PICK q, r \in Nat : q = i \div w /\ r = i % w /\ i = w * q + r /\ r < w
    <2>1. i = w * (i \div w) + (i % w) /\ (i % w) \in 0..w - 1 /\ (i \div w) \in Nat
      OBVIOUS
    <2> QED BY <2>1
  <1>2. w * q = q * w
    OBVIOUS
  <1>3. q < n
    <2> SUFFICES ASSUME ~(q < n) PROVE FALSE
      OBVIOUS
    <2>1. PICK e \in Nat : q = n + e
      <3>1. q - n \in Nat /\ q = n + (q - n)
        OBVIOUS
      <3> QED BY <3>1
    <2>2. q * w = n * w + e * w /\ e * w >= 0 /\ n * w \in Int /\ e * w \in Int
      BY <2>1
    <2> QED BY <1>1, <1>2, <2>2
  <1> QED BY <1>1, <1>2, <1>3

\* The words read, what they are moved to, and their edges, counted in a row.
WordA(b, m, p, k) == WordAt(m, AddressOf(b, p, "A", k))
Before(b, m, p, k) == IF k = 0 THEN {} ELSE WordA(b, m, p, k - 1)
Moved(b, m, p, k) == Shifted(b.desc, WordA(b, m, p, k), Before(b, m, p, k), b.ash)
Edges(b, m, p)    == [i \in Nat |-> Bit(WordA(b, m, p, i \div W), i % W)]
ParityAt(b, m, p, y, n) == (Ones(Edges(b, m, p), y * b.w * W, n - 1) + (IF b.carryIn THEN 1 ELSE 0)) % 2 = 1
CarryAt(b, m, p, k) == ParityAt(b, m, p, k \div b.w, k * W)
\* The words drawn.
WordD(b, m, p, k) == Filled(b, Moved(b, m, p, k), CarryAt(b, m, p, k)).bits
DrawnAt(b, p, k)  == AddressOf(b, p, "D", k) \div 2

\* So many words are copied, and no others touched.
Copied(s, b, m, p, k) ==
  /\ s \in Spans /\ s.a = Before(b, m, p, k) /\ s.b = {}
  /\ \A j \in 0..k - 1 : s.mem[DrawnAt(b, p, j)] = WordD(b, m, p, j)
  /\ \A z \in 0..Words - 1 : (\A j \in 0..k - 1 : DrawnAt(b, p, j) # z) => s.mem[z] = m[z]

\* The first n words lie where a copy may.
Fits(b, p, n) ==
  /\ \A i \in 0..n - 1 : DrawnAt(b, p, i) \in (0..Words - 1) \ Copper
  /\ \A i, j \in 0..n - 1 : /\ i # j => DrawnAt(b, p, i) # DrawnAt(b, p, j)
                            /\ AddressOf(b, p, "A", i) \div 2 # DrawnAt(b, p, j)

\* Pointers that take the k-th word of the copy at x.
Take(b, q, x, p, k) ==
  LET off == IF b.desc THEN -2 * x ELSE 2 * x
  IN q["A"] + off = AddressOf(b, p, "A", k) /\ q["D"] + off = AddressOf(b, p, "D", k)

\* The address of a word is a number.
LEMMA AddressIs ==
  ASSUME NEW b \in AreaRegs, NEW p \in [Channel -> WholeWords], NEW c \in Channel, NEW k \in Nat
  PROVE  AddressOf(b, p, c, k) \in Int
  <1>1. b.w \in Nat /\ b.w > 0 /\ b.mod[c] \in Int /\ p[c] \in Int
    BY WholeWordsAre DEF AreaRegs
  <1>2. PICK y \in Nat, x \in Nat : y = k \div b.w /\ x = k % b.w
    <2>1. (k \div b.w) \in Nat /\ (k % b.w) \in Nat
      BY <1>1
    <2> QED BY <2>1
  <1>3. y * (b.mod[c] + 2 * b.w) + 2 * x \in Int
    BY <1>1
  <1>4. PICK go \in Int : go = y * (b.mod[c] + 2 * b.w) + 2 * x
    BY <1>3
  <1> QED BY <1>1, <1>2, <1>4 DEF AddressOf

\* A word of B is not read, nor one of C; the words read of A are what they were.
LEMMA CopyReads ==
  ASSUME NEW b \in AreaRegs, Copies(b), NEW m \in Mems, NEW p \in [Channel -> WholeWords], NEW n \in Nat, Fits(b, p, n),
         NEW k \in 0..n - 1, NEW s, Copied(s, b, m, p, k)
  PROVE  WordAt(s.mem, AddressOf(b, p, "A", k)) = WordA(b, m, p, k) /\ WordA(b, m, p, k) \in SUBSET Bits
  <1>1. PICK a \in Int : a = AddressOf(b, p, "A", k)
    BY AddressIs DEF Channel
  <1>2. \A j \in 0..k - 1 : DrawnAt(b, p, j) # a \div 2
    BY <1>1 DEF Fits
  <1>3. s.mem \in Mems
    BY DEF Copied, Spans
  <1>4. a \div 2 \in 0..Words - 1 => s.mem[a \div 2] = m[a \div 2]
    BY <1>2 DEF Copied
  <1>5. WordAt(m, a) \in SUBSET Bits
    BY <1>1, MemoryIs
  <1> QED BY <1>1, <1>3, <1>4, <1>5 DEF WordAt, WordA, Mems

\* A copy's minterm is the word of A.
LEMMA OnlyA ==
  ASSUME NEW x \in SUBSET Bits
  PROVE  Minterm(x, {}, {}, {4, 5, 6, 7}) = x
  BY DEF Minterm, Bit

\* An empty word shifts to nothing.
LEMMA NothingShifted == \A down, by : Shifted(down, {}, {}, by) = {}
  BY DEF Shifted

\* A word moved is a word.
LEMMA MovedIs == \A b, m, p, k : Moved(b, m, p, k) \in SUBSET Bits
  BY DEF Moved, Shifted

\* The next word is copied.
LEMMA CopyStep ==
  ASSUME NEW b \in AreaRegs, Copies(b), NEW m \in Mems, NEW p \in [Channel -> WholeWords], NEW n \in Nat, Fits(b, p, n),
         NEW k \in 0..n - 1, NEW s, Copied(s, b, m, p, k), b.fill => s.carry = CarryAt(b, m, p, k),
         NEW q \in [Channel -> Int], NEW x \in Nat, Take(b, q, x, p, k)
  PROVE  /\ Copied(WordStep(b, q, s, x), b, m, p, k + 1)
         /\ WordStep(b, q, s, x).carry = Filled(b, Moved(b, m, p, k), s.carry).carry
  <1> DEFINE off == IF b.desc THEN -2 * x ELSE 2 * x
             a   == Used(b, s.mem, "A", q["A"] + off)
                      \cap (IF x = 0 THEN b.first ELSE Bits)
                      \cap (IF x = b.w - 1 THEN b.last ELSE Bits)
             bw  == Used(b, s.mem, "B", q["B"] + off)
             cw  == Used(b, s.mem, "C", q["C"] + off)
             got == Minterm(Shifted(b.desc, a, s.a, b.ash), Shifted(b.desc, bw, s.b, b.bsh), cw, b.lf)
             d   == Filled(b, got, s.carry)
             to  == q["D"] + off
             l   == IF "D" \in b.use /\ to \div 2 \notin Copper THEN Stored(s.mem, to, d.bits) ELSE s.mem
             t   == WordStep(b, q, s, x)
  <1>1. /\ b.use = {"A", "D"} /\ b.lf = {4, 5, 6, 7} /\ b.first = Bits /\ b.last = Bits /\ b.desc \in BOOLEAN
        /\ s \in Spans /\ s.mem \in Mems /\ s.a = Before(b, m, p, k) /\ s.b = {} /\ s.carry \in BOOLEAN
    BY DEF Copies, Copied, AreaRegs, Spans
  <1>2. t = [mem |-> l, a |-> a, b |-> bw, carry |-> d.carry]
    BY DEF WordStep
  <1>3. q["A"] + off = AddressOf(b, p, "A", k) /\ to = AddressOf(b, p, "D", k)
    BY DEF Take
  <1>4. t \in Spans
    BY <1>1, WordIs
  <1> HIDE DEF off
  <1>5. a = WordA(b, m, p, k)
    <2>1. Used(b, s.mem, "A", q["A"] + off) = WordA(b, m, p, k) /\ WordA(b, m, p, k) \in SUBSET Bits
      BY <1>1, <1>3, CopyReads DEF Used
    <2> QED BY <1>1, <2>1
  <1>6. bw = {} /\ cw = {}
    BY <1>1 DEF Used
  <1> HIDE DEF a, bw, cw, to
  <1>7. got = Moved(b, m, p, k)
    <2>1. Shifted(b.desc, a, s.a, b.ash) = Moved(b, m, p, k)
      BY <1>1, <1>5 DEF Moved
    <2>2. Shifted(b.desc, bw, s.b, b.bsh) = {}
      BY <1>1, <1>6, NothingShifted
    <2> QED BY <1>1, <1>6, <2>1, <2>2, MovedIs, OnlyA
  <1> HIDE DEF got
  <1>8. d.bits = WordD(b, m, p, k) /\ d.carry = Filled(b, Moved(b, m, p, k), s.carry).carry
    BY <1>7 DEF WordD, Filled
  <1>9. d.bits \in SUBSET Bits
    BY <1>1, <1>7, MovedIs, FilledIs DEF HalfBits
  <1> HIDE DEF d
  <1>10. to \div 2 = DrawnAt(b, p, k) /\ DrawnAt(b, p, k) \in 0..Words - 1 /\ DrawnAt(b, p, k) \notin Copper
    BY <1>3 DEF DrawnAt, Fits
  <1>11. l = [s.mem EXCEPT ![DrawnAt(b, p, k)] = WordD(b, m, p, k)]
    BY <1>1, <1>8, <1>10 DEF Stored, Mems
  <1> HIDE DEF l, t
  <1>12. t.mem = l /\ t.a = WordA(b, m, p, k) /\ t.b = {} /\ t.carry = d.carry
    BY <1>2, <1>5, <1>6
  <1>13. t.a = Before(b, m, p, k + 1)
    BY <1>12 DEF Before
  <1>14. ASSUME NEW j \in 0..(k + 1) - 1 PROVE t.mem[DrawnAt(b, p, j)] = WordD(b, m, p, j)
    <2>1. CASE j = k
      BY <1>1, <1>10, <1>11, <1>12, <2>1 DEF Mems
    <2>2. CASE j # k
      <3>1. j \in 0..k - 1 /\ j \in 0..n - 1
        BY <2>2
      <3>2. DrawnAt(b, p, j) # DrawnAt(b, p, k) /\ DrawnAt(b, p, j) \in 0..Words - 1 /\ s.mem[DrawnAt(b, p, j)] = WordD(b, m, p, j)
        BY <2>2, <3>1 DEF Fits, Copied
      <3> QED BY <1>1, <1>11, <1>12, <3>2 DEF Mems
    <2> QED BY <2>1, <2>2
  <1>15. ASSUME NEW z \in 0..Words - 1, \A j \in 0..(k + 1) - 1 : DrawnAt(b, p, j) # z PROVE t.mem[z] = m[z]
    <2>1. z # DrawnAt(b, p, k) /\ \A j \in 0..k - 1 : DrawnAt(b, p, j) # z
      BY <1>15
    <2>2. s.mem[z] = m[z]
      BY <2>1 DEF Copied
    <2> QED BY <1>1, <1>11, <1>12, <2>1, <2>2 DEF Mems
  <1>16. Copied(t, b, m, p, k + 1)
    BY <1>4, <1>12, <1>13, <1>14, <1>15 DEF Copied
  <1> QED BY <1>8, <1>12, <1>16 DEF t

\* One more bit, and the ones up to it.
LEMMA OnesGrow ==
  ASSUME NEW s, NEW from \in Nat, NEW n \in Nat, from <= n, s[n] \in {0, 1}
  PROVE  /\ Ones(s, from, n - 1) \in Nat /\ Ones(s, from, n) = Ones(s, from, n - 1) + s[n]
  <1> DEFINE T == {i \in from..n - 1 : s[i] = 1}
             Z == {i \in from..n : s[i] = 1}
  <1>1. IsFiniteSet(T)
    <2>1. n - 1 \in Int /\ IsFiniteSet(from..n - 1)
      BY FS_Interval
    <2>2. T \in SUBSET (from..n - 1)
      OBVIOUS
    <2> HIDE DEF T
    <2> QED BY <2>1, <2>2, FS_Subset
  <1>2. Z = (IF s[n] = 1 THEN T \cup {n} ELSE T) /\ n \notin T
    OBVIOUS
  <1>3. Ones(s, from, n - 1) = Cardinality(T) /\ Ones(s, from, n) = Cardinality(Z)
    BY DEF Ones
  <1> HIDE DEF T, Z
  <1>4. Cardinality(T) \in Nat /\ Cardinality(T \cup {n}) = Cardinality(T) + 1
    BY <1>1, <1>2, FS_CardinalityType, FS_AddElement
  <1> QED BY <1>2, <1>3, <1>4

\* No bit, no ones.
LEMMA NoOnes == ASSUME NEW s, NEW from \in Nat PROVE Ones(s, from, from - 1) = 0
  <1>1. {i \in from..from - 1 : s[i] = 1} = {}
    OBVIOUS
  <1> QED BY <1>1, FS_EmptySet DEF Ones

\* The bits of the stream are those of its words.
LEMMA EdgeIs ==
  ASSUME NEW b, NEW m, NEW p, NEW k \in Nat, NEW i \in Bits
  PROVE  /\ k * W + i \in Nat /\ Edges(b, m, p)[k * W + i] = Bit(WordA(b, m, p, k), i)
         /\ Edges(b, m, p)[k * W + i] \in {0, 1}
  <1>1. W \in Nat /\ W > 0 /\ i \in Nat /\ i < W
    BY BlitterAssumed DEF BlitterAssumption, Bits
  <1>2. PICK n \in Nat : n = k * W + i /\ n \div W = k /\ n % W = i
    BY <1>1, PlaceIn
  <1> QED BY <1>2 DEF Edges, Bit

\* The parities of a row, bit by bit of a word in it.
LEMMA ParitiesAre ==
  ASSUME NEW b \in AreaRegs, NEW m, NEW p, NEW y \in Nat, NEW x \in Nat, x < b.w
  PROVE  LET k == y * b.w + x
         IN Parities([i \in 0..W |-> ParityAt(b, m, p, y, k * W + i)], WordA(b, m, p, k))
  <1>1. PICK k \in Nat : k = y * b.w + x /\ k >= y * b.w /\ y * b.w \in Nat
    <2>1. b.w \in Nat
      BY DEF AreaRegs
    <2> QED BY <2>1
  <1>2. W \in Nat /\ W > 0
    BY BlitterAssumed DEF BlitterAssumption
  <1>3. PICK from \in Nat, at0 \in Nat : from = y * b.w * W /\ at0 = k * W /\ from <= at0
    <2>1. PICK c, e \in Nat : c = y * b.w /\ k = c + e
      <3>1. k - y * b.w \in Nat /\ k = y * b.w + (k - y * b.w)
        BY <1>1
      <3> QED BY <1>1, <3>1
    <2>2. k * W = c * W + e * W /\ e * W \in Nat /\ c * W \in Nat
      BY <1>2, <2>1
    <2> QED BY <2>1, <2>2
  <1> DEFINE par == [i \in 0..W |-> ParityAt(b, m, p, y, k * W + i)]
             ones(i) == Ones(Edges(b, m, p), from, at0 + i - 1)
             ci == IF b.carryIn THEN 1 ELSE 0
  <1>4. \A i \in 0..W : par[i] = ((ones(i) + ci) % 2 = 1)
    BY <1>3 DEF ParityAt
  <1>5. ASSUME NEW i \in Bits PROVE par[i + 1] = (par[i] # (i \in WordA(b, m, p, k)))
    <2>1. i \in 0..W /\ i + 1 \in 0..W /\ i \in Nat
      BY <1>2 DEF Bits
    <2> DEFINE e == Edges(b, m, p)[at0 + i]
    <2>2. e = Bit(WordA(b, m, p, k), i) /\ e \in {0, 1}
      <3>1. Edges(b, m, p)[k * W + i] = Bit(WordA(b, m, p, k), i) /\ Edges(b, m, p)[k * W + i] \in {0, 1}
        BY EdgeIs
      <3>2. k * W + i = at0 + i
        BY <1>3
      <3> QED BY <3>1, <3>2
    <2>3. PICK z \in Nat : z = at0 + i /\ from <= z /\ at0 + (i + 1) - 1 = z
      BY <1>3, <2>1
    <2>4. ones(i) \in Nat /\ ones(i + 1) = ones(i) + e
      <3>1. Edges(b, m, p)[z] \in {0, 1} /\ e = Edges(b, m, p)[z]
        BY <2>2, <2>3
      <3>2. Ones(Edges(b, m, p), from, z - 1) \in Nat /\ Ones(Edges(b, m, p), from, z) = Ones(Edges(b, m, p), from, z - 1) + e
        BY <2>3, <3>1, OnesGrow
      <3>3. z - 1 = at0 + i - 1 /\ at0 + (i + 1) - 1 = z
        BY <2>1, <2>3
      <3> HIDE DEF e
      <3> QED BY <3>2, <3>3
    <2> HIDE DEF ones, e
    <2>5. ci \in Nat
      OBVIOUS
    <2>6. PICK u \in Nat : u = ones(i) + ci /\ ones(i + 1) + ci = u + e
      BY <2>2, <2>4, <2>5
    <2>7. par[i] = (u % 2 = 1) /\ par[i + 1] = ((u + e) % 2 = 1)
      BY <1>4, <2>1, <2>6
    <2>8. CASE i \in WordA(b, m, p, k)
      <3>1. e = 1
        BY <2>2, <2>8 DEF Bit
      <3>2. ((u + 1) % 2 = 1) = ~(u % 2 = 1)
        OBVIOUS
      <3> HIDE DEF par
      <3> QED BY <2>7, <2>8, <3>1, <3>2
    <2>9. CASE i \notin WordA(b, m, p, k)
      <3>1. e = 0
        BY <2>2, <2>9 DEF Bit
      <3>2. u + 0 = u
        OBVIOUS
      <3> HIDE DEF par
      <3> QED BY <2>7, <2>9, <3>1, <3>2
    <2> QED BY <2>8, <2>9
  <1>6. par \in [0..W -> BOOLEAN]
    BY DEF ParityAt
  <1> HIDE DEF par
  <1>7. Parities(par, WordA(b, m, p, k))
    BY <1>5, <1>6 DEF Parities
  <1> QED BY <1>1, <1>7 DEF par

\* A fill shifts nothing.
LEMMA MovedOfFill ==
  ASSUME NEW b, b.desc, b.ash = 0, NEW m \in Mems, NEW p \in [Channel -> WholeWords], NEW k \in Nat, b \in AreaRegs
  PROVE  Moved(b, m, p, k) = WordA(b, m, p, k)
  <1>1. WordA(b, m, p, k) \in SUBSET Bits
    <2>1. AddressOf(b, p, "A", k) \in Int
      BY AddressIs DEF Channel
    <2> QED BY <2>1, MemoryIs DEF WordA
  <1>2. \A i \in Bits : i \in Int /\ ~(i < 0) /\ i - 0 = i
    BY BlitterAssumed DEF Bits, BlitterAssumption
  <1> QED BY <1>1, <1>2 DEF Moved, Shifted

\* The carry into the words of a row: what the registers say at its start, then the parity of the edges so far.
LEMMA CarriesIn ==
  ASSUME NEW b \in AreaRegs, NEW m, NEW p, NEW y \in Nat
  PROVE  CarryAt(b, m, p, y * b.w) = b.carryIn
  <1>1. b.w \in Nat /\ b.w > 0 /\ b.carryIn \in BOOLEAN /\ W \in Nat
    BY BlitterAssumed DEF BlitterAssumption, AreaRegs
  <1>2. PICK k \in Nat : k = y * b.w /\ k \div b.w = y
    <2>1. (y * b.w + 0) \div b.w = y /\ y * b.w + 0 = y * b.w /\ y * b.w \in Nat
      BY <1>1, PlaceIn
    <2> QED BY <2>1
  <1>3. PICK n \in Nat : n = k * W /\ y * b.w * W = n
    BY <1>1, <1>2
  <1>4. Ones(Edges(b, m, p), n, n - 1) = 0
    BY NoOnes
  <1>5. CarryAt(b, m, p, k) = ((0 + (IF b.carryIn THEN 1 ELSE 0)) % 2 = 1)
    BY <1>2, <1>3, <1>4 DEF CarryAt, ParityAt
  <1>6. ((0 + (IF b.carryIn THEN 1 ELSE 0)) % 2 = 1) = b.carryIn
    BY <1>1
  <1> QED BY <1>2, <1>5, <1>6

\* What word k, at x of row y, fills and carries on.
CarriesTo(b, m, p, y, x, k) ==
  /\ Filled(b, Moved(b, m, p, k), CarryAt(b, m, p, k)).bits
       = {i \in Bits : Lights(b.inclusive, WordA(b, m, p, k), [j \in 0..W |-> ParityAt(b, m, p, y, k * W + j)], i)}
  /\ x + 1 < b.w => Filled(b, Moved(b, m, p, k), CarryAt(b, m, p, k)).carry = CarryAt(b, m, p, k + 1)

\* A word of a fill lights by the parities of its row and carries the last of them to the next word.
LEMMA CarriesOn ==
  ASSUME NEW b \in AreaRegs, b.fill, b.desc, b.ash = 0, NEW m \in Mems, NEW p \in [Channel -> WholeWords],
         NEW y \in Nat, NEW x \in Nat, x < b.w
  PROVE  CarriesTo(b, m, p, y, x, y * b.w + x)
  <1>1. b.w \in Nat /\ b.w > 0 /\ W \in Nat
    BY BlitterAssumed DEF BlitterAssumption, AreaRegs
  <1>2. PICK k \in Nat : k = y * b.w + x /\ k \div b.w = y
    BY <1>1, PlaceIn
  <1> DEFINE par == [j \in 0..W |-> ParityAt(b, m, p, y, k * W + j)]
  <1>3. Parities(par, WordA(b, m, p, k))
    BY <1>2, ParitiesAre
  <1>4. WordA(b, m, p, k) \in SUBSET Bits
    <2>1. AddressOf(b, p, "A", k) \in Int
      BY AddressIs DEF Channel
    <2> QED BY <2>1, MemoryIs DEF WordA
  <1>5. par[0] = CarryAt(b, m, p, k)
    <2>1. k * W + 0 = k * W /\ 0 \in 0..W
      BY <1>1
    <2> QED BY <1>2, <2>1 DEF CarryAt
  <1>6. x + 1 < b.w => par[W] = CarryAt(b, m, p, k + 1)
    <2> SUFFICES ASSUME x + 1 < b.w PROVE par[W] = CarryAt(b, m, p, k + 1)
      OBVIOUS
    <2>1. (y * b.w + (x + 1)) \div b.w = y
      <3>1. PICK u \in Nat : u = x + 1
        OBVIOUS
      <3>2. (y * b.w + u) \div b.w = y
        BY <1>1, <3>1, PlaceIn
      <3> QED BY <3>1, <3>2
    <2>2. y * b.w + (x + 1) = k + 1
      <3>1. y * b.w \in Nat
        BY <1>1
      <3> QED BY <1>2, <3>1
    <2>3. k * W + W = (k + 1) * W /\ W \in 0..W
      BY <1>1
    <2> QED BY <2>1, <2>2, <2>3 DEF CarryAt
  <1>7. Moved(b, m, p, k) = WordA(b, m, p, k)
    BY MovedOfFill
  <1> HIDE DEF par
  <1>8. Filled(b, WordA(b, m, p, k), par[0]) = [bits |-> {i \in Bits : Lights(b.inclusive, WordA(b, m, p, k), par, i)}, carry |-> par[W]]
    BY <1>3, <1>4, WordOfEdges
  <1>9. /\ Filled(b, Moved(b, m, p, k), CarryAt(b, m, p, k)).bits = {i \in Bits : Lights(b.inclusive, WordA(b, m, p, k), par, i)}
        /\ x + 1 < b.w => Filled(b, Moved(b, m, p, k), CarryAt(b, m, p, k)).carry = CarryAt(b, m, p, k + 1)
    BY <1>5, <1>6, <1>7, <1>8
  <1> QED BY <1>2, <1>9 DEF par, CarriesTo

\* What a copy assumes: of its program, where it starts, and where its words lie.
Copying(b, m, p, n) == /\ b \in AreaRegs /\ Copies(b) /\ m \in Mems /\ p \in [Channel -> WholeWords]
                       /\ n \in Nat /\ Fits(b, p, n)
                       /\ b.fill => b.desc /\ b.ash = 0

\* The pointers at the start of row y.
RowFrom(b, p, c, y) == LET go == y * (b.mod[c] + 2 * b.w) IN IF b.desc THEN p[c] - go ELSE p[c] + go

\* The words of row y are at the row's pointers, two bytes each.
LEMMA TakesNext ==
  ASSUME NEW b \in AreaRegs, NEW p \in [Channel -> WholeWords], NEW q \in [Channel -> Int], NEW y \in Nat, NEW x \in Nat, x < b.w,
         q["A"] = RowFrom(b, p, "A", y), q["D"] = RowFrom(b, p, "D", y)
  PROVE  Take(b, q, x, p, y * b.w + x)
  <1>1. b.w \in Nat /\ b.w > 0
    BY DEF AreaRegs
  <1>2. PICK k \in Nat : k = y * b.w + x /\ k \div b.w = y /\ k % b.w = x
    <2>1. (y * b.w + x) \div b.w = y /\ (y * b.w + x) % b.w = x /\ y * b.w + x \in Nat
      BY <1>1, PlaceIn
    <2> QED BY <2>1
  <1> DEFINE off == IF b.desc THEN -2 * x ELSE 2 * x
  <1>3. ASSUME NEW c \in {"A", "D"} PROVE q[c] + off = AddressOf(b, p, c, k)
    <2>1. p[c] \in Int /\ b.mod[c] \in Int
      BY WholeWordsAre DEF AreaRegs, Channel
    <2>2. PICK go \in Int : go = y * (b.mod[c] + 2 * b.w)
      BY <1>1, <2>1
    <2>3. q[c] = IF b.desc THEN p[c] - go ELSE p[c] + go
      BY <2>2 DEF RowFrom
    <2>4. AddressOf(b, p, c, k) = IF b.desc THEN p[c] - (go + 2 * x) ELSE p[c] + (go + 2 * x)
      BY <1>2, <2>2 DEF AddressOf
    <2> QED BY <2>1, <2>2, <2>3, <2>4
  <1> QED BY <1>2, <1>3 DEF Take

\* A row is copied, word after word.
LEMMA CopyRow ==
  ASSUME NEW b, NEW m, NEW p, NEW n, Copying(b, m, p, n), NEW y \in Nat, (y + 1) * b.w <= n,
         NEW s, Copied(s, b, m, p, y * b.w), NEW q \in [Channel -> Int],
         q["A"] = RowFrom(b, p, "A", y), q["D"] = RowFrom(b, p, "D", y)
  PROVE  Copied(Row(b, q, s), b, m, p, (y + 1) * b.w)
  <1>1. /\ b \in AreaRegs /\ b.w \in Nat /\ b.w > 0 /\ s \in Spans /\ b.carryIn \in BOOLEAN /\ n \in Nat
        /\ Copies(b) /\ m \in Mems /\ p \in [Channel -> WholeWords] /\ Fits(b, p, n)
    BY DEF Copying, AreaRegs, Copied
  <1>2. PICK f : Rowed(f, b, q, s) /\ Row(b, q, s) = f[b.w]
    BY <1>1, RowIs
  <1>3. PICK from \in Nat : from = y * b.w /\ from + b.w = (y + 1) * b.w
    BY <1>1
  <1> DEFINE Good(x) == /\ Copied(f[x], b, m, p, from + x)
                        /\ b.fill /\ x < b.w => f[x].carry = CarryAt(b, m, p, from + x)
             S == {x \in Nat : x <= b.w => Good(x)}
  <1>4. 0 \in S
    <2>1. f[0] = [s EXCEPT !.carry = b.carryIn]
      BY <1>2 DEF Rowed
    <2>2. f[0] \in Spans /\ f[0].a = s.a /\ f[0].b = s.b /\ f[0].mem = s.mem /\ f[0].carry = b.carryIn
      BY <1>1, <2>1 DEF Spans
    <2>3. from + 0 = from /\ Copied(f[0], b, m, p, from)
      BY <1>3, <2>2 DEF Copied
    <2>4. CarryAt(b, m, p, from) = b.carryIn
      BY <1>1, <1>3, CarriesIn
    <2> QED BY <2>2, <2>3, <2>4
  <1>5. ASSUME NEW x \in Nat, x \in S PROVE x + 1 \in S
    <2> SUFFICES ASSUME x + 1 <= b.w PROVE Good(x + 1)
      OBVIOUS
    <2>1. x + 1 \in 1..b.w /\ (x + 1) - 1 = x /\ x < b.w /\ x <= b.w
      BY <1>1
    <2>2. Good(x)
      BY <1>5, <2>1
    <2>3. f[x + 1] = WordStep(b, q, f[x], x)
      BY <1>2, <2>1 DEF Rowed
    <2>4. PICK k \in 0..n - 1 : k = from + x /\ from + (x + 1) = k + 1
      <3>1. from + b.w <= n
        BY <1>3
      <3> QED BY <1>1, <2>1, <3>1
    <2>5. Take(b, q, x, p, k)
      BY <1>1, <1>3, <2>1, <2>4, TakesNext
    <2>6. Copied(f[x], b, m, p, k) /\ (b.fill => f[x].carry = CarryAt(b, m, p, k))
      BY <2>1, <2>2, <2>4
    <2>7. /\ Copied(WordStep(b, q, f[x], x), b, m, p, k + 1)
          /\ WordStep(b, q, f[x], x).carry = Filled(b, Moved(b, m, p, k), f[x].carry).carry
      BY <1>1, <2>5, <2>6, CopyStep
    <2>8. ASSUME b.fill, x + 1 < b.w PROVE f[x + 1].carry = CarryAt(b, m, p, k + 1)
      <3>1. b.desc /\ b.ash = 0 /\ k = y * b.w + x
        BY <1>3, <2>4, <2>8 DEF Copying
      <3>2. CarriesTo(b, m, p, y, x, y * b.w + x)
        BY <1>1, <2>1, <2>8, <3>1, CarriesOn
      <3>3. CarriesTo(b, m, p, y, x, k)
        BY <3>1, <3>2
      <3>4. Filled(b, Moved(b, m, p, k), CarryAt(b, m, p, k)).carry = CarryAt(b, m, p, k + 1)
        BY <2>8, <3>3 DEF CarriesTo
      <3> QED BY <2>3, <2>6, <2>7, <2>8, <3>4
    <2> QED BY <2>3, <2>4, <2>7, <2>8
  <1> HIDE DEF S
  <1>6. b.w \in S
    BY <1>1, <1>4, <1>5, Induction
  <1>7. Copied(f[b.w], b, m, p, from + b.w)
    BY <1>1, <1>6 DEF S
  <1> QED BY <1>2, <1>3, <1>7

\* An area is copied, row after row.
LEMMA CopyArea ==
  ASSUME NEW b, NEW m, NEW q \in [Channel -> Int], NEW n, NEW h \in Nat, Copying(b, m, Even(q), n), h * b.w <= n
  PROVE  Area(b, m, q, h).mem \in Mems /\ \A k \in 0..h * b.w - 1 : WordAt(Area(b, m, q, h).mem, AddressOf(b, Even(q), "D", k)) = WordD(b, m, Even(q), k)
  <1> DEFINE p == Even(q)
  <1>1. /\ b \in AreaRegs /\ b.w \in Nat /\ b.w > 0 /\ b.use = {"A", "D"} /\ n \in Nat
        /\ m \in Mems /\ p \in [Channel -> WholeWords] /\ Fits(b, p, n)
    BY DEF Copying, AreaRegs, Copies
  <1>2. PICK f : Drawn(f, b, m, q, h) /\ Area(b, m, q, h) = [mem |-> f[h].s.mem, pt |-> PointersLeft(b, q, f[h].p)]
    BY <1>1, AreaIs
  <1> DEFINE At(y) == f[y].p["A"] = RowFrom(b, p, "A", y) /\ f[y].p["D"] = RowFrom(b, p, "D", y)
             Good(y) == At(y) /\ Copied(f[y].s, b, m, p, y * b.w)
             S == {y \in Nat : y <= h => Good(y)}
  <1>3. 0 \in S
    <2>1. f[0].p = p /\ f[0].s = [mem |-> m, a |-> {}, b |-> {}, carry |-> FALSE]
      BY <1>2 DEF Drawn, Top
    <2>2. 0 * b.w = 0 /\ \A c \in {"A", "D"} : p[c] \in Int /\ 0 * (b.mod[c] + 2 * b.w) = 0
      <3>1. \A z \in Int : 0 * z = 0
        OBVIOUS
      <3>2. ASSUME NEW c \in {"A", "D"} PROVE p[c] \in Int /\ b.mod[c] + 2 * b.w \in Int
        <4> HIDE DEF p
        <4>1. p[c] \in WholeWords /\ c \in Channel
          BY <1>1 DEF Channel
        <4>2. b.mod \in [Channel -> {i \in Int : i % 2 = 0}] /\ b.w \in Int
          BY <1>1 DEF AreaRegs
        <4>3. b.mod[c] \in Int
          BY <4>1, <4>2
        <4>4. p[c] \in Int
          BY <4>1, WholeWordsAre
        <4> QED BY <4>2, <4>3, <4>4
      <3> HIDE DEF p
      <3> QED BY <1>1, <3>1, <3>2
    <2>3. At(0)
      BY <2>1, <2>2 DEF RowFrom
    <2>4. Copied(f[0].s, b, m, p, 0)
      <3>1. f[0].s \in Spans
        BY <1>1, <2>1 DEF Spans
      <3> QED BY <2>1, <3>1 DEF Copied, Before
    <2> QED BY <2>2, <2>3, <2>4
  <1>4. ASSUME NEW y \in Nat, y \in S PROVE y + 1 \in S
    <2> SUFFICES ASSUME y + 1 <= h PROVE Good(y + 1)
      OBVIOUS
    <2>1. y + 1 \in 1..h /\ (y + 1) - 1 = y /\ y <= h /\ y \in 0..h
      OBVIOUS
    <2>2. Good(y)
      BY <1>4, <2>1
    <2>3. f[y] \in Strides /\ f[y + 1] = Below(b, f[y])
      BY <1>2, <2>1 DEF Drawn
    <2>4. f[y].p \in [Channel -> Int] /\ f[y + 1].p = Advanced(b, f[y].p) /\ f[y + 1].s = Row(b, f[y].p, f[y].s)
      BY <2>3, WholeWordsAre DEF Strides, Below
    <2>5. (y + 1) * b.w <= n
      <3>1. PICK e \in Nat : h = y + 1 + e
        <4>1. h - y - 1 \in Nat /\ h = y + 1 + (h - y - 1)
          BY <2>1
        <4> QED BY <4>1
      <3>2. h * b.w = (y + 1) * b.w + e * b.w /\ e * b.w >= 0 /\ (y + 1) * b.w \in Int /\ e * b.w \in Int
        BY <1>1, <3>1
      <3> QED BY <1>1, <3>2
    <2>6. Copied(f[y + 1].s, b, m, p, (y + 1) * b.w)
      BY <2>2, <2>4, <2>5, CopyRow
    <2>7. ASSUME NEW c \in {"A", "D"} PROVE f[y + 1].p[c] = RowFrom(b, p, c, y + 1)
      <3>1. b.mod[c] \in Int /\ p[c] \in Int /\ c \in b.use /\ c \in Channel
        BY <1>1, WholeWordsAre DEF AreaRegs, Channel
      <3>2. f[y].p[c] = RowFrom(b, p, c, y)
        BY <2>2
      <3>3. PICK go, stride \in Int : go = y * (b.mod[c] + 2 * b.w) /\ stride = b.mod[c] + 2 * b.w /\ (y + 1) * (b.mod[c] + 2 * b.w) = go + stride
        BY <1>1, <3>1
      <3>4. f[y].p[c] = IF b.desc THEN p[c] - go ELSE p[c] + go
        BY <3>2, <3>3 DEF RowFrom
      <3>5. f[y + 1].p[c] = IF b.desc THEN f[y].p[c] - b.mod[c] - 2 * b.w ELSE f[y].p[c] + b.mod[c] + 2 * b.w
        BY <2>4, <3>1 DEF Advanced
      <3>6. RowFrom(b, p, c, y + 1) = IF b.desc THEN p[c] - (go + stride) ELSE p[c] + (go + stride)
        BY <3>3 DEF RowFrom
      <3>7. b.w \in Nat
        BY <1>1
      <3> QED BY <3>1, <3>3, <3>4, <3>5, <3>6, <3>7
    <2> QED BY <2>6, <2>7
  <1> HIDE DEF S
  <1>5. h \in S
    BY <1>3, <1>4, Induction
  <1>6. Copied(f[h].s, b, m, p, h * b.w)
    BY <1>5 DEF S
  <1>7. Area(b, m, q, h).mem = f[h].s.mem /\ f[h].s.mem \in Mems
    BY <1>2, <1>6 DEF Copied, Spans
  <1>8. ASSUME NEW k \in 0..h * b.w - 1 PROVE WordAt(f[h].s.mem, AddressOf(b, p, "D", k)) = WordD(b, m, p, k)
    <2>1. f[h].s.mem[DrawnAt(b, p, k)] = WordD(b, m, p, k)
      BY <1>6 DEF Copied
    <2>2. DrawnAt(b, p, k) \in 0..Words - 1
      <3>1. h * b.w \in Nat
        BY <1>1
      <3>2. k \in 0..n - 1
        BY <1>1, <3>1
      <3> QED BY <1>1, <3>2 DEF Fits
    <2> QED BY <1>7, <2>1, <2>2 DEF WordAt, DrawnAt, Mems
  <1> QED BY <1>7, <1>8

\* Which bit of a word the shifts and the fill take r-th.
Turn(b, r) == IF b.desc THEN r ELSE W - 1 - r
\* The i-th bit of the words read, and of those moved.
Taken(b, m, p, i) == Bit(WordA(b, m, p, i \div W), Turn(b, i % W))
Given(b, m, p, i) == Bit(Moved(b, m, p, i \div W), Turn(b, i % W))

\* A bit's word, and its place in it.
LEMMA BitPlace ==
  ASSUME NEW i \in Nat
  PROVE  /\ (i \div W) \in Nat /\ (i % W) \in Nat /\ i % W < W /\ i = (i \div W) * W + (i % W)
         /\ W \in Nat /\ W > 0
  <1>1. W \in Nat /\ W > 0
    BY BlitterAssumed DEF BlitterAssumption
  <1>2. PICK n \in Nat : n = i + 1 /\ i < n * W
    <2>1. (i + 1) * W = i * W + W /\ i * W >= i /\ i * W \in Int
      <3>1. PICK e \in Nat : W = e + 1
        <4>1. W - 1 \in Nat /\ W = (W - 1) + 1
          BY <1>1
        <4> QED BY <4>1
      <3>2. i * (e + 1) = i * e + i /\ i * e >= 0 /\ i * e \in Int
        OBVIOUS
      <3> QED BY <1>1, <3>1, <3>2
    <2> QED BY <1>1, <2>1
  <1>3. (i \div W) \in Nat /\ (i % W) \in 0..W - 1 /\ i = (i \div W) * W + (i % W)
    BY <1>1, <1>2, Placed
  <1> QED BY <1>1, <1>3

\* Shifting moves the whole stream of bits.
LEMMA ShiftMoves ==
  ASSUME NEW b \in AreaRegs, NEW m, NEW p, NEW i \in Nat
  PROVE  Given(b, m, p, i) = IF i < b.ash THEN 0 ELSE Taken(b, m, p, i - b.ash)
  <1>1. PICK k \in Nat, r \in Nat : k = i \div W /\ r = i % W /\ r < W /\ i = k * W + r /\ k * W \in Nat
    <2>1. (i \div W) * W \in Nat
      BY BitPlace
    <2> QED BY <2>1, BitPlace
  <1>2. W \in Nat /\ W > 0 /\ b.ash \in Nat /\ b.ash < W /\ b.desc \in BOOLEAN
    BY BitPlace DEF AreaRegs, Bits
  <1>3. PICK by \in Nat : by = b.ash /\ by < W
    BY <1>2
  <1>4. PICK v \in Nat : v = Turn(b, r) /\ v < W /\ v \in Bits /\ (IF b.desc THEN v = r ELSE v = W - 1 - r)
    <2>1. Turn(b, r) \in Bits /\ Turn(b, r) \in Nat /\ Turn(b, r) < W
      BY <1>1, <1>2 DEF Turn, Bits
    <2>2. IF b.desc THEN Turn(b, r) = r ELSE Turn(b, r) = W - 1 - r
      BY DEF Turn
    <2> QED BY <2>1, <2>2
  <1>5. Given(b, m, p, i) = Bit(Shifted(b.desc, WordA(b, m, p, k), Before(b, m, p, k), by), v)
    BY <1>1, <1>3, <1>4 DEF Given, Moved
  <1>6. CASE r >= by
    <2>1. PICK t \in Nat : t = r - by /\ t < W
      <3>1. r \in Nat /\ by \in Nat /\ r < W
        BY <1>1
      <3>2. r - by \in Nat /\ r - by < W
        BY <1>2, <1>6, <3>1
      <3> QED BY <3>2
    <2>2. ~(i < by) /\ i - by = k * W + t
      <3>1. PICK kw \in Nat : kw = k * W /\ i = kw + r
        BY <1>1
      <3>2. r = by + t
        BY <1>3, <2>1
      <3>3. ~(i < by) /\ i - by = kw + t
        BY <3>1, <3>2
      <3> QED BY <3>1, <3>3
    <2>3. (k * W + t) \div W = k /\ (k * W + t) % W = t
      BY <1>2, <2>1, PlaceIn
    <2>4. Taken(b, m, p, i - by) = Bit(WordA(b, m, p, k), Turn(b, t))
      BY <2>2, <2>3 DEF Taken
    <2>5. (v \in Shifted(b.desc, WordA(b, m, p, k), Before(b, m, p, k), by)) <=> (Turn(b, t) \in WordA(b, m, p, k))
      <3>1. CASE b.desc
        BY <1>4, <1>6, <2>1, <3>1 DEF Shifted, Turn
      <3>2. CASE ~b.desc
        <4>1. v + by < W /\ v + by = W - 1 - t
          BY <1>2, <1>3, <1>4, <1>6, <2>1, <3>2
        <4> QED BY <1>4, <3>2, <4>1 DEF Shifted, Turn
      <3> QED BY <3>1, <3>2
    <2> QED BY <1>3, <1>5, <2>2, <2>4, <2>5 DEF Bit
  <1>7. CASE r < by /\ k = 0
    <2>1. i < by
      BY <1>1, <1>2, <1>7
    <2>2. Before(b, m, p, k) = {}
      BY <1>7 DEF Before
    <2>3. v \notin Shifted(b.desc, WordA(b, m, p, k), Before(b, m, p, k), by)
      <3>1. CASE b.desc
        BY <1>4, <1>7, <2>2, <3>1 DEF Shifted
      <3>2. CASE ~b.desc
        <4>1. ~(v + by < W)
          BY <1>2, <1>3, <1>4, <1>7, <3>2
        <4> QED BY <1>4, <2>2, <3>2, <4>1 DEF Shifted
      <3> QED BY <3>1, <3>2
    <2> QED BY <1>3, <1>5, <2>1, <2>3 DEF Bit
  <1>8. CASE r < by /\ k # 0
    <2>1. PICK j \in Nat : k = j + 1 /\ j = k - 1
      <3>1. k - 1 \in Nat /\ k = (k - 1) + 1
        BY <1>8
      <3> QED BY <3>1
    <2>2. PICK t \in Nat : t = W + r - by /\ t < W
      BY <1>1, <1>2, <1>3, <1>8
    <2>3. k * W = j * W + W /\ j * W \in Nat
      BY <1>2, <2>1
    <2>4. ~(i < by) /\ i - by = j * W + t
      BY <1>1, <1>2, <1>3, <2>2, <2>3
    <2>5. (j * W + t) \div W = j /\ (j * W + t) % W = t
      BY <1>2, <2>2, PlaceIn
    <2>6. Taken(b, m, p, i - by) = Bit(WordA(b, m, p, j), Turn(b, t))
      BY <2>4, <2>5 DEF Taken
    <2>7. Before(b, m, p, k) = WordA(b, m, p, j)
      BY <1>8, <2>1 DEF Before
    <2>8. (v \in Shifted(b.desc, WordA(b, m, p, k), Before(b, m, p, k), by)) <=> (Turn(b, t) \in WordA(b, m, p, j))
      <3>1. CASE b.desc
        <4>1. v < by /\ v + W - by = t
          BY <1>2, <1>4, <1>8, <2>2, <3>1
        <4> QED BY <1>4, <2>7, <3>1, <4>1 DEF Shifted, Turn
      <3>2. CASE ~b.desc
        <4>1. ~(v + by < W) /\ v + by - W = W - 1 - t
          BY <1>2, <1>3, <1>4, <1>8, <2>2, <3>2
        <4> QED BY <1>4, <2>7, <3>2, <4>1 DEF Shifted, Turn
      <3> QED BY <3>1, <3>2
    <2> QED BY <1>3, <1>5, <2>4, <2>6, <2>8 DEF Bit
  <1> QED BY <1>1, <1>3, <1>6, <1>7, <1>8

\* The bits of the words drawn are those moved, when nothing is filled.
LEMMA DrawnAsMoved ==
  ASSUME NEW b, ~b.fill, NEW m, NEW p, NEW k
  PROVE  WordD(b, m, p, k) = Moved(b, m, p, k)
  BY DEF WordD, Filled

\* And when they are filled, a bit is lit by its own edge and the parity of those before it in its row.
LEMMA FillLights ==
  ASSUME NEW b \in AreaRegs, b.fill, b.desc, b.ash = 0, NEW m \in Mems, NEW p \in [Channel -> WholeWords],
         NEW h \in Nat, NEW i \in Nat, i < h * b.w * W
  PROVE  Bit(WordD(b, m, p, i \div W), i % W)
           = LET start == i - (i % (b.w * W))
                 inside == (Ones(Edges(b, m, p), start, i - 1) + (IF b.carryIn THEN 1 ELSE 0)) % 2
                 edge == Edges(b, m, p)[i]
             IN IF b.inclusive THEN (IF inside = 1 \/ edge = 1 THEN 1 ELSE 0) ELSE (inside + edge) % 2
  <1>1. b.w \in Nat /\ b.w > 0 /\ W \in Nat /\ W > 0 /\ b.inclusive \in BOOLEAN /\ b.carryIn \in BOOLEAN
    BY BitPlace DEF AreaRegs
  <1>2. PICK k \in Nat, r \in Nat : k = i \div W /\ r = i % W /\ r < W /\ i = k * W + r
    BY BitPlace
  <1>3. PICK y \in Nat, x \in Nat : x < b.w /\ k = y * b.w + x
    <2>1. PICK n \in Nat : n = k + 1 /\ k < n * b.w
      <3>1. PICK e \in Nat : b.w = e + 1
        <4>1. b.w - 1 \in Nat /\ b.w = (b.w - 1) + 1
          BY <1>1
        <4> QED BY <4>1
      <3>2. (k + 1) * (e + 1) = k * e + k + e + 1 /\ k * e >= 0 /\ k * e \in Int
        OBVIOUS
      <3> QED BY <1>1, <3>1, <3>2
    <2>2. (k \div b.w) \in Nat /\ (k % b.w) \in 0..b.w - 1 /\ k = (k \div b.w) * b.w + (k % b.w)
      BY <1>1, <2>1, Placed
    <2> QED BY <1>1, <2>2
  <1>4. i - (i % (b.w * W)) = y * b.w * W
    <2>1. PICK v \in Nat, u \in Nat : v = b.w * W /\ u = x * W + r /\ v > 0 /\ u < v
      <3>1. PICK e \in Nat : b.w = x + 1 + e
        <4>1. b.w - x - 1 \in Nat /\ b.w = x + 1 + (b.w - x - 1)
          BY <1>1, <1>3
        <4> QED BY <4>1
      <3>2. b.w * W = x * W + W + e * W /\ e * W >= 0 /\ x * W >= 0 /\ x * W \in Int /\ e * W \in Int /\ b.w * W \in Int
        BY <1>1, <3>1
      <3> QED BY <1>1, <1>2, <3>2
    <2>2. i = y * v + u /\ y * b.w * W = y * v /\ y * v \in Nat
      <3>1. PICK c \in Nat : c = y * b.w /\ k = c + x
        BY <1>1, <1>3
      <3>2. k * W = c * W + x * W /\ c * W = y * (b.w * W) /\ c * W \in Nat /\ x * W \in Nat
        BY <1>1, <3>1
      <3> QED BY <1>1, <1>2, <2>1, <3>1, <3>2
    <2>3. (y * v + u) % v = u
      BY <2>1, PlaceIn
    <2> QED BY <2>1, <2>2, <2>3
  <1> DEFINE ones == Ones(Edges(b, m, p), y * b.w * W, i - 1)
             ci == IF b.carryIn THEN 1 ELSE 0
             edge == Edges(b, m, p)[i]
             data == WordA(b, m, p, k)
             par == [j \in 0..W |-> ParityAt(b, m, p, y, k * W + j)]
  <1>5. WordD(b, m, p, k) = {j \in Bits : Lights(b.inclusive, data, par, j)}
    <2>1. CarriesTo(b, m, p, y, x, y * b.w + x)
      BY <1>3, CarriesOn
    <2> QED BY <1>3, <2>1 DEF CarriesTo, WordD
  <1>6. par[r] = ((ones + ci) % 2 = 1)
    BY <1>1, <1>2 DEF ParityAt
  <1>7. edge = Bit(data, r) /\ r \in Bits
    BY <1>1, <1>2 DEF Edges, Bits
  <1>8. Bit(WordD(b, m, p, k), r) = IF Lights(b.inclusive, data, par, r) THEN 1 ELSE 0
    <2> HIDE DEF data, par
    <2> QED BY <1>5, <1>7 DEF Bit
  <1>9. ones \in Nat
    <2>1. y * b.w * W \in Nat
      BY <1>1
    <2>2. PICK from \in Nat : from = y * b.w * W
      BY <2>1
    <2>3. IsFiniteSet({j \in from..i - 1 : Edges(b, m, p)[j] = 1})
      <3>1. IsFiniteSet(from..i - 1)
        BY FS_Interval
      <3>2. {j \in from..i - 1 : Edges(b, m, p)[j] = 1} \in SUBSET (from..i - 1)
        OBVIOUS
      <3> QED BY <3>1, <3>2, FS_Subset
    <2> QED BY <2>2, <2>3, FS_CardinalityType DEF Ones
  <1>10. PICK u \in 0..1 : u = (ones + ci) % 2
    <2> HIDE DEF ones
    <2>1. PICK t \in Nat : t = ones + ci
      BY <1>9
    <2>2. (t % 2) \in 0..1
      OBVIOUS
    <2> QED BY <2>1, <2>2
  <1> HIDE DEF ones, ci, par, data
  <1>11. edge = IF r \in data THEN 1 ELSE 0
    BY <1>7 DEF Bit
  <1> HIDE DEF edge
  <1>12. Bit(WordD(b, m, p, k), r) = IF b.inclusive THEN (IF u = 1 \/ edge = 1 THEN 1 ELSE 0) ELSE (u + edge) % 2
    <2>1. CASE b.inclusive
      BY <1>6, <1>8, <1>10, <1>11, <2>1 DEF Lights
    <2>2. CASE ~b.inclusive
      <3>1. (0 + 0) % 2 = 0 /\ (0 + 1) % 2 = 1 /\ (1 + 0) % 2 = 1 /\ (1 + 1) % 2 = 0
        OBVIOUS
      <3>2. Lights(b.inclusive, data, par, r) = ((r \in data) # (u = 1))
        BY <1>6, <1>10, <2>2 DEF Lights
      <3>3. CASE r \in data
        <4>1. edge = 1 /\ (Lights(b.inclusive, data, par, r) <=> u # 1)
          BY <1>11, <3>2, <3>3
        <4>2. Bit(WordD(b, m, p, k), r) = IF u # 1 THEN 1 ELSE 0
          BY <1>8, <4>1
        <4> QED BY <1>10, <2>2, <3>1, <4>1, <4>2
      <3>4. CASE r \notin data
        <4>1. edge = 0 /\ (Lights(b.inclusive, data, par, r) <=> u = 1)
          <5>1. ~(r \in data) /\ edge = 0
            BY <1>11, <3>4
          <5>2. Lights(b.inclusive, data, par, r) <=> ((r \in data) # (u = 1))
            BY <3>2
          <5>3. (r \in data) \in BOOLEAN /\ (u = 1) \in BOOLEAN
            OBVIOUS
          <5>4. Lights(b.inclusive, data, par, r) <=> u = 1
            BY <5>1, <5>2, <5>3
          <5> QED BY <5>1, <5>4
        <4>2. Bit(WordD(b, m, p, k), r) = IF u = 1 THEN 1 ELSE 0
          BY <1>8, <4>1
        <4> QED BY <1>10, <2>2, <3>1, <4>1, <4>2
      <3> QED BY <3>3, <3>4
    <2> QED BY <2>1, <2>2
  <1> QED BY <1>2, <1>4, <1>10, <1>12 DEF ones, ci, edge

\* What was programmed is one of those given, and a first blit has drawn just its rows.
AreaDrawn ==
  prog.kind = "area" =>
    /\ \E a \in Areas : prog.with = a.with /\ origin.pt = a.from
    /\ rows <= MaxRows /\ blits \in Nat /\ (rows = 0 <=> blits = 0)
    /\ blits = 1 => mem = Area(prog.with, origin.mem, origin.pt, rows).mem

\* A copy programmed is one that may be drawn, to the last of its rows.
LEMMA CopyAsked ==
  ASSUME BlitInv, AreaDrawn, prog.kind = "area", Copies(prog.with)
  PROVE  /\ Copying(prog.with, origin.mem, Even(origin.pt), MaxRows * prog.with.w)
         /\ rows * prog.with.w <= MaxRows * prog.with.w
         /\ prog.with.fill => prog.with.bsh = 0
  <1>1. PICK a \in Areas : prog.with = a.with /\ origin.pt = a.from
    BY DEF AreaDrawn
  <1> DEFINE b == a.with
             p == Even(a.from)
  <1>2. Apart(a) /\ Copies(b)
    BY <1>1, DrawingAssumed
  <1>3. b \in AreaRegs /\ a.from \in [Channel -> Int] /\ origin.mem \in Mems /\ MaxRows \in Nat
    BY BlitterAssumed DEF BlitterAssumption, BlitInv, Origins
  <1>4. p \in [Channel -> WholeWords]
    BY <1>3, EvenIs
  <1>5. b.w \in Nat /\ rows \in Nat /\ rows <= MaxRows
    BY <1>3 DEF AreaRegs, AreaDrawn, BlitInv, BlitTypes
  <1>6. MaxRows * b.w \in Nat /\ rows * b.w <= MaxRows * b.w
    <2>1. PICK e \in Nat : MaxRows = rows + e
      <3>1. MaxRows - rows \in Nat /\ MaxRows = rows + (MaxRows - rows)
        BY <1>3, <1>5
      <3> QED BY <3>1
    <2>2. MaxRows * b.w = rows * b.w + e * b.w /\ e * b.w >= 0 /\ rows * b.w >= 0 /\ rows * b.w \in Int /\ e * b.w \in Int
      BY <1>5, <2>1
    <2> QED BY <2>2
  <1>7. (b.fill => b.desc /\ b.ash = 0 /\ b.bsh = 0) /\ Fits(b, p, MaxRows * b.w)
    BY <1>2 DEF Apart, Fits, DrawnAt
  <1>8. Copying(b, origin.mem, p, MaxRows * b.w)
    BY <1>2, <1>3, <1>4, <1>6, <1>7 DEF Copying
  <1> QED BY <1>1, <1>6, <1>7, <1>8

\* The streams the properties speak of.
LEMMA StreamIs ==
  ASSUME NEW b, b = prog.with, prog.kind = "area", BlitInv, NEW m, NEW c, NEW i \in Nat, i < rows * b.w * W
  PROVE  /\ i \in DOMAIN Stream(b, m, c)
         /\ Stream(b, m, c)[i] = Bit(WordAt(m, AddressOf(b, Even(origin.pt), c, i \div W)), Turn(b, i % W))
         /\ (i \div W) \in 0..rows * b.w - 1
  <1>1. b \in AreaRegs /\ rows \in Nat
    BY DEF BlitInv, BlitTypes, Programs
  <1>2. PICK n \in Nat : n = rows * b.w
    BY <1>1 DEF AreaRegs
  <1>3. PICK z \in Nat : z = n * W /\ i \in 0..z - 1
    BY <1>2, BitPlace
  <1>4. (i \div W) \in Nat /\ i \div W < n
    BY <1>2, BitPlace, Placed
  <1>5. (i \div W) \in 0..n - 1
    BY <1>4
  <1>6. rows * b.w * W = z
    BY <1>2, <1>3
  <1> QED BY <1>2, <1>3, <1>5, <1>6 DEF Stream, Turn

\* A stream has the bits of all words drawn.
LEMMA StreamEnds ==
  ASSUME BlitInv, prog.kind = "area", NEW m, NEW c
  PROVE  DOMAIN Stream(prog.with, m, c) = 0..rows * prog.with.w * W - 1 /\ rows * prog.with.w * W \in Nat
  <1>1. prog.with \in AreaRegs /\ rows \in Nat /\ W \in Nat
    BY BlitterAssumed DEF BlitInv, BlitTypes, Programs, BlitterAssumption
  <1>2. prog.with.w \in Nat
    BY <1>1 DEF AreaRegs
  <1> QED BY <1>1, <1>2 DEF Stream

\* What a copy has drawn, bit by bit.
LEMMA DrawnBits ==
  ASSUME BlitInv, AreaDrawn, prog.kind = "area", Copies(prog.with),
         mem = Area(prog.with, origin.mem, origin.pt, rows).mem,
         NEW i \in Nat, i < rows * prog.with.w * W
  PROVE  Stream(prog.with, mem, "D")[i] = Bit(WordD(prog.with, origin.mem, Even(origin.pt), i \div W), Turn(prog.with, i % W))
  <1> DEFINE b == prog.with
             p == Even(origin.pt)
  <1>1. Copying(b, origin.mem, p, MaxRows * b.w) /\ rows * b.w <= MaxRows * b.w
    BY CopyAsked
  <1>2. rows \in Nat /\ origin.pt \in [Channel -> Int]
    BY DEF BlitInv, BlitTypes, Origins
  <1>3. \A k \in 0..rows * b.w - 1 : WordAt(mem, AddressOf(b, p, "D", k)) = WordD(b, origin.mem, p, k)
    BY <1>1, <1>2, CopyArea
  <1>4. Stream(b, mem, "D")[i] = Bit(WordAt(mem, AddressOf(b, p, "D", i \div W)), Turn(b, i % W)) /\ (i \div W) \in 0..rows * b.w - 1
    BY StreamIs
  <1> QED BY <1>3, <1>4

\* Copies move the whole stream.
LEMMA CopiesShift == ASSUME BlitInv, AreaDrawn PROVE CopyShifts
  <1> SUFFICES ASSUME prog.kind = "area", blits = 1, Copies(prog.with), ~prog.with.fill,
                      NEW i \in DOMAIN Stream(prog.with, mem, "D")
               PROVE  Stream(prog.with, mem, "D")[i] = IF i < prog.with.ash THEN 0 ELSE Stream(prog.with, origin.mem, "A")[i - prog.with.ash]
    BY DEF CopyShifts
  <1> DEFINE b == prog.with
             p == Even(origin.pt)
  <1>1. mem = Area(b, origin.mem, origin.pt, rows).mem
    BY DEF AreaDrawn
  <1>2. i \in Nat /\ i < rows * b.w * W
    <2>1. PICK z \in Nat : z = rows * b.w * W /\ i \in 0..z - 1
      BY StreamEnds
    <2> QED BY <2>1
  <1>3. b \in AreaRegs /\ b.ash \in Nat
    BY BlitterAssumed DEF BlitInv, BlitTypes, Programs, AreaRegs, Bits, BlitterAssumption
  <1>4. Stream(b, mem, "D")[i] = Given(b, origin.mem, p, i)
    BY <1>1, <1>2, DrawnBits, DrawnAsMoved DEF Given
  <1>5. Given(b, origin.mem, p, i) = IF i < b.ash THEN 0 ELSE Taken(b, origin.mem, p, i - b.ash)
    BY <1>2, <1>3, ShiftMoves
  <1>6. ASSUME ~(i < b.ash) PROVE Stream(b, origin.mem, "A")[i - b.ash] = Taken(b, origin.mem, p, i - b.ash)
    <2>1. PICK j \in Nat : j = i - b.ash /\ j < rows * b.w * W
      <3>1. PICK z \in Int : z = rows * b.w * W
        BY StreamEnds
      <3>2. i - b.ash \in Nat /\ i - b.ash < z
        BY <1>2, <1>3, <1>6, <3>1
      <3> QED BY <3>1, <3>2
    <2>2. Stream(b, origin.mem, "A")[j] = Bit(WordAt(origin.mem, AddressOf(b, p, "A", j \div W)), Turn(b, j % W))
      BY <2>1, StreamIs
    <2> QED BY <2>1, <2>2 DEF Taken, WordA
  <1> QED BY <1>4, <1>5, <1>6

\* The row of a bit starts no later than the bit.
LEMMA StartsBefore ==
  ASSUME NEW v \in Nat, v > 0, NEW i \in Nat
  PROVE  i - (i % v) \in Nat /\ i - (i % v) <= i
  <1>1. i = v * (i \div v) + (i % v) /\ (i \div v) \in Nat /\ (i % v) \in Nat
    OBVIOUS
  <1>2. PICK q \in Nat, r \in Nat : i = v * q + r /\ r = i % v
    BY <1>1
  <1>3. v * q \in Nat
    BY <1>2
  <1>4. PICK c \in Nat : i = c + r
    BY <1>2, <1>3
  <1> QED BY <1>2, <1>4

\* Fills light what lies between edges, in however many blits.
LEMMA FillsLight == ASSUME BlitInv, AreaDrawn PROVE FillsBetweenEdges
  <1> DEFINE b == prog.with
             p == Even(origin.pt)
             lit == Stream(b, mem, "D")
             edge == Stream(b, origin.mem, "A")
  <1> SUFFICES ASSUME prog.kind = "area", rows > 0, Copies(b), b.fill, NEW i \in DOMAIN lit
               PROVE  LET start  == i - (i % (b.w * W))
                          inside == (Ones(edge, start, i - 1) + (IF b.carryIn THEN 1 ELSE 0)) % 2
                      IN lit[i] = IF b.inclusive THEN (IF inside = 1 \/ edge[i] = 1 THEN 1 ELSE 0)
                                  ELSE (inside + edge[i]) % 2
    BY DEF FillsBetweenEdges
  <1>1. b \in AreaRegs /\ b.w \in Nat /\ b.w > 0 /\ rows \in Nat /\ W \in Nat /\ W > 0
    BY BlitterAssumed DEF BlitInv, BlitTypes, Programs, AreaRegs, BlitterAssumption
  <1>2. b.desc /\ b.ash = 0 /\ b.bsh = 0 /\ origin.mem \in Mems /\ p \in [Channel -> WholeWords]
    BY CopyAsked DEF Copying
  <1>3. mem = Area(b, origin.mem, origin.pt, rows).mem
    BY <1>2 DEF BlitInv, ChainedIsOne
  <1>4. PICK z \in Nat : z = rows * b.w * W /\ i \in 0..z - 1 /\ i \in Nat /\ i < z
    <2>1. PICK u \in Nat : u = rows * b.w * W /\ i \in 0..u - 1
      BY StreamEnds
    <2> QED BY <2>1
  <1>5. lit[i] = Bit(WordD(b, origin.mem, p, i \div W), i % W)
    <2>1. lit[i] = Bit(WordD(b, origin.mem, p, i \div W), Turn(b, i % W))
      BY <1>3, <1>4, DrawnBits
    <2> QED BY <1>2, <2>1 DEF Turn
  <1>6. ASSUME NEW j \in 0..z - 1 PROVE edge[j] = Edges(b, origin.mem, p)[j]
    <2>1. j \in Nat /\ j < rows * b.w * W
      BY <1>4
    <2>2. edge[j] = Bit(WordAt(origin.mem, AddressOf(b, p, "A", j \div W)), Turn(b, j % W))
      BY <2>1, StreamIs
    <2> HIDE DEF edge, p
    <2> QED BY <1>2, <2>1, <2>2 DEF Turn, Edges, WordA
  <1> DEFINE start == i - (i % (b.w * W))
  <1>7. start \in Nat /\ start <= i
    <2>1. PICK v \in Nat : v = b.w * W /\ v > 0
      <3>1. b.w * W \in Nat /\ b.w * W > 0
        BY <1>1
      <3> QED BY <3>1
    <2>2. i - (i % v) \in Nat /\ i - (i % v) <= i
      BY <1>4, <2>1, StartsBefore
    <2> QED BY <2>1, <2>2
  <1> HIDE DEF start
  <1>8. Ones(edge, start, i - 1) = Ones(Edges(b, origin.mem, p), start, i - 1) /\ edge[i] = Edges(b, origin.mem, p)[i]
    <2>1. \A j \in start..i - 1 : j \in 0..z - 1
      BY <1>4, <1>7
    <2> HIDE DEF edge, b, p
    <2>2. {j \in start..i - 1 : edge[j] = 1} = {j \in start..i - 1 : Edges(b, origin.mem, p)[j] = 1}
      BY <1>6, <2>1
    <2> QED BY <1>4, <1>6, <2>2 DEF Ones
  <1>9. Bit(WordD(b, origin.mem, p, i \div W), i % W)
          = LET inside == (Ones(Edges(b, origin.mem, p), start, i - 1) + (IF b.carryIn THEN 1 ELSE 0)) % 2
                e == Edges(b, origin.mem, p)[i]
            IN IF b.inclusive THEN (IF inside = 1 \/ e = 1 THEN 1 ELSE 0) ELSE (inside + e) % 2
    <2>1. i < rows * b.w * W
      BY <1>4
    <2> HIDE DEF b, p, edge, lit
    <2> QED BY <1>1, <1>2, <1>4, <2>1, FillLights DEF start
  <1> HIDE DEF b, p, edge, lit
  <1> QED BY <1>5, <1>8, <1>9 DEF start

\* What a line drawn in one blit has drawn.
LineDrawn ==
  prog.kind = "line" =>
    /\ origin.with \in Lines /\ origin.mem \in Mems /\ origin.pt = [c \in Channel |-> origin.with.cpt]
    /\ prog.with.mod = origin.with.mod /\ prog.with.major = origin.with.major /\ blits \in Nat
    /\ blits = 0 => prog.with = origin.with /\ mem = origin.mem /\ pt = origin.pt /\ rows = 0
    /\ blits = 1 => mem = Line(origin.with, origin.mem, origin.pt, rows).mem

DrawnInv == BlitInv /\ AreaDrawn /\ LineDrawn

\* With nothing programmed nothing is drawn,
LEMMA DrawnStarts == Init => DrawnInv
  <1> SUFFICES ASSUME Init PROVE DrawnInv
    OBVIOUS
  <1>1. prog.kind = "none"
    BY DEF Init
  <1> QED BY <1>1, BlitStarts DEF DrawnInv, AreaDrawn, LineDrawn

\* a first area draws from where it was programmed,
LEMMA AreaGoesOn ==
  ASSUME BlitInv, AreaDrawn, BlitArea
  PROVE  AreaDrawn' /\ LineDrawn'
  <1>1. PICK h \in 1..MaxRows - rows :
             /\ mem' = Area(prog.with, mem, pt, h).mem /\ rows' = rows + h /\ prog' = prog /\ origin' = origin
             /\ prog.kind = "area" /\ blits' = blits + 1
    BY DEF BlitArea
  <1>2. rows \in Nat /\ MaxRows \in Nat /\ blits \in Nat /\ (rows = 0 <=> blits = 0)
    BY <1>1, BlitterAssumed DEF BlitterAssumption, BlitInv, BlitTypes, AreaDrawn
  <1>3. rows + h <= MaxRows /\ rows + h # 0 /\ rows + h \in Nat /\ blits + 1 # 0 /\ blits + 1 \in Nat
    BY <1>2
  <1>4. ASSUME blits' = 1 PROVE mem' = Area(prog.with, origin.mem, origin.pt, rows + h).mem
    <2>1. rows = 0 /\ h \in Nat
      BY <1>1, <1>2, <1>4
    <2>2. pt = origin.pt /\ mem = origin.mem /\ rows + h = h
      BY <1>1, <2>1 DEF BlitInv, Origins
    <2> QED BY <1>1, <2>2
  <1>5. PICK a \in Areas : prog.with = a.with /\ origin.pt = a.from
    BY <1>1 DEF AreaDrawn
  <1> QED BY <1>1, <1>3, <1>4, <1>5 DEF AreaDrawn, LineDrawn

\* a first line too,
LEMMA LineGoesOn ==
  ASSUME BlitInv, LineDrawn, BlitLine
  PROVE  AreaDrawn' /\ LineDrawn'
  <1>1. PICK n \in 1..prog.with.major + 1 - rows : LET d == Line(prog.with, mem, pt, n) IN
             /\ mem' = d.mem /\ rows' = rows + n
             /\ prog' = [prog EXCEPT !.with.ash = d.ash, !.with.sign = d.sign]
    BY DEF BlitLine
  <1>2. prog.kind = "line" /\ blits' = blits + 1 /\ origin' = origin
    BY DEF BlitLine
  <1>3. prog \in [kind : {"line"}, with : LineRegs]
    BY <1>2 DEF BlitInv, BlitTypes, Programs
  <1>4. prog'.kind = "line" /\ prog'.with.mod = prog.with.mod /\ prog'.with.major = prog.with.major
    BY <1>1, <1>3 DEF LineRegs
  <1>5. blits \in Nat /\ blits + 1 \in Nat /\ blits + 1 # 0
    BY <1>2 DEF LineDrawn
  <1>6. ASSUME blits' = 1 PROVE mem' = Line(origin.with, origin.mem, origin.pt, rows + n).mem
    <2>1. blits = 0
      BY <1>2, <1>5, <1>6
    <2>2. prog.with = origin.with /\ mem = origin.mem /\ pt = origin.pt /\ rows = 0 /\ rows + n = n
      <3>1. rows = 0
        BY <1>2, <2>1 DEF LineDrawn
      <3>2. n \in Int
        OBVIOUS
      <3> QED BY <1>2, <2>1, <3>1, <3>2 DEF LineDrawn
    <2> QED BY <1>1, <2>2
  <1> QED BY <1>1, <1>2, <1>4, <1>5, <1>6 DEF AreaDrawn, LineDrawn

\* and every other step leaves what was drawn.
LEMMA DrawnKeeps ==
  ASSUME DrawnInv, Next \/ UNCHANGED vars
  PROVE  DrawnInv'
  <1>1. BlitInv'
    BY BlitSteps DEF DrawnInv
  <1>2. CASE ProgramArea
    <2>1. PICK a \in Areas : Programmed("area", a.from, a.with)
      BY <1>2 DEF ProgramArea
    <2>2. prog' = [kind |-> "area", with |-> a.with] /\ origin' = [mem |-> mem, pt |-> a.from, with |-> a.with] /\ rows' = 0 /\ blits' = 0
      BY <2>1 DEF Programmed
    <2>3. prog'.kind = "area" /\ prog'.with = a.with /\ origin'.pt = a.from /\ MaxRows \in Nat
      BY <2>2, BlitterAssumed DEF BlitterAssumption
    <2>4. AreaDrawn' /\ LineDrawn'
      BY <2>2, <2>3 DEF AreaDrawn, LineDrawn
    <2> QED BY <1>1, <2>4 DEF DrawnInv
  <1>3. CASE ProgramLine
    <2>1. PICK l \in Lines : Programmed("line", [c \in Channel |-> l.cpt], l)
      BY <1>3 DEF ProgramLine
    <2>2. /\ prog' = [kind |-> "line", with |-> l] /\ pt' = [c \in Channel |-> l.cpt] /\ rows' = 0 /\ blits' = 0 /\ mem' = mem
          /\ origin' = [mem |-> mem, pt |-> [c \in Channel |-> l.cpt], with |-> l]
      BY <2>1 DEF Programmed
    <2>3. prog'.kind = "line" /\ prog'.with = l /\ origin'.with = l /\ origin'.mem = mem /\ origin'.pt = [c \in Channel |-> l.cpt] /\ mem \in Mems
      BY <2>2 DEF DrawnInv, BlitInv, BlitTypes
    <2>4. AreaDrawn' /\ LineDrawn'
      BY <2>2, <2>3 DEF AreaDrawn, LineDrawn
    <2> QED BY <1>1, <2>4 DEF DrawnInv
  <1>4. CASE BlitArea
    BY <1>1, <1>4, AreaGoesOn DEF DrawnInv
  <1>5. CASE BlitLine
    BY <1>1, <1>5, LineGoesOn DEF DrawnInv
  <1>6. CASE SkipBlit \/ ReadBzero \/ UNCHANGED vars
    <2>1. mem' = mem /\ pt' = pt /\ prog' = prog /\ origin' = origin /\ rows' = rows /\ blits' = blits
      BY <1>6 DEF SkipBlit, ReadBzero, vars
    <2> QED BY <1>1, <2>1 DEF DrawnInv, AreaDrawn, LineDrawn
  <1> QED BY <1>2, <1>3, <1>4, <1>5, <1>6 DEF Next

-----------------------------------------------------------------------------
(* What a line draws. *)

\* The accumulator before step k: how far the next dot lies over half a row.
Term(l, k) == 2 * (k + 1) * l.minor - l.major - 2 * l.major * Across(l, k)

\* How far a dot lies across is the nearest whole number, halves rounded up.
LEMMA AcrossIs ==
  ASSUME NEW l \in LineRegs, l.major > 0, NEW k \in Nat
  PROVE  /\ Across(l, k) \in Nat /\ 2 * l.major * Across(l, k) <= 2 * k * l.minor + l.major
         /\ 2 * k * l.minor + l.major < 2 * l.major * Across(l, k) + 2 * l.major
  <1>1. PICK M \in Nat, N \in Nat : M = l.major /\ N = l.minor /\ M > 0
    BY DEF LineRegs
  <1>2. PICK t \in Nat : t = 2 * k * N + M
    <2>1. 2 * k * N \in Nat
      OBVIOUS
    <2> QED BY <2>1
  <1>3. PICK D \in Nat : D = 2 * M /\ D > 0
    BY <1>1
  <1>4. t = D * (t \div D) + (t % D) /\ (t % D) \in 0..D - 1 /\ (t \div D) \in Nat
    BY <1>3
  <1>5. Across(l, k) = t \div D
    BY <1>1, <1>2, <1>3 DEF Across
  <1>6. PICK A \in Nat, r \in Nat : A = t \div D /\ t = D * A + r /\ r < D
    <2>1. PICK A \in Nat : A = t \div D
      BY <1>4
    <2>2. PICK r \in Nat : r = t % D /\ r < D
      BY <1>3, <1>4
    <2>3. t = D * A + r
      BY <1>4, <2>1, <2>2
    <2> QED BY <2>1, <2>2, <2>3
  <1>7. D * A \in Nat
    BY <1>6
  <1>8. D * A <= t /\ t < D * A + D
    BY <1>6, <1>7
  <1>9. 2 * l.major = D /\ 2 * k * l.minor + l.major = t
    BY <1>1, <1>2, <1>3
  <1> QED BY <1>5, <1>6, <1>8, <1>9

\* Multiples less than one apart are one.
LEMMA CloseMultiples ==
  ASSUME NEW M \in Nat, NEW a \in Nat, NEW c \in Nat, M * a < M * c + M, M * c < M * a + M
  PROVE  a = c
  <1>1. ASSUME NEW x \in Nat, NEW y \in Nat, x > y, M * x < M * y + M PROVE FALSE
    <2>1. PICK e \in Nat : x = y + 1 + e
      <3>1. x - y - 1 \in Nat /\ x = y + 1 + (x - y - 1)
        BY <1>1
      <3> QED BY <3>1
    <2>2. M * x = M * y + M + M * e /\ M * e \in Nat /\ M * y \in Nat
      BY <2>1
    <2> QED BY <1>1, <2>2
  <1>2. ~(a > c) /\ ~(c > a)
    BY <1>1
  <1> QED BY <1>2

\* Bresenham's decision: the line moves across when the accumulator is not negative.
LEMMA AcrossOn ==
  ASSUME NEW l \in LineRegs, l.major > 0, l.minor <= l.major, NEW k \in Nat
  PROVE  /\ Across(l, k + 1) = (IF Term(l, k) < 0 THEN Across(l, k) ELSE Across(l, k) + 1)
         /\ Term(l, k + 1) = Term(l, k) + (IF Term(l, k) < 0 THEN 2 * l.minor ELSE 2 * (l.minor - l.major))
         /\ Term(l, k) \in Int
  <1>1. PICK M \in Nat, N \in Nat : M = l.major /\ N = l.minor /\ M > 0 /\ N <= M
    BY DEF LineRegs
  <1>2. PICK A \in Nat, B \in Nat, kn \in Nat, ma \in Nat, mb \in Nat :
          /\ A = Across(l, k) /\ B = Across(l, k + 1) /\ kn = k * N /\ ma = M * A /\ mb = M * B
          /\ 2 * ma <= 2 * kn + M /\ 2 * kn + M < 2 * ma + 2 * M
          /\ 2 * mb <= 2 * kn + 2 * N + M /\ 2 * kn + 2 * N + M < 2 * mb + 2 * M
    <2>1. PICK j \in Nat : j = k + 1
      OBVIOUS
    <2>2. PICK A \in Nat : A = Across(l, k) /\ 2 * M * A <= 2 * k * N + M /\ 2 * k * N + M < 2 * M * A + 2 * M
      BY <1>1, AcrossIs
    <2>3. PICK B \in Nat : B = Across(l, j) /\ 2 * M * B <= 2 * j * N + M /\ 2 * j * N + M < 2 * M * B + 2 * M
      BY <1>1, AcrossIs
    <2>4. PICK kn \in Nat, ma \in Nat, mb \in Nat : kn = k * N /\ ma = M * A /\ mb = M * B
      OBVIOUS
    <2>5. 2 * M * A = 2 * ma /\ 2 * M * B = 2 * mb /\ 2 * k * N = 2 * kn
      BY <2>4
    <2>6. 2 * j * N = 2 * kn + 2 * N
      BY <2>1, <2>4
    <2> QED BY <2>1, <2>2, <2>3, <2>4, <2>5, <2>6
  <1>3. Term(l, k) = 2 * kn + 2 * N - M - 2 * ma
    BY <1>1, <1>2 DEF Term
  <1>4. Term(l, k + 1) = 2 * kn + 4 * N - M - 2 * mb
    <2>1. 2 * ((k + 1) + 1) * N = 2 * kn + 4 * N
      BY <1>2
    <2>2. 2 * M * B = 2 * mb
      BY <1>2
    <2> QED BY <1>1, <1>2, <2>1, <2>2 DEF Term
  <1>5. CASE Term(l, k) < 0
    <2>1. mb < ma + M /\ ma < mb + M
      BY <1>1, <1>2, <1>3, <1>5
    <2>2. B = A
      BY <1>1, <1>2, <2>1, CloseMultiples
    <2>3. mb = ma
      BY <1>2, <2>2
    <2> QED BY <1>1, <1>2, <1>3, <1>4, <1>5, <2>2, <2>3
  <1>6. CASE ~(Term(l, k) < 0)
    <2>1. PICK na \in Nat, c \in Nat : c = A + 1 /\ na = M * c /\ na = ma + M
      <3>1. M * (A + 1) = ma + M
        BY <1>2
      <3> QED BY <3>1
    <2>2. mb < na + M /\ na < mb + M
      BY <1>1, <1>2, <1>3, <1>6, <2>1
    <2>3. B = c
      BY <1>1, <1>2, <2>1, <2>2, CloseMultiples
    <2>4. mb = ma + M
      BY <1>2, <2>1, <2>3
    <2> QED BY <1>1, <1>2, <1>3, <1>4, <1>6, <2>1, <2>3, <2>4
  <1> QED BY <1>5, <1>6

\* The coordinate the dots of a line take step by step: along its shorter side, and the row they are in.
Height(l, k) == IF l.steep THEN k ELSE Across(l, k)

\* A line never goes back.
LEMMA HeightsRise ==
  ASSUME NEW l \in LineRegs, l.major > 0, l.minor <= l.major, NEW j \in Nat, NEW k \in Nat, j <= k
  PROVE  Height(l, j) \in Nat /\ Height(l, k) \in Nat /\ Height(l, j) <= Height(l, k)
  <1>1. \A n \in Nat : Height(l, n) \in Nat
    BY AcrossIs DEF Height
  <1>2. ASSUME NEW n \in Nat PROVE Height(l, n) <= Height(l, n + 1)
    <2>1. PICK A \in Nat, B \in Nat : A = Across(l, n) /\ B = Across(l, n + 1) /\ A <= B
      <3>1. Across(l, n) \in Nat
        BY AcrossIs
      <3>2. Across(l, n + 1) = (IF Term(l, n) < 0 THEN Across(l, n) ELSE Across(l, n) + 1)
        BY AcrossOn
      <3> QED BY <3>1, <3>2
    <2> QED BY <2>1 DEF Height
  <1> DEFINE S == {n \in Nat : Height(l, j) <= Height(l, j + n)}
  <1>3. 0 \in S
    BY <1>1
  <1>4. ASSUME NEW n \in Nat, n \in S PROVE n + 1 \in S
    <2>1. PICK i \in Nat : i = j + n /\ j + (n + 1) = i + 1
      OBVIOUS
    <2>2. Height(l, j) \in Nat /\ Height(l, i) \in Nat /\ Height(l, i + 1) \in Nat /\ Height(l, i) <= Height(l, i + 1) /\ Height(l, j) <= Height(l, i)
      BY <1>1, <1>2, <1>4, <2>1
    <2> QED BY <2>1, <2>2
  <1> HIDE DEF S
  <1>5. k - j \in S
    <2>1. k - j \in Nat
      OBVIOUS
    <2> QED BY <1>3, <1>4, <2>1, Induction
  <1>6. Height(l, j) <= Height(l, j + (k - j)) /\ j + (k - j) = k
    BY <1>5 DEF S
  <1> QED BY <1>1, <1>6

\* A dot is in the row of the one before it, or the first of its row.
LEMMA RowsOf ==
  ASSUME NEW l \in LineRegs, l.major > 0, l.minor <= l.major, NEW j \in Nat, NEW k \in Nat
  PROVE  (Dot(l, j)[2] = Dot(l, k)[2]) <=> (Height(l, j) = Height(l, k))
  <1>1. Dot(l, j)[2] = l.y + l.sy * Height(l, j) /\ Dot(l, k)[2] = l.y + l.sy * Height(l, k)
    BY DEF Dot, Height
  <1>2. PICK u \in Nat, v \in Nat : u = Height(l, j) /\ v = Height(l, k)
    BY HeightsRise
  <1>3. l.y \in Nat /\ l.sy \in {-1, 1}
    BY DEF LineRegs
  <1>4. CASE l.sy = 1
    BY <1>1, <1>2, <1>3, <1>4
  <1>5. CASE l.sy # 1
    <2>1. PICK s \in Int : s = l.sy /\ s + 1 = 0
      BY <1>3, <1>5
    <2>2. s * u = 0 - u /\ s * v = 0 - v
      <3>1. s = 0 - 1
        BY <2>1
      <3> QED BY <3>1
    <2> QED BY <1>1, <1>2, <1>3, <2>1, <2>2
  <1> QED BY <1>4, <1>5

\* Of a row, only the first dot is kept of a line that has one to a row.
Inks(l, n) == l.single => \A j \in 0..n - 1 : Dot(l, j)[2] # Dot(l, n)[2]
Level(l, n) == n > 0 /\ Height(l, n) = Height(l, n - 1)

\* A dot is dropped when the line has one to a row and it lies level with the one before it.
LEMMA InksIs ==
  ASSUME NEW l \in LineRegs, l.major > 0, l.minor <= l.major, NEW n \in Nat
  PROVE  Inks(l, n) <=> ~(l.single /\ Level(l, n))
  <1>1. ASSUME Level(l, n) PROVE \E j \in 0..n - 1 : Dot(l, j)[2] = Dot(l, n)[2]
    <2>1. PICK j \in Nat : j = n - 1 /\ j \in 0..n - 1 /\ Height(l, j) = Height(l, n)
      BY <1>1 DEF Level
    <2> QED BY <2>1, RowsOf
  <1>2. ASSUME NEW j \in 0..n - 1, Dot(l, j)[2] = Dot(l, n)[2] PROVE Level(l, n)
    <2>1. PICK i \in Nat : i = n - 1 /\ j \in Nat /\ j <= i /\ i <= n /\ n > 0
      OBVIOUS
    <2>2. Height(l, j) = Height(l, n)
      BY <1>2, <2>1, RowsOf
    <2>3. /\ Height(l, j) \in Nat /\ Height(l, i) \in Nat /\ Height(l, n) \in Nat
          /\ Height(l, j) <= Height(l, i) /\ Height(l, i) <= Height(l, n)
      BY <2>1, HeightsRise
    <2>4. Height(l, i) = Height(l, n)
      BY <2>2, <2>3
    <2> QED BY <2>1, <2>4 DEF Level
  <1> QED BY <1>1, <1>2 DEF Inks

-----------------------------------------------------------------------------
(* Dots. *)

\* Where in memory a dot is.
Cell(d, mod) == d[2] * (mod \div 2) + d[1] \div W
Slot(d) == W - 1 - (d[1] % W)

\* A picture's shape: whole words to a row, and memory for all its rows.
LEMMA DotIs ==
  ASSUME NEW mod \in Nat, mod > 0, mod % 2 = 0, NEW d \in Canvas(mod)
  PROVE  /\ d[1] \in Nat /\ d[2] \in Nat /\ d = <<d[1], d[2]>>
         /\ (d[1] \div W) \in Nat /\ d[1] \div W < mod \div 2 /\ (mod \div 2) \in Nat /\ mod = 2 * (mod \div 2)
         /\ Cell(d, mod) \in 0..Words - 1 /\ Slot(d) \in Bits
  <1>1. PICK h \in Nat : h = mod \div 2 /\ mod = 2 * h /\ h > 0
    <2>1. (mod \div 2) \in Nat /\ mod = 2 * (mod \div 2) + (mod % 2)
      OBVIOUS
    <2>2. PICK h \in Nat : h = mod \div 2 /\ mod = 2 * h
      BY <2>1
    <2> QED BY <2>2
  <1>2. W \in Nat /\ W > 0 /\ Words \in Nat
    BY BlitterAssumed DEF BlitterAssumption
  <1>3. PICK z \in Int, Q \in Int : z = h * W /\ Q = (2 * Words) \div mod
    <2>1. (2 * Words) \div mod \in Int
      <3>1. PICK t \in Nat : t = 2 * Words
        BY <1>2
      <3>2. (t \div mod) \in Int
        OBVIOUS
      <3> QED BY <3>1, <3>2
    <2> QED BY <1>2, <2>1
  <1>4. d[1] \in 0..z - 1 /\ d[2] \in 0..Q - 1 /\ d = <<d[1], d[2]>>
    BY <1>1, <1>3 DEF Canvas
  <1>5. PICK x \in Nat, y \in Nat : x = d[1] /\ y = d[2] /\ x < z /\ y + 1 <= Q
    BY <1>4
  <1>6. (x \div W) \in Nat /\ x \div W < h /\ (x % W) \in 0..W - 1
    BY <1>2, <1>3, <1>5, Placed
  <1>7. PICK c \in Nat : c = x \div W /\ c < h
    BY <1>6
  <1>8. y * h + c \in 0..Words - 1
    <2>1. mod * Q <= 2 * Words
      <3>1. PICK t \in Nat : t = 2 * Words
        BY <1>2
      <3>2. t = mod * (t \div mod) + (t % mod) /\ (t % mod) >= 0 /\ (t \div mod) \in Int /\ (t % mod) \in Int
        OBVIOUS
      <3>3. PICK r \in Int : r >= 0 /\ t = mod * Q + r
        BY <1>3, <3>1, <3>2
      <3>4. mod * Q \in Int
        BY <1>3
      <3> QED BY <3>1, <3>3, <3>4
    <2>2. PICK e \in Nat : Q = y + 1 + e
      <3>1. Q - y - 1 \in Nat /\ Q = y + 1 + (Q - y - 1)
        BY <1>3, <1>5
      <3> QED BY <3>1
    <2>3. mod * Q = 2 * (y * h) + 2 * h + 2 * (e * h) /\ y * h \in Nat /\ e * h \in Nat
      BY <1>1, <2>2
    <2> QED BY <1>2, <1>7, <2>1, <2>3
  <1>9. Slot(d) \in Bits
    BY <1>2, <1>5, <1>6 DEF Slot, Bits
  <1> QED BY <1>1, <1>4, <1>5, <1>6, <1>7, <1>8, <1>9 DEF Cell

\* No two dots share their bit.
LEMMA DotsApart ==
  ASSUME NEW mod \in Nat, mod > 0, mod % 2 = 0, NEW d \in Canvas(mod), NEW e \in Canvas(mod),
         Cell(d, mod) = Cell(e, mod), Slot(d) = Slot(e)
  PROVE  d = e
  <1>1. PICK h \in Nat : h = mod \div 2
    BY DotIs
  <1>2. W \in Nat /\ W > 0
    BY BlitterAssumed DEF BlitterAssumption
  <1>3. PICK x \in Nat, y \in Nat, c \in Nat : x = d[1] /\ y = d[2] /\ c = x \div W /\ c < h /\ d = <<x, y>>
    BY <1>1, DotIs
  <1>4. PICK u \in Nat, v \in Nat, g \in Nat : u = e[1] /\ v = e[2] /\ g = u \div W /\ g < h /\ e = <<u, v>>
    BY <1>1, DotIs
  <1>5. y * h + c = v * h + g
    BY <1>1, <1>3, <1>4 DEF Cell
  <1>6. h > 0
    BY <1>3
  <1>7. (y * h + c) \div h = y /\ (y * h + c) % h = c /\ (v * h + g) \div h = v /\ (v * h + g) % h = g
    <2>0. c < h /\ g < h
      BY <1>3, <1>4
    <2>1. (y * h + c) \div h = y /\ (y * h + c) % h = c
      BY <1>6, <2>0, PlaceIn
    <2>2. (v * h + g) \div h = v /\ (v * h + g) % h = g
      BY <1>6, <2>0, PlaceIn
    <2> QED BY <2>1, <2>2
  <1>8. y = v /\ c = g
    BY <1>5, <1>7
  <1>9. x % W = u % W
    <2>1. (x % W) \in Int /\ (u % W) \in Int
      BY <1>2
    <2> QED BY <1>2, <1>3, <1>4, <2>1 DEF Slot
  <1>10. x = c * W + (x % W) /\ u = g * W + (u % W)
    BY <1>3, <1>4, BitPlace
  <1> QED BY <1>3, <1>4, <1>8, <1>9, <1>10

\* A dot drawn is lit, and no other.
LEMMA DotLights ==
  ASSUME NEW mod \in Nat, mod > 0, mod % 2 = 0, NEW d \in Canvas(mod), NEW m \in Mems
  PROVE  LET c == Cell(d, mod)
         IN Lit([m EXCEPT ![c] = m[c] \cup {Slot(d)}], mod) = Lit(m, mod) \cup {d}
  <1> DEFINE c == Cell(d, mod)
             l == [m EXCEPT ![c] = m[c] \cup {Slot(d)}]
  <1>1. ASSUME NEW e \in Canvas(mod) PROVE (Slot(e) \in l[Cell(e, mod)]) <=> (Slot(e) \in m[Cell(e, mod)] \/ e = d)
    <2>1. Cell(e, mod) \in DOMAIN m /\ c \in DOMAIN m
      BY DotIs DEF Mems
    <2>2. CASE Cell(e, mod) = c
      <3>1. l[c] = m[c] \cup {Slot(d)}
        BY <2>1 DEF Mems
      <3>2. Slot(e) = Slot(d) => e = d
        BY <2>2, DotsApart
      <3> QED BY <2>2, <3>1, <3>2
    <2>3. CASE Cell(e, mod) # c
      BY <2>1, <2>3 DEF Mems
    <2> QED BY <2>2, <2>3
  <1> HIDE DEF l
  <1>2. \A k : Lit(k, mod) = {e \in Canvas(mod) : Slot(e) \in k[Cell(e, mod)]}
    BY DEF Lit, Slot, Cell
  <1>3. Lit(l, mod) = Lit(m, mod) \cup {d}
    BY <1>1, <1>2
  <1> QED BY <1>3 DEF l

-----------------------------------------------------------------------------
(* A line, dot by dot. *)

\* A dot to the right, and one to the left.
LEMMA ColumnOn ==
  ASSUME NEW x \in Nat
  PROVE  /\ (x + 1) \div W = (IF x % W = W - 1 THEN (x \div W) + 1 ELSE x \div W)
         /\ (x + 1) % W = ((x % W) + 1) % W
  <1>1. W \in Nat /\ W > 0
    BY BlitterAssumed DEF BlitterAssumption
  <1>2. PICK c \in Nat, r \in Nat : c = x \div W /\ r = x % W /\ r < W /\ x = c * W + r
    BY BitPlace
  <1>3. CASE r = W - 1
    <2>1. PICK e \in Nat : e = c + 1 /\ x + 1 = e * W + 0
      <3>1. (c + 1) * W = c * W + W /\ c * W \in Nat
        BY <1>1
      <3> QED BY <1>1, <1>2, <1>3, <3>1
    <2>2. (e * W + 0) \div W = e /\ (e * W + 0) % W = 0
      BY <1>1, PlaceIn
    <2>3. (r + 1) % W = 0
      <3>1. r + 1 = W
        BY <1>1, <1>2, <1>3
      <3>2. (1 * W + 0) % W = 0 /\ 1 * W + 0 = W
        BY <1>1, PlaceIn
      <3> QED BY <3>1, <3>2
    <2>4. (x + 1) \div W = c + 1 /\ (x + 1) % W = (r + 1) % W
      BY <2>1, <2>2, <2>3
    <2> QED BY <1>2, <1>3, <2>4
  <1>4. CASE r # W - 1
    <2>1. PICK t \in Nat : t = r + 1 /\ t < W /\ x + 1 = c * W + t
      <3>1. c * W \in Nat
        BY <1>1
      <3> QED BY <1>1, <1>2, <1>4, <3>1
    <2>2. (c * W + t) \div W = c /\ (c * W + t) % W = t
      BY <1>1, <2>1, PlaceIn
    <2>3. (0 * W + t) % W = t /\ 0 * W + t = t
      BY <1>1, <2>1, PlaceIn
    <2>4. (x + 1) \div W = c /\ (x + 1) % W = (r + 1) % W
      BY <2>1, <2>2, <2>3
    <2> QED BY <1>2, <1>4, <2>4
  <1> QED BY <1>3, <1>4

\* x is one to the right of z.
LEMMA ColumnBack ==
  ASSUME NEW x \in Nat, NEW z \in Nat, x = z + 1
  PROVE  /\ z \div W = (IF x % W = 0 THEN (x \div W) - 1 ELSE x \div W)
         /\ z % W = ((x % W) + -1) % W
  <1>1. W \in Nat /\ W > 0
    BY BlitterAssumed DEF BlitterAssumption
  <1>2. PICK c \in Nat, r \in Nat : c = z \div W /\ r = z % W /\ r < W /\ z = c * W + r
    BY BitPlace
  <1>3. CASE r = W - 1
    <2>1. x \div W = c + 1 /\ x % W = 0
      <3>1. PICK e \in Nat : e = c + 1 /\ x = e * W + 0
        <4>1. (c + 1) * W = c * W + W /\ c * W \in Nat
          BY <1>1
        <4> QED BY <1>1, <1>2, <1>3, <4>1
      <3>2. (e * W + 0) \div W = e /\ (e * W + 0) % W = 0
        BY <1>1, PlaceIn
      <3> QED BY <3>1, <3>2
    <2>2. (0 + -1) % W = W - 1
      <3>1. PICK t \in Int : t = 0 + -1 /\ t + 1 = 0
        OBVIOUS
      <3>2. t = W * (t \div W) + (t % W) /\ (t % W) \in 0..W - 1 /\ (t \div W) \in Int
        BY <1>1
      <3>3. PICK q \in Int : q = t \div W
        BY <3>2
      <3>4. PICK u \in Nat : u = t % W /\ u < W
        BY <1>1, <3>2
      <3>5. t = W * q + u
        BY <3>2, <3>3, <3>4
      <3>6. CASE q >= 0
        <4>1. W * q >= 0 /\ W * q \in Int
          BY <1>1, <3>6
        <4> QED BY <3>1, <3>5, <4>1
      <3>7. CASE q + 1 < 0
        <4>1. PICK e \in Nat : q + 2 + e = 0
          <5>1. 0 - q - 2 \in Nat /\ q + 2 + (0 - q - 2) = 0
            BY <3>7
          <5> QED BY <5>1
        <4>2. W * q + 2 * W + W * e = W * (q + 2 + e) /\ W * 0 = 0 /\ W * e \in Nat /\ W * q \in Int
          BY <1>1
        <4> QED BY <1>1, <3>1, <3>4, <3>5, <4>1, <4>2
      <3>8. CASE q + 1 = 0
        <4>1. W * q + W = W * (q + 1) /\ W * 0 = 0 /\ W * q \in Int
          BY <1>1
        <4> QED BY <1>1, <3>1, <3>4, <3>5, <3>8, <4>1
      <3> QED BY <3>6, <3>7, <3>8
    <2> QED BY <1>2, <1>3, <2>1, <2>2
  <1>4. CASE r # W - 1
    <2>1. PICK t \in Nat : t = r + 1 /\ t < W /\ x = c * W + t /\ t # 0
      <3>1. c * W \in Nat
        BY <1>1
      <3> QED BY <1>1, <1>2, <1>4, <3>1
    <2>2. (c * W + t) \div W = c /\ (c * W + t) % W = t
      BY <1>1, <2>1, PlaceIn
    <2>3. (0 * W + r) % W = r /\ 0 * W + r = r
      BY <1>1, <1>2, PlaceIn
    <2>4. t + -1 = r
      BY <2>1
    <2>5. x \div W = c /\ x % W = t
      BY <2>1, <2>2
    <2> QED BY <1>2, <2>1, <2>3, <2>4, <2>5
  <1> QED BY <1>3, <1>4

\* The next dot is one on along the line's longer side, and one across when the accumulator says so.
LEMMA DotOn ==
  ASSUME NEW l \in LineRegs, l.major > 0, l.minor <= l.major, NEW k \in Nat
  PROVE  /\ Dot(l, k + 1)[1] = (IF ~l.steep \/ ~(Term(l, k) < 0) THEN Dot(l, k)[1] + l.sx ELSE Dot(l, k)[1])
         /\ Dot(l, k + 1)[2] = (IF l.steep \/ ~(Term(l, k) < 0) THEN Dot(l, k)[2] + l.sy ELSE Dot(l, k)[2])
         /\ Level(l, k + 1) <=> ~(l.steep \/ ~(Term(l, k) < 0))
  <1>1. PICK A \in Nat, B \in Nat : A = Across(l, k) /\ B = Across(l, k + 1) /\ B = IF Term(l, k) < 0 THEN A ELSE A + 1
    <2>1. Across(l, k) \in Nat
      BY AcrossIs
    <2>2. Across(l, k + 1) = (IF Term(l, k) < 0 THEN Across(l, k) ELSE Across(l, k) + 1)
      BY AcrossOn
    <2> QED BY <2>1, <2>2
  <1>2. PICK sx \in Int, sy \in Int : sx = l.sx /\ sy = l.sy
    BY DEF LineRegs
  <1>3. l.x \in Int /\ l.y \in Int /\ l.steep \in BOOLEAN
    BY DEF LineRegs
  <1>4. sx * (k + 1) = sx * k + sx /\ sy * (k + 1) = sy * k + sy /\ sx * (A + 1) = sx * A + sx /\ sy * (A + 1) = sy * A + sy
    OBVIOUS
  <1>5. sx * k \in Int /\ sy * k \in Int /\ sx * A \in Int /\ sy * A \in Int
    OBVIOUS
  <1>6. /\ Dot(l, k)[1] = (IF l.steep THEN l.x + sx * A ELSE l.x + sx * k)
        /\ Dot(l, k)[2] = (IF l.steep THEN l.y + sy * k ELSE l.y + sy * A)
        /\ Dot(l, k + 1)[1] = (IF l.steep THEN l.x + sx * B ELSE l.x + sx * (k + 1))
        /\ Dot(l, k + 1)[2] = (IF l.steep THEN l.y + sy * (k + 1) ELSE l.y + sy * B)
    BY <1>1, <1>2 DEF Dot
  <1>7. Level(l, k + 1) <=> ~(l.steep \/ ~(Term(l, k) < 0))
    <2>1. (k + 1) - 1 = k /\ k + 1 > 0 /\ k + 1 # k /\ A + 1 # A
      OBVIOUS
    <2> QED BY <1>1, <1>3, <2>1 DEF Level, Height
  <1>8. Dot(l, k + 1)[1] = IF ~l.steep \/ ~(Term(l, k) < 0) THEN Dot(l, k)[1] + sx ELSE Dot(l, k)[1]
    <2>1. CASE l.steep
      <3>1. Dot(l, k)[1] = l.x + sx * A /\ Dot(l, k + 1)[1] = l.x + sx * B
        BY <1>6, <2>1
      <3>2. Term(l, k) < 0 => B = A
        BY <1>1
      <3>3. ~(Term(l, k) < 0) => sx * B = sx * A + sx
        BY <1>1, <1>4
      <3>4. ~(Term(l, k) < 0) => l.x + sx * B = (l.x + sx * A) + sx
        BY <1>3, <1>5, <3>3
      <3> QED BY <2>1, <3>1, <3>2, <3>4
    <2>2. CASE ~l.steep
      <3>1. Dot(l, k)[1] = l.x + sx * k /\ Dot(l, k + 1)[1] = l.x + sx * (k + 1)
        BY <1>6, <2>2
      <3>2. l.x + sx * (k + 1) = (l.x + sx * k) + sx
        BY <1>3, <1>4, <1>5
      <3> QED BY <2>2, <3>1, <3>2
    <2> QED BY <2>1, <2>2
  <1>9. Dot(l, k + 1)[2] = IF l.steep \/ ~(Term(l, k) < 0) THEN Dot(l, k)[2] + sy ELSE Dot(l, k)[2]
    <2>1. CASE ~l.steep
      <3>1. Dot(l, k)[2] = l.y + sy * A /\ Dot(l, k + 1)[2] = l.y + sy * B
        BY <1>6, <2>1
      <3>2. Term(l, k) < 0 => B = A
        BY <1>1
      <3>3. ~(Term(l, k) < 0) => sy * B = sy * A + sy
        BY <1>1, <1>4
      <3>4. ~(Term(l, k) < 0) => l.y + sy * B = (l.y + sy * A) + sy
        BY <1>3, <1>5, <3>3
      <3> QED BY <2>1, <3>1, <3>2, <3>4
    <2>2. CASE l.steep
      <3>1. Dot(l, k)[2] = l.y + sy * k /\ Dot(l, k + 1)[2] = l.y + sy * (k + 1)
        BY <1>6, <2>2
      <3>2. l.y + sy * (k + 1) = (l.y + sy * k) + sy
        BY <1>3, <1>4, <1>5
      <3> QED BY <2>2, <3>1, <3>2
    <2> QED BY <2>1, <2>2
  <1> QED BY <1>2, <1>7, <1>8, <1>9

\* A line on its way is at its k-th dot.
AtDot(l, s, k) ==
  /\ s.cpt = Dot(l, k)[2] * l.mod + 2 * (Dot(l, k)[1] \div W) /\ s.ash = Dot(l, k)[1] % W
  /\ s.acc = Term(l, k) /\ (s.sign <=> Term(l, k) < 0) /\ (s.dotted <=> Level(l, k))

\* What is drawn of the lines programmed.
Drawing(l) == l \in LineRegs /\ Drawable(l)

\* What such a line has.
LEMMA DrawingIs ==
  ASSUME NEW l, Drawing(l)
  PROVE  /\ l \in LineRegs /\ l.major > 0 /\ l.minor <= l.major /\ l.mod \in Nat /\ l.mod > 0 /\ l.mod % 2 = 0
         /\ l.major \in Nat /\ l.minor \in Nat /\ \A k \in 0..l.major : Dot(l, k) \in Canvas(l.mod)
  <1>1. l \in LineRegs /\ l.major > 0 /\ l.minor <= l.major /\ l.mod > 0 /\ l.mod % 2 = 0 /\ \A k \in 0..l.major : Dot(l, k) \in Canvas(l.mod)
    BY DEF Drawing, Drawable
  <1>2. l.mod \in Int /\ l.major \in Nat /\ l.minor \in Nat
    BY <1>1 DEF LineRegs
  <1>3. l.mod \in Nat
    BY <1>1, <1>2
  <1> QED BY <1>1, <1>2, <1>3

\* It begins at its first dot.
LEMMA BeginsAt ==
  ASSUME NEW l, Drawing(l), NEW m
  PROVE  AtDot(l, Begun(l, m, [c \in Channel |-> l.cpt]), 0)
  <1>1. l \in LineRegs /\ l.major \in Nat /\ l.major > 0 /\ l.minor \in Nat /\ l.mod \in Nat /\ l.mod % 2 = 0
    BY DrawingIs
  <1>2. /\ l.cpt = l.y * l.mod + 2 * (l.x \div W) /\ l.ash = l.x % W
        /\ l.acc = 2 * l.minor - l.major /\ l.sign = (l.acc < 0) /\ l.x \in Nat /\ l.y \in Nat /\ l.sx \in Int /\ l.sy \in Int
    BY DEF Drawing, Drawable, LineRegs
  <1>3. PICK M \in Nat, N \in Nat : M = l.major /\ N = l.minor /\ M > 0
    BY <1>1
  <1>4. Across(l, 0) = 0
    <2>1. PICK A \in Nat : A = Across(l, 0) /\ 2 * M * A <= 2 * 0 * N + M
      <3>1. PICK z \in Nat : z = 0
        OBVIOUS
      <3>2. Across(l, z) \in Nat /\ 2 * l.major * Across(l, z) <= 2 * z * l.minor + l.major
        BY <1>1, AcrossIs
      <3> QED BY <1>3, <3>1, <3>2
    <2>2. ASSUME A # 0 PROVE FALSE
      <3>1. PICK e \in Nat : A = e + 1
        <4>1. A - 1 \in Nat /\ A = (A - 1) + 1
          BY <2>2
        <4> QED BY <4>1
      <3>2. 2 * M * A = 2 * M + 2 * (M * e) /\ M * e \in Nat /\ 2 * 0 * N = 0
        BY <3>1
      <3> QED BY <1>3, <2>1, <3>2
    <2> QED BY <2>1, <2>2
  <1>5. Dot(l, 0)[1] = l.x /\ Dot(l, 0)[2] = l.y
    <2>1. \A z \in Int : z * 0 = 0 /\ z + 0 = z
      OBVIOUS
    <2> QED BY <1>2, <1>4, <2>1 DEF Dot
  <1>6. Term(l, 0) = l.acc
    <2>1. 2 * (0 + 1) * N = 2 * N /\ 2 * M * 0 = 0
      OBVIOUS
    <2> QED BY <1>2, <1>3, <1>4, <2>1 DEF Term
  <1>7. l.cpt - (l.cpt % 2) = l.cpt
    <2>1. PICK h \in Nat : l.mod = 2 * h
      <3>1. PICK n \in Nat : n = l.mod /\ n % 2 = 0
        BY <1>1
      <3>2. (n \div 2) \in Nat /\ n = 2 * (n \div 2) + (n % 2)
        OBVIOUS
      <3> QED BY <3>1, <3>2
    <2>2. PICK c \in Nat : c = l.x \div W
      BY <1>2, BitPlace
    <2>3. PICK t \in Nat : t = l.y * h + c
      BY <1>2
    <2>4. l.cpt = 2 * t
      <3>1. l.y * (2 * h) = 2 * (l.y * h) /\ l.y * h \in Nat
        BY <1>2
      <3> QED BY <1>2, <2>1, <2>2, <2>3, <3>1
    <2>5. (2 * t) % 2 = 0 /\ 2 * t - 0 = 2 * t
      OBVIOUS
    <2> QED BY <2>4, <2>5
  <1>8. Even([c \in Channel |-> l.cpt])["C"] = l.cpt
    BY <1>7 DEF Even, Channel
  <1>9. ~Level(l, 0)
    BY DEF Level
  <1> QED BY <1>2, <1>5, <1>6, <1>8, <1>9 DEF AtDot, Begun

\* A step goes on to the next dot.
LEMMA StepGoesOn ==
  ASSUME NEW l, Drawing(l), NEW s \in Steps, NEW k \in Nat, k < l.major, AtDot(l, s, k)
  PROVE  AtDot(l, LineStep(l, s), k + 1)
  <1>1. /\ l \in LineRegs /\ l.major \in Nat /\ l.major > 0 /\ l.minor \in Nat /\ l.minor <= l.major /\ l.mod \in Nat /\ l.mod > 0 /\ l.mod % 2 = 0
        /\ k \in 0..l.major /\ k + 1 \in 0..l.major
    <2>1. /\ l \in LineRegs /\ l.major \in Nat /\ l.major > 0 /\ l.minor \in Nat /\ l.minor <= l.major /\ l.mod \in Nat /\ l.mod > 0 /\ l.mod % 2 = 0
      BY DrawingIs
    <2> QED BY <2>1
  <1>2. Dot(l, k) \in Canvas(l.mod) /\ Dot(l, k + 1) \in Canvas(l.mod)
    BY <1>1, DrawingIs
  <1>3. PICK x \in Nat, y \in Nat, u \in Nat, v \in Nat : x = Dot(l, k)[1] /\ y = Dot(l, k)[2] /\ u = Dot(l, k + 1)[1] /\ v = Dot(l, k + 1)[2]
    BY <1>1, <1>2, DotIs
  <1> DEFINE goes == ~(Term(l, k) < 0)
             movesX == l.sud \/ ~s.sign
             movesY == ~l.sud \/ ~s.sign
             left   == IF l.sud THEN l.aul ELSE l.sul
             up     == IF l.sud THEN l.sul ELSE l.aul
             across == IF ~movesX THEN 0
                       ELSE IF left THEN (IF s.ash = 0 THEN -2 ELSE 0)
                       ELSE (IF s.ash = W - 1 THEN 2 ELSE 0)
             down   == IF ~movesY THEN 0 ELSE IF up THEN -l.mod ELSE l.mod
             turned == IF ~movesX THEN s.ash ELSE (s.ash + (IF left THEN -1 ELSE 1)) % W
             acc    == s.acc + (IF s.sign THEN l.small ELSE l.large)
             t      == LineStep(l, s)
  <1>4. /\ t.cpt = s.cpt + across + down /\ t.ash = turned /\ t.acc = acc /\ t.sign = (acc < 0) /\ t.dotted = ~movesY
    BY DEF LineStep
  <1>5. /\ s.cpt = y * l.mod + 2 * (x \div W) /\ s.ash = x % W
        /\ s.acc = Term(l, k) /\ (s.sign <=> Term(l, k) < 0)
    BY <1>3 DEF AtDot
  <1>6. /\ l.small = 2 * l.minor /\ l.large = 2 * (l.minor - l.major) /\ l.sud = ~l.steep
        /\ l.sul = (IF l.steep THEN l.sx < 0 ELSE l.sy < 0) /\ l.aul = (IF l.steep THEN l.sy < 0 ELSE l.sx < 0)
        /\ l.steep \in BOOLEAN /\ l.sx \in {-1, 1} /\ l.sy \in {-1, 1}
    BY <1>1 DEF Drawing, Drawable, LineRegs
  <1>7. /\ u = (IF ~l.steep \/ goes THEN x + l.sx ELSE x) /\ v = (IF l.steep \/ goes THEN y + l.sy ELSE y)
        /\ Level(l, k + 1) <=> ~(l.steep \/ goes)
    BY <1>1, <1>3, DotOn
  <1>8. (movesX <=> ~l.steep \/ goes) /\ (movesY <=> l.steep \/ goes) /\ (left <=> l.sx < 0) /\ (up <=> l.sy < 0)
    BY <1>5, <1>6
  <1>9. acc = Term(l, k + 1)
    <2>1. Term(l, k + 1) = Term(l, k) + (IF Term(l, k) < 0 THEN 2 * l.minor ELSE 2 * (l.minor - l.major))
      BY <1>1, AcrossOn
    <2> QED BY <1>5, <1>6, <2>1
  <1> HIDE DEF movesX, movesY, left, up, goes, acc, t
  <1>10. v * l.mod = y * l.mod + down /\ down \in Int /\ y * l.mod \in Int
    <2>1. PICK h \in Nat : h = l.mod
      BY <1>1
    <2>2. CASE ~movesY
      <3>1. v = y /\ down = 0
        BY <1>7, <1>8, <2>2
      <3> QED BY <2>1, <3>1
    <2>3. CASE movesY /\ up
      <3>1. l.sy + 1 = 0 /\ down = -h /\ v = y + l.sy
        BY <1>6, <1>7, <1>8, <2>1, <2>3
      <3>2. PICK sy \in Int : sy = l.sy
        BY <1>6
      <3>3. (v + 1) * h = v * h + h /\ v + 1 = y /\ v * h \in Int
        BY <3>1, <3>2
      <3>4. v * h = y * h + -h
        BY <3>3
      <3> QED BY <2>1, <3>1, <3>4
    <2>4. CASE movesY /\ ~up
      <3>1. v = y + 1 /\ down = h
        BY <1>6, <1>7, <1>8, <2>1, <2>4
      <3>2. (y + 1) * h = y * h + h /\ y * h \in Int
        OBVIOUS
      <3> QED BY <2>1, <3>1, <3>2
    <2> QED BY <2>2, <2>3, <2>4
  <1>11. PICK c \in Nat, e \in Nat : c = x \div W /\ e = u \div W
    BY BitPlace
  <1>12. 2 * e = 2 * c + across /\ across \in Int /\ turned = u % W
    <2>1. CASE ~movesX
      <3>1. u = x /\ across = 0 /\ turned = s.ash
        BY <1>7, <1>8, <2>1
      <3> QED BY <1>5, <1>11, <3>1
    <2>2. CASE movesX /\ left
      <3>1. x = u + 1 /\ across = (IF s.ash = 0 THEN -2 ELSE 0) /\ turned = (s.ash + -1) % W
        BY <1>6, <1>7, <1>8, <2>2
      <3>2. u \div W = (IF x % W = 0 THEN (x \div W) - 1 ELSE x \div W) /\ u % W = ((x % W) + -1) % W
        BY <3>1, ColumnBack
      <3>3. e = (IF s.ash = 0 THEN c - 1 ELSE c) /\ u % W = turned
        BY <1>5, <1>11, <3>1, <3>2
      <3> HIDE DEF across, turned
      <3> QED BY <3>1, <3>3
    <2>3. CASE movesX /\ ~left
      <3>1. u = x + 1 /\ across = (IF s.ash = W - 1 THEN 2 ELSE 0) /\ turned = (s.ash + 1) % W
        BY <1>6, <1>7, <1>8, <2>3
      <3>2. (x + 1) \div W = (IF x % W = W - 1 THEN (x \div W) + 1 ELSE x \div W) /\ (x + 1) % W = ((x % W) + 1) % W
        BY ColumnOn
      <3>3. e = (IF s.ash = W - 1 THEN c + 1 ELSE c) /\ u % W = turned
        BY <1>5, <1>11, <3>1, <3>2
      <3> HIDE DEF across, turned
      <3> QED BY <3>1, <3>3
    <2> QED BY <2>1, <2>2, <2>3
  <1> HIDE DEF across, down, turned
  <1>13. t.cpt = v * l.mod + 2 * e
    BY <1>4, <1>5, <1>10, <1>11, <1>12
  <1>14. t.dotted <=> Level(l, k + 1)
    BY <1>4, <1>7, <1>8
  <1> QED BY <1>3, <1>4, <1>9, <1>11, <1>12, <1>13, <1>14 DEF AtDot, t

\* With the pen's one dot, the minterm that sets it sets the dot of the line, or that of a row not begun.
LEMMA PenDraws ==
  ASSUME NEW ash \in Bits, NEW word \in SUBSET Bits
  PROVE  Minterm({i \in Bits : i + ash \in {W - 1}}, Bits, word, {1, 3, 6, 7}) = word \cup {W - 1 - ash}
  <1>1. W \in Nat /\ ash \in Nat /\ ash < W /\ W - 1 - ash \in Bits
    BY BlitterAssumed DEF Bits, BlitterAssumption
  <1>2. {i \in Bits : i + ash \in {W - 1}} = {W - 1 - ash}
    BY <1>1 DEF Bits
  <1>3. PICK v \in Bits : v = W - 1 - ash
    BY <1>1
  <1>4. ASSUME NEW i \in Bits PROVE (4 * Bit({v}, i) + 2 * Bit(Bits, i) + Bit(word, i) \in {1, 3, 6, 7}) <=> (i \in word \/ i = v)
    <2>1. Bit(Bits, i) = 1
      BY DEF Bit
    <2>2. CASE i = v
      <3>1. Bit({v}, i) = 1 /\ Bit(word, i) \in {0, 1}
        BY <2>2 DEF Bit
      <3> QED BY <2>1, <2>2, <3>1
    <2>3. CASE i # v /\ i \in word
      <3>1. Bit({v}, i) = 0 /\ Bit(word, i) = 1
        BY <2>3 DEF Bit
      <3> QED BY <2>1, <2>3, <3>1
    <2>4. CASE i # v /\ i \notin word
      <3>1. Bit({v}, i) = 0 /\ Bit(word, i) = 0
        BY <2>4 DEF Bit
      <3> QED BY <2>1, <2>4, <3>1
    <2> QED BY <2>2, <2>3, <2>4
  <1>5. Minterm({v}, Bits, word, {1, 3, 6, 7}) = word \cup {v}
    BY <1>4 DEF Minterm
  <1> QED BY <1>2, <1>3, <1>5

\* A step draws its dot, unless the row has one and is to have no more.
LEMMA StepDraws ==
  ASSUME NEW l, Drawing(l), NEW s \in Steps, NEW k \in 0..l.major, AtDot(l, s, k)
  PROVE  Lit(LineStep(l, s).mem, l.mod) = Lit(s.mem, l.mod) \cup (IF Inks(l, k) THEN {Dot(l, k)} ELSE {})
  <1>1. /\ l \in LineRegs /\ l.major \in Nat /\ l.major > 0 /\ l.minor \in Nat /\ l.minor <= l.major /\ l.mod \in Nat /\ l.mod > 0 /\ l.mod % 2 = 0
        /\ Dot(l, k) \in Canvas(l.mod) /\ k \in Nat /\ l.pen = {W - 1} /\ l.lf = {1, 3, 6, 7}
    BY DrawingIs DEF Drawing, Drawable
  <1>2. PICK d \in Canvas(l.mod) : d = Dot(l, k)
    BY <1>1
  <1>3. PICK x \in Nat, y \in Nat, h \in Nat, c \in Nat : x = d[1] /\ y = d[2] /\ h = l.mod \div 2 /\ l.mod = 2 * h /\ c = x \div W
    <2>1. d[1] \in Nat /\ d[2] \in Nat /\ (l.mod \div 2) \in Nat /\ l.mod = 2 * (l.mod \div 2) /\ (d[1] \div W) \in Nat
      BY <1>1, DotIs
    <2> QED BY <2>1
  <1>4. s.cpt = y * l.mod + 2 * c /\ s.ash = x % W /\ (s.dotted <=> Level(l, k)) /\ s.mem \in Mems /\ s.ash \in Bits
    BY <1>2, <1>3 DEF AtDot, Steps
  <1>5. s.cpt \div 2 = Cell(d, l.mod)
    <2>1. PICK t \in Nat : t = y * h + c /\ s.cpt = 2 * t
      <3>1. y * (2 * h) = 2 * (y * h) /\ y * h \in Nat
        OBVIOUS
      <3> QED BY <1>3, <1>4, <3>1
    <2>2. (2 * t) \div 2 = t
      OBVIOUS
    <2> QED BY <1>3, <2>1, <2>2 DEF Cell
  <1>6. Cell(d, l.mod) \in 0..Words - 1 /\ Slot(d) = W - 1 - s.ash
    BY <1>1, <1>3, <1>4, DotIs DEF Slot
  <1>7. Stored(s.mem, s.cpt, Minterm({i \in Bits : i + s.ash \in l.pen}, Bits, WordAt(s.mem, s.cpt), l.lf))
          = [s.mem EXCEPT ![Cell(d, l.mod)] = s.mem[Cell(d, l.mod)] \cup {Slot(d)}]
    <2>1. WordAt(s.mem, s.cpt) = s.mem[Cell(d, l.mod)] /\ s.mem[Cell(d, l.mod)] \in SUBSET Bits
      BY <1>4, <1>5, <1>6 DEF WordAt, Mems
    <2>2. Minterm({i \in Bits : i + s.ash \in l.pen}, Bits, WordAt(s.mem, s.cpt), l.lf) = s.mem[Cell(d, l.mod)] \cup {Slot(d)}
      BY <1>1, <1>4, <1>6, <2>1, PenDraws
    <2>3. s.cpt \div 2 \in DOMAIN s.mem
      BY <1>4, <1>5, <1>6 DEF Mems
    <2> QED BY <1>5, <2>2, <2>3 DEF Stored
  <1>8. LineStep(l, s).mem = IF l.single /\ s.dotted THEN s.mem
                             ELSE Stored(s.mem, s.cpt, Minterm({i \in Bits : i + s.ash \in l.pen}, Bits, WordAt(s.mem, s.cpt), l.lf))
    BY DEF LineStep
  <1>9. Inks(l, k) <=> ~(l.single /\ s.dotted)
    BY <1>1, <1>4, InksIs
  <1>10. Lit([s.mem EXCEPT ![Cell(d, l.mod)] = s.mem[Cell(d, l.mod)] \cup {Slot(d)}], l.mod) = Lit(s.mem, l.mod) \cup {d}
    BY <1>1, <1>4, DotLights
  <1> QED BY <1>2, <1>7, <1>8, <1>9, <1>10

\* The dots kept of the first so many.
Inked(l, n) == {Dot(l, j) : j \in {i \in 0..n - 1 : Inks(l, i)}}

\* A line of all its dots draws them, and leaves the rest of the picture as it was.
LEMMA LineDraws ==
  ASSUME NEW l, Drawing(l), NEW m \in Mems
  PROVE  Lit(Line(l, m, [c \in Channel |-> l.cpt], l.major + 1).mem, l.mod) = Lit(m, l.mod) \cup Dots(l)
  <1>1. l \in LineRegs /\ l.major \in Nat
    BY DrawingIs
  <1> DEFINE p == [c \in Channel |-> l.cpt]
  <1>2. PICK n \in Nat : n = l.major + 1 /\ l.major = n - 1
    BY <1>1
  <1>3. p \in [Channel -> Int]
    BY <1>1 DEF LineRegs
  <1>4. PICK f : Lined(f, l, m, p, n) /\ Line(l, m, p, n) = f[n]
    BY <1>1, <1>3, LineIs
  <1> HIDE DEF p
  <1> DEFINE Good(k) == /\ k < n => AtDot(l, f[k], k)
                        /\ Lit(f[k].mem, l.mod) = Lit(m, l.mod) \cup Inked(l, k)
             S == {k \in Nat : k <= n => Good(k)}
  <1>5. 0 \in S
    <2>1. f[0] = Begun(l, m, p)
      BY <1>4 DEF Lined
    <2>2. AtDot(l, f[0], 0)
      BY <2>1, BeginsAt DEF p
    <2>3. f[0].mem = m /\ Inked(l, 0) = {}
      BY <2>1 DEF Begun, Inked
    <2> QED BY <2>2, <2>3
  <1>6. ASSUME NEW k \in Nat, k \in S PROVE k + 1 \in S
    <2> SUFFICES ASSUME k + 1 <= n PROVE Good(k + 1)
      OBVIOUS
    <2>1. k + 1 \in 1..n /\ (k + 1) - 1 = k /\ k <= n /\ k < n /\ k \in 0..n /\ k \in 0..l.major
      BY <1>1, <1>2
    <2>2. f[k] \in Steps /\ f[k + 1] = LineStep(l, f[k])
      BY <1>4, <2>1 DEF Lined
    <2>3. AtDot(l, f[k], k) /\ Lit(f[k].mem, l.mod) = Lit(m, l.mod) \cup Inked(l, k)
      BY <1>6, <2>1
    <2>4. Lit(f[k + 1].mem, l.mod) = Lit(f[k].mem, l.mod) \cup (IF Inks(l, k) THEN {Dot(l, k)} ELSE {})
      BY <2>1, <2>2, <2>3, StepDraws
    <2>5. Inked(l, k + 1) = Inked(l, k) \cup (IF Inks(l, k) THEN {Dot(l, k)} ELSE {})
      <3>1. 0..(k + 1) - 1 = (0..k - 1) \cup {k}
        OBVIOUS
      <3> QED BY <3>1 DEF Inked
    <2>6. k + 1 < n => AtDot(l, f[k + 1], k + 1)
      <3> SUFFICES ASSUME k + 1 < n PROVE AtDot(l, f[k + 1], k + 1)
        OBVIOUS
      <3>1. k < l.major
        BY <1>2
      <3> QED BY <2>2, <2>3, <3>1, StepGoesOn
    <2> QED BY <2>3, <2>4, <2>5, <2>6
  <1> HIDE DEF S
  <1>7. n \in S
    BY <1>5, <1>6, Induction
  <1>8. Lit(f[n].mem, l.mod) = Lit(m, l.mod) \cup Inked(l, n)
    BY <1>7 DEF S
  <1>9. Inked(l, n) = Dots(l)
    BY <1>2 DEF Inked, Dots, Inks
  <1> QED BY <1>2, <1>4, <1>8, <1>9 DEF p

\* A line drawn in one blit is straight.
LEMMA LinesDraw == ASSUME DrawnInv PROVE LinesAreStraight
  <1> SUFFICES ASSUME prog.kind = "line", blits = 1, rows = prog.with.major + 1
               PROVE  Lit(mem, prog.with.mod) = Lit(origin.mem, prog.with.mod) \cup Dots(origin.with)
    BY DEF LinesAreStraight
  <1> DEFINE l == origin.with
  <1>1. /\ l \in Lines /\ origin.mem \in Mems /\ origin.pt = [c \in Channel |-> l.cpt]
        /\ prog.with.mod = l.mod /\ prog.with.major = l.major /\ mem = Line(l, origin.mem, origin.pt, rows).mem
    BY DEF DrawnInv, LineDrawn
  <1>2. Drawing(l)
    BY <1>1, BlitterAssumed, DrawingAssumed DEF BlitterAssumption, Drawing
  <1> HIDE DEF l
  <1>3. Lit(Line(l, origin.mem, [c \in Channel |-> l.cpt], l.major + 1).mem, l.mod) = Lit(origin.mem, l.mod) \cup Dots(l)
    BY <1>1, <1>2, LineDraws
  <1> QED BY <1>1, <1>3 DEF l

\* Everything the blitter promises of its drawing follows.
LEMMA DrawsAsAsked == DrawnInv => TypeOK /\ ChainedIsOne /\ DrawsWhatIsAsked
  BY BlitSafe, CopiesShift, FillsLight, LinesDraw DEF DrawnInv, DrawsWhatIsAsked

-----------------------------------------------------------------------------
(* The benches. *)

\* The invariants, each of its own bench.
BenchWindowInv == bench = "window" => WindowInv
BenchPortsInv == bench \in {"registers", "timer", "hands"} => PortsInv
BenchPaulaInv == bench = "paula" => PaulaInv
BenchBackendInv == bench = "backend" => BackendInv
BenchPacingInv == bench = "pacing" => PacingInv
BenchBlitInv == bench = "blitter" => DrawnInv

\* All variables of the instance.
OnBench == <<bench, vars, chips, host>>

\* A bench starts in its component's initial states.
LEMMA StartsRight ==
  DevInit => BenchWindowInv /\ BenchPortsInv /\ BenchPaulaInv /\ BenchBackendInv /\ BenchPacingInv
  <1> SUFFICES ASSUME DevInit
               PROVE  BenchWindowInv /\ BenchPortsInv /\ BenchPaulaInv /\ BenchBackendInv /\ BenchPacingInv
    OBVIOUS
  <1>1. BenchWindowInv
    BY WindowStarts DEF DevInit, BenchWindowInv
  <1>2. BenchPortsInv
    BY PortsStart DEF DevInit, BenchPortsInv
  <1>3. BenchPaulaInv
    BY PaulaStarts DEF DevInit, BenchPaulaInv
  <1>4. ASSUME bench = "backend" PROVE Lived /\ Shaped
    <2>1. H!Init
      BY DEF DevInit
    <2>2. wideMode \in Shapes
      BY <1>4 DEF DevInit, Only
    <2> QED BY <2>1, <2>2, LivedStarts, ShapedStarts
  <1>5. BenchBackendInv
    BY <1>4 DEF BenchBackendInv, BackendInv
  <1>6. BenchPacingInv
    BY PacingStarts DEF DevInit, BenchPacingInv
  <1> QED BY <1>1, <1>2, <1>3, <1>5, <1>6

\* A step of the instance is a step of the bench that runs: the window's,
LEMMA WindowGoesOn ==
  ASSUME Survived, BenchWindowInv, [DevNext]_OnBench
  PROVE  BenchWindowInv'
  <1>1. ASSUME bench' = "window" PROVE WindowInv'
    <2>1. bench = "window"
      BY <1>1 DEF DevNext, OnBench
    <2>2. V!Next \/ UNCHANGED flight
      BY <2>1 DEF DevNext, host, OnBench
    <2>3. [V!Next]_(V!vars)
      BY <2>2 DEF flight, V!vars
    <2> QED BY <2>1, <2>3, WindowSteps DEF BenchWindowInv
  <1> QED BY <1>1 DEF BenchWindowInv

\* the blitter's,
LEMMA BlitGoesOn ==
  ASSUME BenchBlitInv, [DevNext]_OnBench
  PROVE  BenchBlitInv'
  <1>1. ASSUME bench' = "blitter" PROVE DrawnInv'
    <2>1. bench = "blitter"
      BY <1>1 DEF DevNext, OnBench
    <2>2. Next \/ UNCHANGED vars
      BY <2>1 DEF DevNext, OnBench
    <2> QED BY <2>1, <2>2, DrawnKeeps DEF BenchBlitInv
  <1> QED BY <1>1 DEF BenchBlitInv

\* one of the register file's three parts,
LEMMA PortsGoOn ==
  ASSUME BenchPortsInv, [DevNext]_OnBench
  PROVE  BenchPortsInv'
  <1>1. ASSUME bench' \in {"registers", "timer", "hands"} PROVE PortsInv'
    <2>1. bench \in {"registers", "timer", "hands"}
      BY <1>1 DEF DevNext, OnBench
    <2>2. R!Registers \/ R!CiaB \/ R!Outside \/ UNCHANGED ports
      BY <2>1 DEF DevNext, chips, OnBench
    <2>3. R!Next \/ UNCHANGED R!vars
      BY <2>2 DEF ports, R!vars, R!Next, R!chips, R!hands
    <2> QED BY <2>1, <2>3, PortsStep DEF BenchPortsInv
  <1> QED BY <1>1 DEF BenchPortsInv

\* the sound's,
LEMMA PaulaGoesOn ==
  ASSUME BenchPaulaInv, [DevNext]_OnBench
  PROVE  BenchPaulaInv'
  <1>1. ASSUME bench' = "paula" PROVE PaulaInv'
    <2>1. bench = "paula"
      BY <1>1 DEF DevNext, OnBench
    <2>2. P!Next \/ UNCHANGED paula
      BY <2>1 DEF DevNext, chips, OnBench
    <2>3. P!Next \/ UNCHANGED P!vars
      BY <2>2 DEF paula, P!vars
    <2> QED BY <2>1, <2>3, PaulaSteps DEF BenchPaulaInv
  <1> QED BY <1>1 DEF BenchPaulaInv

\* the frame clock's,
LEMMA PacingGoesOn ==
  ASSUME BenchPacingInv, [DevNext]_OnBench
  PROVE  BenchPacingInv'
  <1>1. ASSUME bench' = "pacing" PROVE PacingInv'
    <2>1. bench = "pacing"
      BY <1>1 DEF DevNext, OnBench
    <2>2. F!Next \/ UNCHANGED pacing
      BY <2>1 DEF DevNext, host, OnBench
    <2>3. F!Next \/ UNCHANGED F!vars
      BY <2>2 DEF pacing, F!vars, F!clock
    <2> QED BY <2>1, <2>3, PacingSteps DEF BenchPacingInv
  <1> QED BY <1>1 DEF BenchPacingInv

\* the backends'.
LEMMA BackendGoesOn ==
  ASSUME BenchBackendInv, [DevNext]_OnBench
  PROVE  BenchBackendInv'
  <1>1. ASSUME bench' = "backend" PROVE BackendInv'
    <2>1. bench = "backend"
      BY <1>1 DEF DevNext, OnBench
    <2>2. H!Next \/ UNCHANGED owning
      BY <2>1 DEF DevNext, host, OnBench
    <2>3. H!Next \/ UNCHANGED H!vars
      BY <2>2 DEF owning, H!vars, H!objects, H!size
    <2> QED BY <2>1, <2>3, LivedSteps, ShapedSteps DEF BenchBackendInv, BackendInv
  <1> QED BY <1>1 DEF BenchBackendInv

-----------------------------------------------------------------------------
(* The theorems. *)

\* The invariant of a present, for any number of presents, resizes, failed images and failed acquires
\* (vulkan_present, sw_rebuild).
THEOREM WindowInvariant == ASSUME Survived PROVE DevSpec => []BenchWindowInv
  <1>1. DevInit => BenchWindowInv
    BY StartsRight
  <1>2. BenchWindowInv /\ [DevNext]_<<bench, vars, chips, host>> => BenchWindowInv'
    BY WindowGoesOn DEF OnBench
  <1> QED BY <1>1, <1>2, PTL DEF DevSpec

\* Nothing the GPU uses is destroyed and fence and semaphore are never waited for or signalled in vain,
\* for every set of sizes and contents and any number of failing calls that the code survives.
THEOREM VulkanHolds == ASSUME Survived PROVE DevSpec => []VulkanSafe
  <1>1. BenchWindowInv => VulkanSafe
    BY WindowSafe DEF BenchWindowInv, VulkanSafe
  <1> QED BY <1>1, WindowInvariant, PTL

\* The register file's invariant, for every set of pointers, bytes and lines.
THEOREM PortsInvariant == DevSpec => []BenchPortsInv
  <1>1. DevInit => BenchPortsInv
    BY StartsRight
  <1>2. BenchPortsInv /\ [DevNext]_<<bench, vars, chips, host>> => BenchPortsInv'
    BY PortsGoOn DEF OnBench
  <1> QED BY <1>1, <1>2, PTL DEF DevSpec

\* Guest code finds in its registers what it and the host have put there, for every set of pointers and
\* bytes and every frame (hw_write16, hw_write8, hw_read16, the CIA).
THEOREM CoherentHolds == DevSpec => []Coherent
  <1>1. BenchPortsInv => Coherent
    BY PortsSafe DEF BenchPortsInv, Coherent
  <1> QED BY <1>1, PortsInvariant, PTL

\* The sound's invariant, for every set of sounds, buffers, periods, rates and frames (hw_audio_render).
THEOREM PaulaInvariant == DevSpec => []BenchPaulaInv
  <1>1. DevInit => BenchPaulaInv
    BY StartsRight
  <1>2. BenchPaulaInv /\ [DevNext]_<<bench, vars, chips, host>> => BenchPaulaInv'
    BY PaulaGoesOn DEF OnBench
  <1> QED BY <1>1, <1>2, PTL DEF DevSpec

\* The loops of hw_audio_render that take bytes while there is time are modelled with as many turns as fit: no
\* voice or channel that sounds has a byte's time left after them, so the model leaves out no turn.
THEOREM TurnsSuffice ==
  /\ \A v \in Playing : P!VoiceSample(v).on => P!VoiceSample(v).tick < P!Step(v.of.per)
  /\ \A d \in Reading, r \in RegFiles : P!Sample(d, r).on => P!Sample(d, r).tick < P!Step(r.per)
  BY VoiceSampleKeeps, ChannelSampleKeeps

\* Effects are heard to their end, channels stopped by DMACON are silent, and a frame is rendered whole,
\* for every set of sounds and periods and every number of ticks.
THEOREM SoundHolds == DevSpec => []Sound
  <1>1. BenchPaulaInv => Sound
    BY PaulaSafe DEF BenchPaulaInv, Sound
  <1> QED BY <1>1, PaulaInvariant, PTL

\* The backends' invariant, for every set of windows and any number of failing calls, those whose
\* results vulkan_init asks for and those it goes on after (hw_init, hw_fini).
THEOREM BackendInvariant == DevSpec => []BenchBackendInv
  <1>1. DevInit => BenchBackendInv
    BY StartsRight
  <1>2. BenchBackendInv /\ [DevNext]_<<bench, vars, chips, host>> => BenchBackendInv'
    BY BackendGoesOn DEF OnBench
  <1> QED BY <1>1, <1>2, PTL DEF DevSpec

\* Objects are made after what they are made of and destroyed before it, by whichever backend and
\* however far an init got; a backend that runs lacks only what calls nothing was asked about should have made,
\* or half a base, and without that nothing undefined is drawn; and the output's width is what the
\* setting gives for the window, for every size of window and desktop.
THEOREM BackedHolds == DevSpec => []Backed
  <1>1. BenchBackendInv => Backed
    BY BackendSafe DEF BenchBackendInv, Backed
  <1> QED BY <1>1, BackendInvariant, PTL

\* The frame clock's invariant, for every set of speeds, displays, works, holds and oversleeps (FramePacer).
THEOREM PacingInvariant == DevSpec => []BenchPacingInv
  <1>1. DevInit => BenchPacingInv
    BY StartsRight
  <1>2. BenchPacingInv /\ [DevNext]_<<bench, vars, chips, host>> => BenchPacingInv'
    BY PacingGoesOn DEF OnBench
  <1> QED BY <1>1, <1>2, PTL DEF DevSpec

\* A frame is due where whole periods of the speeds it was paced at put it, less a unit for each rounding since the
\* clock was set, and is never shown before it nor more than a stall after; and a fast-forwarded game is shown and
\* heard at PAL's rate: for every speed, display, bound on the clock and number of changes (FramePacer::wait,
\* cadence_due).
THEOREM TimedHolds == DevSpec => []Timed
  <1>1. BenchPacingInv => Timed
    BY PacingSafe DEF BenchPacingInv, Timed
  <1> QED BY <1>1, PacingInvariant, PTL

\* The blitter's invariant, for every set of areas and lines, every word size and every size of memory.
THEOREM BlitInvariant == DevSpec => []BenchBlitInv
  <1>1. DevInit => BenchBlitInv
    BY DrawnStarts DEF DevInit, BenchBlitInv
  <1>2. BenchBlitInv /\ [DevNext]_<<bench, vars, chips, host>> => BenchBlitInv'
    BY BlitGoesOn DEF OnBench
  <1> QED BY <1>1, <1>2, PTL DEF DevSpec

\* Chained blits draw what one blit of all their rows draws, copies move one stream of bits by their shift, fills light
\* what lies between edges and lines are Bresenham's, for every set of areas and lines and any number of rows
\* (hw_do_blit, hw_do_line).
THEOREM DrawsHold == DevSpec => []Draws
  <1>1. BenchBlitInv => Draws
    BY DrawsAsAsked DEF BenchBlitInv, Draws
  <1> QED BY <1>1, BlitInvariant, PTL
=============================================================================
