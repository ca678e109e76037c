--------------------------- MODULE GameplayProofs ---------------------------
(* What TLAPS proves of the benches of MCGameplay, for every value of their  *)
(* constants: the player's controls, his flight, his way through the levels, *)
(* the wide view and the free camera in it.  Each has an inductive invariant *)
(* and a lemma per operation; the theorems are at the end.                   *)
EXTENDS MCGameplay, Sequences, FiniteSetTheorems, WellFoundedInduction, TLAPS
-----------------------------------------------------------------------------
(* Numbers. *)

\* The least of a set of numbers.
LEMMA Least ==
  ASSUME NEW T, T \subseteq Nat, T # {}
  PROVE  \E a \in T : \A y \in T : a <= y
  <1> DEFINE Q == OpToRel(<, Nat)
  <1>1. IsWellFoundedOn(Q, Nat)
    BY NatLessThanWellFounded
  <1>2. \A a, y \in Nat : a < y => <<a, y>> \in Q
    BY DEF OpToRel
  <1> HIDE DEF Q
  <1>3. \E a \in T : \A y \in T : ~(<<y, a>> \in Q)
    BY <1>1, WFMin
  <1>4. PICK a \in T : \A y \in T : ~(<<y, a>> \in Q)
    BY <1>3
  <1>5. ASSUME NEW y \in T PROVE a <= y
    <2>1. a \in Nat /\ y \in Nat
      OBVIOUS
    <2>2. ~(y < a)
      BY <1>2, <1>4, <2>1
    <2> QED BY <2>1, <2>2
  <1> QED BY <1>5

\* A set with 0 and every successor of its own.
LEMMA SetInduction ==
  ASSUME NEW S, 0 \in S, \A n \in Nat : n \in S => n + 1 \in S
  PROVE  Nat \subseteq S
  <1> DEFINE T == {n \in Nat : n \notin S}
  <1> SUFFICES ASSUME T # {} PROVE FALSE
    OBVIOUS
  <1>1. PICK a \in T : \A y \in T : a <= y
    BY Least
  <1>2. a \in Nat /\ a # 0
    OBVIOUS
  <1>3. a - 1 \in Nat /\ a - 1 \notin T
    BY <1>1, <1>2
  <1>4. (a - 1) + 1 \in S
    BY <1>3
  <1> QED BY <1>2, <1>4

\* The greatest of a bounded set.
LEMMA Greatest ==
  ASSUME NEW T, NEW n \in Nat, T \subseteq 0..n, T # {}
  PROVE  \E a \in T : \A y \in T : y <= a
  <1> DEFINE U == {n - y : y \in T}
  <1>1. U \subseteq Nat /\ U # {}
    <2>1. PICK y \in T : TRUE
      OBVIOUS
    <2>2. n - y \in U
      BY <2>1
    <2>3. \A v \in T : n - v \in Nat
      OBVIOUS
    <2> QED BY <2>2, <2>3
  <1>2. PICK u \in U : \A v \in U : u <= v
    BY <1>1, Least
  <1>3. PICK a \in T : u = n - a
    BY <1>2
  <1>4. ASSUME NEW y \in T PROVE y <= a
    <2>1. n - a <= n - y
      BY <1>2, <1>3
    <2> QED BY <2>1
  <1> QED BY <1>4

\* A recursion over the numbers defines a function: F[n] takes its value at n to its value at n + 1.
Steps(D) == [Nat -> [D -> D]]
Follows(D, G, z, g) == g \in [Nat -> D] /\ g[0] = z /\ \A n \in Nat : g[n + 1] = G[n][g[n]]
UpTo(D, G, z, n, g) ==
  /\ g \in [0..n -> D] /\ g[0] = z
  /\ \A v \in 1..n : g[v] = G[v - 1][g[v - 1]]

LEMMA PartsAgree ==
  ASSUME NEW D, NEW G \in [Nat -> [D -> D]], NEW z \in D, NEW n \in Nat, NEW m \in Nat, NEW g, NEW h,
         UpTo(D, G, z, n, g), UpTo(D, G, z, m, h)
  PROVE  \A k \in Nat : k <= n /\ k <= m => g[k] = h[k]
  <1> DEFINE S == {k \in Nat : k <= n /\ k <= m => g[k] = h[k]}
  <1>1. 0 \in S
    BY DEF UpTo
  <1>2. ASSUME NEW k \in Nat, k \in S PROVE k + 1 \in S
    <2>1. ASSUME k + 1 <= n, k + 1 <= m PROVE g[k + 1] = h[k + 1]
      <3>1. g[k] = h[k] /\ k + 1 \in 1..n /\ k + 1 \in 1..m /\ (k + 1) - 1 = k
        BY <1>2, <2>1
      <3> QED BY <3>1 DEF UpTo
    <2> QED BY <2>1
  <1> HIDE DEF S
  <1>3. Nat \subseteq S
    BY <1>1, <1>2, SetInduction
  <1> QED BY <1>3 DEF S

LEMMA PartsExist ==
  ASSUME NEW D, NEW G \in [Nat -> [D -> D]], NEW z \in D
  PROVE  \A n \in Nat : \E g : UpTo(D, G, z, n, g)
  <1> DEFINE S == {n \in Nat : \E g : UpTo(D, G, z, n, g)}
  <1>1. 0 \in S
    <2>1. UpTo(D, G, z, 0, [v \in 0..0 |-> z])
      BY DEF UpTo
    <2> QED BY <2>1
  <1>2. ASSUME NEW n \in Nat, n \in S PROVE n + 1 \in S
    <2>1. PICK g : UpTo(D, G, z, n, g)
      BY <1>2
    <2> DEFINE next == G[n][g[n]]
               h == [v \in 0..n + 1 |-> IF v = n + 1 THEN next ELSE g[v]]
    <2>2. next \in D
      <3>1. g[n] \in D
        BY <2>1 DEF UpTo
      <3>2. G[n] \in [D -> D]
        OBVIOUS
      <3> QED BY <3>1, <3>2
    <2> HIDE DEF next
    <2>3. h \in [0..n + 1 -> D] /\ h[0] = z
      BY <2>1, <2>2 DEF UpTo
    <2>4. ASSUME NEW v \in 1..n + 1 PROVE h[v] = G[v - 1][h[v - 1]]
      <3>1. CASE v = n + 1
        <4>1. v - 1 = n /\ n \in 0..n + 1 /\ n # n + 1
          BY <3>1
        <4> QED BY <3>1, <4>1 DEF next
      <3>2. CASE v # n + 1
        <4>1. v \in 1..n /\ v - 1 \in 0..n + 1 /\ v - 1 # n + 1 /\ v \in 0..n + 1
          BY <3>2
        <4> QED BY <2>1, <3>2, <4>1 DEF UpTo
      <3> QED BY <3>1, <3>2
    <2> HIDE DEF h
    <2>5. UpTo(D, G, z, n + 1, h)
      BY <2>3, <2>4 DEF UpTo
    <2> QED BY <2>5
  <1> HIDE DEF S
  <1>3. Nat \subseteq S
    BY <1>1, <1>2, SetInduction
  <1> QED BY <1>3 DEF S

LEMMA RecursionExists ==
  ASSUME NEW D, NEW G, G \in Steps(D), NEW z \in D
  PROVE  \E g : Follows(D, G, z, g)
  <1>4. G \in [Nat -> [D -> D]]
    BY DEF Steps
  <1> DEFINE Part(n) == CHOOSE g : UpTo(D, G, z, n, g)
             H == [v \in Nat |-> Part(v)[v]]
  <1>1. \A n \in Nat : UpTo(D, G, z, n, Part(n))
    BY <1>4, PartsExist
  <1> HIDE DEF Part
  <1>2. H \in [Nat -> D] /\ H[0] = z
    BY <1>1 DEF UpTo
  <1>3. ASSUME NEW n \in Nat PROVE H[n + 1] = G[n][H[n]]
    <2>1. n + 1 \in Nat /\ n + 1 \in 1..n + 1 /\ (n + 1) - 1 = n /\ n <= n /\ n <= n + 1
      OBVIOUS
    <2>2. Part(n + 1)[n + 1] = G[n][Part(n + 1)[n]]
      BY <1>1, <2>1 DEF UpTo
    <2>3. Part(n + 1)[n] = Part(n)[n]
      <3>1. UpTo(D, G, z, n + 1, Part(n + 1)) /\ UpTo(D, G, z, n, Part(n))
        BY <1>1, <2>1
      <3> QED BY <1>4, <2>1, <3>1, PartsAgree
    <2> QED BY <2>1, <2>2, <2>3
  <1> HIDE DEF H
  <1>5. Follows(D, G, z, H)
    BY <1>2, <1>3 DEF Follows
  <1> QED BY <1>5

\* The sums of a sequence of numbers, starting from z.
Sums(c, z, g) == g = [v \in Nat |-> IF v = 0 THEN z ELSE g[v - 1] + c[v - 1]]

LEMMA SumsExist ==
  ASSUME NEW c \in [Nat -> Int], NEW z \in Int
  PROVE  \E g : Sums(c, z, g)
  <1> DEFINE G == [n \in Nat |-> [a \in Int |-> a + c[n]]]
  <1>1. G \in Steps(Int)
    BY DEF Steps
  <1>2. \A n \in Nat : \A a \in Int : G[n][a] = a + c[n]
    OBVIOUS
  <1> HIDE DEF G
  <1>7. PICK g : Follows(Int, G, z, g)
    BY <1>1, RecursionExists
  <1>3. g \in [Nat -> Int] /\ g[0] = z /\ \A n \in Nat : g[n + 1] = G[n][g[n]]
    BY <1>7 DEF Follows
  <1> DEFINE K == [v \in Nat |-> IF v = 0 THEN z ELSE g[v - 1] + c[v - 1]]
  <1>4. ASSUME NEW v \in Nat PROVE g[v] = K[v]
    <2>1. CASE v # 0
      <3>1. v - 1 \in Nat /\ (v - 1) + 1 = v /\ g[v - 1] \in Int
        BY <1>3, <2>1
      <3>2. g[v] = G[v - 1][g[v - 1]]
        BY <1>3, <3>1
      <3> QED BY <2>1, <1>2, <3>1, <3>2
    <2> QED BY <2>1, <1>3
  <1>5. DOMAIN g = Nat /\ DOMAIN K = Nat /\ g = [v \in DOMAIN g |-> g[v]] /\ K = [v \in DOMAIN K |-> K[v]]
    BY <1>3
  <1> HIDE DEF K
  <1>6. g = K
    BY <1>4, <1>5
  <1> QED BY <1>6 DEF K, Sums

LEMMA SumsAre ==
  ASSUME NEW c \in [Nat -> Int], NEW z \in Int, NEW g, Sums(c, z, g)
  PROVE  /\ g \in [Nat -> Int] /\ g[0] = z
         /\ \A v \in Nat : g[v + 1] = g[v] + c[v]
  <1>1. /\ g[0] = z
        /\ \A v \in Nat : g[v + 1] = g[v] + c[v]
    <2>1. ASSUME NEW v \in Nat PROVE g[v + 1] = g[v] + c[v]
      <3>1. v + 1 \in Nat /\ v + 1 # 0 /\ (v + 1) - 1 = v
        OBVIOUS
      <3> QED BY <3>1 DEF Sums
    <2> QED BY <2>1 DEF Sums
  <1> DEFINE S == {v \in Nat : g[v] \in Int}
  <1>2. 0 \in S /\ (\A n \in Nat : n \in S => n + 1 \in S)
    BY <1>1
  <1> HIDE DEF S
  <1>3. Nat \subseteq S
    BY <1>2, SetInduction
  <1>4. \A v \in Nat : g[v] \in Int
    BY <1>3 DEF S
  <1>5. DOMAIN g = Nat /\ g = [v \in DOMAIN g |-> g[v]]
    BY DEF Sums
  <1> QED BY <1>1, <1>4, <1>5


-----------------------------------------------------------------------------
(* The controls. *)

\* What an event made of the keys stays until the next: the keys of the bridge come from devices with
\* modern controls, the old fire from the others.
FromKeys == /\ held \subseteq Presses
            /\ sig \cap {"interact", "drop"} # {} => modern # {}
            /\ "vanilla" \in sig => \E d \in C!Others : <<d, "fire">> \in held

\* Every device that can be pressed has modern controls.
AllModern == C!Others \cap {k[1] : k \in Presses} = {}

\* A press of interact without fire lifted him once, and the bridge knows it; it threw once, and the
\* latch knows it.
Counters == /\ lifts \in 0..2 /\ throws \in 0..2
            /\ C!Interact /\ ~mixed => /\ "fire" \notin sig
                                       /\ lifts = 0 \/ (lifts = 1 /\ bridged)
            /\ C!Interact /\ AllModern => throws = 0 \/ (throws = 1 /\ thrown)

ControlsInv == /\ FromKeys /\ Counters /\ C!ShadowTrue /\ C!FireOnlyJumps /\ C!DropStandsUp

LEMMA ControlsStarts == C!Init => ControlsInv
  <1> SUFFICES ASSUME C!Init PROVE ControlsInv
    OBVIOUS
  <1>1. sig = {} /\ held = {} /\ acts = {} /\ cam = FALSE
    BY DEF C!Init
  <1>2. FromKeys /\ C!FireOnlyJumps /\ C!DropStandsUp
    BY <1>1 DEF FromKeys, C!FireOnlyJumps, C!DropStandsUp
  <1>3. Counters
    BY <1>1 DEF C!Init, Counters, C!Interact
  <1>4. C!Resolved({}, FALSE) = {}
    BY DEF C!Resolved, C!From, C!Any
  <1>5. C!ShadowTrue
    BY <1>1, <1>4 DEF C!ShadowTrue
  <1> QED BY <1>2, <1>3, <1>5 DEF ControlsInv, C!Init

\* What the keys resolve to.
LEMMA ResolvedIs ==
  ASSUME NEW h, NEW c
  PROVE  /\ C!Resolved(h, c) \cap {"interact", "drop"} # {} => modern # {}
         /\ "vanilla" \in C!Resolved(h, c) => \E d \in C!Others : <<d, "fire">> \in h
  <1> DEFINE keys == {a \in C!Dirs : C!Any(a, h)} \cup {a \in {"hop", "interact", "drop"} : C!From(modern, a, h)}
  <1>1. \A a \in {"interact", "drop", "vanilla"} :
           a \in C!Resolved(h, c) => a \in keys \/ (a = "vanilla" /\ C!From(C!Others, "fire", h))
    BY DEF C!Resolved
  <1>2. \A a \in {"interact", "drop"} : a \in keys => modern # {}
    BY DEF C!From, C!Dirs
  <1>3. "vanilla" \notin keys
    BY DEF C!Dirs
  <1> HIDE DEF keys
  <1> QED BY <1>1, <1>2, <1>3 DEF C!From

LEMMA KeysAreModern ==
  ASSUME FromKeys, AllModern
  PROVE  "vanilla" \notin sig
  <1> SUFFICES ASSUME NEW d \in C!Others, <<d, "fire">> \in held PROVE FALSE
    BY DEF FromKeys
  <1>1. <<d, "fire">>[1] \in {k[1] : k \in Presses}
    BY DEF FromKeys
  <1> QED BY <1>1 DEF AllModern

LEMMA EventKeeps ==
  ASSUME ControlsInv, C!Event
  PROVE  ControlsInv'
  <1>1. PICK h : C!Apply(h) /\ h \subseteq Presses
    BY DEF C!Event, ControlsInv, FromKeys
  <1>2. PICK c : cam' = c /\ sig' = C!Resolved(h, c) /\ held' = h
    BY <1>1 DEF C!Apply
  <1>3. UNCHANGED <<modern, playing, bridged, thrown, item, alone>> /\ acts' = {}
    BY DEF C!Event
  <1>4. FromKeys'
    BY <1>1, <1>2, <1>3, ResolvedIs DEF FromKeys, C!Others
  <1>5. C!ShadowTrue'
    BY <1>2, <1>3 DEF C!ShadowTrue, C!Resolved, C!From, C!Others
  <1>6. C!FireOnlyJumps' /\ C!DropStandsUp'
    BY <1>3 DEF C!FireOnlyJumps, C!DropStandsUp
  <1>7. (mixed' <=> "interact" \in sig' /\ ("fire" \in sig' \/ ("interact" \in sig /\ mixed)))
    BY DEF C!Event
  <1>8. Counters'
    <2>1. CASE "interact" \in sig' /\ "interact" \notin sig
      <3>1. lifts' = 0 /\ throws' = 0
        BY <2>1 DEF C!Event
      <3> QED BY <3>1, <1>7 DEF Counters, C!Interact, AllModern, C!Others
    <2>2. CASE ~("interact" \in sig' /\ "interact" \notin sig)
      <3>1. lifts' = lifts /\ throws' = throws
        BY <2>2 DEF C!Event
      <3> QED BY <3>1, <2>2, <1>3, <1>7 DEF Counters, C!Interact, AllModern, C!Others, ControlsInv
    <2> QED BY <2>1, <2>2
  <1> QED BY <1>3, <1>4, <1>5, <1>6, <1>7, <1>8 DEF ControlsInv

\* The shadow is put back as it was found.
LEMMA RestoredIs ==
  ASSUME NEW platformer
  PROVE  C!Restored(C!Shown(platformer)) = sig
  <1> DEFINE s == IF "hop" \in sig /\ ~platformer THEN sig \cup {"up"} ELSE sig
  <1>1. \/ C!Shown(platformer) = C!Pressed(s)
        \/ C!Shown(platformer) = C!Pressed(s) \cup {"down"}
        \/ C!Shown(platformer) = s \ {"down"}
        \/ C!Shown(platformer) = C!Stripped(s)
        \/ C!Shown(platformer) = s
    BY DEF C!Shown
  <1>2. s = sig \/ s = sig \cup {"up"}
    OBVIOUS
  <1> QED BY <1>1, <1>2 DEF C!Restored, C!Pressed, C!Stripped

LEMMA BridgeIs ==
  ASSUME NEW platformer
  PROVE  /\ C!Bridge(platformer).after = sig
         /\ modern = {} => C!Bridge(platformer).shown = sig /\ C!Bridge(platformer).bridged = bridged
         /\ modern # {} => C!Bridge(platformer).shown = C!Shown(platformer) /\ C!Bridge(platformer).bridged = C!Interact
  BY RestoredIs DEF C!Bridge

\* What the guest is shown for each thing meant.
LEMMA ShownIs ==
  ASSUME NEW platformer
  PROVE  LET s == C!Shown(platformer)
         IN /\ C!LiftMeant => "fire" \in s
            /\ ~C!LiftMeant /\ C!DropMeant /\ item => {"fire", "down"} \subseteq s
            /\ ~C!LiftMeant /\ C!DropMeant /\ ~item => "down" \notin s
            /\ ~C!LiftMeant /\ ~(C!DropMeant /\ item) /\ "fire" \notin sig => "fire" \notin s
            /\ ~C!LiftMeant /\ ~C!DropMeant /\ "fire" \in s =>
                 /\ "fire" \in sig
                 /\ ~C!Vanilla => /\ "down" \notin s
                                  /\ ~C!Interact => sig \cap C!Dirs # {} /\ sig \cap C!Dirs \subseteq s
  <1> DEFINE s == IF "hop" \in sig /\ ~platformer THEN sig \cup {"up"} ELSE sig
  <1>1. C!Shown(platformer) = IF C!LiftMeant THEN C!Pressed(s)
     ELSE IF C!DropMeant /\ item THEN C!Pressed(s) \cup {"down"}
     ELSE IF C!DropMeant THEN s \ {"down"}
     ELSE IF C!Down /\ ~C!Vanilla THEN C!Stripped(s)
     ELSE IF C!BareFire THEN C!Stripped(s)
     ELSE s
    BY DEF C!Shown
  <1>2. s = sig \/ s = sig \cup {"up"}
    OBVIOUS
  <1> HIDE DEF s
  <1> QED BY <1>1, <1>2 DEF C!Pressed, C!Stripped, C!Down, C!BareFire, C!Dirs

LEMMA FrameKeeps ==
  ASSUME ControlsInv, NEW platformer \in BOOLEAN, NEW spot \in Spots, C!Frame(platformer, spot)
  PROVE  ControlsInv'
  <1> DEFINE b     == C!Bridge(platformer)
             throw == C!Fires("fire" \in b.shown, TRUE, spot)
             take  == C!Fires("fire" \in b.shown, FALSE, spot)
  <1>1. UNCHANGED <<modern, playing, held, cam, camKey, mixed, stale>> /\ sig' = sig /\ bridged' = b.bridged
    BY BridgeIs DEF C!Frame
  <1>2. /\ acts' = C!Poses(b.shown) \cup (IF throw THEN {"throw"} ELSE {}) \cup (IF take THEN {"take"} ELSE {})
        /\ lifts' = lifts + (IF "man" \in C!Poses(b.shown) /\ lifts < 2 THEN 1 ELSE 0)
        /\ throws' = throws + (IF throw /\ throws < 2 THEN 1 ELSE 0)
        /\ thrown' = IF modern = {} THEN thrown ELSE IF ~C!Interact THEN FALSE
                     ELSE IF ~thrown /\ throw THEN TRUE ELSE thrown
    BY DEF C!Frame
  <1>3. FromKeys' /\ C!ShadowTrue'
    BY <1>1 DEF ControlsInv, FromKeys, C!ShadowTrue, C!Resolved, C!From, C!Others
  <1> HIDE DEF b, throw, take
  <1>5. C!Interact \/ C!DropMeant => modern # {}
    BY DEF ControlsInv, FromKeys, C!Interact, C!DropMeant
  <1>6. "prone" \in acts' => "down" \in b.shown /\ "fire" \notin b.shown
    BY <1>2 DEF C!Poses
  <1>7. C!DropStandsUp'
    <2>1. ASSUME C!DropMeant, "prone" \in acts' PROVE FALSE
      <3>1. b.shown = C!Shown(platformer)
        BY <1>5, <2>1, BridgeIs DEF b
      <3> QED BY <1>6, <2>1, <3>1, ShownIs
    <2> QED BY <1>1, <2>1 DEF C!DropStandsUp, C!DropMeant, C!Interact, C!Down
  <1>8. ASSUME modern # {}, throw PROVE (C!Interact /\ ~thrown) \/ (C!Vanilla /\ "fire" \in b.shown)
    BY <1>8 DEF throw, C!Fires, C!Wrapped
  <1>9. ASSUME modern # {}, take PROVE C!Interact \/ (C!Vanilla /\ "fire" \in b.shown)
    BY <1>9 DEF take, C!Fires, C!Wrapped
  <1>10. C!FireOnlyJumps'
    <2>1. ASSUME C!OnlyModernFire, modern # {} PROVE acts' \cap {"man", "drop", "throw", "take"} = {}
      <3>1. ~C!LiftMeant /\ ~C!DropMeant /\ ~C!Vanilla /\ ~C!Interact
        BY <2>1 DEF C!OnlyModernFire, C!LiftMeant, C!DropMeant, C!Vanilla, C!Interact
      <3>2. b.shown = C!Shown(platformer)
        BY <2>1, BridgeIs DEF b
      <3>3. "man" \notin C!Poses(b.shown)
        BY <3>1, <3>2, ShownIs DEF C!Poses, C!Dirs
      <3>4. "drop" \notin C!Poses(b.shown)
        BY <3>1, <3>2, ShownIs DEF C!Poses
      <3>5. ~throw /\ ~take
        BY <2>1, <3>1, <1>8, <1>9
      <3>6. C!Poses(b.shown) \subseteq {"man", "drop", "prone"}
        BY DEF C!Poses
      <3> QED BY <3>3, <3>4, <3>5, <3>6, <1>2
    <2> QED BY <1>1, <2>1 DEF C!FireOnlyJumps, C!OnlyModernFire
  <1>11. Counters'
    <2>1. lifts' \in 0..2 /\ throws' \in 0..2
      BY <1>2 DEF ControlsInv, Counters
    <2>2. ASSUME C!Interact, ~mixed PROVE "fire" \notin sig /\ (lifts' = 0 \/ (lifts' = 1 /\ bridged'))
      <3>1. "fire" \notin sig /\ (lifts = 0 \/ (lifts = 1 /\ bridged))
        BY <2>2 DEF ControlsInv, Counters
      <3>2. b.shown = C!Shown(platformer) /\ bridged'
        BY <1>1, <1>5, <2>2, BridgeIs DEF b
      <3>3. CASE "man" \in C!Poses(b.shown)
        <4>1. "fire" \in b.shown /\ "down" \notin b.shown
          BY <3>3 DEF C!Poses, C!Dirs
        <4>2. C!LiftMeant
          BY <4>1, <3>1, <3>2, ShownIs
        <4>3. lifts = 0
          BY <4>2, <3>1 DEF C!LiftMeant
        <4> QED BY <4>3, <3>1, <3>2, <3>3, <1>2
      <3>4. CASE "man" \notin C!Poses(b.shown)
        <4>1. lifts' = lifts
          BY <1>2, <3>4 DEF ControlsInv, Counters
        <4> QED BY <4>1, <3>1, <3>2
      <3> QED BY <3>3, <3>4
    <2>3. ASSUME C!Interact, AllModern PROVE throws' = 0 \/ (throws' = 1 /\ thrown')
      <3>1. throws = 0 \/ (throws = 1 /\ thrown)
        BY <2>3 DEF ControlsInv, Counters
      <3>2. modern # {} /\ ~C!Vanilla
        BY <1>5, <2>3, KeysAreModern DEF ControlsInv, C!Vanilla
      <3>3. CASE throw
        <4>1. ~thrown
          BY <1>8, <3>2, <3>3
        <4> QED BY <4>1, <3>1, <3>2, <3>3, <1>2, <2>3
      <3>4. CASE ~throw
        <4>1. throws' = throws /\ thrown' = thrown
          BY <1>2, <3>2, <3>4, <2>3 DEF ControlsInv, Counters
        <4> QED BY <4>1, <3>1
      <3> QED BY <3>3, <3>4
    <2> QED BY <1>1, <2>1, <2>2, <2>3 DEF Counters, C!Interact, AllModern, C!Others
  <1> QED BY <1>3, <1>7, <1>10, <1>11 DEF ControlsInv

LEMMA CamEndsKeeps == ASSUME ControlsInv, C!CamEnds PROVE ControlsInv'
  <1>1. stale' = TRUE /\ acts' = {}
        /\ UNCHANGED <<modern, playing, held, sig, camKey, bridged, thrown, item, alone, lifts, throws, mixed>>
    BY DEF C!CamEnds
  <1> QED BY <1>1 DEF ControlsInv, FromKeys, Counters, C!ShadowTrue, C!FireOnlyJumps, C!DropStandsUp,
                  C!Interact, AllModern, C!Others

LEMMA WorldKeeps == ASSUME ControlsInv, C!World PROVE ControlsInv'
  <1>1. acts' = {} /\ UNCHANGED <<modern, held, sig, cam, camKey, bridged, thrown, alone, lifts, throws, mixed>>
    BY DEF C!World
  <1>2. stale' \/ UNCHANGED <<playing, stale>>
    BY DEF C!World
  <1>3. FromKeys' /\ Counters' /\ C!FireOnlyJumps' /\ C!DropStandsUp'
    BY <1>1 DEF ControlsInv, FromKeys, Counters, C!FireOnlyJumps, C!DropStandsUp,
                  C!Interact, AllModern, C!Others
  <1>4. C!ShadowTrue'
    <2>1. CASE stale'
      BY <2>1 DEF C!ShadowTrue
    <2>2. CASE UNCHANGED <<playing, stale>>
      BY <1>1, <2>2 DEF ControlsInv, C!ShadowTrue, C!Resolved, C!From, C!Others
    <2> QED BY <1>2, <2>1, <2>2
  <1> QED BY <1>1, <1>3, <1>4 DEF ControlsInv

LEMMA ControlsSteps == ASSUME ControlsInv, C!Next \/ UNCHANGED C!controls PROVE ControlsInv'
  <1>1. CASE UNCHANGED C!controls
    BY <1>1 DEF C!controls, ControlsInv, FromKeys, Counters, C!ShadowTrue, C!FireOnlyJumps, C!DropStandsUp, C!Interact, AllModern,
                C!Others, C!Resolved, C!From, C!OnlyModernFire, C!DropMeant, C!Down
  <1> QED BY <1>1, EventKeeps, CamEndsKeeps, WorldKeeps, FrameKeeps DEF C!Next

\* A handler's nudged place.
LEMMA ReachRight == \A spot \in Spots : C!ReachIs(spot)
  <1> TAKE spot \in Spots
  <1>1. spot.bias \in Int /\ spot.px \in Int /\ spot.range \in Nat /\ spot.reach \in Nat /\ Tile \in Int
    BY ControlsAssumed DEF C!ControlsAssumption
  <1> QED BY <1>1 DEF C!ReachIs, C!InWindow, C!Nudged

LEMMA ControlsSafe == ControlsInv => C!ControlsOK
  <1> SUFFICES ASSUME ControlsInv PROVE C!ControlsOK
    OBVIOUS
  <1>1. C!PressOnce
    BY DEF C!PressOnce, ControlsInv, Counters, AllModern
  <1> QED BY <1>1, ReachRight DEF ControlsInv, C!ControlsOK

-----------------------------------------------------------------------------
(* The flight. *)

\* What $f6e counts.
Meters == 0..Most + Apex

\* What the player does, as the guest has it.
Doings == F!Air \cup {"ground", "impact"}

Players == [pose : Doings, x : Int, y : Int, meter : Meters, energy : Int]

Flights == [vx : Int, vy : Int, steer : Int, fly : BOOLEAN, track : BOOLEAN, cut : BOOLEAN, xacc : Int, yacc : Int,
            air : Int, fire : BOOLEAN, jump : BOOLEAN, expect : SUBSET Int]

Flying == /\ on \in BOOLEAN /\ shoes \in BOOLEAN /\ moved \in BOOLEAN /\ arcs \in BOOLEAN
          /\ p \in Players /\ p.energy <= Full /\ f \in Flights

\* The flags are one or none, and none of a player who is not in the air.
OneFlight == /\ ~(f.fly /\ f.track)
             /\ ~F!InAir(p.pose) => ~f.fly /\ ~f.track

\* A flight without a guest's arc in it, also while the knob is off: he is where it put him, unless the pass took
\* him back, and no faster than the shoes allow.
OwnFlight == f.fly /\ ~arcs => /\ F!Magnitude(f.vx) <= Cap[shoes]
                               /\ p.x \in f.expect \/ moved

FlightInv == Flying /\ OneFlight /\ OwnFlight

LEMMA Sizes ==
  /\ One \in Nat /\ One > 0 /\ Gravity \in Nat /\ Gravity > 0 /\ AirAcc \in Nat /\ Drag \in Nat /\ FallMax \in Nat
  /\ JumpVy \in Int /\ JumpVy <= 0 /\ Tap \in Nat /\ Apex \in Nat /\ Lead \in Nat
  /\ Wide \in Nat /\ Top \in Nat /\ Most \in Nat /\ Full \in Nat
  <1>1. {One, Gravity, AirAcc, Drag, FallMax} \subseteq Nat \ {0}
    BY FlightAssumed DEF F!FlightAssumption
  <1>2. JumpVy \in Int /\ JumpVy <= 0 /\ {Tap, Apex, Lead, Wide, Top, Most, Full, Toggles} \subseteq Nat
    BY FlightAssumed DEF F!FlightAssumption
  <1> QED BY <1>1, <1>2

LEMMA CapIs == \A s \in BOOLEAN : Cap[s] \in Nat
  BY FlightAssumed DEF F!FlightAssumption

LEMMA FlightStarts == F!Init => FlightInv
  <1> SUFFICES ASSUME F!Init PROVE FlightInv
    OBVIOUS
  <1>1. p \in Players /\ p.energy <= Full
    BY Sizes DEF F!Init, Players, Doings, Meters
  <1>2. f \in Flights
    BY DEF F!Init, Flights
  <1>3. ~f.fly /\ ~f.track
    BY DEF F!Init
  <1> QED BY <1>1, <1>2, <1>3 DEF F!Init, FlightInv, Flying, OneFlight, OwnFlight

-----------------------------------------------------------------------------
\* The stick.
LEMMA SteeredIs ==
  ASSUME NEW v \in Int, NEW cap \in Nat, NEW h \in Hands
  PROVE  F!Steered(v, cap, h) \in Int /\ F!Magnitude(F!Steered(v, cap, h)) <= cap
  <1>1. h.dir \in {-1, 0, 1}
    BY FlightAssumed DEF F!FlightAssumption
  <1>2. PICK w \in Int : F!Steered(v, cap, h) = F!Limit(w, cap)
    <2>1. h.dir * AirAcc \in Int
      BY <1>1, Sizes
    <2> QED BY <1>1, <2>1, Sizes DEF F!Steered
  <1> QED BY <1>2 DEF F!Limit, F!Magnitude

LEMMA CutIs ==
  ASSUME NEW v \in Int, NEW n \in {2, 3}
  PROVE  F!Cut(v, n) \in Int /\ (v < 0 => F!Cut(v, n) >= v)
  BY DEF F!Cut

LEMMA SeedIs == ASSUME Flying, NEW h \in Hands PROVE F!Seed(h) \in Int
  <1>1. h.dir \in {-1, 0, 1} /\ Cap[shoes] \in Nat
    BY FlightAssumed, CapIs DEF F!FlightAssumption, Flying
  <1> QED BY <1>1 DEF F!Seed

\* The pieces of a frame keep the kinds; none but the last tells where the player is.
LEMMA TakeoffIs ==
  ASSUME Flying, NEW keep \in BOOLEAN, NEW h \in Hands
  PROVE  F!Takeoff(keep, h) \in Flights /\ F!Takeoff(keep, h).track = FALSE
  <1>1. F!Seed(h) \in Int
    BY SeedIs
  <1>2. PICK v \in Int : v = IF keep THEN f.vx ELSE F!Seed(h)
    BY <1>1 DEF Flights, Flying
  <1>5. PICK z \in Int : z = 0
    OBVIOUS
  <1>6. PICK none \in SUBSET Int : none = {}
    OBVIOUS
  <1>3. F!Takeoff(keep, h) =
          [f EXCEPT !.fly = TRUE, !.track = FALSE, !.expect = none, !.cut = FALSE, !.xacc = z, !.yacc = z, !.steer = z,
                    !.vy = JumpVy, !.vx = v, !.air = z, !.fire = FALSE]
    BY <1>2, <1>5, <1>6 DEF F!Takeoff
  <1>4. f \in Flights
    BY DEF Flying
  <1>7. PICK a \in Flights : a = [f EXCEPT !.expect = none, !.xacc = z, !.yacc = z, !.steer = z, !.vy = JumpVy,
                                          !.vx = v, !.air = z]
    BY <1>4, Sizes DEF Flights
  <1>8. F!Takeoff(keep, h) = [a EXCEPT !.fly = TRUE, !.track = FALSE, !.cut = FALSE, !.fire = FALSE]
    BY <1>3, <1>7
  <1> QED BY <1>8 DEF Flights

LEMMA FreshFallIs ==
  ASSUME Flying, NEW h \in Hands
  PROVE  F!FreshFall(h) \in Flights /\ F!FreshFall(h).track = FALSE
  <1>1. F!Seed(h) \in Int
    BY SeedIs
  <1>2. f \in Flights
    BY DEF Flying
  <1>3. PICK z \in Int : z = 0
    OBVIOUS
  <1>4. PICK none \in SUBSET Int : none = {}
    OBVIOUS
  <1>5. F!FreshFall(h) =
          [f EXCEPT !.fly = TRUE, !.track = FALSE, !.expect = none, !.cut = TRUE, !.xacc = z, !.yacc = z,
                    !.vy = z, !.steer = z, !.vx = F!Seed(h)]
    BY <1>3, <1>4 DEF F!FreshFall
  <1> QED BY <1>1, <1>2, <1>5 DEF Flights

LEMMA WallFeltIs ==
  ASSUME NEW g \in Flights
  PROVE  /\ F!WallFelt(g) \in Flights /\ F!WallFelt(g).track = g.track /\ F!WallFelt(g).vy = g.vy
  <1>1. PICK z \in Int : z = 0
    OBVIOUS
  <1>2. F!WallFelt(g) = g \/ F!WallFelt(g) = [g EXCEPT !.vx = z, !.xacc = z]
    BY <1>1 DEF F!WallFelt
  <1> QED BY <1>2 DEF Flights

LEMMA ReleasedIs ==
  ASSUME NEW g \in Flights, NEW h \in Hands
  PROVE  /\ F!Released(g, h) \in Flights /\ F!Released(g, h).track = g.track
         /\ g.vy < 0 => F!Released(g, h).vy >= g.vy
  <1> DEFINE n == IF g.air <= Tap THEN 3 ELSE 2
             vx == IF g.air <= Tap THEN F!Cut(g.vx, 2) ELSE g.vx
  <1>1. \/ F!Released(g, h) = g
        \/ F!Released(g, h) = [g EXCEPT !.cut = TRUE, !.vy = F!Cut(g.vy, n), !.vx = vx]
    BY DEF F!Released
  <1>2. g.vy \in Int /\ g.vx \in Int
    BY DEF Flights
  <1>3. F!Cut(g.vy, n) \in Int /\ vx \in Int /\ (g.vy < 0 => F!Cut(g.vy, n) >= g.vy)
    BY <1>2, CutIs
  <1> HIDE DEF n, vx
  <1>4. CASE F!Released(g, h) = g
    BY <1>2, <1>4
  <1>5. CASE F!Released(g, h) = [g EXCEPT !.cut = TRUE, !.vy = F!Cut(g.vy, n), !.vx = vx]
    BY <1>2, <1>3, <1>5 DEF Flights
  <1> QED BY <1>1, <1>4, <1>5

LEMMA PulledIs ==
  ASSUME NEW g \in Flights, NEW most \in Int
  PROVE  /\ F!Pulled(g, most) \in Flights /\ F!Pulled(g, most).track = g.track
         /\ most = g.vy + Gravity => F!Pulled(g, most).vy = g.vy + Gravity
  <1> DEFINE w == IF g.vy + Gravity > most THEN most ELSE g.vy + Gravity
  <1>1. g.vy \in Int /\ g.yacc \in Int
    BY DEF Flights
  <1>2. w \in Int /\ g.yacc + w \in Int /\ (most = g.vy + Gravity => w = g.vy + Gravity)
    BY <1>1, Sizes
  <1>3. F!Pulled(g, most) = [g EXCEPT !.vy = w, !.yacc = g.yacc + w]
    BY DEF F!Pulled
  <1> HIDE DEF w
  <1> QED BY <1>2, <1>3 DEF Flights

LEMMA PushedIs ==
  ASSUME Flying, NEW g \in Flights, NEW h \in Hands
  PROVE  /\ F!Pushed(g, h) \in Flights /\ F!Pushed(g, h).track = g.track /\ F!Pushed(g, h).vy = g.vy
         /\ F!Magnitude(F!Pushed(g, h).vx) <= Cap[shoes]
  <1> DEFINE v == F!Steered(g.vx, Cap[shoes], h)
  <1>1. v \in Int /\ F!Magnitude(v) <= Cap[shoes] /\ g.xacc + v \in Int
    BY SteeredIs, CapIs DEF Flying, Flights
  <1>2. F!Pushed(g, h) = [g EXCEPT !.vx = v, !.xacc = g.xacc + v]
    BY DEF F!Pushed
  <1> HIDE DEF v
  <1>3. F!Pushed(g, h) \in Flights /\ F!Pushed(g, h).track = g.track /\ F!Pushed(g, h).vy = g.vy /\ F!Pushed(g, h).vx = v
    BY <1>1, <1>2 DEF Flights
  <1> QED BY <1>1, <1>3

\* What a native frame leaves: a flight that goes no faster than allowed and expects the player where it put him.
Leaves(o) == /\ o.p \in Players /\ o.f \in Flights /\ ~o.f.track
             /\ o.p.pose \in {"hop", "fall"} /\ o.p.energy = p.energy
             /\ F!Magnitude(o.f.vx) <= Cap[shoes] /\ o.p.x \in o.f.expect

LEMMA EmittedIs ==
  ASSUME Flying, NEW g \in Flights, NEW pose \in {"hop", "fall"}, NEW meter \in Meters,
         ~g.track, F!Magnitude(g.vx) <= Cap[shoes]
  PROVE  Leaves(F!Emitted(g, pose, meter)) /\ F!Emitted(g, pose, meter).f.vy = g.vy
  <1> DEFINE o == F!Emitted(g, pose, meter)
             nx == p.x + (g.xacc \div One)
             ny == p.y + (g.yacc \div One)
             rx == g.xacc % One
             ry == g.yacc % One
  <1>1. nx \in Int /\ ny \in Int /\ rx \in Int /\ ry \in Int
    BY Sizes DEF Flying, Players, Flights
  <1>2. o.f = [g EXCEPT !.xacc = rx, !.yacc = ry, !.expect = {nx}]
    BY DEF F!Emitted
  <1>3. o.p = [p EXCEPT !.x = nx, !.y = ny, !.pose = pose, !.meter = meter]
    BY DEF F!Emitted
  <1> HIDE DEF o, nx, ny, rx, ry
  <1>6. PICK place \in SUBSET Int : place = {nx}
    BY <1>1
  <1>4. o.f \in Flights /\ o.f.track = g.track /\ o.f.vx = g.vx /\ o.f.vy = g.vy /\ o.f.expect = place
    BY <1>1, <1>2, <1>6 DEF Flights
  <1>5. o.p \in Players /\ o.p.x = nx /\ o.p.pose = pose /\ o.p.energy = p.energy
    BY <1>1, <1>3 DEF Players, Doings, F!Air, Flying
  <1> QED BY <1>4, <1>5, <1>6 DEF Leaves, o

LEMMA RiseIs ==
  ASSUME Flying, NEW g \in Flights, NEW h \in Hands, ~g.track
  PROVE  Leaves(F!Rise(g, h)) /\ (g.vy < 0 => F!Rise(g, h).f.vy > g.vy)
  <1> DEFINE a == [g EXCEPT !.air = IF g.air > Tap THEN g.air ELSE g.air + 1]
             b == F!WallFelt(a)
             ab == [F!WallFelt(g) EXCEPT !.air = IF @ > Tap THEN @ ELSE @ + 1]
             c == F!Released(ab, h)
             d == F!Pulled(c, c.vy + Gravity)
             e == F!Pushed(d, h)
  <1>1. ab \in Flights /\ ab.track = g.track /\ ab.vy = g.vy
    <2>1. F!WallFelt(g) \in Flights /\ F!WallFelt(g).track = g.track /\ F!WallFelt(g).vy = g.vy
      BY WallFeltIs
    <2> HIDE DEF ab
    <2>2. PICK w \in Flights : w = F!WallFelt(g)
      BY <2>1
    <2>3. ab = [w EXCEPT !.air = IF w.air > Tap THEN w.air ELSE w.air + 1]
      BY <2>2 DEF ab
    <2> QED BY <2>1, <2>2, <2>3, Sizes DEF Flights
  <1> HIDE DEF ab
  <1>2. c \in Flights /\ c.track = g.track /\ (g.vy < 0 => c.vy >= g.vy)
    BY <1>1, ReleasedIs
  <1> HIDE DEF c
  <1>3. c.vy \in Int /\ c.vy + Gravity \in Int
    BY <1>2, Sizes DEF Flights
  <1>4. d \in Flights /\ d.track = g.track /\ d.vy = c.vy + Gravity
    BY <1>2, <1>3, PulledIs
  <1> HIDE DEF d
  <1>5. e \in Flights /\ e.track = g.track /\ e.vy = d.vy /\ F!Magnitude(e.vx) <= Cap[shoes]
    BY <1>4, PushedIs
  <1> HIDE DEF e
  <1>6. g.vy < 0 => e.vy > g.vy
    <2>1. g.vy \in Int
      BY DEF Flights
    <2> QED BY <2>1, <1>2, <1>3, <1>4, <1>5, Sizes
  <1>7. F!Rise(g, h) = IF e.vy >= 0 THEN F!Emitted(e, "fall", Apex) ELSE F!Emitted(e, "hop", p.meter)
    BY DEF F!Rise, e, d, c, ab
  <1>8. Apex \in Meters /\ p.meter \in Meters
    BY Sizes DEF Meters, Flying, Players
  <1>9. Leaves(F!Emitted(e, "fall", Apex)) /\ F!Emitted(e, "fall", Apex).f.vy = e.vy
    BY <1>5, <1>8, EmittedIs
  <1>10. Leaves(F!Emitted(e, "hop", p.meter)) /\ F!Emitted(e, "hop", p.meter).f.vy = e.vy
    BY <1>5, <1>8, EmittedIs
  <1> QED BY <1>6, <1>7, <1>9, <1>10

LEMMA CountedIs == ASSUME Flying PROVE F!Counted \in Meters
  BY Sizes DEF F!Counted, Meters, Flying, Players

LEMMA FallIs ==
  ASSUME Flying, NEW g \in Flights, NEW h \in Hands, ~g.track
  PROVE  Leaves(F!Fall(g, h))
  <1> DEFINE c == F!WallFelt(g)
             d == F!Pulled(c, FallMax)
             e == F!Pushed(d, h)
  <1>1. c \in Flights /\ c.track = g.track
    BY WallFeltIs
  <1> HIDE DEF c
  <1>2. d \in Flights /\ d.track = g.track
    BY <1>1, PulledIs, Sizes
  <1> HIDE DEF d
  <1>3. e \in Flights /\ e.track = g.track /\ F!Magnitude(e.vx) <= Cap[shoes]
    BY <1>2, PushedIs
  <1> HIDE DEF e
  <1>4. F!Fall(g, h) = F!Emitted(e, "fall", F!Counted)
    BY DEF F!Fall, e, d, c
  <1> QED BY <1>3, <1>4, EmittedIs, CountedIs

-----------------------------------------------------------------------------
\* What a handler leaves for the terrain pass.
Handed(o) ==
  /\ o.p \in Players /\ o.f \in Flights /\ ~(o.f.fly /\ o.f.track)
  /\ o.f.fly /\ p.pose # "arc" => F!Magnitude(o.f.vx) <= Cap[shoes] /\ o.p.x \in o.f.expect
  /\ ~on \/ ~F!InAir(p.pose) => ~o.f.fly /\ ~o.f.track
  /\ o.p.energy = IF p.pose = "impact" THEN F!Scaled(mode', p.energy, p.energy - Hurt(p.meter)) ELSE p.energy
  /\ o.p.pose = "arc" => p.pose = "arc" /\ o.p.meter = Apex
  /\ on /\ p.pose = "hop" /\ F!InAir(prev) /\ f.fly /\ f.vy < 0 => o.f.vy > f.vy

LEMMA LeavesIsHanded ==
  ASSUME NEW o, Leaves(o), on, p.pose \in F!Air \ {"hop"}
  PROVE  Handed(o)
  BY DEF Leaves, Handed, F!InAir, F!Air

\* On his feet.
LEMMA WalkedIs ==
  ASSUME Flying, OneFlight, p.pose = "ground", NEW h \in Hands, NEW q \in F!Walked(h)
  PROVE  Handed(F!Both(q))
  <1>1. PICK c \in F!Commits(h) : q = [p EXCEPT !.pose = c, !.x = IF c = "ground" THEN @ + h.dir ELSE @, !.meter = 0]
    BY DEF F!Walked
  <1>2. c \in {"ground", "fall", "hop", "diagonal", "leap"}
    BY DEF F!Commits
  <1>3. p \in Players /\ f \in Flights /\ p.x \in Int /\ p.x + h.dir \in Int /\ 0 \in Meters
    BY FlightAssumed, Sizes DEF Flying, F!FlightAssumption, Players, Meters
  <1>4. PICK n \in Int, m \in Meters : q = [p EXCEPT !.pose = c, !.x = n, !.meter = m]
    BY <1>1, <1>3
  <1>5. q \in Players /\ q.pose = c /\ q.energy = p.energy
    BY <1>2, <1>3, <1>4 DEF Players, Doings, F!Air
  <1>6. ~F!InAir(p.pose)
    BY DEF F!InAir, F!Air
  <1>7. ~f.fly /\ ~f.track
    BY <1>6 DEF OneFlight
  <1> QED BY <1>2, <1>3, <1>5, <1>6, <1>7 DEF Handed, F!Both

LEMMA ImpactIs ==
  ASSUME Flying, OneFlight, p.pose = "impact", NEW o \in F!Impact
  PROVE  Handed(o)
  <1> DEFINE e == F!Scaled(mode', p.energy, p.energy - Hurt(p.meter))
  <1>1. o = F!Both([p EXCEPT !.energy = e, !.pose = "ground", !.meter = 0])
    BY DEF F!Impact
  <1>2. p \in Players /\ f \in Flights /\ p.energy \in Int /\ Hurt(p.meter) \in Nat
    BY FlightAssumed DEF Flying, Players, Meters, F!FlightAssumption
  <1>3. e \in Int
    BY <1>2 DEF F!Scaled
  <1> HIDE DEF e
  <1>4. PICK m \in Meters : m = 0
    BY Sizes DEF Meters
  <1>5. o.p = [p EXCEPT !.energy = e, !.pose = "ground", !.meter = m] /\ o.f = f
    BY <1>1, <1>4 DEF F!Both
  <1>6. o.p \in Players /\ o.p.energy = e /\ o.p.pose = "ground"
    BY <1>2, <1>3, <1>5 DEF Players, Doings
  <1>7. ~F!InAir(p.pose)
    BY DEF F!InAir, F!Air
  <1>8. ~f.fly /\ ~f.track
    BY <1>7 DEF OneFlight
  <1> QED BY <1>2, <1>5, <1>6, <1>7, <1>8 DEF Handed, e

\* In the guest's arcs.
LEMMA GuestArcIs ==
  ASSUME Flying, F!InAir(p.pose), NEW q \in F!GuestArcs
  PROVE  /\ q \in Players /\ q.energy = p.energy /\ q.pose \in F!Air
         /\ q.pose = "arc" => p.pose = "arc" /\ q.meter = Apex
  <1>1. PICK c \in {p.pose, "fall"}, d \in Moves : q = F!GuestArc(c, d)
    BY DEF F!GuestArcs
  <1>2. d[1] \in Int /\ d[2] \in Int
    BY FlightAssumed DEF F!FlightAssumption
  <1>3. p \in Players /\ p.x \in Int /\ p.y \in Int /\ Apex \in Meters /\ F!Counted \in Meters
    BY Sizes, CountedIs DEF Flying, Players, Meters
  <1>4. PICK n \in Int : n = p.x + d[1]
    BY <1>2, <1>3
  <1>5. PICK k \in Int : k = IF p.y + d[2] < -Top THEN p.y + 1 ELSE p.y + d[2]
    BY <1>2, <1>3, Sizes
  <1>6. PICK m \in Meters : m = IF p.pose = "fall" THEN F!Counted ELSE Apex
    BY <1>3
  <1>7. q = [p EXCEPT !.pose = c, !.x = n, !.y = k, !.meter = m]
    BY <1>1, <1>4, <1>5, <1>6 DEF F!GuestArc
  <1>8. c \in F!Air /\ c \in Doings
    BY DEF F!InAir, Doings, F!Air
  <1>9. q \in Players /\ q.energy = p.energy /\ q.pose = c /\ q.meter = m
    BY <1>3, <1>7, <1>8 DEF Players
  <1> QED BY <1>6, <1>8, <1>9

LEMMA VanillaAirIs ==
  ASSUME Flying, F!InAir(p.pose), ~on, NEW o \in F!Vanilla
  PROVE  Handed(o)
  <1>1. PICK q \in F!GuestArcs : o = [p |-> q, f |-> [f EXCEPT !.fly = FALSE, !.track = FALSE]]
    BY DEF F!Vanilla
  <1>2. f \in Flights
    BY DEF Flying
  <1>3. o.f \in Flights /\ ~o.f.fly /\ ~o.f.track /\ o.p = q
    BY <1>1, <1>2 DEF Flights
  <1>4. p.pose # "impact"
    BY DEF F!InAir, F!Air
  <1> QED BY <1>3, <1>4, GuestArcIs DEF Handed

LEMMA TrackIs ==
  ASSUME Flying, OneFlight, p.pose = "arc", on, NEW h \in Hands, NEW q \in F!GuestArcs
  PROVE  Handed(F!Track(q, h))
  <1>1. F!InAir(p.pose)
    BY DEF F!InAir, F!Air
  <1>2. q \in Players /\ q.energy = p.energy /\ q.pose \in F!Air /\ (q.pose = "arc" => q.meter = Apex)
    BY <1>1, GuestArcIs
  <1> DEFINE d == q.x - p.x
             g == IF f.track THEN f
                  ELSE [f EXCEPT !.track = TRUE, !.fly = FALSE, !.cut = TRUE, !.xacc = 0, !.yacc = 0,
                                 !.vy = 0, !.vx = 0, !.steer = 0]
             s == F!Steered(g.steer, Cap[FALSE], h)
             step == (g.xacc + s) \div One
             wall == step # 0 /\ F!Solid(q.x + step + (IF step > 0 THEN Lead ELSE -Lead))
             sd == IF wall THEN 0 ELSE step
             st == IF wall THEN 0 ELSE s
             xa == IF wall THEN 0 ELSE (g.xacc + s) % One
             vx == IF d # 0 \/ sd # 0 THEN d * One + st ELSE g.vx
             r  == [g EXCEPT !.steer = st, !.xacc = xa, !.vx = vx]
  <1>3. f \in Flights /\ d \in Int /\ q.x \in Int
    BY <1>2 DEF Flying, Players
  <1>4. g \in Flights /\ g.track /\ ~g.fly
    <2>1. CASE f.track
      BY <2>1, <1>3 DEF OneFlight
    <2>2. CASE ~f.track
      <3>1. PICK z \in Int : z = 0
        OBVIOUS
      <3>2. g = [f EXCEPT !.track = TRUE, !.fly = FALSE, !.cut = TRUE, !.xacc = z, !.yacc = z,
                          !.vy = z, !.vx = z, !.steer = z]
        BY <2>2, <3>1
      <3> HIDE DEF g
      <3> QED BY <3>2, <1>3 DEF Flights
    <2> QED BY <2>1, <2>2
  <1> HIDE DEF g, d
  <1>5. s \in Int /\ g.xacc \in Int /\ g.vx \in Int
    <2>1. g.steer \in Int /\ g.xacc \in Int /\ g.vx \in Int
      BY <1>4 DEF Flights
    <2>2. PICK cap \in Nat : cap = Cap[FALSE]
      BY CapIs
    <2>3. F!Steered(g.steer, cap, h) \in Int
      BY <2>1, SteeredIs
    <2> QED BY <2>1, <2>2, <2>3
  <1> HIDE DEF s
  <1>6. step \in Int /\ (g.xacc + s) % One \in Int
    BY <1>5, Sizes
  <1> HIDE DEF step
  <1>7. sd \in Int /\ st \in Int /\ xa \in Int
    BY <1>5, <1>6
  <1>8. d * One \in Int
    BY <1>3, Sizes
  <1> HIDE DEF sd, st, xa
  <1>9. vx \in Int
    BY <1>5, <1>7, <1>8
  <1> HIDE DEF vx
  <1>10. r \in Flights /\ r.track /\ ~r.fly
    BY <1>4, <1>7, <1>9 DEF Flights
  <1>11. F!Track(q, h) = [f |-> IF q.pose = "fall" THEN [r EXCEPT !.fly = TRUE, !.track = FALSE] ELSE r,
                          p |-> [q EXCEPT !.x = @ + sd]]
    BY DEF F!Track, r, vx, xa, st, sd, step, s, g, d
  <1> HIDE DEF r
  <1>12. /\ F!Track(q, h).f \in Flights /\ ~(F!Track(q, h).f.fly /\ F!Track(q, h).f.track)
    <2>1. F!Track(q, h).f = r \/ F!Track(q, h).f = [r EXCEPT !.fly = TRUE, !.track = FALSE]
      BY <1>11
    <2> QED BY <2>1, <1>10 DEF Flights
  <1>13. PICK n \in Int : F!Track(q, h).p = [q EXCEPT !.x = n]
    BY <1>3, <1>7, <1>11
  <1>14. F!Track(q, h).p \in Players /\ F!Track(q, h).p.pose = q.pose /\ F!Track(q, h).p.energy = p.energy
         /\ F!Track(q, h).p.meter = q.meter
    BY <1>2, <1>13 DEF Players
  <1> QED BY <1>1, <1>2, <1>12, <1>14 DEF Handed

\* In his own flight.
LEMMA HopIs ==
  ASSUME Flying, OneFlight, p.pose = "hop", on, NEW h \in Hands
  PROVE  Handed(F!Hop(h))
  <1> DEFINE g == IF ~F!InAir(prev) THEN F!Takeoff(FALSE, h)
                  ELSE IF ~f.fly \/ f.vy >= 0 THEN F!Takeoff(f.fly \/ f.track, h) ELSE f
  <1>1. f \in Flights
    BY DEF Flying
  <1>2. PICK keep \in BOOLEAN : keep = (f.fly \/ f.track)
    OBVIOUS
  <1>3. g \in Flights /\ ~g.track
    BY <1>1, <1>2, TakeoffIs DEF OneFlight
  <1>4. F!InAir(prev) /\ f.fly /\ f.vy < 0 => g = f
    BY <1>1 DEF Flights
  <1>5. F!Hop(h) = F!Rise(g, h)
    BY DEF F!Hop
  <1> HIDE DEF g
  <1>6. Leaves(F!Hop(h)) /\ (g.vy < 0 => F!Hop(h).f.vy > g.vy)
    BY <1>3, <1>5, RiseIs
  <1> QED BY <1>4, <1>6 DEF Leaves, Handed, F!InAir, F!Air

LEMMA HandledIs ==
  ASSUME Flying, OneFlight, NEW h \in Hands, NEW o \in F!Handled(h)
  PROVE  Handed(o)
  <1>1. p.pose \in F!Air \cup {"ground", "impact"}
    BY DEF Flying, Players, Doings
  <1>2. CASE p.pose = "ground"
    <2>1. F!Handled(h) = {F!Both(q) : q \in F!Walked(h)}
      BY <1>2 DEF F!Handled, F!InAir, F!Air
    <2> QED BY <2>1, <1>2, WalkedIs
  <1>3. CASE p.pose = "impact"
    <2>1. F!Handled(h) = F!Impact
      BY <1>3 DEF F!Handled, F!InAir, F!Air
    <2> QED BY <2>1, <1>3, ImpactIs
  <1>4. CASE p.pose \in F!Air /\ ~on
    <2>1. F!Handled(h) = F!Vanilla
      BY <1>4 DEF F!Handled, F!InAir, F!Air
    <2> QED BY <2>1, <1>4, VanillaAirIs DEF F!InAir
  <1>5. CASE p.pose = "hop" /\ on
    <2>1. F!Handled(h) = {F!Hop(h)}
      BY <1>5 DEF F!Handled, F!InAir, F!Air
    <2> QED BY <2>1, <1>5, HopIs
  <1>6. CASE p.pose = "leap" /\ on
    <2>1. F!Handled(h) = {F!Leap(h)}
      BY <1>6 DEF F!Handled, F!InAir, F!Air
    <2>2. F!Takeoff(FALSE, h) \in Flights /\ F!Takeoff(FALSE, h).track = FALSE
      BY TakeoffIs
    <2>3. PICK g \in Flights : g = [F!Takeoff(FALSE, h) EXCEPT !.fire = TRUE]
      BY <2>2 DEF Flights
    <2>4. ~g.track
      BY <2>2, <2>3 DEF Flights
    <2>5. Leaves(F!Leap(h))
      BY <2>3, <2>4, RiseIs DEF F!Leap
    <2> QED BY <2>1, <2>5, <1>6, LeavesIsHanded DEF F!Air
  <1>7. CASE p.pose = "diagonal" /\ on
    <2>1. F!Handled(h) = {F!Diagonal(h)}
      BY <1>7 DEF F!Handled, F!InAir, F!Air
    <2>2. Leaves(F!Diagonal(h))
      BY TakeoffIs, RiseIs DEF F!Diagonal
    <2> QED BY <2>1, <2>2, <1>7, LeavesIsHanded DEF F!Air
  <1>8. CASE p.pose = "fall" /\ on
    <2>1. F!Handled(h) = {F!FallOn(h)}
      BY <1>8 DEF F!Handled, F!InAir, F!Air
    <2>2. Leaves(F!FallOn(h))
      BY FreshFallIs, FallIs DEF F!FallOn, Flying, OneFlight
    <2> QED BY <2>1, <2>2, <1>8, LeavesIsHanded DEF F!Air
  <1>9. CASE p.pose = "arc" /\ on
    <2>1. F!Handled(h) = F!Arcs(h)
      BY <1>9 DEF F!Handled, F!InAir, F!Air
    <2> QED BY <2>1, <1>9, TrackIs DEF F!Arcs
  <1> QED BY <1>1, <1>2, <1>3, <1>4, <1>5, <1>6, <1>7, <1>8, <1>9 DEF F!Air

-----------------------------------------------------------------------------
\* The terrain pass after a handler that left o.
Landed(pose) == on /\ ~F!InAir(pose)
Cost(o, pose) == IF o.p.pose = "arc" /\ pose = "ground" THEN Hurt(o.p.meter) ELSE 0

LEMMA FeetAre == ASSUME NEW q, q.pose \in Doings, NEW pose \in F!Feet(q) PROVE pose \in Doings
  BY DEF F!Feet, Doings, F!Air

LEMMA PassIs ==
  ASSUME Flying, NEW o, Handed(o), NEW h \in Hands, NEW pose \in F!Feet(o.p), NEW heal \in {0, Full - o.p.energy},
         NEW busy \in BOOLEAN, F!Pass(o.p, o.f, h, pose, heal, busy)
  PROVE  /\ f' \in Flights /\ f'.vx = o.f.vx /\ f'.vy = o.f.vy /\ f'.expect = o.f.expect
         /\ (f'.fly => o.f.fly /\ ~Landed(pose)) /\ (f'.track => o.f.track /\ ~Landed(pose))
         /\ p' \in Players /\ (F!InAir(p'.pose) \/ p'.pose = pose)
         /\ moved' \in BOOLEAN /\ (~moved' => p'.x = o.p.x)
         /\ LET e == F!Scaled(mode', o.p.energy, o.p.energy + heal - Cost(o, pose))
            IN p'.energy = IF e \in 1..Full THEN e ELSE Full
  <1> DEFINE e  == F!Scaled(mode', o.p.energy, o.p.energy + heal - Cost(o, pose))
             nx == F!Inside(o.p.x)
             ny == IF o.p.y > 0 THEN 0 ELSE o.p.y
             ne == IF e \in 1..Full THEN e ELSE Full
             np == IF on /\ F!Jump(h) /\ ~o.f.jump /\ "hop" \in h.held
                      /\ pose = "ground" /\ ~busy /\ F!Inside(o.p.x) \notin NoJump
                   THEN "hop" ELSE pose
  <1>1. o.p \in Players /\ o.f \in Flights /\ o.p.x \in Int /\ o.p.y \in Int /\ o.p.pose \in Doings
    BY DEF Handed, Players
  <1>2. nx \in Int /\ ny \in Int
    BY <1>1, Sizes DEF F!Inside
  <1>3. ne \in Int
    BY Sizes
  <1>4. np \in Doings /\ (F!InAir(np) \/ np = pose)
    BY <1>1, FeetAre DEF F!InAir, F!Air, Doings
  <1>5. p' = [o.p EXCEPT !.x = nx, !.y = ny, !.energy = ne, !.pose = np]
    BY DEF F!Pass, Cost
  <1>6. moved' = (nx # o.p.x)
    BY DEF F!Pass
  <1>7. PICK j \in BOOLEAN, a \in BOOLEAN, b \in BOOLEAN :
          /\ f' = [o.f EXCEPT !.jump = j, !.fly = a, !.track = b]
          /\ (a => o.f.fly /\ ~Landed(pose)) /\ (b => o.f.track /\ ~Landed(pose))
    <2>1. f' = [o.f EXCEPT !.jump = F!Jump(h), !.fly = @ /\ ~Landed(pose), !.track = @ /\ ~Landed(pose)]
      BY DEF F!Pass, Landed
    <2>2. PICK j \in BOOLEAN : j = F!Jump(h)
      BY DEF F!Jump
    <2>3. PICK a \in BOOLEAN : a = (o.f.fly /\ ~Landed(pose))
      OBVIOUS
    <2>4. PICK b \in BOOLEAN : b = (o.f.track /\ ~Landed(pose))
      OBVIOUS
    <2>5. f' = [o.f EXCEPT !.jump = j, !.fly = a, !.track = b]
      BY <2>1, <2>2, <2>3, <2>4
    <2> QED BY <2>3, <2>4, <2>5
  <1> HIDE DEF e, nx, ny, ne, np
  <1>8. f' \in Flights /\ f'.vx = o.f.vx /\ f'.vy = o.f.vy /\ f'.expect = o.f.expect /\ f'.fly = a /\ f'.track = b
    BY <1>1, <1>7 DEF Flights
  <1>9. p' \in Players /\ p'.x = nx /\ p'.pose = np /\ p'.energy = ne
    BY <1>1, <1>2, <1>3, <1>4, <1>5 DEF Players
  <1>10. moved' \in BOOLEAN /\ (~moved' => p'.x = o.p.x)
    BY <1>6, <1>9
  <1>11. p'.energy = IF e \in 1..Full THEN e ELSE Full
    BY <1>9 DEF ne
  <1> QED BY <1>4, <1>7, <1>8, <1>9, <1>10, <1>11 DEF e

\* A frame is a handler and a pass.
LEMMA FrameIs ==
  ASSUME Flying, OneFlight, NEW h \in Hands, F!Frame(h)
  PROVE  \E o \in F!Handled(h) : \E pose \in F!Feet(o.p), heal \in {0, Full - o.p.energy}, busy \in BOOLEAN :
           Handed(o) /\ F!Pass(o.p, o.f, h, pose, heal, busy)
  BY HandledIs DEF F!Frame

LEMMA FrameKeepsFlight ==
  ASSUME FlightInv, NEW h \in Hands, F!Frame(h)
  PROVE  FlightInv'
  <1>1. Flying /\ OneFlight
    BY DEF FlightInv
  <1>2. PICK o \in F!Handled(h) : \E pose \in F!Feet(o.p), heal \in {0, Full - o.p.energy}, busy \in BOOLEAN :
           Handed(o) /\ F!Pass(o.p, o.f, h, pose, heal, busy)
    BY <1>1, FrameIs
  <1>3. PICK pose \in F!Feet(o.p), heal \in {0, Full - o.p.energy}, busy \in BOOLEAN :
           Handed(o) /\ F!Pass(o.p, o.f, h, pose, heal, busy)
    BY <1>2
  <1>4. UNCHANGED <<on, shoes>> /\ arcs' = (F!InAir(p.pose) /\ (arcs \/ p.pose = "arc"))
    BY DEF F!Frame
  <1> DEFINE e == F!Scaled(mode', o.p.energy, o.p.energy + heal - Cost(o, pose))
  <1>5. /\ f' \in Flights /\ f'.vx = o.f.vx /\ f'.expect = o.f.expect
        /\ (f'.fly => o.f.fly /\ ~Landed(pose)) /\ (f'.track => o.f.track /\ ~Landed(pose))
        /\ p' \in Players /\ (F!InAir(p'.pose) \/ p'.pose = pose)
        /\ moved' \in BOOLEAN /\ (~moved' => p'.x = o.p.x)
        /\ p'.energy = IF e \in 1..Full THEN e ELSE Full
    BY <1>1, <1>3, PassIs
  <1> HIDE DEF e
  <1>6. /\ ~(o.f.fly /\ o.f.track)
        /\ o.f.fly /\ p.pose # "arc" => F!Magnitude(o.f.vx) <= Cap[shoes] /\ o.p.x \in o.f.expect
        /\ ~on \/ ~F!InAir(p.pose) => ~o.f.fly /\ ~o.f.track
    BY <1>3 DEF Handed
  <1>7. Flying'
    <2>1. p'.energy <= Full
      BY <1>5, Sizes
    <2>2. arcs' \in BOOLEAN
      BY <1>4
    <2> QED BY <1>1, <1>4, <1>5, <2>1, <2>2 DEF Flying
  <1>8. OneFlight'
    <2>1. ~(f'.fly /\ f'.track)
      BY <1>5, <1>6
    <2>2. ASSUME ~F!InAir(p'.pose) PROVE ~f'.fly /\ ~f'.track
      <3>1. ~F!InAir(pose)
        BY <1>5, <2>2
      <3> QED BY <3>1, <1>5, <1>6 DEF Landed
    <2> QED BY <2>1, <2>2 DEF OneFlight, F!InAir
  <1>9. OwnFlight'
    <2>1. ASSUME f'.fly, ~arcs' PROVE F!Magnitude(f'.vx) <= Cap[shoes] /\ (p'.x \in f'.expect \/ moved')
      <3>1. o.f.fly /\ F!InAir(p.pose) /\ p.pose # "arc"
        BY <2>1, <1>4, <1>5, <1>6
      <3> QED BY <3>1, <1>5, <1>6
    <2> QED BY <2>1, <1>4 DEF OwnFlight, F!Magnitude
  <1> QED BY <1>7, <1>8, <1>9 DEF FlightInv

LEMMA FlightSteps == ASSUME FlightInv, F!Next \/ UNCHANGED F!flight PROVE FlightInv'
  <1>1. CASE UNCHANGED F!flight
    BY <1>1 DEF F!flight, FlightInv, Flying, OneFlight, OwnFlight, F!InAir, F!Magnitude
  <1>2. CASE F!Toggle
    <2>1. on' \in BOOLEAN /\ UNCHANGED <<shoes, p, f, moved, arcs>>
      BY <1>2 DEF F!Toggle
    <2> QED BY <2>1 DEF FlightInv, Flying, OneFlight, OwnFlight, F!InAir, F!Magnitude
  <1> QED BY <1>1, <1>2, FrameKeepsFlight DEF F!Next

LEMMA FlightSafe == FlightInv => F!FlightOK
  BY DEF FlightInv, OneFlight, OwnFlight, F!FlightOK, F!TakesForWall, F!Native, F!InAir, F!Air

-----------------------------------------------------------------------------
\* What a landing costs.
LEMMA ScaledIs ==
  ASSUME NEW m, NEW before \in Int, NEW after \in Int
  PROVE  /\ F!Scaled(m, before, after) \in Int
         /\ after >= before => F!Scaled(m, before, after) >= before
         /\ m = "none" => F!Scaled(m, before, after) >= before
         /\ m = "light" => 2 * (before - F!Scaled(m, before, after)) <= (IF before - after > 0 THEN before - after ELSE 0) + 1
         /\ F!Scaled(m, before, after) = before \/ F!Scaled(m, before, after) >= after
  BY DEF F!Scaled

LEMMA LandingCosts ==
  ASSUME FlightInv, NEW h \in Hands, F!Frame(h), p'.energy < p.energy
  PROVE  /\ mode' # "none"
         /\ mode' = "light" => 2 * (p.energy - p'.energy) <= Hurt(IF p.pose = "impact" THEN p.meter ELSE Apex) + 1
  <1>1. Flying /\ OneFlight
    BY DEF FlightInv
  <1>2. PICK o \in F!Handled(h) : \E pose \in F!Feet(o.p), heal \in {0, Full - o.p.energy}, busy \in BOOLEAN :
           Handed(o) /\ F!Pass(o.p, o.f, h, pose, heal, busy)
    BY <1>1, FrameIs
  <1>3. PICK pose \in F!Feet(o.p), heal \in {0, Full - o.p.energy}, busy \in BOOLEAN :
           Handed(o) /\ F!Pass(o.p, o.f, h, pose, heal, busy)
    BY <1>2
  <1> DEFINE cost == Cost(o, pose)
             E == p.energy
             q == o.p.energy
             e == F!Scaled(mode', q, q + heal - cost)
  <1>4. p'.energy = IF e \in 1..Full THEN e ELSE Full
    BY <1>1, <1>3, PassIs
  <1>5. E \in Int /\ E <= Full /\ q \in Int /\ p.meter \in Meters /\ Full \in Int
    BY <1>1, <1>3, Sizes DEF Flying, Handed, Players
  <1>6. /\ o.p.energy = IF p.pose = "impact" THEN F!Scaled(mode', E, E - Hurt(p.meter)) ELSE E
        /\ o.p.pose = "arc" => p.pose = "arc" /\ o.p.meter = Apex
    BY <1>3 DEF Handed
  <1>7. Hurt(p.meter) \in Nat /\ Hurt(Apex) \in Nat
    BY <1>5, FlightAssumed, Sizes DEF F!FlightAssumption, Meters
  <1>8. cost = 0 \/ (cost = Hurt(Apex) /\ p.pose = "arc")
    BY <1>6 DEF Cost
  <1> HIDE DEF cost
  <1>9. heal \in Int /\ cost \in Int /\ q + heal - cost \in Int
    BY <1>5, <1>7, <1>8
  <1>10. e \in Int
    BY <1>5, <1>9, ScaledIs
  <1>11. p'.energy = e
    BY <1>4, <1>5
  <1>12. CASE p.pose = "impact"
    <2>1. q = F!Scaled(mode', E, E - Hurt(p.meter)) /\ cost = 0
      BY <1>6, <1>8, <1>12
    <2>2. q <= E
      BY <1>5, <1>7, <2>1 DEF F!Scaled
    <2>3. heal >= 0
      BY <1>5, <2>2
    <2>4. e >= q
      BY <1>5, <1>9, <2>1, <2>3, ScaledIs
    <2>5. mode' = "none" => q >= E
      BY <1>5, <1>7, <2>1, ScaledIs
    <2>6. mode' = "light" => 2 * (E - q) <= Hurt(p.meter) + 1
      BY <1>5, <1>7, <2>1, ScaledIs
    <2> HIDE DEF e, q
    <2> QED BY <1>5, <1>7, <1>10, <1>11, <1>12, <2>4, <2>5, <2>6
  <1>13. CASE p.pose # "impact"
    <2>1. q = E /\ heal >= 0
      BY <1>5, <1>6, <1>13
    <2>2. cost = Hurt(Apex)
      <3>1. ASSUME cost = 0 PROVE FALSE
        <4>1. e >= q
          BY <1>5, <1>9, <2>1, <3>1, ScaledIs
        <4> HIDE DEF e
        <4> QED BY <4>1, <2>1, <1>5, <1>10, <1>11
      <3> QED BY <3>1, <1>8
    <2>3. mode' = "none" => e >= q
      BY <1>5, <1>9, ScaledIs
    <2>4. mode' = "light" => 2 * (q - e) <= (IF q - (q + heal - cost) > 0 THEN q - (q + heal - cost) ELSE 0) + 1
      BY <1>5, <1>9, ScaledIs
    <2> HIDE DEF e, q
    <2> QED BY <1>5, <1>7, <1>9, <1>10, <1>11, <1>13, <2>1, <2>2, <2>3, <2>4
  <1> QED BY <1>12, <1>13

\* A rise only slows.
LEMMA RiseSlows ==
  ASSUME FlightInv, NEW h \in Hands, F!Frame(h), F!Native, p.pose = "hop", F!InAir(prev), f.vy < 0
  PROVE  f'.vy > f.vy
  <1>1. Flying /\ OneFlight
    BY DEF FlightInv
  <1>2. PICK o \in F!Handled(h) : \E pose \in F!Feet(o.p), heal \in {0, Full - o.p.energy}, busy \in BOOLEAN :
           Handed(o) /\ F!Pass(o.p, o.f, h, pose, heal, busy)
    BY <1>1, FrameIs
  <1>3. PICK pose \in F!Feet(o.p), heal \in {0, Full - o.p.energy}, busy \in BOOLEAN :
           Handed(o) /\ F!Pass(o.p, o.f, h, pose, heal, busy)
    BY <1>2
  <1>4. f'.vy = o.f.vy
    BY <1>1, <1>3, PassIs
  <1> QED BY <1>3, <1>4 DEF Handed, F!Native

LEMMA FlightStepHolds == ASSUME FlightInv, F!Next \/ UNCHANGED F!flight PROVE F!FlightStep
  <1>1. ASSUME F!Native, p.pose = "hop", F!InAir(prev), f.vy < 0, on' PROVE f'.vy > f.vy \/ UNCHANGED p
    <2>1. ~F!Toggle
      BY <1>1 DEF F!Toggle, F!Native
    <2> QED BY <1>1, <2>1, RiseSlows DEF F!Next, F!flight
  <1>2. ASSUME p'.energy < p.energy
        PROVE  /\ mode' # "none"
               /\ mode' = "light" => 2 * (p.energy - p'.energy) <= Hurt(IF p.pose = "impact" THEN p.meter ELSE Apex) + 1
    <2>1. p.energy \in Int
      BY DEF FlightInv, Flying, Players
    <2>2. ~UNCHANGED p
      BY <1>2, <2>1
    <2> QED BY <1>2, <2>2, LandingCosts DEF F!Next, F!Toggle, F!flight
  <1> QED BY <1>1, <1>2 DEF F!FlightStep

-----------------------------------------------------------------------------
(* The levels. *)

\* The layout as functions over the numbers of worlds.
CountOf == [w \in Nat |-> L!VanillaIn(w)]
InWorld == [w \in Nat |-> L!LevelsIn(w)]
Taken   == [w \in Nat |-> 0 - L!LevelsIn(w)]
First   == CHOOSE g : Sums(InWorld, 1, g)
Drops(z, g) == g = [v \in Nat |-> IF v = 0 THEN z ELSE g[v - 1] - L!LevelsIn(v - 1)]
Left(lev) == CHOOSE g : Drops(lev - 1, g)

Disks == SUBSET (0..Slots - 1)

LEMMA Given ==
  /\ Counts \in Seq(Nat \ {0}) /\ Len(Counts) \in Nat /\ Len(Counts) > 0
  /\ PerExtra \in Nat /\ PerExtra > 0 /\ Slots \in Nat /\ Faults \in Nat
  /\ \A w \in 0..Len(Counts) - 1 : Counts[w + 1] \in Nat /\ Counts[w + 1] > 0
  <1>1. Counts \in Seq(Nat \ {0}) /\ Counts # <<>>
    BY LevelsAssumed DEF L!LevelsAssumption
  <1>2. Len(Counts) \in Nat /\ Len(Counts) > 0
    BY <1>1
  <1>3. ASSUME NEW w \in 0..Len(Counts) - 1 PROVE Counts[w + 1] \in Nat \ {0}
    <2>1. w + 1 \in 1..Len(Counts)
      BY <1>2
    <2> QED BY <1>1, <2>1
  <1>4. PerExtra \in Nat \ {0} /\ Slots \in Nat /\ Faults \in Nat
    BY LevelsAssumed DEF L!LevelsAssumption
  <1> QED BY <1>1, <1>2, <1>3, <1>4

ExtrasOf(d) == CHOOSE n \in 0..Slots : 0..n - 1 \subseteq d /\ n \notin d

LEMMA ExtrasOfAre == ASSUME NEW d \in Disks PROVE ExtrasOf(d) \in 0..Slots
  <1> DEFINE T == {n \in Nat : n \notin d}
             Q(n) == 0..n - 1 \subseteq d /\ n \notin d
  <1>1. Slots \in T /\ T \subseteq Nat
    BY Given DEF Disks
  <1>2. PICK n \in T : \A m \in T : n <= m
    BY <1>1, Least
  <1>3. n \in 0..Slots
    BY <1>1, <1>2, Given
  <1>4. ASSUME NEW m \in 0..n - 1 PROVE m \in d
    BY <1>2, <1>3, <1>4
  <1>5. Q(n)
    BY <1>2, <1>4
  <1>6. ExtrasOf(d) = CHOOSE k \in 0..Slots : Q(k)
    BY DEF ExtrasOf
  <1> HIDE DEF Q
  <1> QED BY <1>3, <1>5, <1>6

LEMMA ExtrasAre == ASSUME disk \in Disks PROVE L!Extras \in 0..Slots
  BY ExtrasOfAre DEF L!Extras, ExtrasOf

\* A world of the layout has a level; there are none beside it.
LEMMA WorldsAre ==
  ASSUME disk \in Disks
  PROVE  /\ L!Worlds \in Nat /\ L!Worlds > 0 /\ L!Worlds = Len(Counts) + L!Extras /\ L!Extras \in Nat /\ L!Extras <= Slots
         /\ \A w \in Nat : L!VanillaIn(w) \in Nat /\ L!LevelsIn(w) \in Nat
         /\ \A w \in 0..L!Worlds - 1 : L!LevelsIn(w) > 0
         /\ \A w \in 0..Len(Counts) - 1 : L!LevelsIn(w) = L!VanillaIn(w)
         /\ \A w \in Len(Counts)..L!Worlds - 1 : L!LevelsIn(w) = PerExtra
         /\ CountOf \in [Nat -> Int] /\ InWorld \in [Nat -> Int] /\ Taken \in [Nat -> Int]
  <1>1. L!Worlds \in Nat /\ L!Worlds > 0 /\ L!Worlds = Len(Counts) + L!Extras /\ L!Extras \in Nat /\ L!Extras <= Slots
    BY ExtrasAre, Given DEF L!Worlds
  <1>2. ASSUME NEW w \in Nat PROVE L!VanillaIn(w) \in Nat /\ (w < Len(Counts) => L!VanillaIn(w) > 0)
    <2>1. CASE w \in 0..Len(Counts) - 1
      BY <2>1, Given DEF L!VanillaIn
    <2>2. CASE w \notin 0..Len(Counts) - 1
      BY <2>2, Given DEF L!VanillaIn
    <2> QED BY <2>1, <2>2
  <1>3. ASSUME NEW w \in Nat
        PROVE  L!LevelsIn(w) = IF w >= Len(Counts) /\ w < L!Worlds THEN PerExtra ELSE L!VanillaIn(w)
    BY <1>1, Given DEF L!LevelsIn
  <1>4. \A w \in Nat : L!LevelsIn(w) \in Nat /\ (w < L!Worlds => L!LevelsIn(w) > 0)
    <2> SUFFICES ASSUME NEW w \in Nat PROVE L!LevelsIn(w) \in Nat /\ (w < L!Worlds => L!LevelsIn(w) > 0)
      OBVIOUS
    <2>1. CASE w >= Len(Counts) /\ w < L!Worlds
      BY <2>1, <1>3, Given
    <2>2. CASE ~(w >= Len(Counts) /\ w < L!Worlds)
      <3>1. L!LevelsIn(w) = L!VanillaIn(w) /\ (w < L!Worlds => w < Len(Counts))
        BY <2>2, <1>1, <1>3, Given
      <3> QED BY <3>1, <1>2
    <2> QED BY <2>1, <2>2
  <1>5. CountOf \in [Nat -> Int] /\ InWorld \in [Nat -> Int] /\ Taken \in [Nat -> Int]
    BY <1>2, <1>4 DEF CountOf, InWorld, Taken
  <1>6. \A w \in 0..L!Worlds - 1 : L!LevelsIn(w) > 0
    BY <1>1, <1>4
  <1>7. \A w \in 0..Len(Counts) - 1 : L!LevelsIn(w) = L!VanillaIn(w)
    BY <1>3, Given
  <1>8. \A w \in Len(Counts)..L!Worlds - 1 : L!LevelsIn(w) = PerExtra
    BY <1>1, <1>3, Given
  <1> QED BY <1>1, <1>2, <1>4, <1>5, <1>6, <1>7, <1>8

LEMMA FirstsAre ==
  ASSUME disk \in Disks
  PROVE  /\ First \in [Nat -> Int] /\ First[0] = 1
         /\ \A w \in Nat : First[w + 1] = First[w] + L!LevelsIn(w)
         /\ \A w \in 0..L!Worlds - 1 : L!FirstLevel(w) = First[w]
  <1>5. InWorld \in [Nat -> Int] /\ L!Worlds \in Nat
    BY WorldsAre
  <1>1. Sums(InWorld, 1, First)
    BY <1>5, SumsExist DEF First
  <1>2. \A w \in Nat : InWorld[w] = L!LevelsIn(w)
    BY DEF InWorld
  <1>3. ASSUME NEW w \in 0..L!Worlds - 1 PROVE L!FirstLevel(w) = First[w]
    <2> DEFINE P(g) == g = [v \in Nat |-> IF v = 0 THEN 1 ELSE g[v - 1] + L!LevelsIn(v - 1)]
    <2>1. L!FirstLevel(w) = (CHOOSE g : P(g))[w]
      BY <1>3 DEF L!FirstLevel
    <2>2. \A g : P(g) <=> Sums(InWorld, 1, g)
      <3> SUFFICES ASSUME NEW g
                   PROVE  [v \in Nat |-> IF v = 0 THEN 1 ELSE g[v - 1] + L!LevelsIn(v - 1)]
                          = [v \in Nat |-> IF v = 0 THEN 1 ELSE g[v - 1] + InWorld[v - 1]]
        BY DEF Sums
      <3>1. \A v \in Nat : v # 0 => L!LevelsIn(v - 1) = InWorld[v - 1]
        BY <1>2
      <3> QED BY <3>1
    <2> HIDE DEF P
    <2>3. (CHOOSE g : P(g)) = CHOOSE g : Sums(InWorld, 1, g)
      BY <2>2
    <2> QED BY <2>1, <2>3 DEF First
  <1>4. \A w \in Nat : First[w + 1] = First[w] + InWorld[w]
    BY <1>1, <1>5, SumsAre
  <1>6. First \in [Nat -> Int] /\ First[0] = 1
    BY <1>1, <1>5, SumsAre
  <1> QED BY <1>2, <1>3, <1>4, <1>6

\* The levels before a world, whatever is on Disk.4.
LEMMA VanillaIs ==
  ASSUME disk \in Disks
  PROVE  L!Vanilla \in Nat /\ L!Vanilla > 0 /\ First[Len(Counts)] = 1 + L!Vanilla
  <1> DEFINE P(g) == g = [v \in Nat |-> IF v = 0 THEN 0 ELSE g[v - 1] + L!VanillaIn(v - 1)]
             sum == CHOOSE g : Sums(CountOf, 0, g)
  <1>1. L!Vanilla = (CHOOSE g : P(g))[Len(Counts)]
    BY DEF L!Vanilla
  <1>2. \A w \in Nat : CountOf[w] = L!VanillaIn(w)
    BY DEF CountOf
  <1>3. \A g : P(g) <=> Sums(CountOf, 0, g)
    <2> SUFFICES ASSUME NEW g
                 PROVE  [v \in Nat |-> IF v = 0 THEN 0 ELSE g[v - 1] + L!VanillaIn(v - 1)]
                        = [v \in Nat |-> IF v = 0 THEN 0 ELSE g[v - 1] + CountOf[v - 1]]
      BY DEF Sums
    <2>1. \A v \in Nat : v # 0 => L!VanillaIn(v - 1) = CountOf[v - 1]
      BY <1>2
    <2> QED BY <2>1
  <1> HIDE DEF P
  <1>4. (CHOOSE g : P(g)) = sum
    BY <1>3
  <1>5. CountOf \in [Nat -> Int]
    BY WorldsAre
  <1>6. Sums(CountOf, 0, sum)
    BY <1>5, SumsExist
  <1> HIDE DEF sum
  <1>7. sum \in [Nat -> Int] /\ sum[0] = 0 /\ \A v \in Nat : sum[v + 1] = sum[v] + L!VanillaIn(v)
    BY <1>2, <1>5, <1>6, SumsAre
  <1>12. L!Worlds = Len(Counts) + L!Extras /\ L!Extras \in Nat /\ Len(Counts) \in Nat
    BY Given, WorldsAre
  <1> DEFINE S == {w \in Nat : w <= Len(Counts) => First[w] = 1 + sum[w] /\ sum[w] >= 0 /\ (w > 0 => sum[w] > 0)}
  <1>8. 0 \in S
    <2>1. First[0] = 1 + sum[0] /\ sum[0] >= 0 /\ ~(0 > 0)
      BY <1>7, FirstsAre
    <2> QED BY <2>1
  <1>9. ASSUME NEW w \in Nat, w \in S PROVE w + 1 \in S
    <2>1. ASSUME w + 1 <= Len(Counts) PROVE First[w + 1] = 1 + sum[w + 1] /\ sum[w + 1] > 0
      <3>1. w \in 0..Len(Counts) - 1 /\ w \in 0..L!Worlds - 1
        BY <2>1, <1>12
      <3>2. L!LevelsIn(w) = L!VanillaIn(w) /\ L!LevelsIn(w) > 0 /\ L!LevelsIn(w) \in Nat
        BY <3>1, WorldsAre
      <3>3. First[w] = 1 + sum[w] /\ sum[w] >= 0 /\ sum[w] \in Int
        <4>1. w <= Len(Counts) /\ sum[w] \in Int
          <5>1. sum[w] \in Int
            BY <1>7
          <5>2. w <= Len(Counts)
            BY <1>12, <2>1
          <5> QED BY <5>1, <5>2
        <4> QED BY <1>9, <4>1
      <3>4. First[w + 1] = First[w] + L!LevelsIn(w) /\ sum[w + 1] = sum[w] + L!VanillaIn(w)
        BY <1>7, FirstsAre
      <3> QED BY <3>2, <3>3, <3>4
    <2>2. ASSUME w + 1 <= Len(Counts) PROVE sum[w + 1] >= 0
      BY <1>7, <2>1, <2>2
    <2> QED BY <2>1, <2>2
  <1> HIDE DEF S
  <1>10. Len(Counts) \in S
    BY <1>8, <1>9, SetInduction, Given
  <1>11. L!Vanilla = sum[Len(Counts)] /\ sum[Len(Counts)] \in Int
    BY <1>1, <1>4, <1>7, Given
  <1> QED BY <1>10, <1>11, Given DEF S

\* Worlds follow one another, up to the last level.
LEMMA FirstsGrow ==
  ASSUME disk \in Disks
  PROVE  /\ \A u, v \in Nat : u <= v => First[u] <= First[v]
         /\ \A u, v \in 0..L!Worlds : u < v => First[u] < First[v]
  <1>1. \A w \in Nat : First[w] \in Int /\ First[w + 1] = First[w] + L!LevelsIn(w) /\ L!LevelsIn(w) \in Nat
    BY FirstsAre, WorldsAre
  <1>2. \A w \in 0..L!Worlds - 1 : L!LevelsIn(w) > 0 /\ L!Worlds \in Nat
    BY WorldsAre
  <1>4. L!Worlds \in Nat
    BY WorldsAre
  <1>3. ASSUME NEW u \in Nat
        PROVE  \A v \in Nat : u <= v => First[u] <= First[v] /\ (u < v /\ v <= L!Worlds => First[u] < First[v])
    <2> DEFINE S == {v \in Nat : u <= v => First[u] <= First[v] /\ (u < v /\ v <= L!Worlds => First[u] < First[v])}
    <2>1. 0 \in S
      BY <1>1
    <2>2. ASSUME NEW v \in Nat, v \in S PROVE v + 1 \in S
      <3>1. ASSUME u <= v + 1 PROVE First[u] <= First[v + 1] /\ (u < v + 1 /\ v + 1 <= L!Worlds => First[u] < First[v + 1])
        <4>1. CASE u = v + 1
          BY <4>1, <1>1
        <4>2. CASE u <= v
          <5>1. First[u] <= First[v] /\ First[u] \in Int /\ First[v] \in Int /\ First[v + 1] = First[v] + L!LevelsIn(v)
                /\ L!LevelsIn(v) \in Nat
            BY <4>2, <2>2, <1>1
          <5>2. v + 1 <= L!Worlds => L!LevelsIn(v) > 0
            <6>1. ASSUME v + 1 <= L!Worlds PROVE v \in 0..L!Worlds - 1
              BY <6>1, <1>4
            <6> QED BY <6>1, <1>2
          <5> QED BY <5>1, <5>2
        <4> QED BY <3>1, <4>1, <4>2
      <3> QED BY <3>1
    <2> HIDE DEF S
    <2>3. Nat \subseteq S
      BY <2>1, <2>2, SetInduction
    <2> QED BY <2>3 DEF S
  <1> QED BY <1>3, <1>4

LEMMA LastLevel ==
  ASSUME disk \in Disks
  PROVE  L!NumLevels \in Nat /\ L!NumLevels >= L!Vanilla /\ First[L!Worlds] = 1 + L!NumLevels
  <1> DEFINE N == Len(Counts)
             S == {k \in Nat : k <= L!Extras => First[N + k] = 1 + L!Vanilla + PerExtra * k}
  <1>1. N \in Nat /\ L!Extras \in Nat /\ PerExtra \in Nat /\ L!Vanilla \in Nat /\ L!Worlds = N + L!Extras
    BY Given, WorldsAre, VanillaIs
  <1> HIDE DEF N
  <1>2. 0 \in S
    <2>1. N + 0 = N /\ PerExtra * 0 = 0
      BY <1>1
    <2> QED BY <2>1, <1>1, VanillaIs DEF N
  <1>3. ASSUME NEW k \in Nat, k \in S PROVE k + 1 \in S
    <2>1. ASSUME k + 1 <= L!Extras PROVE First[N + (k + 1)] = 1 + L!Vanilla + PerExtra * (k + 1)
      <3>1. k <= L!Extras /\ N + k \in N..L!Worlds - 1 /\ N + k \in Nat /\ N + (k + 1) = (N + k) + 1
        BY <1>1, <2>1
      <3>2. L!LevelsIn(N + k) = PerExtra
        BY <3>1, WorldsAre DEF N
      <3>3. First[N + k] = 1 + L!Vanilla + PerExtra * k
        BY <3>1, <1>3
      <3>4. First[N + (k + 1)] = First[N + k] + PerExtra
        BY <3>1, <3>2, FirstsAre
      <3>5. PICK a \in Nat : a = PerExtra * k /\ PerExtra * (k + 1) = a + PerExtra
        BY <1>1
      <3> QED BY <1>1, <3>3, <3>4, <3>5
    <2> QED BY <2>1
  <1> HIDE DEF S
  <1>4. L!Extras \in S
    BY <1>1, <1>2, <1>3, SetInduction
  <1>5. PICK a \in Nat : a = PerExtra * L!Extras
    BY <1>1
  <1> QED BY <1>1, <1>4, <1>5 DEF S, L!NumLevels

\* What pc_level_split has left is the distance from the world's first level.
LEMMA LeftIs ==
  ASSUME disk \in Disks, NEW lev \in Int
  PROVE  \A w \in Nat : Left(lev)[w] = lev - First[w]
  <1>1. Taken \in [Nat -> Int] /\ (\A w \in Nat : L!LevelsIn(w) \in Nat /\ Taken[w] = 0 - L!LevelsIn(w))
    BY WorldsAre DEF Taken
  <1>2. PICK g : Sums(Taken, lev - 1, g)
    BY <1>1, SumsExist
  <1>3. g \in [Nat -> Int]
    BY <1>1, <1>2, SumsAre
  <1>4. Drops(lev - 1, g)
    <2>1. \A v \in Nat : v # 0 => g[v - 1] + Taken[v - 1] = g[v - 1] - L!LevelsIn(v - 1)
      <3> SUFFICES ASSUME NEW v \in Nat, v # 0 PROVE g[v - 1] + Taken[v - 1] = g[v - 1] - L!LevelsIn(v - 1)
        OBVIOUS
      <3>1. v - 1 \in Nat
        OBVIOUS
      <3>2. g[v - 1] \in Int /\ L!LevelsIn(v - 1) \in Nat /\ Taken[v - 1] = 0 - L!LevelsIn(v - 1)
        BY <3>1, <1>1, <1>3
      <3> QED BY <3>2
    <2>2. [v \in Nat |-> IF v = 0 THEN lev - 1 ELSE g[v - 1] + Taken[v - 1]]
          = [v \in Nat |-> IF v = 0 THEN lev - 1 ELSE g[v - 1] - L!LevelsIn(v - 1)]
      BY <2>1
    <2> QED BY <1>2, <2>2 DEF Sums, Drops
  <1>5. Drops(lev - 1, Left(lev))
    BY <1>4 DEF Left
  <1> DEFINE l == Left(lev)
             S == {w \in Nat : l[w] = lev - First[w]}
  <1>6. l[0] = lev - 1 /\ \A w \in Nat : l[w + 1] = l[w] - L!LevelsIn(w)
    <2> HIDE DEF l
    <2>1. ASSUME NEW w \in Nat PROVE l[w + 1] = l[w] - L!LevelsIn(w)
      <3>1. w + 1 \in Nat /\ w + 1 # 0 /\ (w + 1) - 1 = w
        OBVIOUS
      <3> QED BY <3>1, <1>5 DEF Drops, l
    <2> QED BY <2>1, <1>5 DEF Drops, l
  <1>7. 0 \in S
    BY <1>6, FirstsAre
  <1>8. ASSUME NEW w \in Nat, w \in S PROVE w + 1 \in S
    <2>1. First[w] \in Int /\ First[w + 1] = First[w] + L!LevelsIn(w) /\ L!LevelsIn(w) \in Nat
      BY FirstsAre, <1>1
    <2> QED BY <2>1, <1>6, <1>8
  <1> HIDE DEF S
  <1>9. Nat \subseteq S
    BY <1>7, <1>8, SetInduction
  <1> QED BY <1>9 DEF S

\* pc_level_split finds the one world that the level lies in.
LEMMA SplitIs ==
  ASSUME disk \in Disks, NEW lev \in 1..L!NumLevels
  PROVE  /\ L!Split(lev).world \in 0..L!Worlds - 1
         /\ L!Split(lev).liw \in Nat /\ L!Split(lev).liw < L!LevelsIn(L!Split(lev).world)
         /\ First[L!Split(lev).world] + L!Split(lev).liw = lev
         /\ \A w \in 0..L!Worlds - 1 : First[w] <= lev /\ lev < First[w + 1] => w = L!Split(lev).world
  <1>1. /\ L!Worlds \in Nat /\ L!Worlds > 0 /\ L!NumLevels \in Nat /\ lev \in Int /\ 1 <= lev /\ lev <= L!NumLevels
        /\ First[0] = 1 /\ First[L!Worlds] = 1 + L!NumLevels
    BY WorldsAre, LastLevel, FirstsAre
  <1>2. \A w \in Nat : First[w] \in Int /\ First[w + 1] = First[w] + L!LevelsIn(w) /\ L!LevelsIn(w) \in Nat
    BY FirstsAre, WorldsAre
  <1>3. \A w \in Nat : Left(lev)[w] = lev - First[w]
    BY <1>1, LeftIs
  <1> DEFINE Q(w) == Left(lev)[w] < L!LevelsIn(w) /\ \A v \in 0..w - 1 : Left(lev)[v] >= L!LevelsIn(v)
             W == CHOOSE w \in 0..L!Worlds - 1 : Q(w)
             T == {w \in Nat : lev < First[w + 1]}
  <1>4. L!Split(lev) = [world |-> W, liw |-> Left(lev)[W]]
    <2> DEFINE P(g) == g = [w \in Nat |-> IF w = 0 THEN lev - 1 ELSE g[w - 1] - L!LevelsIn(w - 1)]
               l == CHOOSE g : P(g)
               World(w) == l[w] < L!LevelsIn(w) /\ \A v \in 0..w - 1 : l[v] >= L!LevelsIn(v)
    <2>1. L!Split(lev) = [world |-> CHOOSE w \in 0..L!Worlds - 1 : World(w),
                            liw |-> l[CHOOSE w \in 0..L!Worlds - 1 : World(w)]]
      BY <1>1 DEF L!Split
    <2>3. l = Left(lev)
      BY DEF Left, Drops
    <2> HIDE DEF l
    <2> QED BY <2>1, <2>3
  <1>5. \E w \in 0..L!Worlds - 1 : Q(w)
    <2>1. L!Worlds - 1 \in T /\ T \subseteq Nat
      <3>1. L!Worlds - 1 \in Nat /\ (L!Worlds - 1) + 1 = L!Worlds
        BY <1>1
      <3> QED BY <1>1, <3>1
    <2>2. PICK w \in T : \A v \in T : w <= v
      BY <2>1, Least
    <2>3. w \in Nat /\ w \in 0..L!Worlds - 1 /\ lev < First[w + 1]
      <3>1. w <= L!Worlds - 1 /\ w \in Nat
        BY <2>1, <2>2
      <3> QED BY <3>1, <2>2, <1>1
    <2>4. ASSUME NEW v \in 0..w - 1 PROVE Left(lev)[v] >= L!LevelsIn(v)
      <3>1. v \in Nat /\ v < w
        BY <2>3
      <3>2. v \notin T
        BY <2>2, <3>1
      <3>3. ~(lev < First[v + 1])
        BY <3>1, <3>2
      <3>4. First[v + 1] = First[v] + L!LevelsIn(v) /\ First[v] \in Int /\ L!LevelsIn(v) \in Nat /\ Left(lev)[v] = lev - First[v]
        BY <1>2, <1>3, <3>1
      <3> QED BY <3>3, <3>4, <1>1
    <2>5. Left(lev)[w] < L!LevelsIn(w)
      <3>1. First[w + 1] = First[w] + L!LevelsIn(w) /\ First[w] \in Int /\ L!LevelsIn(w) \in Nat /\ Left(lev)[w] = lev - First[w]
        BY <1>2, <1>3, <2>3
      <3> QED BY <3>1, <2>3, <1>1
    <2> QED BY <2>3, <2>4, <2>5
  <1>6. W \in 0..L!Worlds - 1 /\ Q(W)
    <2> HIDE DEF Q
    <2> QED BY <1>5
  <1> HIDE DEF W
  <1>7. W \in Nat /\ W <= L!Worlds - 1
    BY <1>1, <1>6
  <1>8. First[W] <= lev
    <2>1. CASE W = 0
      BY <2>1, <1>1
    <2>2. CASE W # 0
      <3>1. W - 1 \in 0..W - 1 /\ W - 1 \in Nat /\ (W - 1) + 1 = W
        BY <2>2, <1>7
      <3>2. Left(lev)[W - 1] >= L!LevelsIn(W - 1)
        BY <1>6, <3>1
      <3>3. First[W] = First[W - 1] + L!LevelsIn(W - 1) /\ First[W - 1] \in Int /\ L!LevelsIn(W - 1) \in Nat
            /\ Left(lev)[W - 1] = lev - First[W - 1]
        BY <1>2, <1>3, <3>1
      <3> QED BY <3>2, <3>3, <1>1
    <2> QED BY <2>1, <2>2
  <1>9. First[W] \in Int /\ L!LevelsIn(W) \in Nat /\ Left(lev)[W] = lev - First[W] /\ Left(lev)[W] < L!LevelsIn(W)
        /\ First[W + 1] = First[W] + L!LevelsIn(W)
    BY <1>2, <1>3, <1>6, <1>7
  <1>10. ASSUME NEW w \in 0..L!Worlds - 1, First[w] <= lev, lev < First[w + 1] PROVE w = W
    <2>1. w \in Nat
      BY <1>1
    <2>2. ~(w < W)
      <3>1. ASSUME w < W PROVE FALSE
        <4>1. w + 1 <= W /\ w + 1 \in Nat
          BY <3>1, <2>1, <1>7
        <4>2. First[w + 1] <= First[W] /\ First[w + 1] \in Int
          BY <4>1, <1>7, <1>2, FirstsGrow
        <4> QED BY <4>2, <1>8, <1>9, <1>10, <1>1
      <3> QED BY <3>1
    <2>3. ~(W < w)
      <3>1. ASSUME W < w PROVE FALSE
        <4>1. W + 1 <= w /\ W + 1 \in Nat
          BY <3>1, <2>1, <1>7
        <4>2. First[W + 1] <= First[w] /\ First[w] \in Int
          BY <4>1, <2>1, <1>2, FirstsGrow
        <4> QED BY <4>2, <1>9, <1>10, <1>1
      <3> QED BY <3>1
    <2> QED BY <2>1, <2>2, <2>3, <1>7
  <1>11. L!Split(lev).world = W /\ L!Split(lev).liw = Left(lev)[W]
    BY <1>4
  <1> QED BY <1>1, <1>6, <1>8, <1>9, <1>10, <1>11

\* The first level of a world splits into that world, and no level before or after the layout into any.
LEMMA FirstSplits ==
  ASSUME disk \in Disks, NEW w \in 0..L!Worlds - 1
  PROVE  L!FirstLevel(w) \in 1..L!NumLevels /\ L!Split(L!FirstLevel(w)).world = w
  <1>1. L!Worlds \in Nat /\ w \in Nat /\ w < L!Worlds /\ w + 1 <= L!Worlds /\ L!NumLevels \in Nat
    <2>1. L!Worlds \in Nat /\ L!NumLevels \in Nat
      BY WorldsAre, LastLevel
    <2> QED BY <2>1
  <1>2. First[w] \in Int /\ First[w + 1] = First[w] + L!LevelsIn(w) /\ L!LevelsIn(w) \in Nat /\ L!FirstLevel(w) = First[w]
        /\ First[0] = 1
    BY <1>1, FirstsAre, WorldsAre
  <1>3. L!LevelsIn(w) > 0
    BY WorldsAre
  <1>4. First[0] <= First[w]
    BY <1>1, FirstsGrow
  <1>5. First[w + 1] <= First[L!Worlds]
    BY <1>1, FirstsGrow
  <1>6. First[L!Worlds] = 1 + L!NumLevels
    BY LastLevel
  <1>7. L!FirstLevel(w) \in 1..L!NumLevels /\ First[w] <= L!FirstLevel(w) /\ L!FirstLevel(w) < First[w + 1]
    BY <1>1, <1>2, <1>3, <1>4, <1>5, <1>6
  <1> QED BY <1>7, SplitIs

LEMMA LayoutRuns ==
  ASSUME disk \in Disks, NEW l \in 1..L!NumLevels
  PROVE  LET c == L!Split(l) IN L!FirstLevel(c.world) + c.liw = l /\ c.liw < L!LevelsIn(c.world)
  <1>1. L!Split(l).world \in 0..L!Worlds - 1 /\ L!Split(l).liw < L!LevelsIn(L!Split(l).world)
        /\ First[L!Split(l).world] + L!Split(l).liw = l
    BY SplitIs
  <1>2. L!FirstLevel(L!Split(l).world) = First[L!Split(l).world]
    BY <1>1, FirstsAre
  <1> QED BY <1>1, <1>2

\* A run of slots that names every level once.
LEMMA TableNamesOnce ==
  ASSUME NEW run \in Seq(Int), NEW n \in Nat, L!IsTable(run, n)
  PROVE  \A i, j \in 1..n : run[i] = run[j] => i = j
  <1> DEFINE names == [k \in 1..n |-> run[k]]
  <1>1. names \in [1..n -> 0..n - 1] /\ \A k \in 0..n - 1 : \E i \in 1..n : names[i] = k
    BY DEF L!IsTable
  <1>2. names \in Surjection(1..n, 0..n - 1)
    BY <1>1 DEF Surjection
  <1>3. IsFiniteSet(1..n) /\ Cardinality(1..n) = n /\ IsFiniteSet(0..n - 1) /\ Cardinality(0..n - 1) = n
    <2>1. IsFiniteSet(1..n) /\ Cardinality(1..n) = IF 1 > n THEN 0 ELSE n - 1 + 1
      BY FS_Interval
    <2>2. IsFiniteSet(0..n - 1) /\ Cardinality(0..n - 1) = IF 0 > n - 1 THEN 0 ELSE (n - 1) - 0 + 1
      BY FS_Interval
    <2> QED BY <2>1, <2>2
  <1>4. names \in Injection(1..n, 0..n - 1)
    BY <1>2, <1>3, FS_SurjSameCardinalityImpliesInj
  <1> QED BY <1>4 DEF Injection, IsInjective

LEMMA SlotsDiffer ==
  ASSUME NEW runs \in Tables, NEW n \in Nat, NEW i \in 0..n - 1, NEW j \in 0..n - 1,
         L!Slot(runs, n, i) = L!Slot(runs, n, j)
  PROVE  i = j
  <1> DEFINE found == {k \in 1..Len(runs) : L!IsTable(runs[k], n)}
             M(k) == \A m \in found : k <= m
             first == CHOOSE k \in found : M(k)
  <1>1. runs \in Seq(Seq(Int))
    BY LevelsAssumed DEF L!LevelsAssumption
  <1>2. CASE found = {}
    BY <1>2 DEF L!Slot
  <1>3. CASE found # {}
    <2>1. found \subseteq Nat
      OBVIOUS
    <2>2. \E k \in found : M(k)
      BY <1>3, <2>1, Least
    <2>3. L!Slot(runs, n, i) = runs[first][i + 1] /\ L!Slot(runs, n, j) = runs[first][j + 1]
      BY <1>3 DEF L!Slot
    <2>4. first \in found
      <3> HIDE DEF M
      <3> QED BY <2>2
    <2> HIDE DEF first
    <2>5. runs[first] \in Seq(Int) /\ L!IsTable(runs[first], n)
      BY <1>1, <2>4
    <2>6. i + 1 \in 1..n /\ j + 1 \in 1..n
      OBVIOUS
    <2>7. i + 1 = j + 1
      BY <2>3, <2>5, <2>6, TableNamesOnce
    <2> QED BY <2>7
  <1> QED BY <1>2, <1>3

LEMMA LayoutHolds == ASSUME disk \in Disks PROVE L!LayoutAgrees
  <1>1. ASSUME NEW runs \in Tables, NEW w \in 0..L!Worlds - 1, NEW i \in 0..L!LevelsIn(w) - 1, NEW j \in 0..L!LevelsIn(w) - 1,
               L!Slot(runs, L!LevelsIn(w), i) = L!Slot(runs, L!LevelsIn(w), j)
        PROVE  i = j
    <2>1. L!Worlds \in Nat /\ w \in Nat
      BY WorldsAre
    <2>2. L!LevelsIn(w) \in Nat
      BY <2>1, WorldsAre
    <2> QED BY <1>1, <2>2, SlotsDiffer
  <1> QED BY <1>1, LayoutRuns DEF L!LayoutAgrees

-----------------------------------------------------------------------------
\* The profile.
HighestOf(c) == IF c = {} THEN 0 ELSE CHOOSE l \in c : \A m \in c : m <= l
Bounded(c)   == \E n \in Nat : c \subseteq 1..n

LEMMA TopIs ==
  ASSUME NEW c, Bounded(c)
  PROVE  /\ HighestOf(c) \in Nat /\ \A m \in c : m \in Nat /\ m > 0 /\ m <= HighestOf(c)
         /\ c # {} => HighestOf(c) \in c
  <1>1. PICK n \in Nat : c \subseteq 1..n
    BY DEF Bounded
  <1>2. \A m \in c : m \in Nat /\ m > 0
    BY <1>1
  <1>3. CASE c = {}
    BY <1>3 DEF HighestOf
  <1>4. CASE c # {}
    <2> DEFINE M(l) == \A m \in c : m <= l
    <2>1. c \subseteq 0..n
      BY <1>1
    <2>2. \E l \in c : M(l)
      BY <1>4, <2>1, Greatest
    <2>3. HighestOf(c) = CHOOSE l \in c : M(l)
      BY <1>4 DEF HighestOf
    <2>4. HighestOf(c) \in c /\ M(HighestOf(c))
      <3> HIDE DEF M
      <3> QED BY <2>2, <2>3
    <2> QED BY <1>2, <2>4
  <1> QED BY <1>3, <1>4

LEMMA TopGrows ==
  ASSUME NEW c, NEW d, Bounded(c), Bounded(d), c \subseteq d
  PROVE  HighestOf(c) <= HighestOf(d)
  <1>1. /\ HighestOf(c) \in Nat /\ HighestOf(d) \in Nat /\ (c # {} => HighestOf(c) \in c)
        /\ \A m \in d : m <= HighestOf(d)
    BY TopIs
  <1>2. CASE c = {}
    BY <1>1, <1>2 DEF HighestOf
  <1>3. CASE c # {}
    BY <1>1, <1>3
  <1> QED BY <1>2, <1>3

\* CONTINUE's level is one of the vanilla worlds, and open.
LEMMA ContinueHolds ==
  ASSUME disk \in Disks, Bounded(completed)
  PROVE  L!ContinueLevel \in 1..L!NumLevels /\ L!Unlocked(L!ContinueLevel)
  <1> DEFINE open == {l \in 1..L!Vanilla - 1 : l \notin completed}
             M(l) == \A m \in open : l <= m
  <1>1. L!Vanilla \in Nat /\ L!Vanilla > 0
    BY VanillaIs
  <1>2. L!NumLevels \in Nat /\ L!Vanilla <= L!NumLevels
    BY <1>1, LastLevel
  <1>3. L!Highest \in Nat /\ \A m \in completed : m <= L!Highest
    <2>1. L!Highest = HighestOf(completed)
      BY DEF L!Highest, HighestOf
    <2> QED BY <2>1, TopIs
  <1>4. L!ContinueLevel = IF open = {} THEN L!Vanilla ELSE CHOOSE l \in open : M(l)
    BY DEF L!ContinueLevel
  <1>5. ASSUME NEW l \in 1..L!Vanilla, l > 1 => l - 1 \in completed PROVE l \in 1..L!NumLevels /\ L!Unlocked(l)
    <2>1. l \in Nat /\ l >= 1 /\ l <= L!Vanilla /\ ~(l > L!Vanilla)
      BY <1>1
    <2>2. l <= L!Highest + 1
      <3>1. CASE l = 1
        BY <3>1, <1>3
      <3>2. CASE l > 1
        <4>1. l - 1 <= L!Highest
          BY <3>2, <1>3, <1>5
        <4> QED BY <4>1, <2>1, <1>3
      <3> QED BY <3>1, <3>2, <2>1
    <2>3. l \in 1..L!NumLevels
      BY <2>1, <1>2, <1>1
    <2> QED BY <2>1, <2>2, <2>3 DEF L!Unlocked
  <1>6. CASE open = {}
    <2>1. L!Vanilla \in 1..L!Vanilla /\ (L!Vanilla > 1 => L!Vanilla - 1 \in 1..L!Vanilla - 1)
      BY <1>1
    <2>2. L!Vanilla > 1 => L!Vanilla - 1 \in completed
      BY <2>1, <1>6
    <2>3. L!Vanilla \in 1..L!NumLevels /\ L!Unlocked(L!Vanilla)
      BY <2>1, <2>2, <1>5
    <2> QED BY <1>4, <1>6, <2>3
  <1>7. CASE open # {}
    <2>1. open \subseteq Nat
      BY <1>1
    <2>2. \E l \in open : M(l)
      BY <1>7, <2>1, Least
    <2> DEFINE c == CHOOSE l \in open : M(l)
    <2>3. c \in open /\ M(c)
      <3> HIDE DEF M
      <3> QED BY <2>2
    <2> HIDE DEF c
    <2>4. c \in 1..L!Vanilla - 1 /\ c \in 1..L!Vanilla
      BY <2>3, <1>1
    <2>5. c > 1 => c - 1 \in completed
      <3>1. ASSUME c > 1, c - 1 \notin completed PROVE FALSE
        <4>1. c - 1 \in open
          BY <3>1, <2>4, <1>1
        <4>2. c <= c - 1
          BY <4>1, <2>3
        <4> QED BY <4>2, <2>4
      <3> QED BY <3>1
    <2>6. c \in 1..L!NumLevels /\ L!Unlocked(c)
      BY <2>4, <2>5, <1>5
    <2>7. L!ContinueLevel = c
      BY <1>4, <1>7 DEF c
    <2> QED BY <2>6, <2>7
  <1> QED BY <1>6, <1>7

\* The level a vertical press of the picker moves to is open.
LEMMA AroundIsOpen ==
  ASSUME disk \in Disks, NEW w, NEW dir, L!Around(w, dir) # 0
  PROVE  L!Unlocked(L!Around(w, dir))
  <1> DEFINE To(k) == L!FirstLevel((w + k * dir + L!Worlds) % L!Worlds)
             open == {k \in 1..L!Worlds - 1 : L!Unlocked(To(k))}
             M(k) == \A j \in open : k <= j
  <1>1. L!Around(w, dir) = IF open = {} THEN 0 ELSE To(CHOOSE k \in open : M(k))
    BY DEF L!Around
  <1>2. open # {} /\ L!Around(w, dir) = To(CHOOSE k \in open : M(k))
    <2> HIDE DEF open, M, To
    <2> QED BY <1>1
  <1>3. open \subseteq Nat
    <2>1. L!Worlds \in Nat
      BY WorldsAre
    <2> QED BY <2>1
  <1>4. \E k \in open : M(k)
    BY <1>2, <1>3, Least
  <1> DEFINE c == CHOOSE k \in open : M(k)
  <1>5. c \in open
    <2> HIDE DEF M, open
    <2> QED BY <1>4
  <1>6. L!Unlocked(To(c))
    <2> HIDE DEF c, To
    <2> QED BY <1>5
  <1> HIDE DEF To, c, open, M
  <1> QED BY <1>2, <1>6 DEF c

-----------------------------------------------------------------------------
\* The inductive invariant.
Places == {"menu", "picker", "play", "saving", "banner"}
LevelsInv ==
  /\ disk \in Disks /\ Bounded(completed) /\ faults \in Nat /\ at \in Places
  /\ L!ProfileHonest
  /\ start \in Nat /\ (start > 0 => L!Unlocked(start))
  /\ guest \in Nat /\ (at \in {"menu", "picker"} => guest \in 1..L!NumLevels)

\* What is open stays open as more is won.
OpenIn(c, l) == /\ l \in 1..L!NumLevels
                /\ IF l > L!Vanilla THEN (l - L!Vanilla - 1) % PerExtra = 0 \/ {l - 1, l} \cap c # {}
                   ELSE l \in c \/ l <= HighestOf(c) + 1

LEMMA OpenStays ==
  ASSUME NEW c, NEW d, Bounded(c), Bounded(d), c \subseteq d, disk \in Disks, NEW l, OpenIn(c, l)
  PROVE  OpenIn(d, l)
  <1>1. HighestOf(c) \in Nat /\ HighestOf(d) \in Nat /\ HighestOf(c) <= HighestOf(d)
    BY TopIs, TopGrows
  <1>2. L!NumLevels \in Nat /\ L!Vanilla \in Nat /\ l \in 1..L!NumLevels
    BY LastLevel, VanillaIs DEF OpenIn
  <1>3. CASE l > L!Vanilla
    <2>1. {l - 1, l} \cap c # {} => {l - 1, l} \cap d # {}
      OBVIOUS
    <2> QED BY <1>3, <2>1 DEF OpenIn
  <1>4. CASE ~(l > L!Vanilla)
    <2>1. l \in c \/ l <= HighestOf(c) + 1
      BY <1>4 DEF OpenIn
    <2>2. l \in d \/ l <= HighestOf(d) + 1
      BY <1>1, <1>2, <2>1
    <2> QED BY <1>2, <1>4, <2>2 DEF OpenIn
  <1> QED BY <1>3, <1>4

LEMMA OpenIsIn == \A l : L!Unlocked(l) <=> OpenIn(completed, l)
  BY DEF L!Unlocked, OpenIn, L!Highest, HighestOf

LEMMA OpenIsInNext == ASSUME disk' = disk PROVE \A l : L!Unlocked(l)' <=> OpenIn(completed', l)
  <1>1. L!NumLevels' = L!NumLevels
    BY DEF L!NumLevels, L!Extras
  <1>2. L!Highest' = HighestOf(completed')
    BY DEF L!Highest, HighestOf
  <1> QED BY <1>1, <1>2 DEF L!Unlocked, OpenIn

LEMMA OpenKept ==
  ASSUME disk' = disk, disk \in Disks, Bounded(completed), Bounded(completed'), completed \subseteq completed',
         NEW l, L!Unlocked(l)
  PROVE  L!Unlocked(l)'
  <1>1. OpenIn(completed, l)
    BY OpenIsIn
  <1>2. OpenIn(completed', l)
    BY <1>1, OpenStays
  <1> QED BY <1>2, OpenIsInNext

LEMMA OpenIsALevel == ASSUME disk \in Disks, NEW l, L!Unlocked(l) PROVE l \in Nat /\ l > 0 /\ l \in 1..L!NumLevels
  <1>1. L!NumLevels \in Nat /\ l \in 1..L!NumLevels
    BY LastLevel DEF L!Unlocked
  <1> QED BY <1>1

LEMMA BetweenIs == ASSUME disk \in Disks, NEW n \in Int PROVE L!Between(1, n, L!Vanilla) \in 1..L!Vanilla
  <1>1. L!Vanilla \in Nat /\ L!Vanilla > 0
    BY VanillaIs
  <1> QED BY <1>1 DEF L!Between

LEMMA LevelsStarts == L!Init => LevelsInv
  <1> SUFFICES ASSUME L!Init PROVE LevelsInv
    OBVIOUS
  <1>1. disk \in Disks
    BY LevelsAssumed DEF L!LevelsAssumption, L!Init, Disks
  <1>2. Bounded(completed)
    <2>1. {} \subseteq 1..0 /\ 0 \in Nat
      OBVIOUS
    <2> QED BY <2>1 DEF Bounded, L!Init
  <1>3. 1 \in 1..L!NumLevels
    <2>1. L!NumLevels \in Nat /\ L!Vanilla \in Nat /\ L!Vanilla > 0 /\ L!NumLevels >= L!Vanilla
      BY <1>1, LastLevel, VanillaIs
    <2> QED BY <2>1
  <1> QED BY <1>1, <1>2, <1>3 DEF LevelsInv, L!Init, Places, L!ProfileHonest

LEMMA LevelsSteps == LevelsInv /\ L!Next => LevelsInv'
  <1> SUFFICES ASSUME LevelsInv, L!Next PROVE LevelsInv'
    OBVIOUS
  <1>1. /\ disk \in Disks /\ Bounded(completed) /\ faults \in Nat /\ at \in Places
        /\ saved \subseteq completed /\ (faults = 0 /\ at # "saving" => saved = completed)
        /\ start \in Nat /\ (start > 0 => L!Unlocked(start))
        /\ guest \in Nat /\ (at \in {"menu", "picker"} => guest \in 1..L!NumLevels)
    BY DEF LevelsInv, L!ProfileHonest
  <1>2. L!NumLevels \in Nat /\ L!Vanilla \in Nat /\ L!Vanilla > 0 /\ L!NumLevels >= L!Vanilla
    BY <1>1, LastLevel, VanillaIs
  <1>4. disk' = disk => L!NumLevels' = L!NumLevels
    BY DEF L!NumLevels, L!Extras
  <1>5. ASSUME disk' = disk, completed' = completed, saved' = saved, faults' = faults,
               at \in {"menu", "picker"}, at' \in {"menu", "picker", "play"},
               start' \in Nat, start' > 0 => L!Unlocked(start'),
               guest' \in Nat, guest' = guest \/ at' = "play"
        PROVE  LevelsInv'
    <2>1. start' > 0 => L!Unlocked(start)'
      <3>1. ASSUME start' > 0 PROVE L!Unlocked(start)'
        <4>1. OpenIn(completed', start')
          BY <1>5, <3>1, OpenIsIn
        <4>2. L!NumLevels' = L!NumLevels
          BY <1>4, <1>5
        <4>3. L!Highest' = HighestOf(completed')
          BY DEF L!Highest, HighestOf
        <4> QED BY <4>1, <4>2, <4>3 DEF L!Unlocked, OpenIn
      <3> QED BY <3>1
    <2>2. at' \in Places /\ at' # "saving" /\ at # "saving"
      BY <1>5 DEF Places
    <2>3. at' \in {"menu", "picker"} => guest' \in 1..L!NumLevels'
      BY <1>1, <1>4, <1>5
    <2> QED BY <1>1, <1>5, <2>1, <2>2, <2>3 DEF LevelsInv, L!ProfileHonest
  <1>6. CASE L!Continue
    <2> DEFINE s == IF L!Unlocked(L!ContinueLevel) THEN L!ContinueLevel ELSE 1
    <2>1. s = L!ContinueLevel /\ s \in Nat /\ s > 0 /\ L!Unlocked(s)
      BY <1>1, <1>2, ContinueHolds
    <2>2. at = "menu" /\ L!HandOff(s) /\ UNCHANGED <<disk, completed, saved, faults>>
      BY <1>6 DEF L!Continue
    <2> HIDE DEF s
    <2>3. at' = "play" /\ start' = s /\ guest' \in Nat
      BY <1>1, <2>1, <2>2 DEF L!HandOff
    <2> QED BY <1>5, <2>1, <2>2, <2>3
  <1>7. CASE L!OpenPicker
    <2>1. at = "menu" /\ at' = "picker" /\ UNCHANGED <<disk, completed, saved, start, guest, faults>>
      BY <1>7 DEF L!OpenPicker
    <2> QED BY <1>1, <1>5, <2>1
  <1>8. ASSUME NEW l PROVE L!Tried(l) \in Nat /\ (L!Tried(l) > 0 => L!Unlocked(L!Tried(l)))
    <2>1. CASE L!Unlocked(l)
      <3>1. L!Tried(l) = l
        BY <2>1 DEF L!Tried
      <3> QED BY <1>1, <2>1, <3>1, OpenIsALevel
    <2>2. CASE ~L!Unlocked(l)
      <3>1. L!Tried(l) = start
        BY <2>2 DEF L!Tried
      <3> QED BY <1>1, <3>1
    <2> QED BY <2>1, <2>2
  <1>9. CASE L!Pick
    <2> DEFINE c == L!Split(L!Cursor)
    <2>1. /\ at = "picker" /\ UNCHANGED <<disk, completed, saved, guest, at, faults>>
          /\ \/ c.liw > 0 /\ start' = L!Tried(L!FirstLevel(c.world) + c.liw - 1)
             \/ c.liw < L!LevelsIn(c.world) - 1 /\ start' = L!Tried(L!FirstLevel(c.world) + c.liw + 1)
             \/ \E dir \in {-1, 1} : start' = (IF L!Around(c.world, dir) = 0 THEN start ELSE L!Around(c.world, dir))
      BY <1>9 DEF L!Pick
    <2> HIDE DEF c
    <2>2. start' \in Nat /\ (start' > 0 => L!Unlocked(start'))
      <3>1. CASE \E l : start' = L!Tried(l)
        <4>1. PICK l : start' = L!Tried(l)
          BY <3>1
        <4> QED BY <4>1, <1>8
      <3>2. CASE \E dir \in {-1, 1} : start' = (IF L!Around(c.world, dir) = 0 THEN start ELSE L!Around(c.world, dir))
        <4>1. PICK dir \in {-1, 1} : start' = (IF L!Around(c.world, dir) = 0 THEN start ELSE L!Around(c.world, dir))
          BY <3>2
        <4>2. CASE L!Around(c.world, dir) = 0
          <5>1. start' = start
            BY <4>1, <4>2
          <5> QED BY <5>1, <1>1
        <4>3. CASE L!Around(c.world, dir) # 0
          <5>1. start' = L!Around(c.world, dir)
            BY <4>1, <4>3
          <5>2. L!Unlocked(start')
            BY <5>1, <4>3, <1>1, AroundIsOpen
          <5> QED BY <5>2, <1>1, OpenIsALevel
        <4> QED BY <4>2, <4>3
      <3> QED BY <2>1, <3>1, <3>2
    <2> QED BY <1>1, <1>5, <2>1, <2>2
  <1>10. CASE L!PanelKey
    <2>1. /\ at = "picker" /\ UNCHANGED <<disk, completed, saved, guest, at, faults>>
          /\ \E l : start' = L!Tried(l)
      BY <1>10 DEF L!PanelKey
    <2>2. PICK l : start' = L!Tried(l)
      BY <2>1
    <2>3. start' \in Nat /\ (start' > 0 => L!Unlocked(start'))
      BY <2>2, <1>8
    <2> QED BY <1>1, <1>5, <2>1, <2>3
  <1>11. CASE L!Confirm
    <2>1. at = "picker" /\ at' = "play" /\ start' = start /\ guest' \in Nat /\ UNCHANGED <<disk, completed, saved, faults>>
      BY <1>1, <1>11 DEF L!Confirm, L!HandOff
    <2> QED BY <1>1, <1>5, <2>1
  <1>12. CASE L!Dismiss
    <2>1. at = "picker" /\ at' = "menu" /\ UNCHANGED <<disk, completed, saved, start, guest, faults>>
      BY <1>12 DEF L!Dismiss
    <2> QED BY <1>1, <1>5, <2>1
  <1>13. ASSUME disk' = disk, Bounded(completed'), completed \subseteq completed', start' = start
         PROVE  start' \in Nat /\ (start' > 0 => L!Unlocked(start)')
    <2>1. ASSUME start > 0 PROVE L!Unlocked(start)'
      <3>1. OpenIn(completed, start)
        BY <1>1, <2>1, OpenIsIn
      <3>2. OpenIn(completed', start')
        BY <3>1, <1>1, <1>13, OpenStays
      <3>3. L!NumLevels' = L!NumLevels
        BY <1>4, <1>13
      <3>4. L!Highest' = HighestOf(completed')
        BY DEF L!Highest, HighestOf
      <3> QED BY <3>2, <3>3, <3>4 DEF L!Unlocked, OpenIn
    <2> QED BY <2>1, <1>1, <1>13
  <1>14. CASE L!Win
    <2> DEFINE won == guest' - 1
    <2>1. at = "play" /\ guest' = guest + 1 /\ disk' = disk /\ start' = start /\ guest' \in Nat /\ won \in Int
      BY <1>1, <1>14 DEF L!Win
    <2>2. CASE won \in completed \/ won \notin 1..L!NumLevels
      <3>1. at' = "banner" /\ UNCHANGED <<completed, saved, faults>>
        BY <1>14, <2>2 DEF L!Win
      <3>2. start' \in Nat /\ (start' > 0 => L!Unlocked(start)')
        BY <1>1, <1>13, <2>1, <3>1
      <3>3. at' \in Places /\ at' \notin {"menu", "picker", "saving"} /\ at # "saving"
        BY <2>1, <3>1 DEF Places
      <3> QED BY <1>1, <2>1, <3>1, <3>2, <3>3 DEF LevelsInv, L!ProfileHonest
    <2>3. CASE ~(won \in completed \/ won \notin 1..L!NumLevels)
      <3>1. /\ completed' = completed \cup {won}
            /\ \/ at' = "saving" /\ saved' = {} /\ UNCHANGED faults
               \/ at' = "banner" /\ faults < Faults /\ faults' = faults + 1 /\ UNCHANGED saved
        BY <1>14, <2>3 DEF L!Win
      <3>2. won \in 1..L!NumLevels
        BY <2>3
      <3> HIDE DEF won
      <3>3. Bounded(completed')
        <4>1. PICK n \in Nat : completed \subseteq 1..n
          BY <1>1 DEF Bounded
        <4>2. completed' \subseteq 1..n + L!NumLevels /\ n + L!NumLevels \in Nat
          BY <4>1, <3>1, <3>2, <1>2
        <4> QED BY <4>2 DEF Bounded
      <3>4. start' \in Nat /\ (start' > 0 => L!Unlocked(start)')
        BY <1>1, <1>13, <2>1, <3>1, <3>3
      <3>5. at' \in Places /\ at' \notin {"menu", "picker"}
        BY <3>1 DEF Places
      <3>6. faults' \in Nat /\ saved' \subseteq completed' /\ (faults' = 0 => at' = "saving")
        BY <1>1, <3>1
      <3> QED BY <1>1, <2>1, <3>3, <3>4, <3>5, <3>6 DEF LevelsInv, L!ProfileHonest
    <2> QED BY <2>2, <2>3
  <1>15. CASE L!Written
    <2>1. at = "saving" /\ at' = "banner" /\ saved' = completed /\ UNCHANGED <<disk, completed, start, guest, faults>>
      BY <1>15 DEF L!Written
    <2>2. start' \in Nat /\ (start' > 0 => L!Unlocked(start)')
      BY <1>1, <1>13, <2>1
    <2>3. at' \in Places /\ at' \notin {"menu", "picker"}
      BY <2>1 DEF Places
    <2> QED BY <1>1, <2>1, <2>2, <2>3 DEF LevelsInv, L!ProfileHonest
  <1>16. \A n \in Int : L!Between(1, n, L!Vanilla) \in 1..L!Vanilla
    BY <1>1, BetweenIs
  <1>17. CASE L!Onwards
    <2>1. /\ at = "banner" /\ UNCHANGED <<disk, completed, saved, start, faults>>
          /\ \/ at' = "play" /\ guest' = guest
             \/ at' = "menu" /\ guest' \in 1..L!Vanilla
      BY <1>1, <1>16, <1>17 DEF L!Onwards, L!ToMenu
    <2>2. start' \in Nat /\ (start' > 0 => L!Unlocked(start)')
      BY <1>1, <1>13, <2>1
    <2>3. at' \in Places /\ at' # "saving" /\ at # "saving" /\ guest' \in Nat
          /\ (at' \in {"menu", "picker"} => guest' \in 1..L!NumLevels')
      BY <1>1, <1>2, <1>4, <2>1 DEF Places
    <2> QED BY <1>1, <2>1, <2>2, <2>3 DEF LevelsInv, L!ProfileHonest
  <1>18. CASE L!ExitToMenu
    <2>1. at = "play" /\ at' = "menu" /\ guest' \in 1..L!Vanilla /\ start' = 0 /\ UNCHANGED <<disk, completed, saved, faults>>
      BY <1>1, <1>16, <1>18 DEF L!ExitToMenu, L!ToMenu
    <2>2. at' \in Places /\ at' # "saving" /\ at # "saving" /\ guest' \in Nat /\ guest' \in 1..L!NumLevels'
      BY <1>1, <1>2, <1>4, <2>1 DEF Places
    <2>3. start' \in Nat /\ ~(start' > 0)
      BY <2>1
    <2> QED BY <1>1, <2>1, <2>2, <2>3 DEF LevelsInv, L!ProfileHonest
  <1>19. CASE L!Restart
    <2>1. /\ faults' = faults + 1 /\ completed' = saved /\ start' = 0 /\ at' = "menu" /\ guest' \in 1..L!Vanilla
          /\ disk' \in Readable /\ saved' = saved
      BY <1>1, <1>16, <1>19 DEF L!Restart, L!ToMenu
    <2>2. disk' \in Disks
      BY <2>1, LevelsAssumed DEF L!LevelsAssumption, Disks
    <2>3. Bounded(completed')
      <3>1. PICK n \in Nat : completed \subseteq 1..n
        BY <1>1 DEF Bounded
      <3>2. completed' \subseteq 1..n
        BY <3>1, <2>1, <1>1
      <3> QED BY <3>2 DEF Bounded
    <2>4. guest' \in 1..L!NumLevels' /\ guest' \in Nat
      <3>1. L!Extras' = ExtrasOf(disk')
        BY DEF L!Extras, ExtrasOf
      <3>2. L!Extras' \in Nat
        BY <2>2, <3>1, ExtrasOfAre, Given
      <3>5. PICK e \in Nat : e = L!Extras'
        BY <3>2
      <3>6. PerExtra * e \in Nat
        BY Given
      <3>3. PICK a \in Nat : a = PerExtra * e
        BY <3>6
      <3>4. L!NumLevels' = L!Vanilla + a
        BY <3>3, <3>5 DEF L!NumLevels
      <3> QED BY <3>4, <2>1, <1>2
    <2>5. at' \in Places /\ start' \in Nat /\ ~(start' > 0) /\ faults' \in Nat /\ faults' # 0
      BY <1>1, <2>1 DEF Places
    <2> QED BY <1>1, <2>1, <2>2, <2>3, <2>4, <2>5 DEF LevelsInv, L!ProfileHonest
  <1> QED BY <1>6, <1>7, <1>9, <1>10, <1>11, <1>12, <1>14, <1>15, <1>17, <1>18, <1>19 DEF L!Next

-----------------------------------------------------------------------------
\* Stepping right through the worlds.
RightOf(w, k) == (w + k * 1 + L!Worlds) % L!Worlds

LEMMA WrapIs ==
  ASSUME NEW N \in Nat, N > 0, NEW w \in 0..N - 1, NEW k \in 0..N - 1
  PROVE  (w + k * 1 + N) % N = IF w + k < N THEN w + k ELSE w + k - N
  <1>1. PICK z \in Int : z = w + k * 1 + N
    OBVIOUS
  <1>2. PICK q \in Int : q = z \div N
    OBVIOUS
  <1>3. z % N \in Nat /\ z % N < N /\ z = N * q + (z % N)
    BY <1>2
  <1> QED BY <1>1, <1>2, <1>3

LEMMA RightOfIs ==
  ASSUME disk \in Disks, NEW w \in 0..L!Worlds - 1, NEW k \in 0..L!Worlds - 1
  PROVE  /\ RightOf(w, k) \in 0..L!Worlds - 1
         /\ RightOf(w, k) = IF w + k < L!Worlds THEN w + k ELSE w + k - L!Worlds
  <1>1. L!Worlds \in Nat /\ L!Worlds > 0
    BY WorldsAre
  <1>2. RightOf(w, k) = IF w + k < L!Worlds THEN w + k ELSE w + k - L!Worlds
    BY <1>1, WrapIs DEF RightOf
  <1> QED BY <1>1, <1>2

\* An open world d steps to the right is the next one the picker stops at, or it lies beyond that one.
LEMMA AroundIs ==
  ASSUME disk \in Disks, NEW w \in 0..L!Worlds - 1, NEW d \in 1..L!Worlds - 1, L!Unlocked(L!FirstLevel(RightOf(w, d)))
  PROVE  /\ L!Around(w, 1) # 0
         /\ \E k \in 1..d : L!Around(w, 1) = L!FirstLevel(RightOf(w, k))
  <1> DEFINE To(k) == L!FirstLevel((w + k * 1 + L!Worlds) % L!Worlds)
             open == {k \in 1..L!Worlds - 1 : L!Unlocked(To(k))}
             M(k) == \A j \in open : k <= j
             c == CHOOSE k \in open : M(k)
  <1>1. L!Around(w, 1) = IF open = {} THEN 0 ELSE To(c)
    BY DEF L!Around
  <1>2. d \in open
    BY DEF RightOf
  <1>3. L!Worlds \in Nat /\ open \subseteq Nat
    <2>1. L!Worlds \in Nat
      BY WorldsAre
    <2> QED BY <2>1
  <1>4. \E k \in open : M(k)
    BY <1>2, <1>3, Least
  <1>5. c \in open /\ M(c)
    <2> HIDE DEF M, open
    <2> QED BY <1>4
  <1> HIDE DEF c
  <1>6. c \in 1..L!Worlds - 1 /\ c <= d
    BY <1>2, <1>5
  <1>7. c \in 1..d
    BY <1>3, <1>6
  <1>8. L!Around(w, 1) = L!FirstLevel(RightOf(w, c))
    BY <1>1, <1>2 DEF RightOf
  <1>9. RightOf(w, c) \in 0..L!Worlds - 1
    <2>1. c \in 0..L!Worlds - 1
      BY <1>3, <1>6
    <2> QED BY <2>1, RightOfIs
  <1>10. L!FirstLevel(RightOf(w, c)) # 0
    <2>1. L!FirstLevel(RightOf(w, c)) \in 1..L!NumLevels /\ L!NumLevels \in Nat
      BY <1>9, FirstSplits, LastLevel
    <2> QED BY <2>1
  <1> QED BY <1>7, <1>8, <1>10

Afters(g) == g = [n \in Nat |-> [w \in 0..L!Worlds - 1 |->
                   IF n = 0 \/ L!Around(w, 1) = 0 THEN {}
                   ELSE {L!Around(w, 1)} \cup g[n - 1][L!Split(L!Around(w, 1)).world]]]
After == CHOOSE g : Afters(g)

LEMMA AfterIs ==
  ASSUME disk \in Disks
  PROVE  \A n \in Nat : \A w \in 0..L!Worlds - 1 : L!Around(w, 1) # 0 =>
           After[n + 1][w] = {L!Around(w, 1)} \cup After[n][L!Split(L!Around(w, 1)).world]
  <1> DEFINE W == 0..L!Worlds - 1
             Nx(w) == L!Around(w, 1)
             Wo(w) == L!Split(L!Around(w, 1)).world
             D == [W -> SUBSET {Nx(v) : v \in W}]
             More(h) == [w \in W |-> IF Nx(w) = 0 THEN {} ELSE {Nx(w)} \cup h[Wo(w)]]
             G == [n \in Nat |-> [h \in D |-> More(h)]]
             none == [w \in W |-> {}]
  <1>1. ASSUME NEW w \in W, Nx(w) # 0 PROVE Wo(w) \in W
    <2>1. Nx(w) \in 1..L!NumLevels
      BY <1>1, AroundIsOpen, OpenIsALevel
    <2> QED BY <2>1, SplitIs
  <1> HIDE DEF W, Nx, Wo
  <1>2. \A h \in D : More(h) \in D
    BY <1>1
  <1>3. none \in D
    OBVIOUS
  <1> HIDE DEF D, none
  <1>4. G \in Steps(D)
    <2> HIDE DEF More
    <2> QED BY <1>2 DEF Steps
  <1>5. \A n \in Nat : \A h \in D : G[n][h] = More(h)
    OBVIOUS
  <1> HIDE DEF G
  <1>6. PICK g : Follows(D, G, none, g)
    BY <1>3, <1>4, RecursionExists
  <1>7. g \in [Nat -> D] /\ g[0] = none /\ \A n \in Nat : g[n + 1] = More(g[n])
    <2>1. g \in [Nat -> D] /\ g[0] = none /\ \A n \in Nat : g[n + 1] = G[n][g[n]]
      BY <1>6 DEF Follows
    <2> HIDE DEF More
    <2> QED BY <2>1, <1>5
  <1> DEFINE Row(a, n) == [w \in W |-> IF n = 0 \/ Nx(w) = 0 THEN {} ELSE {Nx(w)} \cup a[n - 1][Wo(w)]]
             K(a) == [n \in Nat |-> Row(a, n)]
  <1>8. \A n \in Nat : g[n] = Row(g, n)
    <2> SUFFICES ASSUME NEW n \in Nat PROVE g[n] = Row(g, n)
      OBVIOUS
    <2>1. CASE n = 0
      BY <2>1, <1>7 DEF none
    <2>2. CASE n # 0
      <3>1. n - 1 \in Nat /\ (n - 1) + 1 = n
        BY <2>2
      <3>2. g[n] = More(g[n - 1])
        BY <1>7, <3>1
      <3> QED BY <2>2, <3>2
    <2> QED BY <2>1, <2>2
  <1>9. g = K(g)
    <2>1. DOMAIN g = Nat /\ g = [v \in DOMAIN g |-> g[v]]
      BY <1>7
    <2> HIDE DEF Row
    <2>2. [v \in Nat |-> g[v]] = K(g)
      BY <1>8
    <2> QED BY <2>1, <2>2
  <1>10. \A a : Afters(a) <=> a = K(a)
    BY DEF Afters, W, Nx, Wo
  <1>11. Afters(After)
    <2>1. Afters(g)
      BY <1>9, <1>10
    <2> QED BY <2>1 DEF After
  <1>12. After = K(After)
    BY <1>10, <1>11
  <1>13. \A n \in Nat : After[n] = Row(After, n)
    <2> HIDE DEF Row
    <2> QED BY <1>12
  <1>14. ASSUME NEW n \in Nat, NEW w \in W, Nx(w) # 0 PROVE After[n + 1][w] = {Nx(w)} \cup After[n][Wo(w)]
    <2>1. n + 1 \in Nat /\ n + 1 # 0 /\ (n + 1) - 1 = n
      OBVIOUS
    <2>2. After[n + 1] = Row(After, n + 1)
      BY <2>1, <1>13
    <2> QED BY <2>1, <2>2, <1>14
  <1> QED BY <1>14 DEF W, Nx, Wo

LEMMA RightFromIs == \A w : L!RightFrom(w) = After[L!Worlds][w]
  BY DEF L!RightFrom, After, Afters

LEMMA AllToTheRight ==
  ASSUME disk \in Disks, NEW w \in 0..L!Worlds - 1, NEW d \in 1..L!Worlds - 1, L!Unlocked(L!FirstLevel(RightOf(w, d)))
  PROVE  L!FirstLevel(RightOf(w, d)) \in L!RightFrom(w)
  <1> DEFINE Far(n) == \A u \in 0..L!Worlds - 1 : \A e \in 1..L!Worlds - 1 :
                         e <= n /\ L!Unlocked(L!FirstLevel(RightOf(u, e))) => L!FirstLevel(RightOf(u, e)) \in After[n][u]
             S == {n \in Nat : Far(n)}
  <1>1. L!Worlds \in Nat /\ L!Worlds > 0
    BY WorldsAre
  <1>2. 0 \in S
    <2>1. \A e \in 1..L!Worlds - 1 : ~(e <= 0)
      OBVIOUS
    <2> QED BY <2>1
  <1>3. ASSUME NEW n \in Nat, n \in S PROVE n + 1 \in S
    <2>1. ASSUME NEW u \in 0..L!Worlds - 1, NEW e \in 1..L!Worlds - 1, e <= n + 1, L!Unlocked(L!FirstLevel(RightOf(u, e)))
          PROVE  L!FirstLevel(RightOf(u, e)) \in After[n + 1][u]
      <3>1. PICK k \in 1..e : L!Around(u, 1) = L!FirstLevel(RightOf(u, k))
        BY <2>1, AroundIs
      <3>2. L!Around(u, 1) # 0
        BY <2>1, AroundIs
      <3>3. After[n + 1][u] = {L!Around(u, 1)} \cup After[n][L!Split(L!Around(u, 1)).world]
        BY <3>2, AfterIs
      <3>4. CASE k = e
        BY <3>1, <3>3, <3>4
      <3>5. CASE k # e
        <4>1. /\ k \in 0..L!Worlds - 1 /\ e \in 0..L!Worlds - 1
              /\ e - k \in 1..L!Worlds - 1 /\ e - k \in 0..L!Worlds - 1 /\ e - k <= n
          BY <3>5, <2>1, <1>1
        <4>2. RightOf(u, k) \in 0..L!Worlds - 1 /\ RightOf(u, k) = IF u + k < L!Worlds THEN u + k ELSE u + k - L!Worlds
          BY <4>1, RightOfIs
        <4>3. L!Split(L!Around(u, 1)).world = RightOf(u, k)
          BY <3>1, <4>2, FirstSplits
        <4>4. RightOf(RightOf(u, k), e - k) = RightOf(u, e)
          <5>1. PICK t \in 0..L!Worlds - 1 : t = RightOf(u, k)
            BY <4>2
          <5>2. RightOf(t, e - k) = IF t + (e - k) < L!Worlds THEN t + (e - k) ELSE t + (e - k) - L!Worlds
            BY <4>1, RightOfIs
          <5>3. RightOf(u, e) = IF u + e < L!Worlds THEN u + e ELSE u + e - L!Worlds
            BY <4>1, RightOfIs
          <5>4. t = IF u + k < L!Worlds THEN u + k ELSE u + k - L!Worlds
            BY <5>1, <4>2
          <5>5. u \in Nat /\ k \in Nat /\ e \in Nat /\ t \in Nat /\ k < e /\ e < L!Worlds /\ u < L!Worlds
            BY <1>1, <4>1, <3>5
          <5> QED BY <5>1, <5>2, <5>3, <5>4, <5>5, <1>1
        <4>5. L!Unlocked(L!FirstLevel(RightOf(RightOf(u, k), e - k)))
          BY <4>4, <2>1
        <4>6. L!FirstLevel(RightOf(RightOf(u, k), e - k)) \in After[n][RightOf(u, k)]
          BY <4>1, <4>2, <4>5, <1>3
        <4> QED BY <3>3, <4>3, <4>4, <4>6
      <3> QED BY <3>4, <3>5
    <2> QED BY <2>1
  <1> HIDE DEF S
  <1>4. L!Worlds \in S
    BY <1>1, <1>2, <1>3, SetInduction
  <1>5. L!FirstLevel(RightOf(w, d)) \in After[L!Worlds][w]
    <2>1. d <= L!Worlds
      BY <1>1
    <2> QED BY <1>4, <2>1 DEF S
  <1> QED BY <1>5, RightFromIs

\* What holds of the layout, CONTINUE, the picker and the profile.
LEMMA LevelsSafe == LevelsInv => L!LevelsOK
  <1> SUFFICES ASSUME LevelsInv PROVE L!LevelsOK
    OBVIOUS
  <1>1. disk \in Disks /\ Bounded(completed) /\ L!ProfileHonest
    BY DEF LevelsInv
  <1>2. L!LayoutAgrees
    BY <1>1, LayoutHolds
  <1>3. L!ContinueIsOpen
    BY <1>1, ContinueHolds DEF L!ContinueIsOpen
  <1>4. L!WorldsReachable
    <2> SUFFICES ASSUME at = "picker", NEW v \in 0..L!Worlds - 1, v # L!Split(L!Cursor).world, L!Unlocked(L!FirstLevel(v))
                 PROVE  L!FirstLevel(v) \in L!RightFrom(L!Split(L!Cursor).world)
      BY DEF L!WorldsReachable
    <2>1. L!Worlds \in Nat /\ L!Worlds > 0
      BY <1>1, WorldsAre
    <2>2. L!Cursor \in 1..L!NumLevels
      <3>1. CASE start > 0
        <4>1. L!Unlocked(start)
          BY <3>1 DEF LevelsInv
        <4> QED BY <3>1, <4>1, <1>1, OpenIsALevel DEF L!Cursor
      <3>2. CASE ~(start > 0)
        BY <3>2 DEF LevelsInv, L!Cursor
      <3> QED BY <3>1, <3>2
    <2>3. PICK w \in 0..L!Worlds - 1 : w = L!Split(L!Cursor).world
      BY <1>1, <2>2, SplitIs
    <2> DEFINE d == IF v > w THEN v - w ELSE v - w + L!Worlds
    <2>4. d \in 1..L!Worlds - 1 /\ d \in 0..L!Worlds - 1 /\ v = IF w + d < L!Worlds THEN w + d ELSE w + d - L!Worlds
      BY <2>1, <2>3
    <2> HIDE DEF d
    <2>5. RightOf(w, d) = v
      BY <1>1, <2>4, RightOfIs
    <2>6. L!FirstLevel(RightOf(w, d)) \in L!RightFrom(w)
      BY <1>1, <2>4, <2>5, AllToTheRight
    <2> QED BY <2>3, <2>5, <2>6
  <1> QED BY <1>1, <1>2, <1>3, <1>4 DEF L!LevelsOK

\* What a step starts, and what it leaves open.
LEMMA LevelStepHolds == LevelsInv /\ LevelsInv' /\ (L!Next \/ UNCHANGED L!levels) => L!LevelStep
  <1> SUFFICES ASSUME LevelsInv, LevelsInv', L!Next \/ UNCHANGED L!levels PROVE L!LevelStep
    OBVIOUS
  <1>1. /\ disk \in Disks /\ Bounded(completed) /\ Bounded(completed') /\ at \in Places
        /\ start \in Nat /\ (start > 0 => L!Unlocked(start))
        /\ guest \in Nat /\ (at \in {"menu", "picker"} => guest \in 1..L!NumLevels)
    BY DEF LevelsInv
  <1>2. at \in {"menu", "picker"} /\ at' = "play" => L!Continue \/ L!Confirm
    BY DEF L!levels, L!Next, L!Continue, L!OpenPicker, L!Pick, L!PanelKey, L!Confirm, L!Dismiss, L!Win, L!Written, L!Onwards,
           L!ExitToMenu,
           L!Restart, L!ToMenu
  <1>3. CASE L!Continue
    <2>1. L!Unlocked(L!ContinueLevel) /\ L!ContinueLevel \in Nat /\ L!ContinueLevel > 0
      BY <1>1, ContinueHolds, OpenIsALevel
    <2>2. at = "menu" /\ at' = "play" /\ guest' = L!ContinueLevel /\ completed' = completed
      BY <1>3, <2>1 DEF L!Continue, L!HandOff
    <2> QED BY <2>1, <2>2 DEF L!LevelStep
  <1>4. CASE L!Confirm
    <2>1. at = "picker" /\ at' = "play" /\ guest' = (IF start > 0 THEN start ELSE guest) /\ completed' = completed
      BY <1>4 DEF L!Confirm, L!HandOff
    <2>2. guest' = L!Cursor
      BY <1>1, <2>1 DEF L!Cursor
    <2>3. L!Unlocked(guest') \/ guest' = guest
      <3>1. CASE start > 0
        BY <1>1, <2>1, <3>1
      <3>2. CASE ~(start > 0)
        BY <2>1, <3>2
      <3> QED BY <3>1, <3>2
    <2> QED BY <2>1, <2>2, <2>3 DEF L!LevelStep
  <1>5. CASE ~L!Continue /\ ~L!Confirm
    <2>1. ~(at \in {"menu", "picker"} /\ at' = "play")
      BY <1>2, <1>5
    <2>2. ASSUME disk' = disk, completed \subseteq completed', NEW l \in 1..L!NumLevels, L!Unlocked(l)
          PROVE  L!Unlocked(l)'
      BY <1>1, <2>2, OpenKept
    <2>3. disk' = disk /\ completed # completed' /\ completed \subseteq completed'
          => \A l \in 1..L!NumLevels : L!Unlocked(l) => L!Unlocked(l)'
      BY <2>2
    <2> QED BY <2>1, <2>3 DEF L!LevelStep
  <1> QED BY <1>3, <1>4, <1>5

\* Nothing happens.
LEMMA LevelsStays == ASSUME LevelsInv, UNCHANGED L!levels PROVE LevelsInv'
  BY DEF L!levels, LevelsInv, L!ProfileHonest, L!Unlocked, L!NumLevels, L!Extras, L!Highest, Bounded

-----------------------------------------------------------------------------
(* The camera and the view. *)

LEMMA ViewSized ==
  /\ {CamTile, Screen, Display, Pad, Word} \subseteq Nat \ {0} /\ Display >= Screen
  /\ Screen % 2 = 0
  BY CameraAssumed DEF V!CameraAssumption, V!ViewSizes

Ranges == {e \in [camera : Int, lo : Int, hi : Int, free : BOOLEAN, x : Int] : e.lo <= e.hi}

LEMMA EdgesAreColumns ==
  ASSUME NEW v \in Ranges
  PROVE  V!LevelLo(v) \in Int /\ V!LevelHi(v) \in Int
  BY ViewSized DEF Ranges, V!LevelLo, V!LevelHi

LEMMA HalfIsColumns == ASSUME NEW ow \in Nat PROVE V!Half(ow) \in Int
  BY ViewSized DEF V!Half

\* A value kept between two bounds that do not cross lies between them, and is itself if
\* it did so already.
LEMMA BetweenBounds ==
  ASSUME NEW lo \in Int, NEW n \in Int, NEW hi \in Int, lo <= hi
  PROVE  /\ V!Between(lo, n, hi) \in lo..hi
         /\ n \in lo..hi => V!Between(lo, n, hi) = n
  BY DEF V!Between

\* The view lies in the level, or the level in the middle of the view (native_renderer.c,
\* ws_view_left).
THEOREM ViewLiesInLevel ==
  ASSUME NEW v \in Ranges, NEW ow \in Nat
  PROVE  V!ShowsLevel(v, ow)
  <1> DEFINE lo == V!LevelLo(v)
             hi == V!LevelHi(v)
  <1>1. lo \in Int /\ hi \in Int
    BY EdgesAreColumns
  <1>2. V!Half(ow) \in Int /\ V!Follow(v) \in Int
    BY HalfIsColumns, ViewSized DEF V!Follow, Ranges
  <1>3. CASE V!Narrow(v, ow)
    <2>1. hi - lo <= ow /\ V!ViewLeft(v, ow) = lo - (ow - (hi - lo)) \div 2
      BY <1>3 DEF V!Narrow, V!ViewLeft
    <2> HIDE DEF lo, hi
    <2>2. /\ lo - (lo - (ow - (hi - lo)) \div 2) >= 0
          /\ ((lo - (ow - (hi - lo)) \div 2) + ow - hi) - (lo - (lo - (ow - (hi - lo)) \div 2)) \in {0, 1}
      BY <1>1, <2>1
    <2> USE DEF lo, hi
    <2> QED BY <1>3, <2>1, <2>2, <1>1 DEF V!ShowsLevel
  <1>4. CASE ~V!Narrow(v, ow)
    <2>1. lo <= hi - ow
      BY <1>1, <1>4 DEF V!Narrow
    <2>2. V!ViewLeft(v, ow) = V!Between(lo, V!Follow(v) - V!Half(ow), hi - ow)
      BY <1>4 DEF V!ViewLeft
    <2>3. V!Follow(v) - V!Half(ow) \in Int /\ hi - ow \in Int
      BY <1>1, <1>2
    <2>4. V!ViewLeft(v, ow) \in lo..(hi - ow)
      <3> HIDE DEF lo, hi
      <3> QED BY <2>1, <2>2, <2>3, <1>1, BetweenBounds
    <2> QED BY <2>4, <1>1, <1>4 DEF V!ShowsLevel
  <1> QED BY <1>3, <1>4

\* The free camera's point is kept where each step of it moves the view by that step, and
\* clamping it changes nothing of what is seen (native_renderer.c:764-771).
THEOREM ClampShowsTheSame ==
  ASSUME NEW v \in Ranges, NEW ow \in Nat, NEW m \in Int, NEW n \in Int
  PROVE  V!ClampedPointMovesView(v, ow, m, n)
  <1> DEFINE lo == V!LevelLo(v)
             hi == V!LevelHi(v)
             h == V!Half(ow)
             Fz(z) == V!FollowClamp(v, ow, z)
             Lz(z) == V!ViewLeft(V!At(v, z), ow)
  <1>1. lo \in Int /\ hi \in Int /\ h \in Int
    BY EdgesAreColumns, HalfIsColumns
  <1>2. \A z \in Int : /\ V!LevelLo(V!At(v, z)) = lo /\ V!LevelHi(V!At(v, z)) = hi
                       /\ V!Follow(V!At(v, z)) = z /\ (V!Narrow(V!At(v, z), ow) <=> V!Narrow(v, ow))
    BY DEF V!At, V!LevelLo, V!LevelHi, V!Follow, V!Narrow, Ranges
  <1>3. CASE V!Narrow(v, ow)
    <2>1. \A z \in Int : Lz(z) = lo - (ow - (hi - lo)) \div 2
      BY <1>2, <1>3 DEF V!ViewLeft
    <2>2. Fz(m) \in Int
      BY <1>1, <1>3 DEF V!FollowClamp
    <2> QED BY <2>1, <2>2, <1>3 DEF V!ClampedPointMovesView
  <1>4. CASE ~V!Narrow(v, ow)
    <2>1. lo <= hi - ow
      BY <1>1, <1>4 DEF V!Narrow
    <2>2. \A z \in Int : Fz(z) = V!Between(lo + h, z, (hi - ow) + h) /\ Lz(z) = V!Between(lo, z - h, hi - ow)
      BY <1>2, <1>4 DEF V!FollowClamp, V!ViewLeft
    <2>3. \A z \in Int : /\ V!Between(lo + h, z, (hi - ow) + h) \in Int
                         /\ V!Between(lo + h, z, (hi - ow) + h) - h = V!Between(lo, z - h, hi - ow)
                         /\ V!Between(lo, V!Between(lo + h, z, (hi - ow) + h) - h, hi - ow) = V!Between(lo, z - h, hi - ow)
      <3> HIDE DEF lo, hi, h
      <3> QED BY <1>1, <2>1 DEF V!Between
    <2>4. \A z \in Int : Fz(z) \in Int /\ Lz(Fz(z)) = Lz(z) /\ Lz(Fz(z)) = Fz(z) - h
      BY <2>2, <2>3
    <2>5. Lz(Fz(m)) - Lz(Fz(n)) = Fz(m) - Fz(n)
      <3>1. Fz(m) \in Int /\ Fz(n) \in Int /\ Lz(Fz(m)) = Fz(m) - h /\ Lz(Fz(n)) = Fz(n) - h
        BY <2>4
      <3> HIDE DEF Fz, Lz, h
      <3> QED BY <3>1, <1>1
    <2> QED BY <2>4, <2>5 DEF V!ClampedPointMovesView
  <1> QED BY <1>3, <1>4

\* What the walker leaves out of a wide frame is out of sight (gameplay.c, ws_obj_cull_skip).
THEOREM SeenIsPassedOn ==
  ASSUME NEW v \in Ranges, NEW ow \in Nat, NEW n \in Int, NEW w \in Nat, NEW left, NEW width
  PROVE  V!NothingSeenIsSkipped(v, ow, n, w, left, width)
  <1>1. V!Signed(n) \in Int
    BY ViewSized DEF V!Signed
  <1>2. V!ViewLeft(v, ow) \in Int
    BY EdgesAreColumns, HalfIsColumns, ViewSized DEF V!ViewLeft, V!Between, V!Follow, Ranges
  <1> QED BY <1>1, <1>2, ViewSized DEF V!NothingSeenIsSkipped, V!Seen, V!Skipped

-----------------------------------------------------------------------------
(* The camera *)

CamTypes == /\ active \in BOOLEAN /\ home \in BOOLEAN /\ up \in BOOLEAN /\ still \in BOOLEAN
          /\ x \in Int /\ camera \in Int /\ since \in Int /\ changes \in Int /\ fade \in Int /\ fade >= -1
          /\ level \in Edges /\ camera \in level.lo..level.hi

\* A camera that is being brought home by the curtain has been so for no longer than the curtain has moved; one
\* that pans home has no more left to go than what the curtain's time allows.
OnItsWay == /\ fade < 2 * FadeHalf
            /\ home => active /\ fade = -1
            /\ fade >= 0 => since <= fade
            /\ home /\ since >= 0 => V!Distance + since * Return <= V!Limits
            /\ ~home /\ fade < 0 => since <= 0

CamInv == CamTypes /\ OnItsWay

LEMMA Types ==
  ASSUME V!CameraAssumption
  PROVE  /\ Step \in Nat /\ Fast \in Nat /\ Return \in Nat /\ FadeHalf \in Nat /\ Curtain \in Nat /\ CamTile \in Nat
         /\ Step > 0 /\ Fast > 0 /\ Return > 0 /\ FadeHalf > 0 /\ Curtain > 0
         /\ Drift \in Nat /\ Step <= Return /\ Fast <= Return /\ Drift < Return /\ Output \in Nat
  BY ViewSized DEF V!CameraAssumption

LEMMA EdgeTypes ==
  ASSUME V!CameraAssumption, NEW l \in Edges
  PROVE  l.lo \in Int /\ l.hi \in Int /\ l.lo <= l.hi
  BY DEF V!CameraAssumption

LEMMA DistanceIs ==
  ASSUME V!CameraAssumption, CamTypes
  PROVE  /\ V!FollowPt \in Int /\ V!Distance \in Nat
         /\ V!Distance <= Return <=> ~(x > V!FollowPt + Return) /\ ~(x < V!FollowPt - Return)
         /\ V!Distance = 0 <=> x = V!FollowPt
  BY Types DEF CamTypes, V!Distance, V!FollowPt

LEMMA LimitsIs == ASSUME V!CameraAssumption PROVE V!Limits \in Nat /\ V!Limits = (2 * FadeHalf) * Return
  BY Types DEF V!Limits

LEMMA CamStarts == ASSUME V!CameraAssumption, V!Init PROVE CamInv
  <1>1. level \in Edges /\ camera \in Int /\ camera \in level.lo..level.hi
    BY EdgeTypes DEF V!Init
  <1>2. active \in BOOLEAN /\ home \in BOOLEAN /\ up \in BOOLEAN /\ still \in BOOLEAN /\ ~home
    BY DEF V!Init
  <1>3. x = 0 /\ fade = -1 /\ since = 0 /\ changes = 0
    BY DEF V!Init
  <1>4. CamTypes
    BY <1>1, <1>2, <1>3 DEF CamTypes
  <1>5. OnItsWay
    BY <1>2, <1>3, Types DEF OnItsWay
  <1> QED BY <1>4, <1>5 DEF CamInv

-----------------------------------------------------------------------------
LEMMA ClampIsInt ==
  ASSUME V!CameraAssumption, CamTypes, NEW z \in Int
  PROVE  V!FollowClamp(V!V, Output, z) \in Int
  <1>1. V!V \in Ranges
    BY EdgeTypes DEF V!V, Ranges, CamTypes
  <1> QED BY <1>1, Types, EdgesAreColumns, HalfIsColumns DEF V!FollowClamp, V!Between

Stays == fade < 0 /\ ~active /\ UNCHANGED <<active, x, home, fade>>
Lost  == fade < 0 /\ active /\ ~up /\ V!Gone

\* A tick is one of five things.
LEMMA TickIs ==
  ASSUME CamTypes, NEW dir, NEW fast, V!Tick(dir, fast)
  PROVE  \/ fade >= 0 /\ V!CurtainMoves
         \/ Stays
         \/ Lost
         \/ fade < 0 /\ active /\ home /\ V!ComesHome
         \/ fade < 0 /\ active /\ up /\ ~home /\ V!Pans(dir, fast)
  <1>1. fade < 0 <=> ~(fade >= 0)
    BY DEF CamTypes
  <1> QED BY <1>1, Zenon DEF V!Tick, Stays, Lost

LEMMA TickKeepsTypes ==
  ASSUME V!CameraAssumption, CamTypes, NEW dir \in {-1, 0, 1}, NEW fast \in BOOLEAN, V!Tick(dir, fast)
  PROVE  active' \in BOOLEAN /\ home' \in BOOLEAN /\ fade' \in Int /\ fade' >= -1 /\ x' \in Int
  <1>1. active \in BOOLEAN /\ home \in BOOLEAN /\ fade \in Int /\ fade >= -1 /\ x \in Int
    BY DEF CamTypes
  <1>2. CASE fade >= 0 /\ V!CurtainMoves
    <2>1. fade' \in Int /\ fade' >= -1 /\ x' \in Int
      BY <1>1, <1>2 DEF V!CurtainMoves
    <2>2. active' \in BOOLEAN /\ home' \in BOOLEAN
      BY <1>1, <1>2, Zenon DEF V!CurtainMoves
    <2> QED BY <2>1, <2>2
  <1>3. CASE Stays \/ Lost
    BY <1>1, <1>3, Zenon DEF Stays, Lost, V!Gone
  <1>4. CASE fade < 0 /\ active /\ home /\ V!ComesHome
    <2>1. fade' = fade /\ active' \in BOOLEAN /\ home' \in BOOLEAN
      BY <1>1, <1>4, Zenon DEF V!ComesHome, V!Gone
    <2>2. x' \in {x, x - Return, x + Return}
      BY <1>4, Zenon DEF V!ComesHome, V!Gone
    <2> QED BY <1>1, <2>1, <2>2, Types
  <1>5. CASE V!Pans(dir, fast)
    <2>1. x + dir * (IF fast THEN Fast ELSE Step) \in Int
      BY <1>1, Types
    <2>2. x' \in Int
      BY <2>1, <1>5, ClampIsInt DEF V!Pans
    <2> QED BY <1>1, <1>5, <2>2, Zenon DEF V!Pans
  <1> QED BY <1>2, <1>3, <1>4, <1>5, TickIs

\* What the engine's camera does between two ticks.
LEMMA CameraDrifts ==
  ASSUME V!CameraAssumption, CamTypes, NEW drift \in -Drift..Drift,
         camera' = V!Between(level.lo, camera + drift, level.hi)
  PROVE  /\ camera' \in Int /\ camera' \in level.lo..level.hi
         /\ camera' - camera <= Drift /\ camera - camera' <= Drift
         /\ drift = 0 => camera' = camera
  BY EdgeTypes, Types DEF V!Between, CamTypes

LEMMA FrameKeepsTypes ==
  ASSUME V!CameraAssumption, CamTypes, NEW dir \in {-1, 0, 1}, NEW fast \in BOOLEAN, NEW drift \in -Drift..Drift,
         V!Frame(dir, fast, drift)
  PROVE  CamTypes'
  <1>1. camera' \in level.lo..level.hi /\ camera' \in Int
    BY CameraDrifts DEF V!Frame
  <1>2. active' \in BOOLEAN /\ home' \in BOOLEAN /\ fade' \in Int /\ fade' >= -1 /\ x' \in Int
    BY TickKeepsTypes DEF V!Frame
  <1>3. since' \in Int
    BY DEF V!Frame, CamTypes
  <1>4. level' \in Edges /\ level' = level /\ up' \in BOOLEAN /\ still' \in BOOLEAN /\ changes' = changes
    BY Zenon DEF V!Frame, CamTypes
  <1> QED BY <1>1, <1>2, <1>3, <1>4 DEF CamTypes

LEMMA WorldKeepsTypes ==
  ASSUME V!CameraAssumption, CamTypes, V!World
  PROVE  CamTypes'
  <1>1. level' \in Edges /\ camera' \in Int /\ camera' \in level'.lo..level'.hi
    <2>1. CASE UNCHANGED <<level, camera>>
      BY <2>1 DEF CamTypes
    <2>2. CASE \E l \in Edges : level' = l /\ camera' \in {l.lo, l.hi}
      BY <2>2, EdgeTypes
    <2> QED BY <2>1, <2>2, Zenon DEF V!World
  <1>2. up' \in BOOLEAN /\ still' \in BOOLEAN /\ active' \in BOOLEAN /\ home' \in BOOLEAN
    BY Zenon DEF V!World, CamTypes
  <1>3. x' = x /\ fade' = fade /\ since' = -1 /\ changes' \in Int
    BY DEF V!World, CamTypes
  <1> QED BY <1>1, <1>2, <1>3 DEF CamTypes

\* A toggle is one of six things.
LEMMA ToggleIs ==
  ASSUME V!CameraAssumption, CamTypes, NEW benren \in BOOLEAN, V!Toggle(benren)
  PROVE  \/ fade >= 0 /\ UNCHANGED <<active, x, home, fade>>
         \/ fade < 0 /\ home /\ home' = FALSE /\ UNCHANGED <<active, x, fade>>
         \/ fade < 0 /\ ~home /\ active /\ V!Distance > V!Limits
              /\ fade' = 0 /\ home' = FALSE /\ active' = TRUE /\ x' = x
         \/ fade < 0 /\ ~home /\ active /\ 0 < V!Distance /\ V!Distance <= V!Limits
              /\ fade' = fade /\ home' = TRUE /\ active' = TRUE /\ x' = x
         \/ fade < 0 /\ ~home /\ active /\ V!Distance = 0
              /\ fade' = fade /\ home' = FALSE /\ active' \in BOOLEAN /\ x' = x
         \/ fade < 0 /\ ~home /\ ~active /\ active' = TRUE /\ x' = V!FollowPt /\ UNCHANGED <<home, fade>>
         \/ fade < 0 /\ ~home /\ ~active /\ UNCHANGED <<active, x, home, fade>>
  <1>1. V!Distance \in Nat /\ V!Limits \in Nat /\ fade \in Int
    BY DistanceIs, LimitsIs DEF CamTypes
  <1>2. fade >= 0 \/ fade < 0
    BY <1>1
  <1>3. CASE fade < 0 /\ ~home /\ active
    <2>1. ~(fade >= 0)
      BY <1>1, <1>3
    <2>2. /\ fade' = (IF V!Distance > V!Limits THEN 0 ELSE fade)
          /\ home' = (0 < V!Distance /\ V!Distance <= V!Limits)
          /\ active' = (V!Distance > 0)
          /\ x' = x
      BY <1>3, <2>1, Zenon DEF V!Toggle
    <2>3. CASE V!Distance > V!Limits
      <3>1. ~(0 < V!Distance /\ V!Distance <= V!Limits) /\ V!Distance > 0
        BY <1>1, <2>3
      <3> QED BY <3>1, <2>2, <2>3, <1>3, Zenon
    <2>4. CASE 0 < V!Distance /\ V!Distance <= V!Limits
      <3>1. V!Distance > 0 /\ ~(V!Distance > V!Limits)
        BY <1>1, <2>4
      <3> QED BY <3>1, <2>2, <2>4, <1>3, Zenon
    <2>5. CASE V!Distance = 0
      <3>1. ~(0 < V!Distance /\ V!Distance <= V!Limits) /\ ~(V!Distance > 0) /\ ~(V!Distance > V!Limits)
        BY <1>1, <2>5
      <3>2. active' \in BOOLEAN /\ home' = FALSE /\ fade' = fade /\ x' = x
        <4>1. active' \in BOOLEAN
          BY <2>2
        <4>2. home' = FALSE
          BY <3>1, <2>2, Zenon
        <4>3. fade' = fade
          BY <3>1, <2>2, Zenon
        <4> QED BY <4>1, <4>2, <4>3, <2>2, Zenon
      <3> QED BY <3>2, <2>5, <1>3, Zenon
    <2>6. V!Distance > V!Limits \/ (0 < V!Distance /\ V!Distance <= V!Limits) \/ V!Distance = 0
      BY <1>1
    <2> QED BY <2>3, <2>4, <2>5, <2>6
  <1>4. CASE fade < 0 /\ ~(~home /\ active)
    <2>1. ~(fade >= 0)
      BY <1>1, <1>4
    <2> QED BY <1>4, <2>1, Zenon DEF V!Toggle
  <1>5. CASE fade >= 0
    BY <1>5, Zenon DEF V!Toggle
  <1> QED BY <1>2, <1>3, <1>4, <1>5, Zenon

LEMMA ToggleKeepsTypes ==
  ASSUME V!CameraAssumption, CamTypes, NEW benren \in BOOLEAN, V!Toggle(benren)
  PROVE  CamTypes'
  <1>1. active \in BOOLEAN /\ home \in BOOLEAN /\ fade \in Int /\ fade >= -1 /\ x \in Int /\ V!FollowPt \in Int
    BY DistanceIs DEF CamTypes
  <1>2. active' \in BOOLEAN /\ home' \in BOOLEAN
    BY <1>1, ToggleIs, Zenon
  <1>3. x' \in Int /\ fade' \in Int /\ fade' >= -1
    <2>1. x' \in {x, V!FollowPt} /\ fade' \in {fade, 0}
      BY ToggleIs, Zenon
    <2> QED BY <1>1, <2>1
  <1>4. since' = 0 /\ level' = level /\ camera' = camera /\ up' = up /\ still' = still /\ changes' = changes
    BY DEF V!Toggle
  <1> QED BY <1>2, <1>3, <1>4 DEF CamTypes

-----------------------------------------------------------------------------
\* A pan home that goes on is a pan's length nearer, and by no more than a drift further off.
LEMMA PanComesNearer ==
  ASSUME V!CameraAssumption, CamTypes, NEW drift \in -Drift..Drift,
         camera' = V!Between(level.lo, camera + drift, level.hi), V!ComesHome, home'
  PROVE  /\ V!Distance' <= V!Distance
         /\ drift = 0 => V!Distance' + Return <= V!Distance
  <1>1. camera' \in Int /\ camera' - camera <= Drift /\ camera - camera' <= Drift /\ (drift = 0 => camera' = camera)
    BY CameraDrifts
  <1>2. x \in Int /\ camera \in Int
    BY DEF CamTypes
  <1>3. CASE x > V!FollowPt + Return
    BY <1>1, <1>2, <1>3, Types DEF V!ComesHome, V!Distance, V!FollowPt
  <1>4. CASE ~(x > V!FollowPt + Return) /\ x < V!FollowPt - Return
    BY <1>1, <1>2, <1>4, Types DEF V!ComesHome, V!Distance, V!FollowPt
  <1> QED BY <1>3, <1>4 DEF V!ComesHome, V!Gone

LEMMA CamFrameKeepsWay ==
  ASSUME V!CameraAssumption, CamInv, NEW dir \in {-1, 0, 1}, NEW fast \in BOOLEAN, NEW drift \in -Drift..Drift,
         V!Frame(dir, fast, drift)
  PROVE  OnItsWay'
  <1> USE DEF CamInv
  <1>1. CASE fade >= 0 /\ V!CurtainMoves
    <2>1. ~home /\ fade \in Int /\ since \in Int /\ since <= fade
      BY <1>1 DEF OnItsWay, CamTypes
    <2>2. ~home'
      BY <1>1, <2>1, Zenon DEF V!CurtainMoves
    <2>3. fade' = IF fade + 1 >= 2 * FadeHalf THEN -1 ELSE fade + 1
      BY <1>1 DEF V!CurtainMoves
    <2>4. since' = IF since < 0 THEN since ELSE IF fade' >= 0 /\ drift = 0 THEN since + 1 ELSE 0
      BY <2>2 DEF V!Frame
    <2> QED BY <2>1, <2>2, <2>3, <2>4, Types DEF OnItsWay
  <1>2. CASE (fade < 0 /\ active /\ home /\ V!ComesHome) /\ home'
    <2>1. active' /\ fade' = fade
      BY <1>2, Zenon DEF V!ComesHome, V!Gone
    <2>2. fade' < 2 * FadeHalf /\ fade' = -1
      BY <1>2, <2>1, Types DEF CamTypes
    <2>3. CASE since < 0
      <3>1. since' = since
        BY <2>3 DEF V!Frame
      <3>2. ~(since' >= 0) /\ ~(fade' >= 0)
        BY <2>2, <2>3, <3>1 DEF CamTypes
      <3> QED BY <1>2, <2>1, <2>2, <3>2, Zenon DEF OnItsWay
    <2>4. CASE since >= 0
      <3>1. V!Distance + since * Return <= V!Limits /\ V!Distance \in Nat /\ V!Limits \in Nat
        BY <1>2, <2>4, DistanceIs, LimitsIs DEF OnItsWay
      <3>2. V!Distance' \in Int
        BY FrameKeepsTypes, Types DEF CamTypes, V!Distance, V!FollowPt
      <3>3. /\ V!Distance' <= V!Distance
            /\ drift = 0 => V!Distance' + Return <= V!Distance
        BY <1>2, PanComesNearer DEF V!Frame
      <3>4. since' = IF drift = 0 THEN since + 1 ELSE 0
        BY <1>2, <2>4 DEF V!Frame, CamTypes
      <3>5. since \in Int /\ Return \in Nat
        BY Types DEF CamTypes
      <3>6. (since + 1) * Return = since * Return + Return /\ 0 * Return = 0 /\ since * Return >= 0
        BY <3>5, <2>4
      <3>7. V!Distance' + since' * Return <= V!Limits
        <4>1. CASE drift = 0
          <5>1. since' * Return = since * Return + Return
            BY <4>1, <3>4, <3>6
          <5> HIDE DEF V!Distance, V!Limits
          <5>2. since * Return \in Int
            BY <3>5
          <5> DEFINE q == since' * Return
                     r == since * Return
                     e == V!Distance'
          <5>3. q = r + Return /\ r \in Int /\ V!Distance + r <= V!Limits
            BY <5>1, <5>2, <3>1
          <5>4. e + Return <= V!Distance
            BY <4>1, <3>3
          <5>5. e \in Int /\ V!Distance \in Int /\ V!Limits \in Int /\ Return \in Int
            BY <3>1, <3>2, <3>5
          <5>6. e + q <= V!Limits
            <6> HIDE DEF q, r, e
            <6> QED BY <5>3, <5>4, <5>5
          <5> QED BY <5>6
        <4>2. CASE drift # 0
          <5>1. since' * Return = 0
            BY <4>2, <3>4, <3>6
          <5> QED BY <5>1, <3>1, <3>2, <3>3, <3>5, <3>6
        <4> QED BY <4>1, <4>2
      <3>8. V!Limits' = V!Limits
        BY DEF V!Limits
      <3> QED BY <1>2, <2>1, <2>2, <3>7, <3>8 DEF OnItsWay
    <2> QED BY <2>3, <2>4 DEF CamTypes
  <1>3. CASE fade < 0 /\ fade' = fade /\ ~home'
    <2>1. since' <= 0 /\ fade' = -1
      BY <1>3 DEF V!Frame, CamTypes
    <2> QED BY <1>3, <2>1, Types DEF OnItsWay
  <1>4. CASE Stays
    <2>1. ~home
      BY <1>4 DEF Stays, OnItsWay
    <2> QED BY <2>1, <1>3, <1>4, Zenon DEF Stays
  <1>5. CASE Lost
    BY <1>3, <1>5, Zenon DEF Lost, V!Gone
  <1>6. CASE (fade < 0 /\ active /\ home /\ V!ComesHome) /\ ~home'
    <2>1. fade' = fade
      BY <1>6, Zenon DEF V!ComesHome, V!Gone
    <2> QED BY <2>1, <1>3, <1>6
  <1>7. CASE fade < 0 /\ ~home /\ V!Pans(dir, fast)
    BY <1>3, <1>7, Zenon DEF V!Pans
  <1>8. CamTypes /\ V!Tick(dir, fast)
    BY DEF V!Frame
  <1> QED BY <1>1, <1>2, <1>4, <1>5, <1>6, <1>7, <1>8, TickIs

LEMMA WorldKeepsWay ==
  ASSUME V!CameraAssumption, CamInv, V!World
  PROVE  OnItsWay'
  <1>1. since' = -1 /\ active' = active /\ home' = home /\ fade' = fade /\ fade \in Int
    BY DEF V!World, CamInv, CamTypes
  <1>2. ~(home' /\ since' >= 0)
    BY <1>1
  <1>3. /\ fade < 2 * FadeHalf
        /\ home => active /\ fade = -1
    BY DEF CamInv, OnItsWay
  <1> QED BY <1>1, <1>2, <1>3 DEF OnItsWay

LEMMA ToggleKeepsWay ==
  ASSUME V!CameraAssumption, CamInv, NEW benren \in BOOLEAN, V!Toggle(benren)
  PROVE  OnItsWay'
  <1>1. CamTypes /\ since' = 0 /\ fade \in Int /\ fade >= -1 /\ camera' = camera
    BY DEF V!Toggle, CamInv, CamTypes
  <1>2. fade < 2 * FadeHalf /\ (home => active) /\ (fade >= 0 => ~home)
    BY DEF CamInv, OnItsWay
  <1>3. fade' < 2 * FadeHalf
    <2>1. fade' \in {fade, 0}
      BY <1>1, ToggleIs, Zenon
    <2> QED BY <2>1, <1>2, Types
  <1>4. home' => active' /\ fade' < 0 /\ fade' = fade /\ x' = x /\ V!Distance <= V!Limits
    BY <1>1, <1>2, ToggleIs, Zenon
  <1>5. home' => V!Distance' + since' * Return <= V!Limits'
    <2>1. V!Limits' = V!Limits /\ V!Distance \in Nat
      BY <1>1, DistanceIs DEF V!Limits
    <2>2. home' => V!Distance' = V!Distance
      BY <1>1, <1>4 DEF V!Distance, V!FollowPt
    <2>3. since' * Return = 0
      BY <1>1, Types
    <2> QED BY <2>1, <2>2, <2>3, <1>4
  <1> QED BY <1>1, <1>3, <1>4, <1>5 DEF OnItsWay

LEMMA CamSteps == ASSUME V!CameraAssumption, CamInv, V!Next \/ UNCHANGED V!freecam PROVE CamInv'
  <1>1. CASE V!AFrame
    BY <1>1, FrameKeepsTypes, CamFrameKeepsWay DEF V!AFrame, CamInv
  <1>2. CASE V!World
    BY <1>2, WorldKeepsTypes, WorldKeepsWay DEF CamInv
  <1>3. CASE \E benren \in BOOLEAN : V!Toggle(benren)
    BY <1>3, ToggleKeepsTypes, ToggleKeepsWay DEF CamInv
  <1>4. CASE UNCHANGED V!freecam
    BY <1>4 DEF V!freecam, CamInv, CamTypes, OnItsWay, V!Distance, V!FollowPt, V!Limits
  <1> QED BY <1>1, <1>2, <1>3, <1>4 DEF V!Next

LEMMA WayIsQuick == ASSUME V!CameraAssumption, CamInv PROVE V!QuickHome
  <1>1. /\ since \in Int /\ Return \in Nat /\ Return > 0 /\ FadeHalf \in Nat /\ V!Distance \in Nat /\ FadeHalf > 0 /\ fade \in Int
        /\ V!Limits = (2 * FadeHalf) * Return
    BY Types, DistanceIs, LimitsIs DEF CamInv, CamTypes
  <1>2. CASE home /\ since >= 0
    <2>1. since * Return <= (2 * FadeHalf) * Return
      <3>1. V!Distance + since * Return <= V!Limits
        BY <1>2 DEF CamInv, OnItsWay
      <3>2. since * Return \in Int /\ (2 * FadeHalf) * Return \in Int
        BY <1>1
      <3> QED BY <3>1, <3>2, <1>1
    <2>2. \A a, b, r \in Nat : r > 0 /\ a * r <= b * r => a <= b
      OBVIOUS
    <2>3. 2 * FadeHalf \in Nat /\ since \in Nat
      BY <1>1, <1>2
    <2> QED BY <1>1, <2>1, <2>2, <2>3 DEF V!QuickHome
  <1>3. CASE ~(home /\ since >= 0)
    BY <1>1, <1>3 DEF V!QuickHome, CamInv, OnItsWay
  <1> QED BY <1>2, <1>3

-----------------------------------------------------------------------------
\* The view moves by no more than what it follows.
LEMMA ViewFollows ==
  ASSUME NEW v \in Ranges, NEW w \in Ranges, v.lo = w.lo, v.hi = w.hi, NEW ow \in Nat, NEW n \in Nat,
         V!Follow(v) \in Int, V!Follow(w) \in Int, V!Follow(v) - V!Follow(w) <= n, V!Follow(w) - V!Follow(v) <= n
  PROVE  /\ V!ViewLeft(v, ow) \in Int /\ V!ViewLeft(w, ow) \in Int
         /\ V!ViewLeft(v, ow) - V!ViewLeft(w, ow) <= n /\ V!ViewLeft(w, ow) - V!ViewLeft(v, ow) <= n
  <1> DEFINE lo == V!LevelLo(v)
             hi == V!LevelHi(v)
             h == V!Half(ow)
  <1>1. lo \in Int /\ hi \in Int /\ h \in Int
    BY EdgesAreColumns, HalfIsColumns
  <1>2. V!LevelLo(w) = lo /\ V!LevelHi(w) = hi /\ (V!Narrow(w, ow) <=> V!Narrow(v, ow))
    BY DEF V!LevelLo, V!LevelHi, V!Narrow
  <1>3. CASE V!Narrow(v, ow)
    <2>1. V!ViewLeft(v, ow) = lo - (ow - (hi - lo)) \div 2 /\ V!ViewLeft(w, ow) = lo - (ow - (hi - lo)) \div 2
      BY <1>2, <1>3 DEF V!ViewLeft
    <2> HIDE DEF lo, hi
    <2> QED BY <1>1, <2>1
  <1>4. CASE ~V!Narrow(v, ow)
    <2>1. /\ V!ViewLeft(v, ow) = V!Between(lo, V!Follow(v) - h, hi - ow)
          /\ V!ViewLeft(w, ow) = V!Between(lo, V!Follow(w) - h, hi - ow)
      BY <1>2, <1>4 DEF V!ViewLeft
    <2>2. lo <= hi - ow
      BY <1>1, <1>4 DEF V!Narrow
    <2> HIDE DEF lo, hi, h
    <2> QED BY <1>1, <2>1, <2>2 DEF V!Between
  <1> QED BY <1>3, <1>4

LEMMA FollowIs ==
  ASSUME V!CameraAssumption, CamTypes
  PROVE  V!V \in Ranges /\ V!Follow(V!V) = (IF active THEN x ELSE V!FollowPt) /\ V!Follow(V!V) \in Int /\ V!FollowPt \in Int
  <1>1. V!V \in Ranges
    BY EdgeTypes DEF V!V, Ranges, CamTypes
  <1>2. V!Follow(V!V) = IF active THEN x ELSE V!FollowPt
    BY DEF V!V, V!Follow, V!FollowPt
  <1>3. x \in Int /\ V!FollowPt \in Int
    BY DistanceIs DEF CamTypes
  <1>4. V!Follow(V!V) = x \/ V!Follow(V!V) = V!FollowPt
    BY <1>2
  <1> QED BY <1>1, <1>2, <1>3, <1>4

LEMMA SameView ==
  ASSUME NEW v \in Ranges, NEW w \in Ranges, v.lo = w.lo, v.hi = w.hi, NEW ow \in Nat,
         V!Follow(v) \in Int, V!Follow(w) = V!Follow(v)
  PROVE  V!ViewLeft(v, ow) \in Int /\ V!ViewLeft(w, ow) = V!ViewLeft(v, ow)
  <1>1. /\ V!ViewLeft(v, ow) \in Int /\ V!ViewLeft(w, ow) \in Int
        /\ V!ViewLeft(v, ow) - V!ViewLeft(w, ow) <= 0 /\ V!ViewLeft(w, ow) - V!ViewLeft(v, ow) <= 0
    <2>1. V!Follow(v) - V!Follow(w) <= 0 /\ V!Follow(w) - V!Follow(v) <= 0 /\ V!Follow(w) \in Int /\ 0 \in Nat
      OBVIOUS
    <2> QED BY <2>1, ViewFollows
  <1> QED BY <1>1

LEMMA FollowIsThen ==
  ASSUME V!CameraAssumption, CamTypes'
  PROVE  /\ V!V' \in Ranges /\ V!Follow(V!V)' = (IF active' THEN x' ELSE camera' + CamTile)
         /\ V!Follow(V!V)' \in Int /\ V!Follow(V!V)' = V!Follow(V!V')
  <1>1. V!V' \in Ranges
    <2>1. level' \in Edges
      BY DEF CamTypes
    <2>2. level'.lo \in Int /\ level'.hi \in Int /\ level'.lo <= level'.hi
      BY <2>1, EdgeTypes
    <2> QED BY <2>2 DEF V!V, Ranges, CamTypes
  <1>2. V!Follow(V!V)' = IF active' THEN x' ELSE camera' + CamTile
    BY DEF V!V, V!Follow
  <1>3. x' \in Int /\ camera' + CamTile \in Int
    BY Types DEF CamTypes
  <1>4. V!Follow(V!V)' = x' \/ V!Follow(V!V)' = camera' + CamTile
    BY <1>2
  <1>5. V!Follow(V!V)' = V!Follow(V!V')
    BY DEF V!V, V!Follow
  <1> QED BY <1>1, <1>2, <1>3, <1>4, <1>5

\* Within a level the view moves by no more than what it follows does.
LEMMA ViewMoves ==
  ASSUME V!CameraAssumption, CamTypes, CamTypes', level' = level, NEW n \in Nat,
         NEW fp \in Int, NEW gp \in Int, V!Follow(V!V) = fp, V!Follow(V!V)' = gp, gp - fp <= n, fp - gp <= n
  PROVE  V!Apart(V!View, V!View') <= n /\ V!Apart(V!View, V!View') \in Nat /\ (n = 0 => V!View' = V!View)
  <1>1. V!V \in Ranges /\ V!V' \in Ranges /\ V!Follow(V!V) \in Int /\ V!Follow(V!V') \in Int
    BY FollowIs, FollowIsThen
  <1>2. V!V.lo = V!V'.lo /\ V!V.hi = V!V'.hi
    BY DEF V!V
  <1> DEFINE a == V!ViewLeft(V!V, Output)
             b == V!ViewLeft(V!V', Output)
  <1>3. a \in Int /\ b \in Int /\ a - b <= n /\ b - a <= n
    <2>1. V!Follow(V!V') - V!Follow(V!V) <= n /\ V!Follow(V!V) - V!Follow(V!V') <= n
      BY FollowIsThen
    <2> QED BY <1>1, <1>2, <2>1, Types, ViewFollows
  <1>4. V!View = a /\ V!View' = b
    BY DEF V!View
  <1> HIDE DEF a, b
  <1> QED BY <1>3, <1>4 DEF V!Apart

LEMMA ViewIsInt ==
  ASSUME V!CameraAssumption, CamTypes, CamTypes'
  PROVE  V!View \in Int /\ V!View' \in Int
  <1>1. V!V \in Ranges /\ V!V' \in Ranges /\ V!Follow(V!V) \in Int /\ V!Follow(V!V') \in Int
    BY FollowIs, FollowIsThen
  <1>2. \A v \in Ranges : V!Follow(v) \in Int => V!ViewLeft(v, Output) \in Int
    BY Types, EdgesAreColumns, HalfIsColumns DEF V!ViewLeft, V!Between
  <1> QED BY <1>1, <1>2 DEF V!View

\* A pan moves the view as it moves the point, once that is where it moves the view.
LEMMA PanMoves ==
  ASSUME V!CameraAssumption, CamTypes, CamTypes', level' = level, active, active',
         NEW d \in Int, x' = V!FollowClamp(V!V, Output, x + d), NEW n \in Nat, d <= n, -d <= n
  PROVE  /\ V!Apart(V!View, V!View') <= n
         /\ V!InRange => V!Apart(V!View, V!View') = V!Apart(x, x')
  <1> DEFINE Lz(z) == V!ViewLeft(V!At(V!V, z), Output)
             Fz(z) == V!FollowClamp(V!V, Output, z)
  <1>1. V!V \in Ranges /\ x \in Int /\ x + d \in Int /\ Output \in Nat /\ V!Follow(V!V) = x
    BY FollowIs, Types DEF CamTypes
  <1>2. \A z \in Int : /\ V!At(V!V, z) \in Ranges /\ V!Follow(V!At(V!V, z)) = z
                       /\ V!At(V!V, z).lo = V!V.lo /\ V!At(V!V, z).hi = V!V.hi
    BY <1>1 DEF V!At, Ranges, V!Follow
  <1>3. Lz(x) = V!View /\ Lz(x) \in Int
    <2>1. V!V \in Ranges /\ V!At(V!V, x) \in Ranges /\ V!V.lo = V!At(V!V, x).lo /\ V!V.hi = V!At(V!V, x).hi /\ V!Follow(V!At(V!V, x)) = V!Follow(V!V)
      BY <1>1, <1>2
    <2> QED BY <2>1, <1>1, SameView DEF V!View
  <1>4. Lz(x') = V!View' /\ x' \in Int
    <2>1. x' \in Int /\ V!V' \in Ranges /\ V!Follow(V!V') = x'
      BY FollowIsThen DEF CamTypes
    <2>2. V!V'.lo = V!V.lo /\ V!V'.hi = V!V.hi
      BY DEF V!V
    <2>3. V!At(V!V, x') \in Ranges /\ V!V'.lo = V!At(V!V, x').lo /\ V!V'.hi = V!At(V!V, x').hi /\ V!Follow(V!At(V!V, x')) = V!Follow(V!V')
      BY <1>2, <2>1, <2>2
    <2> QED BY <2>1, <2>3, <1>1, SameView DEF V!View
  <1>5. /\ Lz(x + d) - Lz(x) <= n /\ Lz(x) - Lz(x + d) <= n
        /\ Lz(x) \in Int /\ Lz(x + d) \in Int
    <2> DEFINE v == V!At(V!V, x)
               w == V!At(V!V, x + d)
    <2>1. /\ v \in Ranges /\ w \in Ranges /\ v.lo = w.lo /\ v.hi = w.hi
          /\ V!Follow(v) = x /\ V!Follow(w) = x + d
      BY <1>1, <1>2
    <2>2. V!Follow(v) \in Int /\ V!Follow(w) \in Int /\ V!Follow(v) - V!Follow(w) <= n /\ V!Follow(w) - V!Follow(v) <= n
      <3> HIDE DEF v, w
      <3> QED BY <2>1, <1>1
    <2>3. /\ V!ViewLeft(v, Output) \in Int /\ V!ViewLeft(w, Output) \in Int
          /\ V!ViewLeft(v, Output) - V!ViewLeft(w, Output) <= n /\ V!ViewLeft(w, Output) - V!ViewLeft(v, Output) <= n
      <3> HIDE DEF v, w
      <3> QED BY <2>1, <2>2, <1>1, ViewFollows
    <2> QED BY <2>3
  <1>6. Lz(x') = Lz(x + d)
    BY <1>1, ClampShowsTheSame DEF V!ClampedPointMovesView
  <1>7. V!Apart(V!View, V!View') <= n
    <2> HIDE DEF Lz
    <2> QED BY <1>3, <1>4, <1>5, <1>6 DEF V!Apart
  <1>8. ASSUME V!InRange PROVE V!Apart(V!View, V!View') = V!Apart(x, x')
    <2>1. Fz(x) = x
      BY <1>8 DEF V!InRange
    <2>2. CASE V!Narrow(V!V, Output)
      <3>1. Fz(x) = Fz(x + d)
        BY <2>2 DEF V!FollowClamp
      <3> QED BY <2>1, <3>1, <1>3, <1>4 DEF V!Apart
    <2>3. CASE ~V!Narrow(V!V, Output)
      <3>1. Lz(Fz(x)) - Lz(Fz(x + d)) = Fz(x) - Fz(x + d)
        BY <1>1, <2>3, ClampShowsTheSame DEF V!ClampedPointMovesView
      <3>2. Lz(x) - Lz(x') = x - x'
        BY <2>1, <3>1
      <3> HIDE DEF Lz, Fz
      <3> QED BY <3>2, <1>1, <1>3, <1>4, <1>5, <1>6 DEF V!Apart
    <2> QED BY <2>2, <2>3
  <1> QED BY <1>7, <1>8

LEMMA NoStep ==
  ASSUME V!CameraAssumption, CamTypes, CamTypes', V!View' = V!View
  PROVE  V!Apart(V!View, V!View') = 0 /\ (x' = x => V!Apart(x, x') = 0)
  <1>1. V!View \in Int /\ x \in Int
    BY ViewIsInt DEF CamTypes
  <1>2. \A m \in Int : V!Apart(m, m) = 0
    BY DEF V!Apart
  <1> QED BY <1>1, <1>2

LEMMA CutIsBehindTheCurtain ==
  ASSUME V!CameraAssumption, CamTypes, V!CurtainMoves, fade + 1 = FadeHalf
  PROVE  V!Alpha' = Curtain
  <1>1. fade' = FadeHalf
    BY Types DEF V!CurtainMoves, CamTypes
  <1>2. (FadeHalf * Curtain) \div FadeHalf = Curtain
    <2>1. \A a, c \in Nat : a > 0 => (a * c) \div a = c
      OBVIOUS
    <2> QED BY <2>1, Types
  <1>3. FadeHalf >= 0 /\ FadeHalf <= FadeHalf
    BY Types
  <1> QED BY <1>1, <1>2, <1>3, Types DEF V!Alpha

LEMMA DriftIsSmall ==
  \A c, e \in Int : \A t, r, d \in Nat :
    e - c <= d /\ c - e <= d => /\ (e + t) - (c + t) <= r + d /\ (e + t) - (c + t) <= d
                                /\ (c + t) - (e + t) <= r + d /\ (c + t) - (e + t) <= d
                                /\ c + t \in Int /\ e + t \in Int
  OBVIOUS

\* The step at which the point is the engine's camera again.
LEMMA LastIsSmall ==
  ASSUME NEW m \in Int, NEW fp \in Int, NEW gp \in Int, NEW r \in Nat, NEW d \in Nat,
         ~(m > fp + r), ~(m < fp - r), gp - fp <= d, fp - gp <= d
  PROVE  gp - m <= r + d /\ m - gp <= r + d
  OBVIOUS

LEMMA FrameShows ==
  ASSUME V!CameraAssumption, CamTypes, CamTypes', OnItsWay,
         NEW dir \in {-1, 0, 1}, NEW fast \in BOOLEAN, NEW drift \in -Drift..Drift, V!Frame(dir, fast, drift)
  PROVE  V!ViewStep
  <1> DEFINE fp == V!FollowPt
             gp == camera' + CamTile
             most == Return + Drift
             small == V!Apart(V!View, V!View') <= most
  <1>1. /\ level' = level /\ camera \in Int /\ camera' \in Int /\ x \in Int /\ x' \in Int
        /\ camera' - camera <= Drift /\ camera - camera' <= Drift
    BY CameraDrifts DEF V!Frame, CamTypes
  <1>2. /\ V!Follow(V!V) = (IF active THEN x ELSE fp)
        /\ V!Follow(V!V)' = (IF active' THEN x' ELSE gp)
    BY FollowIs, FollowIsThen DEF V!FollowPt
  <1>3. most \in Nat /\ Drift \in Nat /\ Return \in Nat /\ CamTile \in Nat /\ 0 \in Nat
    BY Types
  <1>4. fp = camera + CamTile /\ gp = camera' + CamTile /\ fp \in Int /\ gp \in Int
    BY <1>1, <1>3 DEF V!FollowPt
  <1>5. gp - fp <= most /\ fp - gp <= most /\ gp - fp <= Drift /\ fp - gp <= Drift
    BY <1>1, <1>3, DriftIsSmall DEF V!FollowPt
  <1>6. ASSUME NEW m \in Int, NEW n \in Int, V!Follow(V!V) = m, V!Follow(V!V)' = n, n - m <= most, m - n <= most
        PROVE  small
    BY <1>1, <1>3, <1>6, ViewMoves
  <1> HIDE DEF fp, gp, most
  <1>7. CASE fade >= 0 /\ V!CurtainMoves
    <2>1. x' = x /\ ~home
      BY <1>7 DEF V!CurtainMoves, OnItsWay, CamTypes
    <2>2. CASE active' = active
      <3>1. CASE active
        <4>1. V!Follow(V!V) = x /\ V!Follow(V!V)' = x
          BY <1>2, <2>1, <2>2, <3>1, Zenon
        <4>2. x - x <= 0 /\ x - x <= most /\ 0 \in Nat
          BY <1>1, <1>3
        <4>3. small
          BY <1>1, <4>1, <4>2, <1>6
        <4>4. V!View' = V!View
          BY <1>1, <4>1, <4>2, ViewMoves
        <4>5. V!Apart(V!View, V!View') = V!Apart(x, x')
          BY <2>1, <4>4, NoStep
        <4> QED BY <4>3, <4>5, Zenon DEF V!ViewStep, most
      <3>2. CASE ~active
        <4>1. V!Follow(V!V) = fp /\ V!Follow(V!V)' = gp
          BY <1>2, <2>2, <3>2, Zenon
        <4>2. small
          BY <1>4, <1>5, <4>1, <1>6
        <4> QED BY <3>2, <4>2, Zenon DEF V!ViewStep, most
      <3> QED BY <3>1, <3>2
    <2>3. CASE active' # active
      <3>1. fade + 1 = FadeHalf /\ ~active'
        BY <1>7, <2>3, Zenon DEF V!CurtainMoves
      <3>2. V!Alpha' = Curtain
        BY <1>7, <3>1, CutIsBehindTheCurtain
      <3> QED BY <3>1, <3>2, Zenon DEF V!ViewStep
    <2> QED BY <2>2, <2>3
  <1>8. CASE Stays
    <2>1. ~active /\ ~active'
      BY <1>8, Zenon DEF Stays
    <2>2. V!Follow(V!V) = fp /\ V!Follow(V!V)' = gp
      BY <1>2, <2>1, Zenon
    <2>3. small
      BY <1>4, <1>5, <2>2, <1>6
    <2> QED BY <2>1, <2>3, Zenon DEF V!ViewStep, most
  <1>9. CASE Lost
    <2>1. ~up /\ ~active'
      BY <1>9, Zenon DEF Lost, V!Gone
    <2> QED BY <2>1, Zenon DEF V!ViewStep
  <1>10. CASE fade < 0 /\ active /\ home /\ V!ComesHome
    <2>1. V!Follow(V!V) = x
      BY <1>2, <1>10, Zenon
    <2>2. ASSUME x > fp + Return PROVE small
      <3>1. x' = x - Return /\ active'
        BY <1>10, <2>2, Zenon DEF V!ComesHome, fp
      <3>2. V!Follow(V!V)' = x - Return
        BY <1>2, <3>1, Zenon
      <3>3. x - Return \in Int /\ (x - Return) - x <= most /\ x - (x - Return) <= most
        <4>1. x \in Int /\ Return \in Nat /\ Drift \in Nat
          BY <1>1, <1>3
        <4> QED BY <4>1 DEF most
      <3> QED BY <1>1, <2>1, <3>2, <3>3, <1>6
    <2>3. ASSUME ~(x > fp + Return) /\ x < fp - Return PROVE small
      <3>1. x' = x + Return /\ active'
        BY <1>10, <2>3, Zenon DEF V!ComesHome, fp
      <3>2. V!Follow(V!V)' = x + Return
        BY <1>2, <3>1, Zenon
      <3>3. x + Return \in Int /\ (x + Return) - x <= most /\ x - (x + Return) <= most
        <4>1. x \in Int /\ Return \in Nat /\ Drift \in Nat
          BY <1>1, <1>3
        <4> QED BY <4>1 DEF most
      <3> QED BY <1>1, <2>1, <3>2, <3>3, <1>6
    <2>4. ASSUME ~(x > fp + Return) /\ ~(x < fp - Return) PROVE small
      <3>1. ~active'
        BY <1>10, <2>4, Zenon DEF V!ComesHome, V!Gone, fp
      <3>2. V!Follow(V!V)' = gp
        BY <1>2, <3>1, Zenon
      <3>3. gp - x <= most /\ x - gp <= most
        <4>1. /\ x \in Int /\ fp \in Int /\ gp \in Int /\ Return \in Nat /\ Drift \in Nat
              /\ gp - fp <= Drift /\ fp - gp <= Drift
          BY <1>1, <1>3, <1>4, <1>5
        <4> QED BY <4>1, <2>4, LastIsSmall DEF most
      <3> QED BY <1>1, <1>4, <2>1, <3>2, <3>3, <1>6
    <2> HIDE DEF small
    <2>5. small
      BY <2>2, <2>3, <2>4, Zenon
    <2> QED BY <1>10, <2>5, Zenon DEF V!ViewStep, most, small
  <1>11. CASE fade < 0 /\ active /\ up /\ ~home /\ V!Pans(dir, fast)
    <2> DEFINE d == dir * (IF fast THEN Fast ELSE Step)
    <2>1. d \in Int /\ d <= Return /\ -d <= Return
      BY Types
    <2>2. x' = V!FollowClamp(V!V, Output, x + d) /\ active' = active
      BY <1>11, Zenon DEF V!Pans
    <2>3. /\ V!Apart(V!View, V!View') <= Return
          /\ V!InRange => V!Apart(V!View, V!View') = V!Apart(x, x')
      <3> HIDE DEF d
      <3>1. level' = level /\ active /\ active' /\ Return \in Nat
        BY <1>1, <1>3, <1>11, <2>2
      <3> QED BY <3>1, <2>1, <2>2, PanMoves
    <2>4. V!Apart(V!View, V!View') \in Int
      <3>1. \A m, n \in Int : V!Apart(m, n) \in Int
        BY DEF V!Apart
      <3> QED BY <3>1, ViewIsInt
    <2>5. small
      <3>1. \A k \in Int : \A r, e \in Nat : k <= r => k <= r + e
        OBVIOUS
      <3> QED BY <2>3, <2>4, <1>3, <3>1 DEF most
    <2> QED BY <2>3, <2>5, Zenon DEF V!ViewStep, most
  <1> QED BY <1>7, <1>8, <1>9, <1>10, <1>11, TickIs DEF V!Frame

LEMMA ToggleShows ==
  ASSUME V!CameraAssumption, CamTypes, CamTypes', OnItsWay, NEW benren \in BOOLEAN, V!Toggle(benren)
  PROVE  V!ViewStep
  <1>1. level' = level /\ camera' = camera /\ x \in Int /\ x' \in Int /\ V!FollowPt \in Int
    BY DistanceIs DEF V!Toggle, CamTypes
  <1>2. /\ V!Follow(V!V) = (IF active THEN x ELSE V!FollowPt) /\ V!FollowPt = camera + CamTile
        /\ V!Follow(V!V)' = (IF active' THEN x' ELSE camera' + CamTile)
    BY FollowIs, FollowIsThen DEF V!FollowPt
  <1>3. \/ x' = x /\ active' = active
        \/ x' = x /\ active /\ x = V!FollowPt
        \/ ~active /\ x' = V!FollowPt
    <2>1. V!Distance = 0 => x = V!FollowPt
      BY DistanceIs
    <2>2. active => active = TRUE
      BY DEF CamTypes
    <2> QED BY <2>1, <2>2, ToggleIs, Zenon
  <1>4. V!Follow(V!V)' = V!Follow(V!V)
    BY <1>1, <1>2, <1>3
  <1>5. V!View' = V!View /\ V!Apart(V!View, V!View') = 0
    <2> DEFINE fp == V!Follow(V!V)
    <2>1. fp \in Int /\ fp - fp <= 0 /\ 0 \in Nat /\ V!Follow(V!V)' = fp
      BY <1>4, FollowIs
    <2>2. V!View' = V!View
      <3> HIDE DEF fp
      <3>1. V!Follow(V!V) = fp
        BY DEF fp
      <3> QED BY <1>1, <2>1, <3>1, ViewMoves
    <2> QED BY <2>2, ViewIsInt, NoStep
  <1>6. 0 <= Return + Drift
    BY Types
  <1>7. active => x' = x
    BY <1>3
  <1>8. V!Apart(x, x) = 0
    BY <1>1 DEF V!Apart
  <1>9. V!Apart(V!View, V!View') <= Return + Drift
    BY <1>5, <1>6
  <1> QED BY <1>5, <1>7, <1>8, <1>9, Zenon DEF V!ViewStep

\* A frame, a change of the world, a toggle, or nothing of them.
LEMMA CamShows ==
  ASSUME V!CameraAssumption, CamInv, CamInv', [V!Next]_V!freecam
  PROVE  [V!ViewStep]_V!freecam
  <1>1. CamTypes /\ CamTypes' /\ OnItsWay
    BY DEF CamInv
  <1>2. CASE V!AFrame
    BY <1>1, <1>2, FrameShows DEF V!AFrame
  <1>3. CASE V!World
    BY <1>1, <1>3 DEF V!World, V!ViewStep, CamTypes
  <1>4. CASE \E benren \in BOOLEAN : V!Toggle(benren)
    BY <1>1, <1>4, ToggleShows
  <1> QED BY <1>2, <1>3, <1>4 DEF V!Next

-----------------------------------------------------------------------------
(* The benches. *)

Bench == <<bench, flight, controls, levels, freecam>>

\* A bench is left alone while another runs, so each invariant holds in all of them.
LEMMA StartsRight == PlayInit => ControlsInv /\ FlightInv /\ LevelsInv /\ CamInv
  BY ControlsStarts, FlightStarts, LevelsStarts, CamStarts, CameraAssumed DEF PlayInit

LEMMA OnBench ==
  ASSUME [PlayNext]_Bench
  PROVE  /\ C!Next \/ UNCHANGED C!controls
         /\ F!Next \/ UNCHANGED F!flight
         /\ L!Next \/ UNCHANGED L!levels
         /\ V!Next \/ UNCHANGED V!freecam
  BY DEF PlayNext, Bench, controls, flight, levels, freecam, C!controls, F!flight, L!levels, V!freecam

\* The controls' invariant, for every set of presses, devices with modern controls and objects.
THEOREM ControlsInvariant == PlaySpec => []ControlsInv
  <1>1. PlayInit => ControlsInv
    BY StartsRight
  <1>2. ControlsInv /\ [PlayNext]_Bench => ControlsInv'
    BY OnBench, ControlsSteps
  <1> QED BY <1>1, <1>2, PTL DEF PlaySpec, Bench

\* After every event the guest is shown what the held keys make, a press of interact lifts and throws once, fire alone
\* only jumps, a press that means to drop never lays the man down, and an object is in reach from exactly where it should
\* be: for every set of presses, devices, windows and settings of the reach (apply_bound_input, the bridge over the
\* guest's decode, the wrappers round its handlers).
THEOREM ControlsHold == PlaySpec => []ControlsOK
  <1>1. ControlsInv => ControlsOK
    BY ControlsSafe DEF ControlsOK
  <1> QED BY <1>1, ControlsInvariant, PTL

\* The flight's invariant, for every setting of the tunables, level, guest's arc and damage table.
THEOREM FlightInvariant == PlaySpec => []FlightInv
  <1>1. PlayInit => FlightInv
    BY StartsRight
  <1>2. FlightInv /\ [PlayNext]_Bench => FlightInv'
    BY OnBench, FlightSteps
  <1> QED BY <1>1, <1>2, PTL DEF PlaySpec, Bench

\* A native flight takes nothing but the terrain pass for a wall, is no faster than the shoes allow, and ends where he
\* stands, for every setting of the tunables and every level (platformer.c).
THEOREM FlightHolds == PlaySpec => []FlightOK
  <1>1. FlightInv => FlightOK
    BY FlightSafe DEF FlightOK
  <1> QED BY <1>1, FlightInvariant, PTL

\* The invariant of layout, menus and profile, for every number and size of worlds and every set of disks.
THEOREM LevelsInvariant == PlaySpec => []LevelsInv
  <1>1. PlayInit => LevelsInv
    BY StartsRight
  <1>2. LevelsInv /\ [PlayNext]_Bench => LevelsInv'
    BY OnBench, LevelsSteps, LevelsStays
  <1> QED BY <1>1, <1>2, PTL DEF PlaySpec, Bench

\* pc_level_split and the first levels of worlds agree, stored names are listed once, CONTINUE has an open level to
\* start, the picker comes by every world that is open, and profile.json never lists what was not won: for every number
\* and size of worlds, disks, level tables and number of crashes.
THEOREM LevelsHold == PlaySpec => []LevelsOK
  <1>1. LevelsInv => LevelsOK
    BY LevelsSafe DEF LevelsOK
  <1> QED BY <1>1, LevelsInvariant, PTL

\* A rise only slows and a landing costs what the player's setting says; a start is of the level the picker shows and
\* of an open one, and winning closes none: for every value of the constants.
THEOREM StepsKept == PlaySpec => StepsHonest
  <1>1. FlightInv /\ LevelsInv /\ LevelsInv' /\ [PlayNext]_Bench
        => [(bench = "flight" => F!FlightStep) /\ (bench = "levels" => L!LevelStep)]_<<flight, levels>>
    <2> SUFFICES ASSUME FlightInv, LevelsInv, LevelsInv', [PlayNext]_Bench PROVE F!FlightStep /\ L!LevelStep
      OBVIOUS
    <2>1. F!FlightStep
      BY OnBench, FlightStepHolds
    <2>2. L!LevelStep
      BY OnBench, LevelStepHolds
    <2> QED BY <2>1, <2>2
  <1> QED BY <1>1, FlightInvariant, LevelsInvariant, PTL DEF PlaySpec, StepsHonest, Bench

\* The camera's invariant, for every speed of its pans and every range of every level.
THEOREM CameraInvariant == PlaySpec => []CamInv
  <1>1. PlayInit => CamInv
    BY StartsRight
  <1>2. CamInv /\ [PlayNext]_Bench => CamInv'
    BY OnBench, CamSteps, CameraAssumed
  <1> QED BY <1>1, <1>2, PTL DEF PlaySpec, Bench

\* However the engine's camera moves and whenever the key is pressed again: while that camera
\* stands still, the way home takes no longer than the curtain (freecam.c:118).
THEOREM ReturnsQuickly == PlaySpec => [](bench = "camera" => V!QuickHome)
  <1>1. CamInv => V!QuickHome
    BY WayIsQuick, CameraAssumed
  <1> QED BY <1>1, CameraInvariant, PTL

\* Within a level nothing jumps in sight, and no step of a pan is lost, for every level and
\* every output (freecam.c, pc_freecam_tick; native_renderer.c, ws_follow_clamp).
THEOREM NothingJumps == PlaySpec => [][bench = "camera" => V!ViewStep]_freecam
  <1>1. CamInv /\ CamInv' /\ [PlayNext]_Bench => [bench = "camera" => V!ViewStep]_freecam
    BY OnBench, CamShows, CameraAssumed DEF V!freecam, freecam
  <1> QED BY <1>1, CameraInvariant, PTL DEF PlaySpec, Bench
=============================================================================
