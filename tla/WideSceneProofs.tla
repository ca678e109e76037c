-------------------------- MODULE WideSceneProofs --------------------------
(* What TLAPS proves of the benches of MCWideScene, for every value of their *)
(* constants: what is captured of the guest's objects and of its other       *)
(* passes, and what is drawn of its copper list.                             *)
EXTENDS MCWideScene, FiniteSetTheorems, WellFoundedInduction, TLAPS
-----------------------------------------------------------------------------
(* The objects. *)

\* The list holds every object of the walk.
Fits == Len(Nodes) <= MaxObjs

Pics    == [x : Int, frame : Int, era : Int]
Records == [frame : Int, count : 1..3]
Entries == [of : O!Node, pic : Pics, era : Int, how : {"emit", "persist", "cull"}]

\* The walk has been at an object; the page it was last drawn to or left on, if it was.
BeenBy(i, n) == \E j \in 1..i - 1 : Nodes[j] = n
Been(n) == BeenBy(next, n)
LastPage(n) == IF Been(n) THEN back ELSE 1 - back

\* A picture is of the object as the guest's record has it, in this level.
Shows(pict, n) == \E k \in Looks[n] :
                    k.frame = dirty[n].frame /\ pict = [x |-> k.x, frame |-> k.frame, era |-> era]

CapTypes == /\ look \in [O!Node -> UNION {Looks[n] : n \in O!Node}] /\ \A n \in O!Node : look[n] \in Looks[n]
            /\ cam \in Cams /\ width \in Outs /\ era \in Nat
            /\ dirty \in [O!Node -> Records] /\ page \in [{0, 1} -> [O!Node -> Pics]] /\ back \in {0, 1}
            /\ next \in 0..Len(Nodes) /\ building \in Seq(Entries)

\* What is remembered of an object, for some of them and no more than there is room for.
Remembered(c) == /\ DOMAIN c \subseteq O!Node /\ IsFiniteSet(DOMAIN c) /\ Cardinality(DOMAIN c) <= MaxObjs

\* An object drawn twice running is on the page it was last drawn to, and is remembered so;
\* one drawn three times running is on both.
OnPages == \A n \in O!Node :
             /\ dirty[n].count <= 2 => /\ Shows(page[LastPage(n)][n], n)
                                       /\ n \in DOMAIN commit => commit[n] = page[LastPage(n)][n]
             /\ dirty[n].count = 1 => Shows(page[1 - LastPage(n)][n], n)

\* The list so far: an entry an object, and on a page unless of a level that is gone.
Listed == \A i \in DOMAIN building :
            /\ \A j \in DOMAIN building : building[i].of = building[j].of => i = j
            /\ building[i].era <= era
            /\ building[i].era = era /\ building[i].how # "cull" =>
                 \E k \in {0, 1} : page[k][building[i].of] = building[i].pic
            /\ next > 0 => Been(building[i].of)

Room == Len(building) <= MaxObjs /\ (next > 0 => Len(building) < next)

CapInv == CapTypes /\ Remembered(commit) /\ OnPages /\ Listed /\ Room

\* The capture's module counts as this one does.
LEMMA SameCount == \A S : O!Cardinality(S) = Cardinality(S)
  BY DEF O!Cardinality, Cardinality

LEMMA CapGiven ==
  /\ Nodes \in Seq(O!Node) /\ Len(Nodes) \in Nat /\ MaxObjs \in Nat /\ CapWord \in Nat \ {0}
  /\ \A i, j \in 1..Len(Nodes) : Nodes[i] = Nodes[j] => i = j
  /\ \A n \in O!Node : \A k \in Looks[n] : k.x \in Int /\ k.frame \in Int /\ k.w \in Nat /\ k.x \in 0..CapWord - 1
  /\ \A n \in O!Node : \A k, l \in Looks[n] : k.frame = l.frame => k.x = l.x
  <1>1. Nodes \in Seq(O!Node) /\ O!IsInjective(Nodes) /\ MaxObjs \in Nat /\ CapWord \in Nat \ {0}
    BY CapturesAssumed DEF O!CaptureAssumption, O!ViewSizes
  <1>2. \A n \in O!Node : \A k \in Looks[n] : k \in [x : 0..CapWord - 1, w : Nat, frame : Nat, kind : {"gone", "fast", "still", "lively"}]
    BY CapturesAssumed DEF O!CaptureAssumption
  <1>3. \A n \in O!Node : \A k, l \in Looks[n] : k.frame = l.frame => k.x = l.x
    BY MovesAssumed DEF O!MovesWithFrame
  <1>4. DOMAIN Nodes = 1..Len(Nodes) /\ Len(Nodes) \in Nat
    BY <1>1
  <1> QED BY <1>1, <1>2, <1>3, <1>4 DEF O!IsInjective

LEMMA PicIs ==
  ASSUME CapTypes, NEW n \in O!Node
  PROVE  O!Pic(n) \in Pics /\ O!Pic(n) = [x |-> look[n].x, frame |-> look[n].frame, era |-> era]
  <1>1. look[n] \in Looks[n] /\ era \in Nat
    BY DEF CapTypes
  <1>2. look[n].x \in Int /\ look[n].frame \in Int
    BY <1>1, CapGiven
  <1> QED BY <1>1, <1>2 DEF O!Pic, Pics

LEMMA CapStarts == O!Init => CapInv
  <1> SUFFICES ASSUME O!Init PROVE CapInv
    OBVIOUS
  <1>1. look \in [O!Node -> UNION {Looks[n] : n \in O!Node}] /\ \A n \in O!Node : look[n] \in Looks[n]
    BY DEF O!Init, O!Everything
  <1>2. O!Unset \in Records /\ O!Blank \in Pics
    BY DEF O!Unset, O!Blank, Records, Pics
  <1>3. dirty \in [O!Node -> Records] /\ page \in [{0, 1} -> [O!Node -> Pics]] /\ \A n \in O!Node : dirty[n].count = 3
    BY <1>2 DEF O!Init, O!Unset
  <1>4. CapTypes
    BY <1>1, <1>3, CapGiven DEF O!Init, CapTypes
  <1>5. Remembered(commit)
    <2>1. DOMAIN commit = {}
      BY DEF O!Init
    <2> QED BY <2>1, FS_EmptySet, CapGiven DEF Remembered
  <1>6. OnPages
    BY <1>3 DEF OnPages
  <1>7. Listed /\ Room
    BY CapGiven DEF O!Init, Listed, Room
  <1> QED BY <1>4, <1>5, <1>6, <1>7 DEF CapInv

\* What a step of the walk does to the place an object was last drawn to.
LEMMA LastIs ==
  ASSUME CapTypes, next > 0, next' = (next + 1) % (Len(Nodes) + 1), back' = IF next' = 0 THEN 1 - back ELSE back
  PROVE  /\ Nodes[next] \in O!Node /\ back' \in {0, 1} /\ next' \in 0..Len(Nodes)
         /\ next' = IF next = Len(Nodes) THEN 0 ELSE next + 1
         /\ ~Been(Nodes[next]) /\ LastPage(Nodes[next]) = 1 - back
         /\ \A m \in O!Node : LastPage(m)' = IF m = Nodes[next] THEN back ELSE LastPage(m)
         /\ \A m \in O!Node : next' > 0 => (Been(m)' <=> Been(m) \/ m = Nodes[next])
  <1>1. next \in 1..Len(Nodes) /\ Len(Nodes) \in Nat /\ back \in {0, 1}
    BY CapGiven DEF CapTypes
  <1>2. next' = IF next = Len(Nodes) THEN 0 ELSE next + 1
    BY <1>1
  <1>3. ~Been(Nodes[next])
    <2> SUFFICES ASSUME NEW i \in 1..next - 1, Nodes[i] = Nodes[next] PROVE FALSE
      BY DEF Been, BeenBy
    <2>1. i \in 1..Len(Nodes) /\ i # next
      BY <1>1
    <2> QED BY <2>1, <1>1, CapGiven
  <1>4. Nodes[next] \in O!Node
    BY <1>1, CapGiven
  <1>5. CASE next = Len(Nodes)
    <2>1. next' = 0 /\ back' = 1 - back
      BY <1>2, <1>5
    <2>2. \A m : ~Been(m)'
      BY <2>1 DEF Been, BeenBy
    <2>3. \A m \in O!Node : m # Nodes[next] => Been(m)
      <3> SUFFICES ASSUME NEW m \in O!Node, m # Nodes[next] PROVE Been(m)
        OBVIOUS
      <3>1. PICK i \in 1..Len(Nodes) : Nodes[i] = m
        BY CapGiven DEF O!Node, O!ToSet
      <3>2. i \in 1..next - 1
        BY <3>1, <1>1, <1>5
      <3> QED BY <3>1, <3>2 DEF Been, BeenBy
    <2>4. \A m : LastPage(m)' = back
      <3>1. \A m : LastPage(m)' = 1 - (1 - back)
        BY <2>1, <2>2 DEF LastPage
      <3> QED BY <3>1, <1>1
    <2>5. \A m \in O!Node : LastPage(m)' = IF m = Nodes[next] THEN back ELSE LastPage(m)
      BY <2>3, <2>4 DEF LastPage
    <2>6. LastPage(Nodes[next]) = 1 - back /\ back' \in {0, 1} /\ next' \in 0..Len(Nodes)
      BY <1>1, <1>3, <2>1 DEF LastPage
    <2> QED BY <1>2, <1>3, <1>4, <2>1, <2>5, <2>6
  <1>6. CASE next # Len(Nodes)
    <2>1. next' = next + 1 /\ back' = back /\ next' # 0
      BY <1>1, <1>2, <1>6
    <2>2. \A m : Been(m)' <=> Been(m) \/ m = Nodes[next]
      <3>1. \A i : i \in 1..next' - 1 <=> i \in 1..next - 1 \/ i = next
        BY <1>1, <2>1
      <3> QED BY <3>1 DEF Been, BeenBy
    <2>3. \A m \in O!Node : LastPage(m)' = IF m = Nodes[next] THEN back ELSE LastPage(m)
      BY <2>1, <2>2 DEF LastPage
    <2>4. LastPage(Nodes[next]) = 1 - back
      BY <1>3 DEF LastPage
    <2>5. next' \in 0..Len(Nodes)
      BY <1>1, <1>6, <2>1
    <2> QED BY <1>1, <1>2, <1>3, <1>4, <2>1, <2>2, <2>3, <2>4, <2>5
  <1> QED BY <1>5, <1>6

-----------------------------------------------------------------------------
\* What remembering a picture does.
LEMMA CommittedIs ==
  ASSUME Remembered(commit), NEW n \in O!Node, NEW pict
  PROVE  /\ Remembered(O!Committed(n, pict))
         /\ \A m \in O!Node \ {n} : m \in DOMAIN O!Committed(n, pict) =>
              m \in DOMAIN commit /\ O!Committed(n, pict)[m] = commit[m]
         /\ n \in DOMAIN O!Committed(n, pict) => O!Committed(n, pict)[n] = pict
  <1>1. CASE n \notin DOMAIN commit /\ Cardinality(DOMAIN commit) >= MaxObjs
    <2>1. O!Committed(n, pict) = commit
      BY <1>1, SameCount DEF O!Committed, O!Key
    <2> QED BY <1>1, <2>1
  <1>2. CASE ~(n \notin DOMAIN commit /\ Cardinality(DOMAIN commit) >= MaxObjs)
    <2> DEFINE new == DOMAIN commit \cup {n}
    <2>1. O!Committed(n, pict) = [k \in new |-> IF k = n THEN pict ELSE commit[k]]
      BY <1>2, SameCount DEF O!Committed, O!Key
    <2>2. IsFiniteSet(new) /\ new \subseteq O!Node
      BY FS_AddElement DEF Remembered
    <2>3. Cardinality(new) <= MaxObjs
      <3>1. Cardinality(new) = IF n \in DOMAIN commit THEN Cardinality(DOMAIN commit) ELSE Cardinality(DOMAIN commit) + 1
        BY FS_AddElement DEF Remembered
      <3>2. Cardinality(DOMAIN commit) \in Nat /\ MaxObjs \in Nat /\ Cardinality(DOMAIN commit) <= MaxObjs
        BY CapGiven, FS_CardinalityType DEF Remembered
      <3> QED BY <3>1, <3>2, <1>2
    <2> HIDE DEF new
    <2>4. DOMAIN O!Committed(n, pict) = new
      BY <2>1
    <2>5. n \in new /\ \A m : m \in new /\ m # n => m \in DOMAIN commit
      BY DEF new
    <2> QED BY <2>1, <2>2, <2>3, <2>4, <2>5 DEF Remembered
  <1> QED BY <1>1, <1>2

\* An object left as its page has it looks as it did when it was drawn.
LEMMA PersistsAsDrawn ==
  ASSUME CapInv, NEW n \in O!Node, O!Decision(n) = "persist"
  PROVE  /\ dirty[n].count = 1 /\ page[0][n] = O!Pic(n) /\ page[1][n] = O!Pic(n)
         /\ n \in DOMAIN commit => commit[n] = O!Pic(n)
  <1>1. dirty[n] = [frame |-> look[n].frame, count |-> 1]
    <2>1. ~(O!Clipped(n) \/ dirty[n] # [frame |-> look[n].frame, count |-> 1])
      BY DEF O!Decision
    <2> QED BY <2>1
  <1>2. dirty[n].count = 1 /\ dirty[n].frame = look[n].frame /\ look[n] \in Looks[n] /\ back \in {0, 1}
    BY <1>1 DEF CapInv, CapTypes
  <1>3. \A pict : Shows(pict, n) => pict = O!Pic(n)
    BY <1>2, CapGiven DEF Shows, O!Pic
  <1>4. LastPage(n) \in {0, 1} /\ 1 - LastPage(n) \in {0, 1} /\ LastPage(n) # 1 - LastPage(n)
    BY <1>2 DEF LastPage
  <1>5. Shows(page[LastPage(n)][n], n) /\ Shows(page[1 - LastPage(n)][n], n) /\ (n \in DOMAIN commit => commit[n] = page[LastPage(n)][n])
    BY <1>2 DEF CapInv, OnPages
  <1> QED BY <1>2, <1>3, <1>4, <1>5

\* The list gets an entry of the object's picture, and what is remembered of it is that.
LEMMA CapturedIs ==
  ASSUME CapInv, Fits, next > 0, NEW n \in O!Node, O!Captured(n)
  PROVE  /\ building' = Append(building, [of |-> n, pic |-> O!Pic(n), era |-> era, how |-> O!Decision(n)])
         /\ O!Decision(n) = "emit" => commit' = O!Committed(n, O!Pic(n))
         /\ O!Decision(n) = "cull" => commit' = commit
         /\ O!Decision(n) = "persist" => commit' = (IF n \in DOMAIN commit THEN commit ELSE O!Committed(n, O!Pic(n)))
  <1>1. ~(Len(building) >= MaxObjs)
    <2>1. Len(building) \in Nat /\ Len(building) < next /\ next \in Int /\ next <= Len(Nodes)
      BY CapGiven DEF CapInv, CapTypes, Room
    <2> QED BY <2>1, CapGiven DEF Fits
  <1> DEFINE kept == O!Decision(n) = "persist" /\ n \in DOMAIN commit
             pict == IF kept THEN commit[n] ELSE O!Pic(n)
  <1>2. pict = O!Pic(n)
    BY PersistsAsDrawn
  <1>3. /\ building' = Append(building, [of |-> n, pic |-> pict, era |-> era, how |-> O!Decision(n)])
        /\ commit' = IF kept \/ O!Decision(n) = "cull" THEN commit ELSE O!Committed(n, pict)
    BY <1>1 DEF O!Captured, O!Key
  <1> HIDE DEF kept, pict
  <1>4. /\ building' = Append(building, [of |-> n, pic |-> O!Pic(n), era |-> era, how |-> O!Decision(n)])
        /\ commit' = IF kept \/ O!Decision(n) = "cull" THEN commit ELSE O!Committed(n, O!Pic(n))
    BY <1>2, <1>3
  <1> QED BY <1>4 DEF kept

\* What an object's turn in the walk comes to: of the guest's records and pages, and of what is remembered.
NewRecord(n) == IF O!Clipped(n) THEN O!Unset
                ELSE IF dirty[n].frame = look[n].frame THEN [dirty[n] EXCEPT !.count = dirty[n].count - 1]
                ELSE [frame |-> look[n].frame, count |-> 3]
Forgets(n) == dirty' = [dirty EXCEPT ![n] = O!Unset] /\ UNCHANGED <<page, commit>>
Draws(n)   == /\ O!Decision(n) = "emit" /\ page' = [page EXCEPT ![back][n] = O!Pic(n)]
              /\ commit' = O!Committed(n, O!Pic(n)) /\ dirty' = [dirty EXCEPT ![n] = NewRecord(n)]
Leaves(n)  == /\ O!Decision(n) = "persist" /\ UNCHANGED <<page, dirty>>
              /\ commit' = (IF n \in DOMAIN commit THEN commit ELSE O!Committed(n, O!Pic(n)))
Turn(n) == Forgets(n) \/ Draws(n) \/ Leaves(n)

Entry(n) == [of |-> n, pic |-> O!Pic(n), era |-> era, how |-> O!Decision(n)]

LEMMA TurnIs ==
  ASSUME CapInv, Fits, O!WalkObject
  PROVE  /\ next > 0 /\ Nodes[next] \in O!Node /\ Turn(Nodes[next])
         /\ building' = building \/ (building' = Append(building, Entry(Nodes[next])) /\ O!Decision(Nodes[next]) \in {"emit", "persist", "cull"}
              /\ (O!Decision(Nodes[next]) = "emit" => page' = [page EXCEPT ![back][Nodes[next]] = O!Pic(Nodes[next])])
              /\ (O!Decision(Nodes[next]) = "persist" => page' = page))
  <1> DEFINE n == Nodes[next]
  <1>1. next > 0 /\ n \in O!Node
    BY LastIs DEF O!WalkObject, CapInv
  <1>2. O!Decision(n) \in {"emit", "persist", "cull"}
    BY DEF O!Decision
  <1> HIDE DEF n
  <1>3. CASE O!Passed(n)
    <2>1. O!Captured(n) /\ O!GuestDraws(n)
      BY <1>3 DEF O!WalkObject, n
    <2>2. CASE O!Decision(n) = "emit"
      <3>1. page' = [page EXCEPT ![back][n] = O!Pic(n)] /\ dirty' = [dirty EXCEPT ![n] = NewRecord(n)]
        BY <2>1, <2>2 DEF O!GuestDraws, NewRecord
      <3>2. /\ commit' = O!Committed(n, O!Pic(n))
            /\ building' = Append(building, Entry(n))
        BY <1>1, <2>1, <2>2, CapturedIs DEF Entry
      <3> QED BY <1>1, <1>2, <2>2, <3>1, <3>2 DEF Turn, Draws, n
    <2>3. CASE O!Decision(n) = "persist"
      <3>1. UNCHANGED <<page, dirty>>
        BY <2>1, <2>3 DEF O!GuestDraws
      <3>2. /\ commit' = (IF n \in DOMAIN commit THEN commit ELSE O!Committed(n, O!Pic(n)))
            /\ building' = Append(building, Entry(n))
        BY <1>1, <2>1, <2>3, CapturedIs DEF Entry
      <3> QED BY <1>1, <1>2, <2>3, <3>1, <3>2 DEF Turn, Leaves, n
    <2>4. CASE O!Decision(n) = "cull"
      <3>1. dirty' = [dirty EXCEPT ![n] = O!Unset] /\ UNCHANGED page
        BY <2>1, <2>4 DEF O!GuestDraws
      <3>2. commit' = commit /\ building' = Append(building, Entry(n))
        BY <1>1, <2>1, <2>4, CapturedIs DEF Entry
      <3> QED BY <1>1, <1>2, <2>4, <3>1, <3>2 DEF Turn, Forgets, n
    <2> QED BY <1>2, <2>2, <2>3, <2>4
  <1>4. CASE ~O!Passed(n)
    BY <1>1, <1>4 DEF O!WalkObject, Turn, Forgets, n
  <1> QED BY <1>3, <1>4

LEMMA TurnTypes ==
  ASSUME CapInv, NEW n \in O!Node, Turn(n)
  PROVE  dirty' \in [O!Node -> Records] /\ page' \in [{0, 1} -> [O!Node -> Pics]] /\ Remembered(commit')
  <1>1. /\ dirty \in [O!Node -> Records] /\ page \in [{0, 1} -> [O!Node -> Pics]] /\ Remembered(commit)
        /\ O!Pic(n) \in Pics /\ look[n] \in Looks[n] /\ back \in {0, 1}
    BY PicIs DEF CapInv, CapTypes
  <1>2. O!Unset \in Records
    BY DEF O!Unset, Records
  <1>3. CASE Forgets(n)
    BY <1>1, <1>2, <1>3 DEF Forgets
  <1>4. CASE Draws(n)
    <2>1. /\ page' = [page EXCEPT ![back][n] = O!Pic(n)] /\ commit' = O!Committed(n, O!Pic(n))
          /\ dirty' = [dirty EXCEPT ![n] = NewRecord(n)] /\ O!Decision(n) = "emit"
      BY <1>4 DEF Draws
    <2>2. NewRecord(n) \in Records
      <3>1. dirty[n] \in Records /\ look[n].frame \in Int
        BY <1>1, CapGiven
      <3>2. ~O!Clipped(n) /\ dirty[n].frame = look[n].frame => dirty[n].count # 1
        <4> SUFFICES ASSUME ~O!Clipped(n), dirty[n].frame = look[n].frame, dirty[n].count = 1 PROVE FALSE
          OBVIOUS
        <4>1. dirty[n] = [frame |-> look[n].frame, count |-> 1]
          BY <3>1 DEF Records
        <4>2. O!Decision(n) # "emit"
          BY <4>1 DEF O!Decision
        <4> QED BY <4>2, <2>1
      <3>3. dirty[n].frame = look[n].frame /\ dirty[n].count # 1 => [dirty[n] EXCEPT !.count = dirty[n].count - 1] \in Records
        BY <3>1 DEF Records
      <3>4. [frame |-> look[n].frame, count |-> 3] \in Records
        BY <3>1 DEF Records
      <3> QED BY <3>2, <3>3, <3>4, <1>2 DEF NewRecord
    <2>3. Remembered(commit')
      BY <1>1, <2>1, CommittedIs
    <2> QED BY <1>1, <2>1, <2>2, <2>3
  <1>5. CASE Leaves(n)
    BY <1>1, <1>5, CommittedIs DEF Leaves
  <1> QED BY <1>3, <1>4, <1>5 DEF Turn

\* Of the other objects nothing changes.
LEMMA OthersStay ==
  ASSUME CapInv, NEW n \in O!Node, Turn(n), NEW m \in O!Node, m # n
  PROVE  /\ dirty'[m] = dirty[m] /\ page'[0][m] = page[0][m] /\ page'[1][m] = page[1][m]
         /\ m \in DOMAIN commit' => m \in DOMAIN commit /\ commit'[m] = commit[m]
  <1>1. /\ dirty \in [O!Node -> Records] /\ page \in [{0, 1} -> [O!Node -> Pics]] /\ Remembered(commit) /\ back \in {0, 1}
    BY DEF CapInv, CapTypes
  <1>2. m \in DOMAIN O!Committed(n, O!Pic(n)) => m \in DOMAIN commit /\ O!Committed(n, O!Pic(n))[m] = commit[m]
    BY <1>1, CommittedIs
  <1>3. dirty'[m] = dirty[m]
    BY <1>1 DEF Turn, Forgets, Draws, Leaves
  <1>4. page' = page \/ page' = [page EXCEPT ![back][n] = O!Pic(n)]
    BY DEF Turn, Forgets, Draws, Leaves
  <1>5. page'[0][m] = page[0][m] /\ page'[1][m] = page[1][m]
    BY <1>1, <1>4
  <1>6. commit' = commit \/ commit' = O!Committed(n, O!Pic(n))
    BY DEF Turn, Forgets, Draws, Leaves
  <1> QED BY <1>2, <1>3, <1>5, <1>6

\* What was drawn running is on the pages, this one on the one drawn to now.
PagesHave(m, l, d, p, c, e) ==
  /\ d[m].count <= 2 => /\ \E k \in Looks[m] : k.frame = d[m].frame /\ p[l][m] = [x |-> k.x, frame |-> k.frame, era |-> e]
                        /\ m \in DOMAIN c => c[m] = p[l][m]
  /\ d[m].count = 1 => \E k \in Looks[m] : k.frame = d[m].frame /\ p[1 - l][m] = [x |-> k.x, frame |-> k.frame, era |-> e]

LEMMA OnPagesIs ==
  /\ OnPages <=> \A m \in O!Node : PagesHave(m, LastPage(m), dirty, page, commit, era)
  /\ OnPages' <=> \A m \in O!Node : PagesHave(m, LastPage(m)', dirty', page', commit', era')
  BY DEF OnPages, Shows, PagesHave

LEMMA TurnKeepsPages ==
  ASSUME CapInv, Fits, O!WalkObject, NEW n \in O!Node, n = Nodes[next]
  PROVE  OnPages'
  <1>1. /\ Turn(n) /\ era' = era /\ LastPage(n) = 1 - back /\ back \in {0, 1} /\ look[n] \in Looks[n]
        /\ \A m \in O!Node : LastPage(m)' = IF m = n THEN back ELSE LastPage(m)
        /\ dirty \in [O!Node -> Records] /\ page \in [{0, 1} -> [O!Node -> Pics]]
        /\ \A m \in O!Node : PagesHave(m, LastPage(m), dirty, page, commit, era)
        /\ Remembered(commit)
    <2>1. CapTypes /\ next > 0 /\ next' = (next + 1) % (Len(Nodes) + 1) /\ (back' = IF next' = 0 THEN 1 - back ELSE back) /\ era' = era
      BY TurnIs DEF CapInv, O!WalkObject
    <2>2. Turn(n)
      BY TurnIs
    <2>3. /\ LastPage(n) = 1 - back
          /\ \A m \in O!Node : LastPage(m)' = IF m = n THEN back ELSE LastPage(m)
      BY <2>1, LastIs
    <2>4. \A m \in O!Node : PagesHave(m, LastPage(m), dirty, page, commit, era)
      BY OnPagesIs DEF CapInv
    <2> QED BY <2>1, <2>2, <2>3, <2>4 DEF CapInv, CapTypes
  <1>2. ASSUME NEW m \in O!Node, m # n
        PROVE  PagesHave(m, LastPage(m)', dirty', page', commit', era')
    <2>1. /\ dirty'[m] = dirty[m] /\ page'[0][m] = page[0][m] /\ page'[1][m] = page[1][m]
          /\ m \in DOMAIN commit' => m \in DOMAIN commit /\ commit'[m] = commit[m]
      BY <1>1, <1>2, OthersStay
    <2>2. LastPage(m)' = LastPage(m) /\ LastPage(m) \in {0, 1} /\ 1 - LastPage(m) \in {0, 1}
      BY <1>1, <1>2 DEF LastPage
    <2>3. page'[LastPage(m)][m] = page[LastPage(m)][m] /\ page'[1 - LastPage(m)][m] = page[1 - LastPage(m)][m]
      BY <2>1, <2>2
    <2>4. PagesHave(m, LastPage(m), dirty, page, commit, era)
      BY <1>1
    <2>5. PagesHave(m, LastPage(m), dirty', page', commit', era)
      BY <2>1, <2>3, <2>4 DEF PagesHave
    <2> QED BY <2>2, <2>5, <1>1
  <1>3. PagesHave(n, back, dirty', page', commit', era)
    <2>0. 1 - back \in {0, 1} /\ 1 - back # back /\ 1 - (1 - back) = back /\ PagesHave(n, 1 - back, dirty, page, commit, era)
          /\ O!Pic(n) = [x |-> look[n].x, frame |-> look[n].frame, era |-> era]
      BY <1>1 DEF O!Pic
    <2>1. ASSUME dirty'[n].count = 3 PROVE PagesHave(n, back, dirty', page', commit', era)
      BY <2>1 DEF PagesHave
    <2>2. CASE Forgets(n)
      <3>1. dirty'[n] = O!Unset
        BY <1>1, <2>2 DEF Forgets
      <3> QED BY <2>1, <3>1 DEF O!Unset
    <2>3. CASE Draws(n)
      <3>1. /\ page' = [page EXCEPT ![back][n] = O!Pic(n)] /\ commit' = O!Committed(n, O!Pic(n))
            /\ dirty' = [dirty EXCEPT ![n] = NewRecord(n)]
        BY <2>3 DEF Draws
      <3>2. page'[back][n] = O!Pic(n) /\ page'[1 - back][n] = page[1 - back][n] /\ dirty'[n] = NewRecord(n)
        BY <1>1, <2>0, <3>1
      <3>3. n \in DOMAIN commit' => commit'[n] = O!Pic(n)
        BY <1>1, <3>1, CommittedIs
      <3>4. CASE ~O!Clipped(n) /\ dirty[n].frame = look[n].frame
        <4>1. dirty[n] \in Records
          BY <1>1
        <4>2. dirty'[n] = [dirty[n] EXCEPT !.count = dirty[n].count - 1]
          BY <3>2, <3>4 DEF NewRecord
        <4>3. dirty'[n].frame = look[n].frame /\ dirty'[n].count = dirty[n].count - 1 /\ dirty[n].count \in 1..3
          BY <4>1, <4>2, <3>4 DEF Records
        <4>4. \E k \in Looks[n] : k.frame = dirty'[n].frame /\ page'[back][n] = [x |-> k.x, frame |-> k.frame, era |-> era]
          BY <1>1, <2>0, <3>2, <4>3
        <4>5. ASSUME dirty'[n].count = 1
              PROVE  \E k \in Looks[n] : k.frame = dirty'[n].frame /\ page'[1 - back][n] = [x |-> k.x, frame |-> k.frame, era |-> era]
          <5>1. dirty[n].count = 2 /\ dirty'[n].frame = dirty[n].frame
            BY <4>3, <4>5, <3>4
          <5>2. \E k \in Looks[n] : k.frame = dirty[n].frame /\ page[1 - back][n] = [x |-> k.x, frame |-> k.frame, era |-> era]
            BY <5>1, <2>0 DEF PagesHave
          <5> QED BY <5>1, <5>2, <3>2
        <4>6. n \in DOMAIN commit' => commit'[n] = page'[back][n]
          BY <3>2, <3>3
        <4> QED BY <4>4, <4>5, <4>6 DEF PagesHave
      <3>5. CASE ~(~O!Clipped(n) /\ dirty[n].frame = look[n].frame)
        <4>1. dirty'[n].count = 3
          BY <3>2, <3>5 DEF NewRecord, O!Unset
        <4> QED BY <4>1, <2>1
      <3> QED BY <3>4, <3>5
    <2>4. CASE Leaves(n)
      <3>1. /\ O!Decision(n) = "persist" /\ page' = page /\ dirty' = dirty
            /\ commit' = (IF n \in DOMAIN commit THEN commit ELSE O!Committed(n, O!Pic(n)))
        BY <2>4 DEF Leaves
      <3>2. /\ dirty[n].count = 1 /\ page[0][n] = O!Pic(n) /\ page[1][n] = O!Pic(n)
            /\ n \in DOMAIN commit => commit[n] = O!Pic(n)
        BY <3>1, PersistsAsDrawn
      <3>3. n \in DOMAIN commit' => commit'[n] = O!Pic(n)
        BY <1>1, <3>1, <3>2, CommittedIs
      <3>4. page'[back][n] = O!Pic(n) /\ page'[1 - back][n] = O!Pic(n) /\ page[1 - back][n] = O!Pic(n)
        BY <1>1, <2>0, <3>1, <3>2
      <3>5. \E k \in Looks[n] : k.frame = dirty'[n].frame /\ O!Pic(n) = [x |-> k.x, frame |-> k.frame, era |-> era]
        <4>1. \E k \in Looks[n] : k.frame = dirty[n].frame /\ page[1 - back][n] = [x |-> k.x, frame |-> k.frame, era |-> era]
          BY <2>0, <3>2 DEF PagesHave
        <4> QED BY <4>1, <3>4, <3>1
      <3> QED BY <3>3, <3>4, <3>5 DEF PagesHave
    <2> QED BY <1>1, <2>2, <2>3, <2>4 DEF Turn
  <1>4. \A m \in O!Node : PagesHave(m, LastPage(m)', dirty', page', commit', era')
    BY <1>1, <1>2, <1>3
  <1> QED BY <1>4, OnPagesIs

\* The list has the object once more, as a page has it.
LEMMA TurnKeepsList ==
  ASSUME CapInv, Fits, O!WalkObject, NEW n \in O!Node, n = Nodes[next]
  PROVE  building' \in Seq(Entries) /\ Listed' /\ Room'
  <1> DEFINE e == Entry(n)
  <1>1. /\ Turn(n) /\ era' = era /\ era \in Nat /\ back \in {0, 1} /\ next > 0 /\ next \in Nat
        /\ ~Been(n) /\ (next' > 0 => next' = next + 1) /\ next' \in Nat
        /\ \A m \in O!Node : next' > 0 => (BeenBy(next', m) <=> Been(m) \/ m = n)
    <2>1. CapTypes
      BY DEF CapInv
    <2>2. next > 0 /\ next' = (next + 1) % (Len(Nodes) + 1) /\ (back' = IF next' = 0 THEN 1 - back ELSE back) /\ era' = era
      BY DEF O!WalkObject
    <2>3. next \in Nat /\ Len(Nodes) \in Nat /\ era \in Nat /\ back \in {0, 1}
      BY <2>1, CapGiven DEF CapTypes
    <2>4. Turn(n)
      BY TurnIs
    <2> QED BY <2>1, <2>2, <2>3, <2>4, LastIs DEF Been
  <1>2. /\ building' = building \/ (building' = Append(building, e) /\ O!Decision(n) \in {"emit", "persist", "cull"}
              /\ (O!Decision(n) = "emit" => page' = [page EXCEPT ![back][n] = O!Pic(n)])
              /\ (O!Decision(n) = "persist" => page' = page))
    BY TurnIs
  <1>3. building \in Seq(Entries) /\ Len(building) \in Nat /\ page \in [{0, 1} -> [O!Node -> Pics]]
    BY DEF CapInv, CapTypes
  <1>4. \A i \in DOMAIN building :
          /\ building[i].of # n /\ building[i].of \in O!Node /\ building[i].era <= era'
          /\ building[i].era = era' /\ building[i].how # "cull" =>
               \E k \in {0, 1} : page'[k][building[i].of] = building[i].pic
          /\ next' > 0 => BeenBy(next', building[i].of)
    <2> SUFFICES ASSUME NEW i \in DOMAIN building
                 PROVE  /\ building[i].of # n /\ building[i].of \in O!Node /\ building[i].era <= era'
                        /\ building[i].era = era' /\ building[i].how # "cull" =>
                             \E k \in {0, 1} : page'[k][building[i].of] = building[i].pic
                        /\ next' > 0 => BeenBy(next', building[i].of)
      OBVIOUS
    <2>1. /\ building[i].era <= era /\ Been(building[i].of)
          /\ building[i].era = era /\ building[i].how # "cull" =>
               \E k \in {0, 1} : page[k][building[i].of] = building[i].pic
      BY <1>1 DEF CapInv, Listed
    <2>2. building[i] \in Entries
      BY <1>3
    <2>3. building[i].of \in O!Node /\ building[i].of # n
      BY <1>1, <2>1, <2>2 DEF Entries
    <2>4. page'[0][building[i].of] = page[0][building[i].of] /\ page'[1][building[i].of] = page[1][building[i].of]
      BY <1>1, <2>3, OthersStay
    <2> QED BY <1>1, <2>1, <2>3, <2>4
  <1>5. CASE building' = building
    <2>1. Listed'
      BY <1>4, <1>5 DEF CapInv, Listed, Been
    <2>2. Room'
      BY <1>1, <1>3, <1>5 DEF CapInv, Room
    <2> QED BY <1>3, <1>5, <2>1, <2>2
  <1>6. CASE building' # building
    <2>1. building' = Append(building, e)
      BY <1>2, <1>6
    <2>2. e \in Entries /\ e.of = n /\ e.era = era /\ e.pic = O!Pic(n) /\ e.how = O!Decision(n)
      BY <1>1, <1>2, <1>6, PicIs DEF CapInv, Entry, Entries
    <2>3. e.how # "cull" => \E k \in {0, 1} : page'[k][n] = e.pic
      <3>1. CASE O!Decision(n) = "emit"
        <4>1. page'[back][n] = O!Pic(n)
          BY <3>1, <1>1, <1>2, <1>3, <1>6
        <4> QED BY <4>1, <2>2, <1>1
      <3>2. CASE O!Decision(n) = "persist"
        <4>1. page[0][n] = O!Pic(n)
          BY <3>2, <1>1, PersistsAsDrawn
        <4> QED BY <3>2, <4>1, <2>2, <1>2, <1>6
      <3> QED BY <3>1, <3>2, <2>2, <1>2, <1>6
    <2> HIDE DEF e
    <2>4. /\ building' \in Seq(Entries) /\ Len(building') = Len(building) + 1
          /\ DOMAIN building' = 1..Len(building) + 1 /\ DOMAIN building = 1..Len(building)
          /\ \A i \in DOMAIN building : building'[i] = building[i]
          /\ building'[Len(building) + 1] = e
      BY <1>3, <2>1, <2>2
    <2>5. Len(building) < next /\ \A i, j \in DOMAIN building : building[i].of = building[j].of => i = j
      BY <1>1 DEF CapInv, Room, Listed
    <2>6. Room'
      <3>1. Len(building) + 1 <= MaxObjs
        <4>1. next <= Len(Nodes)
          BY CapGiven DEF CapInv, CapTypes
        <4> QED BY <4>1, <2>5, <1>1, <1>3, CapGiven DEF Fits
      <3> QED BY <3>1, <1>1, <1>3, <2>4, <2>5 DEF Room
    <2>7. Listed'
      <3> SUFFICES ASSUME NEW i \in DOMAIN building'
                   PROVE  /\ \A j \in DOMAIN building' : building'[i].of = building'[j].of => i = j
                          /\ building'[i].era <= era'
                          /\ building'[i].era = era' /\ building'[i].how # "cull" =>
                               \E k \in {0, 1} : page'[k][building'[i].of] = building'[i].pic
                          /\ next' > 0 => BeenBy(next', building'[i].of)
        BY DEF Listed, Been
      <3>1. CASE i \in DOMAIN building
        <4>1. building'[i] = building[i]
          BY <2>4, <3>1
        <4>2. \A j \in DOMAIN building' : building'[i].of = building'[j].of => i = j
          BY <4>1, <1>4, <2>2, <2>4, <2>5, <3>1
        <4> QED BY <4>1, <4>2, <1>4, <3>1
      <3>2. CASE i \notin DOMAIN building
        <4>1. i = Len(building) + 1 /\ building'[i] = e
          BY <1>3, <2>4, <3>2
        <4>2. \A j \in DOMAIN building' : building'[i].of = building'[j].of => i = j
          <5> SUFFICES ASSUME NEW j \in DOMAIN building', building'[i].of = building'[j].of PROVE i = j
            OBVIOUS
          <5>1. j \notin DOMAIN building
            BY <4>1, <1>4, <2>2, <2>4
          <5> QED BY <5>1, <4>1, <1>3, <2>4
        <4> QED BY <4>1, <4>2, <1>1, <2>2, <2>3
      <3> QED BY <3>1, <3>2
    <2> QED BY <2>4, <2>6, <2>7
  <1> QED BY <1>5, <1>6

\* One object of the walk keeps what the capture knows.
LEMMA ObjectKeeps == ASSUME CapInv, Fits, O!WalkObject PROVE CapInv'
  <1>1. PICK n \in O!Node : n = Nodes[next] /\ Turn(n)
    BY TurnIs
  <1>2. OnPages' /\ building' \in Seq(Entries) /\ Listed' /\ Room'
    BY <1>1, TurnKeepsPages, TurnKeepsList
  <1>3. dirty' \in [O!Node -> Records] /\ page' \in [{0, 1} -> [O!Node -> Pics]] /\ Remembered(commit')
    BY <1>1, TurnTypes
  <1>4. back' \in {0, 1} /\ next' \in 0..Len(Nodes)
    BY LastIs, TurnIs DEF CapInv, O!WalkObject
  <1>5. UNCHANGED <<look, cam, width, era>>
    BY DEF O!WalkObject
  <1>6. CapTypes'
    BY <1>2, <1>3, <1>4, <1>5 DEF CapInv, CapTypes
  <1>7. Remembered(commit)'
    BY <1>3 DEF Remembered
  <1> QED BY <1>2, <1>6, <1>7 DEF CapInv

\* A walk starts with an empty list.
LEMMA WalkKeeps == ASSUME CapInv, O!Walk PROVE CapInv'
  <1>1. next = 0 /\ next' = 1 % (Len(Nodes) + 1) /\ building' = <<>> /\ UNCHANGED <<look, cam, width, era, dirty, page, back, commit>>
    BY DEF O!Walk
  <1>2. next' \in {0, 1} /\ next' \in 0..Len(Nodes)
    <2>1. CASE Len(Nodes) = 0
      BY <1>1, <2>1
    <2>2. CASE Len(Nodes) > 0
      BY <1>1, <2>2, CapGiven
    <2> QED BY <2>1, <2>2, CapGiven
  <1>3. \A m : ~BeenBy(next, m) /\ ~BeenBy(next', m)
    BY <1>1, <1>2 DEF BeenBy
  <1>4. CapTypes'
    BY <1>1, <1>2 DEF CapInv, CapTypes
  <1>5. OnPages'
    <2>1. \A m : LastPage(m)' = LastPage(m)
      BY <1>1, <1>3 DEF LastPage, Been
    <2>2. \A m \in O!Node : PagesHave(m, LastPage(m)', dirty', page', commit', era')
      BY <1>1, <2>1, OnPagesIs DEF CapInv
    <2> QED BY <2>2, OnPagesIs
  <1>6. Listed' /\ Room'
    BY <1>1, <1>2, CapGiven DEF Listed, Room
  <1> QED BY <1>1, <1>4, <1>5, <1>6 DEF CapInv, Remembered

\* The game goes on between walks.
LEMMA PlayKeeps == ASSUME CapInv, O!Play PROVE CapInv'
  <1>1. next = 0 /\ UNCHANGED <<width, era, dirty, page, back, next, building, commit>>
    BY DEF O!Play
  <1>2. /\ look' \in [O!Node -> UNION {Looks[n] : n \in O!Node}] /\ \A n \in O!Node : look'[n] \in Looks[n]
        /\ cam' \in Cams
    <2>0. /\ look \in [O!Node -> UNION {Looks[n] : n \in O!Node}] /\ \A n \in O!Node : look[n] \in Looks[n]
          /\ cam \in Cams
      BY DEF CapInv, CapTypes
    <2>1. CASE cam' \in Cams /\ UNCHANGED look
      BY <2>0, <2>1
    <2>2. CASE \E n \in O!Node : \E k \in Looks[n] : look' = [look EXCEPT ![n] = k] /\ UNCHANGED cam
      BY <2>0, <2>2
    <2> QED BY <2>1, <2>2 DEF O!Play
  <1>3. CapTypes'
    BY <1>1, <1>2 DEF CapInv, CapTypes
  <1>4. OnPages'
    <2>1. \A m : LastPage(m)' = LastPage(m)
      BY <1>1 DEF LastPage, Been, BeenBy
    <2>2. \A m \in O!Node : PagesHave(m, LastPage(m)', dirty', page', commit', era')
      BY <1>1, <2>1, OnPagesIs DEF CapInv
    <2> QED BY <2>2, OnPagesIs
  <1>5. Listed' /\ Room'
    BY <1>1 DEF CapInv, Listed, Room
  <1> QED BY <1>1, <1>3, <1>4, <1>5 DEF CapInv, Remembered

\* A level and a state forget what was captured, and what the list has is of an earlier one.
LEMMA EraEnds ==
  ASSUME CapInv, next = 0, era' = era + 1, commit' = O!CommitReset, UNCHANGED <<look, cam, width, back, next, building>>,
         dirty' \in [O!Node -> Records], page' \in [{0, 1} -> [O!Node -> Pics]],
         \A m \in O!Node : dirty'[m].count = 3 \/ (/\ page'[0][m] = page'[1][m] /\ page'[0][m] = [O!Pic(m) EXCEPT !.era = era']
                                                   /\ dirty'[m].frame = look[m].frame)
  PROVE  CapInv'
  <1>1. CapTypes /\ Listed /\ Room /\ era \in Nat /\ back \in {0, 1}
    BY DEF CapInv, CapTypes
  <1>2. CapTypes'
    BY <1>1 DEF CapTypes
  <1>3. Remembered(commit)'
    <2>1. DOMAIN commit' = {}
      BY DEF O!CommitReset
    <2> QED BY <2>1, FS_EmptySet, CapGiven DEF Remembered
  <1>4. OnPages'
    <2>1. ASSUME NEW m \in O!Node PROVE PagesHave(m, LastPage(m)', dirty', page', commit', era')
      <3>1. LastPage(m)' \in {0, 1} /\ 1 - LastPage(m)' \in {0, 1}
        BY <1>1 DEF LastPage
      <3>2. m \notin DOMAIN commit'
        BY DEF O!CommitReset
      <3>3. CASE dirty'[m].count = 3
        BY <3>2, <3>3 DEF PagesHave
      <3>4. CASE /\ page'[0][m] = page'[1][m] /\ page'[0][m] = [O!Pic(m) EXCEPT !.era = era']
                 /\ dirty'[m].frame = look[m].frame
        <4>1. look[m] \in Looks[m] /\ O!Pic(m) = [x |-> look[m].x, frame |-> look[m].frame, era |-> era]
          BY <1>1, PicIs DEF CapTypes
        <4>2. page'[0][m] = [x |-> look[m].x, frame |-> look[m].frame, era |-> era']
          BY <4>1, <3>4
        <4>3. page'[LastPage(m)'][m] = page'[0][m] /\ page'[1 - LastPage(m)'][m] = page'[0][m]
          BY <3>1, <3>4
        <4> QED BY <4>1, <4>2, <4>3, <3>2, <3>4 DEF PagesHave
      <3> QED BY <3>3, <3>4
    <2> QED BY <2>1, OnPagesIs
  <1>5. Listed'
    <2>1. \A i \in DOMAIN building : building[i] \in Entries
      BY <1>1 DEF CapTypes
    <2>2. \A i \in DOMAIN building : building[i].era \in Int /\ building[i].era <= era
      BY <1>1, <2>1 DEF Listed, Entries
    <2>3. \A i \in DOMAIN building : building[i].era <= era' /\ building[i].era # era'
      BY <1>1, <2>2
    <2> QED BY <1>1, <2>3 DEF Listed
  <1>6. Room'
    BY <1>1 DEF Room
  <1> QED BY <1>2, <1>3, <1>4, <1>5, <1>6 DEF CapInv

LEMMA LevelKeeps == ASSUME CapInv, O!LoadLevel PROVE CapInv'
  <1>1. O!Unset \in Records /\ O!Blank \in Pics /\ O!Unset.count = 3
    BY DEF O!Unset, O!Blank, Records, Pics
  <1>2. /\ next = 0 /\ era' = era + 1 /\ commit' = O!CommitReset /\ UNCHANGED <<look, cam, width, back, next, building>>
        /\ dirty' = [n \in O!Node |-> O!Unset] /\ page' = [i \in {0, 1} |-> [n \in O!Node |-> O!Blank]]
    BY DEF O!LoadLevel
  <1>3. dirty' \in [O!Node -> Records] /\ page' \in [{0, 1} -> [O!Node -> Pics]]
    BY <1>1, <1>2
  <1>4. \A m \in O!Node : dirty'[m].count = 3
    BY <1>1, <1>2
  <1>5. \A m \in O!Node : dirty'[m].count = 3 \/ (/\ page'[0][m] = page'[1][m] /\ page'[0][m] = [O!Pic(m) EXCEPT !.era = era']
                                                   /\ dirty'[m].frame = look[m].frame)
    BY <1>4
  <1> QED BY <1>2, <1>3, <1>5, EraEnds

LEMMA StateKeeps == ASSUME CapInv, O!LoadState PROVE CapInv'
  <1>1. /\ next = 0 /\ era' = era + 1 /\ commit' = O!CommitReset /\ UNCHANGED <<look, cam, width, back, next, building>>
        /\ dirty' = [n \in O!Node |-> [frame |-> look[n].frame, count |-> 1]]
        /\ page' = [i \in {0, 1} |-> [n \in O!Node |-> [O!Pic(n) EXCEPT !.era = era']]]
    BY DEF O!LoadState
  <1>2. \A n \in O!Node : look[n].frame \in Int /\ O!Pic(n) \in Pics /\ era' \in Int
    BY <1>1, CapGiven, PicIs DEF CapInv, CapTypes
  <1>3. \A n \in O!Node : [frame |-> look[n].frame, count |-> 1] \in Records /\ [O!Pic(n) EXCEPT !.era = era'] \in Pics
    BY <1>2 DEF Records, Pics
  <1>4. /\ dirty' \in [O!Node -> Records] /\ page' \in [{0, 1} -> [O!Node -> Pics]]
        /\ \A n \in O!Node : page'[0][n] = page'[1][n] /\ page'[0][n] = [O!Pic(n) EXCEPT !.era = era'] /\ dirty'[n].frame = look[n].frame
    BY <1>1, <1>3
  <1> QED BY <1>1, <1>4, EraEnds

LEMMA CaptureKeeps == ASSUME CapInv, Fits, O!Next \/ UNCHANGED capture PROVE CapInv'
  <1>1. CASE UNCHANGED capture
    <2>1. CapTypes' /\ Remembered(commit)'
      BY <1>1 DEF capture, CapInv, CapTypes, Remembered
    <2>2. OnPages'
      BY <1>1 DEF capture, CapInv, OnPages, Shows, LastPage, Been, BeenBy
    <2>3. Listed' /\ Room'
      BY <1>1 DEF capture, CapInv, Listed, Room, Been, BeenBy
    <2> QED BY <2>1, <2>2, <2>3 DEF CapInv
  <1> QED BY <1>1, ObjectKeeps, WalkKeeps, PlayKeeps, LevelKeeps, StateKeeps DEF O!Next

-----------------------------------------------------------------------------
\* The walker leaves out nothing the view shows (gameplay.c, ws_obj_cull_skip).
LEMMA SeenIsPassed == ASSUME CapTypes PROVE O!NothingSeenIsLeftOut
  <1> SUFFICES ASSUME NEW n \in O!Node, look[n].kind # "gone", width > CapDisplay, look[n].w * CapTile <= CapPad,
                      O!Seen(O!View, width, O!Signed(look[n].x), look[n].w * CapTile)
               PROVE  O!Passed(n)
    BY DEF O!NothingSeenIsLeftOut
  <1>1. {CapTile, CapScreen, CapDisplay, CapPad, CapWord} \subseteq Nat \ {0} /\ Edges[1] \in Int /\ Edges[2] \in Int
        /\ cam \in Int /\ width \in Nat
    BY CapturesAssumed DEF O!CaptureAssumption, O!ViewSizes, CapTypes
  <1>2. look[n].x \in Int /\ look[n].w \in Nat /\ look[n].kind \in {"fast", "still", "lively"}
    <2>1. look[n] \in [x : 0..CapWord - 1, w : Nat, frame : Nat, kind : {"gone", "fast", "still", "lively"}]
      BY CapturesAssumed DEF O!CaptureAssumption, CapTypes
    <2> QED BY <2>1
  <1>3. O!Signed(look[n].x) \in Int /\ O!Signed(cam) \in Int
    BY <1>1, <1>2 DEF O!Signed
  <1>4. O!ViewLeft(O!View, width) \in Int
    <2>1. O!LevelLo(O!View) \in Int /\ O!LevelHi(O!View) \in Int
      BY <1>1, <1>3 DEF O!LevelLo, O!LevelHi, O!View
    <2>2. O!Half(width) \in Int /\ O!Follow(O!View) \in Int
      BY <1>1, <1>3 DEF O!Half, O!Follow, O!View
    <2>3. (width - (O!LevelHi(O!View) - O!LevelLo(O!View))) \div 2 \in Int
      BY <1>1, <2>1
    <2> QED BY <1>1, <2>1, <2>2, <2>3 DEF O!ViewLeft, O!Between
  <1>5. look[n].w * CapTile \in Int
    BY <1>1, <1>2
  <1>6. \A s, w : ~O!Skipped(O!View, width, look[n].x, s, w)
    <2> DEFINE rel == O!Signed(look[n].x) - (O!ViewLeft(O!View, width) - CapPad)
    <2>1. \A s, w : O!Skipped(O!View, width, look[n].x, s, w) <=> rel < 0 \/ rel > width + 2 * CapPad
      BY <1>1 DEF O!Skipped
    <2>2. rel >= 0 /\ rel <= width + 2 * CapPad
      BY <1>1, <1>3, <1>4, <1>5 DEF O!Seen
    <2> HIDE DEF rel
    <2>3. rel \in Int
      BY <1>1, <1>3, <1>4 DEF rel
    <2> QED BY <1>1, <2>1, <2>2, <2>3
  <1> QED BY <1>2, <1>6 DEF O!Passed

LEMMA CapturesAreSound == ASSUME CapInv PROVE O!ObjectsOK
  <1>1. O!TypeOK
    <2>1. \A n \in O!Node : dirty[n].count \in 1..3
      BY DEF CapInv, CapTypes, Records
    <2> QED BY <2>1, SameCount DEF O!TypeOK, CapInv, CapTypes, Remembered, Room
  <1>2. O!ListedAsDrawn
    BY DEF O!ListedAsDrawn, CapInv, Listed
  <1> QED BY <1>1, <1>2, SeenIsPassed DEF O!ObjectsOK, CapInv

-----------------------------------------------------------------------------
(* The other passes and the banner. *)

OverTypes == /\ list \in [B!Lists -> Seq(Things)] /\ drawn \in [B!Lists -> Seq(Things)]
             /\ walked \in Nat /\ at \in Nat /\ ttl \in 0..Ttl /\ active \in BOOLEAN /\ fresh \in BOOLEAN
             /\ since \in [presents : Nat, walks : Nat, boxes : Nat]

\* A list has what was put up, as far as there is room.
Prefixed(a, b) == /\ Len(a) <= MaxThings /\ Len(a) <= Len(b) /\ (Len(a) < MaxThings => Len(a) = Len(b))
                  /\ \A i \in 1..Len(a) : a[i] = b[i]

\* A banner that is up has been presented for what its time has gone down, and since the first present of it
\* the walks that were counted are the ones it is told of.
Stands == /\ at <= walked /\ (active => ttl >= 1 /\ since.presents = Ttl - ttl)
          /\ active /\ ~fresh => walked <= at + since.walks

OnlyOurs == text = "level complete" /\ inside \subseteq {"teleport", "get ready", "level complete"}

OverInv == OverTypes /\ (\A l \in B!Lists : Prefixed(list[l], drawn[l])) /\ Stands /\ OnlyOurs

LEMMA OverGiven == MaxThings \in Nat /\ Ttl \in Nat /\ MaxThings > 0 /\ Ttl > 0
  BY OverlayAssumed DEF B!OverlayAssumption

LEMMA OverStarts == ASSUME B!Init PROVE OverInv
  <1>1. list = [l \in B!Lists |-> <<>>] /\ drawn = [l \in B!Lists |-> <<>>]
    BY DEF B!Init
  <1>2. walked = 0 /\ at = 0 /\ ttl = 0 /\ since = [presents |-> 0, walks |-> 0, boxes |-> 0]
    BY DEF B!Init
  <1>3. ~active /\ active \in BOOLEAN /\ fresh \in BOOLEAN
    BY DEF B!Init
  <1>4. text = "level complete" /\ inside = {}
    BY DEF B!Init
  <1>5. list \in [B!Lists -> Seq(Things)] /\ drawn \in [B!Lists -> Seq(Things)]
    BY <1>1
  <1>6. OverTypes
    BY <1>2, <1>3, <1>5, OverGiven DEF OverTypes
  <1>7. ASSUME NEW l \in B!Lists PROVE Prefixed(list[l], drawn[l])
    <2>1. list[l] = <<>> /\ drawn[l] = <<>>
      BY <1>1
    <2>2. Prefixed(<<>>, <<>>)
      BY OverGiven DEF Prefixed
    <2> QED BY <2>1, <2>2
  <1>8. Stands
    BY <1>2, <1>3 DEF Stands
  <1>9. OnlyOurs
    BY <1>4 DEF OnlyOurs
  <1> QED BY <1>6, <1>7, <1>8, <1>9 DEF OverInv

\* Starting a pass empties the lists it fills.
LEMMA ClearedKeeps ==
  ASSUME OverInv, NEW which, B!Cleared(which)
  PROVE  /\ list' \in [B!Lists -> Seq(Things)] /\ drawn' \in [B!Lists -> Seq(Things)]
         /\ \A l \in B!Lists : Prefixed(list'[l], drawn'[l])
  <1>1. list \in [B!Lists -> Seq(Things)] /\ drawn \in [B!Lists -> Seq(Things)] /\ \A l \in B!Lists : Prefixed(list[l], drawn[l])
    BY DEF OverInv, OverTypes
  <1>2. \A l \in B!Lists : /\ list'[l] = IF l \in which THEN <<>> ELSE list[l]
                           /\ drawn'[l] = IF l \in which THEN <<>> ELSE drawn[l]
    BY DEF B!Cleared
  <1>3. Prefixed(<<>>, <<>>) /\ <<>> \in Seq(Things)
    BY OverGiven DEF Prefixed
  <1>4. list' = [l \in B!Lists |-> IF l \in which THEN <<>> ELSE list[l]] /\ drawn' = [l \in B!Lists |-> IF l \in which THEN <<>> ELSE drawn[l]]
    BY DEF B!Cleared
  <1> QED BY <1>1, <1>2, <1>3, <1>4

LEMMA CaptureKeepsLists ==
  ASSUME OverInv, NEW l \in B!Lists, NEW t \in Things, B!Capture(l, t)
  PROVE  /\ list' \in [B!Lists -> Seq(Things)] /\ drawn' \in [B!Lists -> Seq(Things)]
         /\ \A k \in B!Lists : Prefixed(list'[k], drawn'[k])
  <1>1. /\ list \in [B!Lists -> Seq(Things)] /\ drawn \in [B!Lists -> Seq(Things)]
        /\ \A k \in B!Lists : Prefixed(list[k], drawn[k])
    BY DEF OverInv, OverTypes
  <1>2. list[l] \in Seq(Things) /\ drawn[l] \in Seq(Things) /\ Len(list[l]) \in Nat /\ Len(drawn[l]) \in Nat
    BY <1>1
  <1>3. drawn' = [drawn EXCEPT ![l] = Append(drawn[l], t)]
        /\ list' = IF Len(list[l]) < MaxThings THEN [list EXCEPT ![l] = Append(list[l], t)] ELSE list
    BY DEF B!Capture
  <1>4. Append(list[l], t) \in Seq(Things) /\ Append(drawn[l], t) \in Seq(Things)
    BY <1>2
  <1>5. list' \in [B!Lists -> Seq(Things)] /\ drawn' \in [B!Lists -> Seq(Things)]
    BY <1>1, <1>3, <1>4
  <1>6. Prefixed(list'[l], drawn'[l])
    <2>1. Prefixed(list[l], drawn[l]) /\ drawn'[l] = Append(drawn[l], t)
      BY <1>1, <1>3
    <2>2. CASE Len(list[l]) < MaxThings
      <3>1. list'[l] = Append(list[l], t)
        BY <1>1, <1>3, <2>2
      <3>2. Len(list[l]) = Len(drawn[l]) /\ \A i \in 1..Len(list[l]) : list[l][i] = drawn[l][i]
        BY <2>1, <2>2 DEF Prefixed
      <3> DEFINE a == list[l]
                 b == drawn[l]
      <3> HIDE DEF a, b
      <3>3. a \in Seq(Things) /\ b \in Seq(Things) /\ Len(a) < MaxThings /\ Len(a) = Len(b) /\ \A i \in 1..Len(a) : a[i] = b[i]
        BY <1>2, <2>2, <3>2 DEF a, b
      <3>4. Prefixed(Append(a, t), Append(b, t))
        <4>1. Len(Append(a, t)) = Len(a) + 1 /\ Len(Append(b, t)) = Len(b) + 1 /\ Len(a) \in Nat
          BY <3>3
        <4>2. \A i \in 1..Len(a) + 1 : Append(a, t)[i] = Append(b, t)[i]
          BY <3>3, <4>1
        <4> QED BY <3>3, <4>1, <4>2, OverGiven DEF Prefixed
      <3> QED BY <2>1, <3>1, <3>4 DEF a, b
    <2>3. CASE ~(Len(list[l]) < MaxThings)
      <3> DEFINE a == list[l]
                 b == drawn[l]
      <3>0. list'[l] = a
        BY <1>3, <2>3
      <3> HIDE DEF a, b
      <3>1. a \in Seq(Things) /\ b \in Seq(Things) /\ Prefixed(a, b) /\ ~(Len(a) < MaxThings)
        BY <1>2, <2>1, <2>3 DEF a, b
      <3>2. Len(Append(b, t)) = Len(b) + 1 /\ Len(a) \in Nat /\ Len(b) \in Nat /\ \A i \in 1..Len(b) : Append(b, t)[i] = b[i]
        BY <3>1
      <3>3. Prefixed(a, Append(b, t))
        BY <3>1, <3>2, OverGiven DEF Prefixed
      <3> QED BY <2>1, <3>0, <3>3 DEF b
    <2> QED BY <2>2, <2>3
  <1>7. ASSUME NEW k \in B!Lists, k # l PROVE Prefixed(list'[k], drawn'[k])
    <2>1. list'[k] = list[k] /\ drawn'[k] = drawn[k]
      BY <1>1, <1>3, <1>7
    <2> QED BY <1>1, <2>1
  <1> QED BY <1>5, <1>6, <1>7

\* A present takes the banner down, or off the time it has.
LEMMA PresentKeeps ==
  ASSUME OverInv, B!Present
  PROVE  /\ Stands' /\ at' \in Nat /\ ttl' \in 0..Ttl /\ active' \in BOOLEAN /\ fresh' \in BOOLEAN
         /\ since' \in [presents : Nat, walks : Nat, boxes : Nat] /\ inside' \subseteq inside
         /\ active /\ ~active' => since.walks > 0 \/ since.presents + 1 >= Ttl
  <1>1. /\ walked \in Nat /\ at \in Nat /\ ttl \in 0..Ttl /\ active \in BOOLEAN /\ fresh \in BOOLEAN /\ Ttl \in Nat
        /\ since \in [presents : Nat, walks : Nat, boxes : Nat] /\ Stands /\ walked' = walked
    BY OverGiven DEF OverInv, OverTypes, B!Present
  <1>2. CASE ~active
    <2>1. UNCHANGED <<active, fresh, ttl, at, inside, since>>
      BY <1>2 DEF B!Present, B!banner
    <2> QED BY <1>1, <1>2, <2>1 DEF Stands
  <1>3. CASE active
    <2>1. /\ fresh' = FALSE /\ at' = (IF fresh THEN walked ELSE at) /\ ttl' = ttl - 1
          /\ active' = ((fresh \/ walked <= at) /\ ttl > 1) /\ inside' = (IF active' THEN inside ELSE {})
          /\ since' = [since EXCEPT !.presents = since.presents + 1]
      BY <1>3 DEF B!Present, B!StaysWhileStill
    <2>2. since.presents \in Nat /\ since.walks \in Nat /\ ttl >= 1 /\ since.presents = Ttl - ttl /\ at <= walked
          /\ (~fresh => walked <= at + since.walks)
      BY <1>1, <1>3 DEF Stands
    <2>3. /\ since' \in [presents : Nat, walks : Nat, boxes : Nat] /\ since'.presents = since.presents + 1
          /\ since'.walks = since.walks
      BY <1>1, <2>1
    <2>4. at' \in Nat /\ at' <= walked' /\ walked' <= at' + since'.walks
      <3>1. CASE fresh
        BY <3>1, <1>1, <2>1, <2>2, <2>3
      <3>2. CASE ~fresh
        BY <3>2, <1>1, <2>1, <2>2, <2>3
      <3> QED BY <3>1, <3>2
    <2>5. ttl' \in 0..Ttl /\ since'.presents = Ttl - ttl' /\ (ttl > 1 => ttl' >= 1)
      BY <1>1, <2>1, <2>2, <2>3
    <2>6. Stands'
      BY <2>1, <2>4, <2>5 DEF Stands
    <2>7. ~active' => since.walks > 0 \/ since.presents + 1 >= Ttl
      <3>1. ASSUME ttl > 1, ~active' PROVE since.walks > 0
        <4>1. ~(fresh \/ walked <= at)
          BY <3>1, <2>1
        <4>2. ~(walked <= at) /\ walked <= at + since.walks
          BY <4>1, <2>2
        <4> QED BY <4>2, <1>1, <2>2
      <3>2. CASE ~(ttl > 1)
        BY <3>2, <1>1, <2>2
      <3> QED BY <3>1, <3>2
    <2> QED BY <2>1, <2>3, <2>4, <2>5, <2>6, <2>7
  <1> QED BY <1>2, <1>3

OverStep == (B!Passes \/ B!Banners \/ B!Present) \/ UNCHANGED overlay

\* A step keeps the lists and the banner, and takes a banner down only when its time is over or the game goes on.
LEMMA OverKeeps ==
  ASSUME OverInv, OverStep
  PROVE  OverInv' /\ (active /\ ~active' => since.walks > 0 \/ since.presents + 1 >= Ttl)
  <1>1. /\ OverTypes /\ Stands /\ OnlyOurs /\ \A l \in B!Lists : Prefixed(list[l], drawn[l])
    BY DEF OverInv
  <1>2. CASE B!Walk
    <2>1. /\ walked' = walked + 1 /\ B!Cleared(B!OfWalk) /\ UNCHANGED <<active, fresh, ttl, at, inside, text>>
          /\ since' = IF active THEN [since EXCEPT !.walks = since.walks + (IF fresh THEN 0 ELSE 1)] ELSE since
      BY <1>2 DEF B!Walk
    <2>2. /\ walked \in Nat /\ since \in [presents : Nat, walks : Nat, boxes : Nat] /\ at \in Nat /\ fresh \in BOOLEAN /\ active \in BOOLEAN
      BY <1>1 DEF OverTypes
    <2>3. /\ since' \in [presents : Nat, walks : Nat, boxes : Nat] /\ since'.presents = since.presents
          /\ active /\ ~fresh => since'.walks = since.walks + 1
      BY <2>1, <2>2
    <2>4. since.walks \in Nat
      BY <2>2
    <2>5. Stands'
      BY <1>1, <2>1, <2>2, <2>3, <2>4 DEF Stands
    <2>6. OverTypes' /\ \A l \in B!Lists : Prefixed(list'[l], drawn'[l])
      BY <1>1, <2>1, <2>2, <2>3, ClearedKeeps DEF OverTypes
    <2> QED BY <1>1, <2>1, <2>5, <2>6 DEF OverInv, OnlyOurs
  <1>3. CASE B!EndPass \/ UNCHANGED overlay
    <2>1. UNCHANGED <<drawn, list, active, fresh, ttl, at, inside, since, walked, text>>
      BY <1>3 DEF B!EndPass, overlay, B!banner
    <2> QED BY <1>1, <2>1 DEF OverInv, OverTypes, Stands, OnlyOurs
  <1>4. ASSUME NEW l \in B!Lists, B!BeginPass(l)
        PROVE  OverInv' /\ active' = active
    <2>1. UNCHANGED <<active, fresh, ttl, at, inside, since, walked, text>> /\ B!Cleared({l})
      BY <1>4 DEF B!BeginPass, B!banner
    <2>2. OverTypes' /\ \A m \in B!Lists : Prefixed(list'[m], drawn'[m])
      BY <1>1, <2>1, ClearedKeeps DEF OverTypes
    <2> QED BY <1>1, <2>1, <2>2 DEF OverInv, Stands, OnlyOurs
  <1>5. ASSUME NEW l \in B!Lists, NEW t \in Things, B!Capture(l, t)
        PROVE  OverInv' /\ active' = active
    <2>1. UNCHANGED <<active, fresh, ttl, at, inside, since, walked, text>>
      BY <1>5 DEF B!Capture, B!banner
    <2>2. OverTypes' /\ \A m \in B!Lists : Prefixed(list'[m], drawn'[m])
      BY <1>1, <1>5, <2>1, CaptureKeepsLists DEF OverTypes
    <2> QED BY <1>1, <2>1, <2>2 DEF OverInv, Stands, OnlyOurs
  <1>6. CASE B!DrawBox
    <2>1. /\ active' = TRUE /\ fresh' = TRUE /\ ttl' = Ttl /\ UNCHANGED <<list, drawn, walked, at, inside, text>>
          /\ since' = [presents |-> 0, walks |-> 0, boxes |-> since.boxes + 1]
      BY <1>6 DEF B!DrawBox, B!lists
    <2>2. since.boxes \in Nat
      BY <1>1 DEF OverTypes
    <2>3. OverTypes' /\ Stands'
      BY <1>1, <2>1, <2>2, OverGiven DEF OverTypes, Stands
    <2> QED BY <1>1, <2>1, <2>3 DEF OverInv, OnlyOurs
  <1>7. ASSUME NEW what \in {"teleport", "get ready"}, B!DrawInside(what)
        PROVE  OverInv' /\ active' = active
    <2>1. /\ UNCHANGED <<list, drawn, active, fresh, ttl, at, since, walked, text>>
          /\ inside' \subseteq inside \cup {what}
      BY <1>7 DEF B!DrawInside, B!lists
    <2> QED BY <1>1, <2>1 DEF OverInv, OverTypes, Stands, OnlyOurs
  <1>8. CASE B!DrawComplete(2)
    <2>1. /\ UNCHANGED <<list, drawn, active, fresh, ttl, at, since, walked, text>>
          /\ inside' = {w \in inside : w = "teleport"} \cup {text}
      BY <1>8 DEF B!DrawComplete, B!lists
    <2> QED BY <1>1, <2>1 DEF OverInv, OverTypes, Stands, OnlyOurs
  <1>9. CASE B!BuildPassword \/ B!LoadLevel
    <2>1. /\ UNCHANGED <<list, drawn, active, fresh, ttl, at, since, walked, inside>> /\ text' = "level complete"
      BY <1>9 DEF B!BuildPassword, B!LoadLevel, B!TextRewritten, B!lists, B!banner
    <2> QED BY <1>1, <2>1 DEF OverInv, OverTypes, Stands, OnlyOurs
  <1>10. CASE B!Present
    <2>1. UNCHANGED <<list, drawn, walked, text>>
      BY <1>10 DEF B!Present
    <2> QED BY <1>1, <1>10, <2>1, PresentKeeps DEF OverInv, OverTypes, OnlyOurs
  <1>11. "teleport" \in {"teleport", "get ready"} /\ "get ready" \in {"teleport", "get ready"} /\ active \in BOOLEAN
    BY <1>1 DEF OverTypes
  <1>12. CASE B!Passes
    BY <1>2, <1>3, <1>4, <1>5, <1>12 DEF B!Passes
  <1>13. CASE B!Banners
    BY <1>2, <1>3, <1>6, <1>7, <1>8, <1>9, <1>11, <1>13 DEF B!Banners
  <1> QED BY <1>3, <1>10, <1>12, <1>13 DEF OverStep

LEMMA OverlayIsSound == ASSUME OverInv PROVE B!OverlayOK
  <1>1. OverTypes /\ Stands /\ OnlyOurs /\ \A l \in B!Lists : Prefixed(list[l], drawn[l])
    BY DEF OverInv
  <1>2. \A l \in B!Lists : Len(list[l]) <= MaxThings /\ list[l] = SubSeq(drawn[l], 1, Len(list[l]))
    <2> SUFFICES ASSUME NEW l \in B!Lists
                 PROVE  Len(list[l]) <= MaxThings /\ list[l] = SubSeq(drawn[l], 1, Len(list[l]))
      OBVIOUS
    <2> DEFINE a == list[l]
               b == drawn[l]
    <2>1. a \in Seq(Things) /\ b \in Seq(Things) /\ Prefixed(a, b)
      BY <1>1 DEF OverTypes
    <2> HIDE DEF a, b
    <2>2. Len(a) \in Nat /\ Len(a) <= Len(b) /\ Len(a) <= MaxThings /\ a = [i \in 1..Len(a) |-> a[i]] /\ \A i \in 1..Len(a) : a[i] = b[i]
      BY <2>1 DEF Prefixed
    <2>3. SubSeq(b, 1, Len(a)) = [i \in 1..Len(a) |-> b[i]]
      BY <2>1, <2>2
    <2>4. a = SubSeq(b, 1, Len(a))
      BY <2>2, <2>3
    <2> QED BY <2>2, <2>4 DEF a, b
  <1>3. B!TypeOK
    BY <1>1, <1>2 DEF B!TypeOK, OverTypes, Stands
  <1>4. B!BannerStands
    <2>1. Ttl \in Nat /\ ttl \in 0..Ttl /\ at <= walked
      BY <1>1, OverGiven DEF OverTypes, Stands
    <2>2. ASSUME active PROVE since.presents < Ttl
      <3>1. ttl >= 1 /\ since.presents = Ttl - ttl
        BY <1>1, <2>2 DEF Stands
      <3> QED BY <2>1, <3>1
    <2> QED BY <2>1, <2>2 DEF B!BannerStands
  <1>5. B!NoPassword
    BY <1>1 DEF B!NoPassword, OnlyOurs
  <1> QED BY <1>3, <1>4, <1>5 DEF B!OverlayOK
-----------------------------------------------------------------------------
(* The copper list. *)

\* A set of naturals has a least element, and one that holds 0 and each successor holds them all.
LEMMA Least ==
  ASSUME NEW T, T \subseteq Nat, T # {}
  PROVE  \E a \in T : \A y \in T : a <= y
  <1> DEFINE Q == OpToRel(<, Nat)
  <1>1. IsWellFoundedOn(Q, Nat)
    BY NatLessThanWellFounded
  <1>2. \A a, y \in Nat : a < y => <<a, y>> \in Q
    BY DEF OpToRel
  <1> HIDE DEF Q
  <1>3. \E a \in T : \A y \in T : ~(<<y, a>> \in Q)
    BY <1>1, WFMin
  <1>4. PICK a \in T : \A y \in T : ~(<<y, a>> \in Q)
    BY <1>3
  <1>5. ASSUME NEW y \in T PROVE a <= y
    <2>1. a \in Nat /\ y \in Nat
      OBVIOUS
    <2>2. ~(y < a)
      BY <1>2, <1>4, <2>1
    <2> QED BY <2>1, <2>2
  <1> QED BY <1>5

LEMMA SetInduction ==
  ASSUME NEW S, 0 \in S, \A n \in Nat : n \in S => n + 1 \in S
  PROVE  Nat \subseteq S
  <1> DEFINE T == {n \in Nat : n \notin S}
  <1> SUFFICES ASSUME T # {} PROVE FALSE
    OBVIOUS
  <1>1. PICK a \in T : \A y \in T : a <= y
    BY Least
  <1>2. a \in Nat /\ a # 0
    OBVIOUS
  <1>3. a - 1 \in Nat /\ a - 1 \notin T
    BY <1>1, <1>2
  <1>4. (a - 1) + 1 \in S
    BY <1>3
  <1> QED BY <1>2, <1>4

\* The greatest of a bounded set.
LEMMA Greatest ==
  ASSUME NEW T, NEW n \in Nat, T \subseteq 1..n, T # {}
  PROVE  C!Max(T) \in T /\ \A y \in T : y <= C!Max(T)
  <1> DEFINE U == {n - y : y \in T}
  <1>1. U \subseteq Nat /\ U # {}
    <2>1. PICK y \in T : TRUE
      OBVIOUS
    <2>2. n - y \in U
      BY <2>1
    <2>3. \A v \in T : n - v \in Nat
      OBVIOUS
    <2> QED BY <2>2, <2>3
  <1>2. PICK u \in U : \A v \in U : u <= v
    BY <1>1, Least
  <1>3. PICK a \in T : u = n - a
    BY <1>2
  <1>4. ASSUME NEW y \in T PROVE a >= y
    <2>1. n - a <= n - y
      BY <1>2, <1>3
    <2> QED BY <2>1
  <1>5. C!Max(T) \in T /\ \A y \in T : C!Max(T) >= y
    BY <1>4 DEF C!Max
  <1>6. \A y \in T : y \in Int
    OBVIOUS
  <1> QED BY <1>5, <1>6

\* The greatest of a set is the one nothing exceeds.
LEMMA MaxIs ==
  ASSUME NEW T, NEW a \in T, T \subseteq Int, \A y \in T : y <= a
  PROVE  C!Max(T) = a
  <1>1. C!Max(T) \in T /\ \A y \in T : C!Max(T) >= y
    BY DEF C!Max
  <1>2. C!Max(T) >= a /\ C!Max(T) <= a /\ C!Max(T) \in Int /\ a \in Int
    BY <1>1
  <1> QED BY <1>2

LEMMA PairMax ==
  ASSUME NEW x \in Int, NEW y \in Int
  PROVE  C!Max({x, y}) = IF x >= y THEN x ELSE y
  BY DEF C!Max

LEMMA PairMin ==
  ASSUME NEW x \in Int, NEW y \in Int
  PROVE  C!Min({x, y}) = IF x <= y THEN x ELSE y
  BY DEF C!Min

LEMMA CopperCount == \A S : C!Cardinality(S) = Cardinality(S)
  BY DEF C!Cardinality, Cardinality

\* What is assumed of the copper lists and the ring.
LEMMA CopperGiven ==
  /\ {CopperH, Width, First, Wrap, High, MaxAnchors} \subseteq Nat \ {0} /\ Ring \in Nat \ {0, 1}
  /\ Later \subseteq Chips /\ Delays \subseteq Nat /\ MaxFrames \in Nat
  /\ \A c \in Chips, p \in Places : C!Sane(c.lists[p])
  BY CopperAssumed DEF C!CopperAssumption

-----------------------------------------------------------------------------
\* A list's instructions.
\* What a list is made of: each instruction, and the WAIT for the last line that ends it.
LEMMA SaneIs ==
  ASSUME NEW l, C!Sane(l)
  PROVE  /\ Len(l) \in Nat /\ DOMAIN l = 1..Len(l)
         /\ Cardinality({i \in 1..Len(l) : l[i].op = "wait"}) <= MaxAnchors
         /\ \A i \in 1..Len(l) : l[i].op \in {"move", "wait", "skip"}
         /\ \A i \in 1..Len(l) : l[i].op = "wait" => l[i].vp \in 0..Wrap - 1
         /\ \A i \in 1..Len(l) : l[i].op = "move" => l[i].reg \in C!Registers \cup {"low", "high"}
         /\ \A i \in 1..Len(l) : l[i].op = "move" /\ l[i].reg \in {"low", "high"} => l[i].plane \in C!Planes
         /\ \A i \in 1..Len(l) : l[i].op = "move" /\ l[i].reg = "high" =>
              i + 1 \in 1..Len(l) /\ l[i + 1].op = "move" /\ l[i + 1].reg = "low" /\ l[i + 1].plane = l[i].plane
  <1>1. l \in Seq(C!Range(l))
    BY DEF C!Sane
  <1>2. Len(l) \in Nat /\ DOMAIN l = 1..Len(l)
    BY <1>1
  <1>3. \A i \in 1..Len(l) :
       \/ l[i].op = "skip"
       \/ l[i].op = "wait" /\ l[i].vp \in 0..Wrap - 1
       \/ l[i].op = "move" /\ l[i].reg \in C!Registers
       \/ l[i].op = "move" /\ l[i].reg = "low" /\ l[i].plane \in C!Planes
       \/ /\ l[i].op = "move" /\ l[i].reg = "high" /\ l[i].plane \in C!Planes /\ i + 1 \in DOMAIN l
          /\ l[i + 1].op = "move" /\ l[i + 1].reg = "low" /\ l[i + 1].plane = l[i].plane
    BY <1>2 DEF C!Sane
  <1>4. "low" \notin C!Registers /\ "high" \notin C!Registers
    BY DEF C!Registers
  <1>5. Cardinality({i \in 1..Len(l) : l[i].op = "wait"}) <= MaxAnchors
    BY <1>2, CopperCount DEF C!Sane
  <1> QED BY <1>2, <1>3, <1>4, <1>5

\* An instruction runs unless a SKIP that runs stands before it.
LEMMA RunsIs ==
  ASSUME NEW l, C!Sane(l)
  PROVE  /\ C!Runs(l, 1)
         /\ \A i \in 1..Len(l) : C!Runs(l, i + 1) <=> ~(l[i].op = "skip" /\ C!Runs(l, i))
  <1>1. C!Runs(l, 1)
    <2>1. C!Skips(l, 1) = {}
      BY DEF C!Skips
    <2> QED BY <2>1, CopperCount, FS_EmptySet DEF C!Runs
  <1>2. ASSUME NEW i \in 1..Len(l) PROVE C!Runs(l, i + 1) <=> ~(l[i].op = "skip" /\ C!Runs(l, i))
    <2>0. i \in Nat /\ i >= 1
      BY SaneIs
    <2>1. CASE l[i].op # "skip"
      <3>1. \A j \in 1..(i + 1) - 1 : i \in j..(i + 1) - 1
        BY <2>0
      <3>2. C!Skips(l, i + 1) = {}
        BY <2>1, <3>1 DEF C!Skips
      <3>3. C!Cardinality(C!Skips(l, i + 1)) = 0
        BY <3>2, CopperCount, FS_EmptySet
      <3> QED BY <2>1, <3>3 DEF C!Runs
    <2>2. CASE l[i].op = "skip"
      <3>1. ASSUME NEW j \in 1..i - 1 PROVE (\A k \in j..i : l[k].op = "skip") <=> (\A k \in j..i - 1 : l[k].op = "skip")
        <4>1. \A k : k \in j..i <=> k \in j..i - 1 \/ k = i
          BY <2>0
        <4> QED BY <2>2, <4>1
      <3>2. \A j : j \in 1..(i + 1) - 1 <=> j \in 1..i - 1 \/ j = i
        BY <2>0
      <3>3. (i + 1) - 1 = i /\ \A k : k \in i..i <=> k = i
        BY <2>0
      <3>4. C!Skips(l, i + 1) = {j \in 1..(i + 1) - 1 : \A k \in j..i : l[k].op = "skip"}
        BY <3>3 DEF C!Skips
      <3>5. C!Skips(l, i + 1) = C!Skips(l, i) \cup {i}
        BY <2>2, <3>1, <3>2, <3>3, <3>4 DEF C!Skips
      <3>6. C!Skips(l, i) \subseteq 1..i - 1 /\ i \notin C!Skips(l, i)
        BY <2>0 DEF C!Skips
      <3>7. IsFiniteSet(C!Skips(l, i))
        <4>1. IsFiniteSet(1..i - 1)
          BY <2>0, FS_Interval
        <4> QED BY <3>6, <4>1, FS_Subset
      <3>8. Cardinality(C!Skips(l, i + 1)) = Cardinality(C!Skips(l, i)) + 1
        BY <3>5, <3>6, <3>7, FS_AddElement
      <3>9. Cardinality(C!Skips(l, i)) \in Nat
        BY <3>7, FS_CardinalityType
      <3>10. \A c \in Nat : ((c + 1) % 2 = 0) <=> ~((c % 2) = 0)
        OBVIOUS
      <3> QED BY <2>2, <3>8, <3>9, <3>10, CopperCount DEF C!Runs
    <2> QED BY <2>1, <2>2
  <1> QED BY <1>1, <1>2

\* The instructions before the next one that runs are those before this one, and this one.
LEMMA BeforeNext ==
  ASSUME NEW l, C!Sane(l), NEW i \in 1..Len(l), NEW r
  PROVE  /\ C!Waits(l, i + 1) = C!Waits(l, i) \cup (IF l[i].op = "wait" /\ C!Runs(l, i) THEN {i} ELSE {})
         /\ C!Moves(l, r, i + 1) = C!Moves(l, r, i) \cup (IF l[i].op = "move" /\ l[i].reg = r /\ C!Runs(l, i) THEN {i} ELSE {})
  <1>1. \A j : j \in 1..(i + 1) - 1 <=> j \in 1..i - 1 \/ j = i
    BY SaneIs
  <1> QED BY <1>1 DEF C!Waits, C!Moves

\* A line number falls between two WAITs when the beam has wrapped; the next WAIT may be one more.
LEMMA FallsNext ==
  ASSUME NEW l, C!Sane(l), NEW i \in 1..Len(l)
  PROVE  C!Falls(l, i + 1) = C!Falls(l, i) \cup
           (IF l[i].op = "wait" /\ C!Runs(l, i) /\ C!Waits(l, i) # {} /\ l[i].vp < l[C!Max(C!Waits(l, i))].vp THEN {i} ELSE {})
  BY BeforeNext DEF C!Falls

\* The WAITs before an instruction are so many, and the last of them is the greatest.
LEMMA WaitsAre ==
  ASSUME NEW l, C!Sane(l), NEW i \in 1..Len(l) + 1
  PROVE  /\ C!Waits(l, i) \subseteq 1..i - 1 /\ IsFiniteSet(C!Waits(l, i))
         /\ C!Falls(l, i) \subseteq C!Waits(l, i) /\ IsFiniteSet(C!Falls(l, i)) /\ Cardinality(C!Falls(l, i)) \in Nat
         /\ C!Waits(l, i) # {} => C!Max(C!Waits(l, i)) \in C!Waits(l, i) /\ \A j \in C!Waits(l, i) : j <= C!Max(C!Waits(l, i))
         /\ \A j \in C!Waits(l, i) : j \in 1..Len(l) /\ l[j].op = "wait" /\ l[j].vp \in 0..Wrap - 1
  <1>0. Len(l) \in Nat /\ i \in Nat /\ i >= 1
    BY SaneIs
  <1>1. C!Waits(l, i) \subseteq 1..i - 1 /\ C!Falls(l, i) \subseteq C!Waits(l, i)
    BY DEF C!Waits, C!Falls
  <1>2. IsFiniteSet(1..i - 1)
    BY <1>0, FS_Interval
  <1>3. IsFiniteSet(C!Waits(l, i)) /\ IsFiniteSet(C!Falls(l, i))
    BY <1>1, <1>2, FS_Subset
  <1>4. Cardinality(C!Falls(l, i)) \in Nat
    BY <1>3, FS_CardinalityType
  <1>5. i - 1 \in Nat
    BY <1>0
  <1>6. C!Waits(l, i) # {} => C!Max(C!Waits(l, i)) \in C!Waits(l, i) /\ \A j \in C!Waits(l, i) : j <= C!Max(C!Waits(l, i))
    BY <1>1, <1>5, Greatest
  <1>7. \A j \in C!Waits(l, i) : j \in 1..Len(l) /\ l[j].op = "wait"
    BY <1>0 DEF C!Waits
  <1> QED BY <1>1, <1>3, <1>4, <1>6, <1>7, SaneIs

\* Where a WAIT's line numbers count from, and the last one's.
Base(l, i)   == Wrap * Cardinality(C!Falls(l, i))
LastVp(l, i) == IF C!Waits(l, i) = {} THEN -1 ELSE l[C!Max(C!Waits(l, i))].vp

\* Where an instruction takes effect: never above the line of the WAIT before it, and in the picture or past it.
LEMMA EffectIs ==
  ASSUME NEW l, C!Sane(l), NEW i \in 1..Len(l) + 1
  PROVE  /\ Base(l, i) \in Nat /\ LastVp(l, i) \in -1..Wrap - 1
         /\ C!Waits(l, i) = {} => LastVp(l, i) = -1 /\ C!EffectAt(l, i) = 0 /\ Base(l, i) = 0
         /\ C!Waits(l, i) # {} => /\ LastVp(l, i) >= 0
                                  /\ C!EffectAt(l, i) = IF LastVp(l, i) + Base(l, i) - First >= 0 THEN LastVp(l, i) + Base(l, i) - First ELSE 0
         /\ C!EffectAt(l, i) \in Nat
  <1>1. Wrap \in Nat \ {0} /\ First \in Nat
    BY CopperGiven
  <1>2. Cardinality(C!Falls(l, i)) \in Nat
    BY WaitsAre
  <1>3. Base(l, i) \in Nat
    BY <1>1, <1>2 DEF Base
  <1>4. CASE C!Waits(l, i) = {}
    <2>1. C!Falls(l, i) = {}
      BY <1>4, WaitsAre
    <2>2. Cardinality(C!Falls(l, i)) = 0
      BY <2>1, FS_EmptySet
    <2>3. Base(l, i) = 0
      BY <1>1, <2>2 DEF Base
    <2> QED BY <1>1, <1>3, <1>4, <2>3 DEF LastVp, C!EffectAt
  <1>5. CASE C!Waits(l, i) # {}
    <2>1. LastVp(l, i) = l[C!Max(C!Waits(l, i))].vp /\ LastVp(l, i) \in 0..Wrap - 1
      BY <1>5, WaitsAre DEF LastVp
    <2>2. C!EffectAt(l, i) = C!Max({LastVp(l, i) + Base(l, i) - First, 0})
      BY <1>5, <2>1, CopperCount DEF C!EffectAt, Base
    <2>3. LastVp(l, i) + Base(l, i) - First \in Int
      BY <1>1, <1>3, <2>1
    <2> DEFINE e == LastVp(l, i) + Base(l, i) - First
    <2> HIDE DEF e
    <2>4. C!EffectAt(l, i) = IF e >= 0 THEN e ELSE 0
      BY <2>2, <2>3, PairMax DEF e
    <2>5. C!EffectAt(l, i) \in Nat
      BY <2>3, <2>4 DEF e
    <2>6. LastVp(l, i) >= 0 /\ LastVp(l, i) \in -1..Wrap - 1
      BY <1>1, <2>1
    <2> QED BY <1>3, <1>5, <2>4, <2>5, <2>6 DEF e
  <1> QED BY <1>4, <1>5

\* A WAIT takes the effect of what follows it to its own line, counted from where the beam has wrapped to.
LEMMA EffectNext ==
  ASSUME NEW l, C!Sane(l), NEW i \in 1..Len(l)
  PROVE  /\ l[i].op = "wait" /\ C!Runs(l, i) =>
              /\ LastVp(l, i + 1) = l[i].vp /\ C!Waits(l, i + 1) # {} /\ i \in C!Waits(l, i + 1)
              /\ Base(l, i + 1) = Base(l, i) + (IF l[i].vp < LastVp(l, i) THEN Wrap ELSE 0)
         /\ ~(l[i].op = "wait" /\ C!Runs(l, i)) =>
              /\ LastVp(l, i + 1) = LastVp(l, i) /\ Base(l, i + 1) = Base(l, i)
              /\ C!Waits(l, i + 1) = C!Waits(l, i) /\ C!EffectAt(l, i + 1) = C!EffectAt(l, i)
  <1>0. Len(l) \in Nat /\ i \in 1..Len(l) + 1 /\ i + 1 \in 1..Len(l) + 1 /\ (i + 1) - 1 = i
    BY SaneIs
  <1>1. CASE l[i].op = "wait" /\ C!Runs(l, i)
    <2>1. C!Waits(l, i + 1) = C!Waits(l, i) \cup {i}
      BY <1>1, BeforeNext
    <2>2. C!Waits(l, i + 1) \subseteq Int /\ \A j \in C!Waits(l, i + 1) : j <= i
      BY <1>0, WaitsAre
    <2>3. C!Max(C!Waits(l, i + 1)) = i
      BY <2>1, <2>2, MaxIs
    <2>4. LastVp(l, i + 1) = l[i].vp
      BY <2>1, <2>3 DEF LastVp
    <2>5. l[i].vp \in Nat
      <3>1. l[i].vp \in 0..Wrap - 1
        BY <1>1, SaneIs
      <3> QED BY <3>1, CopperGiven
    <2> DEFINE falls == C!Waits(l, i) # {} /\ l[i].vp < l[C!Max(C!Waits(l, i))].vp
    <2>6. falls <=> l[i].vp < LastVp(l, i)
      BY <2>5 DEF LastVp
    <2>7. C!Falls(l, i + 1) = IF falls THEN C!Falls(l, i) \cup {i} ELSE C!Falls(l, i)
      <3>1. C!Falls(l, i + 1) = C!Falls(l, i) \cup (IF l[i].op = "wait" /\ C!Runs(l, i) /\ falls THEN {i} ELSE {})
        BY FallsNext
      <3> HIDE DEF falls
      <3> QED BY <1>1, <3>1
    <2> HIDE DEF falls
    <2>8. IsFiniteSet(C!Falls(l, i)) /\ i \notin C!Falls(l, i) /\ Cardinality(C!Falls(l, i)) \in Nat
      <3>1. C!Falls(l, i) \subseteq 1..i - 1
        BY <1>0, WaitsAre
      <3>2. i \notin 1..i - 1
        BY <1>0
      <3> QED BY <1>0, <3>1, <3>2, WaitsAre
    <2>9. Cardinality(C!Falls(l, i + 1)) = IF falls THEN Cardinality(C!Falls(l, i)) + 1 ELSE Cardinality(C!Falls(l, i))
      BY <2>7, <2>8, FS_AddElement
    <2>10. \A c \in Nat : Wrap * (c + 1) = Wrap * c + Wrap
      BY CopperGiven
    <2>11. Base(l, i + 1) = Base(l, i) + (IF falls THEN Wrap ELSE 0)
      <3>1. Base(l, i) \in Nat
        BY <1>0, EffectIs
      <3>2. CASE falls
        BY <2>8, <2>9, <2>10, <3>2 DEF Base
      <3>3. CASE ~falls
        <4>1. Base(l, i + 1) = Base(l, i)
          BY <2>9, <3>3 DEF Base
        <4> QED BY <3>1, <3>3, <4>1
      <3> QED BY <3>2, <3>3
    <2> QED BY <1>1, <2>1, <2>4, <2>6, <2>11
  <1>2. CASE ~(l[i].op = "wait" /\ C!Runs(l, i))
    <2>1. C!Waits(l, i + 1) = C!Waits(l, i) /\ C!Falls(l, i + 1) = C!Falls(l, i)
      <3>1. C!Falls(l, i + 1) = C!Falls(l, i) \cup {}
        <4>1. ~(l[i].op = "wait" /\ C!Runs(l, i) /\ C!Waits(l, i) # {} /\ l[i].vp < l[C!Max(C!Waits(l, i))].vp)
          BY <1>2
        <4> QED BY <4>1, FallsNext
      <3>2. C!Waits(l, i + 1) = C!Waits(l, i) \cup {}
        BY <1>2, BeforeNext
      <3> QED BY <3>1, <3>2
    <2> QED BY <1>2, <2>1 DEF LastVp, Base, C!EffectAt
  <1> QED BY <1>1, <1>2

\* One instruction further, the effect is no earlier.
LEMMA EffectGrows ==
  ASSUME NEW l, C!Sane(l), NEW i \in 1..Len(l)
  PROVE  C!EffectAt(l, i) <= C!EffectAt(l, i + 1) /\ C!Waits(l, i) \subseteq C!Waits(l, i + 1)
  <1>0. i \in 1..Len(l) + 1 /\ i + 1 \in 1..Len(l) + 1
    BY SaneIs
  <1>1. C!Waits(l, i) \subseteq C!Waits(l, i + 1)
    BY BeforeNext
  <1>2. C!EffectAt(l, i) \in Nat /\ C!EffectAt(l, i + 1) \in Nat /\ Base(l, i) \in Nat /\ Base(l, i + 1) \in Nat
    BY <1>0, EffectIs
  <1>3. First \in Nat /\ Wrap \in Nat \ {0}
    BY CopperGiven
  <1>4. CASE l[i].op = "wait" /\ C!Runs(l, i)
    <2>1. /\ LastVp(l, i + 1) = l[i].vp /\ C!Waits(l, i + 1) # {} /\ l[i].vp \in 0..Wrap - 1
          /\ Base(l, i + 1) = Base(l, i) + (IF l[i].vp < LastVp(l, i) THEN Wrap ELSE 0)
      <3>1. l[i].vp \in 0..Wrap - 1
        BY <1>4, SaneIs
      <3>2. /\ LastVp(l, i + 1) = l[i].vp /\ C!Waits(l, i + 1) # {}
            /\ Base(l, i + 1) = Base(l, i) + (IF l[i].vp < LastVp(l, i) THEN Wrap ELSE 0)
        BY <1>4, EffectNext
      <3> QED BY <3>1, <3>2
    <2> DEFINE e == LastVp(l, i) + Base(l, i) - First
               e2 == LastVp(l, i + 1) + Base(l, i + 1) - First
    <2>2. C!EffectAt(l, i + 1) = IF e2 >= 0 THEN e2 ELSE 0
      BY <1>0, <2>1, EffectIs
    <2>3. CASE C!Waits(l, i) = {}
      <3>1. C!EffectAt(l, i) = 0
        BY <1>0, <2>3, EffectIs
      <3> QED BY <1>1, <1>2, <3>1
    <2>4. CASE C!Waits(l, i) # {}
      <3>1. C!EffectAt(l, i) = (IF e >= 0 THEN e ELSE 0) /\ LastVp(l, i) \in -1..Wrap - 1
        BY <1>0, <2>4, EffectIs
      <3>2. e2 >= e /\ e \in Int /\ e2 \in Int
        <4> DEFINE v == LastVp(l, i)
                   w == l[i].vp
                   b == Base(l, i)
        <4>1. v \in -1..Wrap - 1 /\ w \in 0..Wrap - 1 /\ b \in Nat
          BY <1>2, <2>1, <3>1
        <4>2. e = v + b - First /\ e2 = w + (b + (IF w < v THEN Wrap ELSE 0)) - First
          BY <2>1
        <4> HIDE DEF e, e2, v, w, b
        <4>3. v \in Int /\ w \in Int /\ v < Wrap /\ w >= 0
          BY <1>3, <4>1
        <4> QED BY <1>3, <4>1, <4>2, <4>3
      <3> HIDE DEF e, e2
      <3> QED BY <1>1, <2>2, <3>1, <3>2
    <2> QED BY <2>3, <2>4
  <1>5. CASE ~(l[i].op = "wait" /\ C!Runs(l, i))
    <2>1. C!EffectAt(l, i + 1) = C!EffectAt(l, i)
      BY <1>5, EffectNext
    <2> QED BY <1>1, <1>2, <2>1
  <1> QED BY <1>4, <1>5

\* An instruction takes effect no earlier than those before it.
LEMMA EffectMonotone ==
  ASSUME NEW l, C!Sane(l), NEW i \in 1..Len(l) + 1, NEW j \in i..Len(l) + 1
  PROVE  C!EffectAt(l, i) <= C!EffectAt(l, j) /\ C!Waits(l, i) \subseteq C!Waits(l, j)
  <1>0. Len(l) \in Nat /\ i \in Nat /\ j \in Nat /\ i >= 1 /\ j >= i /\ j <= Len(l) + 1
    BY SaneIs
  <1> DEFINE S == {n \in Nat : i + n <= Len(l) + 1 => C!EffectAt(l, i) <= C!EffectAt(l, i + n) /\ C!Waits(l, i) \subseteq C!Waits(l, i + n)}
  <1>1. 0 \in S
    <2>1. C!EffectAt(l, i) \in Nat /\ i + 0 = i
      BY <1>0, EffectIs
    <2>2. C!EffectAt(l, i) <= C!EffectAt(l, i + 0) /\ C!Waits(l, i) \subseteq C!Waits(l, i + 0)
      BY <2>1
    <2> QED BY <2>2
  <1>2. ASSUME NEW n \in Nat, n \in S PROVE n + 1 \in S
    <2> SUFFICES ASSUME i + (n + 1) <= Len(l) + 1
                 PROVE  C!EffectAt(l, i) <= C!EffectAt(l, i + (n + 1)) /\ C!Waits(l, i) \subseteq C!Waits(l, i + (n + 1))
      OBVIOUS
    <2> DEFINE m == i + n
    <2>1. m \in 1..Len(l) /\ i + (n + 1) = m + 1 /\ i + n <= Len(l) + 1 /\ m \in 1..Len(l) + 1 /\ m + 1 \in 1..Len(l) + 1
      BY <1>0
    <2>2. C!EffectAt(l, i) <= C!EffectAt(l, m) /\ C!Waits(l, i) \subseteq C!Waits(l, m)
      BY <1>2, <2>1
    <2> HIDE DEF m, S
    <2>3. C!EffectAt(l, m) <= C!EffectAt(l, m + 1) /\ C!Waits(l, m) \subseteq C!Waits(l, m + 1)
      BY <2>1, EffectGrows
    <2>4. C!EffectAt(l, i) \in Nat /\ C!EffectAt(l, m) \in Nat /\ C!EffectAt(l, m + 1) \in Nat
      BY <2>1, EffectIs
    <2>5. C!EffectAt(l, i) <= C!EffectAt(l, m + 1)
      BY <2>2, <2>3, <2>4
    <2> QED BY <2>1, <2>2, <2>3, <2>5
  <1> HIDE DEF S
  <1>3. j - i \in S
    BY <1>0, <1>1, <1>2, SetInduction
  <1>4. i + (j - i) = j
    BY <1>0
  <1> QED BY <1>0, <1>3, <1>4 DEF S

-----------------------------------------------------------------------------
\* The MOVEs before an instruction.

\* A line's registers are of MOVEs that are in the list, each with its effect.
LEMMA MovesAre ==
  ASSUME NEW l, C!Sane(l), NEW i \in 1..Len(l) + 1, NEW r, NEW p
  PROVE  /\ C!Moves(l, r, i) \subseteq 1..i - 1 /\ C!Highs(l, p, i) \subseteq 1..i - 1 /\ C!Lows(l, p, i) \subseteq 1..i - 1
         /\ C!Moves(l, r, i) # {} => C!Max(C!Moves(l, r, i)) \in C!Moves(l, r, i)
         /\ C!Highs(l, p, i) # {} => C!Max(C!Highs(l, p, i)) \in C!Highs(l, p, i)
         /\ C!Lows(l, p, i) # {} => C!Max(C!Lows(l, p, i)) \in C!Lows(l, p, i) /\ \A j \in C!Lows(l, p, i) : j <= C!Max(C!Lows(l, p, i))
  <1>1. C!Moves(l, r, i) \subseteq 1..i - 1 /\ C!Highs(l, p, i) \subseteq 1..i - 1 /\ C!Lows(l, p, i) \subseteq 1..i - 1
    BY DEF C!Moves, C!Highs, C!Lows
  <1>2. i - 1 \in Nat
    BY SaneIs
  <1> QED BY <1>1, <1>2, Greatest

\* An instruction that runs and is no MOVE of the register leaves its MOVEs as they are.
LEMMA MovesNext ==
  ASSUME NEW l, C!Sane(l), NEW i \in 1..Len(l), NEW p
  PROVE  /\ C!Highs(l, p, i + 1) = C!Highs(l, p, i) \cup
              (IF l[i].op = "move" /\ l[i].reg = "high" /\ l[i].plane = p /\ C!Runs(l, i) THEN {i} ELSE {})
         /\ C!Lows(l, p, i + 1) = C!Lows(l, p, i) \cup
              (IF l[i].op = "move" /\ l[i].reg = "low" /\ l[i].plane = p /\ C!Runs(l, i)
                  /\ \E h \in C!Highs(l, p, i) : C!Waits(l, h) = C!Waits(l, i) THEN {i} ELSE {})
  <1>1. C!Moves(l, "high", i + 1) = C!Moves(l, "high", i) \cup (IF l[i].op = "move" /\ l[i].reg = "high" /\ C!Runs(l, i) THEN {i} ELSE {})
    BY BeforeNext
  <1>2. C!Moves(l, "low", i + 1) = C!Moves(l, "low", i) \cup (IF l[i].op = "move" /\ l[i].reg = "low" /\ C!Runs(l, i) THEN {i} ELSE {})
    BY BeforeNext
  <1> QED BY <1>1, <1>2 DEF C!Highs, C!Lows

\* A MOVE with its effect at a line or before stands before the WAIT for a later one.
LEMMA MovesBefore ==
  ASSUME NEW l, C!Sane(l), NEW i \in 1..Len(l) + 1, NEW k \in i..Len(l) + 1, NEW r, NEW p
  PROVE  /\ C!Moves(l, r, i) = {j \in C!Moves(l, r, k) : j < i}
         /\ C!Highs(l, p, i) = {j \in C!Highs(l, p, k) : j < i}
         /\ C!Lows(l, p, i) = {j \in C!Lows(l, p, k) : j < i}
  <1>1. Len(l) \in Nat /\ i \in Nat /\ k \in Nat /\ i <= k
    BY SaneIs
  <1>2. \A j : j \in 1..i - 1 <=> j \in 1..k - 1 /\ j < i
    BY <1>1
  <1>3. \A x : C!Moves(l, x, i) = {j \in C!Moves(l, x, k) : j < i}
    BY <1>2 DEF C!Moves
  <1>4. C!Highs(l, p, i) = {j \in C!Highs(l, p, k) : j < i}
    BY <1>3 DEF C!Highs
  <1>5. C!Lows(l, p, i) = {j \in C!Lows(l, p, k) : j < i}
    BY <1>3 DEF C!Lows
  <1> QED BY <1>3, <1>4, <1>5

\* A high half that ran has its low half after it.
LEMMA LowAfterHigh ==
  ASSUME NEW l, C!Sane(l), NEW i \in 1..Len(l) + 1, NEW p, NEW h \in C!Highs(l, p, i), h + 1 < i
  PROVE  h + 1 \in C!Lows(l, p, i) /\ C!Waits(l, h + 1) = C!Waits(l, h)
  <1>1. Len(l) \in Nat /\ i \in Nat /\ i <= Len(l) + 1
    BY SaneIs
  <1>2. h \in 1..i - 1 /\ l[h].op = "move" /\ l[h].reg = "high" /\ l[h].plane = p /\ C!Runs(l, h)
    BY DEF C!Highs, C!Moves
  <1>3. h \in 1..Len(l) /\ h + 1 \in 1..i - 1 /\ h + 1 \in 1..Len(l) /\ h \in 1..(h + 1) - 1
    BY <1>1, <1>2
  <1>4. l[h + 1].op = "move" /\ l[h + 1].reg = "low" /\ l[h + 1].plane = p
    BY <1>2, <1>3, SaneIs
  <1>5. C!Runs(l, h + 1)
    BY <1>2, <1>3, RunsIs
  <1>6. C!Waits(l, h + 1) = C!Waits(l, h)
    BY <1>2, <1>3, EffectNext
  <1>7. h \in C!Highs(l, p, h + 1)
    BY <1>2, <1>3 DEF C!Highs, C!Moves
  <1>8. h + 1 \in C!Moves(l, "low", i)
    BY <1>3, <1>4, <1>5 DEF C!Moves
  <1> QED BY <1>4, <1>6, <1>7, <1>8 DEF C!Lows

\* Between two WAITs all takes effect at one line.
LEMMA SameSegment ==
  ASSUME NEW l, NEW i, NEW j, C!Waits(l, i) = C!Waits(l, j)
  PROVE  C!EffectAt(l, i) = C!EffectAt(l, j)
  BY DEF C!EffectAt, C!Falls

\* A pointer completed since the last WAIT, when the next is at hand.
InHand(l, p, i) == \E j \in C!Lows(l, p, i) : C!Waits(l, j) = C!Waits(l, i)

\* The pointer in hand is of the last low half, and of the high half before it.
LEMMA LastLow ==
  ASSUME NEW l, C!Sane(l), NEW i \in 1..Len(l), l[i].op = "wait", NEW p, InHand(l, p, i), NEW m, m = C!Max(C!Lows(l, p, i))
  PROVE  /\ m \in C!Lows(l, p, i) /\ \A j \in C!Lows(l, p, i) : j <= m
         /\ C!Waits(l, m) = C!Waits(l, i) /\ C!EffectAt(l, m) = C!EffectAt(l, i)
         /\ C!Highs(l, p, m) = C!Highs(l, p, i) /\ C!Highs(l, p, i) # {}
  <1>1. Len(l) \in Nat /\ i \in 1..Len(l) + 1 /\ i \in Nat
    BY SaneIs
  <1>2. PICK j \in C!Lows(l, p, i) : C!Waits(l, j) = C!Waits(l, i)
    BY DEF InHand
  <1>3. m \in C!Lows(l, p, i) /\ \A k \in C!Lows(l, p, i) : k <= m
    BY <1>1, <1>2, MovesAre
  <1>4. C!Lows(l, p, i) \subseteq 1..i - 1
    BY <1>1, MovesAre
  <1>5. m \in Nat /\ j \in 1..Len(l) + 1 /\ m \in j..Len(l) + 1 /\ m \in 1..Len(l) + 1 /\ i \in m..Len(l) + 1 /\ m < i
    BY <1>1, <1>2, <1>3, <1>4
  <1>6. C!Waits(l, j) \subseteq C!Waits(l, m) /\ C!Waits(l, m) \subseteq C!Waits(l, i)
    BY <1>1, <1>5, EffectMonotone
  <1>7. C!Waits(l, m) = C!Waits(l, i)
    BY <1>2, <1>6
  <1>8. ASSUME NEW h \in C!Highs(l, p, i) PROVE h < m
    <2>1. h \in 1..i - 1
      BY <1>1, MovesAre
    <2>2. h + 1 # i
      <3>1. l[h].op = "move" /\ l[h].reg = "high"
        BY DEF C!Highs, C!Moves
      <3>2. h \in 1..Len(l)
        BY <1>1, <2>1
      <3>3. l[h + 1].op = "move"
        BY <3>1, <3>2, SaneIs
      <3> QED BY <3>3
    <2>3. h + 1 < i
      BY <1>1, <2>1, <2>2
    <2>4. h + 1 <= m
      BY <1>1, <1>3, <2>3, LowAfterHigh
    <2> QED BY <1>5, <2>1, <2>4
  <1>9. C!Highs(l, p, m) = C!Highs(l, p, i)
    <2>1. C!Highs(l, p, m) = {h \in C!Highs(l, p, i) : h < m}
      BY <1>1, <1>5, MovesBefore
    <2> QED BY <1>8, <2>1
  <1>10. C!Highs(l, p, m) # {}
    BY <1>3 DEF C!Lows
  <1> QED BY <1>3, <1>7, <1>9, <1>10, SameSegment

-----------------------------------------------------------------------------
\* The low halves that a WAIT before this instruction made count, at a line.
PastBy(l, p, y, i) == {j \in C!Lows(l, p, i) : C!EffectAt(l, j) = y /\ C!Waits(l, j) # C!Waits(l, i)}

\* A WAIT made adds the low halves of the segment it ends to those that count at its line.
LEMMA PastNext ==
  ASSUME NEW l, C!Sane(l), NEW i \in 1..Len(l), NEW p, NEW y
  PROVE  /\ l[i].op = "wait" /\ C!Runs(l, i) =>
              PastBy(l, p, y, i + 1) = PastBy(l, p, y, i) \cup (IF y = C!EffectAt(l, i) THEN {j \in C!Lows(l, p, i) : C!Waits(l, j) = C!Waits(l, i)} ELSE {})
         /\ ~(l[i].op = "wait" /\ C!Runs(l, i)) => PastBy(l, p, y, i + 1) = PastBy(l, p, y, i)
  <1>1. Len(l) \in Nat /\ i \in 1..Len(l) + 1 /\ i \in Nat
    BY SaneIs
  <1>2. CASE l[i].op = "wait" /\ C!Runs(l, i)
    <2>1. C!Lows(l, p, i + 1) = C!Lows(l, p, i) \cup {}
      BY <1>2, MovesNext
    <2>2. ASSUME NEW j \in C!Lows(l, p, i) PROVE C!Waits(l, j) # C!Waits(l, i + 1)
      <3>1. j \in 1..i - 1
        BY <1>1, MovesAre
      <3>2. C!Waits(l, j) \subseteq 1..j - 1
        BY DEF C!Waits
      <3>3. i \notin C!Waits(l, j) /\ i \in C!Waits(l, i + 1)
        BY <1>1, <1>2, <3>1, <3>2, EffectNext
      <3> QED BY <3>3
    <2>3. \A j \in C!Lows(l, p, i) : C!Waits(l, j) = C!Waits(l, i) => C!EffectAt(l, j) = C!EffectAt(l, i)
      BY SameSegment
    <2> QED BY <1>2, <2>1, <2>2, <2>3 DEF PastBy
  <1>3. CASE ~(l[i].op = "wait" /\ C!Runs(l, i))
    <2>1. C!Waits(l, i + 1) = C!Waits(l, i)
      BY <1>3, EffectNext
    <2>2. \A j \in C!Lows(l, p, i + 1) : j \in C!Lows(l, p, i) \/ j = i
      BY MovesNext
    <2>3. C!Lows(l, p, i) \subseteq C!Lows(l, p, i + 1)
      BY MovesNext
    <2> QED BY <1>3, <2>1, <2>2, <2>3 DEF PastBy
  <1> QED BY <1>2, <1>3

\* With the last WAIT made, what counts at a line is what the reference has of it.
LEMMA PastEnds ==
  ASSUME NEW l, C!Sane(l), NEW i \in 1..Len(l) + 1, NEW p, NEW y \in C!Lines, i = Len(l) + 1 \/ C!EffectAt(l, i) >= CopperH
  PROVE  C!SetFor(l, p, y) = PastBy(l, p, y, i)
  <1>1. Len(l) \in Nat /\ i \in Nat /\ Len(l) + 1 \in i..Len(l) + 1 /\ Len(l) + 1 \in 1..Len(l) + 1
    BY SaneIs
  <1>2. C!SetFor(l, p, y) = PastBy(l, p, y, Len(l) + 1)
    BY DEF C!SetFor, PastBy
  <1>3. CASE C!EffectAt(l, i) >= CopperH
    <2>1. y \in Nat /\ y < CopperH /\ CopperH \in Nat
      BY CopperGiven DEF C!Lines
    <2>2. C!Lows(l, p, i) = {j \in C!Lows(l, p, Len(l) + 1) : j < i}
      BY <1>1, MovesBefore
    <2>3. ASSUME NEW j \in C!Lows(l, p, Len(l) + 1), C!EffectAt(l, j) = y PROVE j < i /\ C!Waits(l, j) # C!Waits(l, i) /\ C!Waits(l, j) # C!Waits(l, Len(l) + 1)
      <3>1. j \in 1..Len(l)
        <4>1. j \in 1..(Len(l) + 1) - 1
          BY <1>1, MovesAre
        <4> QED BY <1>1, <4>1
      <3>2. C!EffectAt(l, i) \in Nat /\ C!EffectAt(l, i) > y
        BY <1>3, <2>1, EffectIs
      <3>3. j < i
        <4> SUFFICES ASSUME ~(j < i) PROVE FALSE
          OBVIOUS
        <4>1. j \in i..Len(l) + 1
          BY <1>1, <3>1
        <4>2. C!EffectAt(l, i) <= y
          BY <2>3, <4>1, EffectMonotone
        <4> QED BY <2>1, <3>2, <4>2
      <3>4. C!Waits(l, j) # C!Waits(l, i)
        BY <2>1, <2>3, <3>2, SameSegment
      <3>5. C!Waits(l, j) # C!Waits(l, Len(l) + 1)
        <4>1. C!EffectAt(l, i) <= C!EffectAt(l, Len(l) + 1)
          BY <1>1, EffectMonotone
        <4>2. C!EffectAt(l, Len(l) + 1) \in Nat
          BY <1>1, EffectIs
        <4>3. C!EffectAt(l, Len(l) + 1) # y
          BY <2>1, <3>2, <4>1, <4>2
        <4> QED BY <2>3, <4>3, SameSegment
      <3> QED BY <3>3, <3>4, <3>5
    <2> QED BY <1>2, <2>2, <2>3 DEF PastBy
  <1> QED BY <1>2, <1>3

\* The registers of a line are those of the MOVEs before the WAIT for a later one.
LatestOf(l, r, m) == IF m = {} THEN C!Reset[r] ELSE l[C!Max(m)].val

LEMMA RegistersBeforeWait ==
  ASSUME NEW l, C!Sane(l), NEW i \in 1..Len(l), NEW r, NEW y \in Nat, C!EffectAt(l, i) <= y, y < C!EffectAt(l, i + 1)
  PROVE  C!RegisterAt(l, r, y) = LatestOf(l, r, C!Moves(l, r, i))
  <1>1. Len(l) \in Nat /\ i \in 1..Len(l) + 1 /\ i \in Nat /\ i + 1 \in 1..Len(l) + 1 /\ Len(l) + 1 \in i..Len(l) + 1
    BY SaneIs
  <1>2. C!EffectAt(l, i) # C!EffectAt(l, i + 1)
    <2>1. C!EffectAt(l, i) \in Nat /\ C!EffectAt(l, i + 1) \in Nat
      BY <1>1, EffectIs
    <2> QED BY <2>1
  <1>3. l[i].op = "wait"
    BY <1>2, EffectNext
  <1>4. ASSUME NEW j \in C!Moves(l, r, Len(l) + 1) PROVE C!EffectAt(l, j) <= y <=> j < i
    <2>1. j \in 1..(Len(l) + 1) - 1 /\ l[j].op = "move"
      BY DEF C!Moves
    <2>2. j \in 1..Len(l) /\ j # i /\ j \in 1..Len(l) + 1
      BY <1>1, <1>3, <2>1
    <2>3. C!EffectAt(l, i) \in Nat /\ C!EffectAt(l, i + 1) \in Nat /\ C!EffectAt(l, j) \in Nat
      BY <1>1, <2>2, EffectIs
    <2>4. CASE j < i
      <3>1. i \in j..Len(l) + 1
        BY <1>1, <2>2, <2>4
      <3>2. C!EffectAt(l, j) <= C!EffectAt(l, i)
        BY <2>2, <3>1, EffectMonotone
      <3> QED BY <2>3, <2>4, <3>2
    <2>5. CASE ~(j < i)
      <3>1. j \in i + 1..Len(l) + 1
        BY <1>1, <2>2, <2>5
      <3>2. C!EffectAt(l, i + 1) <= C!EffectAt(l, j)
        BY <1>1, <3>1, EffectMonotone
      <3> QED BY <2>3, <2>5, <3>2
    <2> QED BY <2>4, <2>5
  <1>5. C!Moves(l, r, i) = {j \in C!Moves(l, r, Len(l) + 1) : j < i}
    BY <1>1, MovesBefore
  <1>6. C!Moves(l, r, i) = {j \in C!Moves(l, r, Len(l) + 1) : C!EffectAt(l, j) <= y}
    BY <1>4, <1>5
  <1> QED BY <1>6 DEF C!RegisterAt, LatestOf

\* And so are those of the lines left when the walk ends.
LEMMA RegistersAtEnd ==
  ASSUME NEW l, C!Sane(l), NEW r, NEW y \in Nat, C!EffectAt(l, Len(l) + 1) <= y
  PROVE  C!RegisterAt(l, r, y) = LatestOf(l, r, C!Moves(l, r, Len(l) + 1))
  <1>1. Len(l) \in Nat /\ Len(l) + 1 \in 1..Len(l) + 1 /\ C!EffectAt(l, Len(l) + 1) \in Nat
    BY SaneIs, EffectIs
  <1>2. ASSUME NEW j \in C!Moves(l, r, Len(l) + 1) PROVE C!EffectAt(l, j) <= y
    <2>1. j \in 1..(Len(l) + 1) - 1
      BY DEF C!Moves
    <2>2. j \in 1..Len(l) + 1 /\ Len(l) + 1 \in j..Len(l) + 1
      BY <1>1, <2>1
    <2>3. C!EffectAt(l, j) <= C!EffectAt(l, Len(l) + 1) /\ C!EffectAt(l, j) \in Nat
      BY <2>2, EffectMonotone, EffectIs
    <2> QED BY <1>1, <2>3
  <1>3. C!Moves(l, r, Len(l) + 1) = {j \in C!Moves(l, r, Len(l) + 1) : C!EffectAt(l, j) <= y}
    BY <1>2
  <1> QED BY <1>3 DEF C!RegisterAt, LatestOf

-----------------------------------------------------------------------------
\* A step of the walk, field by field.

Vals(l)  == {l[i].val : i \in DOMAIN l} \cup {C!Reset[r] : r \in C!Registers} \cup {0}
Pairs(l) == Vals(l) \X Vals(l)
Anchors(l) == [from : Nat, of : SUBSET C!Planes, at : [C!Planes -> {C!Pointer(h) : h \in Pairs(l)}]]
PlaneSets   == SUBSET C!Planes
Curs(l)     == [C!Registers -> Vals(l)]
Ptrs(l)     == [C!Planes -> Pairs(l)]
AnchorSeqs(l) == Seq(Anchors(l))
Scans(l)    == [C!Lines -> Curs(l)]
WalkStates(l) ==
  [ip : Nat, line : Nat, prev : Int, base : Int, cur : Curs(l), over : BOOLEAN, high : PlaneSets, ready : PlaneSets,
   ptr : Ptrs(l), anchors : AnchorSeqs(l), scan : Scans(l)]

\* The walk starts in a state of its own kind.
LEMMA StartIs == ASSUME NEW l PROVE C!Start \in WalkStates(l)
  <1>1. C!Reset \in [C!Registers -> Vals(l)]
    <2>1. \A r \in C!Registers : C!Reset[r] \in Vals(l)
      BY DEF Vals
    <2>2. C!Reset = [r \in C!Registers |-> C!Reset[r]]
      BY DEF C!Reset, C!Registers
    <2> QED BY <2>1, <2>2
  <1>2. [p \in C!Planes |-> <<0, 0>>] \in [C!Planes -> Pairs(l)]
    BY DEF Pairs, Vals
  <1>3. [y \in C!Lines |-> C!Reset] \in [C!Lines -> [C!Registers -> Vals(l)]]
    BY <1>1
  <1> QED BY <1>1, <1>2, <1>3 DEF C!Start, WalkStates, PlaneSets, Curs, Ptrs, AnchorSeqs, Scans

\* A MOVE of a register sets it, and one to a plane's high half waits for the low.
LEMMA MoveSets ==
  ASSUME NEW l, C!Sane(l), NEW s \in WalkStates(l), NEW i \in DOMAIN l, l[i].op = "move", l[i].reg \in C!Registers,
         NEW t, t = C!Stepped(s, l[i])
  PROVE  /\ t \in WalkStates(l) /\ t.ip = s.ip + 1 /\ t.cur = [s.cur EXCEPT ![l[i].reg] = l[i].val]
         /\ t.line = s.line /\ t.prev = s.prev /\ t.base = s.base /\ t.over = s.over /\ t.high = s.high
         /\ t.ready = s.ready /\ t.ptr = s.ptr /\ t.anchors = s.anchors /\ t.scan = s.scan
  <1>1. l[i].reg # "high" /\ l[i].reg # "low"
    BY DEF C!Registers
  <1>2. C!Moved(s, l[i]) = [s EXCEPT !.cur[l[i].reg] = l[i].val]
    BY <1>1 DEF C!Moved
  <1>3. t = [[s EXCEPT !.cur[l[i].reg] = l[i].val] EXCEPT !.ip = [s EXCEPT !.cur[l[i].reg] = l[i].val].ip + 1]
    BY <1>2 DEF C!Stepped
  <1>4. l[i].val \in Vals(l)
    BY DEF Vals
  <1>5. s.cur \in Curs(l)
    BY DEF WalkStates
  <1> DEFINE cur2 == [s.cur EXCEPT ![l[i].reg] = l[i].val]
  <1>6. cur2 \in Curs(l)
    BY <1>4, <1>5 DEF Curs
  <1>7. t = [[s EXCEPT !.cur = cur2] EXCEPT !.ip = [s EXCEPT !.cur = cur2].ip + 1]
    BY <1>3
  <1> HIDE DEF cur2
  <1>8. t \in WalkStates(l) /\ t.ip = s.ip + 1 /\ t.cur = cur2
    <2> DEFINE u == [s EXCEPT !.cur = cur2]
    <2>1. u \in WalkStates(l) /\ u.ip = s.ip /\ u.cur = cur2
      BY <1>6 DEF WalkStates
    <2>2. t = [u EXCEPT !.ip = u.ip + 1]
      BY <1>7
    <2> HIDE DEF u
    <2>3. t \in WalkStates(l) /\ t.ip = u.ip + 1 /\ t.cur = u.cur
      BY <2>1, <2>2 DEF WalkStates
    <2> QED BY <2>1, <2>3
  <1>9. /\ t.line = s.line /\ t.prev = s.prev /\ t.base = s.base /\ t.over = s.over /\ t.high = s.high
        /\ t.ready = s.ready /\ t.ptr = s.ptr /\ t.anchors = s.anchors /\ t.scan = s.scan
    BY <1>7 DEF WalkStates
  <1> QED BY <1>8, <1>9 DEF cur2

HighGives(l, s, c, t) ==
  /\ t \in WalkStates(l) /\ t.ip = s.ip + 1 /\ t.ptr = [s.ptr EXCEPT ![c.plane] = <<c.val, s.ptr[c.plane][2]>>]
  /\ t.high = s.high \cup {c.plane}
  /\ t.line = s.line /\ t.prev = s.prev /\ t.base = s.base /\ t.over = s.over /\ t.cur = s.cur
  /\ t.ready = s.ready /\ t.anchors = s.anchors /\ t.scan = s.scan

LEMMA MoveHigh ==
  ASSUME NEW l, C!Sane(l), NEW s \in WalkStates(l), NEW i \in DOMAIN l, l[i].op = "move", l[i].reg = "high", l[i].plane \in C!Planes,
         NEW t, t = C!Stepped(s, l[i])
  PROVE  HighGives(l, s, l[i], t)
  <1> DEFINE ptr2 == [s.ptr EXCEPT ![l[i].plane] = <<l[i].val, s.ptr[l[i].plane][2]>>]
  <1>1. s.ptr \in [C!Planes -> Pairs(l)] /\ l[i].val \in Vals(l) /\ s.high \in PlaneSets /\ s.ready \in PlaneSets
    BY DEF WalkStates, Vals, Ptrs
  <1> DEFINE more == s.high \cup {l[i].plane}
             u == [s EXCEPT !.ptr = ptr2, !.high = more]
  <1>0. more \in PlaneSets
    BY <1>1 DEF PlaneSets
  <1>2. ptr2 \in [C!Planes -> Pairs(l)]
    BY <1>1 DEF Pairs
  <1>3. C!Moved(s, l[i]) = u
    BY <1>1 DEF C!Moved
  <1>4. t = [u EXCEPT !.ip = u.ip + 1]
    BY <1>3 DEF C!Stepped
  <1>10. ptr2 \in Ptrs(l)
    BY <1>2 DEF Ptrs
  <1> HIDE DEF ptr2, more
  <1>5. t.ptr = ptr2 /\ t \in WalkStates(l) /\ t.ip = s.ip + 1 /\ t.high = more
    <2>1. u \in WalkStates(l) /\ u.ip = s.ip /\ u.ptr = ptr2 /\ u.high = more
      BY <1>0, <1>10 DEF WalkStates
    <2> HIDE DEF u
    <2>2. t \in WalkStates(l) /\ t.ip = u.ip + 1 /\ t.ptr = u.ptr /\ t.high = u.high
      BY <1>4, <2>1 DEF WalkStates
    <2> QED BY <2>1, <2>2
  <1>6. /\ t.line = s.line /\ t.prev = s.prev /\ t.base = s.base /\ t.over = s.over /\ t.cur = s.cur
        /\ t.ready = s.ready /\ t.anchors = s.anchors /\ t.scan = s.scan
    BY <1>4 DEF WalkStates
  <1> QED BY <1>5, <1>6 DEF ptr2, more, HighGives

LowGives(l, s, c, t) ==
  /\ t \in WalkStates(l) /\ t.ip = s.ip + 1
  /\ c.plane \in s.high => /\ t.ptr = [s.ptr EXCEPT ![c.plane] = <<s.ptr[c.plane][1], c.val>>]
                           /\ t.ready = s.ready \cup {c.plane}
  /\ c.plane \notin s.high => t.ptr = s.ptr /\ t.ready = s.ready
  /\ t.line = s.line /\ t.prev = s.prev /\ t.base = s.base /\ t.over = s.over /\ t.cur = s.cur
  /\ t.high = s.high /\ t.anchors = s.anchors /\ t.scan = s.scan

LEMMA MoveLow ==
  ASSUME NEW l, C!Sane(l), NEW s \in WalkStates(l), NEW i \in DOMAIN l, l[i].op = "move", l[i].reg = "low", l[i].plane \in C!Planes,
         NEW t, t = C!Stepped(s, l[i])
  PROVE  LowGives(l, s, l[i], t)
  <1> DEFINE ptr2 == [s.ptr EXCEPT ![l[i].plane] = <<s.ptr[l[i].plane][1], l[i].val>>]
  <1>1. s.ptr \in [C!Planes -> Pairs(l)] /\ l[i].val \in Vals(l) /\ s.high \in PlaneSets /\ s.ready \in PlaneSets
    BY DEF WalkStates, Vals, Ptrs
  <1> DEFINE more == s.ready \cup {l[i].plane}
             u == [s EXCEPT !.ptr = ptr2, !.ready = more]
  <1>0. more \in PlaneSets
    BY <1>1 DEF PlaneSets
  <1>2. ptr2 \in [C!Planes -> Pairs(l)]
    BY <1>1 DEF Pairs
  <1>3. CASE l[i].plane \in s.high
    <2>1. C!Moved(s, l[i]) = u
      BY <1>1, <1>3 DEF C!Moved
    <2>2. t = [u EXCEPT !.ip = u.ip + 1]
      BY <2>1 DEF C!Stepped
    <2>5. ptr2 \in Ptrs(l)
      BY <1>2 DEF Ptrs
    <2> HIDE DEF ptr2, more
    <2>3. t.ptr = ptr2 /\ t \in WalkStates(l) /\ t.ip = s.ip + 1 /\ t.ready = more
      <3>1. u \in WalkStates(l) /\ u.ip = s.ip /\ u.ptr = ptr2 /\ u.ready = more
        BY <1>0, <2>5 DEF WalkStates
      <3> HIDE DEF u
      <3>2. t \in WalkStates(l) /\ t.ip = u.ip + 1 /\ t.ptr = u.ptr /\ t.ready = u.ready
        BY <2>2, <3>1 DEF WalkStates
      <3> QED BY <3>1, <3>2
    <2>4. /\ t.line = s.line /\ t.prev = s.prev /\ t.base = s.base /\ t.over = s.over /\ t.cur = s.cur
          /\ t.high = s.high /\ t.anchors = s.anchors /\ t.scan = s.scan
      BY <2>2 DEF WalkStates
    <2> QED BY <1>3, <2>3, <2>4 DEF ptr2, more, LowGives
  <1>4. CASE l[i].plane \notin s.high
    <2>1. C!Moved(s, l[i]) = s
      BY <1>4 DEF C!Moved
    <2>2. t = [s EXCEPT !.ip = s.ip + 1]
      BY <2>1 DEF C!Stepped
    <2>3. t \in WalkStates(l)
      BY <2>2 DEF WalkStates
    <2>4. /\ t.ip = s.ip + 1 /\ t.ptr = s.ptr /\ t.ready = s.ready
          /\ t.line = s.line /\ t.prev = s.prev /\ t.base = s.base /\ t.over = s.over /\ t.cur = s.cur
          /\ t.high = s.high /\ t.anchors = s.anchors /\ t.scan = s.scan
      BY <2>2 DEF WalkStates
    <2> QED BY <1>4, <2>3, <2>4 DEF LowGives
  <1> QED BY <1>3, <1>4

\* A SKIP goes two on, for the instruction after it does not run.
LEMMA SkipIs ==
  ASSUME NEW l, NEW s \in WalkStates(l), NEW i, l[i].op = "skip", NEW t, t = C!Stepped(s, l[i])
  PROVE  /\ t \in WalkStates(l) /\ t.ip = s.ip + 2 /\ t.cur = s.cur
         /\ t.line = s.line /\ t.prev = s.prev /\ t.base = s.base /\ t.over = s.over /\ t.high = s.high
         /\ t.ready = s.ready /\ t.ptr = s.ptr /\ t.anchors = s.anchors /\ t.scan = s.scan
  <1>1. t = [s EXCEPT !.ip = s.ip + 2]
    BY DEF C!Stepped
  <1> QED BY <1>1 DEF WalkStates

With(s, b, v, lines, f, ends, a, h, g) ==
  [s EXCEPT !.base = b, !.prev = v, !.scan = lines, !.line = f, !.over = ends, !.anchors = a, !.high = h, !.ready = g]

\* A state with its fields replaced, each of its kind, is a state.
LEMMA StateWith ==
  ASSUME NEW l, NEW s \in WalkStates(l), NEW b \in Int, NEW v \in Int, NEW lines \in Scans(l), NEW f \in Nat, NEW ends \in BOOLEAN,
         NEW a \in AnchorSeqs(l), NEW h \in PlaneSets, NEW g \in PlaneSets
  PROVE  With(s, b, v, lines, f, ends, a, h, g) \in WalkStates(l)
  BY DEF WalkStates, With

\* A WAIT that counts from b takes effect at e, or at f where the picture ends; an anchor before it is a.
ReachedBy(l, s, i, b, e, f, a) ==
  /\ b = s.base + (IF l[i].vp < s.prev THEN Wrap ELSE 0)
  /\ e = IF l[i].vp + b - First >= 0 THEN l[i].vp + b - First ELSE 0
  /\ f = IF e <= CopperH THEN e ELSE CopperH
  /\ a = [from |-> s.line, of |-> s.ready, at |-> [p \in C!Planes |-> C!Pointer(s.ptr[p])]]

WaitGives(l, s, i, t, b, f, a) ==
  /\ t \in WalkStates(l) /\ t.ip = s.ip + 1 /\ t.base = b /\ t.prev = l[i].vp /\ t.line = f /\ (t.over <=> f = CopperH)
  /\ t.scan = [y \in C!Lines |-> IF s.line <= y /\ y < f THEN s.cur ELSE s.scan[y]]
  /\ s.ready # {} => t.anchors = Append(s.anchors, a) /\ t.high = {} /\ t.ready = {}
  /\ s.ready = {} => t.anchors = s.anchors /\ t.high = s.high /\ t.ready = s.ready
  /\ t.cur = s.cur /\ t.ptr = s.ptr

LEMMA WaitIs ==
  ASSUME NEW l, NEW s \in WalkStates(l), NEW i, l[i].op = "wait", l[i].vp \in Int, s.ready # {} => Len(s.anchors) < MaxAnchors,
         NEW b, NEW e, NEW f, NEW a, ReachedBy(l, s, i, b, e, f, a), NEW t, t = C!Stepped(s, l[i])
  PROVE  WaitGives(l, s, i, t, b, f, a)
  <1>0. /\ b = s.base + (IF l[i].vp < s.prev THEN Wrap ELSE 0)
        /\ e = (IF l[i].vp + b - First >= 0 THEN l[i].vp + b - First ELSE 0)
        /\ f = (IF e <= CopperH THEN e ELSE CopperH)
        /\ a = [from |-> s.line, of |-> s.ready, at |-> [p \in C!Planes |-> C!Pointer(s.ptr[p])]]
    BY DEF ReachedBy
  <1>1. CopperH \in Nat /\ First \in Nat /\ Wrap \in Nat
    BY CopperGiven
  <1>2. s.base \in Int /\ s.prev \in Int /\ b \in Int
    <2>1. s.base \in Int /\ s.prev \in Int
      BY DEF WalkStates
    <2> QED BY <1>0, <1>1, <2>1
  <1>3. e \in Nat /\ f \in Nat
    BY <1>0, <1>1, <1>2
  <1>4. C!Wrapped(s, l[i].vp) = b
    BY <1>0 DEF C!Wrapped
  <1>5. C!Max({l[i].vp + b - First, 0}) = e
    <2>1. l[i].vp + b - First \in Int
      BY <1>1, <1>2
    <2> QED BY <1>0, <2>1, PairMax
  <1>6. C!Min({e, CopperH}) = f
    BY <1>0, <1>1, <1>3, PairMin
  <1> DEFINE kept == s.ready # {} /\ Len(s.anchors) < MaxAnchors
             anchors2 == IF kept THEN Append(s.anchors, a) ELSE s.anchors
             scan2 == C!Stamped(s, f)
             u == [s EXCEPT !.base = b, !.prev = l[i].vp, !.scan = scan2, !.line = f, !.over = (f = CopperH),
                            !.anchors = anchors2, !.high = IF kept THEN {} ELSE s.high, !.ready = IF kept THEN {} ELSE s.ready]
  <1>7. C!Waited(s, l[i].vp) = u
    BY <1>0, <1>4, <1>5, <1>6 DEF C!Waited
  <1>8. t = [u EXCEPT !.ip = u.ip + 1]
    BY <1>7 DEF C!Stepped
  <1>9. scan2 \in Scans(l)
    <2>1. s.scan \in Scans(l) /\ s.cur \in Curs(l)
      BY DEF WalkStates
    <2> QED BY <2>1 DEF C!Stamped, Scans
  <1>10. anchors2 \in Seq(Anchors(l))
    <2>1. s.ptr \in [C!Planes -> Pairs(l)] /\ s.line \in Nat /\ s.ready \in SUBSET C!Planes /\ s.anchors \in Seq(Anchors(l))
      BY DEF WalkStates, Ptrs, PlaneSets, AnchorSeqs
    <2>2. a \in Anchors(l)
      BY <1>0, <2>1 DEF Anchors
    <2> QED BY <2>1, <2>2
  <1>11. kept <=> s.ready # {}
    OBVIOUS
  <1>12. scan2 = [y \in C!Lines |-> IF s.line <= y /\ y < f THEN s.cur ELSE s.scan[y]]
    BY DEF C!Stamped
  <1>13. anchors2 = IF kept THEN Append(s.anchors, a) ELSE s.anchors
    OBVIOUS
  <1> HIDE DEF kept, anchors2, scan2
  <1>14. /\ t.ip = s.ip + 1 /\ t.base = b /\ t.prev = l[i].vp /\ t.line = f /\ t.over = (f = CopperH) /\ t.scan = scan2 /\ t.anchors = anchors2
         /\ t.high = (IF kept THEN {} ELSE s.high) /\ t.ready = (IF kept THEN {} ELSE s.ready) /\ t.cur = s.cur /\ t.ptr = s.ptr
    BY <1>8 DEF WalkStates
  <1>15. t \in WalkStates(l)
    <2> DEFINE high2 == IF kept THEN {} ELSE s.high
               ready2 == IF kept THEN {} ELSE s.ready
               over2 == f = CopperH
    <2>1. high2 \in PlaneSets /\ ready2 \in PlaneSets
      BY DEF WalkStates, PlaneSets
    <2>2. anchors2 \in AnchorSeqs(l) /\ over2 \in BOOLEAN /\ l[i].vp \in Int
      BY <1>10 DEF AnchorSeqs
    <2>3. u = [s EXCEPT !.base = b, !.prev = l[i].vp, !.scan = scan2, !.line = f, !.over = over2,
                        !.anchors = anchors2, !.high = high2, !.ready = ready2]
      OBVIOUS
    <2> HIDE DEF high2, ready2, over2, u
    <2>4. u \in WalkStates(l)
      <3>1. /\ b \in Int /\ f \in Nat /\ scan2 \in Scans(l) /\ anchors2 \in AnchorSeqs(l) /\ over2 \in BOOLEAN /\ l[i].vp \in Int
            /\ high2 \in PlaneSets /\ ready2 \in PlaneSets
        BY <1>2, <1>3, <1>9, <2>1, <2>2
      <3>2. With(s, b, l[i].vp, scan2, f, over2, anchors2, high2, ready2) \in WalkStates(l)
        BY <3>1, StateWith
      <3> QED BY <2>3, <3>2 DEF With
    <2> QED BY <1>8, <2>4 DEF WalkStates
  <1> QED BY <1>11, <1>12, <1>13, <1>14, <1>15 DEF WaitGives

-----------------------------------------------------------------------------
\* What the walk holds at an instruction, in terms of the list before it.

TimesAt(l, s, i) == /\ s.prev = LastVp(l, i) /\ s.base = Base(l, i)
                    /\ s.line = IF C!EffectAt(l, i) <= CopperH THEN C!EffectAt(l, i) ELSE CopperH
                    /\ s.over <=> s.line = CopperH
CursAt(l, s, i)  == \A r \in C!Registers : s.cur[r] = LatestOf(l, r, C!Moves(l, r, i))
ScansDone(l, s)  == \A y \in C!Lines : y < s.line => s.scan[y] = C!LineAt(l, y)

HighInHand(l, p, i) == \E h \in C!Highs(l, p, i) : C!Waits(l, h) = C!Waits(l, i)
HandsAt(l, s, i) == \A p \in C!Planes : (p \in s.high <=> HighInHand(l, p, i)) /\ (p \in s.ready <=> InHand(l, p, i))
HalvesAt(l, s, i) == \A p \in C!Planes :
                       /\ C!Highs(l, p, i) # {} => s.ptr[p][1] = l[C!Max(C!Highs(l, p, i))].val
                       /\ C!Lows(l, p, i) # {} => s.ptr[p][2] = l[C!Max(C!Lows(l, p, i))].val

\* The last anchor of a line that sets a plane is of the last low half that counts there.
OnLine(a, p, y) == {n \in 1..Len(a) : a[n].from = y /\ p \in a[n].of}
Answers(l, a, p, y, T) == /\ OnLine(a, p, y) = {} <=> T = {}
                          /\ T # {} => a[C!Max(OnLine(a, p, y))].at[p] = C!Value(l, p, C!Max(T))
AnchorsAt(l, s, i) == /\ Len(s.anchors) <= Cardinality(C!Waits(l, i))
                      /\ \A p \in C!Planes, y \in C!Lines : Answers(l, s.anchors, p, y, PastBy(l, p, y, i))

HoldsAt(l, s, i) == TimesAt(l, s, i) /\ CursAt(l, s, i) /\ ScansDone(l, s) /\ HandsAt(l, s, i) /\ HalvesAt(l, s, i) /\ AnchorsAt(l, s, i)
Reading(l, s) == IF s.ip > Len(l) THEN Len(l) + 1 ELSE s.ip
WalkInv(l, s) == /\ s \in WalkStates(l) /\ s.ip \in 1..Len(l) + 2 /\ (s.ip <= Len(l) => C!Runs(l, s.ip))
                 /\ HoldsAt(l, s, Reading(l, s))

\* At the first instruction the list before it is empty.
LEMMA WalkStarts == ASSUME NEW l, C!Sane(l) PROVE WalkInv(l, C!Start)
  <1>1. Len(l) \in Nat /\ 1 \in 1..Len(l) + 1
    BY SaneIs
  <1> DEFINE s == C!Start
  <1>2. s.ip = 1 /\ s.line = 0 /\ s.prev = -1 /\ s.base = 0 /\ s.cur = C!Reset /\ s.over = FALSE /\ s.high = {} /\ s.ready = {} /\ s.anchors = <<>>
    BY DEF C!Start
  <1>3. s \in WalkStates(l)
    BY StartIs
  <1> HIDE DEF s
  <1>4. Reading(l, s) = 1 /\ s.ip \in 1..Len(l) + 2
    BY <1>1, <1>2 DEF Reading
  <1>5. C!Waits(l, 1) = {} /\ (\A r : C!Moves(l, r, 1) = {}) /\ \A p : C!Highs(l, p, 1) = {} /\ C!Lows(l, p, 1) = {}
    BY DEF C!Waits, C!Moves, C!Highs, C!Lows
  <1>6. TimesAt(l, s, 1)
    <2>1. LastVp(l, 1) = -1 /\ C!EffectAt(l, 1) = 0 /\ Base(l, 1) = 0
      BY <1>1, <1>5, EffectIs
    <2> QED BY <1>2, <2>1, CopperGiven DEF TimesAt
  <1>7. CursAt(l, s, 1) /\ HandsAt(l, s, 1) /\ HalvesAt(l, s, 1)
    BY <1>2, <1>5 DEF CursAt, HandsAt, HalvesAt, LatestOf, HighInHand, InHand
  <1>8. ScansDone(l, s)
    BY <1>2, CopperGiven DEF ScansDone, C!Lines
  <1>9. AnchorsAt(l, s, 1)
    <2>1. Len(s.anchors) = 0 /\ Cardinality(C!Waits(l, 1)) = 0
      BY <1>2, <1>5, FS_EmptySet
    <2>2. \A p, y : OnLine(s.anchors, p, y) = {} /\ PastBy(l, p, y, 1) = {}
      BY <1>5, <2>1 DEF OnLine, PastBy
    <2> QED BY <2>1, <2>2 DEF AnchorsAt, Answers
  <1>10. C!Runs(l, 1)
    BY RunsIs
  <1>11. HoldsAt(l, s, 1)
    BY <1>6, <1>7, <1>8, <1>9 DEF HoldsAt
  <1> QED BY <1>2, <1>3, <1>4, <1>10, <1>11 DEF WalkInv, s

\* A MOVE is added to its own set alone.
Moves1(l, i, r) == l[i].op = "move" /\ l[i].reg = r /\ C!Runs(l, i)

LEMMA MovesGrow ==
  ASSUME NEW l, C!Sane(l), NEW i \in 1..Len(l), NEW r
  PROVE  /\ Moves1(l, i, r) => C!Moves(l, r, i + 1) = C!Moves(l, r, i) \cup {i}
         /\ ~Moves1(l, i, r) => C!Moves(l, r, i + 1) = C!Moves(l, r, i)
  <1>1. C!Moves(l, r, i + 1) = C!Moves(l, r, i) \cup (IF Moves1(l, i, r) THEN {i} ELSE {})
    BY BeforeNext DEF Moves1
  <1>2. CASE Moves1(l, i, r)
    BY <1>1, <1>2
  <1>3. CASE ~Moves1(l, i, r)
    <2>1. C!Moves(l, r, i + 1) = C!Moves(l, r, i) \cup {}
      BY <1>1, <1>3
    <2> QED BY <1>3, <2>1
  <1> QED BY <1>2, <1>3

\* A half pointer is added to its own plane's alone.
LEMMA HalvesGrow ==
  ASSUME NEW l, C!Sane(l), NEW i \in 1..Len(l), NEW p
  PROVE  /\ Moves1(l, i, "high") /\ l[i].plane = p => C!Highs(l, p, i + 1) = C!Highs(l, p, i) \cup {i}
         /\ ~(Moves1(l, i, "high") /\ l[i].plane = p) => C!Highs(l, p, i + 1) = C!Highs(l, p, i)
         /\ Moves1(l, i, "low") /\ l[i].plane = p /\ HighInHand(l, p, i) => C!Lows(l, p, i + 1) = C!Lows(l, p, i) \cup {i}
         /\ ~(Moves1(l, i, "low") /\ l[i].plane = p /\ HighInHand(l, p, i)) => C!Lows(l, p, i + 1) = C!Lows(l, p, i)
  <1> DEFINE U == IF Moves1(l, i, "high") /\ l[i].plane = p THEN {i} ELSE {}
             V == IF Moves1(l, i, "low") /\ l[i].plane = p /\ HighInHand(l, p, i) THEN {i} ELSE {}
  <1>1. C!Highs(l, p, i + 1) = C!Highs(l, p, i) \cup U /\ C!Lows(l, p, i + 1) = C!Lows(l, p, i) \cup V
    BY MovesNext DEF Moves1, HighInHand
  <1>2. /\ Moves1(l, i, "high") /\ l[i].plane = p => U = {i}
        /\ ~(Moves1(l, i, "high") /\ l[i].plane = p) => U = {}
        /\ Moves1(l, i, "low") /\ l[i].plane = p /\ HighInHand(l, p, i) => V = {i}
        /\ ~(Moves1(l, i, "low") /\ l[i].plane = p /\ HighInHand(l, p, i)) => V = {}
    OBVIOUS
  <1> HIDE DEF U, V
  <1>3. \A S : S \cup {} = S
    OBVIOUS
  <1> QED BY <1>1, <1>2, <1>3

\* An instruction that is no WAIT, or does not run, moves nothing on.
LEMMA NoWaitHolds ==
  ASSUME NEW l, C!Sane(l), NEW i \in 1..Len(l), NEW s, NEW t, ~(l[i].op = "wait" /\ C!Runs(l, i)),
         t.prev = s.prev, t.base = s.base, t.line = s.line, t.over = s.over, t.scan = s.scan, t.anchors = s.anchors, HoldsAt(l, s, i)
  PROVE  TimesAt(l, t, i + 1) /\ ScansDone(l, t) /\ AnchorsAt(l, t, i + 1) /\ C!Waits(l, i + 1) = C!Waits(l, i)
  <1>1. LastVp(l, i + 1) = LastVp(l, i) /\ Base(l, i + 1) = Base(l, i) /\ C!Waits(l, i + 1) = C!Waits(l, i) /\ C!EffectAt(l, i + 1) = C!EffectAt(l, i)
    BY EffectNext
  <1>2. \A p, y : PastBy(l, p, y, i + 1) = PastBy(l, p, y, i)
    BY PastNext
  <1>3. TimesAt(l, s, i) /\ ScansDone(l, s) /\ AnchorsAt(l, s, i)
    BY DEF HoldsAt
  <1>4. TimesAt(l, t, i + 1)
    BY <1>1, <1>3 DEF TimesAt
  <1>5. ScansDone(l, t)
    BY <1>3 DEF ScansDone
  <1>6. AnchorsAt(l, t, i + 1)
    BY <1>1, <1>2, <1>3 DEF AnchorsAt
  <1> QED BY <1>1, <1>4, <1>5, <1>6

\* An instruction of neither kind moves the walk on and no more.
LEMMA IdleHolds ==
  ASSUME NEW l, C!Sane(l), NEW i \in 1..Len(l), NEW s, NEW t, l[i].op = "skip" \/ ~C!Runs(l, i),
         t.prev = s.prev, t.base = s.base, t.line = s.line, t.over = s.over, t.scan = s.scan, t.anchors = s.anchors,
         t.cur = s.cur, t.high = s.high, t.ready = s.ready, t.ptr = s.ptr, HoldsAt(l, s, i)
  PROVE  HoldsAt(l, t, i + 1)
  <1>1. TimesAt(l, t, i + 1) /\ ScansDone(l, t) /\ AnchorsAt(l, t, i + 1) /\ C!Waits(l, i + 1) = C!Waits(l, i)
    <2>1. ~(l[i].op = "wait" /\ C!Runs(l, i))
      OBVIOUS
    <2> QED BY <2>1, NoWaitHolds
  <1>0. \A r : ~Moves1(l, i, r)
    BY DEF Moves1
  <1>2. \A r : C!Moves(l, r, i + 1) = C!Moves(l, r, i)
    BY <1>0, MovesGrow
  <1>3. \A p : C!Highs(l, p, i + 1) = C!Highs(l, p, i) /\ C!Lows(l, p, i + 1) = C!Lows(l, p, i)
    BY <1>0, HalvesGrow
  <1>4. CursAt(l, s, i) /\ HandsAt(l, s, i) /\ HalvesAt(l, s, i)
    BY DEF HoldsAt
  <1>5. CursAt(l, t, i + 1) /\ HalvesAt(l, t, i + 1)
    BY <1>2, <1>3, <1>4 DEF CursAt, HalvesAt
  <1>6. HandsAt(l, t, i + 1)
    BY <1>1, <1>3, <1>4 DEF HandsAt, InHand, HighInHand
  <1> QED BY <1>1, <1>5, <1>6 DEF HoldsAt

\* A MOVE to a register is the last of its set.
LEMMA SetsHolds ==
  ASSUME NEW l, C!Sane(l), NEW i \in 1..Len(l), NEW s \in WalkStates(l), l[i].op = "move", l[i].reg \in C!Registers, C!Runs(l, i),
         HoldsAt(l, s, i)
  PROVE  C!Stepped(s, l[i]) \in WalkStates(l) /\ C!Stepped(s, l[i]).ip = s.ip + 1 /\ HoldsAt(l, C!Stepped(s, l[i]), i + 1)
  <1> DEFINE t == C!Stepped(s, l[i])
  <1>1. i \in DOMAIN l /\ i \in 1..Len(l) + 1 /\ Len(l) \in Nat
    BY SaneIs
  <1>2. /\ t \in WalkStates(l) /\ t.ip = s.ip + 1
        /\ t.cur = [s.cur EXCEPT ![l[i].reg] = l[i].val]
        /\ t.line = s.line /\ t.prev = s.prev /\ t.base = s.base /\ t.over = s.over /\ t.high = s.high
        /\ t.ready = s.ready /\ t.ptr = s.ptr /\ t.anchors = s.anchors /\ t.scan = s.scan
    BY <1>1, MoveSets
  <1> HIDE DEF t
  <1>3. TimesAt(l, t, i + 1) /\ ScansDone(l, t) /\ AnchorsAt(l, t, i + 1) /\ C!Waits(l, i + 1) = C!Waits(l, i)
    BY <1>2, NoWaitHolds
  <1>4. CursAt(l, s, i) /\ HandsAt(l, s, i) /\ HalvesAt(l, s, i)
    BY DEF HoldsAt
  <1>5. \A p : C!Highs(l, p, i + 1) = C!Highs(l, p, i) /\ C!Lows(l, p, i + 1) = C!Lows(l, p, i)
    <2>1. ~Moves1(l, i, "high") /\ ~Moves1(l, i, "low")
      BY DEF Moves1, C!Registers
    <2> QED BY <2>1, HalvesGrow
  <1>6. HalvesAt(l, t, i + 1) /\ HandsAt(l, t, i + 1)
    BY <1>2, <1>3, <1>4, <1>5 DEF HandsAt, HalvesAt, InHand, HighInHand
  <1>7. CursAt(l, t, i + 1)
    <2> SUFFICES ASSUME NEW r \in C!Registers PROVE t.cur[r] = LatestOf(l, r, C!Moves(l, r, i + 1))
      BY DEF CursAt
    <2>1. s.cur \in [C!Registers -> Vals(l)]
      BY DEF WalkStates, Curs
    <2>2. CASE r = l[i].reg
      <3>1. C!Moves(l, r, i + 1) = C!Moves(l, r, i) \cup {i}
        BY <2>2, MovesGrow DEF Moves1
      <3>2. C!Moves(l, r, i) \subseteq 1..i - 1
        BY <1>1, MovesAre
      <3>3. C!Moves(l, r, i + 1) \subseteq Int /\ i \in C!Moves(l, r, i + 1) /\ \A j \in C!Moves(l, r, i + 1) : j <= i
        BY <1>1, <3>1, <3>2
      <3>4. C!Max(C!Moves(l, r, i + 1)) = i
        BY <3>3, MaxIs
      <3> QED BY <1>2, <2>1, <2>2, <3>3, <3>4 DEF LatestOf
    <2>3. CASE r # l[i].reg
      <3>1. C!Moves(l, r, i + 1) = C!Moves(l, r, i)
        BY <2>3, MovesGrow DEF Moves1
      <3> QED BY <1>2, <1>4, <2>1, <2>3, <3>1 DEF CursAt
    <2> QED BY <2>2, <2>3
  <1> QED BY <1>2, <1>3, <1>6, <1>7 DEF HoldsAt, t

\* The last of a set that the next instruction is added to.
LEMMA MaxNext ==
  ASSUME NEW l, C!Sane(l), NEW i \in 1..Len(l), NEW T, T \subseteq 1..i - 1
  PROVE  C!Max(T \cup {i}) = i
  <1>1. T \cup {i} \subseteq Int /\ \A j \in T \cup {i} : j <= i
    <2>1. Len(l) \in Nat /\ i \in Nat
      BY SaneIs
    <2> QED BY <2>1
  <1> QED BY <1>1, MaxIs

\* A high half is what the next low half is completed with.
LEMMA HighHolds ==
  ASSUME NEW l, C!Sane(l), NEW i \in 1..Len(l), NEW s \in WalkStates(l), l[i].op = "move", l[i].reg = "high", C!Runs(l, i),
         HoldsAt(l, s, i)
  PROVE  C!Stepped(s, l[i]) \in WalkStates(l) /\ C!Stepped(s, l[i]).ip = s.ip + 1 /\ HoldsAt(l, C!Stepped(s, l[i]), i + 1)
  <1> DEFINE t == C!Stepped(s, l[i])
             q == l[i].plane
  <1>1. i \in DOMAIN l /\ i \in 1..Len(l) + 1 /\ Len(l) \in Nat /\ q \in C!Planes
    <2>1. l[i].reg \in {"low", "high"}
      OBVIOUS
    <2>2. q \in C!Planes
      BY <2>1, SaneIs
    <2>3. i \in DOMAIN l /\ i \in 1..Len(l) + 1 /\ Len(l) \in Nat
      BY SaneIs
    <2> QED BY <2>2, <2>3
  <1>2. /\ t.ptr = [s.ptr EXCEPT ![q] = <<l[i].val, s.ptr[q][2]>>] /\ t.high = s.high \cup {q}
        /\ t.line = s.line /\ t.prev = s.prev /\ t.base = s.base /\ t.over = s.over /\ t.cur = s.cur
        /\ t.ready = s.ready /\ t.anchors = s.anchors /\ t.scan = s.scan
    <2>1. HighGives(l, s, l[i], t)
      BY <1>1, MoveHigh
    <2> QED BY <2>1 DEF HighGives
  <1>20. t \in WalkStates(l) /\ t.ip = s.ip + 1
    <2>1. HighGives(l, s, l[i], t)
      BY <1>1, MoveHigh
    <2> QED BY <2>1 DEF HighGives
  <1> HIDE DEF t
  <1>3. TimesAt(l, t, i + 1) /\ ScansDone(l, t) /\ AnchorsAt(l, t, i + 1) /\ C!Waits(l, i + 1) = C!Waits(l, i)
    BY <1>2, NoWaitHolds
  <1>4. CursAt(l, s, i) /\ HandsAt(l, s, i) /\ HalvesAt(l, s, i) /\ s.ptr \in [C!Planes -> Pairs(l)]
    BY DEF HoldsAt, WalkStates, Ptrs
  <1>0. Moves1(l, i, "high") /\ ~Moves1(l, i, "low") /\ \A r \in C!Registers : ~Moves1(l, i, r)
    BY DEF Moves1, C!Registers
  <1>5. \A p : C!Lows(l, p, i + 1) = C!Lows(l, p, i)
    BY <1>0, HalvesGrow
  <1>6. \A p : C!Highs(l, p, i + 1) = IF p = q THEN C!Highs(l, p, i) \cup {i} ELSE C!Highs(l, p, i)
    BY <1>0, HalvesGrow
  <1>7. CursAt(l, t, i + 1)
    <2>1. \A r \in C!Registers : C!Moves(l, r, i + 1) = C!Moves(l, r, i)
      BY <1>0, MovesGrow
    <2> QED BY <1>2, <1>4, <2>1 DEF CursAt
  <1> HIDE DEF q
  <1>8. HandsAt(l, t, i + 1)
    <2>1. \A p : InHand(l, p, i + 1) <=> InHand(l, p, i)
      BY <1>3, <1>5 DEF InHand
    <2>2. \A p : HighInHand(l, p, i + 1) <=> HighInHand(l, p, i) \/ p = q
      BY <1>3, <1>6 DEF HighInHand
    <2> QED BY <1>1, <1>2, <1>4, <2>1, <2>2 DEF HandsAt
  <1>9. HalvesAt(l, t, i + 1)
    <2> SUFFICES ASSUME NEW p \in C!Planes
                 PROVE  /\ C!Highs(l, p, i + 1) # {} => t.ptr[p][1] = l[C!Max(C!Highs(l, p, i + 1))].val
                        /\ C!Lows(l, p, i + 1) # {} => t.ptr[p][2] = l[C!Max(C!Lows(l, p, i + 1))].val
      BY DEF HalvesAt
    <2>1. CASE p = q
      <3>1. C!Highs(l, p, i) \subseteq 1..i - 1
        BY <1>1, MovesAre
      <3>2. C!Max(C!Highs(l, p, i + 1)) = i
        BY <1>6, <2>1, <3>1, MaxNext
      <3>3. t.ptr[p] = <<l[i].val, s.ptr[p][2]>>
        BY <1>1, <1>2, <1>4, <2>1
      <3> QED BY <1>4, <1>5, <3>2, <3>3 DEF HalvesAt
    <2>2. CASE p # q
      <3>1. t.ptr[p] = s.ptr[p]
        BY <1>2, <1>4, <2>2
      <3> QED BY <1>4, <1>5, <1>6, <2>2, <3>1 DEF HalvesAt
    <2> QED BY <2>1, <2>2
  <1> QED BY <1>20, <1>3, <1>7, <1>8, <1>9 DEF HoldsAt, t

\* A low half, with the high half before it, is the pointer in hand.
LEMMA LowHolds ==
  ASSUME NEW l, C!Sane(l), NEW i \in 1..Len(l), NEW s \in WalkStates(l), l[i].op = "move", l[i].reg = "low", C!Runs(l, i),
         HoldsAt(l, s, i)
  PROVE  C!Stepped(s, l[i]) \in WalkStates(l) /\ C!Stepped(s, l[i]).ip = s.ip + 1 /\ HoldsAt(l, C!Stepped(s, l[i]), i + 1)
  <1> DEFINE t == C!Stepped(s, l[i])
             q == l[i].plane
  <1>1. i \in DOMAIN l /\ i \in 1..Len(l) + 1 /\ Len(l) \in Nat /\ q \in C!Planes
    <2>1. l[i].reg \in {"low", "high"}
      OBVIOUS
    <2>2. q \in C!Planes
      BY <2>1, SaneIs
    <2>3. i \in DOMAIN l /\ i \in 1..Len(l) + 1 /\ Len(l) \in Nat
      BY SaneIs
    <2> QED BY <2>2, <2>3
  <1>2. /\ q \in s.high => t.ptr = [s.ptr EXCEPT ![q] = <<s.ptr[q][1], l[i].val>>] /\ t.ready = s.ready \cup {q}
        /\ q \notin s.high => t.ptr = s.ptr /\ t.ready = s.ready
        /\ t.line = s.line /\ t.prev = s.prev /\ t.base = s.base /\ t.over = s.over /\ t.cur = s.cur
        /\ t.high = s.high /\ t.anchors = s.anchors /\ t.scan = s.scan
    <2>1. LowGives(l, s, l[i], t)
      BY <1>1, MoveLow
    <2> QED BY <2>1 DEF LowGives
  <1>20. t \in WalkStates(l) /\ t.ip = s.ip + 1
    <2>1. LowGives(l, s, l[i], t)
      BY <1>1, MoveLow
    <2> QED BY <2>1 DEF LowGives
  <1> HIDE DEF t
  <1>3. TimesAt(l, t, i + 1) /\ ScansDone(l, t) /\ AnchorsAt(l, t, i + 1) /\ C!Waits(l, i + 1) = C!Waits(l, i)
    BY <1>2, NoWaitHolds
  <1>4. CursAt(l, s, i) /\ HandsAt(l, s, i) /\ HalvesAt(l, s, i) /\ s.ptr \in [C!Planes -> Pairs(l)]
    BY DEF HoldsAt, WalkStates, Ptrs
  <1>0. Moves1(l, i, "low") /\ ~Moves1(l, i, "high") /\ \A r \in C!Registers : ~Moves1(l, i, r)
    BY DEF Moves1, C!Registers
  <1>5. \A p : C!Highs(l, p, i + 1) = C!Highs(l, p, i)
    BY <1>0, HalvesGrow
  <1>6. \A p : C!Lows(l, p, i + 1) = IF p = q /\ HighInHand(l, q, i) THEN C!Lows(l, p, i) \cup {i} ELSE C!Lows(l, p, i)
    <2> SUFFICES ASSUME NEW p PROVE C!Lows(l, p, i + 1) = IF p = q /\ HighInHand(l, q, i) THEN C!Lows(l, p, i) \cup {i} ELSE C!Lows(l, p, i)
      OBVIOUS
    <2>1. /\ p = l[i].plane /\ HighInHand(l, p, i) => C!Lows(l, p, i + 1) = C!Lows(l, p, i) \cup {i}
          /\ ~(p = l[i].plane /\ HighInHand(l, p, i)) => C!Lows(l, p, i + 1) = C!Lows(l, p, i)
      BY <1>0, HalvesGrow
    <2>2. CASE p = l[i].plane
      <3>1. HighInHand(l, q, i) <=> HighInHand(l, p, i)
        BY <2>2
      <3>2. CASE HighInHand(l, p, i)
        BY <2>1, <2>2, <3>1, <3>2
      <3>3. CASE ~HighInHand(l, p, i)
        BY <2>1, <2>2, <3>1, <3>3
      <3> QED BY <3>2, <3>3
    <2>3. CASE p # l[i].plane
      BY <2>1, <2>3
    <2> QED BY <2>2, <2>3
  <1>7. CursAt(l, t, i + 1)
    <2>1. \A r \in C!Registers : C!Moves(l, r, i + 1) = C!Moves(l, r, i)
      BY <1>0, MovesGrow
    <2> QED BY <1>2, <1>4, <2>1 DEF CursAt
  <1> HIDE DEF q
  <1>8. q \in s.high <=> HighInHand(l, q, i)
    BY <1>1, <1>4 DEF HandsAt
  <1>9. HandsAt(l, t, i + 1)
    <2>1. \A p : HighInHand(l, p, i + 1) <=> HighInHand(l, p, i)
      BY <1>3, <1>5 DEF HighInHand
    <2>2. \A p : InHand(l, p, i + 1) <=> InHand(l, p, i) \/ (p = q /\ HighInHand(l, q, i))
      BY <1>3, <1>6 DEF InHand
    <2> QED BY <1>1, <1>2, <1>4, <1>8, <2>1, <2>2 DEF HandsAt
  <1>10. HalvesAt(l, t, i + 1)
    <2> SUFFICES ASSUME NEW p \in C!Planes
                 PROVE  /\ C!Highs(l, p, i + 1) # {} => t.ptr[p][1] = l[C!Max(C!Highs(l, p, i + 1))].val
                        /\ C!Lows(l, p, i + 1) # {} => t.ptr[p][2] = l[C!Max(C!Lows(l, p, i + 1))].val
      BY DEF HalvesAt
    <2>1. CASE p = q /\ HighInHand(l, q, i)
      <3>1. C!Lows(l, p, i) \subseteq 1..i - 1
        BY <1>1, MovesAre
      <3>2. C!Max(C!Lows(l, p, i + 1)) = i
        BY <1>6, <2>1, <3>1, MaxNext
      <3>3. t.ptr[p] = <<s.ptr[p][1], l[i].val>>
        BY <1>1, <1>2, <1>4, <1>8, <2>1
      <3> QED BY <1>4, <1>5, <3>2, <3>3 DEF HalvesAt
    <2>2. CASE ~(p = q /\ HighInHand(l, q, i))
      <3>1. t.ptr[p] = s.ptr[p]
        BY <1>2, <1>4, <1>8, <2>2
      <3> QED BY <1>4, <1>5, <1>6, <2>2, <3>1 DEF HalvesAt
    <2> QED BY <2>1, <2>2
  <1> QED BY <1>20, <1>3, <1>7, <1>9, <1>10 DEF HoldsAt, t

\* What a WAIT that runs leaves of the segment before it.
LEMMA WaitSegment ==
  ASSUME NEW l, C!Sane(l), NEW i \in 1..Len(l), l[i].op = "wait", C!Runs(l, i), NEW p
  PROVE  /\ C!Highs(l, p, i + 1) = C!Highs(l, p, i) /\ C!Lows(l, p, i + 1) = C!Lows(l, p, i)
         /\ ~HighInHand(l, p, i + 1) /\ ~InHand(l, p, i + 1)
         /\ HighInHand(l, p, i) => InHand(l, p, i)
  <1>1. Len(l) \in Nat /\ i \in Nat /\ i \in 1..Len(l) + 1
    BY SaneIs
  <1>2. C!Highs(l, p, i + 1) = C!Highs(l, p, i) /\ C!Lows(l, p, i + 1) = C!Lows(l, p, i)
    BY HalvesGrow DEF Moves1
  <1>3. C!Highs(l, p, i) \subseteq 1..i - 1 /\ C!Lows(l, p, i) \subseteq 1..i - 1
    BY <1>1, MovesAre
  <1>4. ASSUME NEW j \in 1..i - 1 PROVE C!Waits(l, j) # C!Waits(l, i + 1)
    <2>1. C!Waits(l, j) \subseteq 1..j - 1
      BY DEF C!Waits
    <2>2. i \notin 1..j - 1
      BY <1>1
    <2>3. i \in C!Waits(l, i + 1)
      BY EffectNext
    <2> QED BY <2>1, <2>2, <2>3
  <1>5. ~HighInHand(l, p, i + 1) /\ ~InHand(l, p, i + 1)
    BY <1>2, <1>3, <1>4 DEF HighInHand, InHand
  <1>6. ASSUME HighInHand(l, p, i) PROVE InHand(l, p, i)
    <2>1. PICK h \in C!Highs(l, p, i) : C!Waits(l, h) = C!Waits(l, i)
      BY <1>6 DEF HighInHand
    <2>2. h \in 1..i - 1 /\ h \in 1..Len(l)
      BY <1>1, <1>3, <2>1
    <2>3. l[h].op = "move" /\ l[h].reg = "high"
      BY <2>1 DEF C!Highs, C!Moves
    <2>4. l[h + 1].op = "move"
      BY <2>2, <2>3, SaneIs
    <2>5. h + 1 < i
      <3>1. h + 1 # i
        BY <2>4
      <3> QED BY <1>1, <2>2, <3>1
    <2>6. h + 1 \in C!Lows(l, p, i) /\ C!Waits(l, h + 1) = C!Waits(l, h)
      BY <1>1, <2>1, <2>5, LowAfterHigh
    <2> QED BY <2>1, <2>6 DEF InHand
  <1> QED BY <1>2, <1>5, <1>6

\* An anchor added is the last of its line, and answers for what was in hand.
LEMMA AnchorAnswers ==
  ASSUME NEW l, C!Sane(l), NEW i \in 1..Len(l), l[i].op = "wait", C!Runs(l, i), NEW s \in WalkStates(l), HoldsAt(l, s, i),
         s.line = C!EffectAt(l, i), NEW p \in C!Planes, NEW y \in C!Lines,
         NEW n, n = [from |-> s.line, of |-> s.ready, at |-> [k \in C!Planes |-> C!Pointer(s.ptr[k])]],
         NEW a, a = IF s.ready # {} THEN Append(s.anchors, n) ELSE s.anchors
  PROVE  Answers(l, a, p, y, PastBy(l, p, y, i + 1))
  <1>1. Len(l) \in Nat /\ i \in Nat /\ i \in 1..Len(l) + 1
    BY SaneIs
  <1>2. Answers(l, s.anchors, p, y, PastBy(l, p, y, i)) /\ (p \in s.ready <=> InHand(l, p, i))
    BY DEF HoldsAt, AnchorsAt, HandsAt
  <1>3. s.anchors \in Seq(Anchors(l)) /\ s.ptr \in [C!Planes -> Pairs(l)]
    BY DEF WalkStates, AnchorSeqs, Ptrs
  <1> DEFINE m == Len(s.anchors) + 1
             T == PastBy(l, p, y, i)
             G == {j \in C!Lows(l, p, i) : C!Waits(l, j) = C!Waits(l, i)}
  <1>4. G # {} <=> InHand(l, p, i)
    BY DEF InHand
  <1>5. CASE p \in s.ready /\ y = s.line
    <2>1. a = Append(s.anchors, n)
      BY <1>5
    <2>2. Len(a) = m /\ Len(s.anchors) \in Nat /\ a[m] = n
      BY <1>3, <2>1
    <2>3. m \in OnLine(a, p, y)
      BY <1>5, <2>2 DEF OnLine
    <2>4. OnLine(a, p, y) \subseteq Int /\ \A k \in OnLine(a, p, y) : k <= m
      BY <2>2 DEF OnLine
    <2>5. C!Max(OnLine(a, p, y)) = m
      BY <2>3, <2>4, MaxIs
    <2>6. PastBy(l, p, y, i + 1) = T \cup G
      BY <1>5, PastNext
    <2> DEFINE j == C!Max(C!Lows(l, p, i))
    <2>7. /\ j \in C!Lows(l, p, i) /\ (\A k \in C!Lows(l, p, i) : k <= j) /\ C!Waits(l, j) = C!Waits(l, i)
          /\ C!Highs(l, p, j) = C!Highs(l, p, i) /\ C!Highs(l, p, i) # {}
      BY <1>2, <1>5, LastLow
    <2>8. T \cup G \subseteq C!Lows(l, p, i) /\ C!Lows(l, p, i) \subseteq Int
      <3>1. C!Lows(l, p, i) \subseteq 1..i - 1
        BY <1>1, MovesAre
      <3> QED BY <3>1 DEF PastBy
    <2>9. j \in T \cup G
      BY <2>7
    <2>10. C!Max(T \cup G) = j
      <3> HIDE DEF j, G, T
      <3> QED BY <2>7, <2>8, <2>9, MaxIs
    <2>11. s.ptr[p] = <<l[C!Max(C!Highs(l, p, i))].val, l[j].val>>
      <3>1. s.ptr[p] = <<s.ptr[p][1], s.ptr[p][2]>>
        BY <1>3 DEF Pairs
      <3>2. HalvesAt(l, s, i)
        BY DEF HoldsAt
      <3> QED BY <2>7, <3>1, <3>2 DEF HalvesAt
    <2>12. C!Value(l, p, j) = C!Pointer(s.ptr[p])
      BY <2>7, <2>11 DEF C!Value
    <2>13. a[m].at[p] = C!Pointer(s.ptr[p])
      BY <2>2
    <2>14. OnLine(a, p, y) # {} /\ T \cup G # {}
      BY <2>3, <2>9
    <2> HIDE DEF j, G, T, m
    <2> QED BY <2>5, <2>6, <2>10, <2>12, <2>13, <2>14 DEF Answers
  <1>6. CASE ~(p \in s.ready /\ y = s.line)
    <2>1. PastBy(l, p, y, i + 1) = T
      <3>1. PastBy(l, p, y, i + 1) = T \cup (IF y = C!EffectAt(l, i) THEN G ELSE {})
        BY PastNext
      <3>2. CASE p \notin s.ready
        <4>1. G = {}
          BY <1>2, <1>4, <3>2
        <4>2. PastBy(l, p, y, i + 1) = T \cup {}
          BY <3>1, <4>1
        <4> QED BY <4>2
      <3>3. CASE y # s.line
        <4>1. PastBy(l, p, y, i + 1) = T \cup {}
          BY <3>1, <3>3
        <4> QED BY <4>1
      <3> QED BY <1>6, <3>2, <3>3
    <2>2. OnLine(a, p, y) = OnLine(s.anchors, p, y) /\ \A k \in OnLine(s.anchors, p, y) : a[k] = s.anchors[k]
      <3>1. CASE s.ready = {}
        BY <3>1
      <3>2. CASE s.ready # {}
        <4>1. a = Append(s.anchors, n)
          BY <3>2
        <4>2. Len(a) = m /\ Len(s.anchors) \in Nat /\ a[m] = n /\ \A k \in 1..Len(s.anchors) : a[k] = s.anchors[k]
          BY <1>3, <4>1
        <4>3. ~(a[m].from = y /\ p \in a[m].of)
          BY <1>6, <4>2
        <4>4. \A k : k \in 1..Len(a) <=> k \in 1..Len(s.anchors) \/ k = m
          BY <4>2
        <4> HIDE DEF m
        <4> QED BY <4>2, <4>3, <4>4 DEF OnLine
      <3> QED BY <3>1, <3>2
    <2>3. OnLine(s.anchors, p, y) # {} => C!Max(OnLine(s.anchors, p, y)) \in OnLine(s.anchors, p, y)
      <3>1. OnLine(s.anchors, p, y) \subseteq 1..Len(s.anchors) /\ Len(s.anchors) \in Nat
        BY <1>3 DEF OnLine
      <3> QED BY <3>1, Greatest
    <2> HIDE DEF T
    <2> QED BY <1>2, <2>1, <2>2, <2>3 DEF Answers, T
  <1> QED BY <1>5, <1>6

\* The anchors are no more than the WAITs made, so there is room for another.
LEMMA RoomToWait ==
  ASSUME NEW l, C!Sane(l), NEW i \in 1..Len(l), l[i].op = "wait"
  PROVE  Cardinality(C!Waits(l, i)) < MaxAnchors /\ Cardinality(C!Waits(l, i)) \in Nat
  <1> DEFINE S == {j \in 1..Len(l) : l[j].op = "wait"}
             T == C!Waits(l, i)
  <1>1. Len(l) \in Nat /\ i \in Nat /\ i \in 1..Len(l) + 1 /\ MaxAnchors \in Nat
    BY SaneIs, CopperGiven
  <1>2. Cardinality(S) <= MaxAnchors
    BY SaneIs
  <1>3. IsFiniteSet(S) /\ Cardinality(S) \in Nat
    <2>1. IsFiniteSet(1..Len(l))
      BY <1>1, FS_Interval
    <2>2. IsFiniteSet(S)
      BY <2>1, FS_Subset
    <2> QED BY <2>2, FS_CardinalityType
  <1>4. T \subseteq 1..i - 1 /\ IsFiniteSet(T) /\ \A j \in T : j \in S
    BY <1>1, WaitsAre
  <1>5. i \notin T /\ i \in S
    BY <1>1, <1>4
  <1> HIDE DEF S, T
  <1>6. T \cup {i} \subseteq S
    BY <1>4, <1>5
  <1>7. Cardinality(T \cup {i}) = Cardinality(T) + 1 /\ Cardinality(T) \in Nat
    BY <1>4, <1>5, FS_AddElement, FS_CardinalityType
  <1>8. Cardinality(T \cup {i}) <= Cardinality(S)
    BY <1>3, <1>6, FS_Subset
  <1>9. Cardinality(T) < MaxAnchors
    BY <1>1, <1>2, <1>3, <1>7, <1>8
  <1> QED BY <1>7, <1>9 DEF T

\* A WAIT gives the lines it passes their registers, and the line it was for its anchor.
LEMMA WaitHolds ==
  ASSUME NEW l, C!Sane(l), NEW i \in 1..Len(l), NEW s \in WalkStates(l), l[i].op = "wait", C!Runs(l, i), ~s.over, HoldsAt(l, s, i)
  PROVE  C!Stepped(s, l[i]) \in WalkStates(l) /\ C!Stepped(s, l[i]).ip = s.ip + 1 /\ HoldsAt(l, C!Stepped(s, l[i]), i + 1)
  <1> DEFINE t == C!Stepped(s, l[i])
             v == l[i].vp
             b == Base(l, i + 1)
             e == C!EffectAt(l, i + 1)
             f == IF e <= CopperH THEN e ELSE CopperH
             n == [from |-> s.line, of |-> s.ready, at |-> [p \in C!Planes |-> C!Pointer(s.ptr[p])]]
  <1>1. Len(l) \in Nat /\ i \in Nat /\ i \in 1..Len(l) + 1 /\ i + 1 \in 1..Len(l) + 1 /\ CopperH \in Nat
    BY SaneIs, CopperGiven
  <1>2. v \in Int
    <2>1. v \in 0..Wrap - 1
      BY SaneIs
    <2> QED BY <2>1
  <1>3. TimesAt(l, s, i) /\ CursAt(l, s, i) /\ ScansDone(l, s) /\ HandsAt(l, s, i) /\ HalvesAt(l, s, i) /\ AnchorsAt(l, s, i)
    BY DEF HoldsAt
  <1>4. /\ LastVp(l, i + 1) = v /\ C!Waits(l, i + 1) # {} /\ i \in C!Waits(l, i + 1)
        /\ b = Base(l, i) + (IF v < LastVp(l, i) THEN Wrap ELSE 0)
    BY EffectNext
  <1>5. b = s.base + (IF v < s.prev THEN Wrap ELSE 0)
    BY <1>3, <1>4 DEF TimesAt
  <1>6. e = (IF v + b - First >= 0 THEN v + b - First ELSE 0) /\ e \in Nat
    BY <1>1, <1>4, EffectIs
  <1>7. C!EffectAt(l, i) \in Nat
    BY <1>1, EffectIs
  <1>8. s.line = C!EffectAt(l, i) /\ s.line < CopperH /\ s.line \in Nat
    <2>1. s.line = (IF C!EffectAt(l, i) <= CopperH THEN C!EffectAt(l, i) ELSE CopperH) /\ s.line # CopperH
      BY <1>3 DEF TimesAt
    <2> QED BY <1>1, <1>7, <2>1
  <1>9. Cardinality(C!Waits(l, i)) < MaxAnchors /\ Cardinality(C!Waits(l, i)) \in Nat /\ MaxAnchors \in Nat
    BY RoomToWait, CopperGiven
  <1>10. s.anchors \in Seq(Anchors(l)) /\ s.cur \in [C!Registers -> Vals(l)]
    BY DEF WalkStates, AnchorSeqs, Curs
  <1>11. Len(s.anchors) <= Cardinality(C!Waits(l, i)) /\ Len(s.anchors) \in Nat /\ Len(s.anchors) < MaxAnchors
    BY <1>3, <1>9, <1>10 DEF AnchorsAt
  <1> HIDE DEF b, e
  <1>12. /\ t \in WalkStates(l) /\ t.ip = s.ip + 1 /\ t.base = b /\ t.prev = v /\ t.line = f /\ (t.over <=> f = CopperH)
         /\ t.scan = [y \in C!Lines |-> IF s.line <= y /\ y < f THEN s.cur ELSE s.scan[y]]
         /\ s.ready # {} => t.anchors = Append(s.anchors, n) /\ t.high = {} /\ t.ready = {}
         /\ s.ready = {} => t.anchors = s.anchors /\ t.high = s.high /\ t.ready = s.ready
         /\ t.cur = s.cur /\ t.ptr = s.ptr
    <2>1. ReachedBy(l, s, i, b, e, f, n)
      BY <1>5, <1>6 DEF ReachedBy
    <2> HIDE DEF f, n
    <2>2. v = l[i].vp
      OBVIOUS
    <2> HIDE DEF v
    <2>3. t = C!Stepped(s, l[i])
      OBVIOUS
    <2> HIDE DEF t
    <2>4. l[i].vp \in Int /\ (s.ready # {} => Len(s.anchors) < MaxAnchors)
      BY <1>2, <1>11, <2>2
    <2>5. /\ t \in WalkStates(l) /\ t.ip = s.ip + 1 /\ t.base = b /\ t.prev = l[i].vp /\ t.line = f /\ (t.over <=> f = CopperH)
          /\ t.scan = [y \in C!Lines |-> IF s.line <= y /\ y < f THEN s.cur ELSE s.scan[y]]
          /\ s.ready # {} => t.anchors = Append(s.anchors, n) /\ t.high = {} /\ t.ready = {}
          /\ s.ready = {} => t.anchors = s.anchors /\ t.high = s.high /\ t.ready = s.ready
          /\ t.cur = s.cur /\ t.ptr = s.ptr
      <3>1. l[i].op = "wait"
        OBVIOUS
      <3>2. WaitGives(l, s, i, t, b, f, n)
        BY <3>1, <2>1, <2>3, <2>4, WaitIs
      <3> QED BY <3>2 DEF WaitGives
    <2> QED BY <2>2, <2>5
  <1> HIDE DEF t, v, n, f
  <1>13. TimesAt(l, t, i + 1)
    BY <1>4, <1>12 DEF TimesAt, b, e, f
  <1>14. CursAt(l, t, i + 1)
    <2>1. \A r : C!Moves(l, r, i + 1) = C!Moves(l, r, i)
      <3>1. \A r : ~Moves1(l, i, r)
        BY DEF Moves1
      <3> QED BY <3>1, MovesGrow
    <2> QED BY <1>3, <1>12, <2>1 DEF CursAt
  <1>15. ScansDone(l, t)
    <2> SUFFICES ASSUME NEW y \in C!Lines, y < f PROVE t.scan[y] = C!LineAt(l, y)
      BY <1>12 DEF ScansDone
    <2>1. y \in Nat /\ f <= e
      BY <1>1, <1>6 DEF C!Lines, f
    <2>2. CASE y < s.line
      <3>1. t.scan[y] = s.scan[y]
        BY <1>8, <1>12, <2>1, <2>2
      <3> QED BY <1>3, <2>2, <3>1 DEF ScansDone
    <2>3. CASE ~(y < s.line)
      <3>1. t.scan[y] = s.cur
        BY <1>8, <1>12, <2>1, <2>3
      <3>2. C!EffectAt(l, i) <= y /\ y < e
        BY <1>1, <1>6, <1>8, <2>1, <2>3 DEF f
      <3>3. \A r \in C!Registers : C!RegisterAt(l, r, y) = s.cur[r]
        <4>1. \A r : C!RegisterAt(l, r, y) = LatestOf(l, r, C!Moves(l, r, i))
          BY <2>1, <3>2, RegistersBeforeWait DEF e
        <4> QED BY <1>3, <4>1 DEF CursAt
      <3>4. C!LineAt(l, y) = [r \in C!Registers |-> s.cur[r]]
        BY <3>3 DEF C!LineAt
      <3> QED BY <1>10, <3>1, <3>4
    <2> QED BY <2>2, <2>3
  <1>16. HandsAt(l, t, i + 1)
    <2>1. \A p \in C!Planes : ~HighInHand(l, p, i + 1) /\ ~InHand(l, p, i + 1) /\ (HighInHand(l, p, i) => InHand(l, p, i))
      BY WaitSegment
    <2>2. s.ready = {} => \A p \in C!Planes : p \notin s.high
      BY <1>3, <2>1 DEF HandsAt
    <2>3. t.ready = {} /\ \A p \in C!Planes : p \notin t.high
      BY <1>12, <2>2
    <2> QED BY <2>1, <2>3 DEF HandsAt
  <1>17. HalvesAt(l, t, i + 1)
    <2>1. \A p : C!Highs(l, p, i + 1) = C!Highs(l, p, i) /\ C!Lows(l, p, i + 1) = C!Lows(l, p, i)
      BY WaitSegment
    <2> QED BY <1>3, <1>12, <2>1 DEF HalvesAt
  <1>18. AnchorsAt(l, t, i + 1)
    <2>1. t.anchors = IF s.ready # {} THEN Append(s.anchors, n) ELSE s.anchors
      BY <1>12
    <2>2. \A p \in C!Planes, y \in C!Lines : Answers(l, t.anchors, p, y, PastBy(l, p, y, i + 1))
      BY <1>8, <2>1, AnchorAnswers DEF n
    <2>3. Len(t.anchors) <= Len(s.anchors) + 1
      BY <1>10, <1>11, <2>1
    <2>4. Cardinality(C!Waits(l, i + 1)) = Cardinality(C!Waits(l, i)) + 1
      <3>1. C!Waits(l, i + 1) = C!Waits(l, i) \cup {i}
        BY BeforeNext
      <3>2. C!Waits(l, i) \subseteq 1..i - 1 /\ IsFiniteSet(C!Waits(l, i))
        BY <1>1, WaitsAre
      <3>3. i \notin C!Waits(l, i)
        BY <1>1, <3>2
      <3> QED BY <3>1, <3>2, <3>3, FS_AddElement
    <2>5. Len(t.anchors) \in Nat
      <3>1. t.anchors \in Seq(Anchors(l))
        BY <1>12 DEF WalkStates, AnchorSeqs
      <3> QED BY <3>1
    <2>6. Len(t.anchors) <= Cardinality(C!Waits(l, i + 1))
      BY <1>9, <1>11, <2>3, <2>4, <2>5
    <2> QED BY <2>2, <2>6 DEF AnchorsAt
  <1> QED BY <1>12, <1>13, <1>14, <1>15, <1>16, <1>17, <1>18 DEF HoldsAt, t

-----------------------------------------------------------------------------
\* The walk as a whole.

WalkStep(l, s) == IF s.over \/ s.ip > Len(l) THEN s ELSE C!Stepped(s, l[s.ip])

\* Every instruction keeps what the walk holds.
LEMMA StepKeeps ==
  ASSUME NEW l, C!Sane(l), NEW s, WalkInv(l, s), NEW n \in 0..Len(l) - 1, s.over \/ s.ip > n
  PROVE  LET t == WalkStep(l, s) IN WalkInv(l, t) /\ (t.over \/ t.ip > n + 1)
  <1> DEFINE i == s.ip
             t == C!Stepped(s, l[i])
  <1>1. Len(l) \in Nat /\ DOMAIN l = 1..Len(l) /\ n \in Nat /\ n + 1 <= Len(l)
    BY SaneIs
  <1>2. s \in WalkStates(l) /\ i \in 1..Len(l) + 2 /\ i \in Nat /\ HoldsAt(l, s, Reading(l, s))
    BY <1>1 DEF WalkInv
  <1>3. CASE s.over \/ s.ip > Len(l)
    <2>1. WalkStep(l, s) = s
      BY <1>3 DEF WalkStep
    <2>2. s.over \/ s.ip > n + 1
      BY <1>1, <1>2, <1>3
    <2> QED BY <2>1, <2>2
  <1>4. CASE ~(s.over \/ s.ip > Len(l))
    <2>1. i \in 1..Len(l) /\ i > n /\ WalkStep(l, s) = t
      BY <1>1, <1>2, <1>4 DEF WalkStep
    <2>2. C!Runs(l, i) /\ HoldsAt(l, s, i) /\ ~s.over
      BY <1>2, <1>4 DEF WalkInv, Reading
    <2>3. i + 1 \in 1..Len(l) + 2 /\ i + 2 \in 1..Len(l) + 2 /\ i + 1 > n + 1 /\ i + 2 > n + 1
      BY <1>1, <2>1
    <2> HIDE DEF i, t
    <2>4. ASSUME t \in WalkStates(l), t.ip = i + 1, HoldsAt(l, t, i + 1), l[i].op # "skip"
          PROVE  WalkInv(l, t) /\ t.ip > n + 1
      <3>1. Reading(l, t) = i + 1
        BY <1>1, <2>1, <2>4 DEF Reading
      <3>2. C!Runs(l, i + 1)
        BY <2>1, <2>4, RunsIs
      <3> QED BY <2>3, <2>4, <3>1, <3>2 DEF WalkInv
    <2>5. CASE l[i].op = "wait"
      <3>1. t \in WalkStates(l) /\ t.ip = i + 1 /\ HoldsAt(l, t, i + 1)
        BY <1>2, <2>1, <2>2, <2>5, WaitHolds DEF i, t
      <3> QED BY <2>1, <2>4, <2>5, <3>1
    <2>6. CASE l[i].op = "move"
      <3>1. l[i].reg \in C!Registers \cup {"low", "high"} /\ (l[i].reg \in {"low", "high"} => l[i].plane \in C!Planes) /\ i \in DOMAIN l
        BY <1>1, <2>1, <2>6, SaneIs
      <3>2. CASE l[i].reg \in C!Registers
        <4>1. t \in WalkStates(l) /\ t.ip = i + 1 /\ HoldsAt(l, t, i + 1)
          BY <1>2, <2>1, <2>2, <2>6, <3>2, SetsHolds DEF i, t
        <4> QED BY <2>1, <2>4, <2>6, <4>1
      <3>3. CASE l[i].reg = "high"
        <4>1. t \in WalkStates(l) /\ t.ip = i + 1 /\ HoldsAt(l, t, i + 1)
          BY <1>2, <2>1, <2>2, <2>6, <3>3, HighHolds DEF i, t
        <4> QED BY <2>1, <2>4, <2>6, <4>1
      <3>4. CASE l[i].reg = "low"
        <4>1. t \in WalkStates(l) /\ t.ip = i + 1 /\ HoldsAt(l, t, i + 1)
          BY <1>2, <2>1, <2>2, <2>6, <3>4, LowHolds DEF i, t
        <4> QED BY <2>1, <2>4, <2>6, <4>1
      <3> QED BY <3>1, <3>2, <3>3, <3>4
    <2>7. CASE l[i].op = "skip"
      <3>1. /\ t \in WalkStates(l) /\ t.ip = i + 2 /\ t.cur = s.cur
            /\ t.line = s.line /\ t.prev = s.prev /\ t.base = s.base /\ t.over = s.over /\ t.high = s.high
            /\ t.ready = s.ready /\ t.ptr = s.ptr /\ t.anchors = s.anchors /\ t.scan = s.scan
        BY <1>2, <2>7, SkipIs DEF i, t
      <3>2. HoldsAt(l, t, i + 1)
        BY <2>1, <2>2, <2>7, <3>1, IdleHolds
      <3>3. ~C!Runs(l, i + 1)
        BY <2>1, <2>2, <2>7, RunsIs
      <3>4. CASE i = Len(l)
        <4>1. Reading(l, t) = i + 1 /\ t.ip > Len(l)
          BY <1>1, <3>1, <3>4 DEF Reading
        <4>2. ~(t.ip <= Len(l)) /\ t.ip \in 1..Len(l) + 2 /\ t.ip > n + 1
          BY <1>1, <2>3, <3>1, <4>1
        <4> QED BY <2>1, <3>1, <3>2, <4>1, <4>2 DEF WalkInv
      <3>5. CASE i # Len(l)
        <4>1. i + 1 \in 1..Len(l) /\ (i + 1) + 1 = i + 2
          <5>1. i \in 1..Len(l) /\ Len(l) \in Nat
            BY <1>1, <2>1
          <5>2. i + 1 <= Len(l) /\ (i + 1) + 1 = i + 2
            BY <3>5, <5>1
          <5> QED BY <5>1, <5>2
        <4>2. HoldsAt(l, t, i + 2)
          BY <3>2, <3>3, <4>1, IdleHolds
        <4>3. C!Runs(l, i + 2)
          BY <3>3, <4>1, RunsIs
        <4>4. Reading(l, t) = i + 2
          BY <1>1, <3>1, <4>1 DEF Reading
        <4> QED BY <2>1, <2>3, <3>1, <4>2, <4>3, <4>4 DEF WalkInv
      <3> QED BY <3>4, <3>5
    <2>8. l[i].op \in {"move", "wait", "skip"}
      BY <2>1, SaneIs
    <2> QED BY <2>5, <2>6, <2>7, <2>8
  <1> QED BY <1>3, <1>4

\* The states of the walk, so far.
WalkedTo(l, n, g) == /\ g = [m \in 0..n |-> g[m]] /\ g[0] = C!Start
                     /\ \A m \in 1..n : g[m] = WalkStep(l, g[m - 1])

LEMMA WalkExists == ASSUME NEW l PROVE \A n \in Nat : \E g : WalkedTo(l, n, g)
  <1> DEFINE S == {n \in Nat : \E g : WalkedTo(l, n, g)}
  <1>1. 0 \in S
    <2>1. WalkedTo(l, 0, [m \in 0..0 |-> C!Start])
      BY DEF WalkedTo
    <2> QED BY <2>1
  <1>2. ASSUME NEW n \in Nat, n \in S PROVE n + 1 \in S
    <2>1. PICK g : WalkedTo(l, n, g)
      BY <1>2
    <2> DEFINE e == WalkStep(l, g[n])
               h == [m \in 0..n + 1 |-> IF m = n + 1 THEN e ELSE g[m]]
    <2> HIDE DEF e
    <2>2. h[0] = C!Start
      BY <2>1 DEF WalkedTo
    <2>3. h[n + 1] = e /\ h[n] = g[n]
      OBVIOUS
    <2>4. ASSUME NEW m \in 1..n + 1 PROVE h[m] = WalkStep(l, h[m - 1])
      <3>1. CASE m = n + 1
        <4>1. m - 1 = n
          BY <3>1
        <4> QED BY <2>3, <3>1, <4>1 DEF e
      <3>2. CASE m # n + 1
        <4>1. m \in 1..n /\ m - 1 \in 0..n /\ m \in 0..n + 1 /\ m - 1 \in 0..n + 1 /\ m - 1 # n + 1
          BY <3>2
        <4>2. h[m] = g[m] /\ h[m - 1] = g[m - 1]
          BY <3>2, <4>1
        <4> QED BY <2>1, <4>1, <4>2 DEF WalkedTo
      <3> QED BY <3>1, <3>2
    <2>5. h = [m \in 0..n + 1 |-> h[m]]
      OBVIOUS
    <2> HIDE DEF h
    <2>6. WalkedTo(l, n + 1, h)
      BY <2>2, <2>4, <2>5 DEF WalkedTo
    <2> QED BY <2>6
  <1> HIDE DEF S
  <1>3. Nat \subseteq S
    BY <1>1, <1>2, SetInduction
  <1> QED BY <1>3 DEF S

\* The walk is over after as many instructions as the list has.
LEMMA WalkEnds ==
  ASSUME NEW l, C!Sane(l)
  PROVE  \E e : /\ WalkInv(l, e) /\ (e.over \/ e.ip > Len(l))
                /\ C!Walk(l) = [scan |-> C!Stamped(e, CopperH), anchors |-> e.anchors]
  <1> DEFINE N == Len(l)
             Fs(f) == f = [n \in 0..N |-> IF n = 0 THEN C!Start ELSE WalkStep(l, f[n - 1])]
             w == CHOOSE f : Fs(f)
  <1>1. N \in Nat
    BY SaneIs
  <1>2. PICK g : WalkedTo(l, N, g)
    BY <1>1, WalkExists
  <1>3. Fs(g)
    <2>1. \A n \in 0..N : g[n] = IF n = 0 THEN C!Start ELSE WalkStep(l, g[n - 1])
      <3>1. \A n \in 0..N : n # 0 => n \in 1..N
        BY <1>1
      <3> QED BY <1>2, <3>1 DEF WalkedTo
    <2> QED BY <1>2, <2>1 DEF WalkedTo
  <1>4. Fs(w)
    BY <1>3
  <1>5. C!Walk(l) = [scan |-> C!Stamped(w[N], CopperH), anchors |-> w[N].anchors]
    BY DEF C!Walk, WalkStep
  <1> HIDE DEF w, N
  <1>6. w[0] = C!Start /\ \A n \in 0..N : n # 0 => w[n] = WalkStep(l, w[n - 1])
    BY <1>1, <1>4
  <1> DEFINE S == {n \in Nat : n <= N => WalkInv(l, w[n]) /\ (w[n].over \/ w[n].ip > n)}
  <1>7. 0 \in S
    <2>1. WalkInv(l, C!Start)
      BY WalkStarts
    <2>2. C!Start.ip > 0
      BY DEF C!Start
    <2> QED BY <1>6, <2>1, <2>2
  <1>8. ASSUME NEW n \in Nat, n \in S PROVE n + 1 \in S
    <2> SUFFICES ASSUME n + 1 <= N PROVE WalkInv(l, w[n + 1]) /\ (w[n + 1].over \/ w[n + 1].ip > n + 1)
      OBVIOUS
    <2>1. n \in 0..Len(l) - 1 /\ n <= N /\ n + 1 \in 0..N /\ n + 1 # 0 /\ (n + 1) - 1 = n
      BY <1>1 DEF N
    <2>2. WalkInv(l, w[n]) /\ (w[n].over \/ w[n].ip > n)
      BY <1>8, <2>1
    <2>3. w[n + 1] = WalkStep(l, w[n])
      BY <1>6, <2>1
    <2> QED BY <2>1, <2>2, <2>3, StepKeeps
  <1> HIDE DEF S
  <1>9. N \in S
    BY <1>1, <1>7, <1>8, SetInduction
  <1>10. WalkInv(l, w[N]) /\ (w[N].over \/ w[N].ip > N)
    BY <1>1, <1>9 DEF S
  <1> QED BY <1>5, <1>10 DEF N

\* The walk gives every line its registers, and every line's pointers their anchors.
LEMMA WalkIs ==
  ASSUME NEW l, C!Sane(l)
  PROVE  /\ \A y \in C!Lines : C!Walk(l).scan[y] = C!LineAt(l, y)
         /\ C!Walk(l).anchors \in Seq(Anchors(l))
         /\ \A p \in C!Planes, y \in C!Lines : Answers(l, C!Walk(l).anchors, p, y, C!SetFor(l, p, y))
  <1>1. PICK e : /\ WalkInv(l, e) /\ (e.over \/ e.ip > Len(l))
                 /\ C!Walk(l) = [scan |-> C!Stamped(e, CopperH), anchors |-> e.anchors]
    BY WalkEnds
  <1> DEFINE i == Reading(l, e)
  <1>2. Len(l) \in Nat /\ i \in 1..Len(l) + 1 /\ CopperH \in Nat
    BY <1>1, SaneIs, CopperGiven DEF WalkInv, Reading
  <1>3. HoldsAt(l, e, i) /\ e \in WalkStates(l)
    BY <1>1 DEF WalkInv
  <1>4. TimesAt(l, e, i) /\ CursAt(l, e, i) /\ ScansDone(l, e) /\ AnchorsAt(l, e, i)
    BY <1>3 DEF HoldsAt
  <1>5. C!EffectAt(l, i) \in Nat
    BY <1>2, EffectIs
  <1>6. e.line = (IF C!EffectAt(l, i) <= CopperH THEN C!EffectAt(l, i) ELSE CopperH) /\ (e.over <=> e.line = CopperH)
    BY <1>4 DEF TimesAt
  <1>7. e.over \/ i = Len(l) + 1
    BY <1>1 DEF Reading
  <1> HIDE DEF i
  <1>8. i = Len(l) + 1 \/ C!EffectAt(l, i) >= CopperH
    BY <1>2, <1>5, <1>6, <1>7
  <1>9. ASSUME NEW y \in C!Lines PROVE C!Stamped(e, CopperH)[y] = C!LineAt(l, y)
    <2>1. y \in Nat /\ y < CopperH
      BY <1>2 DEF C!Lines
    <2>2. C!Stamped(e, CopperH)[y] = IF e.line <= y THEN e.cur ELSE e.scan[y]
      BY <2>1 DEF C!Stamped
    <2>3. e.line \in Nat
      BY <1>2, <1>5, <1>6
    <2>4. CASE y < e.line
      <3>1. ~(e.line <= y)
        BY <2>1, <2>3, <2>4
      <3> QED BY <1>4, <2>2, <2>4, <3>1 DEF ScansDone
    <2>5. CASE ~(y < e.line)
      <3>1. e.line <= y /\ e.line # CopperH
        BY <1>2, <2>1, <2>3, <2>5
      <3>2. i = Len(l) + 1 /\ C!EffectAt(l, i) <= y
        BY <1>2, <1>5, <1>6, <1>7, <2>1, <3>1
      <3>3. \A r \in C!Registers : C!RegisterAt(l, r, y) = e.cur[r]
        <4>1. \A r : C!RegisterAt(l, r, y) = LatestOf(l, r, C!Moves(l, r, i))
          BY <2>1, <3>2, RegistersAtEnd
        <4> QED BY <1>4, <4>1 DEF CursAt
      <3>4. C!LineAt(l, y) = [r \in C!Registers |-> e.cur[r]]
        BY <3>3 DEF C!LineAt
      <3>5. e.cur \in [C!Registers -> Vals(l)]
        BY <1>3 DEF WalkStates, Curs
      <3> QED BY <2>2, <3>1, <3>4, <3>5
    <2> QED BY <2>4, <2>5
  <1>10. e.anchors \in Seq(Anchors(l))
    BY <1>3 DEF WalkStates, AnchorSeqs
  <1>11. ASSUME NEW p \in C!Planes, NEW y \in C!Lines PROVE Answers(l, e.anchors, p, y, C!SetFor(l, p, y))
    <2>1. C!SetFor(l, p, y) = PastBy(l, p, y, i)
      BY <1>2, <1>8, PastEnds
    <2> QED BY <1>4, <2>1 DEF AnchorsAt
  <1>12. C!Walk(l).scan = C!Stamped(e, CopperH) /\ C!Walk(l).anchors = e.anchors
    BY <1>1
  <1> QED BY <1>9, <1>10, <1>11, <1>12

-----------------------------------------------------------------------------
\* The pointers of a line.

OnLineTo(a, p, y, n) == {k \in 1..n : a[k].from = y /\ p \in a[k].of}
SetTo(a, y, b, n)    == [p \in C!Planes |-> IF OnLineTo(a, p, y, n) = {} THEN b[p] ELSE a[C!Max(OnLineTo(a, p, y, n))].at[p]]
AnchorStep(a, y, b, n) == IF a[n].from = y THEN [p \in C!Planes |-> IF p \in a[n].of THEN a[n].at[p] ELSE b[p]] ELSE b

\* One more anchor of a line sets the planes it is of.
LEMMA SetNext ==
  ASSUME NEW a, NEW y, NEW b, NEW n \in Nat
  PROVE  SetTo(a, y, b, n + 1) = AnchorStep(a, y, SetTo(a, y, b, n), n + 1)
  <1> DEFINE m == n + 1
             x == SetTo(a, y, b, n)
  <1>1. \A k : k \in 1..m <=> k \in 1..n \/ k = m
    OBVIOUS
  <1>2. ASSUME NEW p \in C!Planes, ~(a[m].from = y /\ p \in a[m].of) PROVE SetTo(a, y, b, m)[p] = x[p]
    <2>1. OnLineTo(a, p, y, m) = OnLineTo(a, p, y, n)
      BY <1>1, <1>2 DEF OnLineTo
    <2> QED BY <2>1 DEF SetTo
  <1>3. ASSUME NEW p \in C!Planes, a[m].from = y, p \in a[m].of PROVE SetTo(a, y, b, m)[p] = a[m].at[p]
    <2>1. m \in OnLineTo(a, p, y, m)
      BY <1>3 DEF OnLineTo
    <2>2. OnLineTo(a, p, y, m) \subseteq Int /\ \A k \in OnLineTo(a, p, y, m) : k <= m
      BY DEF OnLineTo
    <2>3. C!Max(OnLineTo(a, p, y, m)) = m
      BY <2>1, <2>2, MaxIs
    <2> QED BY <2>1, <2>3 DEF SetTo
  <1>4. SetTo(a, y, b, m) = [p \in C!Planes |-> SetTo(a, y, b, m)[p]] /\ x = [p \in C!Planes |-> x[p]]
    BY DEF SetTo
  <1> HIDE DEF m, x
  <1>5. CASE a[m].from = y
    <2>1. \A p \in C!Planes : SetTo(a, y, b, m)[p] = IF p \in a[m].of THEN a[m].at[p] ELSE x[p]
      BY <1>2, <1>3, <1>5
    <2>2. AnchorStep(a, y, x, m) = [p \in C!Planes |-> IF p \in a[m].of THEN a[m].at[p] ELSE x[p]]
      BY <1>5 DEF AnchorStep
    <2>3. SetTo(a, y, b, m) = AnchorStep(a, y, x, m)
      BY <1>4, <2>1, <2>2
    <2> QED BY <2>3 DEF m, x
  <1>6. CASE a[m].from # y
    <2>1. \A p \in C!Planes : SetTo(a, y, b, m)[p] = x[p]
      BY <1>2, <1>6
    <2>2. SetTo(a, y, b, m) = x
      BY <1>4, <2>1
    <2>3. AnchorStep(a, y, x, m) = x
      BY <1>6 DEF AnchorStep
    <2> QED BY <2>2, <2>3 DEF m, x
  <1> QED BY <1>5, <1>6

\* The last anchor of a line that sets a plane is the one that counts.
LEMMA AnchoredIs ==
  ASSUME NEW a, Len(a) \in Nat, NEW y, NEW b, b = [p \in C!Planes |-> b[p]]
  PROVE  C!Anchored(a, y, b) = SetTo(a, y, b, Len(a))
  <1> DEFINE N == Len(a)
             Fs(f) == f = [n \in 0..N |-> IF n = 0 THEN b ELSE AnchorStep(a, y, f[n - 1], n)]
             g == [n \in 0..N |-> SetTo(a, y, b, n)]
             w == CHOOSE f : Fs(f)
  <1>1. SetTo(a, y, b, 0) = b
    <2>1. \A p : OnLineTo(a, p, y, 0) = {}
      BY DEF OnLineTo
    <2>2. SetTo(a, y, b, 0) = [p \in C!Planes |-> b[p]]
      BY <2>1 DEF SetTo
    <2> QED BY <2>2
  <1>2. \A n \in 0..N : n # 0 => n - 1 \in 0..N /\ SetTo(a, y, b, n) = AnchorStep(a, y, SetTo(a, y, b, n - 1), n)
    <2> SUFFICES ASSUME NEW n \in 0..N, n # 0
                 PROVE  n - 1 \in 0..N /\ SetTo(a, y, b, n) = AnchorStep(a, y, SetTo(a, y, b, n - 1), n)
      OBVIOUS
    <2>1. n - 1 \in Nat /\ (n - 1) + 1 = n /\ n - 1 \in 0..N
      OBVIOUS
    <2> QED BY <2>1, SetNext
  <1>3. Fs(g)
    <2>1. \A n \in 0..N : g[n] = IF n = 0 THEN b ELSE AnchorStep(a, y, g[n - 1], n)
      BY <1>1, <1>2
    <2>2. g = [n \in 0..N |-> g[n]]
      OBVIOUS
    <2> HIDE DEF g
    <2> QED BY <2>1, <2>2
  <1>4. Fs(w)
    BY <1>3
  <1>5. C!Anchored(a, y, b) = w[N]
    BY DEF C!Anchored, AnchorStep
  <1> HIDE DEF w, N
  <1>6. \A n \in 0..N : w[n] = IF n = 0 THEN b ELSE AnchorStep(a, y, w[n - 1], n)
    BY <1>4
  <1> DEFINE S == {n \in Nat : n <= N => w[n] = SetTo(a, y, b, n)}
  <1>0. N \in Nat
    BY DEF N
  <1>7. 0 \in S
    BY <1>0, <1>1, <1>6
  <1>8. ASSUME NEW n \in Nat, n \in S PROVE n + 1 \in S
    <2> SUFFICES ASSUME n + 1 <= N PROVE w[n + 1] = SetTo(a, y, b, n + 1)
      OBVIOUS
    <2>1. n + 1 \in 0..N /\ n + 1 # 0 /\ (n + 1) - 1 = n /\ n <= N
      BY <1>0
    <2>2. w[n] = SetTo(a, y, b, n)
      BY <1>8, <2>1
    <2>3. w[n + 1] = AnchorStep(a, y, w[n], n + 1)
      BY <1>6, <2>1
    <2> QED BY <2>2, <2>3, SetNext
  <1> HIDE DEF S
  <1>9. N \in S
    BY <1>0, <1>7, <1>8, SetInduction
  <1> QED BY <1>0, <1>5, <1>9 DEF S, N

\* A plane's pointers, from line to line.
PointerStep(l, p, y, b) ==
  IF C!SetFor(l, p, y) # {} THEN C!Value(l, p, C!Max(C!SetFor(l, p, y)))
  ELSE IF y = 0 THEN 0 ELSE C!Fetched(C!LineAt(l, y - 1), p, b)
PointedTo(l, p, n, g) == g = [y \in 0..n |-> g[y]] /\ \A y \in 0..n : g[y] = PointerStep(l, p, y, g[y - 1])

LEMMA PointersExist == ASSUME NEW l, NEW p PROVE \A n \in Nat : \E g : PointedTo(l, p, n, g)
  <1> DEFINE S == {n \in Nat : \E g : PointedTo(l, p, n, g)}
  <1>0. \A b, c : PointerStep(l, p, 0, b) = PointerStep(l, p, 0, c)
    BY DEF PointerStep
  <1>1. 0 \in S
    <2> DEFINE g == [y \in 0..0 |-> PointerStep(l, p, 0, 0)]
    <2>1. g[0] = PointerStep(l, p, 0, g[0 - 1])
      BY <1>0
    <2>2. \A y \in 0..0 : g[y] = PointerStep(l, p, y, g[y - 1])
      BY <2>1
    <2>3. g = [y \in 0..0 |-> g[y]]
      OBVIOUS
    <2> HIDE DEF g
    <2>4. PointedTo(l, p, 0, g)
      BY <2>2, <2>3 DEF PointedTo
    <2> QED BY <2>4
  <1>2. ASSUME NEW n \in Nat, n \in S PROVE n + 1 \in S
    <2>1. PICK g : PointedTo(l, p, n, g)
      BY <1>2
    <2> DEFINE e == PointerStep(l, p, n + 1, g[n])
               h == [y \in 0..n + 1 |-> IF y = n + 1 THEN e ELSE g[y]]
    <2> HIDE DEF e
    <2>2. h[n + 1] = e /\ h[n] = g[n]
      OBVIOUS
    <2>3. ASSUME NEW y \in 0..n + 1 PROVE h[y] = PointerStep(l, p, y, h[y - 1])
      <3>1. CASE y = n + 1
        <4>1. y - 1 = n
          BY <3>1
        <4> QED BY <2>2, <3>1, <4>1 DEF e
      <3>2. CASE y # n + 1 /\ y # 0
        <4>1. y \in 0..n /\ y - 1 \in 0..n + 1 /\ y - 1 # n + 1
          BY <3>2
        <4>2. h[y] = g[y] /\ h[y - 1] = g[y - 1]
          BY <3>2, <4>1
        <4> QED BY <2>1, <4>1, <4>2 DEF PointedTo
      <3>3. CASE y = 0
        <4>1. h[0] = g[0] /\ 0 \in 0..n
          OBVIOUS
        <4>2. g[0] = PointerStep(l, p, 0, g[0 - 1])
          BY <2>1, <4>1 DEF PointedTo
        <4> HIDE DEF h
        <4> QED BY <1>0, <3>3, <4>1, <4>2
      <3> QED BY <3>1, <3>2, <3>3
    <2>4. h = [y \in 0..n + 1 |-> h[y]]
      OBVIOUS
    <2> HIDE DEF h
    <2>5. PointedTo(l, p, n + 1, h)
      BY <2>3, <2>4 DEF PointedTo
    <2> QED BY <2>5
  <1> HIDE DEF S
  <1>3. Nat \subseteq S
    BY <1>1, <1>2, SetInduction
  <1> QED BY <1>3 DEF S

\* A plane's pointers are one sequence of lines, each made of the one before.
LEMMA PointerIs ==
  ASSUME NEW l, NEW p
  PROVE  \A y \in C!Lines : C!PointerOf(l, p)[y] = PointerStep(l, p, y, C!PointerOf(l, p)[y - 1])
  <1> DEFINE Fs(f) == f = [y \in C!Lines |-> PointerStep(l, p, y, f[y - 1])]
             w == CHOOSE f : Fs(f)
  <1>1. CopperH - 1 \in Nat /\ C!Lines = 0..CopperH - 1
    BY CopperGiven DEF C!Lines
  <1>2. PICK g : PointedTo(l, p, CopperH - 1, g)
    BY <1>1, PointersExist
  <1>3. Fs(g)
    BY <1>1, <1>2 DEF PointedTo
  <1>4. Fs(w)
    BY <1>3
  <1>5. C!PointerOf(l, p) = w
    BY DEF C!PointerOf, PointerStep
  <1> HIDE DEF w
  <1> QED BY <1>4, <1>5

\* Where the planes are read from at a line, and before it.
PointersAt(l, y)     == [p \in C!Planes |-> C!PointerOf(l, p)[y]]
PointersBefore(l, y) == [p \in C!Planes |-> IF y = 0 THEN 0 ELSE C!Fetched(C!LineAt(l, y - 1), p, C!PointerOf(l, p)[y - 1])]

\* A line's anchors give the planes the pointers the reference has.
LEMMA LineAnchored ==
  ASSUME NEW l, C!Sane(l), NEW y \in C!Lines
  PROVE  C!Anchored(C!Walk(l).anchors, y, PointersBefore(l, y)) = PointersAt(l, y)
  <1> DEFINE a == C!Walk(l).anchors
             b == PointersBefore(l, y)
  <1>1. a \in Seq(Anchors(l)) /\ \A p \in C!Planes : Answers(l, a, p, y, C!SetFor(l, p, y))
    BY WalkIs
  <1> HIDE DEF a
  <1>2. Len(a) \in Nat
    BY <1>1
  <1>3. b = [p \in C!Planes |-> b[p]]
    BY DEF PointersBefore
  <1>4. C!Anchored(a, y, b) = SetTo(a, y, b, Len(a))
    BY <1>2, <1>3, AnchoredIs
  <1>5. ASSUME NEW p \in C!Planes PROVE SetTo(a, y, b, Len(a))[p] = C!PointerOf(l, p)[y]
    <2>1. OnLineTo(a, p, y, Len(a)) = OnLine(a, p, y)
      BY DEF OnLineTo, OnLine
    <2>2. SetTo(a, y, b, Len(a))[p] = IF OnLine(a, p, y) = {} THEN b[p] ELSE a[C!Max(OnLine(a, p, y))].at[p]
      BY <2>1 DEF SetTo
    <2>3. C!PointerOf(l, p)[y] = PointerStep(l, p, y, C!PointerOf(l, p)[y - 1])
      BY PointerIs
    <2>4. /\ OnLine(a, p, y) = {} <=> C!SetFor(l, p, y) = {}
          /\ C!SetFor(l, p, y) # {} => a[C!Max(OnLine(a, p, y))].at[p] = C!Value(l, p, C!Max(C!SetFor(l, p, y)))
      BY <1>1 DEF Answers
    <2>5. b[p] = IF y = 0 THEN 0 ELSE C!Fetched(C!LineAt(l, y - 1), p, C!PointerOf(l, p)[y - 1])
      BY DEF PointersBefore
    <2> HIDE DEF b
    <2> QED BY <2>2, <2>3, <2>4, <2>5 DEF PointerStep
  <1>6. SetTo(a, y, b, Len(a)) = [p \in C!Planes |-> SetTo(a, y, b, Len(a))[p]]
    BY DEF SetTo
  <1>7. SetTo(a, y, b, Len(a)) = PointersAt(l, y)
    BY <1>5, <1>6 DEF PointersAt
  <1> QED BY <1>4, <1>7 DEF a

\* What is drawn of chip memory is what the chips would show of it.
LEMMA DrawnIs ==
  ASSUME NEW c, C!Sane(c.list)
  PROVE  /\ DOMAIN C!Drawn(c) = C!Lines
         /\ \A y \in C!Lines : C!Drawn(c)[y] = C!Row(C!LineAt(c.list, y), c.bits, PointersAt(c.list, y))
  <1> DEFINE l == c.list
             k == C!Walk(l)
             Step(y, b) == C!Advanced(k.scan[y - 1], C!Anchored(k.anchors, y - 1, b))
             Zero == [p \in C!Planes |-> 0]
             Fs(f) == f = [y \in 0..CopperH |-> IF y = 0 THEN Zero ELSE Step(y, f[y - 1])]
             g == [y \in 0..CopperH |-> PointersBefore(l, y)]
             w == CHOOSE f : Fs(f)
  <1>0. CopperH \in Nat /\ C!Lines = 0..CopperH - 1
    BY CopperGiven DEF C!Lines
  <1>1. PointersBefore(l, 0) = Zero
    BY DEF PointersBefore
  <1>2. ASSUME NEW y \in 0..CopperH, y # 0 PROVE y - 1 \in C!Lines /\ PointersBefore(l, y) = Step(y, PointersBefore(l, y - 1))
    <2>1. y - 1 \in C!Lines
      BY <1>0, <1>2
    <2>2. k.scan[y - 1] = C!LineAt(l, y - 1)
      BY <2>1, WalkIs
    <2>3. C!Anchored(k.anchors, y - 1, PointersBefore(l, y - 1)) = PointersAt(l, y - 1)
      BY <2>1, LineAnchored
    <2> HIDE DEF l, k
    <2>4. Step(y, PointersBefore(l, y - 1)) = C!Advanced(C!LineAt(l, y - 1), PointersAt(l, y - 1))
      BY <2>2, <2>3
    <2>5. C!Advanced(C!LineAt(l, y - 1), PointersAt(l, y - 1)) = [p \in C!Planes |-> C!Fetched(C!LineAt(l, y - 1), p, C!PointerOf(l, p)[y - 1])]
      BY DEF C!Advanced, PointersAt
    <2>6. PointersBefore(l, y) = [p \in C!Planes |-> C!Fetched(C!LineAt(l, y - 1), p, C!PointerOf(l, p)[y - 1])]
      BY <1>2 DEF PointersBefore
    <2> QED BY <2>1, <2>4, <2>5, <2>6
  <1>3. Fs(g)
    <2>1. \A y \in 0..CopperH : g[y] = IF y = 0 THEN Zero ELSE Step(y, g[y - 1])
      <3> SUFFICES ASSUME NEW y \in 0..CopperH PROVE g[y] = IF y = 0 THEN Zero ELSE Step(y, g[y - 1])
        OBVIOUS
      <3>1. g[y] = PointersBefore(l, y)
        OBVIOUS
      <3>2. CASE y = 0
        BY <1>1, <3>1, <3>2
      <3>3. CASE y # 0
        <4>1. y - 1 \in 0..CopperH
          BY <1>0, <3>3
        <4>2. g[y - 1] = PointersBefore(l, y - 1)
          BY <4>1
        <4> HIDE DEF g, l, k
        <4>3. PointersBefore(l, y) = Step(y, PointersBefore(l, y - 1))
          BY <1>2, <3>3
        <4> HIDE DEF Step
        <4> QED BY <3>1, <3>3, <4>2, <4>3
      <3> QED BY <3>2, <3>3
    <2>2. g = [y \in 0..CopperH |-> g[y]]
      OBVIOUS
    <2> HIDE DEF g, Step
    <2> QED BY <2>1, <2>2
  <1>4. Fs(w)
    BY <1>3
  <1>5. C!Drawn(c) = [y \in C!Lines |-> C!Row(k.scan[y], c.bits, C!Anchored(k.anchors, y, w[y]))]
    BY DEF C!Drawn
  <1> HIDE DEF w, Step, Zero
  <1>6. \A y \in 0..CopperH : w[y] = IF y = 0 THEN Zero ELSE Step(y, w[y - 1])
    BY <1>4
  <1> DEFINE S == {n \in Nat : n <= CopperH => w[n] = PointersBefore(l, n)}
  <1>7. 0 \in S
    BY <1>0, <1>1, <1>6
  <1>8. ASSUME NEW n \in Nat, n \in S PROVE n + 1 \in S
    <2> SUFFICES ASSUME n + 1 <= CopperH PROVE w[n + 1] = PointersBefore(l, n + 1)
      OBVIOUS
    <2>1. n + 1 \in 0..CopperH /\ n + 1 # 0 /\ (n + 1) - 1 = n /\ n <= CopperH
      BY <1>0
    <2>2. w[n] = PointersBefore(l, n)
      BY <1>8, <2>1
    <2>3. w[n + 1] = Step(n + 1, w[n])
      BY <1>6, <2>1
    <2> HIDE DEF l
    <2>4. PointersBefore(l, n + 1) = Step(n + 1, PointersBefore(l, n))
      BY <1>2, <2>1
    <2> QED BY <2>2, <2>3, <2>4
  <1> HIDE DEF S
  <1>9. \A y \in C!Lines : w[y] = PointersBefore(l, y)
    <2>1. Nat \subseteq S
      BY <1>7, <1>8, SetInduction
    <2>2. \A y \in C!Lines : y \in Nat /\ y <= CopperH
      BY <1>0
    <2> QED BY <2>1, <2>2 DEF S
  <1>10. ASSUME NEW y \in C!Lines
         PROVE  C!Drawn(c)[y] = C!Row(C!LineAt(l, y), c.bits, PointersAt(l, y))
    <2>1. C!Drawn(c)[y] = C!Row(k.scan[y], c.bits, C!Anchored(k.anchors, y, w[y]))
      BY <1>5
    <2>2. k.scan[y] = C!LineAt(l, y)
      BY WalkIs
    <2>3. C!Anchored(k.anchors, y, w[y]) = PointersAt(l, y)
      BY <1>9, LineAnchored
    <2> QED BY <2>1, <2>2, <2>3
  <1>11. DOMAIN C!Drawn(c) = C!Lines
    BY <1>5
  <1> QED BY <1>10, <1>11

-----------------------------------------------------------------------------
(* The frames. *)

\* So many frames back in the ring, and in the past.
Slot(n, d) == (n - d + Ring) % Ring
RingKeeps(r, n, m, b) == \A d \in 1..m : r[Slot(n, d)] = b[Len(b) - d + 1]
Least2(x, y) == IF x <= y THEN x ELSE y
RingTurned(r, n, m, b, c) ==
  /\ RingKeeps([r EXCEPT ![n] = c], (n + 1) % Ring, Least2(m + 1, Ring), Append(b, c))
  /\ Least2(m + 1, Ring) = Least2(Len(b) + 1, Ring)

\* The memory the frame drawn last was drawn from.
DrawnFrom == IF delay > 0 /\ Len(past) > C!Depth THEN past[Len(past) - C!Depth] ELSE past[Len(past)]

CopperTypes == /\ chip \in Chips /\ ring \in [0..Ring - 1 -> Chips] /\ widx \in 0..Ring - 1 /\ count \in 0..Ring
               /\ delay \in Nat /\ past \in Seq(Chips) /\ DOMAIN pic = C!Lines
               /\ cop1lc \in Places /\ curCop1lc \in Places
RingInv == delay > 0 => count = Least2(Len(past), Ring) /\ RingKeeps(ring, widx, count, past)
PicInv  == past # <<>> => pic = C!Drawn(C!Read(DrawnFrom, curCop1lc))
CopperInv == CopperTypes /\ RingInv /\ PicInv

\* The ring's slots, without the remainder.
LEMMA SlotIs ==
  ASSUME NEW n \in 0..Ring - 1
  PROVE  /\ \A d \in 1..Ring : Slot(n, d) = (IF n >= d THEN n - d ELSE n - d + Ring) /\ Slot(n, d) \in 0..Ring - 1
         /\ ((n + 1) % Ring) = (IF n + 1 = Ring THEN 0 ELSE n + 1) /\ ((n + 1) % Ring) \in 0..Ring - 1
  <1>1. Ring \in Nat /\ Ring >= 2
    BY CopperGiven
  <1>2. \A a \in 0..Ring - 1 : (a % Ring) = a
    BY <1>1
  <1>3. \A a \in 0..Ring - 1 : ((a + Ring) % Ring) = a
    BY <1>1
  <1>4. ASSUME NEW d \in 1..Ring PROVE Slot(n, d) = (IF n >= d THEN n - d ELSE n - d + Ring) /\ Slot(n, d) \in 0..Ring - 1
    <2>1. CASE n >= d
      <3>1. n - d \in 0..Ring - 1
        BY <1>1, <2>1
      <3>2. ((n - d + Ring) % Ring) = n - d
        BY <1>3, <3>1
      <3> QED BY <2>1, <3>1, <3>2 DEF Slot
    <2>2. CASE ~(n >= d)
      <3>1. n - d + Ring \in 0..Ring - 1
        BY <1>1, <2>2
      <3>2. ((n - d + Ring) % Ring) = n - d + Ring
        BY <1>2, <3>1
      <3> QED BY <2>2, <3>1, <3>2 DEF Slot
    <2> QED BY <2>1, <2>2
  <1>5. ((n + 1) % Ring) = (IF n + 1 = Ring THEN 0 ELSE n + 1) /\ ((n + 1) % Ring) \in 0..Ring - 1
    <2>1. CASE n + 1 = Ring
      <3>1. ((0 + Ring) % Ring) = 0 /\ 0 \in 0..Ring - 1
        BY <1>1, <1>3
      <3>2. 0 + Ring = n + 1
        BY <1>1, <2>1
      <3> QED BY <2>1, <3>1, <3>2
    <2>2. CASE n + 1 # Ring
      <3>1. n + 1 \in 0..Ring - 1
        BY <1>1, <2>2
      <3> QED BY <1>2, <2>2, <3>1
    <2> QED BY <2>1, <2>2
  <1> QED BY <1>4, <1>5

\* At the start there is no past frame.
LEMMA CopperStarts == ASSUME C!Init, chip \in Chips, cop1lc \in Places PROVE CopperInv
  <1>1. Delays \subseteq Nat /\ Ring \in Nat /\ Ring >= 2
    BY CopperGiven
  <1>2. /\ ring = [n \in 0..Ring - 1 |-> chip] /\ widx = 0 /\ count = 0 /\ delay \in Delays /\ pic = C!NoPic /\ past = <<>>
    BY DEF C!Init
  <1>3. CopperTypes
    BY <1>1, <1>2 DEF CopperTypes, C!NoPic, C!Init
  <1>4. RingInv
    <2>1. Len(past) = 0 /\ Least2(0, Ring) = 0
      BY <1>1, <1>2 DEF Least2
    <2> QED BY <1>2, <2>1 DEF RingInv, RingKeeps
  <1>5. PicInv
    BY <1>2 DEF PicInv
  <1> QED BY <1>3, <1>4, <1>5 DEF CopperInv

\* The delay asked for, as far as the ring goes back.
LEMMA DepthIs ==
  ASSUME delay \in Nat
  PROVE  C!Depth = Least2(delay, Ring - 1) /\ C!Depth \in Nat /\ C!Depth < Ring /\ (delay > 0 => C!Depth >= 1)
  <1>1. Ring \in Nat /\ Ring >= 2 /\ Ring - 1 \in Int
    BY CopperGiven
  <1>2. C!Depth = Least2(delay, Ring - 1)
    BY <1>1, PairMin DEF C!Depth, Least2
  <1> QED BY <1>1, <1>2 DEF Least2

\* The ring after a frame: the memory it found is one frame back, and what was d back is d + 1 back.
LEMMA RingTurns ==
  ASSUME NEW r \in [0..Ring - 1 -> Chips], NEW n \in 0..Ring - 1, NEW m \in 0..Ring, NEW b \in Seq(Chips), NEW c \in Chips,
         RingKeeps(r, n, m, b), m = Least2(Len(b), Ring)
  PROVE  RingTurned(r, n, m, b, c)
  <1>1. Ring \in Nat /\ Ring >= 2 /\ Len(b) \in Nat /\ m \in Nat
    BY CopperGiven
  <1>2. Least2(m + 1, Ring) = Least2(Len(b) + 1, Ring)
    BY <1>1 DEF Least2
  <1> DEFINE n2 == (n + 1) % Ring
             b2 == Append(b, c)
             r2 == [r EXCEPT ![n] = c]
  <1>3. n2 = (IF n + 1 = Ring THEN 0 ELSE n + 1) /\ n2 \in 0..Ring - 1
    BY SlotIs
  <1>4. Len(b2) = Len(b) + 1 /\ b2[Len(b) + 1] = c /\ \A k \in 1..Len(b) : b2[k] = b[k]
    BY <1>1
  <1> HIDE DEF n2, b2
  <1>5. ASSUME NEW d \in 1..Least2(m + 1, Ring) PROVE r2[Slot(n2, d)] = b2[Len(b2) - d + 1]
    <2>1. d \in Nat /\ d >= 1 /\ d <= Ring /\ d <= m + 1
      BY <1>1 DEF Least2
    <2>2. Slot(n2, d) = (IF n2 >= d THEN n2 - d ELSE n2 - d + Ring)
      <3>1. n2 \in 0..Ring - 1
        BY <1>3
      <3>2. \A e \in 1..Ring : Slot(n2, e) = (IF n2 >= e THEN n2 - e ELSE n2 - e + Ring)
        BY <3>1, SlotIs
      <3>3. d \in 1..Ring
        BY <1>1, <2>1
      <3> QED BY <3>2, <3>3
    <2>3. CASE d = 1
      <3>1. Slot(n2, d) = n
        BY <1>1, <1>3, <2>2, <2>3
      <3>2. Len(b2) - d + 1 = Len(b) + 1
        BY <1>1, <1>4, <2>3
      <3> QED BY <1>4, <3>1, <3>2
    <2>4. CASE d # 1
      <3>1. d - 1 \in 1..m /\ d - 1 \in 1..Ring /\ d - 1 < Ring /\ m <= Len(b)
        BY <1>1, <2>1, <2>4 DEF Least2
      <3>2. Slot(n, d - 1) = (IF n >= d - 1 THEN n - (d - 1) ELSE n - (d - 1) + Ring) /\ Slot(n, d - 1) \in 0..Ring - 1
        BY <3>1, SlotIs
      <3>3. Slot(n2, d) = Slot(n, d - 1) /\ Slot(n, d - 1) # n
        <4>1. CASE n + 1 = Ring
          <5>1. Slot(n2, d) = 0 - d + Ring
            BY <1>1, <1>3, <2>1, <2>2, <4>1
          <5> QED BY <1>1, <2>1, <2>4, <3>1, <3>2, <4>1, <5>1
        <4>2. CASE n + 1 # Ring
          BY <1>1, <1>3, <2>1, <2>2, <2>4, <3>1, <3>2, <4>2
        <4> QED BY <4>1, <4>2
      <3>4. r[Slot(n, d - 1)] = b[Len(b) - (d - 1) + 1]
        BY <3>1 DEF RingKeeps
      <3>5. Len(b) - (d - 1) + 1 \in 1..Len(b) /\ Len(b2) - d + 1 = Len(b) - (d - 1) + 1
        BY <1>1, <1>4, <2>1, <2>4, <3>1
      <3>6. b2[Len(b2) - d + 1] = b[Len(b) - (d - 1) + 1]
        BY <1>4, <3>5
      <3>7. r2[Slot(n, d - 1)] = r[Slot(n, d - 1)]
        BY <3>2, <3>3
      <3> QED BY <3>3, <3>4, <3>6, <3>7
    <2> QED BY <2>3, <2>4
  <1> HIDE DEF r2
  <1>6. RingKeeps(r2, n2, Least2(m + 1, Ring), b2)
    BY <1>5 DEF RingKeeps
  <1> QED BY <1>2, <1>6 DEF r2, n2, b2, RingTurned

\* A frame is drawn from the memory that many frames back, or the present one.
LEMMA FrameKeeps == ASSUME CopperInv, C!RenderFrame PROVE CopperInv'
  <1>1. CopperTypes /\ RingInv /\ PicInv
    BY DEF CopperInv
  <1>2. /\ chip \in Chips /\ ring \in [0..Ring - 1 -> Chips] /\ widx \in 0..Ring - 1 /\ count \in 0..Ring /\ delay \in Nat /\ past \in Seq(Chips)
        /\ Len(past) \in Nat /\ Ring \in Nat /\ Ring >= 2 /\ cop1lc \in Places
    BY <1>1, CopperGiven DEF CopperTypes
  <1>3. /\ pic' = C!Drawn(C!Read(C!Source, cop1lc)) /\ cop1lc' = cop1lc /\ curCop1lc' = cop1lc /\ past' = Append(past, chip) /\ chip' = chip /\ delay' = delay
        /\ delay > 0 => ring' = [ring EXCEPT ![widx] = chip] /\ widx' = ((widx + 1) % Ring) /\ count' = C!Min({count + 1, Ring})
        /\ ~(delay > 0) => ring' = ring /\ widx' = widx /\ count' = count
    BY DEF C!RenderFrame
  <1>4. C!Min({count + 1, Ring}) = Least2(count + 1, Ring)
    <2>1. count + 1 \in Int
      BY <1>2
    <2> QED BY <1>2, <2>1, PairMin DEF Least2
  <1>5. past' \in Seq(Chips) /\ Len(past') = Len(past) + 1 /\ past'[Len(past) + 1] = chip /\ \A k \in 1..Len(past) : past'[k] = past[k]
    BY <1>2, <1>3
  <1>6. C!Depth' = C!Depth /\ C!Depth \in Nat /\ C!Depth < Ring /\ (delay > 0 => C!Depth >= 1)
    BY <1>2, <1>3, DepthIs DEF C!Depth
  <1>7. C!Source = IF delay > 0 /\ Len(past) >= C!Depth THEN past'[Len(past) + 1 - C!Depth] ELSE past'[Len(past) + 1]
    <2>1. CASE ~(delay > 0)
      BY <1>5, <2>1 DEF C!Source
    <2>2. CASE delay > 0
      <3>1. count = Least2(Len(past), Ring) /\ RingKeeps(ring, widx, count, past)
        BY <1>1, <2>2 DEF RingInv
      <3>2. count >= C!Depth <=> Len(past) >= C!Depth
        BY <1>2, <1>6, <3>1 DEF Least2
      <3>3. CASE Len(past) >= C!Depth
        <4>1. C!Depth \in 1..count /\ Len(past) - C!Depth + 1 \in 1..Len(past) /\ Len(past) - C!Depth + 1 = Len(past) + 1 - C!Depth
          BY <1>2, <1>6, <2>2, <3>1, <3>3 DEF Least2
        <4>2. C!DelayedSlot = past[Len(past) - C!Depth + 1]
          BY <3>1, <4>1 DEF C!DelayedSlot, RingKeeps, Slot
        <4>3. C!Source = C!DelayedSlot
          BY <2>2, <3>2, <3>3 DEF C!Source
        <4> QED BY <1>5, <2>2, <3>3, <4>1, <4>2, <4>3
      <3>4. CASE ~(Len(past) >= C!Depth)
        BY <1>5, <2>2, <3>2, <3>4 DEF C!Source
      <3> QED BY <3>3, <3>4
    <2> QED BY <2>1, <2>2
  <1>8. C!Source \in Chips
    <2>1. Len(past) >= C!Depth /\ delay > 0 => Len(past) + 1 - C!Depth \in 1..Len(past')
      BY <1>2, <1>5, <1>6
    <2>2. Len(past) + 1 \in 1..Len(past')
      BY <1>2, <1>5
    <2>3. \A k \in 1..Len(past') : past'[k] \in Chips
      BY <1>5
    <2> QED BY <1>7, <2>1, <2>2, <2>3
  <1>9. CopperTypes'
    <2>1. DOMAIN pic' = C!Lines
      <3>1. PICK r : r = C!Read(C!Source, cop1lc)
        OBVIOUS
      <3>2. C!Sane(r.list)
        BY <1>2, <1>8, <3>1, CopperGiven DEF C!Read
      <3> QED BY <1>3, <3>1, <3>2, DrawnIs
    <2>2. ring' \in [0..Ring - 1 -> Chips] /\ widx' \in 0..Ring - 1 /\ count' \in 0..Ring
      <3>1. ((widx + 1) % Ring) \in 0..Ring - 1
        BY <1>2, SlotIs
      <3>2. Least2(count + 1, Ring) \in 0..Ring
        BY <1>2 DEF Least2
      <3>3. [ring EXCEPT ![widx] = chip] \in [0..Ring - 1 -> Chips]
        BY <1>2
      <3> QED BY <1>2, <1>3, <1>4, <3>1, <3>2, <3>3
    <2> QED BY <1>2, <1>3, <1>5, <2>1, <2>2 DEF CopperTypes
  <1>10. RingInv'
    <2> SUFFICES ASSUME delay > 0 PROVE count' = Least2(Len(past'), Ring) /\ RingKeeps(ring', widx', count', past')
      BY <1>3 DEF RingInv
    <2>1. count = Least2(Len(past), Ring) /\ RingKeeps(ring, widx, count, past)
      BY <1>1 DEF RingInv
    <2>2. RingKeeps(ring, widx, count, past) /\ count = Least2(Len(past), Ring)
      BY <2>1
    <2>3. RingTurned(ring, widx, count, past, chip)
      BY <1>2, <2>2, RingTurns
    <2>4. Len(past') = Len(past) + 1 /\ past' = Append(past, chip)
      BY <1>3, <1>5
    <2>5. ring' = [ring EXCEPT ![widx] = chip] /\ widx' = ((widx + 1) % Ring) /\ count' = Least2(count + 1, Ring)
      BY <1>3, <1>4
    <2> QED BY <2>3, <2>4, <2>5 DEF RingTurned
  <1>11. PicInv'
    <2>1. DrawnFrom' = IF delay > 0 /\ Len(past) + 1 > C!Depth THEN past'[Len(past) + 1 - C!Depth] ELSE past'[Len(past) + 1]
      BY <1>3, <1>5, <1>6 DEF DrawnFrom
    <2>2. Len(past) + 1 > C!Depth <=> Len(past) >= C!Depth
      BY <1>2, <1>6
    <2>3. DrawnFrom' = C!Source
      BY <1>7, <2>1, <2>2
    <2> QED BY <1>3, <2>3 DEF PicInv
  <1> QED BY <1>9, <1>10, <1>11 DEF CopperInv

\* Every step of the bench keeps the invariant.
LEMMA CopperKeeps == ASSUME CopperInv, C!Next \/ UNCHANGED copper PROVE CopperInv'
  <1>1. CASE C!RenderFrame
    BY <1>1, FrameKeeps
  <1>2. CASE C!GuestWrites \/ UNCHANGED copper
    <2>1. chip' \in Chips /\ cop1lc' \in Places /\ UNCHANGED <<curCop1lc, ring, widx, count, delay, pic, past>>
      BY <1>2, CopperGiven DEF C!GuestWrites, copper, CopperInv, CopperTypes
    <2>2. CopperTypes' /\ RingInv'
      BY <2>1 DEF CopperInv, CopperTypes, RingInv
    <2>3. DrawnFrom' = DrawnFrom
      BY <2>1 DEF DrawnFrom, C!Depth
    <2>4. PicInv'
      BY <2>1, <2>3 DEF CopperInv, PicInv
    <2> QED BY <2>2, <2>4 DEF CopperInv
  <1> QED BY <1>1, <1>2 DEF C!Next

\* And the invariant is what the property says.
LEMMA CopperIsSound == ASSUME CopperInv PROVE CopperOK
  <1>1. CopperTypes /\ PicInv
    BY DEF CopperInv
  <1>2. C!TypeOK
    BY <1>1 DEF CopperTypes, C!TypeOK
  <1>3. C!PictureIsBeams
    <2>0. PICK r : r = C!Read(DrawnFrom, curCop1lc)
      OBVIOUS
    <2> SUFFICES ASSUME past # <<>>, NEW y \in C!Lines
                 PROVE  pic[y] = C!Row(C!LineAt(r.list, y), r.bits, PointersAt(r.list, y))
      BY <2>0 DEF C!PictureIsBeams, DrawnFrom, PointersAt
    <2>1. DrawnFrom \in Chips
      <3>1. past \in Seq(Chips) /\ Len(past) \in Nat /\ Len(past) >= 1 /\ delay \in Nat
        BY <1>1 DEF CopperTypes
      <3>2. C!Depth \in Nat /\ (delay > 0 => C!Depth >= 1)
        BY <3>1, DepthIs
      <3>3. Len(past) \in 1..Len(past) /\ (Len(past) > C!Depth => Len(past) - C!Depth \in 1..Len(past))
        BY <3>1, <3>2
      <3>4. \A k \in 1..Len(past) : past[k] \in Chips
        BY <3>1
      <3> QED BY <3>3, <3>4 DEF DrawnFrom
    <2>2. C!Sane(r.list)
      BY <1>1, <2>0, <2>1, CopperGiven DEF C!Read, CopperTypes
    <2>3. pic = C!Drawn(r)
      BY <1>1, <2>0 DEF PicInv
    <2> QED BY <2>2, <2>3, DrawnIs
  <1> QED BY <1>2, <1>3 DEF CopperOK, C!CopperOK
-----------------------------------------------------------------------------
(* The greatest, the least, and recursion over numbers. *)

\* The greatest of a bounded set, and the least of a set of naturals.
LEMMA MaxOf ==
  ASSUME NEW T, NEW n \in Nat, T \subseteq 1..n, T # {}
  PROVE  Max(T) \in T /\ \A y \in T : y <= Max(T)
  <1>1. Max(T) = C!Max(T)
    BY DEF Max, C!Max
  <1> QED BY <1>1, Greatest

LEMMA MinOf ==
  ASSUME NEW T, T \subseteq Nat, T # {}
  PROVE  Min(T) \in T /\ \A y \in T : Min(T) <= y
  <1>1. PICK a \in T : \A y \in T : a <= y
    BY Least
  <1> QED BY <1>1 DEF Min

LEMMA MaxIsIt ==
  ASSUME NEW T, NEW a \in T, T \subseteq Int, \A y \in T : y <= a
  PROVE  Max(T) = a
  <1>1. Max(T) = C!Max(T)
    BY DEF Max, C!Max
  <1> QED BY <1>1, MaxIs

LEMMA MaxOfTwo == ASSUME NEW x \in Int, NEW y \in Int PROVE Max({x, y}) = IF x >= y THEN x ELSE y
  BY DEF Max

LEMMA MinOfTwo == ASSUME NEW x \in Int, NEW y \in Int PROVE Min({x, y}) = IF x <= y THEN x ELSE y
  BY DEF Min

\* A recursion over the numbers up to n, of values of one kind.
Iterates(g, n, U, b, R) == g \in [0..n -> U] /\ g[0] = b /\ \A k \in 1..n : g[k] = R[k][g[k - 1]]

LEMMA Iterated ==
  ASSUME NEW n \in Nat, NEW U, NEW b \in U, NEW R \in [1..n -> [U -> U]]
  PROVE  \E g : Iterates(g, n, U, b, R)
  <1> DEFINE S == {m \in Nat : m <= n => \E g : Iterates(g, m, U, b, R)}
  <1>1. 0 \in S
    <2> DEFINE h == [k \in 0..0 |-> b]
    <2>1. h \in [0..0 -> U] /\ h[0] = b
      OBVIOUS
    <2>2. Iterates(h, 0, U, b, R)
      BY <2>1 DEF Iterates
    <2> QED BY <2>2
  <1>2. ASSUME NEW m \in Nat, m \in S PROVE m + 1 \in S
    <2> SUFFICES ASSUME m + 1 <= n PROVE \E g : Iterates(g, m + 1, U, b, R)
      OBVIOUS
    <2>1. PICK g : Iterates(g, m, U, b, R)
      BY <1>2
    <2>2. g \in [0..m -> U] /\ g[m] \in U /\ m + 1 \in 1..n
      BY <2>1 DEF Iterates
    <2> DEFINE e == R[m + 1][g[m]]
               h == [k \in 0..m + 1 |-> IF k = m + 1 THEN e ELSE g[k]]
    <2>3. e \in U
      <3>1. R[m + 1] \in [U -> U]
        BY <2>2
      <3> QED BY <2>2, <3>1
    <2>4. h[m + 1] = e /\ h[m] = g[m] /\ h[0] = g[0]
      OBVIOUS
    <2>5. h \in [0..m + 1 -> U]
      <3>1. ASSUME NEW k \in 0..m + 1 PROVE (IF k = m + 1 THEN e ELSE g[k]) \in U
        <4> HIDE DEF e
        <4>1. CASE k = m + 1
          BY <2>3, <4>1
        <4>2. CASE k # m + 1
          <5>1. k \in 0..m
            BY <4>2
          <5> QED BY <2>2, <4>2, <5>1
        <4> QED BY <4>1, <4>2
      <3> HIDE DEF e
      <3> QED BY <3>1
    <2>6. ASSUME NEW k \in 1..m + 1 PROVE h[k] = R[k][h[k - 1]]
      <3>1. CASE k = m + 1
        BY <2>4, <3>1
      <3>2. CASE k # m + 1
        <4>1. k \in 1..m /\ k - 1 \in 0..m /\ k \in 0..m + 1 /\ k - 1 \in 0..m + 1 /\ k - 1 # m + 1
          BY <3>2
        <4>2. h[k] = g[k] /\ h[k - 1] = g[k - 1]
          BY <3>2, <4>1
        <4> QED BY <2>1, <4>1, <4>2 DEF Iterates
      <3> QED BY <3>1, <3>2
    <2> HIDE DEF e, h
    <2>7. Iterates(h, m + 1, U, b, R)
      BY <2>1, <2>4, <2>5, <2>6 DEF Iterates
    <2> QED BY <2>7
  <1> HIDE DEF S
  <1>3. n \in S
    BY <1>1, <1>2, SetInduction
  <1> QED BY <1>3 DEF S
-----------------------------------------------------------------------------
(* The quads of a frame. *)

Cells(h, w) == (0..h - 1) \X (0..w - 1)
Inks == UNION {[Cells(h, w) -> Int] : h \in Nat, w \in Nat}
QuadRecords == [space : {"world", "screen"}, x : Int, y : Int, w : Nat, h : Nat, ink : Inks, shadow : BOOLEAN]
Quads == {q \in QuadRecords : q.ink \in [Cells(q.h, q.w) -> Int]}

\* A quad is one when its ink is of its size.
LEMMA QuadIs ==
  ASSUME NEW sp \in {"world", "screen"}, NEW x \in Int, NEW y \in Int, NEW w \in Nat, NEW h \in Nat,
         NEW ink \in [Cells(h, w) -> Int], NEW sh \in BOOLEAN
  PROVE  QuadOf(sp, x, y, w, h, ink, sh) \in Quads
  <1>1. ink \in Inks
    <2> DEFINE D == [Cells(h, w) -> Int]
               T == {[Cells(a, b) -> Int] : a \in Nat, b \in Nat}
    <2>1. D \in T /\ ink \in D
      OBVIOUS
    <2> HIDE DEF D, T
    <2>2. ink \in UNION T
      BY <2>1
    <2>3. ink \in UNION {[Cells(a, b) -> Int] : a \in Nat, b \in Nat}
      BY <2>2 DEF T
    <2> QED BY <2>3 DEF Inks
  <1> DEFINE q == QuadOf(sp, x, y, w, h, ink, sh)
  <1>2. q.ink = ink /\ q.h = h /\ q.w = w
    BY DEF QuadOf
  <1>3. (sh /\ sp = "world") \in BOOLEAN
    OBVIOUS
  <1>4. q \in QuadRecords
    <2> HIDE DEF Inks
    <2> QED BY <1>1, <1>3 DEF QuadRecords, QuadOf
  <1> HIDE DEF q
  <1> QED BY <1>2, <1>4 DEF Quads, q

\* What a picture is painted with.
LEMMA InkIs ==
  ASSUME NEW p, IsPicture(p)
  PROVE  /\ p.w \in Nat /\ p.h \in Nat /\ Texels(p) = Cells(p.h, p.w)
         /\ p.ink \in [Cells(p.h, p.w) -> Int] /\ SeeThrough(p) \in [Cells(p.h, p.w) -> Int]
         /\ CookieCut(p) \in [Cells(p.h, p.w) -> Int] /\ Silhouette(p) \in [Cells(p.h, p.w) -> Int]
  <1>1. p.w \in Nat /\ p.h \in Nat /\ Texels(p) = Cells(p.h, p.w) /\ p.ink \in [Texels(p) -> Nat]
    BY DEF IsPicture, Texels, Cells
  <1>2. Clear \in Int /\ \A t \in Texels(p) : p.ink[t] \in Int
    BY <1>1 DEF Clear
  <1> HIDE DEF Clear
  <1>3. /\ p.ink \in [Texels(p) -> Int] /\ SeeThrough(p) \in [Texels(p) -> Int]
        /\ CookieCut(p) \in [Texels(p) -> Int] /\ Silhouette(p) \in [Texels(p) -> Int]
    BY <1>1, <1>2 DEF SeeThrough, CookieCut, Silhouette
  <1> QED BY <1>1, <1>3

LEMMA PictureQuads ==
  ASSUME NEW p, IsPicture(p), NEW x \in Int, NEW y \in Int
  PROVE  /\ World(x, y, p, p.ink) \in Quads /\ World(x, y, p, SeeThrough(p)) \in Quads
         /\ Character(x, y, p, CookieCut(p)) \in Quads /\ Character(x, y, p, Silhouette(p)) \in Quads
         /\ OnScreen(x, y, p, p.ink) \in Quads /\ OnScreen(x, y, p, CookieCut(p)) \in Quads
         /\ \A sh \in BOOLEAN : Static(x, y, p, sh) \in Quads
  <1>1. \A sp \in {"world", "screen"}, sh \in BOOLEAN, ink \in [Cells(p.h, p.w) -> Int] : QuadOf(sp, x, y, p.w, p.h, ink, sh) \in Quads
    BY InkIs, QuadIs
  <1>2. [t \in Texels(p) |-> IF t \in p.mask THEN SeeThrough(p)[t] ELSE Clear] \in [Cells(p.h, p.w) -> Int]
    BY InkIs DEF Clear
  <1> QED BY <1>1, <1>2, InkIs DEF World, Character, OnScreen, Static

\* A list made of another one, item by item.
LEMMA ListIs ==
  ASSUME NEW S, NEW s, s \in Seq(Range(s)), NEW g \in [DOMAIN s -> S]
  PROVE  g \in Seq(S)
  BY Len(s) \in Nat, DOMAIN s = 1..Len(s)

LEMMA FlattenIs == ASSUME NEW S, NEW ss \in Seq(Seq(S)) PROVE FlattenSeq(ss) \in Seq(S)
  <1>1. Len(ss) \in Nat /\ DOMAIN ss = 1..Len(ss) /\ \A k \in 1..Len(ss) : ss[k] \in Seq(S)
    OBVIOUS
  <1>2. CASE Len(ss) = 0
    BY <1>2 DEF FlattenSeq
  <1>3. CASE Len(ss) # 0
    <2> DEFINE n == Len(ss)
               U == Seq(S)
               R == [k \in 1..n |-> [u \in U |-> u \o ss[k]]]
               Fs(f) == f = [i \in 1..n |-> IF i = 1 THEN ss[i] ELSE f[i - 1] \o ss[i]]
               w == CHOOSE f : Fs(f)
    <2>1. R \in [1..n -> [U -> U]]
      <3>1. \A k \in 1..n, u \in U : u \o ss[k] \in U
        BY <1>1
      <3> QED BY <3>1
    <2>2. <<>> \in U
      OBVIOUS
    <2>3. PICK g : Iterates(g, n, U, <<>>, R)
      <3> HIDE DEF U, R
      <3> QED BY <1>1, <2>1, <2>2, Iterated
    <2>4. g \in [0..n -> U] /\ g[0] = <<>> /\ \A k \in 1..n : g[k] = g[k - 1] \o ss[k]
      <3>1. g \in [0..n -> U] /\ g[0] = <<>> /\ \A k \in 1..n : g[k] = R[k][g[k - 1]]
        BY <2>3 DEF Iterates
      <3>2. \A k \in 1..n : k - 1 \in 0..n
        BY <1>1
      <3> QED BY <3>1, <3>2
    <2> DEFINE h == [i \in 1..n |-> g[i]]
    <2>5. Fs(h)
      <3>1. ASSUME NEW i \in 1..n PROVE g[i] = IF i = 1 THEN ss[i] ELSE h[i - 1] \o ss[i]
        <4>1. CASE i = 1
          <5>1. g[0] = <<>> /\ g[1] = g[0] \o ss[1]
            <6>1. 1 \in 1..n /\ 1 - 1 = 0
              BY <4>1
            <6> QED BY <2>4, <6>1
          <5>2. <<>> \o ss[1] = ss[1]
            BY <1>1, <1>3
          <5> QED BY <4>1, <5>1, <5>2
        <4>2. CASE i # 1
          <5>1. i - 1 \in 1..n
            BY <1>1, <4>2
          <5> QED BY <2>4, <4>2, <5>1
        <4> QED BY <4>1, <4>2
      <3> QED BY <3>1
    <2>6. Fs(w)
      BY <2>5
    <2>7. FlattenSeq(ss) = w[n]
      BY <1>3 DEF FlattenSeq
    <2> HIDE DEF w
    <2>8. ASSUME NEW k \in Nat PROVE k \in 1..n => w[k] \in U
      <3> DEFINE T == {i \in Nat : i + 1 \in 1..n => w[i + 1] \in U}
      <3>1. 0 \in T
        <4> SUFFICES ASSUME 0 + 1 \in 1..n PROVE w[0 + 1] \in U
          OBVIOUS
        <4>1. w[1] = ss[1]
          BY <2>6
        <4> QED BY <1>1, <4>1
      <3>2. ASSUME NEW i \in Nat, i \in T PROVE i + 1 \in T
        <4> SUFFICES ASSUME (i + 1) + 1 \in 1..n PROVE w[(i + 1) + 1] \in U
          OBVIOUS
        <4>1. i + 1 \in 1..n /\ (i + 1) + 1 # 1 /\ ((i + 1) + 1) - 1 = i + 1
          BY <1>1
        <4>2. w[i + 1] \in U
          BY <3>2, <4>1
        <4>3. w[(i + 1) + 1] = w[i + 1] \o ss[(i + 1) + 1]
          BY <2>6, <4>1
        <4> QED BY <1>1, <4>2, <4>3
      <3> HIDE DEF T
      <3>3. Nat \subseteq T
        BY <3>1, <3>2, SetInduction
      <3> SUFFICES ASSUME k \in 1..n PROVE w[k] \in U
        OBVIOUS
      <3>4. k - 1 \in Nat /\ (k - 1) + 1 = k
        OBVIOUS
      <3>5. k - 1 \in T
        BY <3>3, <3>4
      <3> QED BY <3>4, <3>5 DEF T
    <2>9. n \in 1..n
      BY <1>1, <1>3
    <2> QED BY <1>1, <2>7, <2>8, <2>9
  <1> QED BY <1>2, <1>3

\* What a frame of the constants is.
LEMMA FrameIs ==
  ASSUME NEW f \in Frames
  PROVE  Whole(f) /\ Tile \in Nat /\ Tile > 0 /\ Screen \in Nat /\ Screen > 0 /\ Display \in Nat /\ H \in Nat /\ H > 0
  BY SceneAssumption, ViewAssumption, SpriteAssumption DEF ViewSizes

LEMMA WaterAndObjects ==
  ASSUME NEW s, Captured(s), NEW top \in Int
  PROVE  /\ WaterQuads(s, top) \in Seq(Quads) /\ ObjectQuads(s, top) \in Seq(Quads) /\ CharQuads(s, top) \in Seq(Quads)
  <1>1. \A i \in DOMAIN s : /\ IsPicture(s[i].pic) /\ s[i].x \in Int /\ top + s[i].y \in Int
    BY DEF Captured
  <1>2. \A i \in DOMAIN s : /\ World(s[i].x, top + s[i].y, s[i].pic, s[i].pic.ink) \in Quads
                            /\ World(s[i].x, top + s[i].y, s[i].pic, SeeThrough(s[i].pic)) \in Quads
                            /\ Character(s[i].x, top + s[i].y, s[i].pic, CookieCut(s[i].pic)) \in Quads
    BY <1>1, PictureQuads
  <1>3. s \in Seq(Range(s))
    BY DEF Captured
  <1>4. /\ WaterQuads(s, top) \in [DOMAIN s -> Quads] /\ ObjectQuads(s, top) \in [DOMAIN s -> Quads] /\ CharQuads(s, top) \in [DOMAIN s -> Quads]
    BY <1>2 DEF WaterQuads, ObjectQuads, CharQuads
  <1> QED BY <1>3, <1>4, ListIs

LEMMA PlayersAre ==
  ASSUME NEW s, Captured(s), \A i \in DOMAIN s : s[i].dx \in Int /\ s[i].dy \in Int, NEW top \in Int, Tile \in Nat, LowestY \in Nat
  PROVE  PlayerQuads(s, top) \in Seq(Quads)
  <1> DEFINE pl(i) == PlayerCaptured(s[i])
  <1>1. Tile \div 2 \in Int
    OBVIOUS
  <1>2. ASSUME NEW i \in DOMAIN s PROVE IsPicture(s[i].pic) /\ pl(i).x \in Int /\ top + pl(i).y \in Int
    <2>1. s[i].x \in Int /\ s[i].y \in Int /\ s[i].dx \in Int /\ s[i].dy \in Int /\ IsPicture(s[i].pic)
      BY DEF Captured
    <2>2. pl(i).x = s[i].x - (Tile \div 2) + (IF s[i].flipped THEN 2 - s[i].dx ELSE s[i].dx)
      BY DEF PlayerCaptured
    <2>3. pl(i).y = Max({0, Min({s[i].y, LowestY + 1}) - (Tile \div 2) + s[i].dy})
      BY DEF PlayerCaptured
    <2>4. Min({s[i].y, LowestY + 1}) \in Int
      BY <2>1, MinOfTwo
    <2>5. Min({s[i].y, LowestY + 1}) - (Tile \div 2) + s[i].dy \in Int
      BY <1>1, <2>1, <2>4
    <2>6. pl(i).y \in Int
      <3>1. \A v \in Int : Max({0, v}) \in Int
        BY MaxOfTwo
      <3> HIDE DEF pl
      <3> QED BY <2>3, <2>5, <3>1
    <2>7. pl(i).x \in Int
      BY <1>1, <2>1, <2>2
    <2> QED BY <2>1, <2>6, <2>7
  <1> HIDE DEF pl
  <1>3. ASSUME NEW i \in DOMAIN s
        PROVE  Character(pl(i).x, top + pl(i).y, s[i].pic, IF pl(i).black THEN Silhouette(s[i].pic) ELSE CookieCut(s[i].pic)) \in Quads
    <2>1. IsPicture(s[i].pic) /\ pl(i).x \in Int /\ top + pl(i).y \in Int
      BY <1>2
    <2>2. /\ Character(pl(i).x, top + pl(i).y, s[i].pic, CookieCut(s[i].pic)) \in Quads
          /\ Character(pl(i).x, top + pl(i).y, s[i].pic, Silhouette(s[i].pic)) \in Quads
      BY <2>1, PictureQuads
    <2> QED BY <2>2
  <1>4. PlayerQuads(s, top) \in [DOMAIN s -> Quads]
    BY <1>3 DEF PlayerQuads, pl
  <1> QED BY <1>4, ListIs DEF Captured

LEMMA MenAre ==
  ASSUME NEW f \in Frames, NEW top \in Int
  PROVE  ManQuads(f.men, top) \in Seq(Quads)
  <1> DEFINE ms == f.men
             man(m)  == Static(m.x - (Tile \div 2), top + Min({m.y, LowestY}) + ManPicture(m).drop, ManPicture(m), TRUE)
             dust(d) == Static(d.x - ((3 * Tile) \div 4), top + d.y + d.pic.drop, d.pic, FALSE)
             each(i) == <<man(ms[i])>> \o [j \in DOMAIN ms[i].dust |-> dust(ms[i].dust[j])]
  <1>1. Tile \div 2 \in Int /\ (3 * Tile) \div 4 \in Int /\ LowestY \in Int
    BY FrameIs, SpriteAssumption
  <1>2. /\ ms \in Seq(Range(ms))
        /\ \A i \in DOMAIN ms :
             /\ ms[i].x \in Int /\ ms[i].y \in Int /\ ManPicture(ms[i]).drop \in Int /\ IsPicture(ManPicture(ms[i]))
             /\ Captured(ms[i].dust) /\ \A j \in DOMAIN ms[i].dust : ms[i].dust[j].pic.drop \in Int
    BY FrameIs DEF Whole
  <1> HIDE DEF ms
  <1>3. ASSUME NEW i \in DOMAIN ms PROVE each(i) \in Seq(Quads)
    <2>1. man(ms[i]) \in Quads
      <3>1. ms[i].x \in Int /\ ms[i].y \in Int /\ ManPicture(ms[i]).drop \in Int /\ IsPicture(ManPicture(ms[i]))
        BY <1>2
      <3>2. Min({ms[i].y, LowestY}) \in Int
        BY <1>1, <3>1, MinOfTwo
      <3>3. ms[i].x - (Tile \div 2) \in Int /\ top + Min({ms[i].y, LowestY}) + ManPicture(ms[i]).drop \in Int
        BY <1>1, <3>1, <3>2
      <3> QED BY <3>1, <3>3, PictureQuads
    <2> DEFINE ds == ms[i].dust
    <2>2. Captured(ds) /\ \A j \in DOMAIN ds : ds[j].pic.drop \in Int
      BY <1>2
    <2> HIDE DEF ds
    <2>3. \A j \in DOMAIN ds : ds[j].x \in Int /\ ds[j].y \in Int /\ IsPicture(ds[j].pic)
      BY <2>2 DEF Captured
    <2>4. ASSUME NEW j \in DOMAIN ds PROVE dust(ds[j]) \in Quads
      <3>1. ds[j].x - ((3 * Tile) \div 4) \in Int /\ top + ds[j].y + ds[j].pic.drop \in Int /\ IsPicture(ds[j].pic)
        BY <1>1, <2>2, <2>3
      <3> QED BY <3>1, PictureQuads
    <2> HIDE DEF man, dust
    <2>5. [j \in DOMAIN ds |-> dust(ds[j])] \in [DOMAIN ds -> Quads]
      BY <2>4
    <2>6. [j \in DOMAIN ds |-> dust(ds[j])] \in Seq(Quads)
      BY <2>2, <2>5, ListIs DEF Captured
    <2>7. <<man(ms[i])>> \in Seq(Quads)
      BY <2>1
    <2>8. <<man(ms[i])>> \o [j \in DOMAIN ds |-> dust(ds[j])] \in Seq(Quads)
      BY <2>6, <2>7
    <2> QED BY <2>8 DEF ds
  <1>4. ManQuads(ms, top) = FlattenSeq([i \in DOMAIN ms |-> each(i)])
    BY DEF ManQuads
  <1> HIDE DEF each
  <1>5. [i \in DOMAIN ms |-> each(i)] \in [DOMAIN ms -> Seq(Quads)]
    BY <1>3
  <1>6. [i \in DOMAIN ms |-> each(i)] \in Seq(Seq(Quads))
    BY <1>2, <1>5, ListIs
  <1>7. FlattenSeq([i \in DOMAIN ms |-> each(i)]) \in Seq(Quads)
    BY <1>6, FlattenIs
  <1> QED BY <1>4, <1>7 DEF ms

LEMMA RopesAre ==
  ASSUME NEW rs \in Seq([x0 : Int, y0 : Int, x1 : Int, y1 : Int]), NEW top \in Int
  PROVE  RopeQuads(rs, top) \in Seq(Quads)
  <1>1. Len(rs) \in Nat /\ DOMAIN rs = 1..Len(rs) /\ \A i \in 1..Len(rs) : rs[i] \in [x0 : Int, y0 : Int, x1 : Int, y1 : Int]
    <2> DEFINE K == [x0 : Int, y0 : Int, x1 : Int, y1 : Int]
    <2>1. rs \in Seq(K)
      OBVIOUS
    <2> HIDE DEF K
    <2>2. Len(rs) \in Nat /\ DOMAIN rs = 1..Len(rs) /\ \A i \in 1..Len(rs) : rs[i] \in K
      BY <2>1
    <2> QED BY <2>2 DEF K
  <1>2. ASSUME NEW r \in [x0 : Int, y0 : Int, x1 : Int, y1 : Int] PROVE RopeQuad(r, top) \in Quads
    <2>1. r.x0 \in Int /\ r.x1 \in Int /\ r.y0 \in Int /\ r.y1 \in Int
      OBVIOUS
    <2> DEFINE bx == Min({r.x0, r.x1})
               by == Min({r.y0, r.y1})
               w  == Abs(r.x1 - r.x0) + 1
               h  == Abs(r.y1 - r.y0) + 1
               on == {RopeTexels(r)[n] : n \in DOMAIN RopeTexels(r)}
               ink == [t \in (0..h - 1) \X (0..w - 1) |-> IF <<bx + t[2], by + t[1]>> \in on THEN Rope ELSE Clear]
    <2>2. bx \in Int /\ top + by \in Int
      <3>1. \A a, b \in Int : Min({a, b}) \in Int
        BY MinOfTwo
      <3>2. bx \in Int /\ by \in Int
        BY <2>1, <3>1
      <3> HIDE DEF bx, by
      <3> QED BY <3>2
    <2>3. w \in Nat /\ h \in Nat
      BY <2>1 DEF Abs
    <2>4. RopeQuad(r, top) = QuadOf("world", bx, top + by, w, h, ink, FALSE)
      BY DEF RopeQuad
    <2>5. Rope \in Int /\ Clear \in Int
      BY SpriteAssumption DEF Clear
    <2> HIDE DEF bx, by, w, h, on, Clear
    <2>6. ink \in [Cells(h, w) -> Int]
      BY <2>5 DEF Cells
    <2> HIDE DEF ink
    <2>7. \A sh \in BOOLEAN : QuadOf("world", bx, top + by, w, h, ink, sh) \in Quads
      BY <2>2, <2>3, <2>6, QuadIs
    <2>8. FALSE \in BOOLEAN
      OBVIOUS
    <2>9. QuadOf("world", bx, top + by, w, h, ink, FALSE) \in Quads
      BY <2>7, <2>8
    <2> QED BY <2>4, <2>9
  <1>3. RopeQuads(rs, top) \in [1..Len(rs) -> Quads]
    BY <1>1, <1>2 DEF RopeQuads
  <1> HIDE DEF Quads
  <1>4. \A n \in Nat : \A g \in [1..n -> Quads] : g \in Seq(Quads)
    OBVIOUS
  <1> QED BY <1>1, <1>3, <1>4

LEMMA BannersAre ==
  ASSUME NEW f \in Frames, NEW top \in Int
  PROVE  FlattenSeq([i \in DOMAIN f.banner |-> BannerQuads(f.banner[i], f.view.camera, f.ow, top)]) \in Seq(Quads)
  <1> DEFINE bs == f.banner
             each(i) == BannerQuads(bs[i], f.view.camera, f.ow, top)
  <1>1. /\ bs \in Seq(Range(bs))
        /\ \A i \in DOMAIN bs :
             /\ bs[i].rel \in Int /\ bs[i].row \in Int /\ bs[i].shift \in Int /\ IsPicture(bs[i].pic)
             /\ bs[i].children \in Seq(Range(bs[i].children))
             /\ \A j \in DOMAIN bs[i].children : bs[i].children[j].rel \in Int /\ IsPicture(bs[i].children[j].pic)
    BY FrameIs DEF Whole
  <1>2. f.ow \in Int /\ f.view.camera \in Int
    BY FrameIs DEF Whole
  <1>3. Tile \in Nat /\ Tile > 0 /\ Display \in Int /\ Byte \in Int /\ Page \in Nat /\ Page > 0
    BY FrameIs, SpriteAssumption
  <1> HIDE DEF bs
  <1>4. ASSUME NEW i \in DOMAIN bs PROVE each(i) \in Seq(Quads)
    <2>0. PICK b : b = bs[i]
      OBVIOUS
    <2> DEFINE eye == f.view.camera
               left == IF f.ow > Display THEN (f.ow - b.pic.w) \div 2 ELSE ((eye \div Tile + 3) * Tile - eye) - 1
               place(rel) == LET d == rel - b.rel
                             IN <<left + Byte * (d - Page * (d \div Page)) - b.shift, top + b.row + d \div Page>>
               child(c) == OnScreen(place(c.rel)[1], place(c.rel)[2], c.pic, IF c.opaque THEN c.pic.ink ELSE CookieCut(c.pic))
               cs == b.children
    <2>1. /\ b.rel \in Int /\ b.row \in Int /\ b.shift \in Int /\ IsPicture(b.pic) /\ b.pic.w \in Int
          /\ cs \in Seq(Range(cs)) /\ \A j \in DOMAIN cs : cs[j].rel \in Int /\ IsPicture(cs[j].pic)
      <3>1. /\ b.rel \in Int /\ b.row \in Int /\ b.shift \in Int /\ IsPicture(b.pic)
            /\ b.children \in Seq(Range(b.children))
            /\ \A j \in DOMAIN b.children : b.children[j].rel \in Int /\ IsPicture(b.children[j].pic)
        BY <1>1, <2>0, Zenon
      <3>2. b.pic.w \in Int
        BY <3>1 DEF IsPicture
      <3> QED BY <3>1, <3>2, Zenon
    <2>2. left \in Int
      <3>1. (f.ow - b.pic.w) \div 2 \in Int
        BY <1>2, <2>1
      <3>2. eye \div Tile \in Int
        BY <1>2, <1>3
      <3>3. ((eye \div Tile + 3) * Tile - eye) - 1 \in Int
        <4> DEFINE e == eye \div Tile
        <4>1. e \in Int /\ eye \in Int
          BY <1>2, <3>2
        <4> HIDE DEF e
        <4>2. ((e + 3) * Tile - eye) - 1 \in Int
          BY <1>3, <4>1
        <4> QED BY <4>2 DEF e
      <3> QED BY <3>1, <3>3
    <2> HIDE DEF left
    <2>3. ASSUME NEW rel \in Int PROVE place(rel)[1] \in Int /\ place(rel)[2] \in Int
      <3> DEFINE d == rel - b.rel
                 e == d \div Page
      <3>1. d \in Int
        BY <2>1
      <3>2. e \in Int
        BY <1>3, <3>1
      <3> HIDE DEF d, e
      <3>3. left + Byte * (d - Page * e) - b.shift \in Int /\ top + b.row + e \in Int
        BY <1>3, <2>1, <2>2, <3>1, <3>2
      <3> QED BY <3>3 DEF d, e
    <2>4. OnScreen(left, top + b.row, b.pic, CookieCut(b.pic)) \in Quads
      BY <2>1, <2>2, PictureQuads
    <2> HIDE DEF place
    <2>5. ASSUME NEW j \in DOMAIN cs PROVE child(cs[j]) \in Quads
      <3> DEFINE x == place(cs[j].rel)[1]
                 y == place(cs[j].rel)[2]
      <3>1. x \in Int /\ y \in Int /\ IsPicture(cs[j].pic)
        BY <2>1, <2>3
      <3> HIDE DEF x, y
      <3>2. OnScreen(x, y, cs[j].pic, cs[j].pic.ink) \in Quads /\ OnScreen(x, y, cs[j].pic, CookieCut(cs[j].pic)) \in Quads
        BY <3>1, PictureQuads
      <3>3. OnScreen(x, y, cs[j].pic, IF cs[j].opaque THEN cs[j].pic.ink ELSE CookieCut(cs[j].pic)) \in Quads
        BY <3>2
      <3> QED BY <3>3 DEF x, y
    <2>6. BannerQuads(b, eye, f.ow, top) = <<OnScreen(left, top + b.row, b.pic, CookieCut(b.pic))>> \o [j \in DOMAIN cs |-> child(cs[j])]
      BY DEF BannerQuads, left, place
    <2> HIDE DEF child
    <2>7. [j \in DOMAIN cs |-> child(cs[j])] \in [DOMAIN cs -> Quads]
      BY <2>5
    <2>8. [j \in DOMAIN cs |-> child(cs[j])] \in Seq(Quads)
      BY <2>1, <2>7, ListIs
    <2>9. <<OnScreen(left, top + b.row, b.pic, CookieCut(b.pic))>> \o [j \in DOMAIN cs |-> child(cs[j])] \in Seq(Quads)
      BY <2>4, <2>8
    <2> QED BY <2>0, <2>6, <2>9
  <1> HIDE DEF each
  <1>5. [i \in DOMAIN bs |-> each(i)] \in [DOMAIN bs -> Seq(Quads)]
    BY <1>4
  <1>6. [i \in DOMAIN bs |-> each(i)] \in Seq(Seq(Quads))
    BY <1>1, <1>5, ListIs
  <1>7. FlattenSeq([i \in DOMAIN bs |-> each(i)]) \in Seq(Quads)
    BY <1>6, FlattenIs
  <1> QED BY <1>7 DEF bs, each

\* The tiles, gone through row by row.
LEMMA TilesAre ==
  ASSUME NEW tiles, DOMAIN tiles \subseteq Nat \X Nat, \A a \in DOMAIN tiles : IsPicture(tiles[a]),
         NEW on, on \subseteq DOMAIN tiles, NEW cols, cols[1] \in Nat, cols[2] \in Nat, cols[1] <= cols[2],
         NEW top \in Nat, NEW bot \in Nat, top <= bot, Tile \in Nat, Tile > 0
  PROVE  Tiled(tiles, on, cols, top, bot) \in Seq(Quads)
  <1> DEFINE n == cols[2] - cols[1]
             m == n * TileRows(top, bot)
             a(i) == <<(i - 1) \div n, cols[1] + ((i - 1) % n)>>
             quad(b) == World(b[2] * Tile, top + b[1] * Tile, tiles[b], tiles[b].ink)
             step(u, i) == IF a(i) \in on THEN Append(u, quad(a(i))) ELSE u
             U == Seq(Quads)
             R == [k \in 1..m |-> [u \in U |-> step(u, k)]]
             Fs(g) == g = [i \in 0..m |-> IF i = 0 THEN <<>> ELSE step(g[i - 1], i)]
             w == CHOOSE g : Fs(g)
  <1>1. m \in Nat
    <2>1. n \in Nat
      OBVIOUS
    <2>2. TileRows(top, bot) \in Nat
      <3>1. bot - top + Tile - 1 \in Nat
        OBVIOUS
      <3> DEFINE e == bot - top + Tile - 1
      <3> HIDE DEF e
      <3>2. e \in Nat => e \div Tile \in Nat
        OBVIOUS
      <3> QED BY <3>1, <3>2 DEF TileRows, e
    <2> HIDE DEF n
    <2> QED BY <2>1, <2>2
  <1>2. ASSUME NEW b \in on PROVE quad(b) \in Quads
    <2>1. b[1] \in Nat /\ b[2] \in Nat /\ IsPicture(tiles[b])
      OBVIOUS
    <2>2. b[2] * Tile \in Int /\ top + b[1] * Tile \in Int
      BY <2>1
    <2> QED BY <2>1, <2>2, PictureQuads
  <1> HIDE DEF m, a, quad
  <1>3. \A u \in U, k \in 1..m : step(u, k) \in U
    <2> SUFFICES ASSUME NEW u \in U, NEW k \in 1..m PROVE step(u, k) \in U
      OBVIOUS
    <2>1. CASE a(k) \in on
      BY <1>2, <2>1
    <2>2. CASE a(k) \notin on
      BY <2>2
    <2> QED BY <2>1, <2>2
  <1> HIDE DEF step
  <1>4. R \in [1..m -> [U -> U]] /\ <<>> \in U
    BY <1>3
  <1>5. PICK g : Iterates(g, m, U, <<>>, R)
    <2> HIDE DEF U, R
    <2> QED BY <1>1, <1>4, Iterated
  <1>6. g \in [0..m -> U] /\ g[0] = <<>> /\ \A k \in 1..m : g[k] = step(g[k - 1], k)
    <2>1. g \in [0..m -> U] /\ g[0] = <<>> /\ \A k \in 1..m : g[k] = R[k][g[k - 1]]
      BY <1>5 DEF Iterates
    <2>2. \A k \in 1..m : k - 1 \in 0..m
      BY <1>1
    <2> QED BY <2>1, <2>2
  <1>7. Fs(g)
    <2>1. \A i \in 0..m : g[i] = IF i = 0 THEN <<>> ELSE step(g[i - 1], i)
      <3>1. \A i \in 0..m : i # 0 => i \in 1..m
        BY <1>1
      <3> QED BY <1>6, <3>1
    <2> QED BY <1>6, <2>1
  <1>8. Fs(w)
    BY <1>7
  <1>9. Tiled(tiles, on, cols, top, bot) = w[m]
    BY DEF Tiled, m, step, a, quad
  <1> HIDE DEF w
  <1> DEFINE T == {i \in Nat : i <= m => w[i] \in U}
  <1>10. 0 \in T
    BY <1>1, <1>8
  <1>11. ASSUME NEW i \in Nat, i \in T PROVE i + 1 \in T
    <2> SUFFICES ASSUME i + 1 <= m PROVE w[i + 1] \in U
      OBVIOUS
    <2>1. i + 1 \in 0..m /\ i + 1 \in 1..m /\ i + 1 # 0 /\ (i + 1) - 1 = i /\ i <= m
      BY <1>1
    <2>2. w[i + 1] = step(w[i], i + 1)
      BY <1>8, <2>1
    <2>3. w[i] \in U
      BY <1>11, <2>1
    <2> HIDE DEF U
    <2> QED BY <1>3, <2>1, <2>2, <2>3
  <1> HIDE DEF T, U
  <1>12. m \in T
    BY <1>1, <1>10, <1>11, SetInduction
  <1> QED BY <1>1, <1>9, <1>12 DEF T, U

\* The rows of the playfield and its columns.
LEMMA RowsAre ==
  ASSUME NEW f \in Frames, Five(f) # {}
  PROVE  Top(f) \in Lines /\ Bot(f) \in Nat /\ Top(f) < Bot(f) /\ Bot(f) <= H
  <1>1. /\ H \in Nat /\ Tile \in Nat /\ Tile > 0 /\ f.anchors \subseteq Nat
    BY FrameIs DEF Whole
  <1>2. Five(f) \subseteq Nat /\ Five(f) \subseteq 0..H - 1
    BY <1>1 DEF Five, Lines
  <1>3. Top(f) \in Five(f)
    BY <1>2, MinOf DEF Top
  <1>4. Top(f) \in 0..H - 1
    BY <1>2, <1>3
  <1> DEFINE T == {Top(f) + 8 * Tile, H} \cup {a \in f.anchors : a > Top(f)}
  <1>5. T \subseteq Nat /\ H \in T /\ \A y \in T : y > Top(f)
    BY <1>1, <1>4
  <1>6. Bot(f) = Min(T)
    BY DEF Bot
  <1> HIDE DEF T
  <1>7. Min(T) \in T /\ Min(T) <= H
    BY <1>5, MinOf
  <1> QED BY <1>4, <1>5, <1>6, <1>7 DEF Lines

LEMMA ColumnsAre ==
  ASSUME NEW f \in Frames
  PROVE  Columns(f)[1] \in Nat /\ Columns(f)[2] \in Nat /\ Columns(f)[1] <= Columns(f)[2]
  <1> DEFINE lo == IF f.view.lo < 0 THEN 0 ELSE f.view.lo
             hi == f.view.hi + Screen
  <1>1. f.view.lo \in Int /\ f.view.hi \in Nat /\ f.view.lo <= f.view.hi
    BY FrameIs DEF Whole
  <1>2. lo \in Nat /\ hi \in Nat /\ lo <= hi
    BY <1>1, FrameIs
  <1>3. Columns(f)[1] = lo \div Tile /\ Columns(f)[2] = hi \div Tile
    BY DEF Columns
  <1> HIDE DEF lo, hi
  <1>4. lo \div Tile \in Nat /\ hi \div Tile \in Nat /\ lo \div Tile <= hi \div Tile
    BY <1>2, FrameIs
  <1> QED BY <1>3, <1>4

\* What is emitted are quads.
LEMMA EmittedIs ==
  ASSUME NEW f \in Frames, Five(f) # {}, NEW n \in Nat
  PROVE  Emitted(f, Columns(f), Top(f), Bot(f), n) \in Seq(Quads)
  <1> DEFINE cols == Columns(f)
             top == Top(f)
             bot == Bot(f)
  <1>1. cols[1] \in Nat /\ cols[2] \in Nat /\ cols[1] <= cols[2]
    BY ColumnsAre
  <1>2. top \in Nat /\ top \in Int /\ bot \in Nat /\ top <= bot
    BY RowsAre, FrameIs DEF Lines
  <1>3. TilesOn(f.map, cols, n) \subseteq DOMAIN f.map
    BY DEF TilesOn
  <1>4. DOMAIN f.map \subseteq Nat \X Nat /\ \A a \in DOMAIN f.map : IsPicture(f.map[a])
    BY FrameIs DEF Whole
  <1>5. /\ Captured(f.water) /\ Captured(f.objects) /\ Captured(f.chars) /\ Captured(f.player)
        /\ \A i \in DOMAIN f.player : f.player[i].dx \in Int /\ f.player[i].dy \in Int
        /\ f.ropes \in Seq([x0 : Int, y0 : Int, x1 : Int, y1 : Int])
    BY FrameIs DEF Whole
  <1>6. Tile \in Nat /\ Tile > 0 /\ LowestY \in Nat
    BY FrameIs, SpriteAssumption
  <1> HIDE DEF cols, top, bot
  <1>7. TileQuads(f.map, cols, top, bot, n) \in Seq(Quads)
    BY <1>1, <1>2, <1>3, <1>4, <1>6, TilesAre DEF TileQuads
  <1>8. WaterQuads(f.water, top) \in Seq(Quads) /\ ObjectQuads(f.objects, top) \in Seq(Quads) /\ CharQuads(f.chars, top) \in Seq(Quads)
    BY <1>2, <1>5, WaterAndObjects
  <1>9. PlayerQuads(f.player, top) \in Seq(Quads)
    BY <1>2, <1>5, <1>6, PlayersAre
  <1>10. ManQuads(f.men, top) \in Seq(Quads)
    BY <1>2, MenAre
  <1>11. RopeQuads(f.ropes, top) \in Seq(Quads)
    BY <1>2, <1>5, RopesAre
  <1>12. FlattenSeq([i \in DOMAIN f.banner |-> BannerQuads(f.banner[i], f.view.camera, f.ow, top)]) \in Seq(Quads)
    BY <1>2, BannersAre
  <1>13. Emitted(f, cols, top, bot, n) =
           TileQuads(f.map, cols, top, bot, n) \o WaterQuads(f.water, top) \o ObjectQuads(f.objects, top)
           \o PlayerQuads(f.player, top) \o CharQuads(f.chars, top) \o ManQuads(f.men, top) \o RopeQuads(f.ropes, top)
           \o FlattenSeq([i \in DOMAIN f.banner |-> BannerQuads(f.banner[i], f.view.camera, f.ow, top)])
    BY DEF Emitted
  <1> HIDE DEF Quads
  <1>14. \A a, b \in Seq(Quads) : a \o b \in Seq(Quads)
    OBVIOUS
  <1>15. Emitted(f, cols, top, bot, n) \in Seq(Quads)
    BY <1>7, <1>8, <1>9, <1>10, <1>11, <1>12, <1>13, <1>14
  <1> QED BY <1>15 DEF cols, top, bot

\* A wider layer than the level's has the same tiles on it.
LEMMA SameEmitted ==
  ASSUME NEW f \in Frames, NEW n \in Nat, n >= Columns(f)[2] * Tile
  PROVE  Emitted(f, Columns(f), Top(f), Bot(f), n) = Emitted(f, Columns(f), Top(f), Bot(f), Columns(f)[2] * Tile)
  <1> DEFINE cols == Columns(f)
  <1>1. cols[1] \in Nat /\ cols[2] \in Nat /\ Tile \in Nat
    BY ColumnsAre, FrameIs
  <1>2. n >= cols[2] * Tile
    OBVIOUS
  <1> HIDE DEF cols
  <1>3. ASSUME NEW x \in cols[1]..cols[2] - 1 PROVE (x + 1) * Tile <= cols[2] * Tile /\ (x + 1) * Tile <= n
    <2>1. x + 1 \in Nat /\ cols[2] - (x + 1) \in Nat
      BY <1>1
    <2>2. \A a, b \in Nat : a * b \in Nat
      OBVIOUS
    <2>3. (cols[2] - (x + 1)) * Tile \in Nat /\ cols[2] * Tile \in Nat /\ (x + 1) * Tile \in Nat
      BY <1>1, <2>1, <2>2
    <2>4. (cols[2] - (x + 1)) * Tile = cols[2] * Tile - (x + 1) * Tile
      BY <1>1, <2>1
    <2> QED BY <1>1, <1>2, <2>3, <2>4
  <1>4. TilesOn(f.map, cols, n) = TilesOn(f.map, cols, cols[2] * Tile)
    BY <1>3 DEF TilesOn
  <1>5. TileQuads(f.map, cols, Top(f), Bot(f), n) = TileQuads(f.map, cols, Top(f), Bot(f), cols[2] * Tile)
    BY <1>4 DEF TileQuads
  <1>6. Emitted(f, cols, Top(f), Bot(f), n) = Emitted(f, cols, Top(f), Bot(f), cols[2] * Tile)
    BY <1>5 DEF Emitted
  <1> QED BY <1>6 DEF cols
-----------------------------------------------------------------------------
(* The draw list. *)

\* A scene as it is filled, of so many quads emitted: those that fit, in their order; as many as there were when all of them do.
Scenes == [quads : Seq(Quads), used : Nat, left : Int, rows : Int \X Int, clip : Int \X Int]
AllIn(s, qs, k) == /\ s \in Scenes /\ Len(s.quads) <= k
                   /\ Len(s.quads) = k => \A i \in 1..k : s.quads[i] = qs[i]

LEMMA ViewLeftIs == ASSUME NEW f \in Frames PROVE ViewLeft(f.view, f.ow) \in Int
  <1>1. f.ow \in Int /\ f.view.camera \in Int /\ f.view.lo \in Int /\ f.view.hi \in Int /\ f.view.x \in Int
    BY FrameIs DEF Whole
  <1>2. Tile \in Nat /\ Tile > 0 /\ Screen \in Int
    BY FrameIs
  <1>3. \A e \in Int : e - (e % Tile) \in Int
    BY <1>2
  <1>4. LevelLo(f.view) \in Int /\ LevelHi(f.view) \in Int
    BY <1>1, <1>2, <1>3 DEF LevelLo, LevelHi
  <1>5. Half(f.ow) \in Int /\ Follow(f.view) \in Int
    BY <1>1, <1>2 DEF Half, Follow
  <1> DEFINE a == LevelLo(f.view)
             b == LevelHi(f.view)
             c == Follow(f.view) - Half(f.ow)
  <1>6. c \in Int
    BY <1>5
  <1> HIDE DEF a, b, c
  <1>7. a - (f.ow - (b - a)) \div 2 \in Int /\ b - f.ow \in Int
    BY <1>1, <1>4 DEF a, b
  <1>8. Between(a, c, b - f.ow) \in Int
    BY <1>4, <1>6, <1>7 DEF Between, a, b
  <1> QED BY <1>7, <1>8 DEF ViewLeft, a, b, c

LEMMA EmptyIs ==
  ASSUME NEW f \in Frames, Five(f) # {}, NEW n \in Nat
  PROVE  Empty(f, n) \in Scenes /\ Empty(f, n).quads = <<>>
  <1>1. ViewLeft(f.view, f.ow) \in Int
    BY ViewLeftIs
  <1>2. Top(f) \in Int /\ Bot(f) \in Int
    BY RowsAre, FrameIs DEF Lines
  <1>3. Columns(f)[1] * Tile \in Int /\ Min({Columns(f)[2] * Tile, n}) \in Int
    <2>1. Columns(f)[1] * Tile \in Int /\ Columns(f)[2] * Tile \in Int
      BY ColumnsAre, FrameIs
    <2>2. \A a, b \in Int : Min({a, b}) \in Int
      BY MinOfTwo
    <2> QED BY <2>1, <2>2
  <1>4. <<>> \in Seq(Quads)
    OBVIOUS
  <1> DEFINE l == ViewLeft(f.view, f.ow)
             r == <<Top(f), Bot(f)>>
             c == <<Columns(f)[1] * Tile, Min({Columns(f)[2] * Tile, n})>>
  <1>5. r \in Int \X Int /\ c \in Int \X Int
    BY <1>2, <1>3
  <1>6. Empty(f, n) = [quads |-> <<>>, used |-> 0, left |-> l, rows |-> r, clip |-> c]
    BY DEF Empty
  <1> HIDE DEF l, r, c, Quads
  <1>7. l \in Int
    BY <1>1 DEF l
  <1>8. [quads |-> <<>>, used |-> 0, left |-> l, rows |-> r, clip |-> c] \in Scenes
    <2>1. 0 \in Nat
      OBVIOUS
    <2> DEFINE Q == Seq(Quads) I == Int \X Int N == Nat Z == Int
    <2>2. <<>> \in Q /\ 0 \in N /\ l \in Z /\ r \in I /\ c \in I
      BY <1>4, <1>5, <1>7, <2>1
    <2> HIDE DEF Q, I, N, Z
    <2>3. [quads |-> <<>>, used |-> 0, left |-> l, rows |-> r, clip |-> c] \in [quads : Q, used : N, left : Z, rows : I, clip : I]
      BY <2>2
    <2> QED BY <2>3 DEF Scenes, Q, I, N, Z
  <1> QED BY <1>6, <1>8

\* A quad more is at the end of the list, or left out.
LEMMA AddedIs ==
  ASSUME NEW s \in Scenes, NEW q \in Quads
  PROVE  /\ Added(s, q) \in Scenes /\ Added(s, q).left = s.left /\ Added(s, q).rows = s.rows /\ Added(s, q).clip = s.clip
         /\ Added(s, q).quads \in {s.quads, Append(s.quads, q)}
  <1> DEFINE u == s.used + (((q.w * q.h) + 3) \div 4) * 4
             z == IF Len(s.quads) < MaxQuads THEN Append(s.quads, q) ELSE s.quads
  <1>1. u \in Nat
    <2>1. q.w \in Nat /\ q.h \in Nat
      BY DEF Quads, QuadRecords
    <2> DEFINE a == q.w * q.h
    <2>2. a \in Nat
      BY <2>1
    <2>3. s.used \in Nat
      BY DEF Scenes
    <2> HIDE DEF a
    <2>4. ((a + 3) \div 4) * 4 \in Nat
      BY <2>2
    <2> QED BY <2>3, <2>4 DEF a
  <1>2. Added(s, q) = IF u > Arena THEN s ELSE [[s EXCEPT !.used = u] EXCEPT !.quads = z]
    BY DEF Added, Scenes
  <1> HIDE DEF u, Quads
  <1>3. s.quads \in Seq(Quads)
    BY DEF Scenes
  <1>4. z \in Seq(Quads) /\ z \in {s.quads, Append(s.quads, q)}
    BY <1>3
  <1> HIDE DEF z
  <1> DEFINE t == [[s EXCEPT !.used = u] EXCEPT !.quads = z]
  <1>5. t \in Scenes /\ t.left = s.left /\ t.rows = s.rows /\ t.clip = s.clip /\ t.quads = z
    <2> DEFINE Q == Seq(Quads) I == Int \X Int N == Nat Z == Int
               K == [quads : Q, used : N, left : Z, rows : I, clip : I]
    <2>1. z \in Q /\ u \in N /\ s \in K
      BY <1>1, <1>4 DEF Scenes
    <2> HIDE DEF Q, I, N, Z
    <2> DEFINE s1 == [s EXCEPT !.used = u]
    <2>2. s1 \in K /\ s1.left = s.left /\ s1.rows = s.rows /\ s1.clip = s.clip
      BY <2>1
    <2> HIDE DEF s1
    <2> DEFINE s2 == [s1 EXCEPT !.quads = z]
    <2>3. s2 \in K /\ s2.left = s1.left /\ s2.rows = s1.rows /\ s2.clip = s1.clip /\ s2.quads = z
      BY <2>1, <2>2
    <2>4. s2 = t
      BY DEF s1
    <2> HIDE DEF s2, t
    <2>5. t \in K /\ t.left = s.left /\ t.rows = s.rows /\ t.clip = s.clip /\ t.quads = z
      BY <2>2, <2>3, <2>4
    <2> QED BY <2>5 DEF Scenes, Q, I, N, Z
  <1> HIDE DEF t
  <1>6. Added(s, q) = s \/ Added(s, q) = t
    BY <1>2 DEF t
  <1> QED BY <1>4, <1>5, <1>6

LEMMA AllInNext ==
  ASSUME NEW qs \in Seq(Quads), NEW k \in Nat, k + 1 <= Len(qs), NEW s, AllIn(s, qs, k)
  PROVE  AllIn(Added(s, qs[k + 1]), qs, k + 1)
  <1>1. s \in Scenes /\ k + 1 \in 1..Len(qs) /\ Len(qs) \in Nat
    BY DEF AllIn
  <1>2. qs[k + 1] \in Quads
    <2> HIDE DEF Quads
    <2> QED BY <1>1
  <1>3. s.quads \in Seq(Quads)
    BY <1>1 DEF Scenes
  <1>4. PICK t : t = Added(s, qs[k + 1])
    OBVIOUS
  <1>5. t \in Scenes /\ t.quads \in {s.quads, Append(s.quads, qs[k + 1])}
    BY <1>1, <1>2, <1>4, AddedIs
  <1> HIDE DEF Quads
  <1>6. Len(s.quads) \in Nat /\ Len(s.quads) <= k /\ (Len(s.quads) = k => \A i \in 1..k : s.quads[i] = qs[i])
    BY <1>3 DEF AllIn
  <1>7. CASE t.quads = s.quads
    <2>1. Len(t.quads) \in Nat /\ Len(t.quads) <= k + 1 /\ Len(t.quads) # k + 1
      BY <1>6, <1>7
    <2>2. AllIn(t, qs, k + 1)
      BY <1>5, <2>1 DEF AllIn
    <2> QED BY <1>4, <2>2
  <1>8. CASE t.quads = Append(s.quads, qs[k + 1])
    <2> DEFINE z == Append(s.quads, qs[k + 1])
    <2>1. Len(z) = Len(s.quads) + 1 /\ z[Len(s.quads) + 1] = qs[k + 1] /\ \A i \in 1..Len(s.quads) : z[i] = s.quads[i]
      BY <1>2, <1>3
    <2> HIDE DEF z
    <2>2. Len(z) <= k + 1
      BY <1>6, <2>1
    <2>3. ASSUME Len(z) = k + 1, NEW i \in 1..k + 1 PROVE z[i] = qs[i]
      <3>1. Len(s.quads) = k
        BY <1>6, <2>1, <2>3
      <3>2. CASE i = k + 1
        BY <2>1, <3>1, <3>2
      <3>3. CASE i # k + 1
        <4>1. i \in 1..k
          BY <3>3
        <4> QED BY <1>6, <2>1, <3>1, <4>1
      <3> QED BY <3>2, <3>3
    <2>4. AllIn(t, qs, k + 1)
      BY <1>5, <1>8, <2>2, <2>3 DEF AllIn, z
    <2> QED BY <1>4, <2>4
  <1> QED BY <1>4, <1>5, <1>7, <1>8

LEMMA BuiltIs ==
  ASSUME NEW f \in Frames, Five(f) # {}, NEW n \in Nat
  PROVE  LET s == Built(f, n)
             qs == Emitted(f, Columns(f), Top(f), Bot(f), n)
         IN /\ s \in Scenes /\ s.left = Empty(f, n).left /\ s.rows = Empty(f, n).rows /\ s.clip = Empty(f, n).clip
            /\ Len(s.quads) = Len(qs) => s.quads = qs
  <1> DEFINE qs == Emitted(f, Columns(f), Top(f), Bot(f), n)
             m == Len(qs)
             b == Empty(f, n)
             U == {s \in Scenes : s.left = b.left /\ s.rows = b.rows /\ s.clip = b.clip}
             R == [k \in 1..m |-> [u \in U |-> Added(u, qs[k])]]
             Fs(g) == g = [k \in 0..m |-> IF k = 0 THEN b ELSE Added(g[k - 1], qs[k])]
             w == CHOOSE g : Fs(g)
  <1>1. qs \in Seq(Quads)
    BY EmittedIs
  <1>2. b \in Scenes /\ b.quads = <<>>
    BY EmptyIs
  <1>3. Built(f, n) = w[m]
    BY DEF Built
  <1> HIDE DEF qs, b, Quads, Scenes
  <1>4. m \in Nat /\ \A k \in 1..m : qs[k] \in Quads
    BY <1>1
  <1>5. b \in U
    BY <1>2
  <1>6. \A u \in U, k \in 1..m : Added(u, qs[k]) \in U
    BY <1>4, AddedIs
  <1> HIDE DEF m
  <1>7. R \in [1..m -> [U -> U]]
    BY <1>6
  <1>8. PICK g : Iterates(g, m, U, b, R)
    <2> HIDE DEF U, R
    <2> QED BY <1>4, <1>5, <1>7, Iterated
  <1>9. g \in [0..m -> U] /\ g[0] = b /\ \A k \in 1..m : g[k] = Added(g[k - 1], qs[k])
    <2>1. g \in [0..m -> U] /\ g[0] = b /\ \A k \in 1..m : g[k] = R[k][g[k - 1]]
      BY <1>8 DEF Iterates
    <2>2. \A k \in 1..m : k - 1 \in 0..m
      BY <1>4
    <2> HIDE DEF U
    <2> QED BY <2>1, <2>2
  <1>10. Fs(g)
    <2>1. \A k \in 0..m : g[k] = IF k = 0 THEN b ELSE Added(g[k - 1], qs[k])
      <3>1. \A k \in 0..m : k # 0 => k \in 1..m
        BY <1>4
      <3> QED BY <1>9, <3>1
    <2> QED BY <1>9, <2>1
  <1>11. Fs(w)
    BY <1>10
  <1> HIDE DEF w
  <1> DEFINE T == {k \in Nat : k <= m => w[k] \in U /\ AllIn(w[k], qs, k)}
  <1>12. 0 \in T
    <2>1. w[0] = b
      BY <1>4, <1>11
    <2>2. AllIn(b, qs, 0)
      BY <1>2 DEF AllIn
    <2> QED BY <1>5, <2>1, <2>2
  <1>13. ASSUME NEW k \in Nat, k \in T PROVE k + 1 \in T
    <2> SUFFICES ASSUME k + 1 <= m PROVE w[k + 1] \in U /\ AllIn(w[k + 1], qs, k + 1)
      OBVIOUS
    <2>1. k + 1 \in 0..m /\ k + 1 \in 1..m /\ k + 1 # 0 /\ (k + 1) - 1 = k /\ k <= m
      BY <1>4
    <2>2. w[k + 1] = Added(w[k], qs[k + 1])
      BY <1>11, <2>1
    <2>3. w[k] \in U /\ AllIn(w[k], qs, k)
      BY <1>13, <2>1
    <2>4. AllIn(w[k + 1], qs, k + 1)
      BY <1>1, <2>1, <2>2, <2>3, AllInNext DEF m
    <2> HIDE DEF U
    <2> QED BY <1>6, <2>1, <2>2, <2>3, <2>4
  <1> HIDE DEF T
  <1>14. m \in T
    BY <1>4, <1>12, <1>13, SetInduction
  <1>15. w[m] \in U /\ AllIn(w[m], qs, m)
    BY <1>4, <1>14 DEF T
  <1>16. Len(w[m].quads) = m => w[m].quads = qs
    <2> SUFFICES ASSUME Len(w[m].quads) = m PROVE w[m].quads = qs
      OBVIOUS
    <2>1. w[m].quads \in Seq(Quads)
      BY <1>15 DEF Scenes
    <2>2. \A i \in 1..m : w[m].quads[i] = qs[i]
      BY <1>15 DEF AllIn
    <2> PICK z : z = w[m].quads
      OBVIOUS
    <2>3. z \in Seq(Quads) /\ Len(z) = Len(qs) /\ \A i \in 1..Len(qs) : z[i] = qs[i]
      BY <2>1, <2>2 DEF m
    <2>4. z = qs
      BY <1>1, <2>3
    <2> QED BY <2>4
  <1> QED BY <1>3, <1>15, <1>16 DEF qs, m, b
-----------------------------------------------------------------------------
(* The atlas. *)

Shelves == [x : Nat, y : Nat, shelf : Nat, full : BOOLEAN]
Put(s, t, q) == \/ t.y = s.y /\ t.x = s.x + q.w /\ t.shelf >= s.shelf /\ t.shelf >= q.h
                \/ t.y = s.y + s.shelf /\ t.x = q.w /\ t.shelf = q.h

LEMMA PlacedIs ==
  ASSUME NEW s \in Shelves, NEW q \in Quads
  PROVE  Placed(s, q) \in Shelves /\ (~Placed(s, q).full => ~s.full /\ Put(s, Placed(s, q), q))
  <1>1. q.w \in Nat /\ q.h \in Nat /\ s.x \in Nat /\ s.y \in Nat /\ s.shelf \in Nat /\ s.full \in BOOLEAN
    BY DEF Quads, QuadRecords, Shelves
  <1>2. Atlas[1] \in Nat /\ Atlas[2] \in Nat
    BY SceneAssumption
  <1>3. CASE s.full \/ q.w > Atlas[1]
    <2>1. Placed(s, q) = [s EXCEPT !.full = TRUE]
      BY <1>3 DEF Placed
    <2>2. [s EXCEPT !.full = TRUE] \in Shelves /\ [s EXCEPT !.full = TRUE].full = TRUE
      BY DEF Shelves
    <2> QED BY <2>1, <2>2
  <1>4. CASE ~(s.full \/ q.w > Atlas[1]) /\ s.x + q.w > Atlas[1]
    <2> DEFINE v == s.y + s.shelf
               b == v + q.h > Atlas[2]
    <2>1. Placed(s, q) = [x |-> q.w, y |-> v, shelf |-> q.h, full |-> b]
      BY <1>4 DEF Placed, NextShelf
    <2>2. v \in Nat /\ b \in BOOLEAN
      BY <1>1, <1>2
    <2> HIDE DEF v, b
    <2>3. Placed(s, q) \in Shelves
      BY <1>1, <2>1, <2>2 DEF Shelves
    <2>4. Put(s, Placed(s, q), q)
      BY <2>1 DEF Put, v
    <2> QED BY <1>4, <2>3, <2>4
  <1>5. CASE ~(s.full \/ q.w > Atlas[1]) /\ ~(s.x + q.w > Atlas[1])
    <2> DEFINE u == s.x + q.w
               h == Max({s.shelf, q.h})
               b == s.y + q.h > Atlas[2]
    <2>1. Placed(s, q) = [x |-> u, y |-> s.y, shelf |-> h, full |-> b]
      <3>1. Placed(s, q) = [s EXCEPT !.x = @ + q.w, !.shelf = Max({@, q.h}), !.full = s.y + q.h > Atlas[2]]
        BY <1>5 DEF Placed
      <3>2. s = [x |-> s.x, y |-> s.y, shelf |-> s.shelf, full |-> s.full]
        BY DEF Shelves
      <3> QED BY <3>1, <3>2
    <2>2. u \in Nat /\ b \in BOOLEAN
      BY <1>1, <1>2
    <2>3. h \in Nat /\ h >= s.shelf /\ h >= q.h
      <3>1. s.shelf \in Int /\ q.h \in Int
        BY <1>1
      <3>2. h = IF s.shelf >= q.h THEN s.shelf ELSE q.h
        BY <3>1, MaxOfTwo
      <3> QED BY <1>1, <3>2
    <2> HIDE DEF u, h, b
    <2>4. Placed(s, q) \in Shelves
      BY <1>1, <2>1, <2>2, <2>3 DEF Shelves
    <2>5. Put(s, Placed(s, q), q)
      BY <2>1, <2>3 DEF Put, u
    <2> QED BY <1>5, <2>4, <2>5
  <1> QED BY <1>3, <1>4, <1>5

\* What was put up lies above the shelf, or on it to the left.
Above(pl, qs, j, k) == \/ pl[j].y + qs[j].h <= pl[k].y
                       \/ pl[j].y = pl[k].y /\ pl[j].x <= pl[k].x /\ qs[j].h <= pl[k].shelf
Apart(pl, qs, j, k) == \/ pl[j].y + qs[j].h <= pl[k].y
                       \/ pl[j].y = pl[k].y /\ pl[j].x <= pl[k].x - qs[k].w

LEMMA PackedIs ==
  ASSUME NEW qs \in Seq(Quads), NEW pl, pl = Packed(qs)
  PROVE  /\ pl \in [0..Len(qs) -> Shelves]
         /\ \A k \in 1..Len(qs) : pl[k] = Placed(pl[k - 1], qs[k])
  <1> DEFINE m == Len(qs)
             b == [x |-> 0, y |-> 0, shelf |-> 0, full |-> FALSE]
             R == [k \in 1..m |-> [u \in Shelves |-> Placed(u, qs[k])]]
             Fs(g) == g = [k \in 0..m |-> IF k = 0 THEN b ELSE Placed(g[k - 1], qs[k])]
             w == CHOOSE g : Fs(g)
  <1>1. pl = w
    BY DEF Packed
  <1>2. b \in Shelves
    BY DEF Shelves
  <1> HIDE DEF b, Quads, Shelves
  <1>3. m \in Nat /\ \A k \in 1..m : qs[k] \in Quads
    OBVIOUS
  <1>4. \A u \in Shelves, k \in 1..m : Placed(u, qs[k]) \in Shelves
    BY <1>3, PlacedIs
  <1> HIDE DEF m
  <1>5. R \in [1..m -> [Shelves -> Shelves]]
    BY <1>4
  <1>6. PICK g : Iterates(g, m, Shelves, b, R)
    <2> HIDE DEF R
    <2> QED BY <1>2, <1>3, <1>5, Iterated
  <1>7. g \in [0..m -> Shelves] /\ g[0] = b /\ \A k \in 1..m : g[k] = Placed(g[k - 1], qs[k])
    <2>1. g \in [0..m -> Shelves] /\ g[0] = b /\ \A k \in 1..m : g[k] = R[k][g[k - 1]]
      BY <1>6 DEF Iterates
    <2>2. \A k \in 1..m : k - 1 \in 0..m
      BY <1>3
    <2> QED BY <2>1, <2>2
  <1>8. Fs(g)
    <2>1. \A k \in 0..m : g[k] = IF k = 0 THEN b ELSE Placed(g[k - 1], qs[k])
      <3>1. \A k \in 0..m : k # 0 => k \in 1..m
        BY <1>3
      <3> QED BY <1>7, <3>1
    <2> QED BY <1>7, <2>1
  <1>9. Fs(w)
    BY <1>8
  <1> HIDE DEF w
  <1>10. \A k \in 1..m : w[k] = Placed(w[k - 1], qs[k])
    <2>1. \A k \in 1..m : k \in 0..m /\ k # 0
      BY <1>3
    <2> QED BY <1>9, <2>1
  <1>11. w[0] = b
    BY <1>3, <1>9
  <1>12. ASSUME NEW k \in Nat PROVE k <= m => w[k] \in Shelves
    <2> DEFINE T == {n \in Nat : n <= m => w[n] \in Shelves}
    <2>1. 0 \in T
      BY <1>2, <1>11
    <2>2. ASSUME NEW n \in Nat, n \in T PROVE n + 1 \in T
      <3> SUFFICES ASSUME n + 1 <= m PROVE w[n + 1] \in Shelves
        OBVIOUS
      <3>1. n + 1 \in 1..m /\ (n + 1) - 1 = n /\ n <= m
        BY <1>3
      <3> QED BY <1>4, <1>10, <2>2, <3>1
    <2> HIDE DEF T
    <2>3. k \in T
      BY <2>1, <2>2, SetInduction
    <2> QED BY <2>3 DEF T
  <1>13. w = [k \in 0..m |-> w[k]]
    BY <1>9
  <1>14. w \in [0..m -> Shelves]
    <2>1. \A k \in 0..m : k \in Nat /\ k <= m
      BY <1>3
    <2> QED BY <1>12, <1>13, <2>1
  <1> QED BY <1>1, <1>10, <1>14 DEF m

LEMMA PlacesApart ==
  ASSUME NEW qs \in Seq(Quads), NEW pl, pl = Packed(qs), ~pl[Len(qs)].full
  PROVE  \A j, k \in 1..Len(qs) : j < k => Apart(pl, qs, j, k)
  <1> DEFINE m == Len(qs)
  <1>1. pl \in [0..m -> Shelves] /\ \A k \in 1..m : pl[k] = Placed(pl[k - 1], qs[k])
    BY PackedIs
  <1>2. m \in Nat /\ \A k \in 1..m : qs[k] \in Quads
    <2> HIDE DEF Quads
    <2> QED OBVIOUS
  <1>3. ~pl[m].full
    OBVIOUS
  <1> HIDE DEF m
  <1>4. \A k \in 1..m : k - 1 \in 0..m /\ k \in 0..m
    BY <1>2
  <1>5. ASSUME NEW k \in 1..m PROVE ~pl[k].full => ~pl[k - 1].full /\ Put(pl[k - 1], pl[k], qs[k])
    <2>1. pl[k - 1] \in Shelves /\ pl[k] = Placed(pl[k - 1], qs[k])
      <3> HIDE DEF Shelves
      <3> QED BY <1>1, <1>4
    <2>2. qs[k] \in Quads
      BY <1>2
    <2> HIDE DEF Shelves, Quads
    <2> QED BY <2>1, <2>2, PlacedIs
  <1>6. \A k \in 0..m : ~pl[k].full
    <2> DEFINE T == {n \in Nat : n <= m => ~pl[m - n].full}
    <2>1. 0 \in T
      <3>1. m - 0 = m
        BY <1>2
      <3> QED BY <1>3, <3>1
    <2>2. ASSUME NEW n \in Nat, n \in T PROVE n + 1 \in T
      <3> SUFFICES ASSUME n + 1 <= m PROVE ~pl[m - (n + 1)].full
        OBVIOUS
      <3>1. m - n \in 1..m /\ (m - n) - 1 = m - (n + 1) /\ n <= m
        BY <1>2
      <3>2. ~pl[m - n].full
        BY <2>2, <3>1
      <3>3. ~pl[(m - n) - 1].full
        BY <1>5, <3>1, <3>2
      <3> QED BY <3>1, <3>3
    <2> HIDE DEF T
    <2>3. Nat \subseteq T
      BY <2>1, <2>2, SetInduction
    <2> SUFFICES ASSUME NEW k \in 0..m PROVE ~pl[k].full
      OBVIOUS
    <2>4. m - k \in Nat /\ m - k <= m /\ m - (m - k) = k
      BY <1>2
    <2>5. m - k \in T
      BY <2>3, <2>4
    <2> QED BY <2>4, <2>5 DEF T
  <1>7. \A k \in 1..m : Put(pl[k - 1], pl[k], qs[k])
    BY <1>4, <1>5, <1>6
  <1>8. \A k \in 0..m : pl[k].x \in Nat /\ pl[k].y \in Nat /\ pl[k].shelf \in Nat
    BY <1>1 DEF Shelves
  <1>9. \A k \in 1..m : qs[k].w \in Nat /\ qs[k].h \in Nat
    BY <1>2 DEF Quads, QuadRecords
  <1>10. ASSUME NEW k \in 1..m, NEW j \in 1..m, j <= k - 1, Above(pl, qs, j, k - 1)
         PROVE  Apart(pl, qs, j, k) /\ Above(pl, qs, j, k)
    <2> DEFINE a == pl[k - 1]
               c == pl[k]
               e == pl[j]
               w == qs[k].w
               h == qs[k].h
               g == qs[j].h
    <2>1. /\ a.x \in Nat /\ a.y \in Nat /\ a.shelf \in Nat /\ c.x \in Nat /\ c.y \in Nat /\ c.shelf \in Nat
          /\ e.x \in Nat /\ e.y \in Nat /\ w \in Nat /\ h \in Nat /\ g \in Nat
      BY <1>4, <1>8, <1>9
    <2>2. e.y + g <= a.y \/ (e.y = a.y /\ e.x <= a.x /\ g <= a.shelf)
      BY <1>10 DEF Above
    <2>3. Put(a, c, qs[k])
      BY <1>7
    <2> HIDE DEF a, c, e, w, h, g
    <2>4. CASE c.y = a.y /\ c.x = a.x + w /\ c.shelf >= a.shelf /\ c.shelf >= h
      <3>1. CASE e.y + g <= a.y
        <4>1. e.y + g <= c.y
          BY <2>4, <3>1
        <4> QED BY <4>1 DEF Apart, Above, a, c, e, g
      <3>2. CASE e.y = a.y /\ e.x <= a.x /\ g <= a.shelf
        <4>1. PICK u, v, p, o, z \in Nat : u = e.x /\ v = a.x /\ p = c.x /\ o = a.shelf /\ z = c.shelf
          BY <2>1
        <4>2. u <= v /\ p = v + w /\ z >= o /\ g <= o
          BY <2>4, <3>2, <4>1
        <4>3. u <= p - w /\ u <= p /\ g <= z
          BY <2>1, <4>2
        <4>4. e.y = c.y /\ e.x <= c.x - w /\ e.x <= c.x /\ g <= c.shelf
          BY <2>4, <3>2, <4>1, <4>3
        <4> QED BY <4>4 DEF Apart, Above, a, c, e, g, w
      <3> QED BY <2>2, <3>1, <3>2
    <2>5. CASE c.y = a.y + a.shelf /\ c.x = w /\ c.shelf = h
      <3>1. PICK u, v, p, o \in Nat : u = e.y /\ v = a.y /\ p = c.y /\ o = a.shelf
        BY <2>1
      <3>2. p = v + o /\ (u + g <= v \/ (u = v /\ g <= o))
        BY <2>2, <2>5, <3>1
      <3>3. u + g <= p
        BY <2>1, <3>2
      <3>4. e.y + g <= c.y
        BY <3>1, <3>3
      <3> QED BY <3>4 DEF Apart, Above, a, c, e, g
    <2>6. (c.y = a.y /\ c.x = a.x + w /\ c.shelf >= a.shelf /\ c.shelf >= h) \/ (c.y = a.y + a.shelf /\ c.x = w /\ c.shelf = h)
      BY <2>3 DEF Put, w, h
    <2> QED BY <2>4, <2>5, <2>6
  <1>11. ASSUME NEW k \in 1..m PROVE Above(pl, qs, k, k)
    <2> DEFINE a == pl[k - 1]
               c == pl[k]
    <2>1. a.x \in Nat /\ a.y \in Nat /\ a.shelf \in Nat /\ c.x \in Nat /\ c.y \in Nat /\ c.shelf \in Nat /\ qs[k].h \in Nat
      BY <1>4, <1>8, <1>9
    <2>2. Put(a, c, qs[k])
      BY <1>7
    <2> HIDE DEF a, c
    <2>3. c.shelf >= qs[k].h
      BY <2>1, <2>2 DEF Put
    <2> QED BY <2>1, <2>3 DEF Above, c
  <1> DEFINE T == {k \in Nat : k <= m => \A j \in 1..k : Above(pl, qs, j, k)}
  <1>12. 0 \in T
    OBVIOUS
  <1>13. ASSUME NEW k \in Nat, k \in T PROVE k + 1 \in T
    <2> SUFFICES ASSUME k + 1 <= m, NEW j \in 1..k + 1 PROVE Above(pl, qs, j, k + 1)
      OBVIOUS
    <2>1. k + 1 \in 1..m /\ j \in 1..m /\ (k + 1) - 1 = k /\ k <= m
      BY <1>2
    <2>2. CASE j = k + 1
      BY <1>11, <2>1, <2>2
    <2>3. CASE j # k + 1
      <3>1. j \in 1..k /\ j <= (k + 1) - 1
        BY <2>3
      <3>2. Above(pl, qs, j, k)
        BY <1>13, <2>1, <3>1
      <3> QED BY <1>10, <2>1, <3>1, <3>2
    <2> QED BY <2>2, <2>3
  <1> HIDE DEF T
  <1>14. Nat \subseteq T
    BY <1>12, <1>13, SetInduction
  <1>15. ASSUME NEW j \in 1..m, NEW k \in 1..m, j < k PROVE Apart(pl, qs, j, k)
    <2>1. k - 1 \in Nat /\ k - 1 <= m /\ j \in 1..k - 1 /\ j <= k - 1
      BY <1>2, <1>15
    <2>2. k - 1 \in T
      BY <1>14, <2>1
    <2>3. Above(pl, qs, j, k - 1)
      BY <2>1, <2>2 DEF T
    <2> QED BY <1>10, <2>1, <2>3
  <1> QED BY <1>15 DEF m

\* Every texel is baked to a place of its own.
LEMMA BakedIs ==
  ASSUME NEW qs \in Seq(Quads), NEW pl, pl = Packed(qs), ~pl[Len(qs)].full,
         NEW i \in 1..Len(qs), NEW t \in Cells(qs[i].h, qs[i].w)
  PROVE  Baked(qs, pl, i, t) = qs[i].ink[t]
  <1> DEFINE m == Len(qs)
             left(j) == pl[j].x - qs[j].w
             x  == left(i) + t[2]
             y  == pl[i].y + t[1]
             on == {j \in DOMAIN qs : left(j) <= x /\ x < pl[j].x /\ pl[j].y <= y /\ y < pl[j].y + qs[j].h}
  <1>1. pl \in [0..m -> Shelves] /\ \A j, k \in 1..m : j < k => Apart(pl, qs, j, k)
    BY PackedIs, PlacesApart
  <1>2. m \in Nat /\ DOMAIN qs = 1..m /\ i \in 1..m /\ \A k \in 1..m : qs[k] \in Quads
    <2> HIDE DEF Quads
    <2> QED OBVIOUS
  <1>3. ASSUME NEW k \in 1..m PROVE pl[k].x \in Nat /\ pl[k].y \in Nat /\ qs[k].w \in Nat /\ qs[k].h \in Nat
    <2>1. pl[k] \in Shelves
      <3> HIDE DEF Shelves
      <3>1. k \in 0..m
        BY <1>2
      <3> QED BY <1>1, <3>1
    <2>2. qs[k] \in Quads
      BY <1>2
    <2> QED BY <2>1, <2>2 DEF Shelves, Quads, QuadRecords
  <1>4. t[1] \in 0..qs[i].h - 1 /\ t[2] \in 0..qs[i].w - 1 /\ t = <<t[1], t[2]>>
    BY DEF Cells
  <1>5. Baked(qs, pl, i, t) = qs[Max(on)].ink[<<y - pl[Max(on)].y, x - left(Max(on))>>]
    BY DEF Baked
  <1> HIDE DEF m
  <1>6. /\ x \in Int /\ y \in Int /\ left(i) <= x /\ x < pl[i].x /\ pl[i].y <= y /\ y < pl[i].y + qs[i].h
        /\ y - pl[i].y = t[1] /\ x - left(i) = t[2]
    <2>1. PICK a, b, w, h \in Nat : a = pl[i].x /\ b = pl[i].y /\ w = qs[i].w /\ h = qs[i].h
      BY <1>2, <1>3
    <2>2. PICK u, v \in Int : u = t[1] /\ v = t[2] /\ u \in 0..h - 1 /\ v \in 0..w - 1
      BY <1>4, <2>1
    <2>3. x = (a - w) + v /\ y = b + u /\ left(i) = a - w
      BY <2>1, <2>2
    <2>4. /\ (a - w) + v \in Int /\ b + u \in Int /\ a - w <= (a - w) + v /\ (a - w) + v < a
          /\ b <= b + u /\ b + u < b + h /\ (b + u) - b = u /\ ((a - w) + v) - (a - w) = v
      <3>1. 0 <= u /\ u <= h - 1 /\ 0 <= v /\ v <= w - 1
        BY <2>2
      <3> QED BY <3>1
    <2> HIDE DEF x, y, left
    <2> QED BY <2>1, <2>2, <2>3, <2>4
  <1>7. y - pl[i].y = t[1] /\ x - left(i) = t[2]
    BY <1>6
  <1>8. ASSUME NEW j \in 1..m, left(j) <= x, x < pl[j].x, pl[j].y <= y, y < pl[j].y + qs[j].h PROVE j = i
    <2> DEFINE a == pl[j]
               b == pl[i]
    <2>1. /\ a.x \in Nat /\ a.y \in Nat /\ b.x \in Nat /\ b.y \in Nat
          /\ qs[j].w \in Nat /\ qs[j].h \in Nat /\ qs[i].w \in Nat /\ qs[i].h \in Nat
      BY <1>2, <1>3
    <2>2. /\ a.x - qs[j].w <= x /\ x < a.x /\ a.y <= y /\ y < a.y + qs[j].h
          /\ b.x - qs[i].w <= x /\ x < b.x /\ b.y <= y /\ y < b.y + qs[i].h /\ x \in Int /\ y \in Int
      BY <1>6, <1>8
    <2>3. j < i => a.y + qs[j].h <= b.y \/ (a.y = b.y /\ a.x <= b.x - qs[i].w)
      BY <1>1, <1>2 DEF Apart
    <2>4. i < j => b.y + qs[i].h <= a.y \/ (b.y = a.y /\ b.x <= a.x - qs[j].w)
      BY <1>1, <1>2 DEF Apart
    <2> HIDE DEF a, b, x, y
    <2>7. PICK o, p, c, d, w, h, u, v \in Nat : /\ o = a.x /\ p = a.y /\ c = b.x /\ d = b.y
            /\ w = qs[j].w /\ h = qs[j].h /\ u = qs[i].w /\ v = qs[i].h
      BY <2>1
    <2>8. /\ x \in Int /\ y \in Int /\ o - w <= x /\ x < o /\ p <= y /\ y < p + h
          /\ c - u <= x /\ x < c /\ d <= y /\ y < d + v
      BY <2>2, <2>7
    <2>9. PICK r, s \in Int : /\ o - w <= r /\ r < o /\ p <= s /\ s < p + h
            /\ c - u <= r /\ r < c /\ d <= s /\ s < d + v
      BY <2>8
    <2>5. ~(j < i)
      <3>1. j < i => p + h <= d \/ (p = d /\ o <= c - u)
        BY <2>3, <2>7
      <3>2. ~(p + h <= d) /\ ~(o <= c - u)
        BY <2>9
      <3> QED BY <3>1, <3>2
    <2>6. ~(i < j)
      <3>1. i < j => d + v <= p \/ (d = p /\ c <= o - w)
        BY <2>4, <2>7
      <3>2. ~(d + v <= p) /\ ~(c <= o - w)
        BY <2>9
      <3> QED BY <3>1, <3>2
    <2> QED BY <1>2, <2>5, <2>6
  <1>9. on = {i}
    BY <1>2, <1>6, <1>8
  <1>10. Max({i}) = i
    BY <1>2 DEF Max
  <1>11. Max(on) = i
    BY <1>9, <1>10
  <1> HIDE DEF on, x, y
  <1>12. Baked(qs, pl, i, t) = qs[i].ink[<<y - pl[i].y, x - left(i)>>]
    BY <1>5, <1>11
  <1> HIDE DEF left
  <1> QED BY <1>4, <1>7, <1>12

\* What is drawn from the atlas are the quads themselves.
LEMMA AtlasHolds ==
  ASSUME NEW qs \in Seq(Quads), ~Packed(qs)[Len(qs)].full
  PROVE  FromAtlas(qs) = qs
  <1>1. PICK pl : pl = Packed(qs)
    OBVIOUS
  <1>2. FromAtlas(qs) = [i \in DOMAIN qs |-> [qs[i] EXCEPT !.ink = [t \in DOMAIN qs[i].ink |-> Baked(qs, pl, i, t)]]]
    BY <1>1 DEF FromAtlas
  <1>3. ASSUME NEW i \in 1..Len(qs) PROVE [qs[i] EXCEPT !.ink = [t \in DOMAIN qs[i].ink |-> Baked(qs, pl, i, t)]] = qs[i]
    <2>1. PICK q : q = qs[i]
      OBVIOUS
    <2>2. q \in Quads
      <3> HIDE DEF Quads
      <3> QED BY <2>1
    <2>3. q.ink \in [Cells(q.h, q.w) -> Int] /\ q \in QuadRecords
      BY <2>2 DEF Quads
    <2>4. \A t \in Cells(q.h, q.w) : Baked(qs, pl, i, t) = q.ink[t]
      BY <1>1, <2>1, BakedIs
    <2>5. [t \in DOMAIN q.ink |-> Baked(qs, pl, i, t)] = q.ink
      BY <2>3, <2>4
    <2>6. [q EXCEPT !.ink = q.ink] = q
      <3> HIDE DEF Inks
      <3> QED BY <2>3 DEF QuadRecords
    <2> QED BY <2>1, <2>5, <2>6
  <1>4. DOMAIN qs = 1..Len(qs) /\ qs = [i \in DOMAIN qs |-> qs[i]]
    <2> HIDE DEF Quads
    <2> QED OBVIOUS
  <1> QED BY <1>2, <1>3, <1>4
-----------------------------------------------------------------------------
(* What is painted. *)

LEMMA DivAtLeast ==
  ASSUME NEW t \in Nat, t > 0, NEW x \in Int, NEW c \in Int
  PROVE  x \div t >= c <=> x >= c * t
  <1>1. PICK d, r \in Int : d = x \div t /\ x = d * t + r /\ 0 <= r /\ r < t
    <2>1. x = t * (x \div t) + (x % t) /\ (x % t) \in 0..t - 1 /\ (x \div t) \in Int
      OBVIOUS
    <2> QED BY <2>1
  <1>2. PICK dt, ct \in Int : dt = d * t /\ ct = c * t
    OBVIOUS
  <1>3. d >= c => x >= ct
    <2> SUFFICES ASSUME d >= c PROVE x >= ct
      OBVIOUS
    <2>1. PICK e \in Nat : e = d - c
      OBVIOUS
    <2>2. e * t \in Nat /\ e * t = dt - ct
      BY <1>2, <2>1
    <2> QED BY <1>1, <1>2, <2>2
  <1>4. d < c => x < ct
    <2> SUFFICES ASSUME d < c PROVE x < ct
      OBVIOUS
    <2>1. PICK e \in Nat : e = c - d - 1
      OBVIOUS
    <2>2. e * t \in Nat /\ e * t = ct - dt - t
      BY <1>2, <2>1
    <2> QED BY <1>1, <1>2, <2>2
  <1> QED BY <1>1, <1>2, <1>3, <1>4

\* The columns that lie in tiles of the level and on the layer are those of the clip.
LEMMA ShownIsClip ==
  ASSUME NEW n \in Nat, NEW c1 \in Nat, NEW c2 \in Nat, NEW x \in Int
  PROVE  (x \in 0..n - 1 /\ x \div Tile \in c1..c2 - 1) <=> x \in c1 * Tile..Min({c2 * Tile, n}) - 1
  <1>1. PICK t \in Nat : t = Tile /\ t > 0
    BY ViewAssumption DEF ViewSizes
  <1>2. PICK lo, hi \in Nat : lo = c1 * t /\ hi = c2 * t
    BY <1>1
  <1>3. PICK d \in Int : d = x \div t
    BY <1>1
  <1>4. d >= c1 <=> x >= lo
    BY <1>1, <1>2, <1>3, DivAtLeast
  <1>5. d >= c2 <=> x >= hi
    BY <1>1, <1>2, <1>3, DivAtLeast
  <1>6. Min({hi, n}) = IF hi <= n THEN hi ELSE n
    BY <1>2, MinOfTwo
  <1>7. PICK m \in Int : m = Min({hi, n}) /\ m = IF hi <= n THEN hi ELSE n
    BY <1>6
  <1>8. (x \in 0..n - 1 /\ d \in c1..c2 - 1) <=> x \in lo..m - 1
    <2>1. d \in c1..c2 - 1 <=> (x >= lo /\ ~(x >= hi))
      BY <1>4, <1>5
    <2> HIDE DEF Min
    <2> QED BY <2>1, <1>7
  <1> QED BY <1>1, <1>2, <1>3, <1>7, <1>8

\* The columns of a window's scissor are those the clip leaves.
LEMMA ScissorIsClip ==
  ASSUME NEW c1 \in Int, NEW c2 \in Int, NEW l \in Int, NEW w \in Nat, NEW x \in 0..w - 1
  PROVE  x \in Max({0, c1 - l})..Min({c2 - l, w}) - 1 <=> x + l \in c1..c2 - 1
  <1>1. PICK a, b \in Int : a = c1 - l /\ b = c2 - l
    OBVIOUS
  <1>2. Max({0, a}) = IF 0 >= a THEN 0 ELSE a
    BY MaxOfTwo
  <1>3. Min({b, w}) = IF b <= w THEN b ELSE w
    BY MinOfTwo
  <1>4. x \in a..b - 1 <=> x + l \in c1..c2 - 1
    BY <1>1
  <1>5. PICK u, v \in Int : u = Max({0, a}) /\ v = Min({b, w}) /\ u = (IF 0 >= a THEN 0 ELSE a) /\ v = (IF b <= w THEN b ELSE w)
    BY <1>2, <1>3
  <1>6. x \in u..v - 1 <=> x \in a..b - 1
    BY <1>5
  <1> QED BY <1>1, <1>4, <1>5, <1>6

\* A dot is covered at a texel of the quad.
LEMMA CoveredAt ==
  ASSUME NEW q \in Quads, NEW sp, NEW x \in Int, NEW y \in Int, Covers(q, sp, x, y)
  PROVE  q.ink[<<y - q.y, x - q.x>>] \in Int
  <1>1. q.x \in Int /\ q.y \in Int /\ q.w \in Nat /\ q.h \in Nat /\ q.ink \in [Cells(q.h, q.w) -> Int]
    BY DEF Quads, QuadRecords
  <1>2. PICK a, b \in Int, w, h \in Nat : a = q.x /\ b = q.y /\ w = q.w /\ h = q.h
    BY <1>1
  <1>3. a <= x /\ x < a + w /\ b <= y /\ y < b + h
    BY <1>2 DEF Covers
  <1>4. y - b \in 0..h - 1 /\ x - a \in 0..w - 1
    BY <1>2, <1>3
  <1>5. <<y - b, x - a>> \in Cells(h, w)
    BY <1>4 DEF Cells
  <1> QED BY <1>1, <1>2, <1>5

\* What is painted is the last quad over the dot, or what lies under them all.
LastOver(qs, sp, x, y, n, i) == i \in 1..n /\ Covers(qs[i], sp, x, y) /\ \A j \in 1..n : j > i => ~Covers(qs[j], sp, x, y)
InkOver(q, x, y) == <<y, q.ink[<<y - q.y, x - q.x>>]>>

LEMMA PaintedIs ==
  ASSUME NEW qs \in Seq(Quads), NEW sp, NEW x, NEW y, NEW under
  PROVE  /\ (\A i \in 1..Len(qs) : ~Covers(qs[i], sp, x, y)) => Painted(qs, sp, x, y, under) = under
         /\ \A i : LastOver(qs, sp, x, y, Len(qs), i) => Painted(qs, sp, x, y, under) = InkOver(qs[i], x, y)
         /\ (\E i \in 1..Len(qs) : Covers(qs[i], sp, x, y)) => \E i : LastOver(qs, sp, x, y, Len(qs), i)
  <1> DEFINE on == {i \in DOMAIN qs : Covers(qs[i], sp, x, y)}
  <1>1. Len(qs) \in Nat /\ DOMAIN qs = 1..Len(qs)
    <2> HIDE DEF Quads
    <2> QED OBVIOUS
  <1>2. on \subseteq 1..Len(qs) /\ on \subseteq Int
    BY <1>1
  <1>3. Painted(qs, sp, x, y, under) = IF on = {} THEN under ELSE InkOver(qs[Max(on)], x, y)
    BY DEF Painted, InkOver
  <1>4. ASSUME NEW i, LastOver(qs, sp, x, y, Len(qs), i) PROVE on # {} /\ Max(on) = i
    <2>1. i \in on /\ \A j \in on : ~(j > i)
      BY <1>1, <1>4 DEF LastOver
    <2>2. \A j \in on : j <= i
      BY <1>2, <2>1
    <2> HIDE DEF on
    <2>3. Max(on) = i
      BY <1>2, <2>1, <2>2, MaxIsIt
    <2> QED BY <2>1, <2>3
  <1>5. ASSUME on # {} PROVE LastOver(qs, sp, x, y, Len(qs), Max(on))
    <2>1. Max(on) \in on /\ \A j \in on : j <= Max(on)
      <3> HIDE DEF on
      <3> QED BY <1>1, <1>2, <1>5, MaxOf
    <2>2. PICK m : m = Max(on)
      OBVIOUS
    <2>3. m \in 1..Len(qs) /\ Covers(qs[m], sp, x, y) /\ \A j \in 1..Len(qs) : Covers(qs[j], sp, x, y) => j <= m
      BY <1>1, <2>1, <2>2
    <2>4. \A j \in 1..Len(qs) : j > m => ~(j <= m)
      BY <1>1, <2>3
    <2> QED BY <2>2, <2>3, <2>4 DEF LastOver
  <1>6. on = {} <=> \A i \in 1..Len(qs) : ~Covers(qs[i], sp, x, y)
    BY <1>1
  <1> HIDE DEF on
  <1> QED BY <1>3, <1>4, <1>5, <1>6

\* A dot of the world after so many quads have been laid over it.
Dots == (Int \X Int) \X BOOLEAN
Behind(qs, x, y, n) == \E i \in 1..n : qs[i].shadow /\ \A j \in i..n : ~Covers(qs[j], "world", x, y)
DotIs(qs, x, y, under, n, d) ==
  /\ d \in Dots /\ (d[2] => Behind(qs, x, y, n))
  /\ \/ d[1] = under /\ \A i \in 1..n : ~Covers(qs[i], "world", x, y)
     \/ \E i : LastOver(qs, "world", x, y, n, i) /\ d[1] = InkOver(qs[i], x, y)

LEMMA LaidIs ==
  ASSUME NEW f, NEW q \in Quads, NEW x \in Int, NEW y \in Int, NEW d \in Dots
  PROVE  /\ Laid(f, q, x, y, d) \in Dots
         /\ Covers(q, "world", x, y) => Laid(f, q, x, y, d)[1] = InkOver(q, x, y) /\ ~Laid(f, q, x, y, d)[2]
         /\ ~Covers(q, "world", x, y) => /\ Laid(f, q, x, y, d)[1] = d[1]
                                         /\ Laid(f, q, x, y, d)[2] => d[2] \/ q.shadow
  <1> DEFINE c == Covers(q, "world", x, y)
             e == f.shadows /\ q.shadow /\ Covers([q EXCEPT !.x = @ + 1, !.y = @ + 1], "world", x, y)
             k == InkOver(q, x, y)
             z == Laid(f, q, x, y, d)
  <1>1. z = IF c THEN <<k, FALSE>> ELSE IF e THEN <<d[1], TRUE>> ELSE d
    BY DEF Laid, InkOver
  <1>2. c => k \in Int \X Int
    BY CoveredAt DEF InkOver
  <1>3. e => q.shadow
    OBVIOUS
  <1>4. d[1] \in Int \X Int /\ d[2] \in BOOLEAN
    BY DEF Dots
  <1> HIDE DEF c, e, k, z
  <1>5. CASE c
    <2>1. z = <<k, FALSE>> /\ k \in Int \X Int
      BY <1>1, <1>2, <1>5
    <2>2. z \in Dots
      BY <2>1 DEF Dots
    <2> QED BY <1>5, <2>1, <2>2 DEF c, k, z
  <1>6. CASE ~c /\ e
    <2>1. z = <<d[1], TRUE>>
      BY <1>1, <1>6
    <2>2. z \in Dots
      BY <1>4, <2>1 DEF Dots
    <2>3. z[1] = d[1] /\ q.shadow
      BY <1>3, <1>6, <2>1
    <2> QED BY <1>6, <2>2, <2>3 DEF c, z
  <1>7. CASE ~c /\ ~e
    <2>1. z = d
      BY <1>1, <1>7
    <2> QED BY <1>7, <2>1 DEF c, z
  <1> QED BY <1>5, <1>6, <1>7

LEMMA DotNext ==
  ASSUME NEW f, NEW qs \in Seq(Quads), NEW x \in Int, NEW y \in Int, NEW under,
         NEW n \in Nat, n + 1 <= Len(qs), NEW d, DotIs(qs, x, y, under, n, d)
  PROVE  DotIs(qs, x, y, under, n + 1, Laid(f, qs[n + 1], x, y, d))
  <1> DEFINE q == qs[n + 1]
             z == Laid(f, q, x, y, d)
             over(i) == Covers(qs[i], "world", x, y)
  <1>1. q \in Quads /\ d \in Dots
    <2>1. n + 1 \in 1..Len(qs)
      OBVIOUS
    <2> HIDE DEF Quads
    <2> QED BY <2>1 DEF DotIs
  <1>2. z \in Dots /\ (over(n + 1) => z[1] = InkOver(q, x, y) /\ ~z[2]) /\ (~over(n + 1) => z[1] = d[1] /\ (z[2] => d[2] \/ q.shadow))
    <2>1. PICK p : p = q
      OBVIOUS
    <2>2. p \in Quads
      BY <1>1, <2>1
    <2> DEFINE a == Laid(f, p, x, y, d)
    <2>3. /\ a \in Dots /\ (Covers(p, "world", x, y) => a[1] = InkOver(p, x, y) /\ ~a[2])
          /\ ~Covers(p, "world", x, y) => a[1] = d[1] /\ (a[2] => d[2] \/ p.shadow)
      BY <1>1, <2>2, LaidIs
    <2>4. over(n + 1) <=> Covers(p, "world", x, y)
      BY <2>1
    <2>5. z = a
      BY <2>1
    <2> HIDE DEF z, a, over, q
    <2> QED BY <2>1, <2>3, <2>4, <2>5
  <1>3. \A i \in 1..n + 1 : i \in 1..n \/ i = n + 1
    OBVIOUS
  <1> HIDE DEF z
  <1>4. CASE over(n + 1)
    <2>1. z[1] = InkOver(q, x, y) /\ ~z[2]
      BY <1>2, <1>4
    <2>2. LastOver(qs, "world", x, y, n + 1, n + 1)
      <3>1. n + 1 \in 1..n + 1 /\ \A j \in 1..n + 1 : ~(j > n + 1)
        OBVIOUS
      <3> QED BY <1>4, <3>1 DEF LastOver
    <2>3. \E i : LastOver(qs, "world", x, y, n + 1, i) /\ z[1] = InkOver(qs[i], x, y)
      BY <2>1, <2>2
    <2>4. DotIs(qs, x, y, under, n + 1, z)
      BY <1>2, <2>1, <2>3 DEF DotIs
    <2> QED BY <2>4 DEF z
  <1>5. CASE ~over(n + 1)
    <2>1. z[1] = d[1] /\ (z[2] => d[2] \/ q.shadow)
      BY <1>2, <1>5
    <2>2. z[2] => Behind(qs, x, y, n + 1)
      <3>1. ASSUME d[2] PROVE Behind(qs, x, y, n + 1)
        <4>1. PICK i \in 1..n : qs[i].shadow /\ \A j \in i..n : ~over(j)
          BY <3>1 DEF DotIs, Behind
        <4>2. i \in 1..n + 1 /\ \A j \in i..n + 1 : j \in i..n \/ j = n + 1
          OBVIOUS
        <4>3. \A j \in i..n + 1 : ~over(j)
          BY <1>5, <4>1, <4>2
        <4> QED BY <4>1, <4>2, <4>3 DEF Behind
      <3>2. ASSUME q.shadow PROVE Behind(qs, x, y, n + 1)
        <4>1. n + 1 \in 1..n + 1 /\ \A j \in n + 1..n + 1 : j = n + 1
          OBVIOUS
        <4> QED BY <1>5, <3>2, <4>1 DEF Behind
      <3> QED BY <2>1, <3>1, <3>2
    <2>3. CASE d[1] = under /\ \A i \in 1..n : ~over(i)
      <3>1. z[1] = under /\ \A i \in 1..n + 1 : ~over(i)
        BY <1>3, <1>5, <2>1, <2>3
      <3>2. DotIs(qs, x, y, under, n + 1, z)
        BY <1>2, <2>2, <3>1 DEF DotIs
      <3> QED BY <3>2 DEF z
    <2>4. ASSUME NEW i, LastOver(qs, "world", x, y, n, i), d[1] = InkOver(qs[i], x, y)
          PROVE  DotIs(qs, x, y, under, n + 1, z)
      <3>1. i \in 1..n /\ over(i) /\ \A j \in 1..n : j > i => ~over(j)
        BY <2>4 DEF LastOver
      <3>2. i \in 1..n + 1 /\ \A j \in 1..n + 1 : j > i => ~over(j)
        BY <1>3, <1>5, <3>1
      <3>3. LastOver(qs, "world", x, y, n + 1, i)
        BY <3>1, <3>2 DEF LastOver
      <3>4. z[1] = InkOver(qs[i], x, y)
        BY <2>1, <2>4
      <3> QED BY <1>2, <2>2, <3>3, <3>4 DEF DotIs
    <2>5. DotIs(qs, x, y, under, n + 1, z)
      BY <2>3, <2>4 DEF DotIs, z
    <2> QED BY <2>5 DEF z
  <1> QED BY <1>4, <1>5

LEMMA OverlaidIs ==
  ASSUME NEW f, NEW qs \in Seq(Quads), NEW x \in Int, NEW y \in Int, NEW under \in Int \X Int
  PROVE  DotIs(qs, x, y, under, Len(qs), Overlaid(f, qs, x, y, <<under, FALSE>>))
  <1> DEFINE m == Len(qs)
             b == <<under, FALSE>>
             R == [k \in 1..m |-> [d \in Dots |-> Laid(f, qs[k], x, y, d)]]
             Fs(g) == g = [n \in 0..m |-> IF n = 0 THEN b ELSE Laid(f, qs[n], x, y, g[n - 1])]
             w == CHOOSE g : Fs(g)
  <1>1. m \in Nat /\ \A k \in 1..m : qs[k] \in Quads
    <2> HIDE DEF Quads
    <2> QED OBVIOUS
  <1>2. b \in Dots /\ b[1] = under /\ ~b[2]
    BY DEF Dots
  <1>3. Overlaid(f, qs, x, y, b) = w[m]
    BY DEF Overlaid
  <1>4. \A d \in Dots, k \in 1..m : Laid(f, qs[k], x, y, d) \in Dots
    BY <1>1, LaidIs
  <1> HIDE DEF m, b, Dots, Quads
  <1>5. R \in [1..m -> [Dots -> Dots]]
    BY <1>4
  <1>6. PICK g : Iterates(g, m, Dots, b, R)
    <2> HIDE DEF R
    <2> QED BY <1>1, <1>2, <1>5, Iterated
  <1>7. g \in [0..m -> Dots] /\ g[0] = b /\ \A k \in 1..m : g[k] = Laid(f, qs[k], x, y, g[k - 1])
    <2>1. g \in [0..m -> Dots] /\ g[0] = b /\ \A k \in 1..m : g[k] = R[k][g[k - 1]]
      BY <1>6 DEF Iterates
    <2>2. \A k \in 1..m : k - 1 \in 0..m
      BY <1>1
    <2> QED BY <2>1, <2>2
  <1>8. Fs(g)
    <2>1. \A n \in 0..m : g[n] = IF n = 0 THEN b ELSE Laid(f, qs[n], x, y, g[n - 1])
      <3>1. \A n \in 0..m : n # 0 => n \in 1..m
        BY <1>1
      <3> QED BY <1>7, <3>1
    <2> QED BY <1>7, <2>1
  <1>9. Fs(w)
    BY <1>8
  <1> HIDE DEF w
  <1> DEFINE T == {n \in Nat : n <= m => DotIs(qs, x, y, under, n, w[n])}
  <1>10. 0 \in T
    <2>1. w[0] = b
      BY <1>1, <1>9
    <2>2. DotIs(qs, x, y, under, 0, b)
      BY <1>2 DEF DotIs
    <2> QED BY <2>1, <2>2
  <1>11. ASSUME NEW n \in Nat, n \in T PROVE n + 1 \in T
    <2> SUFFICES ASSUME n + 1 <= m PROVE DotIs(qs, x, y, under, n + 1, w[n + 1])
      OBVIOUS
    <2>1. n + 1 \in 0..m /\ n + 1 # 0 /\ (n + 1) - 1 = n /\ n <= m
      BY <1>1
    <2>2. w[n + 1] = Laid(f, qs[n + 1], x, y, w[n])
      BY <1>9, <2>1
    <2>3. DotIs(qs, x, y, under, n, w[n])
      BY <1>11, <2>1
    <2>4. n + 1 <= Len(qs)
      BY DEF m
    <2> QED BY <2>2, <2>3, <2>4, DotNext
  <1> HIDE DEF T
  <1>12. m \in T
    BY <1>1, <1>10, <1>11, SetInduction
  <1> QED BY <1>1, <1>3, <1>12 DEF T, m, b

\* What the GPU has laid over a dot is what is painted there, and its shadow falls behind.
LEMMA LaidOver ==
  ASSUME NEW f, NEW qs \in Seq(Quads), NEW x \in Int, NEW y \in Int, NEW under \in Int \X Int
  PROVE  LET d == Overlaid(f, qs, x, y, <<under, FALSE>>)
         IN d[1] = Painted(qs, "world", x, y, under) /\ (d[2] => Behind(qs, x, y, Len(qs)))
  <1>0. PICK d : d = Overlaid(f, qs, x, y, <<under, FALSE>>)
    OBVIOUS
  <1>1. DotIs(qs, x, y, under, Len(qs), d)
    BY <1>0, OverlaidIs
  <1>2. d[2] => Behind(qs, x, y, Len(qs))
    BY <1>1 DEF DotIs
  <1>3. /\ (\A i \in 1..Len(qs) : ~Covers(qs[i], "world", x, y)) => Painted(qs, "world", x, y, under) = under
        /\ \A i : LastOver(qs, "world", x, y, Len(qs), i) => Painted(qs, "world", x, y, under) = InkOver(qs[i], x, y)
    BY PaintedIs
  <1> DEFINE n == Len(qs)
             c(i) == Covers(qs[i], "world", x, y)
             l(i) == LastOver(qs, "world", x, y, n, i)
             k(i) == InkOver(qs[i], x, y)
             v == Painted(qs, "world", x, y, under)
  <1>4. \/ d[1] = under /\ \A i \in 1..n : ~c(i)
        \/ \E i : l(i) /\ d[1] = k(i)
    BY <1>1 DEF DotIs
  <1>5. ((\A i \in 1..n : ~c(i)) => v = under) /\ \A i : l(i) => v = k(i)
    BY <1>3
  <1> HIDE DEF n, c, l, k, v
  <1>6. d[1] = v
    BY <1>4, <1>5
  <1> QED BY <1>0, <1>2, <1>6 DEF v
-----------------------------------------------------------------------------
(* The scene that is composed and presented. *)

Fitting == ~Packed(scene.quads)[Len(scene.quads)].full

\* A picture composed wide is painted with the list that was built for it.
Composed == /\ DrawsWide(frame) /\ of = frame /\ layer >= Columns(frame)[2] * Tile
            /\ scene = Built(frame, layer) /\ out = WidePicture(frame, scene, layer)
SceneTypes == /\ frame \in Frames /\ layer \in Nat /\ layer >= LayerMin /\ ready \in BOOLEAN /\ of \in Frames
              /\ DOMAIN out = Lines \X (0..frame.ow - 1)
Presented == /\ seen[1] = "scene" => ready
             /\ SamePicture /\ ShadowsBehind
SceneInv == SceneTypes /\ (ready => Composed) /\ Presented

\* What a dot of the playfield is painted with.
FieldAt(s, p) == IF p[2] + s.left \in s.clip[1]..s.clip[2] - 1
                   THEN Painted(s.quads, "world", p[2] + s.left, p[1], Background(p[1])) ELSE Background(p[1])
DotAt(s, p) == Painted(s.quads, "screen", p[2], p[1], FieldAt(s, p))

LEMMA DotsAre ==
  ASSUME NEW f \in Frames, NEW p \in Lines \X (0..f.ow - 1)
  PROVE  p[1] \in Nat /\ p[1] \in Lines /\ p[2] \in Nat /\ p[2] \in 0..f.ow - 1 /\ f.ow \in Nat
  BY FrameIs DEF Lines, Whole

LEMMA EngineDots == ASSUME NEW f PROVE DOMAIN EnginePicture(f) = Lines \X (0..f.ow - 1)
  BY DEF EnginePicture
LEMMA WideDots == ASSUME NEW f, NEW s, NEW n PROVE DOMAIN WidePicture(f, s, n) = Lines \X (0..f.ow - 1)
  BY EngineDots DEF WidePicture

LEMMA WideIs ==
  ASSUME NEW f \in Frames, Wide(f), NEW n \in Nat, Five(f) # {}, NEW s, s = Built(f, n),
         NEW p \in Lines \X (0..f.ow - 1), p[1] \in s.rows[1]..s.rows[2] - 1, f.five[p[1]]
  PROVE  WidePicture(f, s, n)[p] = DotAt(s, p)
  <1> DEFINE x == s.left + p[2]
             c == Columns(f)
             v == Background(p[1])
             shown == x \in 0..n - 1 /\ x \div Tile \in c[1]..c[2] - 1
             fd == IF shown THEN Painted(s.quads, "world", x, p[1], v) ELSE v
  <1>1. WidePicture(f, s, n)[p] = Painted(s.quads, "screen", p[2], p[1], fd)
    BY EngineDots DEF WidePicture, WorldAt
  <1>2. s.left \in Int /\ s.clip = Empty(f, n).clip
    BY BuiltIs DEF Scenes
  <1>3. s.clip = <<c[1] * Tile, Min({c[2] * Tile, n})>>
    BY <1>2 DEF Empty
  <1>4. x = p[2] + s.left /\ x \in Int
    BY <1>2, DotsAre
  <1>5. c[1] \in Nat /\ c[2] \in Nat
    BY ColumnsAre
  <1>6. shown <=> x \in s.clip[1]..s.clip[2] - 1
    <2>1. s.clip[1] = c[1] * Tile /\ s.clip[2] = Min({c[2] * Tile, n})
      BY <1>3
    <2>3. PICK a, b \in Nat, z \in Int : a = c[1] /\ b = c[2] /\ z = x
      BY <1>4, <1>5
    <2>4. (z \in 0..n - 1 /\ z \div Tile \in a..b - 1) <=> z \in a * Tile..Min({b * Tile, n}) - 1
      BY ShownIsClip
    <2> HIDE DEF x, c
    <2>2. shown <=> x \in c[1] * Tile..Min({c[2] * Tile, n}) - 1
      BY <2>3, <2>4
    <2> HIDE DEF shown
    <2> QED BY <2>1, <2>2
  <1> HIDE DEF shown, x
  <1>7. fd = FieldAt(s, p)
    BY <1>4, <1>6 DEF FieldAt
  <1> HIDE DEF fd
  <1> QED BY <1>1, <1>7 DEF DotAt

\* The pictures the two kinds of window draw of a list that is held whole.
LEMMA WindowIs ==
  ASSUME NEW f, NEW s, FromAtlas(s.quads) = s.quads, NEW p \in DOMAIN out, p[1] \in s.rows[1]..s.rows[2] - 1
  PROVE  WindowPicture(f, s)[p] = DotAt(s, p)
  BY DEF WindowPicture, DotAt, FieldAt

GpuBase(s, p)  == IF p[1] \in s.rows[1]..s.rows[2] - 1 THEN <<Background(p[1]), FALSE>> ELSE <<out[p], FALSE>>
GpuCols(f, s)  == Max({0, s.clip[1] - s.left})..Min({s.clip[2] - s.left, f.ow}) - 1
GpuField(f, s, p) == IF p[1] \in s.rows[1]..s.rows[2] - 1 /\ p[2] \in GpuCols(f, s)
                       THEN Overlaid(f, s.quads, p[2] + s.left, p[1], GpuBase(s, p)) ELSE GpuBase(s, p)
GpuTop(s, p) == Painted(s.quads, "screen", p[2], p[1], <<-1, 0>>)

LEMMA GpuPaints ==
  ASSUME NEW f, NEW s, FromAtlas(s.quads) = s.quads, NEW p \in DOMAIN out
  PROVE  GpuPicture(f, s)[p] = IF GpuTop(s, p)[1] # -1 THEN <<GpuTop(s, p), FALSE>> ELSE GpuField(f, s, p)
  BY DEF GpuPicture, GpuBase, GpuCols, GpuField, GpuTop

LEMMA TopIs ==
  ASSUME NEW qs \in Seq(Quads), NEW x, NEW y \in Nat, NEW under, NEW t, t = Painted(qs, "screen", x, y, <<-1, 0>>)
  PROVE  Painted(qs, "screen", x, y, under) = IF t[1] # -1 THEN t ELSE under
  <1> DEFINE n == Len(qs)
             c(i) == Covers(qs[i], "screen", x, y)
             l(i) == LastOver(qs, "screen", x, y, n, i)
             k(i) == InkOver(qs[i], x, y)
             v == Painted(qs, "screen", x, y, under)
             u == Painted(qs, "screen", x, y, <<-1, 0>>)
  <1>1. /\ (\A i \in 1..n : ~c(i)) => v = under
        /\ \A i : l(i) => v = k(i)
        /\ (\E i \in 1..n : c(i)) => \E i : l(i)
    BY PaintedIs
  <1>2. /\ (\A i \in 1..n : ~c(i)) => u = <<-1, 0>>
        /\ \A i : l(i) => u = k(i)
    BY PaintedIs
  <1>3. t = u
    OBVIOUS
  <1>4. \A i : k(i)[1] = y
    BY DEF InkOver
  <1> HIDE DEF n, c, l, k, v, u
  <1>5. CASE \A i \in 1..n : ~c(i)
    <2>1. v = under /\ t = <<-1, 0>>
      BY <1>1, <1>2, <1>3, <1>5
    <2>2. t[1] = -1
      BY <2>1
    <2>3. v = IF t[1] # -1 THEN t ELSE under
      BY <2>1, <2>2
    <2> QED BY <2>3 DEF v
  <1>6. CASE \E i \in 1..n : c(i)
    <2>1. PICK i : l(i)
      BY <1>1, <1>6
    <2>2. v = k(i) /\ t = k(i) /\ k(i)[1] = y
      BY <1>1, <1>2, <1>3, <1>4, <2>1
    <2>3. t[1] # -1
      BY <2>2
    <2> QED BY <2>2, <2>3 DEF v
  <1> QED BY <1>5, <1>6

LEMMA GpuIs ==
  ASSUME NEW f \in Frames, NEW s \in Scenes, FromAtlas(s.quads) = s.quads,
         NEW p \in Lines \X (0..f.ow - 1), p \in DOMAIN out, NEW g, g = GpuPicture(f, s)[p]
  PROVE  /\ p[1] \in s.rows[1]..s.rows[2] - 1 => g[1] = DotAt(s, p)
         /\ g[2] => /\ p[1] \in s.rows[1]..s.rows[2] - 1
                    /\ Behind(s.quads, p[2] + s.left, p[1], Len(s.quads))
  <1> DEFINE y == p[1]
             x == p[2] + s.left
             b == Background(p[1])
             in == p[1] \in s.rows[1]..s.rows[2] - 1
             cl == x \in s.clip[1]..s.clip[2] - 1
             t == GpuTop(s, p)
             fd == GpuField(f, s, p)
             o == Overlaid(f, s.quads, x, y, <<b, FALSE>>)
             far == Behind(s.quads, x, y, Len(s.quads))
             low == Painted(s.quads, "world", x, y, b)
  <1>1. g = IF t[1] # -1 THEN <<t, FALSE>> ELSE fd
    BY GpuPaints
  <1>2. s.quads \in Seq(Quads) /\ s.left \in Int /\ s.clip[1] \in Int /\ s.clip[2] \in Int
    <2> HIDE DEF Quads
    <2> QED BY DEF Scenes
  <1>3. y \in Nat /\ p[2] \in 0..f.ow - 1 /\ f.ow \in Nat /\ x \in Int /\ b \in Int \X Int
    BY <1>2, DotsAre DEF Background
  <1>4. p[2] \in GpuCols(f, s) <=> cl
    BY <1>2, <1>3, ScissorIsClip DEF GpuCols
  <1>5. o[1] = low /\ (o[2] => far)
    <2>1. PICK qs \in Seq(Quads), z \in Int, w \in Int, u \in Int \X Int : qs = s.quads /\ z = x /\ w = y /\ u = b
      BY <1>2, <1>3
    <2> DEFINE d == Overlaid(f, qs, z, w, <<u, FALSE>>)
    <2>2. d[1] = Painted(qs, "world", z, w, u) /\ (d[2] => Behind(qs, z, w, Len(qs)))
      BY LaidOver
    <2>3. o = d
      BY <2>1
    <2> HIDE DEF x, y, b, d, o
    <2> QED BY <2>1, <2>2, <2>3
  <1>6. in => fd = IF cl THEN o ELSE <<b, FALSE>>
    BY <1>4 DEF GpuField, GpuBase
  <1>7. ~in => ~fd[2]
    BY DEF GpuField, GpuBase
  <1>8. DotAt(s, p) = IF t[1] # -1 THEN t ELSE IF cl THEN low ELSE b
    <2>1. FieldAt(s, p) = IF cl THEN low ELSE b
      BY DEF FieldAt
    <2> HIDE DEF cl, low, b
    <2>2. DotAt(s, p) = IF t[1] # -1 THEN t ELSE FieldAt(s, p)
      BY <1>2, <1>3, TopIs DEF DotAt, GpuTop
    <2> HIDE DEF t
    <2> QED BY <2>1, <2>2
  <1>9. <<b, FALSE>>[1] = b /\ ~<<b, FALSE>>[2] /\ <<t, FALSE>>[1] = t /\ ~<<t, FALSE>>[2]
    OBVIOUS
  <1> HIDE DEF y, x, b, in, cl, t, fd, o, far, low
  <1>10. in => g[1] = DotAt(s, p)
    <2> SUFFICES ASSUME in PROVE g[1] = DotAt(s, p)
      OBVIOUS
    <2>1. CASE t[1] # -1
      <3>1. g = <<t, FALSE>> /\ DotAt(s, p) = t
        BY <1>1, <1>8, <2>1
      <3> QED BY <1>9, <3>1
    <2>2. CASE ~(t[1] # -1) /\ cl
      <3>1. g = o /\ DotAt(s, p) = low
        BY <1>1, <1>6, <1>8, <2>2
      <3> QED BY <1>5, <3>1
    <2>3. CASE ~(t[1] # -1) /\ ~cl
      <3>1. g = <<b, FALSE>> /\ DotAt(s, p) = b
        BY <1>1, <1>6, <1>8, <2>3
      <3> QED BY <1>9, <3>1
    <2> QED BY <2>1, <2>2, <2>3
  <1>11. g[2] => in /\ far
    BY <1>1, <1>5, <1>6, <1>7, <1>9
  <1> QED BY <1>10, <1>11 DEF in, far, x, y

LEMMA MaxOfThree ==
  ASSUME NEW a \in Int, NEW b \in Int, NEW c \in Int
  PROVE  LET m == Max({a, b, c}) IN m \in {a, b, c} /\ a <= m /\ b <= m /\ c <= m
  <1>1. PICK m \in {a, b, c} : a <= m /\ b <= m /\ c <= m
    <2>1. CASE a >= b /\ a >= c
      BY <2>1
    <2>2. CASE b >= a /\ b >= c
      BY <2>2
    <2>3. CASE c >= a /\ c >= b
      BY <2>3
    <2> QED BY <2>1, <2>2, <2>3
  <1>2. Max({a, b, c}) = m
    <2>1. {a, b, c} \subseteq Int /\ \A y \in {a, b, c} : y <= m
      BY <1>1
    <2> QED BY <2>1, MaxIsIt
  <1> QED BY <1>1, <1>2

LEMMA SceneStarts ==
  ASSUME Init
  PROVE  SceneInv
  <1>1. LayerMin \in Nat
    BY SceneAssumption
  <1>2. SceneTypes
    <2>1. frame \in Frames /\ layer = LayerMin /\ ready = FALSE /\ of = frame /\ out = EnginePicture(frame)
      BY DEF Init
    <2>2. DOMAIN out = Lines \X (0..frame.ow - 1)
      BY <2>1, EngineDots
    <2>3. layer \in Nat /\ layer >= LayerMin
      BY <1>1, <2>1
    <2>4. ready \in BOOLEAN
      BY <2>1
    <2> QED BY <2>1, <2>2, <2>3, <2>4 DEF SceneTypes
  <1>3. ~ready /\ seen = <<"output", out>> /\ shade = {}
    BY DEF Init
  <1>4. seen[1] # "scene"
    BY <1>3
  <1>5. Presented
    BY <1>3, <1>4 DEF Presented, SamePicture, ShadowsBehind
  <1> QED BY <1>2, <1>3, <1>5 DEF SceneInv

LEMMA ComposeKeeps ==
  ASSUME SceneInv, NEW f \in Frames, Compose(f)
  PROVE  SceneInv'
  <1>1. frame' = f /\ seen' = <<"nothing", out'>> /\ shade' = {}
    BY DEF Compose
  <1>2. seen'[1] # "scene"
    BY <1>1
  <1>3. Presented'
    BY <1>1, <1>2 DEF Presented, SamePicture, ShadowsBehind
  <1>4. layer \in Nat /\ layer >= LayerMin /\ of \in Frames /\ LayerMin \in Nat
    BY SceneAssumption DEF SceneInv, SceneTypes
  <1>5. CASE Benren(f) /\ DrawsWide(f)
    <2>1. /\ layer' = LayerEnsured(f, layer) /\ scene' = Built(f, layer')
          /\ out' = WidePicture(f, scene', layer') /\ ready' = TRUE /\ of' = f
      BY <1>5 DEF Compose
    <2>2. Columns(f)[2] * Tile \in Nat
      BY ColumnsAre, FrameIs
    <2>3. layer' \in {LayerMin, layer, Columns(f)[2] * Tile} /\ layer' >= LayerMin /\ layer' >= Columns(f)[2] * Tile
      <3>1. PICK c \in Nat : c = Columns(f)[2] * Tile
        BY <2>2
      <3>2. layer' = Max({LayerMin, layer, c})
        BY <2>1, <3>1 DEF LayerEnsured
      <3>3. layer' \in {LayerMin, layer, c} /\ LayerMin <= layer' /\ c <= layer'
        <4>1. PICK a, b \in Int : a = LayerMin /\ b = layer
          BY <1>4
        <4> DEFINE m == Max({a, b, c})
        <4>3. m \in {a, b, c} /\ a <= m /\ c <= m
          BY MaxOfThree
        <4>4. layer' = m
          BY <3>2, <4>1
        <4> HIDE DEF m
        <4> QED BY <4>1, <4>3, <4>4
      <3>4. layer' \in Nat
        BY <1>4, <3>3
      <3> QED BY <1>4, <3>1, <3>3, <3>4
    <2>4. SceneTypes'
      <3>1. DOMAIN out' = Lines \X (0..f.ow - 1)
        BY <2>1, WideDots
      <3> QED BY <1>1, <1>4, <2>1, <2>2, <2>3, <3>1 DEF SceneTypes
    <2>5. Composed'
      BY <1>1, <1>5, <2>1, <2>3 DEF Composed
    <2> QED BY <1>3, <2>4, <2>5 DEF SceneInv
  <1>6. CASE ~(Benren(f) /\ DrawsWide(f))
    <2>1. out' = EnginePicture(f) /\ ready' = FALSE /\ layer' = layer /\ of' = of
      BY <1>6 DEF Compose, Invalidated
    <2>2. DOMAIN out' = Lines \X (0..f.ow - 1)
      BY <2>1, EngineDots
    <2>3. SceneTypes'
      BY <1>1, <1>4, <2>1, <2>2 DEF SceneTypes
    <2> QED BY <1>3, <2>1, <2>3 DEF SceneInv
  <1> QED BY <1>5, <1>6

\* The list of a frame that is ready, when all of it fits.
LEMMA ReadyScene ==
  ASSUME SceneInv, ready
  PROVE  /\ scene \in Scenes /\ Five(frame) # {} /\ frame \in Frames /\ DOMAIN out = Lines \X (0..frame.ow - 1)
         /\ (Fitting => FromAtlas(scene.quads) = scene.quads)
         /\ scene.left = ViewLeft(frame.view, frame.ow) /\ scene.rows = <<Top(frame), Bot(frame)>>
         /\ Wide(frame) => \A p \in DOMAIN out : p[1] \in scene.rows[1]..scene.rows[2] - 1 /\ frame.five[p[1]] => out[p] = DotAt(scene, p)
         /\ LET all == Emitted(frame, Columns(frame), Top(frame), Bot(frame), Columns(frame)[2] * Tile)
            IN Len(all) = Len(scene.quads) => scene.quads = all
  <1>1. /\ frame \in Frames /\ layer \in Nat /\ DOMAIN out = Lines \X (0..frame.ow - 1)
        /\ layer >= Columns(frame)[2] * Tile /\ scene = Built(frame, layer) /\ out = WidePicture(frame, scene, layer)
        /\ Five(frame) # {}
    BY DEF SceneInv, SceneTypes, Composed, DrawsWide
  <1> DEFINE qs == Emitted(frame, Columns(frame), Top(frame), Bot(frame), layer)
             all == Emitted(frame, Columns(frame), Top(frame), Bot(frame), Columns(frame)[2] * Tile)
             e == Empty(frame, layer)
  <1>2. /\ scene \in Scenes /\ scene.left = e.left /\ scene.rows = e.rows
        /\ Len(scene.quads) = Len(qs) => scene.quads = qs
    BY <1>1, BuiltIs
  <1>3. qs = all
    BY <1>1, SameEmitted
  <1>4. e.left = ViewLeft(frame.view, frame.ow) /\ e.rows = <<Top(frame), Bot(frame)>>
    BY DEF Empty
  <1>5. Fitting => FromAtlas(scene.quads) = scene.quads
    <2>1. scene.quads \in Seq(Quads)
      BY <1>2 DEF Scenes
    <2> QED BY <2>1, AtlasHolds DEF Fitting
  <1>6. ASSUME Wide(frame), NEW p \in DOMAIN out, p[1] \in scene.rows[1]..scene.rows[2] - 1, frame.five[p[1]]
        PROVE  out[p] = DotAt(scene, p)
    BY <1>1, <1>6, WideIs
  <1> HIDE DEF qs, all, e
  <1>7. Len(all) = Len(scene.quads) => scene.quads = all
    BY <1>2, <1>3
  <1>8. scene.left = ViewLeft(frame.view, frame.ow) /\ scene.rows = <<Top(frame), Bot(frame)>>
    BY <1>2, <1>4
  <1> QED BY <1>1, <1>2, <1>5, <1>6, <1>7, <1>8 DEF all

LEMMA PresentScene ==
  ASSUME SceneInv, Present
  PROVE  SceneInv'
  <1>1. UNCHANGED <<frame, layer, scene, ready, of, out>>
    BY DEF Present
  <1>2. SceneTypes' /\ (ready' => Composed')
    <2>1. SceneTypes'
      BY <1>1 DEF SceneInv, SceneTypes
    <2>2. Composed => Composed'
      BY <1>1 DEF Composed
    <2> QED BY <1>1, <2>1, <2>2 DEF SceneInv
  <1> DEFINE shown == frame.hardware /\ ready /\ ~frame.covered /\ Fitting
  <1>3. CASE ~shown
    <2>1. seen' = <<"output", out>> /\ shade' = {}
      BY <1>3 DEF Present, Fitting
    <2>2. seen'[1] # "scene"
      BY <2>1
    <2>3. Presented'
      BY <2>1, <2>2 DEF Presented, SamePicture, ShadowsBehind
    <2> QED BY <1>2, <2>3 DEF SceneInv
  <1>4. CASE shown
    <2> DEFINE gpu == GpuPicture(frame, scene)
               image == IF frame.gpu THEN [p \in DOMAIN out |-> gpu[p][1]] ELSE WindowPicture(frame, scene)
               v == [p \in DOMAIN out |-> IF p \in frame.overlay THEN out[p] ELSE image[p]]
               in(p) == p[1] \in scene.rows[1]..scene.rows[2] - 1
    <2>1. /\ seen' = <<"scene", v>>
          /\ shade' = IF frame.gpu THEN {p \in DOMAIN out \ frame.overlay : gpu[p][2]} ELSE {}
      BY <1>4 DEF Present, Fitting
    <2>2. /\ scene \in Scenes /\ frame \in Frames /\ DOMAIN out = Lines \X (0..frame.ow - 1)
          /\ FromAtlas(scene.quads) = scene.quads
      BY <1>4, ReadyScene
    <2>3. Wide(frame) => \A p \in DOMAIN out : in(p) /\ frame.five[p[1]] => out[p] = DotAt(scene, p)
      BY <1>4, ReadyScene
    <2>4. of = frame
      BY <1>4 DEF SceneInv, Composed
    <2>5. ASSUME NEW p \in DOMAIN out
          PROVE  /\ in(p) => gpu[p][1] = DotAt(scene, p) /\ WindowPicture(frame, scene)[p] = DotAt(scene, p)
                 /\ gpu[p][2] => in(p) /\ Behind(scene.quads, p[2] + scene.left, p[1], Len(scene.quads))
      <3>1. p \in Lines \X (0..frame.ow - 1)
        BY <2>2
      <3>2. in(p) => WindowPicture(frame, scene)[p] = DotAt(scene, p)
        BY <2>2, WindowIs
      <3>3. /\ in(p) => gpu[p][1] = DotAt(scene, p)
            /\ gpu[p][2] => in(p) /\ Behind(scene.quads, p[2] + scene.left, p[1], Len(scene.quads))
        BY <2>2, <3>1, GpuIs
      <3> HIDE DEF gpu, in
      <3> QED BY <3>2, <3>3
    <2> HIDE DEF gpu
    <2>6. ASSUME NEW p \in DOMAIN out, in(p) PROVE image[p] = DotAt(scene, p)
      BY <2>5, <2>6
    <2> HIDE DEF image
    <2>7. ASSUME Wide(frame), NEW p \in DOMAIN out, in(p), frame.five[p[1]] PROVE v[p] = out[p]
      <3>1. image[p] = out[p]
        BY <2>3, <2>6, <2>7
      <3> QED BY <3>1
    <2> HIDE DEF v, in
    <2>8. seen'[2] = v
      BY <2>1
    <2>9. SamePicture'
      <3>1. Wide(frame) => \A p \in DOMAIN out : in(p) => (frame.five[p[1]] => seen'[2][p] = out[p])
        BY <2>7, <2>8
      <3>2. of' = frame' /\ frame' = frame /\ out' = out /\ scene' = scene
        BY <1>1, <2>4
      <3> QED BY <3>1, <3>2 DEF SamePicture, in
    <2>10. ShadowsBehind'
      <3>1. ASSUME NEW p \in shade'
            PROVE  p \in DOMAIN out /\ p \notin frame.overlay /\ in(p) /\ Behind(scene.quads, p[2] + scene.left, p[1], Len(scene.quads))
        <4>1. p \in DOMAIN out \ frame.overlay /\ gpu[p][2]
          BY <2>1, <3>1
        <4> QED BY <2>5, <4>1
      <3>2. Len(scene.quads) \in Nat /\ DOMAIN scene.quads = 1..Len(scene.quads)
        <4>1. scene.quads \in Seq(Quads)
          BY <2>2 DEF Scenes
        <4> HIDE DEF Quads
        <4> QED BY <4>1
      <3>3. frame' = frame /\ scene' = scene
        BY <1>1
      <3> QED BY <3>1, <3>2, <3>3 DEF ShadowsBehind, Behind, in
    <2>11. Presented'
      BY <1>1, <1>4, <2>9, <2>10 DEF Presented
    <2> QED BY <1>2, <2>11 DEF SceneInv
  <1> QED BY <1>3, <1>4

LEMMA SceneKeeps ==
  ASSUME SceneInv, Next \/ UNCHANGED vars
  PROVE  SceneInv'
  <1>1. CASE Present
    BY <1>1, PresentScene
  <1>2. CASE \E f \in Frames : seen[1] # "nothing" /\ Compose(f)
    BY <1>2, ComposeKeeps
  <1>3. CASE UNCHANGED vars
    <2>1. frame' = frame /\ layer' = layer /\ scene' = scene /\ ready' = ready /\ of' = of /\ out' = out /\ seen' = seen /\ shade' = shade
      BY <1>3 DEF vars
    <2>2. SceneTypes' /\ (Composed => Composed') /\ (Presented => Presented')
      <3>1. SceneTypes'
        BY <2>1 DEF SceneInv, SceneTypes
      <3>2. Composed => Composed'
        BY <2>1 DEF Composed
      <3>3. Presented => Presented'
        BY <2>1 DEF Presented, SamePicture, ShadowsBehind
      <3> QED BY <3>1, <3>2, <3>3
    <2> QED BY <2>1, <2>2 DEF SceneInv
  <1> QED BY <1>1, <1>2, <1>3 DEF Next

\* What is composed is the level as far as it goes: the picture of all that was captured, when it fits.
LEMMA SceneIsSound == ASSUME SceneInv PROVE SceneOK
  <1>1. TypeOK /\ SamePicture /\ ShadowsBehind
    BY DEF SceneInv, SceneTypes, Presented, TypeOK
  <1>2. LevelDrawn
    <2> DEFINE all == Emitted(frame, Columns(frame), Top(frame), Bot(frame), Columns(frame)[2] * Tile)
               left == ViewLeft(frame.view, frame.ow)
               lo == Columns(frame)[1] * Tile
               hi == Columns(frame)[2] * Tile
    <2> SUFFICES ASSUME ready, Wide(frame), Len(all) = Len(scene.quads), NEW p \in DOMAIN out,
                        p[1] \in Top(frame)..Bot(frame) - 1, frame.five[p[1]], p[2] + left \in lo..hi - 1
                 PROVE  out[p] = Painted(all, "screen", p[2], p[1], Painted(all, "world", p[2] + left, p[1], Background(p[1])))
      BY DEF LevelDrawn
    <2>2. scene.quads = all /\ scene.left = left /\ scene.rows = <<Top(frame), Bot(frame)>>
      BY ReadyScene
    <2>3. out[p] = DotAt(scene, p)
      <3>1. p[1] \in scene.rows[1]..scene.rows[2] - 1
        BY <2>2
      <3> QED BY <3>1, ReadyScene
    <2>4. p[2] + left \in scene.clip[1]..scene.clip[2] - 1
      <3>1. /\ frame \in Frames /\ layer \in Nat /\ layer >= hi /\ scene = Built(frame, layer) /\ Five(frame) # {}
        BY DEF SceneInv, SceneTypes, Composed, DrawsWide
      <3>2. scene.clip = <<lo, Min({hi, layer})>>
        <4>1. scene.clip = Empty(frame, layer).clip
          BY <3>1, BuiltIs
        <4> QED BY <4>1 DEF Empty
      <3>3. hi \in Nat
        BY <3>1, ColumnsAre, FrameIs
      <3> HIDE DEF hi, lo
      <3>4. Min({hi, layer}) = hi
        BY <3>1, <3>3, MinOfTwo
      <3> QED BY <3>2, <3>4
    <2> HIDE DEF all, left, lo, hi
    <2> QED BY <2>2, <2>3, <2>4 DEF DotAt, FieldAt
  <1> QED BY <1>1, <1>2 DEF SceneOK
-----------------------------------------------------------------------------
(* The ropes. *)

Ends(r)  == r.x0 \in Int /\ r.y0 \in Int /\ r.x1 \in Int /\ r.y1 \in Int
Along(r) == Abs(r.x1 - r.x0)
Fall(r)  == Abs(r.y1 - r.y0)
Spots    == [x : Int, y : Int, err : Int]
RopeNext(r, s) == IF s.x = r.x1 /\ s.y = r.y1 THEN s
                  ELSE RopeStep(s, Along(r), -Fall(r), Sign(r.x1 - r.x0), Sign(r.y1 - r.y0))

\* A length and the way it goes.
LEMMA LengthIs ==
  ASSUME NEW n \in Int
  PROVE  Abs(n) \in Nat /\ Sign(n) \in {1, -1} /\ (Sign(n) = 1 => n = Abs(n)) /\ (Sign(n) = -1 => n = -Abs(n))
  BY DEF Abs, Sign

Stepped(s, d, e, g, h, t) ==
  /\ t \in Spots
  /\ 2 * s.err >= -e => t.x = s.x + g
  /\ ~(2 * s.err >= -e) => t.x = s.x
  /\ 2 * s.err <= d => t.y = s.y + h
  /\ ~(2 * s.err <= d) => t.y = s.y
  /\ 2 * s.err >= -e /\ 2 * s.err <= d => t.err = s.err - e + d
  /\ 2 * s.err >= -e /\ ~(2 * s.err <= d) => t.err = s.err - e
  /\ ~(2 * s.err >= -e) /\ 2 * s.err <= d => t.err = s.err + d

LEMMA RopeStepIs ==
  ASSUME NEW s \in Spots, NEW d \in Nat, NEW e \in Nat, NEW g \in {1, -1}, NEW h \in {1, -1}
  PROVE  Stepped(s, d, e, g, h, RopeStep(s, d, -e, g, h))
  <1>1. PICK x, y, err \in Int : x = s.x /\ y = s.y /\ err = s.err
    BY DEF Spots
  <1> DEFINE o == 2 * err >= -e
             u == 2 * err <= d
             t == RopeStep(s, d, -e, g, h)
  <1>2. t = [x |-> IF o THEN x + g ELSE x, y |-> IF u THEN y + h ELSE y,
             err |-> err + (IF o THEN -e ELSE 0) + (IF u THEN d ELSE 0)]
    BY <1>1 DEF RopeStep
  <1>3. (IF o THEN x + g ELSE x) \in Int /\ (IF u THEN y + h ELSE y) \in Int /\ err + (IF o THEN -e ELSE 0) + (IF u THEN d ELSE 0) \in Int
    OBVIOUS
  <1>4. t \in Spots
    BY <1>2, <1>3 DEF Spots
  <1>5. t.x = (IF o THEN x + g ELSE x) /\ t.y = (IF u THEN y + h ELSE y) /\ t.err = err + (IF o THEN -e ELSE 0) + (IF u THEN d ELSE 0)
    BY <1>2
  <1> HIDE DEF t
  <1>6. /\ o => t.x = x + g
        /\ ~o => t.x = x
        /\ u => t.y = y + h
        /\ ~u => t.y = y
        /\ o /\ u => t.err = err - e + d
        /\ o /\ ~u => t.err = err - e
        /\ ~o /\ u => t.err = err + d
    BY <1>5
  <1>7. Stepped(s, d, e, g, h, t)
    BY <1>1, <1>4, <1>6 DEF Stepped
  <1> QED BY <1>7 DEF t

LEMMA RopeWalk ==
  ASSUME NEW r, Ends(r)
  PROVE  \E f \in [0..Along(r) + Fall(r) -> Spots] :
           /\ f[0] = [x |-> r.x0, y |-> r.y0, err |-> Along(r) - Fall(r)]
           /\ \A k \in 1..Along(r) + Fall(r) : f[k] = RopeNext(r, f[k - 1])
           /\ RopeTexels(r) = [k \in 0..Along(r) + Fall(r) |-> <<f[k].x, f[k].y>>]
  <1> DEFINE d == Along(r)
             e == Fall(r)
             m == d + e
             b == [x |-> r.x0, y |-> r.y0, err |-> d - e]
             R == [k \in 1..m |-> [s \in Spots |-> RopeNext(r, s)]]
             Fs(g) == g = [n \in 0..m |-> IF n = 0 THEN b ELSE RopeNext(r, g[n - 1])]
             w == CHOOSE g : Fs(g)
             q == d - (-e)
             c == [x |-> r.x0, y |-> r.y0, err |-> d + (-e)]
             v == CHOOSE g : g = [n \in 0..q |-> IF n = 0 THEN c ELSE LET s == g[n - 1] IN RopeNext(r, s)]
  <1>1. d \in Nat /\ e \in Nat /\ Sign(r.x1 - r.x0) \in {1, -1} /\ Sign(r.y1 - r.y0) \in {1, -1}
    <2>1. r.x1 - r.x0 \in Int /\ r.y1 - r.y0 \in Int
      BY DEF Ends
    <2> QED BY <2>1, LengthIs DEF Along, Fall
  <1>2. RopeTexels(r) = [n \in 0..q |-> <<v[n].x, v[n].y>>]
    BY DEF RopeTexels, RopeNext, Along, Fall
  <1>3. \A s \in Spots : RopeNext(r, s) \in Spots
    <2> SUFFICES ASSUME NEW s \in Spots PROVE RopeNext(r, s) \in Spots
      OBVIOUS
    <2>1. RopeStep(s, d, -e, Sign(r.x1 - r.x0), Sign(r.y1 - r.y0)) \in Spots
      <3>1. PICK d1, e1 \in Nat, g, h \in {1, -1} : d1 = d /\ e1 = e /\ g = Sign(r.x1 - r.x0) /\ h = Sign(r.y1 - r.y0)
        BY <1>1
      <3>2. RopeStep(s, d1, -e1, g, h) \in Spots
        BY RopeStepIs DEF Stepped
      <3> QED BY <3>1, <3>2
    <2> QED BY <2>1 DEF RopeNext
  <1>4. b \in Spots
    <2>1. d - e \in Int
      BY <1>1
    <2> QED BY <2>1 DEF Spots, Ends
  <1> HIDE DEF d, e
  <1>5. m \in Nat /\ q = m /\ d + (-e) = d - e
    BY <1>1
  <1>6. v = w
    BY <1>5
  <1> HIDE DEF m, b, q, c, v
  <1>7. R \in [1..m -> [Spots -> Spots]]
    BY <1>3
  <1>8. PICK g : Iterates(g, m, Spots, b, R)
    <2> HIDE DEF R
    <2> QED BY <1>4, <1>5, <1>7, Iterated
  <1>9. g \in [0..m -> Spots] /\ g[0] = b /\ \A k \in 1..m : g[k] = RopeNext(r, g[k - 1])
    <2>1. g \in [0..m -> Spots] /\ g[0] = b /\ \A k \in 1..m : g[k] = R[k][g[k - 1]]
      BY <1>8 DEF Iterates
    <2>2. \A k \in 1..m : k - 1 \in 0..m
      BY <1>5
    <2> QED BY <2>1, <2>2
  <1>10. Fs(g)
    <2>1. \A n \in 0..m : g[n] = IF n = 0 THEN b ELSE RopeNext(r, g[n - 1])
      <3>1. \A n \in 0..m : n # 0 => n \in 1..m
        BY <1>5
      <3> QED BY <1>9, <3>1
    <2> QED BY <1>9, <2>1
  <1>11. Fs(w)
    BY <1>10
  <1> HIDE DEF w
  <1>12. w[0] = b /\ \A k \in 1..m : w[k] = RopeNext(r, w[k - 1])
    <2>1. 0 \in 0..m /\ \A k \in 1..m : k \in 0..m /\ k # 0
      BY <1>5
    <2> QED BY <1>11, <2>1
  <1> DEFINE T == {k \in Nat : k <= m => w[k] \in Spots}
  <1>13. 0 \in T
    BY <1>4, <1>12
  <1>14. ASSUME NEW k \in Nat, k \in T PROVE k + 1 \in T
    <2> SUFFICES ASSUME k + 1 <= m PROVE w[k + 1] \in Spots
      OBVIOUS
    <2>1. k + 1 \in 1..m /\ (k + 1) - 1 = k /\ k <= m
      BY <1>5
    <2> QED BY <1>3, <1>12, <1>14, <2>1
  <1> HIDE DEF T
  <1>15. Nat \subseteq T
    BY <1>13, <1>14, SetInduction
  <1>16. w \in [0..m -> Spots]
    <2>1. \A k \in 0..m : k \in Nat /\ k <= m
      BY <1>5
    <2>2. \A k \in 0..m : w[k] \in Spots
      BY <1>15, <2>1 DEF T
    <2>3. w = [k \in 0..m |-> w[k]]
      BY <1>11
    <2> QED BY <2>2, <2>3
  <1>17. RopeTexels(r) = [k \in 0..m |-> <<w[k].x, w[k].y>>]
    BY <1>2, <1>5, <1>6
  <1> QED BY <1>12, <1>16, <1>17 DEF m, b, d, e

Go(g, a) == IF g = 1 THEN a ELSE -a

\* How far a rope has come, and how far off the straight line it is.
Off(r, s, a, b, v) ==
  /\ s.x = r.x0 + Go(Sign(r.x1 - r.x0), a) /\ s.y = r.y0 + Go(Sign(r.y1 - r.y0), b)
  /\ v = a * Fall(r) - b * Along(r) /\ s.err = Along(r) - Fall(r) - v
Flat(r)  == Fall(r) <= Along(r)
Upto(n, m) == IF n <= m THEN n ELSE m
Come(r, n, s) ==
  \E a, b, v \in Int :
    /\ Off(r, s, a, b, v)
    /\ Flat(r) => a = Upto(n, Along(r)) /\ -Along(r) <= 2 * v /\ 2 * v <= Along(r) /\ (Along(r) = 0 => b = 0)
    /\ ~Flat(r) => b = Upto(n, Fall(r)) /\ -Fall(r) <= 2 * v /\ 2 * v <= Fall(r)

LEMMA NotOff ==
  ASSUME NEW d \in Nat, d > 0, NEW k \in Int, -d <= 2 * (k * d), 2 * (k * d) <= d
  PROVE  k = 0
  <1>1. PICK p \in Int : p = k * d
    OBVIOUS
  <1>2. k >= 1 => p >= d
    <2> SUFFICES ASSUME k >= 1 PROVE p >= d
      OBVIOUS
    <2>1. (k - 1) * d = p - d /\ (k - 1) * d >= 0
      BY <1>1
    <2> QED BY <2>1
  <1>3. k <= -1 => p <= -d
    <2> SUFFICES ASSUME k <= -1 PROVE p <= -d
      OBVIOUS
    <2>1. (-1 - k) * d = -d - p /\ (-1 - k) * d >= 0
      BY <1>1
    <2> QED BY <2>1
  <1> QED BY <1>1, <1>2, <1>3

\* A step of a rope that is at least as long as it falls, and of one that is steeper.
Steps(a, b, v, d, e) == v = a * e - b * d

LEMMA OffBy ==
  ASSUME NEW a \in Int, NEW b \in Int, NEW d \in Int, NEW e \in Int, NEW v \in Int, Steps(a, b, v, d, e)
  PROVE  /\ Steps(a + 1, b, v + e, d, e) /\ Steps(a, b + 1, v - d, d, e) /\ Steps(a + 1, b + 1, v + e - d, d, e)
  <1>1. PICK p, q \in Int : p = a * e /\ q = b * d
    OBVIOUS
  <1>2. (a + 1) * e = p + e /\ (b + 1) * d = q + d
    BY <1>1
  <1>3. v = p - q
    BY <1>1 DEF Steps
  <1> QED BY <1>1, <1>2, <1>3 DEF Steps

LEMMA FlatStep ==
  ASSUME NEW d \in Nat, NEW e \in Nat, e <= d, NEW v \in Int, -d <= 2 * v, 2 * v <= d, NEW err \in Int, err = d - e - v
  PROVE  /\ 2 * err >= -e
         /\ 2 * err <= d => -d <= 2 * (v + e - d) /\ 2 * (v + e - d) <= d
         /\ ~(2 * err <= d) => -d <= 2 * (v + e) /\ 2 * (v + e) <= d
  OBVIOUS

LEMMA SteepStep ==
  ASSUME NEW d \in Nat, NEW e \in Nat, d <= e, NEW v \in Int, -e <= 2 * v, 2 * v <= e, NEW err \in Int, err = d - e - v
  PROVE  /\ 2 * err <= d
         /\ 2 * err >= -e => -e <= 2 * (v + e - d) /\ 2 * (v + e - d) <= e
         /\ ~(2 * err >= -e) => -e <= 2 * (v - d) /\ 2 * (v - d) <= e
  OBVIOUS

LEMMA RopeMeasures ==
  ASSUME NEW r, Ends(r)
  PROVE  /\ Along(r) \in Nat /\ Fall(r) \in Nat /\ Sign(r.x1 - r.x0) \in {1, -1} /\ Sign(r.y1 - r.y0) \in {1, -1}
         /\ r.x1 = r.x0 + Go(Sign(r.x1 - r.x0), Along(r)) /\ r.y1 = r.y0 + Go(Sign(r.y1 - r.y0), Fall(r))
  <1>1. PICK x, y, p, q \in Int : x = r.x0 /\ y = r.y0 /\ p = r.x1 - r.x0 /\ q = r.y1 - r.y0 /\ r.x1 = x + p /\ r.y1 = y + q
    BY DEF Ends
  <1>2. Abs(p) \in Nat /\ Sign(p) \in {1, -1} /\ p = Go(Sign(p), Abs(p))
    BY LengthIs DEF Go
  <1>3. Abs(q) \in Nat /\ Sign(q) \in {1, -1} /\ q = Go(Sign(q), Abs(q))
    BY LengthIs DEF Go
  <1> QED BY <1>1, <1>2, <1>3 DEF Along, Fall

\* Where it has come to the end.
LEMMA AtEnd ==
  ASSUME NEW r, Ends(r), NEW s, NEW n \in Nat, Come(r, n, s)
  PROVE  (s.x = r.x1 /\ s.y = r.y1) <=> (IF Flat(r) THEN n >= Along(r) ELSE n >= Fall(r))
  <1>1. PICK a, b, v \in Int :
          /\ Off(r, s, a, b, v)
          /\ Flat(r) => a = Upto(n, Along(r)) /\ -Along(r) <= 2 * v /\ 2 * v <= Along(r) /\ (Along(r) = 0 => b = 0)
          /\ ~Flat(r) => b = Upto(n, Fall(r)) /\ -Fall(r) <= 2 * v /\ 2 * v <= Fall(r)
    BY DEF Come
  <1>2. PICK d, e \in Nat : d = Along(r) /\ e = Fall(r)
    BY RopeMeasures
  <1>3. PICK g, h \in {1, -1} : g = Sign(r.x1 - r.x0) /\ h = Sign(r.y1 - r.y0)
    BY RopeMeasures
  <1>4. r.x1 = r.x0 + Go(g, d) /\ r.y1 = r.y0 + Go(h, e) /\ s.x = r.x0 + Go(g, a) /\ s.y = r.y0 + Go(h, b) /\ Steps(a, b, v, d, e)
    BY <1>1, <1>2, <1>3, RopeMeasures DEF Off, Steps
  <1>5. (s.x = r.x1 /\ s.y = r.y1) <=> (a = d /\ b = e)
    <2>1. PICK x, y \in Int : x = r.x0 /\ y = r.y0
      BY DEF Ends
    <2>2. (Go(g, a) = Go(g, d) => a = d) /\ (Go(h, b) = Go(h, e) => b = e)
      BY DEF Go
    <2>3. Go(g, a) \in Int /\ Go(g, d) \in Int /\ Go(h, b) \in Int /\ Go(h, e) \in Int
      BY DEF Go
    <2>4. PICK i, j, k, l \in Int : i = Go(g, a) /\ j = Go(g, d) /\ k = Go(h, b) /\ l = Go(h, e)
      BY <2>3
    <2>5. (x + i = x + j <=> i = j) /\ (y + k = y + l <=> k = l)
      OBVIOUS
    <2> QED BY <1>4, <2>1, <2>2, <2>4, <2>5
  <1>6. CASE Flat(r)
    <2>1. a = Upto(n, d) /\ -d <= 2 * v /\ 2 * v <= d /\ (d = 0 => b = 0) /\ e <= d
      BY <1>1, <1>2, <1>6 DEF Flat
    <2>2. a = d <=> n >= d
      BY <2>1 DEF Upto
    <2>3. a = d => b = e
      <3> SUFFICES ASSUME a = d PROVE b = e
        OBVIOUS
      <3>1. CASE d = 0
        <4>1. b = 0 /\ e <= d
          BY <2>1, <3>1
        <4> QED BY <3>1, <4>1
      <3>2. CASE d > 0
        <4>1. v = (e - b) * d
          <5>1. (e - b) * d = d * e - b * d
            OBVIOUS
          <5> QED BY <1>4, <5>1 DEF Steps
        <4>2. PICK k \in Int : k = e - b
          OBVIOUS
        <4>3. k = 0
          BY <2>1, <3>2, <4>1, <4>2, NotOff
        <4> QED BY <4>2, <4>3
      <3> QED BY <3>1, <3>2
    <2> QED BY <1>2, <1>5, <1>6, <2>2, <2>3
  <1>7. CASE ~Flat(r)
    <2>1. b = Upto(n, e) /\ -e <= 2 * v /\ 2 * v <= e /\ e > d
      BY <1>1, <1>2, <1>7 DEF Flat
    <2>2. b = e <=> n >= e
      BY <2>1 DEF Upto
    <2>3. b = e => a = d
      <3> SUFFICES ASSUME b = e PROVE a = d
        OBVIOUS
      <3>1. v = (a - d) * e
        <4>1. (a - d) * e = a * e - e * d
          OBVIOUS
        <4> QED BY <1>4, <4>1 DEF Steps
      <3>2. PICK k \in Int : k = a - d
        OBVIOUS
      <3>4. e > 0 /\ -e <= 2 * (k * e) /\ 2 * (k * e) <= e
        <4>1. e > d /\ -e <= 2 * v /\ 2 * v <= e
          BY <2>1
        <4>2. v = k * e
          BY <3>1, <3>2
        <4> QED BY <4>1, <4>2
      <3>3. k = 0
        BY <3>4, NotOff
      <3> QED BY <3>2, <3>3
    <2> QED BY <1>2, <1>5, <1>7, <2>2, <2>3
  <1> QED BY <1>6, <1>7

LEMMA ComeNext ==
  ASSUME NEW r, Ends(r), NEW s \in Spots, NEW n \in Nat, Come(r, n, s)
  PROVE  Come(r, n + 1, RopeNext(r, s))
  <1>1. PICK a, b, v \in Int :
          /\ Off(r, s, a, b, v)
          /\ Flat(r) => a = Upto(n, Along(r)) /\ -Along(r) <= 2 * v /\ 2 * v <= Along(r) /\ (Along(r) = 0 => b = 0)
          /\ ~Flat(r) => b = Upto(n, Fall(r)) /\ -Fall(r) <= 2 * v /\ 2 * v <= Fall(r)
    BY DEF Come
  <1>2. PICK d, e \in Nat : d = Along(r) /\ e = Fall(r)
    BY RopeMeasures
  <1>3. PICK g, h \in {1, -1} : g = Sign(r.x1 - r.x0) /\ h = Sign(r.y1 - r.y0)
    BY RopeMeasures
  <1> DEFINE end == s.x = r.x1 /\ s.y = r.y1
             far == IF Flat(r) THEN d ELSE e
  <1>4. end <=> n >= far
    BY <1>2, AtEnd
  <1>5. CASE end
    <2>1. RopeNext(r, s) = s
      BY <1>5 DEF RopeNext
    <2>2. Flat(r) => Upto(n + 1, d) = Upto(n, d)
      BY <1>4, <1>5 DEF Upto
    <2>3. ~Flat(r) => Upto(n + 1, e) = Upto(n, e)
      BY <1>4, <1>5 DEF Upto
    <2> QED BY <1>1, <1>2, <2>1, <2>2, <2>3 DEF Come
  <1>6. CASE ~end
    <2>1. PICK t : t = RopeStep(s, d, -e, g, h)
      OBVIOUS
    <2>2. RopeNext(r, s) = t
      BY <1>2, <1>3, <1>6, <2>1 DEF RopeNext
    <2>3. PICK x, y, err, x0, y0 \in Int : x = s.x /\ y = s.y /\ err = s.err /\ x0 = r.x0 /\ y0 = r.y0
      BY DEF Spots, Ends
    <2> DEFINE o == 2 * err >= -e
               u == 2 * err <= d
    <2>4. /\ o => t.x = x + g
          /\ ~o => t.x = x
          /\ u => t.y = y + h
          /\ ~u => t.y = y
          /\ o /\ u => t.err = err - e + d
          /\ o /\ ~u => t.err = err - e
          /\ ~o /\ u => t.err = err + d
      <3>1. Stepped(s, d, e, g, h, t)
        BY <2>1, RopeStepIs
      <3> QED BY <2>3, <3>1 DEF Stepped
    <2>5. x = x0 + Go(g, a) /\ y = y0 + Go(h, b) /\ Steps(a, b, v, d, e) /\ err = d - e - v
      BY <1>1, <1>2, <1>3, <2>3 DEF Off, Steps
    <2>6. x + g = x0 + Go(g, a + 1) /\ y + h = y0 + Go(h, b + 1)
      <3>1. PICK p, q, k, l \in Int : p = Go(g, a) /\ q = Go(g, a + 1) /\ k = Go(h, b) /\ l = Go(h, b + 1) /\ p + g = q /\ k + h = l
        BY DEF Go
      <3> QED BY <2>5, <3>1
    <2>7. /\ Steps(a + 1, b, v + e, d, e) /\ Steps(a, b + 1, v - d, d, e) /\ Steps(a + 1, b + 1, v + e - d, d, e)
      <3>1. Steps(a, b, v, d, e) /\ d \in Int /\ e \in Int
        BY <2>5
      <3> QED BY <3>1, OffBy
    <2>8. \A i, j, z \in Int : t.x = x0 + Go(g, i) /\ t.y = y0 + Go(h, j) /\ Steps(i, j, z, d, e) /\ t.err = d - e - z => Off(r, t, i, j, z)
      BY <1>2, <1>3, <2>3 DEF Off, Steps
    <2>9. /\ err - e + d = d - e - (v + e - d) /\ err - e = d - e - (v + e) /\ err + d = d - e - (v - d)
          /\ v + e \in Int /\ v - d \in Int /\ v + e - d \in Int /\ a + 1 \in Int /\ b + 1 \in Int
      BY <2>5
    <2>10. /\ o /\ u => Off(r, t, a + 1, b + 1, v + e - d)
           /\ o /\ ~u => Off(r, t, a + 1, b, v + e)
           /\ ~o /\ u => Off(r, t, a, b + 1, v - d)
      <3> HIDE DEF o, u
      <3>1. CASE o /\ u
        <4>1. t.x = x0 + Go(g, a + 1) /\ t.y = y0 + Go(h, b + 1) /\ t.err = d - e - (v + e - d)
          BY <2>4, <2>6, <2>9, <3>1
        <4> QED BY <2>7, <2>8, <2>9, <3>1, <4>1
      <3>2. CASE o /\ ~u
        <4>1. t.x = x0 + Go(g, a + 1) /\ t.y = y0 + Go(h, b) /\ t.err = d - e - (v + e)
          BY <2>4, <2>5, <2>6, <2>9, <3>2
        <4> QED BY <2>7, <2>8, <2>9, <3>2, <4>1
      <3>3. CASE ~o /\ u
        <4>1. t.x = x0 + Go(g, a) /\ t.y = y0 + Go(h, b + 1) /\ t.err = d - e - (v - d)
          BY <2>4, <2>5, <2>6, <2>9, <3>3
        <4> QED BY <2>7, <2>8, <2>9, <3>3, <4>1
      <3> QED BY <3>1, <3>2, <3>3
    <2>11. ASSUME Flat(r) PROVE Come(r, n + 1, t)
      <3>1. a = Upto(n, d) /\ -d <= 2 * v /\ 2 * v <= d /\ e <= d /\ n < d
        BY <1>1, <1>2, <1>4, <1>6, <2>11 DEF Flat
      <3>2. a + 1 = Upto(n + 1, d) /\ d # 0
        BY <3>1 DEF Upto
      <3>3. /\ o
            /\ u => -d <= 2 * (v + e - d) /\ 2 * (v + e - d) <= d
            /\ ~u => -d <= 2 * (v + e) /\ 2 * (v + e) <= d
        BY <2>5, <3>1, FlatStep
      <3> DEFINE K(i, j, z) == Off(r, t, i, j, z) /\ i = Upto(n + 1, d) /\ -d <= 2 * z /\ 2 * z <= d
      <3>4. \E i, j, z \in Int : K(i, j, z)
        <4>1. CASE u
          <5>1. K(a + 1, b + 1, v + e - d)
            BY <2>10, <3>2, <3>3, <4>1
          <5> HIDE DEF K
          <5> QED BY <2>9, <5>1
        <4>2. CASE ~u
          <5>1. K(a + 1, b, v + e)
            BY <2>10, <3>2, <3>3, <4>2
          <5> HIDE DEF K
          <5> QED BY <2>9, <5>1
        <4> QED BY <4>1, <4>2
      <3>5. PICK i, j, z \in Int : K(i, j, z)
        BY <3>4
      <3> QED BY <1>2, <2>11, <3>2, <3>5 DEF Come
    <2>12. ASSUME ~Flat(r) PROVE Come(r, n + 1, t)
      <3>1. b = Upto(n, e) /\ -e <= 2 * v /\ 2 * v <= e /\ d <= e /\ n < e
        BY <1>1, <1>2, <1>4, <1>6, <2>12 DEF Flat
      <3>2. b + 1 = Upto(n + 1, e)
        BY <3>1 DEF Upto
      <3>3. /\ u
            /\ o => -e <= 2 * (v + e - d) /\ 2 * (v + e - d) <= e
            /\ ~o => -e <= 2 * (v - d) /\ 2 * (v - d) <= e
        BY <2>5, <3>1, SteepStep
      <3> DEFINE K(i, j, z) == Off(r, t, i, j, z) /\ j = Upto(n + 1, e) /\ -e <= 2 * z /\ 2 * z <= e
      <3>4. \E i, j, z \in Int : K(i, j, z)
        <4>1. CASE o
          <5>1. K(a + 1, b + 1, v + e - d)
            BY <2>10, <3>2, <3>3, <4>1
          <5> HIDE DEF K
          <5> QED BY <2>9, <5>1
        <4>2. CASE ~o
          <5>1. K(a, b + 1, v - d)
            BY <2>10, <3>2, <3>3, <4>2
          <5> HIDE DEF K
          <5> QED BY <2>9, <5>1
        <4> QED BY <4>1, <4>2
      <3>5. PICK i, j, z \in Int : K(i, j, z)
        BY <3>4
      <3> QED BY <1>2, <2>12, <3>5 DEF Come
    <2> QED BY <2>2, <2>11, <2>12
  <1> QED BY <1>5, <1>6

\* A step moves by a dot at the most, each way.
LEMMA NextDot ==
  ASSUME NEW r, Ends(r), NEW s \in Spots, NEW t, t = RopeNext(r, s)
  PROVE  Abs(t.x - s.x) <= 1 /\ Abs(t.y - s.y) <= 1
  <1>1. PICK x, y \in Int : x = s.x /\ y = s.y
    BY DEF Spots
  <1>2. PICK d, e \in Nat, g, h \in {1, -1} : d = Along(r) /\ e = Fall(r) /\ g = Sign(r.x1 - r.x0) /\ h = Sign(r.y1 - r.y0)
    BY RopeMeasures
  <1>3. t.x \in {x, x + g} /\ t.y \in {y, y + h}
    <2>1. CASE t = s
      BY <1>1, <2>1
    <2>2. CASE t = RopeStep(s, d, -e, g, h)
      <3>1. Stepped(s, d, e, g, h, t)
        BY <2>2, RopeStepIs
      <3> QED BY <1>1, <3>1 DEF Stepped
    <2> QED BY <1>2, <2>1, <2>2 DEF RopeNext
  <1>4. \A k \in {1, -1}, z \in Int : Abs(z - z) <= 1 /\ Abs((z + k) - z) <= 1
    BY DEF Abs
  <1> QED BY <1>1, <1>3, <1>4

\* How far a dot lies off the straight line.
LEMMA OffLine ==
  ASSUME NEW r, Ends(r), NEW s, NEW n \in Nat, Come(r, n, s)
  PROVE  2 * Abs((s.x - r.x0) * (r.y1 - r.y0) - (s.y - r.y0) * (r.x1 - r.x0)) <= (IF Along(r) > Fall(r) THEN Along(r) ELSE Fall(r))
  <1>1. PICK a, b, v \in Int :
          /\ Off(r, s, a, b, v)
          /\ Flat(r) => a = Upto(n, Along(r)) /\ -Along(r) <= 2 * v /\ 2 * v <= Along(r) /\ (Along(r) = 0 => b = 0)
          /\ ~Flat(r) => b = Upto(n, Fall(r)) /\ -Fall(r) <= 2 * v /\ 2 * v <= Fall(r)
    BY DEF Come
  <1>2. PICK d, e \in Nat, g, h \in {1, -1} : d = Along(r) /\ e = Fall(r) /\ g = Sign(r.x1 - r.x0) /\ h = Sign(r.y1 - r.y0)
    BY RopeMeasures
  <1>3. PICK x0, y0 \in Int : x0 = r.x0 /\ y0 = r.y0
    BY DEF Ends
  <1>4. PICK i, j, k, l \in Int : i = Go(g, a) /\ j = Go(h, b) /\ k = Go(g, d) /\ l = Go(h, e)
    BY DEF Go
  <1>5. s.x = x0 + i /\ s.y = y0 + j /\ r.x1 = x0 + k /\ r.y1 = y0 + l /\ Steps(a, b, v, d, e)
    BY <1>1, <1>2, <1>3, <1>4, RopeMeasures DEF Off, Steps
  <1>6. s.x - r.x0 = i /\ s.y - r.y0 = j /\ r.x1 - r.x0 = k /\ r.y1 - r.y0 = l
    BY <1>3, <1>5
  <1>7. i * l - j * k \in {v, -v}
    <2>1. PICK p, q \in Int : p = a * e /\ q = b * d
      OBVIOUS
    <2>2. v = p - q
      BY <1>5, <2>1 DEF Steps
    <2>3. i * l \in {p, -p} /\ j * k \in {q, -q} /\ ((i * l = p /\ j * k = q) \/ (i * l = -p /\ j * k = -q))
      <3>1. a * e = p /\ (-a) * e = -p /\ a * (-e) = -p /\ (-a) * (-e) = p
        BY <2>1
      <3>2. b * d = q /\ (-b) * d = -q /\ b * (-d) = -q /\ (-b) * (-d) = q
        BY <2>1
      <3>3. CASE g = 1 /\ h = 1
        <4>1. i = a /\ l = e /\ j = b /\ k = d
          BY <1>4, <3>3 DEF Go
        <4>2. i * l = p /\ j * k = q
          BY <3>1, <3>2, <4>1
        <4> QED BY <4>2
      <3>4. CASE g = 1 /\ h = -1
        <4>1. i = a /\ l = -e /\ j = -b /\ k = d
          BY <1>4, <3>4 DEF Go
        <4>2. i * l = -p /\ j * k = -q
          BY <3>1, <3>2, <4>1
        <4> QED BY <4>2
      <3>5. CASE g = -1 /\ h = 1
        <4>1. i = -a /\ l = e /\ j = b /\ k = -d
          BY <1>4, <3>5 DEF Go
        <4>2. i * l = -p /\ j * k = -q
          BY <3>1, <3>2, <4>1
        <4> QED BY <4>2
      <3>6. CASE g = -1 /\ h = -1
        <4>1. i = -a /\ l = -e /\ j = -b /\ k = -d
          BY <1>4, <3>6 DEF Go
        <4>2. i * l = p /\ j * k = q
          BY <3>1, <3>2, <4>1
        <4> QED BY <4>2
      <3> QED BY <3>3, <3>4, <3>5, <3>6
    <2>4. PICK z, w \in Int : z = i * l /\ w = j * k
      OBVIOUS
    <2> QED BY <2>2, <2>3, <2>4
  <1>8. PICK far \in Nat : far = (IF d > e THEN d ELSE e)
    OBVIOUS
  <1>9. -far <= 2 * v /\ 2 * v <= far
    <2>1. CASE Flat(r)
      <3>1. -d <= 2 * v /\ 2 * v <= d /\ e <= d
        BY <1>1, <1>2, <2>1 DEF Flat
      <3> QED BY <1>8, <3>1
    <2>2. CASE ~Flat(r)
      <3>1. -e <= 2 * v /\ 2 * v <= e /\ e > d
        BY <1>1, <1>2, <2>2 DEF Flat
      <3> QED BY <1>8, <3>1
    <2> QED BY <2>1, <2>2
  <1>10. 2 * Abs(i * l - j * k) <= far
    <2>1. PICK z \in Int : z = i * l - j * k /\ z \in {v, -v}
      BY <1>7
    <2>2. 2 * Abs(z) <= far
      BY <1>9, <2>1 DEF Abs
    <2> QED BY <2>1, <2>2
  <1> QED BY <1>2, <1>6, <1>8, <1>10

LEMMA RopeIsSound == ASSUME NEW r, Ends(r) PROVE RopeHolds(r)
  <1> DEFINE m == Along(r) + Fall(r)
             t == RopeTexels(r)
             far == IF Along(r) > Fall(r) THEN Along(r) ELSE Fall(r)
  <1>1. PICK f \in [0..m -> Spots] :
          /\ f[0] = [x |-> r.x0, y |-> r.y0, err |-> Along(r) - Fall(r)]
          /\ \A k \in 1..m : f[k] = RopeNext(r, f[k - 1])
          /\ t = [k \in 0..m |-> <<f[k].x, f[k].y>>]
    BY RopeWalk
  <1>2. Along(r) \in Nat /\ Fall(r) \in Nat /\ m \in Nat /\ Along(r) <= m /\ Fall(r) <= m
    BY RopeMeasures
  <1>3. RopeHolds(r) <=>
          /\ t[0] = <<r.x0, r.y0>> /\ t[m] = <<r.x1, r.y1>>
          /\ \A i \in 1..m : Abs(t[i][1] - t[i - 1][1]) <= 1 /\ Abs(t[i][2] - t[i - 1][2]) <= 1
          /\ \A i \in 0..m : 2 * Abs((t[i][1] - r.x0) * (r.y1 - r.y0) - (t[i][2] - r.y0) * (r.x1 - r.x0)) <= far
    BY DEF RopeHolds, Along, Fall
  <1> HIDE DEF m, t, far
  <1>4. \A k \in 0..m : t[k] = <<f[k].x, f[k].y>>
    BY <1>1
  <1> DEFINE T == {k \in Nat : k <= m => Come(r, k, f[k])}
  <1>5. 0 \in T
    <2>1. f[0].x = r.x0 /\ f[0].y = r.y0 /\ f[0].err = Along(r) - Fall(r)
      BY <1>1
    <2>2. PICK d, e \in Nat, x0, y0 \in Int : d = Along(r) /\ e = Fall(r) /\ x0 = r.x0 /\ y0 = r.y0
      BY <1>2 DEF Ends
    <2>3. Go(Sign(r.x1 - r.x0), 0) = 0 /\ Go(Sign(r.y1 - r.y0), 0) = 0
      <3>1. PICK z \in Int : z = 0
        OBVIOUS
      <3>3. PICK w \in Int : w = -z
        OBVIOUS
      <3>5. w + z = 0
        BY <3>3
      <3>4. w = z
        BY <3>1, <3>5
      <3>2. Go(Sign(r.x1 - r.x0), z) = z /\ Go(Sign(r.y1 - r.y0), z) = z
        BY <3>3, <3>4 DEF Go
      <3> QED BY <3>1, <3>2
    <2>4. x0 + 0 = x0 /\ y0 + 0 = y0 /\ 0 * e - 0 * d = 0 /\ d - e - 0 = d - e
      OBVIOUS
    <2>5. Off(r, f[0], 0, 0, 0)
      BY <2>1, <2>2, <2>3, <2>4 DEF Off
    <2>6. Upto(0, d) = 0 /\ Upto(0, e) = 0 /\ -d <= 2 * 0 /\ 2 * 0 <= d /\ -e <= 2 * 0 /\ 2 * 0 <= e
      BY DEF Upto
    <2>7. Come(r, 0, f[0])
      BY <2>2, <2>5, <2>6 DEF Come
    <2> QED BY <2>7
  <1>6. ASSUME NEW k \in Nat, k \in T PROVE k + 1 \in T
    <2> SUFFICES ASSUME k + 1 <= m PROVE Come(r, k + 1, f[k + 1])
      OBVIOUS
    <2>1. k + 1 \in 1..m /\ (k + 1) - 1 = k /\ k <= m /\ k \in 0..m
      BY <1>2
    <2>2. Come(r, k, f[k]) /\ f[k] \in Spots /\ f[k + 1] = RopeNext(r, f[k])
      BY <1>1, <1>6, <2>1
    <2> QED BY <2>2, ComeNext
  <1> HIDE DEF T
  <1>7. Nat \subseteq T
    BY <1>5, <1>6, SetInduction
  <1>8. ASSUME NEW k \in 0..m PROVE Come(r, k, f[k])
    <2>1. k \in Nat /\ k <= m
      BY <1>2
    <2> QED BY <1>7, <2>1 DEF T
  <1>9. t[0] = <<r.x0, r.y0>>
    <2>1. 0 \in 0..m
      BY <1>2
    <2> QED BY <1>1, <1>4, <2>1
  <1>10. t[m] = <<r.x1, r.y1>>
    <2>1. m \in 0..m
      BY <1>2
    <2>2. Come(r, m, f[m])
      BY <1>8, <2>1
    <2>3. f[m].x = r.x1 /\ f[m].y = r.y1
      BY <1>2, <2>2, AtEnd
    <2> QED BY <1>4, <2>1, <2>3
  <1>11. ASSUME NEW i \in 1..m PROVE Abs(t[i][1] - t[i - 1][1]) <= 1 /\ Abs(t[i][2] - t[i - 1][2]) <= 1
    <2>1. i - 1 \in 0..m /\ i \in 0..m
      BY <1>2
    <2>2. f[i - 1] \in Spots /\ f[i] = RopeNext(r, f[i - 1])
      BY <1>1, <2>1
    <2>3. PICK a, b : a = f[i - 1] /\ b = f[i]
      OBVIOUS
    <2>4. Abs(b.x - a.x) <= 1 /\ Abs(b.y - a.y) <= 1
      BY <2>2, <2>3, NextDot
    <2>5. t[i] = <<b.x, b.y>> /\ t[i - 1] = <<a.x, a.y>>
      BY <1>4, <2>1, <2>3
    <2> QED BY <2>4, <2>5
  <1>12. ASSUME NEW i \in 0..m
         PROVE  2 * Abs((t[i][1] - r.x0) * (r.y1 - r.y0) - (t[i][2] - r.y0) * (r.x1 - r.x0)) <= far
    <2>1. PICK a : a = f[i]
      OBVIOUS
    <2>2. i \in Nat /\ Come(r, i, a)
      BY <1>2, <1>8, <2>1
    <2>3. 2 * Abs((a.x - r.x0) * (r.y1 - r.y0) - (a.y - r.y0) * (r.x1 - r.x0)) <= far
      BY <2>2, OffLine DEF far
    <2>4. t[i] = <<a.x, a.y>>
      BY <1>4, <2>1
    <2> QED BY <2>3, <2>4
  <1> QED BY <1>3, <1>9, <1>10, <1>11, <1>12

-----------------------------------------------------------------------------
(* The benches together. *)

WideVars == <<bench, rope, vars, copper, capture, overlay>>

LEMMA WideSteps ==
  ASSUME [WideNext]_WideVars
  PROVE  (O!Next \/ UNCHANGED capture) /\ OverStep
  BY DEF WideNext, WideVars, OverStep

\* What is captured of the guest's objects, and of its other passes, at any time.
THEOREM CapturesInvariant == ASSUME Fits PROVE WideSpec => [](CapInv /\ OverInv)
  <1>1. WideInit => CapInv /\ OverInv
    BY CapStarts, OverStarts DEF WideInit
  <1>2. CapInv /\ OverInv /\ [WideNext]_WideVars => (CapInv /\ OverInv)'
    BY WideSteps, CaptureKeeps, OverKeeps
  <1> QED BY <1>1, <1>2, PTL DEF WideSpec, WideVars

\* An object the guest drew or left on its page is listed once, as a page has it and never as it was in a level or
\* a state that is gone; the walker leaves out nothing that is seen; a list is what its pass put up, as far as there
\* is room; a banner stands no longer than its time and never has the guest's password in it (gameplay.c:369-379, 1364-1373).
THEOREM CapturesHold == ASSUME Fits PROVE WideSpec => []CapturesOK
  <1>1. CapInv /\ OverInv => CapturesOK
    BY CapturesAreSound, OverlayIsSound DEF CapturesOK
  <1> QED BY <1>1, CapturesInvariant, PTL

\* A banner is taken down only when the walker has gone on since the frame that set it up, or its time is over
\* (gameplay.c:1033-1035).
THEOREM BannerStandsItsTime == ASSUME Fits PROVE WideSpec => B!BannerFalls
  <1>1. CapInv /\ OverInv /\ [WideNext]_WideVars => [active /\ ~active' => since.walks > 0 \/ since.presents + 1 >= Ttl]_(B!vars)
    BY WideSteps, OverKeeps
  <1> QED BY <1>1, CapturesInvariant, PTL DEF WideSpec, WideVars, B!BannerFalls

\* A frame shows, line for line, what the chips would have shown of the memory it is drawn from: the registers as the
\* list's last MOVEs before the line have them, the planes from the last pointer written whole, and the memory that of
\* as many frames ago as the delay asks for, with the list in it that COP1LC names as the frame is drawn
\* (copper.c, native_renderer.c:136), whatever the lists are.
THEOREM CopperHolds == WideSpec => []CopperOK
  <1>1. WideInit => CopperInv
    <2>1. WideInit => C!Init /\ chip \in Chips /\ cop1lc \in Places
      BY DEF WideInit, C!Init
    <2> QED BY <2>1, CopperStarts
  <1>2. CopperInv /\ [WideNext]_WideVars => CopperInv'
    <2>1. [WideNext]_WideVars => C!Next \/ UNCHANGED copper
      BY DEF WideNext, WideVars
    <2> QED BY <2>1, CopperKeeps
  <1>3. CopperInv => CopperOK
    BY CopperIsSound
  <1> QED BY <1>1, <1>2, <1>3, PTL DEF WideSpec, WideVars

\* A wide frame shows the level as far as it goes, with all that was captured; the window that takes the list shows the
\* same, dot by dot; a shadow falls behind its character (native_renderer.c:777-780, scene_sdl.c:159-162,
\* present_vulkan.c); and a rope is one unbroken line, whatever its ends are.
THEOREM PicturesHold == WideSpec => []PicturesOK
  <1>1. WideInit => SceneInv /\ rope \in Ropes
    <2>1. WideInit => rope \in Ropes
      BY RopesAssumed DEF WideInit, Only
    <2> QED BY <2>1, SceneStarts DEF WideInit
  <1>2. SceneInv /\ rope \in Ropes /\ [WideNext]_WideVars => (SceneInv /\ rope \in Ropes)'
    <2>1. [WideNext]_WideVars => (Next \/ UNCHANGED vars) /\ rope' = rope
      BY DEF WideNext, WideVars
    <2> QED BY <2>1, SceneKeeps
  <1>3. SceneInv /\ rope \in Ropes => PicturesOK
    <2> SUFFICES ASSUME SceneInv, rope \in Ropes PROVE PicturesOK
      OBVIOUS
    <2>1. Ends(rope)
      BY RopesAssumed DEF Ends
    <2> QED BY <2>1, SceneIsSound, RopeIsSound DEF PicturesOK
  <1> QED BY <1>1, <1>2, <1>3, PTL DEF WideSpec, WideVars
=============================================================================
