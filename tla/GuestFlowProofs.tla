--------------------------- MODULE GuestFlowProofs --------------------------
(* What TLAPS proves of the benches of MCGuestFlow, for every value of their *)
(* constants: the runs and bodies on the threads' stacks (GuestCalls), the   *)
(* frame loop with its programs and files (GameLoop), and the control        *)
(* channel's script of the frame (FrameHold).  Each has an inductive         *)
(* invariant, a lemma per action and the theorems at the end.                *)
EXTENDS MCGuestFlow, SequenceTheorems, TLAPS
-----------------------------------------------------------------------------
(* The stacks of runs and bodies. *)

\* The depth of the guest's stack as a thread will find it: a vector puts the flow's back.
Depth(t) == IF t = "game" /\ stack["host"] # <<>> THEN saved ELSE a7

\* What a body may have been told while it runs: the stack moved, continue, go to the host.
Flagged(native) == native.moved \/ native.cont \/ native.exit

\* A run on a stack s, at i.
RunOK(s, i) ==
  /\ s[i] \in C!Run
  /\ i < Len(s) => ~s[i].fresh
  /\ i > 1 => s[i].stop = IF ~s[i].self THEN s[i - 1].base
                          ELSE IF s[i - 1].entry = "jump" THEN s[i - 2].stop
                          ELSE s[i - 1].base - 1

\* A body on a stack s, at i.
NativeOK(s, i) ==
  /\ s[i] \in C!Native
  /\ i < Len(s) => ~Flagged(s[i])
  /\ s[i].base > s[i - 1].stop
  /\ s[i].kind = "replacement" => s[i].owed
  /\ ~s[i].owed => s[i].entry = "jump"
  /\ s[i].owed /\ s[i].entry = "jump" => s[i].base = s[i - 1].stop + 1

\* Runs and bodies take turns, each as it should be where it stands.
Alternates(s) == \A i \in 1..Len(s) : IF i % 2 = 1 THEN RunOK(s, i) ELSE NativeOK(s, i)

\* What the top of a stack s knows of the depth d, o being how its run ended.
TopOK(s, o, d) ==
  LET n == Len(s)
      top == s[n]
  IN IF n % 2 = 1
     THEN /\ o # "stale"
          /\ o = "none" => /\ d > top.stop
                           /\ top.fresh /\ ~top.self /\ n > 1 => d = top.stop + 1
          /\ o = "return" => d = top.stop
     ELSE /\ o = "none"
          /\ ~top.exit => d = IF ~top.moved \/ top.cont THEN top.base
                              ELSE IF top.owed THEN top.base - 1
                              ELSE s[n - 1].stop

\* A whole stack s whose run ended as o, the guest's stack being d deep for it.
StackOK(s, o, d) == /\ s \in Seq(C!Run \cup C!Native) /\ Len(s) <= MaxStack /\ Alternates(s)
                    /\ IF s = <<>> THEN o = "none" ELSE TopOK(s, o, d)

\* Every thread's stack is so, at the depth that thread will find.
StacksOK == \A t \in C!Thread : StackOK(stack[t], out[t], Depth(t))

\* Whose turn it is, and what a thread that waits has left behind.
CallTurns == /\ runs = "game" => stack["host"] = <<>> /\ stack["game"] # <<>>
             /\ stack["host"] # <<>> => stack["host"][1].stop = saved
             /\ runs = "host" => ~C!Leaving("game")

\* A loader that can do nothing but ask for the host.
Exits(s) == /\ s # <<>> /\ s[Len(s)].is = "native" /\ s[Len(s)].kind = "loader"
            /\ s[Len(s)].loaded /\ ~s[Len(s)].moved /\ ~s[Len(s)].cont

\* A body whose image was replaced under it runs no more guest code: its thread is giving the
\* run back, is about to, or waits to be stopped.
OfImage(s, m) == \A i \in 1..Len(s) : s[i].is = "native" => s[i].image = m
BodiesCurrent == \A t \in C!Thread : \/ OfImage(stack[t], active)
                                     \/ C!Leaving(t)
                                     \/ restart /\ Exits(stack[t])
                                     \/ restart /\ t = "game" /\ runs = "host"

\* The adapter's own list of the bodies a thread is inside.
FramesOf(t, n) == [i \in 1..(n \div 2) |-> [on |-> t, at |-> 2 * i]]
\* That list is the bodies on the stack, no more and no less.
FramesOK == \A t \in C!Thread : frames[t] = FramesOf(t, Len(stack[t]))

\* The kinds of the variables that the parts above do not fix.
CallsTyped == /\ out \in [C!Thread -> {"none", "return", "handoff", "stale"}]
              /\ a7 \in 0..MaxGuest /\ saved \in 0..MaxGuest
              /\ active \in 1..MaxImage /\ view \in 1..MaxImage
              /\ runs \in C!Thread /\ restart \in BOOLEAN
              /\ stack \in [C!Thread -> Seq(C!Run \cup C!Native)]
              /\ frames \in [C!Thread -> Seq([on : C!Thread, at : 1..MaxStack])]

\* The inductive invariant of the calls: C!Inv and C!NoStaleCall do not follow from themselves,
\* because what a body's return does depends on the depths its run and its caller remember.
CallsInv == CallsTyped /\ StacksOK /\ FramesOK /\ CallTurns /\ BodiesCurrent

\* What stands on a stack.
Elem == C!Run \cup C!Native

\* Halves and remainders: a stack's even places are its bodies.
LEMMA Parity ==
  \A n \in Nat : /\ n % 2 \in {0, 1}
                 /\ (n + 1) % 2 = 1 - (n % 2)
                 /\ n > 0 => (n - 1) % 2 = 1 - (n % 2)
                 /\ n % 2 = 0 => (n + 1) \div 2 = n \div 2
                 /\ n % 2 = 1 => (n + 1) \div 2 = (n \div 2) + 1
                 /\ n > 0 /\ n % 2 = 0 => (n - 1) \div 2 = (n \div 2) - 1
                 /\ n > 0 /\ n % 2 = 1 => (n - 1) \div 2 = n \div 2
                 /\ n % 2 = 0 => 2 * (n \div 2) = n
                 /\ n % 2 = 1 => 2 * (n \div 2) = n - 1
                 /\ n > 0 /\ n % 2 = 0 => n > 1
                 /\ n > 1 /\ n % 2 = 1 => n > 2
  OBVIOUS

\* The fields of a run and of a body.
LEMMA Elements ==
  /\ \A e \in C!Run : e.is = "run" /\ e.stop \in 0..MaxGuest /\ e.self \in BOOLEAN /\ e.fresh \in BOOLEAN
  /\ \A e \in C!Native : /\ e.is = "native" /\ e.kind \in C!Kind /\ e.entry \in C!Entry /\ e.base \in 0..MaxGuest
                         /\ e.owed \in BOOLEAN /\ e.image \in 1..MaxImage /\ e.loaded \in BOOLEAN
                         /\ e.moved \in BOOLEAN /\ e.cont \in BOOLEAN /\ e.exit \in BOOLEAN
  BY DEF C!Run, C!Native

\* What a change of the top, a push and a pop leave of a stack.
Same(s, u, n) == \A i \in 1..n : u[i] = s[i]

\* Replacing the top of a stack keeps its length and all that is under it.
LEMMA ChangeTop ==
  ASSUME NEW s \in Seq(Elem), s # <<>>, NEW e \in Elem
  PROVE  LET u == [s EXCEPT ![Len(s)] = e]
         IN u \in Seq(Elem) /\ Len(u) = Len(s) /\ Same(s, u, Len(s) - 1) /\ u[Len(s)] = e /\ u # <<>>
  <1>1. Len(s) \in Nat /\ Len(s) > 0
    BY EmptySeq
  <1>2. Len(s) \in 1..Len(s)
    BY <1>1
  <1> DEFINE u == [s EXCEPT ![Len(s)] = e]
  <1>3. u \in Seq(Elem) /\ Len(u) = Len(s) /\ \A j \in 1..Len(s) : u[j] = IF j = Len(s) THEN e ELSE s[j]
    BY <1>2, ExceptSeq
  <1>4. u # <<>>
    BY <1>1, <1>3, EmptySeq
  <1>5. u[Len(s)] = e
    BY <1>2, <1>3
  <1>6. Same(s, u, Len(s) - 1)
    <2> SUFFICES ASSUME NEW i \in 1..(Len(s) - 1) PROVE u[i] = s[i]
      BY DEF Same
    <2>1. i \in 1..Len(s) /\ i # Len(s)
      BY <1>1
    <2> QED BY <1>3, <2>1
  <1> QED BY <1>3, <1>4, <1>5, <1>6

\* A push keeps what was there and adds one.
LEMMA Push ==
  ASSUME NEW s \in Seq(Elem), NEW e \in Elem
  PROVE  LET u == Append(s, e)
         IN u \in Seq(Elem) /\ Len(u) = Len(s) + 1 /\ Same(s, u, Len(s)) /\ u[Len(s) + 1] = e /\ u # <<>>
  <1>1. Len(s) \in Nat
    BY LenProperties
  <1> QED BY <1>1, AppendProperties, EmptySeq DEF Same

\* A pop keeps all but the top.
LEMMA Pop ==
  ASSUME NEW s \in Seq(Elem), s # <<>>
  PROVE  LET u == C!Popped(s)
         IN u \in Seq(Elem) /\ Len(u) = Len(s) - 1 /\ Same(s, u, Len(s) - 1) /\ (u = <<>> <=> Len(s) = 1)
  <1>1. Len(s) \in Nat /\ Len(s) > 0 /\ Len(s) - 1 \in Int
    BY EmptySeq
  <1>2. \A i \in 1..(Len(s) - 1) : s[i] \in Elem
    BY <1>1, ElementOfSeq
  <1>3. SubSeq(s, 1, Len(s) - 1) \in Seq(Elem)
    BY <1>1, <1>2, SubSeqProperties
  <1>4. Len(SubSeq(s, 1, Len(s) - 1)) = Len(s) - 1
    <2> DEFINE m == Len(s) - 1
    <2>1. m \in Int /\ m >= 0 /\ \A i \in 1..m : s[i] \in Elem
      BY <1>1, <1>2
    <2> HIDE DEF m
    <2>2. Len(SubSeq(s, 1, m)) = IF 1 <= m THEN m - 1 + 1 ELSE 0
      BY <2>1, SubSeqProperties
    <2>3. Len(SubSeq(s, 1, m)) = m
      BY <2>1, <2>2
    <2> QED BY <2>3 DEF m
  <1>5. \A i \in 1..(Len(s) - 1) : SubSeq(s, 1, Len(s) - 1)[i] = s[i]
    <2> DEFINE m == Len(s) - 1
    <2>1. m \in Int /\ \A i \in 1..m : s[i] \in Elem
      BY <1>1, <1>2
    <2> HIDE DEF m
    <2>2. \A i \in 1..(m - 1 + 1) : SubSeq(s, 1, m)[i] = s[1 + i - 1]
      BY <2>1, SubSeqProperties
    <2>3. \A i \in 1..m : SubSeq(s, 1, m)[i] = s[i]
      BY <2>1, <2>2
    <2> QED BY <2>3 DEF m
  <1>6. SubSeq(s, 1, Len(s) - 1) = <<>> <=> Len(s) = 1
    <2> DEFINE u == SubSeq(s, 1, Len(s) - 1)
    <2>1. u \in Seq(Elem) /\ Len(u) = Len(s) - 1
      BY <1>3, <1>4
    <2>2. u = <<>> => Len(u) = 0
      BY EmptySeq
    <2>3. u # <<>> => Len(u) # 0
      BY <2>1, EmptySeq
    <2> QED BY <1>1, <2>1, <2>2, <2>3
  <1> QED BY <1>3, <1>4, <1>5, <1>6 DEF C!Popped, Same

\* The alternation of runs and bodies under a change of the top, a push and a pop.
LEMMA AltTop ==
  ASSUME NEW s \in Seq(Elem), NEW u \in Seq(Elem), Alternates(s), s # <<>>,
         Len(u) = Len(s), Same(s, u, Len(s) - 1),
         Len(s) % 2 = 1 => u[Len(s)] \in C!Run /\ u[Len(s)].stop = s[Len(s)].stop /\ u[Len(s)].self = s[Len(s)].self,
         Len(s) % 2 = 0 => /\ u[Len(s)] \in C!Native /\ u[Len(s)].kind = s[Len(s)].kind
                           /\ u[Len(s)].entry = s[Len(s)].entry /\ u[Len(s)].base = s[Len(s)].base
                           /\ u[Len(s)].owed = s[Len(s)].owed
  PROVE  Alternates(u)
  <1> DEFINE n == Len(s)
  <1>1. n \in Nat /\ n > 0
    BY EmptySeq
  <1> SUFFICES ASSUME NEW i \in 1..n PROVE IF i % 2 = 1 THEN RunOK(u, i) ELSE NativeOK(u, i)
    BY DEF Alternates
  <1>2. IF i % 2 = 1 THEN RunOK(s, i) ELSE NativeOK(s, i)
    BY DEF Alternates
  <1>3. \A j \in 1..(n - 1) : u[j] = s[j]
    BY DEF Same
  <1>4. i > 1 => u[i - 1] = s[i - 1]
    BY <1>1, <1>3
  <1>5. i > 2 => u[i - 2] = s[i - 2]
    BY <1>1, <1>3
  <1>6. i # n => u[i] = s[i]
    BY <1>1, <1>3
  <1>7. i % 2 = 0 => i > 1
    BY <1>1
  <1>8. i > 1 /\ i % 2 = 1 => i > 2
    BY <1>1
  <1>9. CASE i # n
    BY <1>1, <1>2, <1>4, <1>5, <1>6, <1>7, <1>8, <1>9 DEF RunOK, NativeOK
  <1>10. CASE i = n
    <2> HIDE DEF n
    <2>1. CASE i % 2 = 1
      BY <1>1, <1>2, <1>4, <1>5, <1>8, <1>10, <2>1 DEF RunOK, n
    <2>2. CASE i % 2 # 1
      <3>1. i % 2 = 0
        BY <1>1, <2>2, Parity
      <3> QED BY <1>1, <1>2, <1>4, <1>7, <1>10, <2>2, <3>1 DEF NativeOK, n
    <2> QED BY <2>1, <2>2
  <1> QED BY <1>9, <1>10

\* A stack that alternates still does with the right element pushed.
LEMMA AltPush ==
  ASSUME NEW s \in Seq(Elem), NEW u \in Seq(Elem), Alternates(s),
         Len(u) = Len(s) + 1, Same(s, u, Len(s)),
         s # <<>> => IF Len(s) % 2 = 1 THEN ~s[Len(s)].fresh ELSE ~Flagged(s[Len(s)]),
         Len(s) % 2 = 0 => RunOK(u, Len(u)),
         Len(s) % 2 = 1 => NativeOK(u, Len(u))
  PROVE  Alternates(u)
  <1> DEFINE n == Len(s)
  <1>1. n \in Nat
    BY LenProperties
  <1> SUFFICES ASSUME NEW i \in 1..(n + 1) PROVE IF i % 2 = 1 THEN RunOK(u, i) ELSE NativeOK(u, i)
    BY DEF Alternates
  <1>2. \A j \in 1..n : u[j] = s[j]
    BY DEF Same
  <1>3. i # n + 1 => u[i] = s[i]
    BY <1>1, <1>2
  <1>4. i > 1 => u[i - 1] = s[i - 1]
    BY <1>1, <1>2
  <1>5. i > 2 => u[i - 2] = s[i - 2]
    BY <1>1, <1>2
  <1>6. i % 2 = 0 => i > 1
    BY <1>1
  <1>7. i > 1 /\ i % 2 = 1 => i > 2
    BY <1>1
  <1>8. CASE i = n + 1
    BY <1>1, <1>8, Parity
  <1>9. CASE i # n + 1
    <2>1. IF i % 2 = 1 THEN RunOK(s, i) ELSE NativeOK(s, i)
      BY <1>1, <1>9 DEF Alternates
    <2>2. i = n => IF n % 2 = 1 THEN ~s[i].fresh ELSE ~Flagged(s[i])
      BY <1>1, EmptySeq
    <2> QED BY <1>1, <1>3, <1>4, <1>5, <1>6, <1>7, <1>9, <2>1, <2>2 DEF RunOK, NativeOK
  <1> QED BY <1>8, <1>9

\* A stack that alternates still does without its top, and what comes up had called.
LEMMA AltPop ==
  ASSUME NEW s \in Seq(Elem), NEW u \in Seq(Elem), Alternates(s), s # <<>>,
         Len(u) = Len(s) - 1, Same(s, u, Len(s) - 1)
  PROVE  /\ Alternates(u)
         /\ u # <<>> => IF Len(u) % 2 = 1 THEN ~u[Len(u)].fresh ELSE ~Flagged(u[Len(u)])
  <1> DEFINE n == Len(u)
  <1>1. n \in Nat /\ Len(s) = n + 1
    BY LenProperties
  <1>2. \A j \in 1..n : u[j] = s[j]
    <2>1. n = Len(s) - 1
      OBVIOUS
    <2> QED BY <2>1 DEF Same
  <1>3. ASSUME NEW i \in 1..n
        PROVE  /\ IF i % 2 = 1 THEN RunOK(u, i) ELSE NativeOK(u, i)
               /\ IF i % 2 = 1 THEN ~u[i].fresh ELSE ~Flagged(u[i])
    <2>1. IF i % 2 = 1 THEN RunOK(s, i) ELSE NativeOK(s, i)
      BY <1>1 DEF Alternates
    <2>2. i < Len(s)
      BY <1>1
    <2>3. u[i] = s[i] /\ (i > 1 => u[i - 1] = s[i - 1]) /\ (i > 2 => u[i - 2] = s[i - 2])
      <3>1. (i > 1 => i - 1 \in 1..n) /\ (i > 2 => i - 2 \in 1..n)
        BY <1>1
      <3> QED BY <1>2, <3>1
    <2>4. /\ i % 2 = 0 => i > 1
          /\ i > 1 /\ i % 2 = 1 => i > 2
      OBVIOUS
    <2>5. i % 2 \in {0, 1}
      BY Parity
    <2> QED BY <2>1, <2>2, <2>3, <2>4, <2>5 DEF RunOK, NativeOK
  <1>4. u # <<>> => n \in 1..n
    BY <1>1, EmptySeq
  <1> QED BY <1>3, <1>4 DEF Alternates

\* What is known of the element on top of a stack.
LEMMA TopIs ==
  ASSUME NEW s, NEW o, NEW d, StackOK(s, o, d), s # <<>>
  PROVE  LET n == Len(s)
         IN /\ n \in Nat /\ n > 0 /\ s[n] \in Elem /\ s \in Seq(Elem)
            /\ s[n].is = "run" => n % 2 = 1 /\ RunOK(s, n) /\ s[n] \in C!Run
            /\ s[n].is = "native" => /\ n % 2 = 0 /\ n > 1 /\ NativeOK(s, n) /\ RunOK(s, n - 1)
                                     /\ s[n] \in C!Native /\ s[n - 1] \in C!Run /\ o = "none"
            /\ s[n].is \in {"run", "native"}
            /\ TopOK(s, o, d) /\ Alternates(s)
  <1> DEFINE n == Len(s)
  <1>1. s \in Seq(Elem) /\ n \in Nat /\ n > 0 /\ TopOK(s, o, d) /\ Alternates(s)
    BY EmptySeq DEF StackOK, Elem
  <1>2. n \in 1..n /\ s[n] \in Elem
    BY <1>1, ElementOfSeq
  <1>3. n % 2 = 1 => RunOK(s, n) /\ s[n] \in C!Run /\ s[n].is = "run"
    BY <1>1, <1>2, Elements DEF Alternates, RunOK
  <1>4. n % 2 = 0 => /\ n > 1 /\ NativeOK(s, n) /\ RunOK(s, n - 1) /\ s[n] \in C!Native
                     /\ s[n - 1] \in C!Run /\ s[n].is = "native" /\ o = "none"
    <2> SUFFICES ASSUME n % 2 = 0
                 PROVE  /\ n > 1 /\ NativeOK(s, n) /\ RunOK(s, n - 1) /\ s[n] \in C!Native
                        /\ s[n - 1] \in C!Run /\ s[n].is = "native" /\ o = "none"
      OBVIOUS
    <2>1. n > 1 /\ (n - 1) % 2 = 1 /\ n - 1 \in 1..n
      BY <1>1, Parity
    <2>2. NativeOK(s, n) /\ RunOK(s, n - 1)
      BY <1>1, <1>2, <2>1 DEF Alternates
    <2>3. o = "none"
      BY <1>1 DEF TopOK
    <2> QED BY <2>1, <2>2, <2>3, Elements DEF NativeOK, RunOK
  <1>5. n % 2 \in {0, 1}
    BY <1>1, Parity
  <1> QED BY <1>1, <1>2, <1>3, <1>4, <1>5

\* A body that has been flagged is on top, so a run is being given back at its top.
LEMMA LeavingIs ==
  ASSUME NEW t \in C!Thread, NEW d, StackOK(stack[t], out[t], d)
  PROVE  C!Leaving(t) <=> \/ out[t] = "handoff"
                          \/ /\ stack[t] # <<>> /\ C!Top(t).is = "native" /\ C!Top(t).exit
  <1> DEFINE s == stack[t]
             n == Len(stack[t])
  <1>1. n \in Nat /\ (s # <<>> => n \in 1..n)
    BY EmptySeq, LenProperties DEF StackOK, Elem
  <1>2. ASSUME NEW i \in 1..n, s[i].is = "native", s[i].exit
        PROVE  i = n /\ s # <<>>
    <2>1. IF i % 2 = 1 THEN RunOK(s, i) ELSE NativeOK(s, i)
      BY DEF StackOK, Alternates
    <2>2. NativeOK(s, i)
      BY <1>2, <2>1, Elements DEF RunOK
    <2>3. ~(i < n)
      BY <1>2, <2>2 DEF NativeOK, Flagged
    <2>4. s # <<>>
      BY EmptySeq
    <2> QED BY <1>1, <2>3, <2>4
  <1> QED BY <1>1, <1>2 DEF C!Leaving, C!Top

\* The thread whose turn it is finds the guest's stack at the depth its own stack expects.
LEMMA Acting ==
  ASSUME CallsInv, NEW t \in C!Thread, runs = t
  PROVE  /\ StackOK(stack[t], out[t], a7)
         /\ t = "game" => stack["host"] = <<>>
         /\ \A o \in C!Thread : StackOK(stack[o], out[o], Depth(o)) /\ stack[o] \in Seq(Elem)
         /\ stack \in [C!Thread -> Seq(Elem)] /\ DOMAIN stack = C!Thread
         /\ out \in [C!Thread -> {"none", "return", "handoff", "stale"}]
         /\ a7 \in 0..MaxGuest /\ frames[t] = FramesOf(t, Len(stack[t]))
         /\ frames \in [C!Thread -> Seq([on : C!Thread, at : 1..MaxStack])]
  BY DEF CallsInv, StacksOK, CallTurns, Depth, C!Thread, CallsTyped, Elem, FramesOK

\* An empty stack waits for nothing.
LEMMA EmptyIsOK == ASSUME NEW d PROVE StackOK(<<>>, "none", d)
  BY EmptySeq, CallsBounded DEF StackOK, Alternates, C!BoundAssumption

\* The stacks after a step of the thread whose turn it is.
LEMMA Settles ==
  ASSUME CallsInv, NEW t \in C!Thread, runs = t, stack[t] # <<>>, runs' \in {t, "host"},
         StackOK(stack'[t], out'[t], a7'), saved' = saved,
         \A o \in C!Thread \ {t} : stack'[o] = stack[o] /\ out'[o] = out[o] /\ frames'[o] = frames[o],
         frames'[t] = FramesOf(t, Len(stack'[t])),
         IF stack'[t] = <<>> THEN (t = "host" => a7' = saved) /\ runs' = "host"
                             ELSE stack'[t][1].stop = stack[t][1].stop,
         runs' # t => ~C!Leaving(t)'
  PROVE  StacksOK' /\ FramesOK' /\ CallTurns'
  <1>1. ASSUME NEW o \in C!Thread \ {t} PROVE StackOK(stack'[o], out'[o], Depth(o)')
    <2>1. StackOK(stack[o], out[o], Depth(o)) /\ stack'[o] = stack[o] /\ out'[o] = out[o]
      BY DEF CallsInv, StacksOK
    <2>2. CASE t = "game"
      <3>1. o = "host" /\ stack[o] = <<>>
        BY <2>2 DEF CallsInv, CallTurns, C!Thread
      <3> QED BY <2>1, <3>1 DEF StackOK
    <2>3. CASE t = "host"
      <3>1. o = "game" /\ Depth(o) = saved
        BY <2>3 DEF C!Thread, Depth
      <3>2. Depth(o)' = saved
        BY <2>3, <3>1 DEF Depth
      <3> QED BY <2>1, <3>1, <3>2
    <2> QED BY <2>2, <2>3 DEF C!Thread
  <1>2. StackOK(stack'[t], out'[t], Depth(t)')
    <2>1. t = "game" => stack'["host"] = <<>>
      BY DEF CallsInv, CallTurns, C!Thread
    <2> QED BY <2>1 DEF Depth
  <1>3. StacksOK'
    BY <1>1, <1>2 DEF StacksOK
  <1>4. FramesOK'
    BY DEF FramesOK, CallsInv
  <1>5. CallTurns'
    <2>1. CASE t = "game"
      BY <2>1 DEF CallsInv, CallTurns, C!Thread
    <2>2. CASE t = "host"
      <3>1. ~C!Leaving("game")'
        BY <2>2 DEF CallsInv, CallTurns, C!Thread, C!Leaving
      <3> QED BY <2>2, <3>1 DEF CallsInv, CallTurns, C!Thread
    <2> QED BY <2>1, <2>2 DEF C!Thread
  <1> QED BY <1>3, <1>4, <1>5

\* The run on top executes: it goes on, or has come to its return.
LEMMA RunGoesOn ==
  ASSUME NEW s, NEW d, StackOK(s, "none", d), s # <<>>, s[Len(s)].is = "run",
         NEW d2 \in 0..MaxGuest, d2 >= s[Len(s)].stop
  PROVE  LET u == [s EXCEPT ![Len(s)] = [s[Len(s)] EXCEPT !.fresh = FALSE]]
         IN /\ StackOK(u, C!Ended(d2, s[Len(s)]), d2)
            /\ u \in Seq(Elem) /\ Len(u) = Len(s) /\ u # <<>> /\ u[1].stop = s[1].stop
            /\ Same(s, u, Len(s) - 1) /\ Alternates(u)
            /\ u[Len(s)] = [s[Len(s)] EXCEPT !.fresh = FALSE] /\ u[Len(s)] \in C!Run
            /\ \A m : OfImage(s, m) => OfImage(u, m)
  <1> DEFINE n == Len(s)
             e == [s[n] EXCEPT !.fresh = FALSE]
             u == [s EXCEPT ![n] = e]
  <1>1. n \in Nat /\ n > 0 /\ n % 2 = 1 /\ s[n] \in C!Run /\ s \in Seq(Elem) /\ Alternates(s)
    BY TopIs
  <1>2. e \in C!Run /\ e.stop = s[n].stop /\ e.self = s[n].self /\ ~e.fresh /\ e.is = "run"
    BY <1>1 DEF C!Run
  <1>3. e \in Elem
    BY <1>2 DEF Elem
  <1>4. u \in Seq(Elem) /\ Len(u) = n /\ Same(s, u, n - 1) /\ u[n] = e /\ u # <<>>
    BY <1>1, <1>3, ChangeTop
  <1> HIDE DEF e, u
  <1>5. Alternates(u)
    BY <1>1, <1>2, <1>4, AltTop
  <1>6. u[1].stop = s[1].stop
    BY <1>1, <1>2, <1>4 DEF Same
  <1>7. \A m : OfImage(s, m) => OfImage(u, m)
    BY <1>1, <1>2, <1>4 DEF Same, OfImage
  <1>8. TopOK(u, C!Ended(d2, s[n]), d2)
    <2>1. s[n].stop \in Nat
      BY <1>1, Elements
    <2> QED BY <1>1, <1>2, <1>4, <2>1 DEF TopOK, C!Ended
  <1>9. Len(s) <= MaxStack
    BY DEF StackOK
  <1> QED BY <1>1, <1>2, <1>4, <1>5, <1>6, <1>7, <1>8, <1>9 DEF StackOK, Elem, u, e

\* A body is entered above a run that has executed.
LEMMA BodyEntered ==
  ASSUME NEW s, s \in Seq(Elem), Alternates(s), s # <<>>, Len(s) < MaxStack,
         s[Len(s)] \in C!Run, ~s[Len(s)].fresh, Len(s) % 2 = 1,
         NEW e \in C!Native, ~e.moved, ~e.cont, ~e.exit,
         e.base > s[Len(s)].stop, e.kind = "replacement" => e.owed, ~e.owed => e.entry = "jump",
         e.owed /\ e.entry = "jump" => e.base = s[Len(s)].stop + 1
  PROVE  LET u == Append(s, e)
         IN /\ StackOK(u, "none", e.base) /\ Len(u) = Len(s) + 1 /\ u[1].stop = s[1].stop /\ u # <<>>
            /\ u[Len(u)] = e
            /\ \A m : OfImage(s, m) /\ e.image = m => OfImage(u, m)
  <1> DEFINE n == Len(s)
             u == Append(s, e)
  <1>1. n \in Nat /\ n > 0
    BY EmptySeq
  <1>2. e \in Elem /\ e.is = "native" /\ e.base \in Nat
    BY Elements DEF Elem
  <1>3. u \in Seq(Elem) /\ Len(u) = n + 1 /\ Same(s, u, n) /\ u[n + 1] = e /\ u # <<>>
    BY <1>2, Push
  <1> HIDE DEF u
  <1>4. u[n] = s[n] /\ u[1] = s[1]
    BY <1>1, <1>3 DEF Same
  <1>5. NativeOK(u, n + 1)
    BY <1>1, <1>3, <1>4 DEF NativeOK
  <1>6. Alternates(u)
    BY <1>1, <1>3, <1>5, AltPush
  <1>7. (n + 1) % 2 = 0
    BY <1>1
  <1>8. TopOK(u, "none", e.base)
    BY <1>1, <1>2, <1>3, <1>7 DEF TopOK
  <1>9. \A m : OfImage(s, m) /\ e.image = m => OfImage(u, m)
    BY <1>1, <1>3 DEF Same, OfImage
  <1>10. Len(u) <= MaxStack
    BY <1>1, <1>3, CallsBounded DEF C!BoundAssumption
  <1> QED BY <1>3, <1>4, <1>6, <1>8, <1>9, <1>10 DEF StackOK, Elem, u

\* The body on top is flagged, in one way or another.
LEMMA BodyFlagged ==
  ASSUME NEW s, NEW d, StackOK(s, "none", d), s # <<>>, s[Len(s)].is = "native",
         NEW e \in C!Native, e.kind = s[Len(s)].kind, e.entry = s[Len(s)].entry,
         e.base = s[Len(s)].base, e.owed = s[Len(s)].owed,
         NEW d2,
         ~e.exit => d2 = IF ~e.moved \/ e.cont THEN e.base
                         ELSE IF e.owed THEN e.base - 1
                         ELSE s[Len(s) - 1].stop
  PROVE  LET u == [s EXCEPT ![Len(s)] = e]
         IN /\ StackOK(u, "none", d2)
            /\ Len(u) = Len(s) /\ u # <<>> /\ u[1].stop = s[1].stop /\ u[Len(s)] = e
            /\ \A m : OfImage(s, m) /\ e.image = m => OfImage(u, m)
  <1> DEFINE n == Len(s)
             u == [s EXCEPT ![n] = e]
  <1>1. n \in Nat /\ n > 1 /\ n % 2 = 0 /\ s[n] \in C!Native /\ s \in Seq(Elem) /\ Alternates(s)
    BY TopIs
  <1>2. e \in Elem /\ e.is = "native"
    BY Elements DEF Elem
  <1>3. u \in Seq(Elem) /\ Len(u) = n /\ Same(s, u, n - 1) /\ u[n] = e /\ u # <<>>
    BY <1>1, <1>2, ChangeTop
  <1> HIDE DEF u
  <1>4. Alternates(u)
    BY <1>1, <1>3, AltTop
  <1>5. u[1] = s[1] /\ u[n - 1] = s[n - 1]
    BY <1>1, <1>3 DEF Same
  <1>6. \A m : OfImage(s, m) /\ e.image = m => OfImage(u, m)
    BY <1>1, <1>3 DEF Same, OfImage
  <1>7. TopOK(u, "none", d2)
    BY <1>1, <1>2, <1>3, <1>5, Elements DEF TopOK
  <1>8. Len(s) <= MaxStack
    BY DEF StackOK
  <1> QED BY <1>1, <1>3, <1>4, <1>5, <1>6, <1>7, <1>8 DEF StackOK, Elem, u

\* The body on top calls: a run above it.
LEMMA RunCalled ==
  ASSUME NEW s, NEW d, StackOK(s, "none", d), s # <<>>, s[Len(s)].is = "native", Len(s) < MaxStack,
         ~Flagged(s[Len(s)]), NEW e \in C!Run,
         e.stop = IF ~e.self THEN s[Len(s)].base
                  ELSE IF s[Len(s)].entry = "jump" THEN s[Len(s) - 1].stop
                  ELSE s[Len(s)].base - 1,
         NEW d2 \in Int, d2 > e.stop, ~e.self => d2 = e.stop + 1
  PROVE  LET u == Append(s, e)
         IN /\ StackOK(u, "none", d2) /\ Len(u) = Len(s) + 1 /\ u[1].stop = s[1].stop /\ u # <<>>
            /\ u[Len(u)] = e
            /\ \A m : OfImage(s, m) => OfImage(u, m)
  <1> DEFINE n == Len(s)
             u == Append(s, e)
  <1>1. n \in Nat /\ n > 1 /\ n % 2 = 0 /\ s[n] \in C!Native /\ s \in Seq(Elem) /\ Alternates(s)
    BY TopIs
  <1>2. e \in Elem /\ e.is = "run" /\ e.self \in BOOLEAN
    BY Elements DEF Elem
  <1>3. u \in Seq(Elem) /\ Len(u) = n + 1 /\ Same(s, u, n) /\ u[n + 1] = e /\ u # <<>>
    BY <1>1, <1>2, Push
  <1> HIDE DEF u
  <1>4. u[1] = s[1] /\ u[n] = s[n] /\ u[n - 1] = s[n - 1]
    BY <1>1, <1>3 DEF Same
  <1>5. RunOK(u, n + 1)
    <2>1. (n + 1) - 1 = n /\ (n + 1) - 2 = n - 1 /\ ~(n + 1 < n + 1)
      BY <1>1
    <2> QED BY <1>2, <1>3, <1>4, <2>1 DEF RunOK
  <1>6. Alternates(u)
    BY <1>1, <1>3, <1>5, AltPush
  <1>7. (n + 1) % 2 = 1
    BY <1>1
  <1>8. TopOK(u, "none", d2)
    BY <1>1, <1>2, <1>3, <1>7 DEF TopOK
  <1>9. \A m : OfImage(s, m) => OfImage(u, m)
    BY <1>1, <1>2, <1>3 DEF Same, OfImage
  <1>10. Len(u) <= MaxStack
    BY <1>1, <1>3, CallsBounded DEF C!BoundAssumption
  <1> QED BY <1>3, <1>4, <1>6, <1>8, <1>9, <1>10 DEF StackOK, Elem, u

\* A body has returned to the run that entered it.
LEMMA BodyLeft ==
  ASSUME NEW s, NEW d, StackOK(s, "none", d), s # <<>>, s[Len(s)].is = "native",
         NEW d2 \in Int, NEW o,
         \/ o = "handoff"
         \/ d2 >= s[Len(s) - 1].stop /\ o = C!Ended(d2, s[Len(s) - 1])
  PROVE  LET u == C!Popped(s)
         IN /\ StackOK(u, o, d2) /\ Len(u) = Len(s) - 1 /\ u[1].stop = s[1].stop /\ u # <<>>
            /\ u[Len(u)] = s[Len(s) - 1] /\ u[Len(u)].is = "run"
            /\ \A m : OfImage(s, m) => OfImage(u, m)
  <1> DEFINE n == Len(s)
             u == C!Popped(s)
  <1>1. n \in Nat /\ n > 1 /\ n % 2 = 0 /\ s \in Seq(Elem) /\ Alternates(s) /\ s[n - 1] \in C!Run
    BY TopIs
  <1>2. u \in Seq(Elem) /\ Len(u) = n - 1 /\ Same(s, u, n - 1) /\ u # <<>>
    BY <1>1, Pop
  <1> HIDE DEF u
  <1>3. Alternates(u) /\ (Len(u) % 2 = 1 => ~u[Len(u)].fresh)
    BY <1>1, <1>2, AltPop
  <1>4. u[1] = s[1] /\ u[n - 1] = s[n - 1]
    BY <1>1, <1>2 DEF Same
  <1>5. \A m : OfImage(s, m) => OfImage(u, m)
    BY <1>1, <1>2 DEF Same, OfImage
  <1>6. (n - 1) % 2 = 1
    BY <1>1, Parity
  <1>7. s[n - 1].stop \in Int /\ s[n - 1].is = "run"
    BY <1>1, Elements
  <1>8. TopOK(u, o, d2)
    BY <1>1, <1>2, <1>3, <1>4, <1>6, <1>7 DEF TopOK, C!Ended
  <1>9. Len(s) <= MaxStack
    BY DEF StackOK
  <1> QED BY <1>1, <1>2, <1>3, <1>4, <1>5, <1>7, <1>8, <1>9, CallsBounded DEF StackOK, Elem, u,
             C!BoundAssumption

\* A nested run is over, and the body that made the call goes on.
LEMMA RunLeft ==
  ASSUME NEW s, NEW o, NEW d, StackOK(s, o, d), s # <<>>, Len(s) > 1, o \in {"return", "handoff"}
  PROVE  LET u == C!Popped(s)
             n == Len(s)
         IN /\ u \in Seq(Elem) /\ Len(u) = n - 1 /\ u # <<>> /\ u[1] = s[1]
            /\ n \in Nat /\ n % 2 = 1 /\ n > 2 /\ s[n].is = "run"
            /\ u[n - 1] = s[n - 1] /\ u[n - 1] \in C!Native /\ ~Flagged(u[n - 1])
            /\ s[n] \in C!Run /\ RunOK(s, n)
            /\ o = "return" => d = s[n].stop
            /\ u[n - 1].base > u[n - 2].stop /\ u[n - 2] \in C!Run
            /\ StackOK(u, "none", u[n - 1].base)
            /\ \A m : OfImage(s, m) => OfImage(u, m)
  <1> DEFINE n == Len(s)
             u == C!Popped(s)
  <1>1. n \in Nat /\ n > 1 /\ s \in Seq(Elem) /\ Alternates(s) /\ TopOK(s, o, d) /\ s[n].is \in {"run", "native"}
    BY TopIs
  <1>2. s[n].is = "run" /\ n % 2 = 1 /\ RunOK(s, n) /\ s[n] \in C!Run
    BY <1>1, TopIs
  <1>3. u \in Seq(Elem) /\ Len(u) = n - 1 /\ Same(s, u, n - 1) /\ u # <<>>
    BY <1>1, Pop
  <1> HIDE DEF u
  <1>4. (n - 1) % 2 = 0 /\ n > 2 /\ (n - 2) % 2 = 1
    BY <1>1, <1>2, Parity
  <1>5. Alternates(u) /\ ~Flagged(u[n - 1])
    BY <1>1, <1>3, <1>4, AltPop
  <1>6. u[1] = s[1] /\ u[n - 1] = s[n - 1] /\ u[n - 2] = s[n - 2]
    BY <1>1, <1>3, <1>4 DEF Same
  <1>7. \A m : OfImage(s, m) => OfImage(u, m)
    BY <1>1, <1>3 DEF Same, OfImage
  <1>8. NativeOK(u, n - 1) /\ RunOK(u, n - 2)
    <2>1. n - 1 \in 1..Len(u) /\ n - 2 \in 1..Len(u)
      BY <1>1, <1>3, <1>4
    <2> QED BY <1>4, <1>5, <2>1 DEF Alternates
  <1>9. u[n - 1] \in C!Native /\ u[n - 2] \in C!Run
    BY <1>8 DEF NativeOK, RunOK
  <1>10. (n - 1) - 1 = n - 2
    BY <1>1
  <1>11. u[n - 1].base > u[n - 2].stop
    BY <1>8, <1>10 DEF NativeOK
  <1>12. o = "return" => d = s[n].stop
    BY <1>1, <1>2 DEF TopOK
  <1>13. TopOK(u, "none", u[n - 1].base)
    BY <1>3, <1>4, <1>5, <1>9, Elements DEF TopOK, Flagged
  <1>14. Len(s) <= MaxStack
    BY DEF StackOK
  <1>15. StackOK(u, "none", u[n - 1].base)
    BY <1>1, <1>3, <1>5, <1>13, <1>14, CallsBounded DEF StackOK, Elem, C!BoundAssumption
  <1> QED BY <1>1, <1>2, <1>3, <1>4, <1>5, <1>6, <1>7, <1>9, <1>11, <1>12, <1>15 DEF u

\* The frames of the bodies a thread is inside, as bodies come and go.
LEMMA FramesPush ==
  ASSUME NEW t \in C!Thread, NEW n \in Nat, n % 2 = 1
  PROVE  Append(FramesOf(t, n), [on |-> t, at |-> n + 1]) = FramesOf(t, n + 1)
  <1>1. n \div 2 \in Nat /\ (n + 1) \div 2 = (n \div 2) + 1 /\ 2 * ((n \div 2) + 1) = n + 1
    <2>1. 2 * (n \div 2) = n - 1 /\ (n + 1) \div 2 = (n \div 2) + 1 /\ n \div 2 \in Nat
      BY Parity
    <2> QED BY <2>1
  <1> DEFINE k == n \div 2
             T == [on : C!Thread, at : Nat]
             f == FramesOf(t, n)
             g == FramesOf(t, n + 1)
             e == [on |-> t, at |-> n + 1]
  <1>2. \A i \in 1..(k + 1) : [on |-> t, at |-> 2 * i] \in T
    BY <1>1
  <1>3. f = [i \in 1..k |-> [on |-> t, at |-> 2 * i]] /\ g = [i \in 1..(k + 1) |-> [on |-> t, at |-> 2 * i]]
    BY <1>1 DEF FramesOf
  <1>4. e = [on |-> t, at |-> 2 * (k + 1)] /\ e \in T
    BY <1>1
  <1>5. k \in Nat
    BY <1>1
  <1> HIDE DEF k, f, g, e
  <1>6. f \in Seq(T) /\ Len(f) = k /\ g \in Seq(T) /\ Len(g) = k + 1
    BY <1>2, <1>3, <1>5
  <1>7. Append(f, e) \in Seq(T) /\ Len(Append(f, e)) = k + 1 /\ \A i \in 1..(k + 1) : Append(f, e)[i] = IF i <= k THEN f[i] ELSE e
    BY <1>4, <1>5, <1>6, AppendProperties
  <1>8. \A i \in 1..(k + 1) : Append(f, e)[i] = g[i]
    <2> SUFFICES ASSUME NEW i \in 1..(k + 1) PROVE Append(f, e)[i] = g[i]
      OBVIOUS
    <2>1. g[i] = [on |-> t, at |-> 2 * i]
      BY <1>3
    <2>2. CASE i <= k
      <3>1. i \in 1..k
        BY <1>5, <2>2
      <3> QED BY <1>3, <1>7, <2>1, <2>2, <3>1
    <2>3. CASE ~(i <= k)
      <3>1. i = k + 1
        BY <1>5, <2>3
      <3> QED BY <1>4, <1>7, <2>1, <2>3, <3>1
    <2> QED BY <2>2, <2>3
  <1>9. Append(f, e) = g
    BY <1>6, <1>7, <1>8, SeqEqual
  <1> QED BY <1>9 DEF f, g, e

\* Popping a body pops its frame.
LEMMA FramesPop ==
  ASSUME NEW t \in C!Thread, NEW n \in Nat, n % 2 = 0, n > 0
  PROVE  C!Popped(FramesOf(t, n)) = FramesOf(t, n - 1)
  <1> DEFINE k == n \div 2
             T == [on : C!Thread, at : Nat]
             f == FramesOf(t, n)
             g == FramesOf(t, n - 1)
  <1>1. k \in Nat /\ k > 0 /\ (n - 1) \div 2 = k - 1
    <2>1. (n - 1) \div 2 = (n \div 2) - 1 /\ n \div 2 \in Nat /\ 2 * (n \div 2) = n
      BY Parity
    <2> QED BY <2>1
  <1>2. \A i \in 1..k : [on |-> t, at |-> 2 * i] \in T
    BY <1>1
  <1>3. f = [i \in 1..k |-> [on |-> t, at |-> 2 * i]] /\ g = [i \in 1..(k - 1) |-> [on |-> t, at |-> 2 * i]]
    BY <1>1 DEF FramesOf
  <1> HIDE DEF k, f, g
  <1>4. k - 1 \in Nat
    BY <1>1
  <1>5. f \in Seq(T) /\ Len(f) = k /\ g \in Seq(T) /\ Len(g) = k - 1
    BY <1>1, <1>2, <1>3, <1>4
  <1> DEFINE m == k - 1
  <1>6. m \in Nat /\ \A i \in 1..m : f[i] \in T
    BY <1>1, <1>2, <1>3
  <1>7. Len(f) - 1 = m /\ Len(g) = m
    BY <1>1, <1>5
  <1>8. \A i \in 1..m : g[i] = f[i]
    BY <1>1, <1>3
  <1> HIDE DEF m
  <1>9. SubSeq(f, 1, m) \in Seq(T) /\ Len(SubSeq(f, 1, m)) = IF 1 <= m THEN m - 1 + 1 ELSE 0
    BY <1>6, SubSeqProperties
  <1>10. \A i \in 1..(m - 1 + 1) : SubSeq(f, 1, m)[i] = f[1 + i - 1]
    BY <1>6, SubSeqProperties
  <1>11. Len(SubSeq(f, 1, m)) = m /\ \A i \in 1..m : SubSeq(f, 1, m)[i] = g[i]
    BY <1>6, <1>8, <1>9, <1>10
  <1>12. SubSeq(f, 1, m) = g
    BY <1>5, <1>7, <1>9, <1>11, SeqEqual
  <1> QED BY <1>7, <1>12 DEF C!Popped, f, g

\* Pushing or popping a run leaves the frames as they are.
LEMMA FramesStay ==
  ASSUME NEW t \in C!Thread, NEW n \in Nat
  PROVE  /\ n % 2 = 0 => FramesOf(t, n + 1) = FramesOf(t, n)
         /\ n % 2 = 1 /\ n > 0 => FramesOf(t, n - 1) = FramesOf(t, n)
  BY Parity DEF FramesOf

\* The innermost frame is the topmost body's.
LEMMA InnermostIs ==
  ASSUME NEW t \in C!Thread, NEW n \in Nat, n > 1, frames[t] = FramesOf(t, n)
  PROVE  /\ C!Innermost(t).on = t
         /\ n % 2 = 0 => C!Innermost(t).at = n
         /\ n % 2 = 1 => C!Innermost(t).at = n - 1
  <1> DEFINE k == n \div 2
  <1>1. k \in Nat /\ k > 0
    OBVIOUS
  <1>2. frames[t] = [i \in 1..k |-> [on |-> t, at |-> 2 * i]]
    BY DEF FramesOf
  <1>3. n % 2 = 0 => 2 * k = n
    BY Parity
  <1>4. n % 2 = 1 => 2 * k = n - 1
    BY Parity
  <1> HIDE DEF k
  <1>5. Len(frames[t]) = k
    BY <1>1, <1>2
  <1>6. frames[t][k] = [on |-> t, at |-> 2 * k]
    BY <1>1, <1>2
  <1> QED BY <1>3, <1>4, <1>5, <1>6 DEF C!Innermost, C!Owner

\* A body that may still run guest code, and a run that executes some, are of the image.
LEMMA OfItsImage ==
  ASSUME CallsInv, NEW t \in C!Thread, runs = t, stack[t] # <<>>, out[t] # "handoff",
         C!Top(t).is = "run" \/ ~C!Top(t).exit, ~(restart /\ Exits(stack[t]))
  PROVE  OfImage(stack[t], active)
  <1>1. StackOK(stack[t], out[t], a7)
    BY Acting
  <1>2. C!Top(t).is \in {"run", "native"}
    BY <1>1, TopIs DEF C!Top
  <1>3. ~C!Leaving(t)
    BY <1>1, <1>2, LeavingIs
  <1>4. ~(t = "game" /\ runs = "host")
    OBVIOUS
  <1> QED BY <1>3, <1>4 DEF CallsInv, BodiesCurrent

\* A step of one thread that replaces no image keeps the bodies of both current.
LEMMA StaysCurrent ==
  ASSUME CallsInv, NEW t \in C!Thread, runs = t, active' = active, restart' = restart, runs' \in {t, "host"},
         \A o \in C!Thread \ {t} : stack'[o] = stack[o] /\ out'[o] = out[o],
         \/ OfImage(stack'[t], active)
         \/ C!Leaving(t)'
         \/ restart /\ Exits(stack'[t])
         \/ restart /\ t = "game" /\ runs' = "host"
  PROVE  BodiesCurrent'
  <1> SUFFICES ASSUME NEW o \in C!Thread \ {t}
               PROVE  \/ OfImage(stack'[o], active')
                      \/ C!Leaving(o)'
                      \/ restart' /\ Exits(stack'[o])
                      \/ restart' /\ o = "game" /\ runs' = "host"
    BY DEF BodiesCurrent
  <1>1. CASE t = "game"
    <2>1. stack'[o] = <<>>
      BY <1>1, Acting DEF C!Thread
    <2> QED BY <2>1, EmptySeq DEF OfImage
  <1>2. CASE t = "host"
    <2>1. runs' = "host" /\ runs = "host"
      BY <1>2
    <2>2. C!Leaving(o) => C!Leaving(o)'
      BY DEF C!Leaving
    <2> QED BY <2>1, <2>2 DEF CallsInv, BodiesCurrent
  <1> QED BY <1>1, <1>2 DEF C!Thread

\* A step that stays on one thread's stack, and leaves something there.
Alone(t) == /\ stack' = [stack EXCEPT ![t] = stack'[t]] /\ frames' = [frames EXCEPT ![t] = frames'[t]]
            /\ stack'[t] # <<>> /\ runs' = t

\* A step of the thread whose turn it is that leaves the image alone, in one place.
LEMMA StepKeeps ==
  ASSUME CallsInv, NEW t \in C!Thread, runs = t, stack[t] # <<>>, runs' = t,
         NEW u, stack' = [stack EXCEPT ![t] = u], u # <<>>, u[1].stop = stack[t][1].stop,
         NEW o, out' = [out EXCEPT ![t] = o], o \in {"none", "return", "handoff"},
         StackOK(u, o, a7'), a7' \in 0..MaxGuest,
         NEW f, frames' = [frames EXCEPT ![t] = f], f = FramesOf(t, Len(u)),
         UNCHANGED <<saved, active, view, restart>>,
         OfImage(u, active) \/ C!Leaving(t)'
  PROVE  CallsInv' /\ Alone(t)
  <1>1. stack \in [C!Thread -> Seq(Elem)] /\ out \in [C!Thread -> {"none", "return", "handoff", "stale"}]
        /\ frames \in [C!Thread -> Seq([on : C!Thread, at : 1..MaxStack])]
    BY Acting
  <1>2. stack'[t] = u /\ out'[t] = o /\ frames'[t] = f
    BY <1>1
  <1>3. \A p \in C!Thread \ {t} : stack'[p] = stack[p] /\ out'[p] = out[p] /\ frames'[p] = frames[p]
    BY <1>1
  <1>4. StacksOK' /\ FramesOK' /\ CallTurns'
    BY <1>2, <1>3, Settles
  <1>5. BodiesCurrent'
    BY <1>2, <1>3, StaysCurrent
  <1>6. u \in Seq(Elem) /\ Len(u) <= MaxStack /\ Len(u) \in Nat
    BY LenProperties DEF StackOK, Elem
  <1>7. f \in Seq([on : C!Thread, at : 1..MaxStack])
    <2>1. Len(u) \div 2 \in Nat /\ \A i \in 1..(Len(u) \div 2) : 2 * i \in 1..MaxStack
      <3>1. \A n \in Nat : n <= MaxStack => n \div 2 \in Nat /\ \A i \in 1..(n \div 2) : 2 * i \in 1..MaxStack
        BY CallsBounded DEF C!BoundAssumption
      <3> QED BY <1>6, <3>1
    <2> DEFINE k == Len(u) \div 2
    <2>2. k \in Nat /\ \A i \in 1..k : [on |-> t, at |-> 2 * i] \in [on : C!Thread, at : 1..MaxStack]
      BY <2>1
    <2>3. f = [i \in 1..k |-> [on |-> t, at |-> 2 * i]]
      BY DEF FramesOf
    <2> HIDE DEF k
    <2> QED BY <2>2, <2>3, IsASeq
  <1>8. CallsTyped'
    BY <1>1, <1>6, <1>7 DEF CallsTyped, CallsInv, Elem
  <1>9. Alone(t)
    BY <1>2 DEF Alone
  <1> QED BY <1>4, <1>5, <1>8, <1>9 DEF CallsInv

\* What a run on top of a thread's stack, and a body there, can rely on.
LEMMA Running ==
  ASSUME CallsInv, NEW t \in C!Thread, C!Interprets(t)
  PROVE  LET s == stack[t]
             n == Len(stack[t])
         IN /\ runs = t /\ s # <<>> /\ s[n].is = "run" /\ out[t] = "none"
            /\ n \in Nat /\ n > 0 /\ n % 2 = 1 /\ s[n] \in C!Run
            /\ StackOK(s, "none", a7) /\ a7 \in 0..MaxGuest /\ stack \in [C!Thread -> Seq(Elem)]
            /\ out \in [C!Thread -> {"none", "return", "handoff", "stale"}]
            /\ frames[t] = FramesOf(t, n) /\ frames \in [C!Thread -> Seq([on : C!Thread, at : 1..MaxStack])]
            /\ s[n].stop \in Nat /\ a7 > s[n].stop /\ OfImage(s, active)
            /\ s[n].fresh /\ ~s[n].self /\ n > 1 => a7 = s[n].stop + 1
  <1> DEFINE s == stack[t]
             n == Len(stack[t])
  <1>1. runs = t /\ s # <<>> /\ s[n].is = "run" /\ out[t] = "none"
    BY DEF C!Interprets, C!Top
  <1>2. StackOK(s, "none", a7) /\ a7 \in 0..MaxGuest /\ stack \in [C!Thread -> Seq(Elem)]
        /\ out \in [C!Thread -> {"none", "return", "handoff", "stale"}]
        /\ frames[t] = FramesOf(t, n) /\ frames \in [C!Thread -> Seq([on : C!Thread, at : 1..MaxStack])]
    BY <1>1, Acting
  <1>3. n \in Nat /\ n > 0 /\ n % 2 = 1 /\ s[n] \in C!Run /\ TopOK(s, "none", a7)
    BY <1>1, <1>2, TopIs
  <1>4. s[n].stop \in Nat /\ a7 > s[n].stop /\ (s[n].fresh /\ ~s[n].self /\ n > 1 => a7 = s[n].stop + 1)
    BY <1>3, Elements DEF TopOK
  <1>5. OfImage(s, active)
    BY <1>1, OfItsImage DEF C!Top, Exits
  <1> QED BY <1>1, <1>2, <1>3, <1>4, <1>5

\* What a thread inside a body knows of it and of the run under it.
LEMMA InBody ==
  ASSUME CallsInv, NEW t \in C!Thread, C!Inside(t)
  PROVE  LET s == stack[t]
             n == Len(stack[t])
         IN /\ runs = t /\ s # <<>> /\ s[n].is = "native" /\ out[t] = "none"
            /\ n \in Nat /\ n > 1 /\ n % 2 = 0 /\ s[n] \in C!Native /\ s[n - 1] \in C!Run
            /\ C!Top(t) = s[n] /\ C!Below(t) = s[n - 1] /\ s[n].base \in Nat /\ s[n - 1].stop \in Nat
            /\ StackOK(s, "none", a7) /\ TopOK(s, "none", a7) /\ NativeOK(s, n)
            /\ a7 \in 0..MaxGuest /\ stack \in [C!Thread -> Seq(Elem)]
            /\ out \in [C!Thread -> {"none", "return", "handoff", "stale"}]
            /\ frames[t] = FramesOf(t, n) /\ frames \in [C!Thread -> Seq([on : C!Thread, at : 1..MaxStack])]
            /\ C!Innermost(t).on = t /\ C!Innermost(t).at = n
            /\ ~s[n].exit /\ ~(restart /\ Exits(s)) => OfImage(s, active) /\ s[n].image = active
  <1> DEFINE s == stack[t]
             n == Len(stack[t])
  <1>1. runs = t /\ s # <<>> /\ s[n].is = "native" /\ out[t] = "none"
    BY DEF C!Inside, C!Top
  <1>2. StackOK(s, "none", a7) /\ a7 \in 0..MaxGuest /\ stack \in [C!Thread -> Seq(Elem)]
        /\ out \in [C!Thread -> {"none", "return", "handoff", "stale"}]
        /\ frames[t] = FramesOf(t, n) /\ frames \in [C!Thread -> Seq([on : C!Thread, at : 1..MaxStack])]
    BY <1>1, Acting
  <1>3. n \in Nat /\ n > 1 /\ n % 2 = 0 /\ s[n] \in C!Native /\ s[n - 1] \in C!Run /\ TopOK(s, "none", a7) /\ NativeOK(s, n)
    BY <1>1, <1>2, TopIs
  <1>4. s[n].base \in Nat /\ s[n - 1].stop \in Nat
    BY <1>3, Elements
  <1>5. ~s[n].exit /\ ~(restart /\ Exits(s)) => OfImage(s, active) /\ s[n].image = active
    <2> SUFFICES ASSUME ~s[n].exit, ~(restart /\ Exits(s)) PROVE OfImage(s, active) /\ s[n].image = active
      OBVIOUS
    <2>1. OfImage(s, active)
      BY <1>1, OfItsImage DEF C!Top
    <2>2. n \in 1..n
      BY <1>3
    <2> QED BY <1>1, <2>1, <2>2 DEF OfImage
  <1>6. C!Innermost(t).on = t /\ C!Innermost(t).at = n
    BY <1>2, <1>3, InnermostIs
  <1> QED BY <1>1, <1>2, <1>3, <1>4, <1>5, <1>6 DEF C!Top, C!Below

\* A subroutine call in interpreted code keeps the invariant.
LEMMA GuestCallKeeps ==
  ASSUME CallsInv, NEW t \in C!Thread, C!GuestCall(t)
  PROVE  CallsInv' /\ Alone(t)
  <1> DEFINE s == stack[t]
             n == Len(stack[t])
             u == [s EXCEPT ![n] = [s[n] EXCEPT !.fresh = FALSE]]
  <1>1. C!Interprets(t) /\ a7 < MaxGuest /\ a7' = a7 + 1
    BY DEF C!GuestCall
  <1>2. /\ runs = t /\ s # <<>> /\ s[n].is = "run" /\ out[t] = "none" /\ StackOK(s, "none", a7)
        /\ stack \in [C!Thread -> Seq(Elem)] /\ out \in [C!Thread -> {"none", "return", "handoff", "stale"}]
        /\ frames[t] = FramesOf(t, n) /\ frames \in [C!Thread -> Seq([on : C!Thread, at : 1..MaxStack])]
        /\ OfImage(s, active)
    BY <1>1, Running
  <1>3. a7 \in 0..MaxGuest /\ s[n].stop \in Nat /\ a7 > s[n].stop
    BY <1>1, Running
  <1>4. a7' \in 0..MaxGuest /\ a7' > s[n].stop /\ a7' >= s[n].stop
    BY <1>1, <1>3, CallsBounded DEF C!BoundAssumption
  <1>5. StackOK(u, C!Ended(a7', s[n]), a7') /\ Len(u) = n /\ u # <<>> /\ u[1].stop = s[1].stop
        /\ \A m : OfImage(s, m) => OfImage(u, m)
    BY <1>2, <1>3, <1>4, RunGoesOn
  <1>6. C!Ended(a7', s[n]) = "none"
    BY <1>3, <1>4 DEF C!Ended
  <1>7. stack' = [stack EXCEPT ![t] = u]
    BY <1>2 DEF C!GuestCall, C!Executed
  <1>8. /\ out' = [out EXCEPT ![t] = "none"] /\ frames' = [frames EXCEPT ![t] = frames[t]]
        /\ runs' = t /\ UNCHANGED <<saved, active, view, restart>>
    BY <1>2 DEF C!GuestCall
  <1> HIDE DEF u
  <1> QED BY <1>2, <1>4, <1>5, <1>6, <1>7, <1>8, StepKeeps

\* So does a return, to the caller or out of the run.
LEMMA GuestReturnKeeps ==
  ASSUME CallsInv, NEW t \in C!Thread, C!GuestReturn(t)
  PROVE  CallsInv' /\ Alone(t)
  <1> DEFINE s == stack[t]
             n == Len(stack[t])
             u == [s EXCEPT ![n] = [s[n] EXCEPT !.fresh = FALSE]]
  <1>1. C!Interprets(t) /\ a7' = a7 - 1
    BY DEF C!GuestReturn
  <1>2. /\ runs = t /\ s # <<>> /\ s[n].is = "run" /\ out[t] = "none" /\ StackOK(s, "none", a7)
        /\ stack \in [C!Thread -> Seq(Elem)] /\ out \in [C!Thread -> {"none", "return", "handoff", "stale"}]
        /\ frames[t] = FramesOf(t, n) /\ frames \in [C!Thread -> Seq([on : C!Thread, at : 1..MaxStack])]
        /\ OfImage(s, active)
    BY <1>1, Running
  <1>3. a7 \in 0..MaxGuest /\ s[n].stop \in Nat /\ a7 > s[n].stop
    BY <1>1, Running
  <1>4. a7' \in 0..MaxGuest /\ a7' >= s[n].stop
    BY <1>1, <1>3, CallsBounded DEF C!BoundAssumption
  <1>5. StackOK(u, C!Ended(a7', s[n]), a7') /\ Len(u) = n /\ u # <<>> /\ u[1].stop = s[1].stop
        /\ \A m : OfImage(s, m) => OfImage(u, m)
    BY <1>2, <1>3, <1>4, RunGoesOn
  <1>6. C!Ended(a7', s[n]) \in {"none", "return", "handoff"}
    BY DEF C!Ended
  <1>7. stack' = [stack EXCEPT ![t] = u]
    BY <1>2 DEF C!GuestReturn, C!Executed
  <1>8. /\ out' = [out EXCEPT ![t] = C!Ended(a7', s[n])] /\ frames' = [frames EXCEPT ![t] = frames[t]]
        /\ runs' = t /\ UNCHANGED <<saved, active, view, restart>>
    BY <1>1, <1>2 DEF C!GuestReturn, C!Top
  <1> HIDE DEF u
  <1> QED BY <1>2, <1>4, <1>5, <1>6, <1>7, <1>8, StepKeeps

\* So does entering a native body, by a call or by a jump.
LEMMA EnterKeeps ==
  ASSUME CallsInv, NEW t \in C!Thread, NEW kind \in C!Kind, NEW how \in {"jsr", "jump", "host"}, C!Enter(t, kind, how)
  PROVE  CallsInv' /\ Alone(t)
  <1> DEFINE s == stack[t]
             n == Len(stack[t])
             v == [s EXCEPT ![n] = [s[n] EXCEPT !.fresh = FALSE]]
             e == [is |-> "native", kind |-> kind,
                   entry |-> IF how = "host" THEN C!Below(t).entry ELSE how,
                   base |-> a7', owed |-> how # "jump", image |-> active, loaded |-> FALSE,
                   moved |-> FALSE, cont |-> FALSE, exit |-> FALSE]
             u == Append(v, e)
  <1>1. /\ C!Interprets(t) /\ n < MaxStack /\ (kind = "replacement" => how # "jump")
        /\ how = "host" => s[n].fresh /\ ~s[n].self /\ n > 1
        /\ how = "jsr" => a7 < MaxGuest
        /\ a7' = IF how = "jsr" THEN a7 + 1 ELSE a7
    BY DEF C!Enter, C!Top
  <1>2. /\ runs = t /\ s # <<>> /\ s[n].is = "run" /\ out[t] = "none" /\ StackOK(s, "none", a7)
        /\ stack \in [C!Thread -> Seq(Elem)] /\ out \in [C!Thread -> {"none", "return", "handoff", "stale"}]
        /\ frames[t] = FramesOf(t, n) /\ frames \in [C!Thread -> Seq([on : C!Thread, at : 1..MaxStack])]
        /\ OfImage(s, active) /\ n \in Nat /\ n > 0 /\ n % 2 = 1
    BY <1>1, Running
  <1>3. /\ a7 \in 0..MaxGuest /\ s[n].stop \in Nat /\ a7 > s[n].stop
        /\ s[n].fresh /\ ~s[n].self /\ n > 1 => a7 = s[n].stop + 1
    BY <1>1, Running
  <1>4. /\ a7' \in 0..MaxGuest /\ a7' > s[n].stop
        /\ how = "host" => a7' = s[n].stop + 1
    BY <1>1, <1>3, CallsBounded DEF C!BoundAssumption
  <1>5. /\ v \in Seq(Elem) /\ Len(v) = n /\ v # <<>> /\ v[1].stop = s[1].stop /\ Alternates(v)
        /\ v[n] = [s[n] EXCEPT !.fresh = FALSE] /\ v[n] \in C!Run
        /\ \A m : OfImage(s, m) => OfImage(v, m)
    <2>1. a7 >= s[n].stop
      BY <1>3
    <2> QED BY <1>2, <1>3, <2>1, RunGoesOn
  <1>6. v[n].stop = s[n].stop /\ ~v[n].fresh
    <2>1. s[n] \in C!Run
      BY <1>1, Running
    <2> QED BY <1>5, <2>1 DEF C!Run
  <1>7. how = "host" => C!Below(t).entry \in C!Entry
    <2> SUFFICES ASSUME how = "host" PROVE s[n - 1].entry \in C!Entry
      BY DEF C!Below
    <2>1. n > 1
      BY <1>1
    <2>2. n - 1 \in 1..n /\ (n - 1) % 2 = 0 /\ (n - 1) % 2 # 1
      <3>1. n \in Nat /\ n > 0 /\ n % 2 = 1
        BY <1>2
      <3> HIDE DEF n
      <3> QED BY <2>1, <3>1, Parity
    <2>3. Alternates(s)
      BY <1>2 DEF StackOK
    <2>4. NativeOK(s, n - 1)
      BY <2>2, <2>3 DEF Alternates
    <2> QED BY <2>4, Elements DEF NativeOK
  <1>8. e \in C!Native
    <2>1. active \in 1..MaxImage
      BY DEF CallsInv, CallsTyped
    <2> QED BY <1>4, <1>7, <2>1 DEF C!Native, C!Entry
  <1>9. /\ e.base = a7' /\ e.owed = (how # "jump") /\ e.kind = kind /\ e.image = active
        /\ ~e.moved /\ ~e.cont /\ ~e.exit
        /\ how # "host" => e.entry = how
    OBVIOUS
  <1>10. /\ StackOK(u, "none", a7') /\ Len(u) = n + 1 /\ u[1].stop = s[1].stop /\ u # <<>>
         /\ OfImage(u, active)
    <2> HIDE DEF v, e
    <2>1. /\ e.base > v[n].stop /\ (e.kind = "replacement" => e.owed) /\ (~e.owed => e.entry = "jump")
          /\ e.owed /\ e.entry = "jump" => e.base = v[n].stop + 1
      BY <1>1, <1>4, <1>6, <1>9
    <2>2. Len(v) < MaxStack /\ Len(v) % 2 = 1 /\ Len(v) + 1 = n + 1 /\ OfImage(v, active)
      BY <1>1, <1>2, <1>5
    <2>4. /\ v \in Seq(Elem) /\ Alternates(v) /\ v # <<>> /\ v[Len(v)] \in C!Run /\ ~v[Len(v)].fresh
          /\ e.base > v[Len(v)].stop
          /\ e.owed /\ e.entry = "jump" => e.base = v[Len(v)].stop + 1
      BY <1>5, <1>6, <2>1
    <2>3. /\ StackOK(u, "none", e.base) /\ Len(u) = Len(v) + 1 /\ u[1].stop = v[1].stop /\ u # <<>>
          /\ OfImage(v, active) /\ e.image = active => OfImage(u, active)
      BY <1>8, <1>9, <2>1, <2>2, <2>4, BodyEntered
    <2> QED BY <1>5, <1>9, <2>2, <2>3
  <1>11. stack' = [stack EXCEPT ![t] = u]
    BY <1>2 DEF C!Enter, C!Executed
  <1>12. frames' = [frames EXCEPT ![t] = FramesOf(t, n + 1)]
    BY <1>2, FramesPush DEF C!Enter, C!Owner
  <1>13. out' = [out EXCEPT ![t] = "none"] /\ runs' = t /\ UNCHANGED <<saved, active, view, restart>>
    BY <1>2 DEF C!Enter
  <1> HIDE DEF u, v, e
  <1> QED BY <1>2, <1>4, <1>10, <1>11, <1>12, <1>13, StepKeeps

\* A step that only touches the acting thread's own stack, above its first run.
LEMMA TopKeeps ==
  ASSUME CallsInv, NEW t \in C!Thread, runs = t, stack[t] # <<>>, runs' = t,
         stack' = [stack EXCEPT ![t] = stack'[t]], out' = [out EXCEPT ![t] = out'[t]],
         frames' = [frames EXCEPT ![t] = frames'[t]],
         stack'[t] # <<>>, stack'[t][1].stop = stack[t][1].stop, out'[t] \in {"none", "return", "handoff"},
         StackOK(stack'[t], out'[t], a7'), a7' \in 0..MaxGuest, frames'[t] = FramesOf(t, Len(stack'[t])),
         UNCHANGED <<saved, active, view, restart>>,
         OfImage(stack'[t], active) \/ C!Leaving(t)'
  PROVE  CallsInv' /\ Alone(t)
  BY StepKeeps

\* The depth a body at the top of a stack stands at.
LEMMA BodyIs ==
  ASSUME NEW s, NEW o, NEW d, Len(s) \in Nat, Len(s) % 2 = 0, TopOK(s, o, d)
  PROVE  ~s[Len(s)].exit => d = IF ~s[Len(s)].moved \/ s[Len(s)].cont THEN s[Len(s)].base
                                ELSE IF s[Len(s)].owed THEN s[Len(s)].base - 1
                                ELSE s[Len(s) - 1].stop
  BY DEF TopOK

\* A body that has not spoken for its boundary, and may run guest code.
LEMMA MayCall ==
  ASSUME CallsInv, NEW t \in C!Thread, C!Undecided(t), ~(restart /\ Exits(stack[t]))
  PROVE  LET s == stack[t]
             n == Len(stack[t])
         IN /\ C!Inside(t) /\ runs = t /\ s # <<>> /\ s[n].is = "native" /\ out[t] = "none"
            /\ n \in Nat /\ n > 1 /\ n % 2 = 0 /\ s[n] \in C!Native /\ s[n - 1] \in C!Run
            /\ C!Top(t) = s[n] /\ C!Below(t) = s[n - 1] /\ s[n].base \in 0..MaxGuest /\ s[n - 1].stop \in Nat
            /\ StackOK(s, "none", a7) /\ a7 \in 0..MaxGuest /\ stack \in [C!Thread -> Seq(Elem)]
            /\ out \in [C!Thread -> {"none", "return", "handoff", "stale"}]
            /\ frames[t] = FramesOf(t, n) /\ frames \in [C!Thread -> Seq([on : C!Thread, at : 1..MaxStack])]
            /\ C!Innermost(t).on = t /\ C!Innermost(t).at = n
            /\ OfImage(s, active) /\ s[n].image = active
            /\ ~Flagged(s[n]) /\ ~s[n].moved /\ ~s[n].cont /\ ~s[n].exit
            /\ a7 = s[n].base /\ a7 > s[n - 1].stop /\ (s[n].kind = "replacement" => s[n].owed)
  <1> DEFINE s == stack[t]
             n == Len(stack[t])
  <1>1. C!Inside(t)
    BY DEF C!Undecided
  <1>2. ~s[n].moved /\ ~s[n].cont /\ ~s[n].exit
    BY <1>1, InBody DEF C!Undecided
  <1>3. /\ n \in Nat /\ n % 2 = 0 /\ TopOK(s, "none", a7) /\ NativeOK(s, n) /\ s[n] \in C!Native
        /\ s[n].base \in Nat /\ s[n - 1].stop \in Nat
    BY <1>1, InBody
  <1>4. a7 = s[n].base
    <2>1. Len(s) \in Nat /\ Len(s) % 2 = 0 /\ TopOK(s, "none", a7)
      BY <1>3
    <2>2. ~s[Len(s)].exit => a7 = IF ~s[Len(s)].moved \/ s[Len(s)].cont THEN s[Len(s)].base
                                  ELSE IF s[Len(s)].owed THEN s[Len(s)].base - 1
                                  ELSE s[Len(s) - 1].stop
      BY <2>1, BodyIs
    <2> QED BY <1>2, <2>2
  <1>5. a7 > s[n - 1].stop /\ (s[n].kind = "replacement" => s[n].owed) /\ s[n].base \in 0..MaxGuest
    BY <1>3, <1>4, Elements DEF NativeOK
  <1> QED BY <1>1, <1>2, <1>4, <1>5, InBody DEF Flagged

\* A body that may run guest code holds a context of the current image.
LEMMA NotStale ==
  ASSUME CallsInv, NEW t \in C!Thread, C!Undecided(t), ~(restart /\ Exits(stack[t]))
  PROVE  ~C!Stale(t)
  BY MayCall DEF C!Stale

\* A body that is flagged where it stands, while it may run guest code.
LEMMA FlagKeeps ==
  ASSUME CallsInv, NEW t \in C!Thread, C!Undecided(t), ~(restart /\ Exits(stack[t])),
         NEW e \in C!Native, e.kind = C!Top(t).kind, e.entry = C!Top(t).entry, e.base = C!Top(t).base,
         e.owed = C!Top(t).owed, e.image = C!Top(t).image, ~e.exit,
         stack' = [stack EXCEPT ![t] = [stack[t] EXCEPT ![Len(stack[t])] = e]],
         a7' \in 0..MaxGuest,
         a7' = IF ~e.moved \/ e.cont THEN e.base ELSE IF e.owed THEN e.base - 1 ELSE C!Below(t).stop,
         UNCHANGED <<frames, out, saved, active, view, runs, restart>>
  PROVE  CallsInv' /\ Alone(t) /\ Len(stack'[t]) >= Len(stack[t])
  <1> DEFINE s == stack[t]
             n == Len(s)
             u == [s EXCEPT ![n] = e]
  <1>1. /\ runs = t /\ s # <<>> /\ s[n].is = "native" /\ out[t] = "none" /\ StackOK(s, "none", a7)
        /\ stack \in [C!Thread -> Seq(Elem)] /\ out \in [C!Thread -> {"none", "return", "handoff", "stale"}]
        /\ frames[t] = FramesOf(t, n) /\ frames \in [C!Thread -> Seq([on : C!Thread, at : 1..MaxStack])]
        /\ OfImage(s, active) /\ s[n].image = active /\ C!Top(t) = s[n] /\ C!Below(t) = s[n - 1]
    BY MayCall
  <1>2. /\ StackOK(u, "none", a7') /\ Len(u) = n /\ u # <<>> /\ u[1].stop = s[1].stop
        /\ \A m : OfImage(s, m) /\ e.image = m => OfImage(u, m)
    <2>1. e.kind = s[n].kind /\ e.entry = s[n].entry /\ e.base = s[n].base /\ e.owed = s[n].owed
      BY <1>1
    <2>2. a7' = IF ~e.moved \/ e.cont THEN e.base ELSE IF e.owed THEN e.base - 1 ELSE s[n - 1].stop
      BY <1>1
    <2>3. StackOK(s, "none", a7) /\ s # <<>> /\ s[n].is = "native"
      BY <1>1
    <2>4. /\ e.kind = s[Len(s)].kind /\ e.entry = s[Len(s)].entry /\ e.base = s[Len(s)].base /\ e.owed = s[Len(s)].owed
          /\ StackOK(s, "none", a7) /\ s # <<>> /\ s[Len(s)].is = "native"
          /\ ~e.exit => a7' = IF ~e.moved \/ e.cont THEN e.base ELSE IF e.owed THEN e.base - 1 ELSE s[Len(s) - 1].stop
      BY <2>1, <2>2, <2>3
    <2> HIDE DEF s
    <2> QED BY <2>4, BodyFlagged
  <1>3. OfImage(u, active)
    BY <1>1, <1>2
  <1>4. /\ stack' = [stack EXCEPT ![t] = u] /\ out' = [out EXCEPT ![t] = "none"]
        /\ frames' = [frames EXCEPT ![t] = frames[t]] /\ frames[t] = FramesOf(t, Len(u))
    BY <1>1, <1>2
  <1>5. runs' = t /\ UNCHANGED <<saved, active, view, restart>>
    BY <1>1
  <1> HIDE DEF u
  <1>6. stack'[t] = u /\ out'[t] = "none" /\ frames'[t] = FramesOf(t, Len(u)) /\ frames' = frames /\ out' = out
    BY <1>1, <1>4
  <1>7. stack' = [stack EXCEPT ![t] = stack'[t]] /\ out' = [out EXCEPT ![t] = out'[t]] /\ frames' = [frames EXCEPT ![t] = frames'[t]]
    BY <1>1, <1>4, <1>6
  <1>8. /\ stack'[t] # <<>> /\ stack'[t][1].stop = stack[t][1].stop
        /\ StackOK(stack'[t], out'[t], a7') /\ frames'[t] = FramesOf(t, Len(stack'[t]))
        /\ OfImage(stack'[t], active)
    BY <1>2, <1>3, <1>6
  <1>9. out'[t] \in {"none", "return", "handoff"} /\ stack[t] # <<>> /\ runs = t
    BY <1>1, <1>6
  <1>10. Len(stack'[t]) >= Len(stack[t])
    BY <1>2, <1>6, MayCall
  <1> QED BY <1>5, <1>7, <1>8, <1>9, <1>10, TopKeeps

\* Flagging through the innermost frame flags the topmost body.
LEMMA ContFlaggedIs ==
  ASSUME NEW t \in C!Thread, stack \in [C!Thread -> Seq(Elem)], C!Innermost(t).on = t, C!Innermost(t).at = Len(stack[t])
  PROVE  /\ C!ContFlagged(stack, t) = [stack EXCEPT ![t] = [stack[t] EXCEPT ![Len(stack[t])] =
              [stack[t][Len(stack[t])] EXCEPT !.cont = TRUE]]]
         /\ C!ExitFlagged(stack, t) = [stack EXCEPT ![t] = [stack[t] EXCEPT ![Len(stack[t])] =
              [stack[t][Len(stack[t])] EXCEPT !.exit = TRUE]]]
  BY DEF C!ContFlagged, C!ExitFlagged

\* A body that has the interpreter go on where it stands.
LEMMA ContinueKeeps ==
  ASSUME CallsInv, NEW t \in C!Thread, C!Continue(t)
  PROVE  CallsInv' /\ Alone(t) /\ Len(stack'[t]) >= Len(stack[t])
  <1> DEFINE e == [C!Top(t) EXCEPT !.cont = TRUE]
  <1>1. C!Undecided(t) /\ C!Top(t).kind = "observer"
    BY DEF C!Continue
  <1>2. ~(restart /\ Exits(stack[t]))
    BY <1>1 DEF Exits, C!Top
  <1>3. ~C!Stale(t)
    BY <1>1, <1>2, NotStale
  <1>4. /\ stack \in [C!Thread -> Seq(Elem)] /\ C!Innermost(t).on = t /\ C!Innermost(t).at = Len(stack[t])
        /\ C!Top(t) = stack[t][Len(stack[t])] /\ C!Top(t) \in C!Native /\ a7 = C!Top(t).base /\ ~C!Top(t).exit
        /\ a7 \in 0..MaxGuest
    <2>1. /\ stack \in [C!Thread -> Seq(Elem)] /\ C!Innermost(t).on = t /\ C!Innermost(t).at = Len(stack[t])
          /\ C!Top(t) = stack[t][Len(stack[t])] /\ stack[t][Len(stack[t])] \in C!Native
          /\ a7 = stack[t][Len(stack[t])].base /\ ~stack[t][Len(stack[t])].exit /\ a7 \in 0..MaxGuest
      BY <1>1, <1>2, MayCall
    <2> QED BY <2>1
  <1>5. stack' = C!ContFlagged(stack, t) /\ UNCHANGED <<frames, out, a7, saved, active, view, runs, restart>>
    BY <1>3 DEF C!Continue
  <1>6. stack' = [stack EXCEPT ![t] = [stack[t] EXCEPT ![Len(stack[t])] = e]]
    BY <1>4, <1>5, ContFlaggedIs
  <1>7. /\ e \in C!Native /\ e.kind = C!Top(t).kind /\ e.entry = C!Top(t).entry /\ e.base = C!Top(t).base
        /\ e.owed = C!Top(t).owed /\ e.image = C!Top(t).image /\ ~e.exit /\ e.cont
    BY <1>4 DEF C!Native
  <1> HIDE DEF e
  <1> QED BY <1>1, <1>2, <1>4, <1>5, <1>6, <1>7, FlagKeeps

\* A body that leaves by a jump.
LEMMA JumpKeeps ==
  ASSUME CallsInv, NEW t \in C!Thread, C!Jump(t)
  PROVE  CallsInv' /\ Alone(t) /\ Len(stack'[t]) >= Len(stack[t])
  <1> DEFINE c == [C!Top(t) EXCEPT !.cont = TRUE]
             e == [c EXCEPT !.moved = TRUE]
             n == Len(stack[t])
  <1>1. C!Undecided(t) /\ (C!Top(t).kind = "observer" \/ ~restart)
    BY DEF C!Jump
  <1>2. ~(restart /\ Exits(stack[t]))
    BY <1>1 DEF Exits, C!Top
  <1>3. ~C!Stale(t)
    BY <1>1, <1>2, NotStale
  <1>4. /\ stack \in [C!Thread -> Seq(Elem)] /\ C!Innermost(t).on = t /\ C!Innermost(t).at = n
        /\ C!Top(t) = stack[t][n] /\ C!Top(t) \in C!Native /\ a7 = C!Top(t).base /\ ~C!Top(t).exit
        /\ a7 \in 0..MaxGuest /\ n \in Nat /\ n > 1
    <2>1. /\ stack \in [C!Thread -> Seq(Elem)] /\ C!Innermost(t).on = t /\ C!Innermost(t).at = n
          /\ C!Top(t) = stack[t][n] /\ stack[t][n] \in C!Native /\ a7 = stack[t][n].base /\ ~stack[t][n].exit
          /\ a7 \in 0..MaxGuest /\ n \in Nat /\ n > 1
      BY <1>1, <1>2, MayCall
    <2> QED BY <2>1
  <1>5. /\ stack' = [C!ContFlagged(stack, t) EXCEPT ![t][n].moved = TRUE]
        /\ UNCHANGED <<frames, out, a7, saved, active, view, runs, restart>>
    BY <1>3 DEF C!Jump
  <1>6. stack' = [stack EXCEPT ![t] = [stack[t] EXCEPT ![n] = e]]
    <2>1. C!ContFlagged(stack, t) = [stack EXCEPT ![t] = [stack[t] EXCEPT ![n] = c]]
      BY <1>4, ContFlaggedIs
    <2>2. n \in DOMAIN stack[t]
      <3>1. stack[t] \in Seq(Elem)
        BY <1>4
      <3> QED BY <1>4, <3>1, LenProperties
    <2> HIDE DEF c
    <2>3. [[stack EXCEPT ![t] = [stack[t] EXCEPT ![n] = c]] EXCEPT ![t][n].moved = TRUE]
          = [stack EXCEPT ![t] = [stack[t] EXCEPT ![n] = [c EXCEPT !.moved = TRUE]]]
      BY <1>4, <2>2
    <2> QED BY <1>5, <2>1, <2>3
  <1>7. /\ e \in C!Native /\ e.kind = C!Top(t).kind /\ e.entry = C!Top(t).entry /\ e.base = C!Top(t).base
        /\ e.owed = C!Top(t).owed /\ e.image = C!Top(t).image /\ ~e.exit /\ e.cont
    BY <1>4 DEF C!Native
  <1> HIDE DEF e
  <1> QED BY <1>1, <1>2, <1>4, <1>5, <1>6, <1>7, FlagKeeps

\* A body that pops its own return address.
LEMMA ReturnItselfKeeps ==
  ASSUME CallsInv, NEW t \in C!Thread, C!ReturnItself(t)
  PROVE  CallsInv' /\ Alone(t) /\ Len(stack'[t]) >= Len(stack[t])
  <1> DEFINE e == [C!Top(t) EXCEPT !.moved = TRUE]
             n == Len(stack[t])
  <1>1. C!Undecided(t) /\ C!Top(t).kind = "replacement" /\ a7' = a7 - 1
    BY DEF C!ReturnItself
  <1>2. ~(restart /\ Exits(stack[t]))
    BY <1>1 DEF Exits, C!Top
  <1>3. /\ stack \in [C!Thread -> Seq(Elem)] /\ C!Top(t) = stack[t][n] /\ C!Top(t) \in C!Native /\ ~C!Top(t).exit
        /\ ~C!Top(t).cont /\ (C!Top(t).kind = "replacement" => C!Top(t).owed)
    <2>1. /\ stack \in [C!Thread -> Seq(Elem)] /\ C!Top(t) = stack[t][n] /\ stack[t][n] \in C!Native /\ ~stack[t][n].exit
          /\ ~stack[t][n].cont /\ (stack[t][n].kind = "replacement" => stack[t][n].owed)
      BY <1>1, <1>2, MayCall
    <2> QED BY <2>1
  <1>4. a7 = C!Top(t).base /\ a7 \in 0..MaxGuest /\ a7 > C!Below(t).stop /\ C!Below(t).stop \in Nat
    <2>1. /\ a7 = stack[t][n].base /\ a7 \in 0..MaxGuest /\ a7 > stack[t][n - 1].stop
          /\ stack[t][n - 1].stop \in Nat /\ C!Top(t) = stack[t][n] /\ C!Below(t) = stack[t][n - 1]
      BY <1>1, <1>2, MayCall
    <2> QED BY <2>1
  <1>5. a7' \in 0..MaxGuest /\ a7' = C!Top(t).base - 1
    BY <1>1, <1>4, CallsBounded DEF C!BoundAssumption
  <1>6. stack' = [stack EXCEPT ![t] = [stack[t] EXCEPT ![n] = e]]
    BY <1>3 DEF C!ReturnItself
  <1>7. /\ e \in C!Native /\ e.kind = C!Top(t).kind /\ e.entry = C!Top(t).entry /\ e.base = C!Top(t).base
        /\ e.owed = C!Top(t).owed /\ e.image = C!Top(t).image /\ ~e.exit /\ ~e.cont /\ e.moved /\ e.owed
    BY <1>1, <1>3 DEF C!Native
  <1>8. UNCHANGED <<frames, out, saved, active, view, runs, restart>>
    BY DEF C!ReturnItself
  <1> HIDE DEF e
  <1>9. a7' = IF ~e.moved \/ e.cont THEN e.base ELSE IF e.owed THEN e.base - 1 ELSE C!Below(t).stop
    BY <1>5, <1>7
  <1> QED BY <1>1, <1>2, <1>5, <1>6, <1>7, <1>8, <1>9, FlagKeeps

\* The boundary a nested run is given, by how its body was entered.
LEMMA BoundaryIs ==
  ASSUME NEW native, NEW self \in BOOLEAN
  PROVE  /\ ~self => C!Boundary(native, self) = "host"
         /\ self /\ native.entry = "jump" => C!Boundary(native, self) = "tail"
         /\ self /\ native.entry # "jump" => C!Boundary(native, self) = "subroutine"
  BY DEF C!Boundary

\* A body that calls guest code: a run with its boundary is pushed.
LEMMA CallKeeps ==
  ASSUME CallsInv, NEW t \in C!Thread, NEW self \in BOOLEAN, C!Call(t, self)
  PROVE  CallsInv' /\ Alone(t) /\ Len(stack'[t]) >= Len(stack[t])
  <1> DEFINE s == stack[t]
             n == Len(s)
             e == C!NewRun(C!Stop(t, C!Boundary(C!Top(t), self)), self)
             u == Append(s, e)
  <1>1. /\ C!Undecided(t) /\ n < MaxStack
        /\ IF self THEN C!Top(t).kind = "observer" ELSE C!Top(t).kind = "replacement" /\ a7 < MaxGuest
    BY DEF C!Call
  <1>2. ~(restart /\ Exits(s))
    BY <1>1 DEF Exits, C!Top
  <1>3. ~C!Stale(t)
    BY <1>1, <1>2, NotStale
  <1>4. /\ runs = t /\ s # <<>> /\ s[n].is = "native" /\ out[t] = "none" /\ StackOK(s, "none", a7)
        /\ stack \in [C!Thread -> Seq(Elem)] /\ out \in [C!Thread -> {"none", "return", "handoff", "stale"}]
        /\ frames[t] = FramesOf(t, n) /\ frames \in [C!Thread -> Seq([on : C!Thread, at : 1..MaxStack])]
        /\ OfImage(s, active) /\ C!Top(t) = s[n] /\ C!Below(t) = s[n - 1] /\ ~Flagged(s[n])
        /\ n \in Nat /\ n % 2 = 0
    BY <1>1, <1>2, MayCall
  <1>5. a7 = s[n].base /\ a7 > s[n - 1].stop /\ s[n - 1].stop \in Nat /\ a7 \in 0..MaxGuest
    BY <1>1, <1>2, MayCall
  <1>6. /\ stack' = [stack EXCEPT ![t] = u]
        /\ a7' = IF C!Boundary(C!Top(t), self) = "host" THEN a7 + 1 ELSE a7
        /\ UNCHANGED <<frames, out, saved, active, view, runs, restart>>
    BY <1>3, <1>4 DEF C!Call
  <1>7. /\ e.self = self /\ e.stop = C!Stop(t, C!Boundary(C!Top(t), self)) /\ e.fresh /\ e.is = "run"
        /\ e = [is |-> "run", stop |-> e.stop, self |-> self, fresh |-> TRUE]
    BY DEF C!NewRun
  <1>8. /\ ~self => e.stop = a7 /\ a7' = a7 + 1 /\ a7 < MaxGuest
        /\ self /\ s[n].entry = "jump" => e.stop = s[n - 1].stop /\ a7' = a7
        /\ self /\ s[n].entry # "jump" => e.stop = a7 - 1 /\ a7' = a7
    <2> HIDE DEF e
    <2>1. /\ ~self => C!Boundary(C!Top(t), self) = "host"
          /\ self /\ s[n].entry = "jump" => C!Boundary(C!Top(t), self) = "tail"
          /\ self /\ s[n].entry # "jump" => C!Boundary(C!Top(t), self) = "subroutine"
      BY <1>4, BoundaryIs
    <2>2. /\ ~self => e.stop = a7 /\ a7' = a7 + 1
          /\ self /\ s[n].entry = "jump" => e.stop = s[n - 1].stop /\ a7' = a7
          /\ self /\ s[n].entry # "jump" => e.stop = a7 - 1 /\ a7' = a7
      BY <1>4, <1>6, <1>7, <2>1 DEF C!Stop
    <2> QED BY <1>1, <2>2
  <1> HIDE DEF e
  <1>9. e.stop \in 0..MaxGuest /\ a7' \in 0..MaxGuest /\ a7' > e.stop /\ (~self => a7' = e.stop + 1)
    <2>1. a7 \in Nat /\ MaxGuest \in Nat /\ a7 <= MaxGuest /\ s[n - 1].stop \in Nat /\ a7 > s[n - 1].stop
      BY <1>5, CallsBounded DEF C!BoundAssumption
    <2>2. CASE ~self
      BY <1>8, <2>1, <2>2
    <2>3. CASE self /\ s[n].entry = "jump"
      BY <1>8, <2>1, <2>3
    <2>4. CASE self /\ s[n].entry # "jump"
      BY <1>8, <2>1, <2>4
    <2> QED BY <2>2, <2>3, <2>4
  <1>10. e \in C!Run
    BY <1>7, <1>9 DEF C!Run
  <1>11. /\ StackOK(u, "none", a7') /\ Len(u) = n + 1 /\ u[1].stop = s[1].stop /\ u # <<>>
         /\ OfImage(u, active)
    <2>1. e.stop = IF ~e.self THEN s[n].base ELSE IF s[n].entry = "jump" THEN s[n - 1].stop ELSE s[n].base - 1
      BY <1>5, <1>7, <1>8
    <2>2. a7' \in Int /\ (~e.self => a7' = e.stop + 1)
      BY <1>7, <1>9
    <2> QED BY <1>1, <1>4, <1>9, <1>10, <2>1, <2>2, RunCalled
  <1>12. FramesOf(t, n + 1) = frames[t]
    BY <1>4, FramesStay
  <1> HIDE DEF u
  <1>13. stack'[t] = u /\ out'[t] = "none" /\ frames'[t] = FramesOf(t, Len(u)) /\ frames' = frames /\ out' = out
    BY <1>4, <1>6, <1>11, <1>12
  <1>14. stack' = [stack EXCEPT ![t] = stack'[t]] /\ out' = [out EXCEPT ![t] = out'[t]] /\ frames' = [frames EXCEPT ![t] = frames'[t]]
    BY <1>4, <1>6, <1>13
  <1>15. /\ stack'[t] # <<>> /\ stack'[t][1].stop = stack[t][1].stop
         /\ StackOK(stack'[t], out'[t], a7') /\ frames'[t] = FramesOf(t, Len(stack'[t]))
         /\ OfImage(stack'[t], active)
    BY <1>11, <1>13
  <1>16. out'[t] \in {"none", "return", "handoff"} /\ stack[t] # <<>> /\ runs = t /\ runs' = t
         /\ UNCHANGED <<saved, active, view, restart>> /\ a7' \in 0..MaxGuest
    BY <1>4, <1>6, <1>9, <1>13
  <1>17. Len(stack'[t]) >= Len(stack[t])
    BY <1>4, <1>11, <1>13
  <1> QED BY <1>14, <1>15, <1>16, <1>17, TopKeeps

\* A body that asks for the host.
LEMMA ExitKeeps ==
  ASSUME CallsInv, NEW t \in C!Thread, C!Exit(t)
  PROVE  CallsInv' /\ Alone(t) /\ Len(stack'[t]) >= Len(stack[t])
  <1> DEFINE s == stack[t]
             n == Len(s)
             e == [s[n] EXCEPT !.exit = TRUE]
             u == [s EXCEPT ![n] = e]
  <1>1. C!Inside(t) /\ stack' = C!ExitFlagged(stack, t)
        /\ UNCHANGED <<frames, out, a7, saved, active, view, runs, restart>>
    BY DEF C!Exit, C!Undecided
  <1>2. /\ runs = t /\ s # <<>> /\ s[n].is = "native" /\ out[t] = "none" /\ StackOK(s, "none", a7)
        /\ stack \in [C!Thread -> Seq(Elem)] /\ s[n] \in C!Native /\ n \in Nat /\ n > 1
        /\ C!Innermost(t).on = t /\ C!Innermost(t).at = n
    BY <1>1, InBody
  <1>3. /\ out \in [C!Thread -> {"none", "return", "handoff", "stale"}]
        /\ frames[t] = FramesOf(t, n) /\ frames \in [C!Thread -> Seq([on : C!Thread, at : 1..MaxStack])]
        /\ a7 \in 0..MaxGuest
    BY <1>1, InBody
  <1>4. /\ e \in C!Native /\ e.kind = s[n].kind /\ e.entry = s[n].entry /\ e.base = s[n].base
        /\ e.owed = s[n].owed /\ e.exit /\ e.is = "native"
    BY <1>2 DEF C!Native
  <1>5. stack' = [stack EXCEPT ![t] = u]
    BY <1>1, <1>2, ContFlaggedIs
  <1>6. StackOK(u, "none", a7) /\ Len(u) = n /\ u # <<>> /\ u[1].stop = s[1].stop /\ u[n] = e
    <2>1. StackOK(s, "none", a7) /\ s # <<>> /\ s[Len(s)].is = "native"
      BY <1>2
    <2>2. ~e.exit => a7 = IF ~e.moved \/ e.cont THEN e.base ELSE IF e.owed THEN e.base - 1 ELSE s[Len(s) - 1].stop
      BY <1>4
    <2>3. e.kind = s[Len(s)].kind /\ e.entry = s[Len(s)].entry /\ e.base = s[Len(s)].base /\ e.owed = s[Len(s)].owed
      BY <1>4
    <2> HIDE DEF s, e
    <2> QED BY <1>4, <2>1, <2>2, <2>3, BodyFlagged
  <1> HIDE DEF u, e
  <1>7. stack'[t] = u /\ out'[t] = "none" /\ frames'[t] = FramesOf(t, Len(u)) /\ frames' = frames /\ out' = out
    BY <1>1, <1>2, <1>3, <1>5, <1>6
  <1>8. stack' = [stack EXCEPT ![t] = stack'[t]] /\ out' = [out EXCEPT ![t] = out'[t]] /\ frames' = [frames EXCEPT ![t] = frames'[t]]
    BY <1>3, <1>5, <1>7
  <1>9. C!Leaving(t)'
    <2>1. n \in 1..Len(stack'[t]) /\ stack'[t][n].is = "native" /\ stack'[t][n].exit
      BY <1>2, <1>4, <1>6, <1>7
    <2> QED BY <2>1 DEF C!Leaving
  <1>10. /\ stack'[t] # <<>> /\ stack'[t][1].stop = stack[t][1].stop
         /\ StackOK(stack'[t], out'[t], a7') /\ frames'[t] = FramesOf(t, Len(stack'[t]))
    BY <1>1, <1>6, <1>7
  <1>11. out'[t] \in {"none", "return", "handoff"} /\ stack[t] # <<>> /\ runs = t /\ runs' = t
         /\ UNCHANGED <<saved, active, view, restart>> /\ a7' \in 0..MaxGuest
    BY <1>1, <1>2, <1>3, <1>7
  <1>12. Len(stack'[t]) >= Len(stack[t])
    BY <1>2, <1>6, <1>7
  <1> QED BY <1>8, <1>9, <1>10, <1>11, <1>12, TopKeeps

\* What a body returns with.
LEMMA Returned ==
  ASSUME NEW native \in C!Native, NEW stop \in Nat, NEW d \in Nat, NEW d2,
         native.base > stop, native.kind = "replacement" => native.owed,
         native.owed /\ native.entry = "jump" => native.base = stop + 1, ~native.exit,
         native.kind = "replacement" \/ native.moved \/ native.cont,
         d = IF ~native.moved \/ native.cont THEN native.base
             ELSE IF native.owed THEN native.base - 1 ELSE stop,
         d2 = IF C!Completes(native) THEN d - 1 ELSE d
  PROVE  /\ d2 \in Int /\ d2 >= stop /\ d2 <= d
         /\ ~native.cont => d2 = IF native.owed THEN native.base - 1 ELSE stop
  <1>1. native.base \in Nat
    BY Elements
  <1>2. CASE ~native.moved /\ ~native.cont
    <2>1. native.owed /\ C!Completes(native) /\ d = native.base /\ d2 = d - 1
      BY <1>2 DEF C!Completes
    <2> QED BY <1>1, <2>1
  <1>3. CASE native.cont
    <2>1. ~C!Completes(native) /\ d = native.base /\ d2 = d
      BY <1>3 DEF C!Completes
    <2> QED BY <1>1, <1>3, <2>1
  <1>4. CASE native.moved /\ ~native.cont
    <2>1. ~C!Completes(native) /\ d2 = d /\ d = IF native.owed THEN native.base - 1 ELSE stop
      BY <1>4 DEF C!Completes
    <2>2. CASE native.owed
      BY <1>1, <2>1, <2>2
    <2>3. CASE ~native.owed
      BY <1>1, <2>1, <2>3
    <2> QED BY <2>2, <2>3
  <1> QED BY <1>2, <1>3, <1>4

\* What Return does, in the terms of the stacks.
LEMMA Returning ==
  ASSUME CallsInv, NEW t \in C!Thread, C!Return(t)
  PROVE  LET s == stack[t]
             n == Len(s)
         IN /\ C!Inside(t) /\ a7' \in 0..MaxGuest /\ a7' \in Int
            /\ ~s[n].exit => /\ a7' >= s[n - 1].stop
                             /\ ~s[n].cont => a7' = IF s[n].owed THEN s[n].base - 1 ELSE s[n - 1].stop
  <1> DEFINE s == stack[t]
             n == Len(s)
  <1>1. C!Inside(t) /\ a7' = IF C!Completes(C!Top(t)) THEN a7 - 1 ELSE a7
    BY DEF C!Return
  <1>2. /\ C!Top(t) = s[n] /\ s[n] \in C!Native /\ n \in Nat /\ n % 2 = 0 /\ TopOK(s, "none", a7)
        /\ NativeOK(s, n) /\ s[n].base \in Nat /\ s[n - 1].stop \in Nat
    BY <1>1, InBody
  <1>3. a7 \in 0..MaxGuest /\ MaxGuest \in Nat
    BY <1>1, InBody, CallsBounded DEF C!BoundAssumption
  <1>4. CASE s[n].exit
    <2>1. ~C!Completes(C!Top(t))
      BY <1>2, <1>4 DEF C!Completes
    <2>2. a7' = a7
      BY <1>1, <2>1
    <2> QED BY <1>1, <1>3, <1>4, <2>2
  <1>5. CASE ~s[n].exit
    <2>1. a7 = IF ~s[n].moved \/ s[n].cont THEN s[n].base ELSE IF s[n].owed THEN s[n].base - 1 ELSE s[n - 1].stop
      BY <1>2, <1>5, BodyIs
    <2>2. /\ s[n].base > s[n - 1].stop /\ (s[n].kind = "replacement" => s[n].owed)
          /\ s[n].owed /\ s[n].entry = "jump" => s[n].base = s[n - 1].stop + 1
      BY <1>2 DEF NativeOK
    <2>3. s[n].kind = "replacement" \/ s[n].moved \/ s[n].cont
      BY <1>2, <1>5 DEF C!Return
    <2>4. a7' = IF C!Completes(s[n]) THEN a7 - 1 ELSE a7
      BY <1>1, <1>2
    <2>5. a7 \in Nat
      BY <1>3
    <2>6. /\ a7' \in Int /\ a7' >= s[n - 1].stop /\ a7' <= a7
          /\ ~s[n].cont => a7' = IF s[n].owed THEN s[n].base - 1 ELSE s[n - 1].stop
      <3> HIDE DEF s, n
      <3> QED BY <1>2, <1>5, <2>1, <2>2, <2>3, <2>4, <2>5, Returned
    <2>7. a7' \in 0..MaxGuest
      BY <1>2, <1>3, <2>6
    <2> QED BY <1>1, <2>6, <2>7
  <1> QED BY <1>4, <1>5

\* The wrapper pops a body that has returned, whatever it did to the guest's stack.
LEMMA ReturnKeeps ==
  ASSUME CallsInv, NEW t \in C!Thread, C!Return(t)
  PROVE  CallsInv' /\ Alone(t) /\ Len(stack'[t]) < Len(stack[t])
  <1> DEFINE s == stack[t]
             n == Len(s)
             u == C!Popped(s)
             o == IF s[n].exit THEN "handoff" ELSE C!Ended(a7', s[n - 1])
  <1>1. C!Inside(t) /\ stack' = [stack EXCEPT ![t] = C!Popped(@)] /\ frames' = [frames EXCEPT ![t] = C!Popped(@)]
        /\ out' = [out EXCEPT ![t] = IF C!Top(t).exit THEN "handoff" ELSE C!Ended(a7', C!Below(t))]
        /\ UNCHANGED <<saved, active, view, runs, restart>>
    BY DEF C!Return, C!Owner
  <1>2. /\ runs = t /\ s # <<>> /\ s[n].is = "native" /\ out[t] = "none" /\ StackOK(s, "none", a7)
        /\ stack \in [C!Thread -> Seq(Elem)] /\ s[n] \in C!Native /\ n \in Nat /\ n > 1 /\ n % 2 = 0
        /\ C!Top(t) = s[n] /\ C!Below(t) = s[n - 1]
    BY <1>1, InBody
  <1>3. /\ out \in [C!Thread -> {"none", "return", "handoff", "stale"}]
        /\ frames[t] = FramesOf(t, n) /\ frames \in [C!Thread -> Seq([on : C!Thread, at : 1..MaxStack])]
    BY <1>1, InBody
  <1>4. a7' \in 0..MaxGuest /\ a7' \in Int /\ (~s[n].exit => a7' >= s[n - 1].stop)
    BY Returning
  <1>5. /\ o = "handoff" \/ (a7' >= s[n - 1].stop /\ o = C!Ended(a7', s[n - 1]))
        /\ s[n].exit => o = "handoff"
        /\ o \in {"none", "return", "handoff"}
    BY <1>4 DEF C!Ended
  <1>6. stack'[t] = u /\ out'[t] = o /\ frames'[t] = C!Popped(FramesOf(t, n))
    BY <1>1, <1>2, <1>3
  <1> HIDE DEF o
  <1>7. StackOK(u, o, a7') /\ Len(u) = n - 1 /\ u # <<>> /\ u[1].stop = s[1].stop
        /\ \A m : OfImage(s, m) => OfImage(u, m)
    <2>1. /\ StackOK(s, "none", a7) /\ s # <<>> /\ s[Len(s)].is = "native" /\ a7' \in Int
          /\ o = "handoff" \/ (a7' >= s[Len(s) - 1].stop /\ o = C!Ended(a7', s[Len(s) - 1]))
      BY <1>2, <1>4, <1>5
    <2> HIDE DEF s
    <2> QED BY <2>1, BodyLeft
  <1>8. C!Popped(FramesOf(t, n)) = FramesOf(t, n - 1)
    BY <1>2, FramesPop
  <1> HIDE DEF u
  <1>9. ~s[n].exit => OfImage(u, active)
    <2> SUFFICES ASSUME ~s[n].exit PROVE OfImage(u, active)
      OBVIOUS
    <2>1. s[n].kind = "replacement" \/ s[n].moved \/ s[n].cont
      BY <1>2 DEF C!Return
    <2>2. ~Exits(s)
      BY <2>1 DEF Exits
    <2>3. OfImage(s, active)
      BY <1>1, <2>2, InBody
    <2> QED BY <1>7, <2>3
  <1>10. OfImage(stack'[t], active) \/ C!Leaving(t)'
    BY <1>5, <1>6, <1>9 DEF C!Leaving
  <1>11. stack' = [stack EXCEPT ![t] = stack'[t]] /\ out' = [out EXCEPT ![t] = out'[t]] /\ frames' = [frames EXCEPT ![t] = frames'[t]]
    BY <1>1, <1>2, <1>3, <1>6
  <1>12. /\ stack'[t] # <<>> /\ stack'[t][1].stop = stack[t][1].stop
         /\ StackOK(stack'[t], out'[t], a7') /\ frames'[t] = FramesOf(t, Len(stack'[t]))
    BY <1>6, <1>7, <1>8
  <1>13. out'[t] \in {"none", "return", "handoff"} /\ stack[t] # <<>> /\ runs = t /\ runs' = t
         /\ UNCHANGED <<saved, active, view, restart>> /\ a7' \in 0..MaxGuest
    BY <1>1, <1>2, <1>4, <1>5, <1>6
  <1>14. Len(stack'[t]) < Len(stack[t])
    BY <1>2, <1>6, <1>7
  <1> QED BY <1>10, <1>11, <1>12, <1>13, <1>14, TopKeeps

\* A nested run that has returned leaves the guest's stack as its caller's boundary has it.
LEMMA CameBack ==
  ASSUME NEW native \in C!Native, NEW stop \in Nat, NEW run \in C!Run,
         native.base > stop, ~native.owed => native.entry = "jump",
         native.owed /\ native.entry = "jump" => native.base = stop + 1,
         run.stop = IF ~run.self THEN native.base
                    ELSE IF native.entry = "jump" THEN stop ELSE native.base - 1
  PROVE  run.stop = IF ~run.self THEN native.base ELSE IF native.owed THEN native.base - 1 ELSE stop
  <1>1. native.base \in Nat /\ run.self \in BOOLEAN /\ native.owed \in BOOLEAN
    BY Elements
  <1>2. CASE ~run.self
    BY <1>2
  <1>3. CASE run.self /\ native.entry = "jump"
    BY <1>1, <1>3
  <1>4. CASE run.self /\ native.entry # "jump"
    BY <1>1, <1>4
  <1> QED BY <1>2, <1>3, <1>4

\* A nested run that has ended is popped, and its caller is where its boundary says.
LEMMA LeaveKeeps ==
  ASSUME CallsInv, NEW t \in C!Thread, C!Leave(t)
  PROVE  CallsInv' /\ Alone(t) /\ Len(stack'[t]) < Len(stack[t]) /\ (out[t] = "handoff" => C!Leaving(t)')
  <1> DEFINE s == stack[t]
             n == Len(s)
             w == C!Popped(s)
             m == n - 1
             e == IF out[t] = "handoff" THEN [w[m] EXCEPT !.exit = TRUE]
                  ELSE IF s[n].self THEN [w[m] EXCEPT !.moved = TRUE] ELSE w[m]
             u == [w EXCEPT ![m] = e]
  <1>1. /\ runs = t /\ n > 1 /\ out[t] \in {"return", "handoff"}
        /\ UNCHANGED <<frames, a7, saved, active, view, runs, restart>>
        /\ out' = [out EXCEPT ![t] = "none"]
    BY DEF C!Leave
  <1>2. /\ StackOK(s, out[t], a7) /\ stack \in [C!Thread -> Seq(Elem)]
        /\ out \in [C!Thread -> {"none", "return", "handoff", "stale"}] /\ a7 \in 0..MaxGuest
        /\ frames[t] = FramesOf(t, n) /\ frames \in [C!Thread -> Seq([on : C!Thread, at : 1..MaxStack])]
    BY <1>1, Acting
  <1>3. s # <<>>
    BY <1>1, <1>2, EmptySeq
  <1>4. /\ w \in Seq(Elem) /\ Len(w) = m /\ w # <<>> /\ w[1] = s[1]
        /\ n \in Nat /\ n % 2 = 1 /\ n > 2 /\ s[n].is = "run"
        /\ w[m] = s[m] /\ w[m] \in C!Native /\ ~Flagged(w[m])
        /\ s[n] \in C!Run /\ RunOK(s, n) /\ (out[t] = "return" => a7 = s[n].stop)
        /\ StackOK(w, "none", w[m].base)
        /\ \A i : OfImage(s, i) => OfImage(w, i)
    <2>1. StackOK(s, out[t], a7) /\ s # <<>> /\ Len(s) > 1 /\ out[t] \in {"return", "handoff"}
      BY <1>1, <1>2, <1>3
    <2> HIDE DEF s
    <2> QED BY <2>1, RunLeft
  <1>5. w[m].base > w[m - 1].stop /\ w[m - 1] \in C!Run /\ w[m - 1] = s[m - 1] /\ m \in Nat /\ m > 1 /\ m - 1 = n - 2
    <2>1. StackOK(w, "none", w[m].base) /\ w # <<>> /\ w[Len(w)].is = "native" /\ Len(w) = m
      BY <1>4, Elements
    <2>2. Len(w) > 1 /\ NativeOK(w, Len(w)) /\ w[Len(w) - 1] \in C!Run
      <3> HIDE DEF w
      <3> QED BY <2>1, TopIs
    <2>3. n - 1 - 1 = n - 2 /\ n - 1 \in Nat /\ n - 1 > 1
      BY <1>4
    <2>4. Same(s, w, n - 1)
      BY <1>2, <1>3, Pop
    <2>5. w[n - 2] = s[n - 2]
      <3>1. n - 2 \in 1..(n - 1)
        BY <1>4
      <3> QED BY <2>4, <3>1 DEF Same
    <2> QED BY <2>1, <2>2, <2>3, <2>5 DEF NativeOK
  <1>6. C!Innermost(t).on = t /\ C!Innermost(t).at = m
    BY <1>1, <1>2, <1>4, InnermostIs
  <1>7. /\ e \in C!Native /\ e.kind = w[m].kind /\ e.entry = w[m].entry /\ e.base = w[m].base
        /\ e.owed = w[m].owed /\ e.image = w[m].image /\ e.is = "native"
        /\ out[t] = "handoff" => e.exit
        /\ out[t] = "return" => ~e.exit /\ ~e.cont /\ e.moved = s[n].self
    <2>1. w[m] \in C!Native /\ ~w[m].moved /\ ~w[m].cont /\ ~w[m].exit /\ s[n].self \in BOOLEAN /\ w[m].is = "native"
      BY <1>4, Elements DEF Flagged
    <2> HIDE DEF w, m, n, s
    <2>2. CASE out[t] = "handoff"
      BY <2>1, <2>2 DEF C!Native
    <2>3. CASE out[t] # "handoff" /\ s[n].self
      BY <2>1, <2>3 DEF C!Native
    <2>4. CASE out[t] # "handoff" /\ ~s[n].self
      BY <2>1, <2>4 DEF C!Native
    <2> QED BY <2>2, <2>3, <2>4
  <1>8. stack' = [stack EXCEPT ![t] = u]
    <2> DEFINE rest == [stack EXCEPT ![t] = C!Popped(@)]
    <2>1. stack' = IF out[t] = "handoff" THEN C!ExitFlagged(rest, t)
                   ELSE IF C!Top(t).self THEN [rest EXCEPT ![t][Len(rest[t])].moved = TRUE] ELSE rest
      BY DEF C!Leave
    <2>2. rest = [stack EXCEPT ![t] = w] /\ rest[t] = w /\ Len(rest[t]) = m /\ C!Top(t) = s[n] /\ rest \in [C!Thread -> Seq(Elem)]
      BY <1>2, <1>4 DEF C!Top
    <2>3. C!ExitFlagged(rest, t) = [rest EXCEPT ![t][m].exit = TRUE]
      BY <1>6 DEF C!ExitFlagged
    <2>4. m \in DOMAIN w
      <3>1. DOMAIN w = 1..Len(w)
        BY <1>4, LenProperties
      <3> QED BY <1>4, <1>5, <3>1
    <2> HIDE DEF w, m, n, s, rest
    <2>5. CASE out[t] = "handoff"
      <3>1. [rest EXCEPT ![t][m].exit = TRUE] = [stack EXCEPT ![t] = [w EXCEPT ![m] = [w[m] EXCEPT !.exit = TRUE]]]
        BY <1>2, <2>2, <2>4
      <3> QED BY <2>1, <2>3, <2>5, <3>1
    <2>6. CASE out[t] # "handoff" /\ s[n].self
      <3>1. [rest EXCEPT ![t][m].moved = TRUE] = [stack EXCEPT ![t] = [w EXCEPT ![m] = [w[m] EXCEPT !.moved = TRUE]]]
        BY <1>2, <2>2, <2>4
      <3> QED BY <2>1, <2>2, <2>6, <3>1
    <2>7. CASE out[t] # "handoff" /\ ~s[n].self
      <3>1. [w EXCEPT ![m] = w[m]] = w
        BY <1>4, <2>4
      <3> QED BY <2>1, <2>2, <2>7, <3>1
    <2> QED BY <2>5, <2>6, <2>7
  <1>9. out[t] = "return" => a7 = IF ~s[n].self THEN e.base ELSE IF e.owed THEN e.base - 1 ELSE w[m - 1].stop
    <2> SUFFICES ASSUME out[t] = "return"
                 PROVE  a7 = IF ~s[n].self THEN e.base ELSE IF e.owed THEN e.base - 1 ELSE w[m - 1].stop
      OBVIOUS
    <2>1. a7 = s[n].stop /\ s[n] \in C!Run /\ w[m] \in C!Native /\ e.base = w[m].base /\ e.owed = w[m].owed
      BY <1>4, <1>7
    <2>2. s[n].stop = IF ~s[n].self THEN w[m].base ELSE IF w[m].entry = "jump" THEN w[m - 1].stop ELSE w[m].base - 1
      BY <1>4, <1>5 DEF RunOK
    <2>3. w[m - 1].stop \in Nat /\ w[m].base > w[m - 1].stop
      BY <1>5, Elements
    <2>4. NativeOK(w, m)
      <3>1. StackOK(w, "none", w[m].base) /\ w # <<>> /\ w[Len(w)].is = "native" /\ Len(w) = m
        BY <1>4, Elements
      <3> HIDE DEF w, m
      <3> QED BY <3>1, TopIs
    <2>5. /\ ~w[m].owed => w[m].entry = "jump"
          /\ w[m].owed /\ w[m].entry = "jump" => w[m].base = w[m - 1].stop + 1
      BY <2>4 DEF NativeOK
    <2> HIDE DEF e, w, m, n, s
    <2> QED BY <2>1, <2>2, <2>3, <2>5, CameBack
  <1>10. ~e.exit => a7 = IF ~e.moved \/ e.cont THEN e.base ELSE IF e.owed THEN e.base - 1 ELSE w[m - 1].stop
    <2>1. out[t] = "handoff" => e.exit
      BY <1>7
    <2>2. out[t] = "return" => ~e.cont /\ e.moved = s[n].self
      BY <1>7
    <2>3. s[n].self \in BOOLEAN /\ out[t] \in {"return", "handoff"}
      BY <1>1, <1>4, Elements
    <2> HIDE DEF e, w, m, n, s
    <2> QED BY <1>9, <2>1, <2>2, <2>3
  <1>11. StackOK(u, "none", a7) /\ Len(u) = m /\ u # <<>> /\ u[1].stop = w[1].stop /\ u[m] = e
         /\ \A i : OfImage(w, i) /\ e.image = i => OfImage(u, i)
    <2>1. StackOK(w, "none", w[m].base) /\ w # <<>> /\ w[Len(w)].is = "native" /\ Len(w) = m
      BY <1>4, Elements
    <2>2. /\ e \in C!Native /\ e.kind = w[Len(w)].kind /\ e.entry = w[Len(w)].entry /\ e.base = w[Len(w)].base
          /\ e.owed = w[Len(w)].owed
          /\ ~e.exit => a7 = IF ~e.moved \/ e.cont THEN e.base ELSE IF e.owed THEN e.base - 1 ELSE w[Len(w) - 1].stop
      BY <1>7, <1>10, <2>1
    <2> HIDE DEF e, w, m
    <2>3. LET x == [w EXCEPT ![Len(w)] = e]
          IN /\ StackOK(x, "none", a7) /\ Len(x) = Len(w) /\ x # <<>> /\ x[1].stop = w[1].stop /\ x[Len(w)] = e
             /\ \A i : OfImage(w, i) /\ e.image = i => OfImage(x, i)
      BY <2>1, <2>2, BodyFlagged
    <2> QED BY <2>1, <2>3
  <1> HIDE DEF u, e
  <1>12. FramesOf(t, m) = FramesOf(t, n)
    <2>1. n \in Nat /\ n % 2 = 1 /\ n > 2
      BY <1>4
    <2> HIDE DEF n
    <2>2. n > 0
      BY <2>1
    <2> QED BY <2>1, <2>2, FramesStay
  <1>13. stack'[t] = u /\ out'[t] = "none" /\ frames'[t] = FramesOf(t, Len(u)) /\ frames' = frames
    BY <1>1, <1>2, <1>8, <1>11, <1>12
  <1>14. (OfImage(stack'[t], active) \/ C!Leaving(t)') /\ (out[t] = "handoff" => C!Leaving(t)')
    <2>1. CASE out[t] = "handoff"
      <3>1. m \in 1..Len(stack'[t]) /\ stack'[t][m].is = "native" /\ stack'[t][m].exit
        BY <1>5, <1>7, <1>11, <1>13, <2>1
      <3> QED BY <3>1 DEF C!Leaving
    <2>2. CASE out[t] = "return"
      <3>1. OfImage(s, active)
        <4>1. C!Top(t).is = "run" /\ out[t] # "handoff" /\ ~Exits(s)
          BY <1>4, <2>2 DEF C!Top, Exits
        <4> QED BY <1>1, <1>3, <4>1, OfItsImage
      <3>2. OfImage(w, active)
        BY <1>4, <3>1
      <3>3. e.image = active
        <4>1. m \in 1..Len(w) /\ w[m].is = "native"
          BY <1>4, <1>5, Elements
        <4> QED BY <1>7, <3>2, <4>1 DEF OfImage
      <3> QED BY <1>11, <1>13, <2>2, <3>2, <3>3
    <2> QED BY <1>1, <2>1, <2>2
  <1>15. stack' = [stack EXCEPT ![t] = stack'[t]] /\ out' = [out EXCEPT ![t] = out'[t]] /\ frames' = [frames EXCEPT ![t] = frames'[t]]
    BY <1>1, <1>2, <1>8, <1>13
  <1>16. /\ stack'[t] # <<>> /\ stack'[t][1].stop = stack[t][1].stop
         /\ StackOK(stack'[t], out'[t], a7') /\ frames'[t] = FramesOf(t, Len(stack'[t]))
    BY <1>1, <1>4, <1>11, <1>13
  <1>17. out'[t] \in {"none", "return", "handoff"} /\ stack[t] # <<>> /\ runs = t /\ runs' = t
         /\ UNCHANGED <<saved, active, view, restart>> /\ a7' \in 0..MaxGuest
    BY <1>1, <1>2, <1>3, <1>13
  <1>18. Len(stack'[t]) < Len(stack[t])
    BY <1>4, <1>11, <1>13
  <1> QED BY <1>14, <1>15, <1>16, <1>17, <1>18, TopKeeps

\* An outermost run that has ended gives the thread back to the host.
LEMMA LeaveOutermostKeeps ==
  ASSUME CallsInv, NEW t \in C!Thread, C!LeaveOutermost(t)
  PROVE  CallsInv'
  <1>1. /\ runs = t /\ Len(stack[t]) = 1 /\ stack' = [stack EXCEPT ![t] = <<>>] /\ out' = [out EXCEPT ![t] = "none"]
        /\ a7' = (IF t = "host" THEN saved ELSE a7) /\ runs' = "host"
        /\ UNCHANGED <<frames, saved, active, view, restart>>
    BY DEF C!LeaveOutermost
  <1>2. /\ stack \in [C!Thread -> Seq(Elem)] /\ out \in [C!Thread -> {"none", "return", "handoff", "stale"}]
        /\ frames \in [C!Thread -> Seq([on : C!Thread, at : 1..MaxStack])] /\ frames[t] = FramesOf(t, 1)
        /\ stack[t] # <<>>
    <2>1. stack[t] # <<>>
      BY <1>1, EmptySeq
    <2>2. frames[t] = FramesOf(t, Len(stack[t]))
      BY <1>1, Acting
    <2>3. /\ stack \in [C!Thread -> Seq(Elem)] /\ out \in [C!Thread -> {"none", "return", "handoff", "stale"}]
          /\ frames \in [C!Thread -> Seq([on : C!Thread, at : 1..MaxStack])]
      BY <1>1, Acting
    <2> QED BY <1>1, <2>1, <2>2, <2>3
  <1>3. stack'[t] = <<>> /\ out'[t] = "none" /\ frames' = frames
    BY <1>1, <1>2
  <1>4. \A p \in C!Thread \ {t} : stack'[p] = stack[p] /\ out'[p] = out[p] /\ frames'[p] = frames[p]
    BY <1>1, <1>2
  <1>5. frames'[t] = FramesOf(t, Len(stack'[t]))
    <2>1. FramesOf(t, 0) = FramesOf(t, 1)
      BY FramesStay
    <2> QED BY <1>2, <1>3, <2>1, EmptySeq
  <1>6. ~C!Leaving(t)'
    BY <1>3, EmptySeq DEF C!Leaving
  <1>7. StackOK(stack'[t], out'[t], a7')
    BY <1>3, EmptyIsOK
  <1>8. StacksOK' /\ FramesOK' /\ CallTurns'
    BY <1>1, <1>2, <1>3, <1>4, <1>5, <1>6, <1>7, Settles
  <1>9. OfImage(stack'[t], active)
    BY <1>3, EmptySeq DEF OfImage
  <1>10. BodiesCurrent'
    BY <1>1, <1>4, <1>9, StaysCurrent
  <1>11. CallsTyped'
    <2>1. <<>> \in Seq(Elem)
      BY EmptySeq
    <2> QED BY <1>1, <1>2, <2>1 DEF CallsTyped, CallsInv, Elem, C!Thread
  <1> QED BY <1>8, <1>10, <1>11 DEF CallsInv

\* A loader brings in the next image: what stands on the stacks of the last one runs no more.
LEMMA LoadKeeps ==
  ASSUME CallsInv, NEW t \in C!Thread, C!Undecided(t), ~C!Top(t).loaded, C!Top(t).kind = "loader",
         NEW e \in C!Native, e.kind = C!Top(t).kind, e.entry = C!Top(t).entry, e.base = C!Top(t).base,
         e.owed = C!Top(t).owed, e.loaded, ~e.moved, ~e.cont, ~e.exit,
         stack' = [stack EXCEPT ![t] = [stack[t] EXCEPT ![Len(stack[t])] = e]],
         active' \in 1..MaxImage, restart' \in BOOLEAN,
         restart' \/ (t = "game" /\ Len(stack[t]) = 2 /\ e.image = active'),
         UNCHANGED <<frames, out, a7, saved, view, runs>>
  PROVE  CallsInv' /\ Alone(t) /\ Len(stack'[t]) >= Len(stack[t])
  <1> DEFINE s == stack[t]
             n == Len(s)
             u == [s EXCEPT ![n] = e]
  <1>1. ~(restart /\ Exits(s))
    BY DEF Exits, C!Top
  <1>2. /\ runs = t /\ s # <<>> /\ s[n].is = "native" /\ out[t] = "none" /\ StackOK(s, "none", a7)
        /\ stack \in [C!Thread -> Seq(Elem)] /\ C!Top(t) = s[n] /\ n \in Nat /\ n > 1 /\ a7 = s[n].base
        /\ s[n] \in C!Native /\ s[n - 1] \in C!Run
    BY <1>1, MayCall
  <1>3. /\ out \in [C!Thread -> {"none", "return", "handoff", "stale"}]
        /\ frames[t] = FramesOf(t, n) /\ frames \in [C!Thread -> Seq([on : C!Thread, at : 1..MaxStack])]
        /\ a7 \in 0..MaxGuest
    BY <1>1, MayCall
  <1>4. /\ StackOK(u, "none", a7) /\ Len(u) = n /\ u # <<>> /\ u[1].stop = s[1].stop /\ u[n] = e
    <2>1. /\ StackOK(s, "none", a7) /\ s # <<>> /\ s[Len(s)].is = "native"
          /\ e.kind = s[Len(s)].kind /\ e.entry = s[Len(s)].entry /\ e.base = s[Len(s)].base
          /\ e.owed = s[Len(s)].owed
          /\ ~e.exit => a7 = IF ~e.moved \/ e.cont THEN e.base ELSE IF e.owed THEN e.base - 1 ELSE s[Len(s) - 1].stop
      BY <1>2
    <2> HIDE DEF s
    <2> QED BY <2>1, BodyFlagged
  <1>5. u[1] = s[1] \/ n = 1
    <2>1. e \in Elem /\ s \in Seq(Elem)
      BY <1>2 DEF Elem
    <2>2. Same(s, u, n - 1)
      <3> HIDE DEF s
      <3> QED BY <1>2, <2>1, ChangeTop
    <2> QED BY <1>2, <2>2 DEF Same
  <1> HIDE DEF u
  <1>6. stack' = [stack EXCEPT ![t] = u]
    BY DEF u
  <1>7. stack'[t] = u /\ out' = out /\ frames' = frames
    BY <1>2, <1>6
  <1>8. \A p \in C!Thread \ {t} : stack'[p] = stack[p] /\ out'[p] = out[p] /\ frames'[p] = frames[p]
    BY <1>2, <1>6, <1>7
  <1>9. StackOK(stack'[t], out'[t], a7') /\ frames'[t] = FramesOf(t, Len(stack'[t])) /\ stack'[t] # <<>>
        /\ stack'[t][1].stop = stack[t][1].stop
    <2>1. out'[t] = "none" /\ a7' = a7 /\ frames'[t] = FramesOf(t, Len(u))
      BY <1>2, <1>3, <1>4, <1>7
    <2> QED BY <1>4, <1>7, <2>1
  <1>10. StacksOK' /\ FramesOK' /\ CallTurns'
    <2>1. stack[t] # <<>> /\ runs = t /\ runs' = t /\ saved' = saved
      BY <1>2
    <2> QED BY <1>8, <1>9, <2>1, Settles
  <1>11. BodiesCurrent'
    <2> SUFFICES ASSUME NEW p \in C!Thread
                 PROVE  \/ OfImage(stack'[p], active')
                        \/ restart' /\ Exits(stack'[p])
                        \/ restart' /\ p = "game" /\ runs' = "host"
      BY DEF BodiesCurrent
    <2>1. CASE p # t
      <3>1. CASE t = "game"
        <4>1. stack'[p] = <<>>
          BY <1>2, <1>8, <2>1, <3>1 DEF CallsInv, CallTurns, C!Thread
        <4> QED BY <4>1, EmptySeq DEF OfImage
      <3>2. CASE t = "host"
        <4>1. p = "game" /\ runs' = "host"
          BY <1>2, <2>1, <3>2 DEF C!Thread
        <4> QED BY <3>2, <4>1
      <3> QED BY <3>1, <3>2 DEF C!Thread
    <2>2. CASE p = t /\ restart'
      <3>1. Exits(stack'[t])
        BY <1>2, <1>4, <1>7, Elements DEF Exits
      <3> QED BY <2>2, <3>1
    <2>3. CASE p = t /\ ~restart'
      <3>1. n = 2 /\ e.image = active'
        BY <2>3
      <3>2. Len(u) = 2 /\ u[1] \in C!Run /\ u[2] = e
        BY <1>2, <1>4, <1>5, <3>1
      <3>3. OfImage(u, active')
        <4>1. \A i \in 1..2 : i = 1 \/ i = 2
          OBVIOUS
        <4> QED BY <3>1, <3>2, <4>1, Elements DEF OfImage
      <3> QED BY <1>7, <2>3, <3>3
    <2> QED BY <2>1, <2>2, <2>3
  <1>12. CallsTyped'
    <2>1. u \in Seq(Elem)
      BY <1>4 DEF StackOK, Elem
    <2> QED BY <1>2, <1>3, <1>6, <2>1 DEF CallsTyped, CallsInv, Elem
  <1>13. Alone(t) /\ Len(stack'[t]) >= Len(stack[t])
    <2>1. runs' = t /\ stack'[t] # <<>> /\ frames' = frames
      BY <1>2, <1>7, <1>9
    <2>2. stack' = [stack EXCEPT ![t] = stack'[t]] /\ frames' = [frames EXCEPT ![t] = frames'[t]]
      BY <1>2, <1>3, <1>6, <1>7
    <2>3. Len(stack'[t]) >= Len(stack[t])
      BY <1>2, <1>4, <1>7
    <2> QED BY <2>1, <2>2, <2>3 DEF Alone
  <1> QED BY <1>10, <1>11, <1>12, <1>13 DEF CallsInv

\* The title's loader, on the flow's thread or from a vector.
LEMMA LoadTitleKeeps ==
  ASSUME CallsInv, NEW t \in C!Thread, C!LoadTitle(t)
  PROVE  CallsInv' /\ Alone(t) /\ Len(stack'[t]) >= Len(stack[t])
  <1> DEFINE s == stack[t]
             n == Len(s)
             e == [s[n] EXCEPT !.loaded = TRUE, !.image = active + 1]
  <1>1. /\ C!Undecided(t) /\ C!Top(t).kind = "loader" /\ ~C!Top(t).loaded /\ (t = "game" => n = 2)
        /\ active < MaxImage /\ active' = active + 1 /\ restart' = (restart \/ t = "host")
        /\ UNCHANGED <<frames, out, a7, saved, view, runs>>
    BY DEF C!LoadTitle
  <1>2. ~(restart /\ Exits(s))
    BY <1>1 DEF Exits, C!Top
  <1>3. /\ stack \in [C!Thread -> Seq(Elem)] /\ C!Top(t) = s[n] /\ n \in Nat /\ n > 1 /\ s[n] \in C!Native
        /\ ~s[n].moved /\ ~s[n].cont /\ ~s[n].exit
    BY <1>1, <1>2, MayCall
  <1>4. active' \in 1..MaxImage /\ restart' \in BOOLEAN
    BY <1>1, CallsBounded DEF CallsInv, CallsTyped, C!BoundAssumption
  <1>5. /\ e \in C!Native /\ e.kind = s[n].kind /\ e.entry = s[n].entry /\ e.base = s[n].base
        /\ e.owed = s[n].owed /\ e.loaded /\ ~e.moved /\ ~e.cont /\ ~e.exit /\ e.image = active'
    <2> HIDE DEF s, n
    <2> QED BY <1>1, <1>3, <1>4 DEF C!Native
  <1>6. stack' = [stack EXCEPT ![t] = [stack[t] EXCEPT ![Len(stack[t])] = e]]
    <2>1. n \in DOMAIN s
      <3>1. s \in Seq(Elem)
        BY <1>3
      <3>2. DOMAIN s = 1..n
        BY <3>1, LenProperties
      <3> QED BY <1>3, <3>2
    <2>2. stack' = [stack EXCEPT ![t][n].loaded = TRUE, ![t][n].image = active + 1]
      BY DEF C!LoadTitle
    <2>3. [stack EXCEPT ![t][n].loaded = TRUE, ![t][n].image = active + 1]
          = [stack EXCEPT ![t] = [s EXCEPT ![n] = [s[n] EXCEPT !.loaded = TRUE, !.image = active + 1]]]
      BY <1>3, <2>1
    <2> QED BY <2>2, <2>3
  <1>7. restart' \/ (t = "game" /\ Len(stack[t]) = 2 /\ e.image = active')
    BY <1>1, <1>5 DEF C!Thread
  <1> HIDE DEF e
  <1>8. /\ e.kind = C!Top(t).kind /\ e.entry = C!Top(t).entry /\ e.base = C!Top(t).base /\ e.owed = C!Top(t).owed
    BY <1>3, <1>5
  <1> QED BY <1>1, <1>4, <1>5, <1>6, <1>7, <1>8, LoadKeeps

\* The gameplay's loader: it always asks for a new flow.
LEMMA LoadGameplayKeeps ==
  ASSUME CallsInv, NEW t \in C!Thread, C!LoadGameplay(t)
  PROVE  CallsInv' /\ Alone(t) /\ Len(stack'[t]) >= Len(stack[t])
  <1> DEFINE s == stack[t]
             n == Len(s)
             e == [s[n] EXCEPT !.loaded = TRUE]
  <1>1. /\ C!Undecided(t) /\ C!Top(t).kind = "loader" /\ ~C!Top(t).loaded
        /\ active < MaxImage /\ active' = active + 1 /\ restart'
        /\ restart' \in BOOLEAN /\ UNCHANGED <<frames, out, a7, saved, view, runs>>
    BY DEF C!LoadGameplay
  <1>2. ~(restart /\ Exits(s))
    BY <1>1 DEF Exits, C!Top
  <1>3. /\ stack \in [C!Thread -> Seq(Elem)] /\ C!Top(t) = s[n] /\ n \in Nat /\ n > 1 /\ s[n] \in C!Native
        /\ ~s[n].moved /\ ~s[n].cont /\ ~s[n].exit
    BY <1>1, <1>2, MayCall
  <1>4. active' \in 1..MaxImage
    BY <1>1, CallsBounded DEF CallsInv, CallsTyped, C!BoundAssumption
  <1>5. /\ e \in C!Native /\ e.kind = s[n].kind /\ e.entry = s[n].entry /\ e.base = s[n].base
        /\ e.owed = s[n].owed /\ e.loaded /\ ~e.moved /\ ~e.cont /\ ~e.exit
    <2> HIDE DEF s, n
    <2> QED BY <1>3 DEF C!Native
  <1>6. stack' = [stack EXCEPT ![t] = [stack[t] EXCEPT ![Len(stack[t])] = e]]
    BY <1>3 DEF C!LoadGameplay
  <1> HIDE DEF e
  <1>8. /\ e.kind = C!Top(t).kind /\ e.entry = C!Top(t).entry /\ e.base = C!Top(t).base /\ e.owed = C!Top(t).owed
    BY <1>3, <1>5
  <1> QED BY <1>1, <1>4, <1>5, <1>6, <1>8, LoadKeeps

\* The flow parks: the host's turn.
LEMMA ParkKeeps ==
  ASSUME CallsInv, C!Park
  PROVE  CallsInv'
  <1>1. /\ C!Undecided("game") /\ C!Inside("game") /\ runs = "game" /\ runs' = "host"
        /\ stack' = stack /\ frames' = frames /\ out' = out /\ a7' = a7 /\ saved' = saved
        /\ active' = active /\ view' = view /\ restart' = restart
    BY DEF C!Park, C!Undecided, C!Inside
  <1>2. "game" \in C!Thread /\ "host" \in C!Thread
    BY DEF C!Thread
  <1>3. ~C!Leaving("game")
    <2>1. StackOK(stack["game"], out["game"], a7)
      BY <1>1, <1>2, Acting
    <2>2. out["game"] = "none" /\ ~C!Top("game").exit
      BY <1>1 DEF C!Undecided, C!Inside
    <2> QED BY <1>2, <2>1, <2>2, LeavingIs
  <1>4. CallsTyped'
    BY <1>1, <1>2 DEF CallsInv, CallsTyped
  <1>5. StacksOK' /\ FramesOK'
    BY <1>1 DEF CallsInv, StacksOK, FramesOK, Depth
  <1>6. CallTurns'
    <2>1. ~C!Leaving("game")'
      BY <1>1, <1>3 DEF C!Leaving
    <2> QED BY <1>1, <2>1 DEF CallsInv, CallTurns
  <1>7. BodiesCurrent'
    <2> SUFFICES ASSUME NEW t \in C!Thread
                 PROVE  \/ OfImage(stack[t], active)
                        \/ C!Leaving(t)'
                        \/ restart /\ Exits(stack[t])
      BY <1>1 DEF BodiesCurrent
    <2>1. C!Leaving(t) => C!Leaving(t)'
      BY <1>1 DEF C!Leaving
    <2> QED BY <1>1, <2>1 DEF CallsInv, BodiesCurrent
  <1> QED BY <1>4, <1>5, <1>6, <1>7 DEF CallsInv

\* A stack of one run that has executed nothing.
LEMMA OneRun ==
  ASSUME NEW stop \in 0..MaxGuest, NEW d \in Nat, d > stop
  PROVE  LET s == <<C!NewRun(stop, FALSE)>>
         IN /\ StackOK(s, "none", d) /\ s \in Seq(Elem) /\ s # <<>> /\ Len(s) = 1 /\ s[1].stop = stop
            /\ s[1].is = "run" /\ \A m : OfImage(s, m)
  <1> DEFINE r == C!NewRun(stop, FALSE)
             s == <<r>>
  <1>1. r \in C!Run /\ r.stop = stop /\ r.is = "run"
    BY DEF C!Run, C!NewRun
  <1> HIDE DEF r
  <1>2. r \in Elem
    BY <1>1 DEF Elem
  <1>3. s \in Seq(Elem) /\ Len(s) = 1 /\ s[1] = r /\ s # <<>>
    BY <1>2
  <1> HIDE DEF s
  <1>4. Alternates(s)
    <2>1. \A i \in 1..1 : i = 1
      OBVIOUS
    <2>2. RunOK(s, 1)
      BY <1>1, <1>3 DEF RunOK
    <2>3. 1 % 2 = 1
      OBVIOUS
    <2> QED BY <1>3, <2>1, <2>2, <2>3 DEF Alternates
  <1>5. TopOK(s, "none", d)
    <2>1. stop \in Nat /\ 1 % 2 = 1
      OBVIOUS
    <2> QED BY <1>1, <1>3, <2>1 DEF TopOK
  <1>6. \A m : OfImage(s, m)
    <2>1. \A i \in 1..1 : i = 1
      OBVIOUS
    <2> QED BY <1>1, <1>3, <2>1 DEF OfImage
  <1>7. Len(s) <= MaxStack
    BY <1>3, CallsBounded DEF C!BoundAssumption
  <1> QED BY <1>1, <1>3, <1>4, <1>5, <1>6, <1>7 DEF StackOK, Elem, s, r

\* A vector starts a run on the host's thread, over the flow's stack.
LEMMA VectorKeeps ==
  ASSUME CallsInv, C!Vector
  PROVE  CallsInv'
  <1> DEFINE s == <<C!NewRun(a7, FALSE)>>
  <1>1. "game" \in C!Thread /\ "host" \in C!Thread
    BY DEF C!Thread
  <1>2. /\ runs = "host" /\ stack["host"] = <<>> /\ a7 < MaxGuest /\ view' = active /\ saved' = a7
        /\ stack' = [stack EXCEPT !["host"] = s] /\ a7' = a7 + 1 /\ out' = out
        /\ frames' = frames /\ active' = active /\ runs' = runs /\ restart' = restart
    BY DEF C!Vector, C!Idle, C!Rebound
  <1>3. /\ stack \in [C!Thread -> Seq(Elem)] /\ a7 \in 0..MaxGuest /\ out \in [C!Thread -> {"none", "return", "handoff", "stale"}]
        /\ frames \in [C!Thread -> Seq([on : C!Thread, at : 1..MaxStack])] /\ active \in 1..MaxImage
        /\ restart \in BOOLEAN
    BY DEF CallsInv, CallsTyped, Elem
  <1>4. StackOK(s, "none", a7 + 1) /\ s \in Seq(Elem) /\ s # <<>> /\ Len(s) = 1 /\ s[1].stop = a7 /\ \A m : OfImage(s, m)
    <2>1. a7 + 1 \in Nat /\ a7 + 1 > a7
      BY <1>3
    <2> QED BY <1>3, <2>1, OneRun
  <1>5. a7 + 1 \in 0..MaxGuest
    BY <1>2, <1>3, CallsBounded DEF C!BoundAssumption
  <1> HIDE DEF s
  <1>6. stack'["host"] = s /\ stack'["game"] = stack["game"]
    BY <1>1, <1>2, <1>3
  <1>7. /\ StackOK(stack["game"], out["game"], Depth("game")) /\ StackOK(stack["host"], out["host"], Depth("host"))
        /\ frames["game"] = FramesOf("game", Len(stack["game"])) /\ frames["host"] = FramesOf("host", Len(stack["host"]))
    BY <1>1 DEF CallsInv, StacksOK, FramesOK
  <1>8. StacksOK'
    <2>1. out["host"] = "none"
      BY <1>2, <1>7 DEF StackOK
    <2>2. Depth("game") = a7 /\ Depth("game")' = a7 /\ Depth("host")' = a7 + 1
      BY <1>2, <1>4, <1>6 DEF Depth
    <2> QED BY <1>2, <1>4, <1>6, <1>7, <2>1, <2>2 DEF StacksOK, C!Thread
  <1>9. FramesOK'
    <2>1. FramesOf("host", 1) = FramesOf("host", 0)
      BY <1>1, FramesStay
    <2>2. frames'["host"] = FramesOf("host", 1)
      BY <1>2, <1>7, <2>1, EmptySeq
    <2> QED BY <1>2, <1>4, <1>6, <1>7, <2>2 DEF FramesOK, C!Thread
  <1>10. C!Leaving("game")' <=> C!Leaving("game")
    BY <1>2, <1>6 DEF C!Leaving
  <1>11. CallTurns'
    BY <1>2, <1>4, <1>6, <1>10 DEF CallsInv, CallTurns
  <1>12. BodiesCurrent'
    <2>1. OfImage(stack'["host"], active')
      BY <1>4, <1>6
    <2>2. \/ OfImage(stack'["game"], active') \/ C!Leaving("game")'
          \/ restart' /\ Exits(stack'["game"])
          \/ restart' /\ runs' = "host"
      BY <1>1, <1>2, <1>6, <1>10 DEF CallsInv, BodiesCurrent
    <2> QED BY <2>1, <2>2 DEF BodiesCurrent, C!Thread
  <1>13. CallsTyped'
    BY <1>1, <1>2, <1>3, <1>4, <1>5 DEF CallsTyped, Elem
  <1> QED BY <1>8, <1>9, <1>11, <1>12, <1>13 DEF CallsInv

\* The flow is released again.
LEMMA ResumeKeeps ==
  ASSUME CallsInv, C!Resume
  PROVE  CallsInv'
  <1>1. /\ runs = "host" /\ stack["host"] = <<>> /\ stack["game"] # <<>> /\ ~restart /\ runs' = "game"
        /\ stack' = stack /\ frames' = frames /\ out' = out /\ a7' = a7 /\ saved' = saved
        /\ active' = active /\ view' = view /\ restart' = restart
    BY DEF C!Resume, C!Idle
  <1>2. CallsTyped'
    BY <1>1 DEF CallsInv, CallsTyped, C!Thread
  <1>3. StacksOK' /\ FramesOK'
    BY <1>1 DEF CallsInv, StacksOK, FramesOK, Depth
  <1>4. CallTurns'
    BY <1>1 DEF CallTurns
  <1>5. BodiesCurrent'
    <2>1. OfImage(stack["host"], active)
      BY <1>1, EmptySeq DEF OfImage
    <2>2. OfImage(stack["game"], active)
      BY <1>1 DEF CallsInv, BodiesCurrent, CallTurns, C!Thread
    <2> QED BY <1>1, <2>1, <2>2 DEF BodiesCurrent, C!Thread
  <1> QED BY <1>2, <1>3, <1>4, <1>5 DEF CallsInv

\* A flow, or the process, begins: one run and no bodies.
LEMMA NoFramesYet == ASSUME NEW t \in C!Thread PROVE <<>> = FramesOf(t, 1) /\ <<>> = FramesOf(t, 0)
  <1>1. FramesOf(t, 0) = [i \in 1..0 |-> [on |-> t, at |-> 2 * i]]
    BY DEF FramesOf
  <1>2. FramesOf(t, 0) \in Seq(Nat) /\ Len(FramesOf(t, 0)) = 0
    <2> DEFINE f == [i \in 1..0 |-> [on |-> t, at |-> 2 * i]]
    <2>1. \A i \in 1..0 : [on |-> t, at |-> 2 * i] \in Nat
      OBVIOUS
    <2>2. f \in Seq(Nat) /\ Len(f) = 0
      <3>1. 0 \in Nat
        OBVIOUS
      <3> QED BY <2>1, <3>1, IsASeq
    <2> QED BY <1>1, <2>2
  <1>3. FramesOf(t, 0) = <<>>
    BY <1>2, EmptySeq
  <1> QED BY <1>3, FramesStay

\* The flow is stopped where it stands and another started.
LEMMA RestartKeeps ==
  ASSUME CallsInv, C!Restart
  PROVE  CallsInv'
  <1> DEFINE s == <<C!NewRun(0, FALSE)>>
  <1>1. "game" \in C!Thread /\ "host" \in C!Thread
    BY DEF C!Thread
  <1>2. /\ runs = "host" /\ stack["host"] = <<>> /\ active < MaxImage /\ active' = active + 1 /\ view' = active + 1
        /\ stack' = [stack EXCEPT !["game"] = s] /\ frames' = [frames EXCEPT !["game"] = <<>>]
        /\ out' = [out EXCEPT !["game"] = "none"] /\ a7' = 1 /\ restart' = FALSE /\ saved' = saved /\ runs' = runs
    BY DEF C!Restart, C!Idle, C!NoFrames
  <1>3. /\ stack \in [C!Thread -> Seq(Elem)] /\ out \in [C!Thread -> {"none", "return", "handoff", "stale"}]
        /\ frames \in [C!Thread -> Seq([on : C!Thread, at : 1..MaxStack])]
    BY DEF CallsInv, CallsTyped, Elem
  <1>4. StackOK(s, "none", 1) /\ s \in Seq(Elem) /\ s # <<>> /\ Len(s) = 1 /\ s[1].is = "run" /\ \A m : OfImage(s, m)
    <2>1. 0 \in 0..MaxGuest /\ 1 > 0
      BY CallsBounded DEF C!BoundAssumption
    <2> QED BY <2>1, OneRun
  <1> HIDE DEF s
  <1>5. /\ stack'["game"] = s /\ stack'["host"] = <<>> /\ out'["game"] = "none" /\ out'["host"] = out["host"]
        /\ frames'["game"] = <<>> /\ frames'["host"] = frames["host"]
    BY <1>1, <1>2, <1>3
  <1>6. StackOK(stack["host"], out["host"], Depth("host")) /\ frames["host"] = FramesOf("host", Len(stack["host"]))
    BY <1>1 DEF CallsInv, StacksOK, FramesOK
  <1>7. StacksOK'
    <2>1. Depth("game")' = 1
      BY <1>2, <1>5 DEF Depth
    <2>2. StackOK(<<>>, out'["host"], Depth("host")')
      BY <1>2, <1>5, <1>6 DEF StackOK
    <2> QED BY <1>4, <1>5, <2>1, <2>2 DEF StacksOK, C!Thread
  <1>8. FramesOK'
    BY <1>1, <1>2, <1>4, <1>5, <1>6, NoFramesYet DEF FramesOK, C!Thread
  <1>9. ~C!Leaving("game")'
    <2>1. \A i \in 1..1 : i = 1
      OBVIOUS
    <2> QED BY <1>4, <1>5, <2>1 DEF C!Leaving
  <1>10. CallTurns'
    BY <1>2, <1>5, <1>9 DEF CallTurns
  <1>11. BodiesCurrent'
    <2>1. OfImage(stack'["host"], active')
      BY <1>5, EmptySeq DEF OfImage
    <2>2. OfImage(stack'["game"], active')
      BY <1>4, <1>5
    <2> QED BY <2>1, <2>2 DEF BodiesCurrent, C!Thread
  <1>12. CallsTyped'
    <2>1. 1 \in 0..MaxGuest /\ active + 1 \in 1..MaxImage
      BY <1>2, CallsBounded DEF CallsInv, CallsTyped, C!BoundAssumption
    <2>2. <<>> \in Seq([on : C!Thread, at : 1..MaxStack])
      BY EmptySeq
    <2> QED BY <1>1, <1>2, <1>3, <1>4, <2>1, <2>2 DEF CallsTyped, CallsInv, Elem
  <1> QED BY <1>7, <1>8, <1>10, <1>11, <1>12 DEF CallsInv

\* The first state satisfies the invariant ...
LEMMA CallsBegin == C!Init => CallsInv
  <1> SUFFICES ASSUME C!Init PROVE CallsInv
    OBVIOUS
  <1> DEFINE s == <<C!NewRun(0, FALSE)>>
  <1>1. "game" \in C!Thread /\ "host" \in C!Thread
    BY DEF C!Thread
  <1>2. /\ stack = [t \in C!Thread |-> IF t = "game" THEN s ELSE <<>>] /\ frames = [t \in C!Thread |-> <<>>]
        /\ out = [t \in C!Thread |-> "none"] /\ a7 = 1 /\ saved = 0 /\ active = 1 /\ view = 1
        /\ runs = "host" /\ restart = FALSE
    BY DEF C!Init
  <1>3. StackOK(s, "none", 1) /\ s \in Seq(Elem) /\ s # <<>> /\ Len(s) = 1 /\ s[1].is = "run" /\ \A m : OfImage(s, m)
    <2>1. 0 \in 0..MaxGuest /\ 1 > 0
      BY CallsBounded DEF C!BoundAssumption
    <2> QED BY <2>1, OneRun
  <1> HIDE DEF s
  <1>4. /\ stack["game"] = s /\ stack["host"] = <<>> /\ out["game"] = "none" /\ out["host"] = "none"
        /\ frames["game"] = <<>> /\ frames["host"] = <<>>
    BY <1>1, <1>2
  <1>5. StacksOK
    <2>1. Depth("game") = 1
      BY <1>2, <1>4 DEF Depth
    <2>2. StackOK(<<>>, out["host"], Depth("host"))
      BY <1>4, EmptyIsOK
    <2> QED BY <1>3, <1>4, <2>1, <2>2 DEF StacksOK, C!Thread
  <1>6. FramesOK
    <2>1. Len(stack["host"]) = 0
      BY <1>4, EmptySeq
    <2> QED BY <1>1, <1>3, <1>4, <2>1, NoFramesYet DEF FramesOK, C!Thread
  <1>7. ~C!Leaving("game")
    <2>1. \A i \in 1..1 : i = 1
      OBVIOUS
    <2> QED BY <1>3, <1>4, <2>1 DEF C!Leaving
  <1>8. CallTurns
    BY <1>2, <1>4, <1>7 DEF CallTurns
  <1>9. BodiesCurrent
    <2>1. OfImage(stack["host"], active)
      BY <1>4, EmptySeq DEF OfImage
    <2> QED BY <1>3, <1>4, <2>1 DEF BodiesCurrent, C!Thread
  <1>10. CallsTyped
    <2>1. 1 \in 0..MaxGuest /\ 0 \in 0..MaxGuest /\ 1 \in 1..MaxImage
      BY CallsBounded DEF C!BoundAssumption
    <2>2. <<>> \in Seq([on : C!Thread, at : 1..MaxStack]) /\ <<>> \in Seq(Elem)
      BY EmptySeq
    <2> QED BY <1>1, <1>2, <1>3, <2>1, <2>2 DEF CallsTyped, Elem
  <1> QED BY <1>5, <1>6, <1>8, <1>9, <1>10 DEF CallsInv

\* ... and every step keeps it.
LEMMA CallsStep == CallsInv /\ [C!Next]_calls => CallsInv'
  <1> SUFFICES ASSUME CallsInv, [C!Next]_calls PROVE CallsInv'
    OBVIOUS
  <1>1. ASSUME NEW t \in C!Thread, C!GuestStep(t) PROVE CallsInv'
    BY <1>1, GuestCallKeeps, GuestReturnKeeps, EnterKeeps DEF C!GuestStep
  <1>2. ASSUME NEW t \in C!Thread, C!BodyStep(t) PROVE CallsInv'
    BY <1>2, CallKeeps, JumpKeeps, ContinueKeeps, ReturnItselfKeeps, LoadTitleKeeps, LoadGameplayKeeps,
       ExitKeeps, ReturnKeeps DEF C!BodyStep
  <1>3. ASSUME NEW t \in C!Thread, C!Leave(t) PROVE CallsInv'
    BY <1>3, LeaveKeeps
  <1>4. ASSUME NEW t \in C!Thread, C!LeaveOutermost(t) PROVE CallsInv'
    BY <1>4, LeaveOutermostKeeps
  <1>5. CASE UNCHANGED calls
    BY <1>5 DEF CallsInv, calls, CallsTyped, StacksOK, FramesOK, CallTurns, BodiesCurrent, Depth, C!Leaving
  <1> QED BY <1>1, <1>2, <1>3, <1>4, <1>5, ParkKeeps, VectorKeeps, ResumeKeeps, RestartKeeps DEF C!Next

\* What the run checks follows from it.
LEMMA CallsImplied == CallsInv => C!Inv /\ C!NoStaleCall
  <1> SUFFICES ASSUME CallsInv PROVE C!Inv /\ C!NoStaleCall
    OBVIOUS
  <1>1. ASSUME NEW t \in C!Thread
        PROVE  /\ Len(stack[t]) <= MaxStack /\ out[t] # "stale"
               /\ \A i \in 1..Len(stack[t]) : stack[t][i].is = IF i % 2 = 1 THEN "run" ELSE "native"
               /\ frames[t] = [i \in 1..(Len(stack[t]) \div 2) |-> [on |-> t, at |-> 2 * i]]
    <2>1. StackOK(stack[t], out[t], Depth(t)) /\ frames[t] = FramesOf(t, Len(stack[t]))
      BY DEF CallsInv, StacksOK, FramesOK
    <2>2. \A i \in 1..Len(stack[t]) : stack[t][i].is = IF i % 2 = 1 THEN "run" ELSE "native"
      <3>1. \A i \in 1..Len(stack[t]) : IF i % 2 = 1 THEN RunOK(stack[t], i) ELSE NativeOK(stack[t], i)
        BY <2>1 DEF StackOK, Alternates
      <3> QED BY <3>1, Elements DEF RunOK, NativeOK
    <2>3. out[t] # "stale"
      <3>1. CASE stack[t] = <<>>
        BY <2>1, <3>1 DEF StackOK
      <3>2. CASE stack[t] # <<>>
        BY <2>1, <3>2 DEF StackOK, TopOK
      <3> QED BY <3>1, <3>2
    <2> QED BY <2>1, <2>2, <2>3 DEF StackOK, FramesOf
  <1>2. C!TypeOK
    BY <1>1 DEF CallsInv, CallsTyped, C!TypeOK
  <1> QED BY <1>1, <1>2 DEF C!Inv, C!NoStaleCall

\* Which thread acts, and by what.
LEMMA Acts ==
  ASSUME CallsInv, C!Next, NEW t \in C!Thread, stack[t] # <<>>, runs = t
  PROVE  \/ C!GuestStep(t) \/ C!BodyStep(t) \/ C!Leave(t) \/ C!LeaveOutermost(t)
         \/ t = "game" /\ C!Park
  <1>1. \A o \in C!Thread : C!GuestStep(o) \/ C!BodyStep(o) \/ C!Leave(o) \/ C!LeaveOutermost(o) => o = t
    <2> SUFFICES ASSUME NEW o \in C!Thread PROVE C!GuestStep(o) \/ C!BodyStep(o) \/ C!Leave(o) \/ C!LeaveOutermost(o) => o = runs
      OBVIOUS
    <2>1. C!Interprets(o) \/ C!Inside(o) \/ C!Undecided(o) => o = runs
      BY DEF C!Interprets, C!Undecided, C!Inside
    <2>2. C!GuestStep(o) => C!Interprets(o)
      BY DEF C!GuestStep, C!GuestCall, C!GuestReturn, C!Enter
    <2>3. C!BodyStep(o) => C!Inside(o) \/ C!Undecided(o)
      BY DEF C!BodyStep, C!Call, C!Jump, C!Continue, C!ReturnItself, C!LoadTitle, C!LoadGameplay, C!Exit,
         C!Return
    <2> QED BY <2>1, <2>2, <2>3 DEF C!Leave, C!LeaveOutermost
  <1>2. C!Park => t = "game"
    BY DEF C!Park, C!Undecided, C!Inside
  <1>3. ~C!Vector /\ ~C!Resume /\ ~C!Restart
    BY DEF C!Vector, C!Resume, C!Restart, C!Idle
  <1> QED BY <1>1, <1>2, <1>3 DEF C!Next

\* A body that returned took exactly its own return address off the guest's stack.
LEMMA ReturnsOwedStep ==
  ASSUME CallsInv, C!Next, NEW t \in C!Thread, C!Inside(t), Len(stack'[t]) < Len(stack[t]), ~C!Top(t).exit, ~C!Top(t).cont
  PROVE  a7' = IF C!Top(t).owed THEN C!Top(t).base - 1 ELSE C!Below(t).stop
  <1>1. runs = t /\ stack[t] # <<>> /\ C!Top(t).is = "native" /\ out[t] = "none"
    BY DEF C!Inside
  <1>2. Len(stack[t]) \in Nat /\ C!Top(t) = stack[t][Len(stack[t])] /\ C!Below(t) = stack[t][Len(stack[t]) - 1]
    BY InBody
  <1>3. ~C!GuestStep(t) /\ ~C!Leave(t) /\ ~C!LeaveOutermost(t)
    BY <1>1 DEF C!GuestStep, C!GuestCall, C!GuestReturn, C!Enter, C!Interprets, C!Leave, C!LeaveOutermost
  <1>4. ~C!Park
    BY <1>2 DEF C!Park
  <1>5. C!BodyStep(t)
    BY <1>1, <1>3, <1>4, Acts
  <1>6. ASSUME ~C!Return(t) PROVE Len(stack'[t]) >= Len(stack[t])
    BY <1>5, <1>6, CallKeeps, JumpKeeps, ContinueKeeps, ReturnItselfKeeps, LoadTitleKeeps, LoadGameplayKeeps,
       ExitKeeps DEF C!BodyStep
  <1>7. C!Return(t)
    <2>1. Len(stack'[t]) \in Nat
      BY <1>5, <1>2, CallKeeps, CallsStep, LenProperties DEF CallsInv, CallsTyped
    <2> QED BY <1>2, <1>6, <2>1
  <1> QED BY <1>2, <1>7, Returning

\* A thread that gives a run back executes nothing more.
LEMMA HostExitStep ==
  ASSUME CallsInv, C!Next, NEW t \in C!Thread, C!Leaving(t)
  PROVE  /\ Len(stack'[t]) <= Len(stack[t]) /\ runs' \in {t, "host"}
         /\ stack'[t] = <<>> \/ C!Leaving(t)'
  <1>1. StackOK(stack[t], out[t], Depth(t))
    BY DEF CallsInv, StacksOK
  <1>2. out[t] = "handoff" \/ (stack[t] # <<>> /\ C!Top(t).is = "native" /\ C!Top(t).exit)
    BY <1>1, LeavingIs
  <1>3. stack[t] # <<>> /\ Len(stack[t]) \in Nat /\ Len(stack[t]) > 0
    <2>1. stack[t] # <<>>
      BY <1>1, <1>2 DEF StackOK
    <2> QED BY <1>1, <2>1, TopIs
  <1>4. runs = t
    <2>1. t = "host" => runs # "game"
      BY <1>3 DEF CallsInv, CallTurns
    <2>2. t = "game" => runs # "host"
      BY DEF CallsInv, CallTurns
    <2>3. runs \in C!Thread
      BY DEF CallsInv, CallsTyped
    <2> QED BY <2>1, <2>2, <2>3 DEF C!Thread
  <1>5. CASE out[t] = "handoff"
    <2>1. ~C!GuestStep(t) /\ ~C!BodyStep(t)
      BY <1>5 DEF C!GuestStep, C!GuestCall, C!GuestReturn, C!Enter, C!Interprets, C!BodyStep, C!Call, C!Jump,
         C!Continue, C!ReturnItself,
           C!LoadTitle, C!LoadGameplay, C!Exit, C!Return, C!Undecided, C!Inside
    <2>2. ~(t = "game" /\ C!Park)
      BY <1>5 DEF C!Park, C!Undecided, C!Inside
    <2>3. CASE C!Leave(t)
      <3>1. CallsInv' /\ Alone(t) /\ Len(stack'[t]) < Len(stack[t]) /\ C!Leaving(t)'
        BY <1>5, <2>3, LeaveKeeps
      <3>2. Len(stack'[t]) \in Nat
        BY <3>1, LenProperties DEF CallsInv, CallsTyped
      <3> QED BY <1>3, <3>1, <3>2 DEF Alone
    <2>4. CASE C!LeaveOutermost(t)
      <3>1. stack'[t] = <<>> /\ runs' = "host"
        BY <2>4 DEF C!LeaveOutermost, CallsInv, CallsTyped
      <3> QED BY <1>3, <3>1, EmptySeq
    <2> QED BY <1>3, <1>4, <2>1, <2>2, <2>3, <2>4, Acts
  <1>6. CASE out[t] # "handoff"
    <2>1. stack[t] # <<>> /\ C!Top(t).is = "native" /\ C!Top(t).exit
      BY <1>2, <1>6
    <2>2. out[t] = "none"
      BY <1>1, <2>1, TopIs DEF C!Top
    <2>3. ~C!Undecided(t) /\ ~C!Interprets(t)
      BY <2>1 DEF C!Undecided, C!Interprets
    <2>4. ~C!GuestStep(t) /\ ~C!Leave(t) /\ ~C!LeaveOutermost(t) /\ ~(t = "game" /\ C!Park)
      BY <2>2, <2>3 DEF C!GuestStep, C!GuestCall, C!GuestReturn, C!Enter, C!Leave, C!LeaveOutermost, C!Park
    <2>5. C!Return(t)
      BY <1>3, <1>4, <2>3, <2>4, Acts
         DEF C!BodyStep, C!Call, C!Jump, C!Continue, C!ReturnItself, C!LoadTitle, C!LoadGameplay, C!Exit
    <2>6. Alone(t) /\ Len(stack'[t]) < Len(stack[t]) /\ CallsInv'
      BY <2>5, ReturnKeeps
    <2>7. out'[t] = "handoff"
      BY <2>1, <2>5 DEF C!Return, CallsInv, CallsTyped
    <2>8. Len(stack'[t]) \in Nat
      BY <2>6, LenProperties DEF CallsInv, CallsTyped
    <2> QED BY <1>3, <2>6, <2>7, <2>8 DEF Alone, C!Leaving
  <1> QED BY <1>5, <1>6

\* What a vector does leaves the flow's stack and frames alone and puts the depth back.
LEMMA VectorsStep ==
  ASSUME CallsInv, C!Next, stack["host"] # <<>>
  PROVE  /\ stack'["game"] = stack["game"] /\ frames'["game"] = frames["game"]
         /\ stack'["host"] = <<>> => a7' = stack["host"][1].stop
  <1>1. runs = "host" /\ "host" \in C!Thread /\ "game" \in C!Thread
    BY DEF CallsInv, CallTurns, CallsTyped, C!Thread
  <1>2. \/ C!GuestStep("host") \/ C!BodyStep("host") \/ C!Leave("host") \/ C!LeaveOutermost("host")
    BY <1>1, Acts
  <1>3. C!LeaveOutermost("host") \/ Alone("host")
    <2>1. C!GuestStep("host") => Alone("host")
      BY <1>1, GuestCallKeeps, GuestReturnKeeps, EnterKeeps DEF C!GuestStep
    <2>2. C!BodyStep("host") => Alone("host")
      BY <1>1, CallKeeps, JumpKeeps, ContinueKeeps, ReturnItselfKeeps, LoadTitleKeeps, LoadGameplayKeeps,
         ExitKeeps, ReturnKeeps DEF C!BodyStep
    <2>3. C!Leave("host") => Alone("host")
      BY <1>1, LeaveKeeps
    <2> QED BY <1>2, <2>1, <2>2, <2>3
  <1>4. CASE Alone("host")
    BY <1>1, <1>4 DEF Alone, CallsInv, CallsTyped
  <1>5. CASE C!LeaveOutermost("host")
    <2>1. stack["host"][1].stop = saved
      BY DEF CallsInv, CallTurns
    <2> QED BY <1>1, <1>5, <2>1 DEF C!LeaveOutermost, CallsInv, CallsTyped
  <1> QED BY <1>3, <1>4, <1>5

-----------------------------------------------------------------------------
(* The frame loop. *)

\* The frame loop with its programs and files.  `ret' (the program is to end) is only set
\* between a step's decision and its last save.
Deciding == at \notin {"save", "audio", "quit"} => ~ret

\* The frame loop's flag and the flow's own phase say the same of its end.
Endings == /\ over <=> flow.phase = "over"
           /\ at \in {"tick", "load", "choose", "frozen", "flow"} => ~over
           /\ at \in {"save", "audio"} /\ ~ret => ~over

\* A title restart is only pending between the decision and the hand-off.
TitlePending == req.title => at = "hand" /\ bytes = "title" /\ ~req.gameplay

\* A game start that is no restart of a level comes from a loader, which replaced the image.
GamePending == req.gameplay /\ ~req.reinit => ~flow.fresh /\ bytes \in {"gameplay", "torn", "credits"}

\* A save file is only begun at a resume point of gameplay.
SavesOK == /\ ~file.title
           /\ file.kind # "none" => /\ file.screen = "gameplay" /\ file.steady
                                    /\ file.bytes \in {"gameplay", "torn", "credits"}
                                    /\ file.gameplay => ret

\* A gameplay step that saves has no game start pending.
Saving == at = "save" /\ ~ret /\ screen = "gameplay" => ~req.gameplay

\* A flow at a resume point runs gameplay; a fresh one runs its image's bytes.
BankRuns == /\ flow.steady => flow.bank = "gameplay"
            /\ flow.fresh /\ bytes \notin {"torn", "credits"} => flow.bank = image /\ flow.bank = bytes

\* How the loop's control, requests and files go together.
LoopControl == /\ L!StaleFlowIsReplaced /\ Deciding /\ Endings /\ TitlePending /\ GamePending /\ SavesOK
               /\ Saving /\ BankRuns

\* The inductive invariant of the frame loop.
LoopInv == L!TypeOK /\ LoopControl

\* The records of the loop's state stay records of their kinds.
LEMMA Flows ==
  /\ \A b \in L!Bank : L!Parked(b) \in L!Flow
  /\ [phase |-> "parked", bank |-> "gameplay", fresh |-> TRUE, steady |-> TRUE] \in L!Flow
  /\ \A f \in L!Flow : /\ \A x \in BOOLEAN : [f EXCEPT !.steady = x] \in L!Flow
                       /\ [f EXCEPT !.fresh = FALSE] \in L!Flow
                       /\ [f EXCEPT !.phase = "over", !.steady = FALSE] \in L!Flow
                       /\ [f EXCEPT !.phase = "over", !.fresh = FALSE] \in L!Flow
  BY DEF L!Parked, L!Flow, L!Bank

\* And the requests.
LEMMA Requests ==
  /\ L!NoRequest \in L!Request
  /\ \A r \in L!Request : /\ L!RestartRequested(r) \in L!Request /\ L!ResetRequests(r) \in L!Request
                          /\ \A x, y \in BOOLEAN : [r EXCEPT !.gameplay = x, !.title = y] \in L!Request
                          /\ [r EXCEPT !.gameplay = TRUE] \in L!Request
                          /\ [r EXCEPT !.title = TRUE] \in L!Request /\ [r EXCEPT !.title = FALSE] \in L!Request
                          /\ [r EXCEPT !.gameplay = FALSE, !.reinit = FALSE] \in L!Request
  BY DEF L!NoRequest, L!RestartRequested, L!ResetRequests, L!Request

\* The programs and screens, spelled out.
LEMMA Banks == {"main", "title", "gameplay", "credits"} = L!Bank /\ L!Screen = {"intro", "overlay", "gameplay", "credits"}
  BY DEF L!Bank, L!Screen

\* What is in a file is of its kind.
LEMMA Files == \A f \in L!File : f.screen \in L!Screen /\ f.bytes \in L!Bank \cup {"torn"} /\ f.gameplay \in BOOLEAN /\ f.title \in BOOLEAN
  BY DEF L!File

\* The first states satisfy the invariant.
LEMMA LoopBegins == L!Init => LoopInv
  <1> SUFFICES ASSUME L!Init PROVE LoopInv
    OBVIOUS
  <1>1. L!TypeOK
    BY Flows, Requests, Banks DEF L!Init, L!TypeOK, L!Phases, L!MenuAction, L!File
  <1>2. LoopControl
    BY DEF L!Init, LoopControl, L!StaleFlowIsReplaced, Deciding, Endings, TitlePending, GamePending, SavesOK,
       Saving,
         BankRuns, L!Parked, L!NoRequest
  <1> QED BY <1>1, <1>2 DEF LoopInv

(* One lemma per phase of the step: its records stay of their kinds, then each part of LoopControl. *)

\* What the player asks for between two phases keeps it.
LEMMA PlayerKeeps ==
  ASSUME LoopInv, L!Player
  PROVE  LoopInv'
  <1> DEFINE Typed == /\ menu' \in [open : BOOLEAN, act : L!MenuAction] /\ (menu'.act # "none" => menu'.open)
                      /\ freecam' \in BOOLEAN /\ pend' \in [save : BOOLEAN, load : BOOLEAN]
                      /\ UNCHANGED <<at, ret, L!game, file>>
  <1>1. Typed
    <2> USE DEF LoopInv, L!TypeOK, L!MenuAction
    <2>1. CASE L!OpenMenu
      BY <2>1 DEF L!OpenMenu
    <2>2. ASSUME NEW act \in L!MenuAction \ {"none"}, L!ChooseMenu(act) PROVE Typed
      BY <2>2 DEF L!ChooseMenu
    <2>3. CASE L!ToggleFreecam
      BY <2>3 DEF L!ToggleFreecam
    <2>4. CASE L!AskSave
      BY <2>4 DEF L!AskSave
    <2>5. CASE L!AskLoad
      BY <2>5 DEF L!AskLoad
    <2> HIDE DEF Typed
    <2> QED BY <2>1, <2>2, <2>3, <2>4, <2>5 DEF L!Player
  <1>2. L!TypeOK'
    BY <1>1 DEF LoopInv, L!TypeOK, L!game
  <1>3. LoopControl'
    BY <1>1 DEF LoopInv, LoopControl, L!StaleFlowIsReplaced, Deciding, Endings, TitlePending, GamePending,
       SavesOK, Saving, BankRuns, L!game
  <1> QED BY <1>2, <1>3 DEF LoopInv

\* The fields of a flow and of the requests.
LEMMA Elems == /\ \A f \in L!Flow : f.phase \in {"parked", "over"} /\ f.bank \in L!Bank /\ f.fresh \in BOOLEAN /\ f.steady \in BOOLEAN
                     /\ f = [phase |-> f.phase, bank |-> f.bank, fresh |-> f.fresh, steady |-> f.steady]
                /\ \A r \in L!Request : r.gameplay \in BOOLEAN /\ r.title \in BOOLEAN /\ r.reinit \in BOOLEAN
                     /\ r = [gameplay |-> r.gameplay, title |-> r.title, reinit |-> r.reinit]
  BY DEF L!Flow, L!Request

LEMMA ChooseLoopKeeps ==
  ASSUME LoopInv, L!Choose
  PROVE  LoopInv'
  <1>1. L!TypeOK'
    BY Flows, Requests, Banks, Files DEF LoopInv, L!TypeOK, L!Phases, L!MenuAction, L!game, L!user, L!Choose
  <1>2. LoopControl'
    BY Elems DEF LoopInv, L!TypeOK, L!game, L!user, L!Parked, L!RestartRequested, L!ResetRequests, L!Choose,
       LoopControl, L!StaleFlowIsReplaced, Deciding, Endings, TitlePending, GamePending, SavesOK, Saving,
        BankRuns
  <1> QED BY <1>1, <1>2 DEF LoopInv

LEMMA FlowParksLoopKeeps ==
  ASSUME LoopInv, L!FlowParks
  PROVE  LoopInv'
  <1>1. PICK steady \in BOOLEAN : (steady => flow.bank = "gameplay") /\ flow' = [flow EXCEPT !.steady = steady]
    BY DEF L!FlowParks
  <1>2. flow \in L!Flow /\ flow' \in L!Flow
    BY <1>1, Flows DEF LoopInv, L!TypeOK
  <1>3. /\ at = "flow" /\ flow.phase = "parked" /\ flow.fresh /\ at' = "present"
        /\ UNCHANGED <<ret, screen, image, bytes, req, over, L!user, file>>
    BY DEF L!FlowParks
  <1>4. L!TypeOK'
    BY <1>2, <1>3 DEF LoopInv, L!TypeOK, L!Phases, L!user
  <1>5. LoopControl'
    BY <1>1, <1>2, <1>3, Elems DEF LoopInv, L!TypeOK, L!user, LoopControl, L!StaleFlowIsReplaced, Deciding,
       Endings, TitlePending, GamePending, SavesOK, Saving, BankRuns
  <1> QED BY <1>4, <1>5 DEF LoopInv

LEMMA FlowEndsLoopKeeps ==
  ASSUME LoopInv, L!FlowEnds
  PROVE  LoopInv'
  <1>1. L!TypeOK'
    BY Flows, Requests, Banks, Files DEF LoopInv, L!TypeOK, L!Phases, L!MenuAction, L!game, L!user, L!FlowEnds
  <1>2. LoopControl'
    BY Elems DEF LoopInv, L!TypeOK, L!game, L!user, L!Parked, L!RestartRequested, L!ResetRequests, L!FlowEnds,
       LoopControl, L!StaleFlowIsReplaced, Deciding, Endings, TitlePending, GamePending, SavesOK, Saving,
        BankRuns
  <1> QED BY <1>1, <1>2 DEF LoopInv

LEMMA FlowLoadsTitleLoopKeeps ==
  ASSUME LoopInv, L!FlowLoadsTitle
  PROVE  LoopInv'
  <1>1. L!TypeOK'
    BY Flows, Requests, Banks, Files DEF LoopInv, L!TypeOK, L!Phases, L!MenuAction, L!game, L!user,
       L!FlowLoadsTitle, L!LoaderImages
  <1>2. LoopControl'
    BY Elems DEF LoopInv, L!TypeOK, L!game, L!user, L!Parked, L!RestartRequested, L!ResetRequests,
       L!FlowLoadsTitle, L!LoaderImages, LoopControl, L!StaleFlowIsReplaced, Deciding, Endings, TitlePending,
        GamePending, SavesOK, Saving, BankRuns
  <1> QED BY <1>1, <1>2 DEF LoopInv

LEMMA FlowStartsGameLoopKeeps ==
  ASSUME LoopInv, L!FlowStartsGame
  PROVE  LoopInv'
  <1>1. L!TypeOK'
    BY Flows, Requests, Banks, Files DEF LoopInv, L!TypeOK, L!Phases, L!MenuAction, L!game, L!user,
       L!FlowStartsGame, L!LoaderImages, L!LoadGameplay
  <1>2. LoopControl'
    BY Elems DEF LoopInv, L!TypeOK, L!game, L!user, L!Parked, L!RestartRequested, L!ResetRequests,
       L!FlowStartsGame, L!LoaderImages, L!LoadGameplay, LoopControl, L!StaleFlowIsReplaced, Deciding,
        Endings, TitlePending, GamePending, SavesOK, Saving, BankRuns
  <1> QED BY <1>1, <1>2 DEF LoopInv

LEMMA FlowWinsLoopKeeps ==
  ASSUME LoopInv, L!FlowWins
  PROVE  LoopInv'
  <1>1. L!TypeOK'
    BY Flows, Requests, Banks, Files DEF LoopInv, L!TypeOK, L!Phases, L!MenuAction, L!game, L!user,
       L!FlowWins, L!LoaderImages
  <1>2. LoopControl'
    BY Elems DEF LoopInv, L!TypeOK, L!game, L!user, L!Parked, L!RestartRequested, L!ResetRequests, L!FlowWins,
       L!LoaderImages, LoopControl, L!StaleFlowIsReplaced, Deciding, Endings, TitlePending, GamePending,
        SavesOK, Saving, BankRuns
  <1> QED BY <1>1, <1>2 DEF LoopInv

LEMMA FlowGameOverLoopKeeps ==
  ASSUME LoopInv, L!FlowGameOver
  PROVE  LoopInv'
  <1>1. L!TypeOK'
    BY Flows, Requests, Banks, Files DEF LoopInv, L!TypeOK, L!Phases, L!MenuAction, L!game, L!user,
       L!FlowGameOver
  <1>2. LoopControl'
    BY Elems DEF LoopInv, L!TypeOK, L!game, L!user, L!Parked, L!RestartRequested, L!ResetRequests,
       L!FlowGameOver, LoopControl, L!StaleFlowIsReplaced, Deciding, Endings, TitlePending, GamePending,
        SavesOK, Saving, BankRuns
  <1> QED BY <1>1, <1>2 DEF LoopInv

LEMMA PresentLoopKeeps ==
  ASSUME LoopInv, L!Present
  PROVE  LoopInv'
  <1>1. L!TypeOK'
    BY Flows, Requests, Banks, Files DEF LoopInv, L!TypeOK, L!Phases, L!MenuAction, L!game, L!user, L!Present
  <1>2. LoopControl'
    BY Elems DEF LoopInv, L!TypeOK, L!game, L!user, L!Parked, L!RestartRequested, L!ResetRequests, L!Present,
       LoopControl, L!StaleFlowIsReplaced, Deciding, Endings, TitlePending, GamePending, SavesOK, Saving,
        BankRuns
  <1> QED BY <1>1, <1>2 DEF LoopInv

LEMMA HandTitleLoopKeeps ==
  ASSUME LoopInv, L!HandTitle
  PROVE  LoopInv'
  <1>1. L!TypeOK'
    BY Flows, Requests, Banks, Files DEF LoopInv, L!TypeOK, L!Phases, L!MenuAction, L!game, L!user,
       L!HandTitle, L!PosterFlow
  <1>2. LoopControl'
    BY Elems DEF LoopInv, L!TypeOK, L!game, L!user, L!Parked, L!RestartRequested, L!ResetRequests,
       L!HandTitle, L!PosterFlow, LoopControl, L!StaleFlowIsReplaced, Deciding, Endings, TitlePending,
        GamePending, SavesOK, Saving, BankRuns
  <1> QED BY <1>1, <1>2 DEF LoopInv

LEMMA HandGameplayLoopKeeps ==
  ASSUME LoopInv, L!HandGameplay
  PROVE  LoopInv'
  <1>1. L!TypeOK'
    BY Flows, Requests, Banks, Files DEF LoopInv, L!TypeOK, L!Phases, L!MenuAction, L!game, L!user,
       L!HandGameplay, L!GameplayFlow
  <1>2. LoopControl'
    BY Elems DEF LoopInv, L!TypeOK, L!game, L!user, L!Parked, L!RestartRequested, L!ResetRequests,
       L!HandGameplay, L!GameplayFlow, LoopControl, L!StaleFlowIsReplaced, Deciding, Endings, TitlePending,
        GamePending, SavesOK, Saving, BankRuns
  <1> QED BY <1>1, <1>2 DEF LoopInv

LEMMA HandNothingLoopKeeps ==
  ASSUME LoopInv, L!HandNothing
  PROVE  LoopInv'
  <1>1. L!TypeOK'
    BY Flows, Requests, Banks, Files DEF LoopInv, L!TypeOK, L!Phases, L!MenuAction, L!game, L!user,
       L!HandNothing
  <1>2. LoopControl'
    BY Elems DEF LoopInv, L!TypeOK, L!game, L!user, L!Parked, L!RestartRequested, L!ResetRequests,
       L!HandNothing, LoopControl, L!StaleFlowIsReplaced, Deciding, Endings, TitlePending, GamePending,
        SavesOK, Saving, BankRuns
  <1> QED BY <1>1, <1>2 DEF LoopInv

\* A level-6 vector, on a step that ends.
LEMMA MusicKeeps ==
  ASSUME LoopInv, L!MusicTick, at \in {"frozen", "audio"}, at' \in {"tick", "quit"}, ret => at' = "quit",
         UNCHANGED <<ret, L!user, file>>
  PROVE  LoopInv'
  <1>1. CASE L!VectorQuiet
    <2>1. L!TypeOK'
      BY <1>1 DEF LoopInv, L!TypeOK, L!VectorQuiet, L!game, L!user, L!Phases
    <2>2. LoopControl'
      BY <1>1 DEF LoopInv, L!VectorQuiet, L!game, L!user, LoopControl, L!StaleFlowIsReplaced, Deciding,
         Endings, TitlePending, GamePending, SavesOK, Saving, BankRuns
    <2> QED BY <2>1, <2>2 DEF LoopInv
  <1>2. CASE L!VectorStartsGame
    <2>1. L!TypeOK'
      BY <1>2, Flows, Requests, Banks DEF LoopInv, L!TypeOK, L!VectorStartsGame, L!LoadGameplay, L!user,
         L!Phases
    <2>2. LoopControl'
      BY <1>2, Elems DEF LoopInv, L!TypeOK, L!VectorStartsGame, L!LoadGameplay, L!user, LoopControl,
         L!StaleFlowIsReplaced, Deciding, Endings, TitlePending, GamePending, SavesOK, Saving, BankRuns
    <2> QED BY <2>1, <2>2 DEF LoopInv
  <1>3. CASE /\ image = "gameplay" /\ flow.bank = "gameplay" /\ flow.fresh
             /\ req' = L!RestartRequested(req) /\ screen' = "gameplay"
             /\ UNCHANGED <<image, bytes, flow, over>>
    <2>1. L!TypeOK'
      BY <1>3, Requests, Banks DEF LoopInv, L!TypeOK, L!user, L!Phases
    <2>2. req'.gameplay /\ req'.reinit /\ req'.title = req.title
      BY <1>3, Elems DEF LoopInv, L!TypeOK, L!RestartRequested
    <2>3. LoopControl'
      BY <1>3, <2>2 DEF LoopInv, L!user, LoopControl, L!StaleFlowIsReplaced, Deciding, Endings, TitlePending,
         GamePending, SavesOK, Saving, BankRuns
    <2> QED BY <2>1, <2>3 DEF LoopInv
  <1> QED BY <1>1, <1>2, <1>3 DEF L!MusicTick

LEMMA AudioFrameLoopKeeps ==
  ASSUME LoopInv, L!AudioFrame
  PROVE  LoopInv'
  BY MusicKeeps DEF L!AudioFrame

LEMMA FrozenStepLoopKeeps ==
  ASSUME LoopInv, L!FrozenStep
  PROVE  LoopInv'
  <1>1. at = "frozen" /\ L!MusicTick /\ at' \in {"tick", "quit"} /\ UNCHANGED <<ret, L!user, file>>
    BY DEF L!FrozenStep
  <1>2. ~ret
    BY <1>1 DEF LoopInv, LoopControl, Deciding
  <1> QED BY <1>1, <1>2, MusicKeeps

LEMMA DriveCreditsLoopKeeps ==
  ASSUME LoopInv, L!DriveCredits
  PROVE  LoopInv'
  <1>1. L!TypeOK'
    BY Flows, Requests, Banks, Files DEF LoopInv, L!TypeOK, L!Phases, L!MenuAction, L!game, L!user,
       L!DriveCredits, L!PosterFlow
  <1>2. LoopControl'
    BY Elems DEF LoopInv, L!TypeOK, L!game, L!user, L!Parked, L!RestartRequested, L!ResetRequests,
       L!DriveCredits, L!PosterFlow, LoopControl, L!StaleFlowIsReplaced, Deciding, Endings, TitlePending,
        GamePending, SavesOK, Saving, BankRuns
  <1> QED BY <1>1, <1>2 DEF LoopInv

LEMMA DecideLoopKeeps ==
  ASSUME LoopInv, L!Decide
  PROVE  LoopInv'
  <1>1. L!TypeOK'
    BY Flows, Requests, Banks, Files DEF LoopInv, L!TypeOK, L!Phases, L!MenuAction, L!game, L!user, L!Decide,
       L!VectorQuiet, L!VectorLoadsTitle, L!VectorStartsGame, L!LoadGameplay
  <1>2. LoopControl'
    BY Elems DEF LoopInv, L!TypeOK, L!game, L!user, L!Parked, L!RestartRequested, L!ResetRequests, L!Decide,
       L!VectorQuiet, L!VectorLoadsTitle, L!VectorStartsGame, L!LoadGameplay, LoopControl,
        L!StaleFlowIsReplaced, Deciding, Endings, TitlePending, GamePending, SavesOK, Saving, BankRuns
  <1> QED BY <1>1, <1>2 DEF LoopInv

LEMMA SavePendingLoopKeeps ==
  ASSUME LoopInv, L!SavePending
  PROVE  LoopInv'
  <1>1. at = "save" /\ at' = "audio" /\ pend' = [pend EXCEPT !.save = FALSE] /\ UNCHANGED <<ret, L!game, menu, freecam>>
    BY DEF L!SavePending
  <1>2. CASE file' = file
    <2>1. L!TypeOK'
      BY <1>1, <1>2 DEF LoopInv, L!TypeOK, L!game, L!Phases
    <2>2. LoopControl'
      BY <1>1, <1>2 DEF LoopInv, L!game, LoopControl, L!StaleFlowIsReplaced, Deciding, Endings, TitlePending,
         GamePending, SavesOK, Saving, BankRuns
    <2> QED BY <2>1, <2>2 DEF LoopInv
  <1>3. CASE L!SaveAllowed /\ file' # file
    <2>1. PICK kind \in {"good", "short"} :
             file' = [kind |-> kind, screen |-> screen, bytes |-> bytes, steady |-> flow.steady /\ flow.fresh,
                      gameplay |-> req.gameplay, title |-> req.title]
      BY <1>3 DEF L!SavePending
    <2>2. screen = "gameplay" /\ flow.steady /\ flow.fresh
      BY <1>3 DEF L!SaveAllowed
    <2>3. file' \in L!File
      BY <2>1, <2>2, Elems DEF LoopInv, L!TypeOK, L!File
    <2>4. L!TypeOK'
      BY <1>1, <2>3 DEF LoopInv, L!TypeOK, L!game, L!Phases
    <2>5. /\ file'.title = req.title /\ file'.screen = "gameplay" /\ file'.steady
          /\ file'.bytes = bytes /\ file'.gameplay = req.gameplay
      BY <2>1, <2>2
    <2>6. ~req.title /\ bytes \in {"gameplay", "torn", "credits"} /\ (req.gameplay => ret)
      BY <1>1, <2>2 DEF LoopInv, LoopControl, TitlePending, BankRuns, Saving
    <2>7. SavesOK'
      BY <1>1, <2>5, <2>6 DEF SavesOK
    <2>8. /\ L!StaleFlowIsReplaced' /\ Deciding' /\ Endings' /\ TitlePending' /\ GamePending' /\ Saving' /\ BankRuns'
      BY <1>1 DEF LoopInv, L!game, LoopControl, L!StaleFlowIsReplaced, Deciding, Endings, TitlePending,
         GamePending, SavesOK, Saving, BankRuns
    <2> QED BY <2>4, <2>7, <2>8 DEF LoopInv, LoopControl
  <1> QED BY <1>2, <1>3 DEF L!SavePending

LEMMA PauseTickLoopKeeps ==
  ASSUME LoopInv, L!PauseTick
  PROVE  LoopInv'
  <1>1. /\ at = "tick" /\ at' \in {"quit", "load"} /\ UNCHANGED <<ret, freecam, pend, file>>
        /\ menu' = [open |-> menu.open /\ menu.act \in {"none", "quit"}, act |-> "none"]
    BY DEF L!PauseTick
  <1>2. /\ menu' \in [open : BOOLEAN, act : L!MenuAction] /\ menu'.act = "none"
    BY <1>1 DEF LoopInv, L!TypeOK, L!MenuAction
  <1>3. CASE L!ColdRestart
    <2>1. /\ bytes' = "title" /\ screen' = "overlay" /\ image' = "title" /\ flow' = L!Parked("title") /\ over' = FALSE
          /\ req' = L!ResetRequests(req)
      BY <1>3 DEF L!ColdRestart, L!PosterFlow
    <2>2. L!TypeOK'
      BY <1>1, <1>2, <2>1, Flows, Requests, Banks DEF LoopInv, L!TypeOK, L!Phases
    <2>3. ~req'.gameplay /\ ~req'.title
      BY <2>1, Elems DEF LoopInv, L!TypeOK, L!ResetRequests
    <2>4. LoopControl'
      BY <1>1, <2>1, <2>3 DEF LoopInv, L!Parked, LoopControl, L!StaleFlowIsReplaced, Deciding, Endings,
         TitlePending, GamePending, SavesOK, Saving, BankRuns
    <2> QED BY <2>2, <2>4 DEF LoopInv
  <1>4. CASE req' = L!RestartRequested(req) /\ screen' = "gameplay" /\ UNCHANGED <<image, bytes, flow, over>>
    <2>1. L!TypeOK'
      BY <1>1, <1>2, <1>4, Requests, Banks DEF LoopInv, L!TypeOK, L!Phases
    <2>2. req'.gameplay /\ req'.reinit /\ req'.title = req.title
      BY <1>4, Elems DEF LoopInv, L!TypeOK, L!RestartRequested
    <2>3. LoopControl'
      BY <1>1, <1>4, <2>2 DEF LoopInv, LoopControl, L!StaleFlowIsReplaced, Deciding, Endings, TitlePending,
         GamePending, SavesOK, Saving, BankRuns
    <2> QED BY <2>1, <2>3 DEF LoopInv
  <1>5. CASE UNCHANGED L!game
    <2>1. L!TypeOK'
      BY <1>1, <1>2, <1>5 DEF LoopInv, L!TypeOK, L!Phases, L!game
    <2>2. LoopControl'
      BY <1>1, <1>5 DEF LoopInv, L!game, LoopControl, L!StaleFlowIsReplaced, Deciding, Endings, TitlePending,
         GamePending, SavesOK, Saving, BankRuns
    <2> QED BY <2>1, <2>2 DEF LoopInv
  <1> QED BY <1>3, <1>4, <1>5 DEF L!PauseTick

LEMMA LoadPendingLoopKeeps ==
  ASSUME LoopInv, L!LoadPending
  PROVE  LoopInv'
  <1>1. /\ at = "load" /\ at' = "choose" /\ pend' = [pend EXCEPT !.load = FALSE]
        /\ UNCHANGED <<ret, menu, freecam, file>>
    BY DEF L!LoadPending
  <1>2. CASE UNCHANGED L!game
    <2>1. L!TypeOK'
      BY <1>1, <1>2 DEF LoopInv, L!TypeOK, L!game, L!Phases
    <2>2. LoopControl'
      BY <1>1, <1>2 DEF LoopInv, L!game, LoopControl, L!StaleFlowIsReplaced, Deciding, Endings, TitlePending,
         GamePending, SavesOK, Saving, BankRuns
    <2> QED BY <2>1, <2>2 DEF LoopInv
  <1>3. CASE file.kind # "none" /\ ~UNCHANGED L!game
    <2>1. /\ screen' = file.screen /\ over' = FALSE
          /\ req' = [req EXCEPT !.gameplay = file.gameplay, !.title = file.title]
      BY <1>3 DEF L!LoadPending
    <2>2. /\ file.screen = "gameplay" /\ file.steady /\ ~file.title /\ ~file.gameplay
          /\ file.bytes \in {"gameplay", "torn", "credits"}
      BY <1>1, <1>3 DEF LoopInv, LoopControl, SavesOK, Deciding
    <2>a. req \in L!Request /\ file \in L!File
      BY DEF LoopInv, L!TypeOK
    <2>b. file.gameplay \in BOOLEAN /\ file.title \in BOOLEAN
      BY <2>a, Files
    <2>c. req' \in L!Request
      BY <2>1, <2>a, <2>b DEF L!Request
    <2>d. req = [e \in DOMAIN req |-> req[e]] /\ "gameplay" \in DOMAIN req /\ "title" \in DOMAIN req
      BY <2>a DEF L!Request
    <2>3. ~req'.gameplay /\ ~req'.title /\ req' \in L!Request
      BY <2>1, <2>2, <2>c, <2>d
    <2>4. \/ /\ image' = "gameplay" /\ bytes' = file.bytes
             /\ flow' = [phase |-> "parked", bank |-> "gameplay", fresh |-> TRUE, steady |-> TRUE]
          \/ bytes' = "torn" /\ image' = image /\ flow' = flow
      BY <1>3, <2>2 DEF L!LoadPending, L!ImageOf, L!ResumeFlow
    <2>5. flow' \in L!Flow /\ image' \in L!Bank /\ bytes' \in L!Bank \cup {"torn"}
      <3>1. flow \in L!Flow /\ image \in L!Bank /\ bytes \in L!Bank \cup {"torn"}
        BY DEF LoopInv, L!TypeOK
      <3>2. [phase |-> "parked", bank |-> "gameplay", fresh |-> TRUE, steady |-> TRUE] \in L!Flow
        BY DEF L!Flow, L!Phases, L!Bank, L!ImageOf
      <3>3. "gameplay" \in L!Bank /\ "torn" \in L!Bank \cup {"torn"} /\ file.bytes \in L!Bank \cup {"torn"}
        BY <2>a, Files, Banks
      <3> QED BY <2>4, <3>1, <3>2, <3>3
    <2>6. L!TypeOK'
      BY <1>1, <2>1, <2>2, <2>3, <2>5, Banks DEF LoopInv, L!TypeOK, L!Phases
    <2>7. ~over /\ ~ret /\ flow.phase = "parked"
      BY <1>1, Elems DEF LoopInv, L!TypeOK, LoopControl, Endings, Deciding
    <2>8. LoopControl'
      BY <1>1, <2>1, <2>2, <2>3, <2>4, <2>7 DEF LoopInv, LoopControl, L!StaleFlowIsReplaced, Deciding,
         Endings, TitlePending, GamePending, SavesOK, Saving, BankRuns
    <2> QED BY <2>6, <2>8 DEF LoopInv
  <1> QED BY <1>2, <1>3 DEF L!LoadPending

\* Every step of the frame loop keeps the invariant.
LEMMA LoopStep == LoopInv /\ [L!Next]_loop => LoopInv'
  <1> SUFFICES ASSUME LoopInv, [L!Next]_loop PROVE LoopInv'
    OBVIOUS
  <1>1. CASE UNCHANGED loop
    BY <1>1 DEF loop, LoopInv, L!TypeOK, LoopControl, L!StaleFlowIsReplaced, Deciding, Endings, TitlePending,
       GamePending, SavesOK,
                Saving, BankRuns
  <1>2. CASE L!Step
    BY <1>2, PauseTickLoopKeeps, LoadPendingLoopKeeps, ChooseLoopKeeps, FrozenStepLoopKeeps,
       FlowParksLoopKeeps, FlowEndsLoopKeeps,
       FlowLoadsTitleLoopKeeps, FlowStartsGameLoopKeeps, FlowWinsLoopKeeps, FlowGameOverLoopKeeps, PresentLoopKeeps, DecideLoopKeeps,
       HandTitleLoopKeeps, HandGameplayLoopKeeps, HandNothingLoopKeeps, SavePendingLoopKeeps, AudioFrameLoopKeeps
    DEF L!Step, L!FlowFrame
  <1> QED BY <1>1, <1>2, PlayerKeeps, DriveCreditsLoopKeeps DEF L!Next, L!Quit, L!vars, loop

\* What the run checks of the loop follows from it.
LEMMA LoopImplied == LoopInv => L!Inv /\ L!ProgramMatchesImage /\ L!FilesResume
  <1> SUFFICES ASSUME LoopInv PROVE L!Inv /\ L!ProgramMatchesImage /\ L!FilesResume
    OBVIOUS
  <1>1. L!FlowCanRun
    BY Elems DEF LoopInv, L!TypeOK, LoopControl, Endings, L!FlowCanRun
  <1> QED BY <1>1 DEF LoopInv, L!Inv, LoopControl, SavesOK, BankRuns, L!FilesResume, L!ProgramMatchesImage

\* The decision to end the program is taken with no game start pending.
LEMMA HandOffStep ==
  ASSUME LoopInv, [L!Next]_loop, at = "decide", at' # at, ret'
  PROVE  ~req.gameplay /\ ~req.title
  <1>1. ~req.title
    BY DEF LoopInv, LoopControl, TitlePending
  <1>2. L!Decide
    BY DEF L!Next, loop, L!Step, L!FlowFrame, L!Player, L!OpenMenu, L!ChooseMenu, L!ToggleFreecam, L!AskSave,
       L!AskLoad, L!DriveCredits, L!Quit,
           L!PauseTick, L!LoadPending, L!Choose, L!FrozenStep, L!FlowParks, L!FlowEnds, L!FlowLoadsTitle, L!FlowStartsGame, L!FlowWins,
           L!FlowGameOver, L!Present, L!HandTitle, L!HandGameplay, L!HandNothing, L!SavePending, L!AudioFrame
  <1> QED BY <1>1, <1>2 DEF L!Decide

-----------------------------------------------------------------------------
(* The script of the control channel. *)

\* The control channel's script.  Where the watchdog's timer runs: it is off while the game is
\* held, on while a game frame runs, and what a hold turned off will be turned on again.
TimerKept == /\ place \in H!Held => ~armed
             /\ place \in {"game", "gameBreak"} => ~frozen
             /\ place = "game" => armed
             /\ place \in {"present", "pace"} \cup H!FrameCode /\ ~frozen => armed
             /\ place \in {"gameBreak", "hold"} /\ ~frozen => armedOnce
\* The counter being decremented was not spent; without fast-forward every frame is shown.
StoresSeen == /\ place = "pressStore" => seen > 0
              /\ ~fast => shown
\* When requests do not overlap frame(): a request never stands half served inside it, what it
\* loaded is what it stores back, and the first store of a request is still there at its second.
Serving == ~overlap =>
           /\ http # H!Idle => place \notin H!FrameCode
           /\ place = "pressStore" => seen = pressLeft
           /\ place = "stepStore" => seen = stepLeft
           /\ http.op = "press" => http.n = pressLeft /\ pressLeft > 0
           /\ http.op = "step" => http.n = stepLeft /\ stepLeft > 0
           /\ http.op \in {"pause", "resume"} => budget = -1
\* A game frame that has begun and not yet counted.
InFrame == place \in {"game", "gameBreak"} \/ (place \in {"present", "pace", "hold", "pressLoad", "pressStore"} /\ ~frozen)
\* A press in force: the frames seen and the frames left never exceed what was asked, but for the one begun.
Pressing == ~overlap /\ buttons = "pressed" =>
            /\ http.op # "hold" => pressLeft > 0 \/ place = "release"
            /\ ~fast => saw <= asked
            /\ ~fast /\ http.op \notin {"press", "hold"} => saw + pressLeft <= asked + (IF InFrame THEN 1 ELSE 0)
\* The frame before the next one to begin has been counted.
Owed == place \in {"stepClear", "stepHold", "after", "audio", "audioBreak", "top"}
\* A step from a hold: as many frames are still to count as to begin, but for the one begun.
Stepping == ~overlap /\ ~fast /\ budget >= 0 /\ http.op # "step" =>
            /\ Owed => budget >= 1 /\ budget >= stepLeft + 1
            /\ ~Owed => budget >= stepLeft
            /\ ~paused /\ place \notin {"stepClear", "stepHold"} => stepLeft >= 1
            /\ place \in H!FrameCode => ~paused
\* The inductive invariant of the script.
HoldInv == H!TypeOK /\ TimerKept /\ StoresSeen /\ Serving /\ Pressing /\ Stepping

(* One lemma per action of the frame loop, then of the channel; of each, one step per part of the invariant. *)

LEMMA FreezeKeeps ==
  ASSUME HoldInv, H!Alone, UNCHANGED <<fast, overlap>>, H!Freeze
  PROVE  HoldInv'
  <1>1. H!TypeOK'
    BY HoldBounds DEF HoldInv, H!Freeze, H!TypeOK, StoresSeen, H!Request, H!Frames, H!ParameterAssumption,
       H!loop, H!script, H!past, H!Places, H!FrameCode, H!Held
  <1>2. TimerKept'
    BY DEF HoldInv, H!Freeze, H!TypeOK, TimerKept, H!loop, H!script, H!past, H!Places, H!FrameCode, H!Held
  <1>3. StoresSeen'
    BY DEF HoldInv, H!Freeze, H!TypeOK, StoresSeen, H!loop, H!script, H!past, Serving, H!Places, H!FrameCode,
       H!Held
  <1>4. Serving'
    BY DEF HoldInv, H!Freeze, H!TypeOK, StoresSeen, Serving, H!Idle, H!Request, H!Alone, H!loop, H!script,
       H!past, H!Frames, H!Places, H!FrameCode, H!Held
  <1>5. Pressing'
    BY HoldBounds DEF HoldInv, H!Freeze, H!TypeOK, StoresSeen, Serving, Pressing, InFrame, H!Alone, H!Request,
       H!Idle, H!ParameterAssumption, H!loop, H!script, H!past, H!Frames, H!Places, H!FrameCode, H!Held
  <1>6. Stepping'
    BY DEF HoldInv, H!Freeze, H!TypeOK, StoresSeen, Serving, Stepping, Owed, H!Alone, H!Request, H!Idle,
       H!loop, H!script, H!past, H!Frames, H!Places, H!FrameCode, H!Held
  <1> QED BY <1>1, <1>2, <1>3, <1>4, <1>5, <1>6 DEF HoldInv

LEMMA BeginKeeps ==
  ASSUME HoldInv, H!Alone, UNCHANGED <<fast, overlap>>, H!Begin
  PROVE  HoldInv'
  <1>1. H!TypeOK'
    <2>1. /\ fast' \in Fast /\ overlap' \in Overlap /\ place' \in H!Places /\ frozen' \in BOOLEAN /\ shown' \in BOOLEAN
          /\ armed' \in BOOLEAN /\ armedOnce' \in BOOLEAN /\ (armed' => armedOnce') /\ paused' \in BOOLEAN
          /\ buttons' \in {"held", "pressed"}
      BY DEF HoldInv, H!Begin, H!TypeOK, H!loop, H!script, H!past, H!Places, H!FrameCode, H!Held
    <2>2. stepLeft' \in -1..MaxFrames /\ pressLeft' \in 0..MaxFrames /\ seen' \in 0..MaxFrames
      BY HoldBounds DEF HoldInv, H!Begin, H!TypeOK, H!Frames, H!ParameterAssumption, H!loop, H!script, H!past
    <2>3. http' \in H!Request
      BY HoldBounds DEF HoldInv, H!Begin, H!TypeOK, H!Idle, H!Request, H!Frames, H!ParameterAssumption,
         H!loop, H!script, H!past
    <2>4. asked' \in 0..MaxFrames /\ saw' \in 0..(MaxFrames + 1) /\ budget' \in -1..MaxFrames
      BY HoldBounds DEF HoldInv, H!Begin, H!TypeOK, H!Request, H!Frames, H!ParameterAssumption, H!loop,
         H!script, H!past
    <2> QED BY <2>1, <2>2, <2>3, <2>4 DEF H!TypeOK
  <1>2. TimerKept'
    BY DEF HoldInv, H!Begin, H!TypeOK, TimerKept, H!loop, H!script, H!past, H!Places, H!FrameCode, H!Held
  <1>3. StoresSeen'
    BY DEF HoldInv, H!Begin, H!TypeOK, StoresSeen, H!loop, H!script, H!past, Serving, H!Places, H!FrameCode,
       H!Held
  <1>4. Serving'
    BY DEF HoldInv, H!Begin, H!TypeOK, StoresSeen, Serving, H!Idle, H!Request, H!Alone, H!loop, H!script,
       H!past, H!Frames, H!Places, H!FrameCode, H!Held
  <1>5. Pressing'
    BY HoldBounds DEF HoldInv, H!Begin, H!TypeOK, StoresSeen, Serving, Pressing, InFrame, H!Alone, H!Request,
       H!Idle, H!ParameterAssumption, H!loop, H!script, H!past, H!Frames, H!Places, H!FrameCode, H!Held
  <1>6. Stepping'
    BY DEF HoldInv, H!Begin, H!TypeOK, StoresSeen, Serving, Stepping, Owed, H!Alone, H!Request, H!Idle,
       H!loop, H!script, H!past, H!Frames, H!Places, H!FrameCode, H!Held
  <1> QED BY <1>1, <1>2, <1>3, <1>4, <1>5, <1>6 DEF HoldInv

LEMMA BreakKeeps ==
  ASSUME HoldInv, H!Alone, UNCHANGED <<fast, overlap>>, H!Break
  PROVE  HoldInv'
  <1>1. H!TypeOK'
    <2>1. /\ fast' \in Fast /\ overlap' \in Overlap /\ place' \in H!Places /\ frozen' \in BOOLEAN /\ shown' \in BOOLEAN
          /\ armed' \in BOOLEAN /\ armedOnce' \in BOOLEAN /\ (armed' => armedOnce') /\ paused' \in BOOLEAN
          /\ buttons' \in {"held", "pressed"}
      BY DEF HoldInv, H!Break, H!TypeOK, H!loop, H!script, H!past, H!Places, H!FrameCode, H!Held
    <2>2. stepLeft' \in -1..MaxFrames /\ pressLeft' \in 0..MaxFrames /\ seen' \in 0..MaxFrames
      BY HoldBounds DEF HoldInv, H!Break, H!TypeOK, H!Frames, H!ParameterAssumption, H!loop, H!script, H!past
    <2>3. http' \in H!Request
      BY HoldBounds DEF HoldInv, H!Break, H!TypeOK, H!Idle, H!Request, H!Frames, H!ParameterAssumption,
         H!loop, H!script, H!past
    <2>4. asked' \in 0..MaxFrames /\ saw' \in 0..(MaxFrames + 1) /\ budget' \in -1..MaxFrames
      BY HoldBounds DEF HoldInv, H!Break, H!TypeOK, H!Request, H!Frames, H!ParameterAssumption, H!loop,
         H!script, H!past
    <2> QED BY <2>1, <2>2, <2>3, <2>4 DEF H!TypeOK
  <1>2. TimerKept'
    BY DEF HoldInv, H!Break, H!TypeOK, TimerKept, H!loop, H!script, H!past, H!Places, H!FrameCode, H!Held
  <1>3. StoresSeen'
    BY DEF HoldInv, H!Break, H!TypeOK, StoresSeen, H!loop, H!script, H!past, Serving, H!Places, H!FrameCode,
       H!Held
  <1>4. Serving'
    BY DEF HoldInv, H!Break, H!TypeOK, StoresSeen, Serving, H!Idle, H!Request, H!Alone, H!loop, H!script,
       H!past, H!Frames, H!Places, H!FrameCode, H!Held
  <1>5. Pressing'
    BY HoldBounds DEF HoldInv, H!Break, H!TypeOK, StoresSeen, Serving, Pressing, InFrame, H!Alone, H!Request,
       H!Idle, H!ParameterAssumption, H!loop, H!script, H!past, H!Frames, H!Places, H!FrameCode, H!Held
  <1>6. Stepping'
    BY DEF HoldInv, H!Break, H!TypeOK, StoresSeen, Serving, Stepping, Owed, H!Alone, H!Request, H!Idle,
       H!loop, H!script, H!past, H!Frames, H!Places, H!FrameCode, H!Held
  <1> QED BY <1>1, <1>2, <1>3, <1>4, <1>5, <1>6 DEF HoldInv

LEMMA UnbreakKeeps ==
  ASSUME HoldInv, H!Alone, UNCHANGED <<fast, overlap>>, H!Unbreak
  PROVE  HoldInv'
  <1>1. H!TypeOK'
    BY HoldBounds DEF HoldInv, H!Unbreak, H!TypeOK, StoresSeen, H!Request, H!Frames, H!ParameterAssumption,
       H!loop, H!script, H!past, H!Places, H!FrameCode, H!Held
  <1>2. TimerKept'
    BY DEF HoldInv, H!Unbreak, H!TypeOK, TimerKept, H!loop, H!script, H!past, H!Places, H!FrameCode, H!Held
  <1>3. StoresSeen'
    BY DEF HoldInv, H!Unbreak, H!TypeOK, StoresSeen, H!loop, H!script, H!past, Serving, H!Places, H!FrameCode,
       H!Held
  <1>4. Serving'
    BY DEF HoldInv, H!Unbreak, H!TypeOK, StoresSeen, Serving, H!Idle, H!Request, H!Alone, H!loop, H!script,
       H!past, H!Frames, H!Places, H!FrameCode, H!Held
  <1>5. Pressing'
    BY HoldBounds DEF HoldInv, H!Unbreak, H!TypeOK, StoresSeen, Serving, Pressing, InFrame, H!Alone,
       H!Request, H!Idle, H!ParameterAssumption, H!loop, H!script, H!past, H!Frames, H!Places, H!FrameCode,
        H!Held
  <1>6. Stepping'
    BY DEF HoldInv, H!Unbreak, H!TypeOK, StoresSeen, Serving, Stepping, Owed, H!Alone, H!Request, H!Idle,
       H!loop, H!script, H!past, H!Frames, H!Places, H!FrameCode, H!Held
  <1> QED BY <1>1, <1>2, <1>3, <1>4, <1>5, <1>6 DEF HoldInv

LEMMA ParksKeeps ==
  ASSUME HoldInv, H!Alone, UNCHANGED <<fast, overlap>>, H!Parks
  PROVE  HoldInv'
  <1>1. H!TypeOK'
    BY HoldBounds DEF HoldInv, H!Parks, H!TypeOK, StoresSeen, H!Request, H!Frames, H!ParameterAssumption,
       H!loop, H!script, H!past, H!Places, H!FrameCode, H!Held
  <1>2. TimerKept'
    BY DEF HoldInv, H!Parks, H!TypeOK, TimerKept, H!loop, H!script, H!past, H!Places, H!FrameCode, H!Held
  <1>3. StoresSeen'
    BY DEF HoldInv, H!Parks, H!TypeOK, StoresSeen, H!loop, H!script, H!past, Serving, H!Places, H!FrameCode,
       H!Held
  <1>4. Serving'
    BY DEF HoldInv, H!Parks, H!TypeOK, StoresSeen, Serving, H!Idle, H!Request, H!Alone, H!loop, H!script,
       H!past, H!Frames, H!Places, H!FrameCode, H!Held
  <1>5. Pressing'
    BY DEF HoldInv, H!Parks, H!TypeOK, StoresSeen, TimerKept, Serving, Pressing, InFrame, H!Alone, H!Request,
       H!Idle, H!loop, H!script, H!past, H!Frames, H!Places, H!FrameCode, H!Held
  <1>6. Stepping'
    BY DEF HoldInv, H!Parks, H!TypeOK, StoresSeen, Serving, Stepping, Owed, H!Alone, H!Request, H!Idle,
       H!loop, H!script, H!past, H!Frames, H!Places, H!FrameCode, H!Held
  <1> QED BY <1>1, <1>2, <1>3, <1>4, <1>5, <1>6 DEF HoldInv

LEMMA PresentKeeps ==
  ASSUME HoldInv, H!Alone, UNCHANGED <<fast, overlap>>, H!Present
  PROVE  HoldInv'
  <1>1. H!TypeOK'
    BY HoldBounds DEF HoldInv, H!Present, H!TypeOK, StoresSeen, H!Request, H!Frames, H!ParameterAssumption,
       H!loop, H!script, H!past, H!Places, H!FrameCode, H!Held
  <1>2. TimerKept'
    BY DEF HoldInv, H!Present, H!TypeOK, TimerKept, H!loop, H!script, H!past, H!Places, H!FrameCode, H!Held
  <1>3. StoresSeen'
    BY DEF HoldInv, H!Present, H!TypeOK, StoresSeen, H!loop, H!script, H!past, Serving, H!Places, H!FrameCode,
       H!Held
  <1>4. Serving'
    BY DEF HoldInv, H!Present, H!TypeOK, StoresSeen, Serving, H!Idle, H!Request, H!Alone, H!loop, H!script,
       H!past, H!Frames, H!Places, H!FrameCode, H!Held
  <1>5. Pressing'
    BY HoldBounds DEF HoldInv, H!Present, H!TypeOK, StoresSeen, Serving, Pressing, InFrame, H!Alone,
       H!Request, H!Idle, H!ParameterAssumption, H!loop, H!script, H!past, H!Frames, H!Places, H!FrameCode,
        H!Held
  <1>6. Stepping'
    BY DEF HoldInv, H!Present, H!TypeOK, StoresSeen, Serving, Stepping, Owed, H!Alone, H!Request, H!Idle,
       H!loop, H!script, H!past, H!Frames, H!Places, H!FrameCode, H!Held
  <1> QED BY <1>1, <1>2, <1>3, <1>4, <1>5, <1>6 DEF HoldInv

LEMMA PaceKeeps ==
  ASSUME HoldInv, H!Alone, UNCHANGED <<fast, overlap>>, H!Pace
  PROVE  HoldInv'
  <1>1. H!TypeOK'
    BY HoldBounds DEF HoldInv, H!Pace, H!PaceDone, H!TypeOK, StoresSeen, H!Request, H!Frames,
       H!ParameterAssumption, H!loop, H!script, H!past, H!Places, H!FrameCode, H!Held
  <1>2. TimerKept'
    BY DEF HoldInv, H!Pace, H!PaceDone, H!TypeOK, TimerKept, H!loop, H!script, H!past, H!Places, H!FrameCode,
       H!Held
  <1>3. StoresSeen'
    BY DEF HoldInv, H!Pace, H!PaceDone, H!TypeOK, StoresSeen, H!loop, H!script, H!past, Serving, H!Places,
       H!FrameCode, H!Held
  <1>4. Serving'
    BY DEF HoldInv, H!Pace, H!PaceDone, H!TypeOK, StoresSeen, Serving, H!Idle, H!Request, H!Alone, H!loop,
       H!script, H!past, H!Frames, H!Places, H!FrameCode, H!Held
  <1>5. Pressing'
    BY HoldBounds DEF HoldInv, H!Pace, H!PaceDone, H!TypeOK, StoresSeen, Serving, Pressing, InFrame, H!Alone,
       H!Request, H!Idle, H!ParameterAssumption, H!loop, H!script, H!past, H!Frames, H!Places, H!FrameCode,
        H!Held
  <1>6. Stepping'
    BY DEF HoldInv, H!Pace, H!PaceDone, H!TypeOK, StoresSeen, Serving, Stepping, Owed, H!Alone, H!Request,
       H!Idle, H!loop, H!script, H!past, H!Frames, H!Places, H!FrameCode, H!Held
  <1> QED BY <1>1, <1>2, <1>3, <1>4, <1>5, <1>6 DEF HoldInv

LEMMA UnholdKeeps ==
  ASSUME HoldInv, H!Alone, UNCHANGED <<fast, overlap>>, H!Unhold
  PROVE  HoldInv'
  <1>1. H!TypeOK'
    BY HoldBounds DEF HoldInv, H!Unhold, H!PaceDone, H!TypeOK, StoresSeen, H!Request, H!Frames,
       H!ParameterAssumption, H!loop, H!script, H!past, H!Places, H!FrameCode, H!Held
  <1>2. TimerKept'
    BY DEF HoldInv, H!Unhold, H!PaceDone, H!TypeOK, TimerKept, H!loop, H!script, H!past, H!Places,
       H!FrameCode, H!Held
  <1>3. StoresSeen'
    BY DEF HoldInv, H!Unhold, H!PaceDone, H!TypeOK, StoresSeen, H!loop, H!script, H!past, Serving, H!Places,
       H!FrameCode, H!Held
  <1>4. Serving'
    BY DEF HoldInv, H!Unhold, H!PaceDone, H!TypeOK, StoresSeen, Serving, H!Idle, H!Request, H!Alone, H!loop,
       H!script, H!past, H!Frames, H!Places, H!FrameCode, H!Held
  <1>5. Pressing'
    BY HoldBounds DEF HoldInv, H!Unhold, H!PaceDone, H!TypeOK, StoresSeen, Serving, Pressing, InFrame,
       H!Alone, H!Request, H!Idle, H!ParameterAssumption, H!loop, H!script, H!past, H!Frames, H!Places,
        H!FrameCode, H!Held
  <1>6. Stepping'
    BY DEF HoldInv, H!Unhold, H!PaceDone, H!TypeOK, StoresSeen, Serving, Stepping, Owed, H!Alone, H!Request,
       H!Idle, H!loop, H!script, H!past, H!Frames, H!Places, H!FrameCode, H!Held
  <1> QED BY <1>1, <1>2, <1>3, <1>4, <1>5, <1>6 DEF HoldInv

LEMMA AfterKeeps ==
  ASSUME HoldInv, H!Alone, UNCHANGED <<fast, overlap>>, H!After
  PROVE  HoldInv'
  <1>1. H!TypeOK'
    BY HoldBounds DEF HoldInv, H!After, H!TypeOK, StoresSeen, H!Request, H!Frames, H!ParameterAssumption,
       H!loop, H!script, H!past, H!Places, H!FrameCode, H!Held
  <1>2. TimerKept'
    BY DEF HoldInv, H!After, H!TypeOK, TimerKept, H!loop, H!script, H!past, H!Places, H!FrameCode, H!Held
  <1>3. StoresSeen'
    BY DEF HoldInv, H!After, H!TypeOK, StoresSeen, H!loop, H!script, H!past, Serving, H!Places, H!FrameCode,
       H!Held
  <1>4. Serving'
    BY DEF HoldInv, H!After, H!TypeOK, StoresSeen, Serving, H!Idle, H!Request, H!Alone, H!loop, H!script,
       H!past, H!Frames, H!Places, H!FrameCode, H!Held
  <1>5. Pressing'
    BY HoldBounds DEF HoldInv, H!After, H!TypeOK, StoresSeen, Serving, Pressing, InFrame, H!Alone, H!Request,
       H!Idle, H!ParameterAssumption, H!loop, H!script, H!past, H!Frames, H!Places, H!FrameCode, H!Held
  <1>6. Stepping'
    BY DEF HoldInv, H!After, H!TypeOK, StoresSeen, Serving, Stepping, Owed, H!Alone, H!Request, H!Idle,
       H!loop, H!script, H!past, H!Frames, H!Places, H!FrameCode, H!Held
  <1> QED BY <1>1, <1>2, <1>3, <1>4, <1>5, <1>6 DEF HoldInv

LEMMA AudioKeeps ==
  ASSUME HoldInv, H!Alone, UNCHANGED <<fast, overlap>>, H!Audio
  PROVE  HoldInv'
  <1>1. H!TypeOK'
    BY HoldBounds DEF HoldInv, H!Audio, H!TypeOK, StoresSeen, H!Request, H!Frames, H!ParameterAssumption,
       H!loop, H!script, H!past, H!Places, H!FrameCode, H!Held
  <1>2. TimerKept'
    BY DEF HoldInv, H!Audio, H!TypeOK, TimerKept, H!loop, H!script, H!past, H!Places, H!FrameCode, H!Held
  <1>3. StoresSeen'
    BY DEF HoldInv, H!Audio, H!TypeOK, StoresSeen, H!loop, H!script, H!past, Serving, H!Places, H!FrameCode,
       H!Held
  <1>4. Serving'
    BY DEF HoldInv, H!Audio, H!TypeOK, StoresSeen, Serving, H!Idle, H!Request, H!Alone, H!loop, H!script,
       H!past, H!Frames, H!Places, H!FrameCode, H!Held
  <1>5. Pressing'
    BY HoldBounds DEF HoldInv, H!Audio, H!TypeOK, StoresSeen, Serving, Pressing, InFrame, H!Alone, H!Request,
       H!Idle, H!ParameterAssumption, H!loop, H!script, H!past, H!Frames, H!Places, H!FrameCode, H!Held
  <1>6. Stepping'
    BY DEF HoldInv, H!Audio, H!TypeOK, StoresSeen, Serving, Stepping, Owed, H!Alone, H!Request, H!Idle,
       H!loop, H!script, H!past, H!Frames, H!Places, H!FrameCode, H!Held
  <1> QED BY <1>1, <1>2, <1>3, <1>4, <1>5, <1>6 DEF HoldInv

LEMMA PressLoadKeeps ==
  ASSUME HoldInv, H!Alone, UNCHANGED <<fast, overlap>>, H!PressLoad
  PROVE  HoldInv'
  <1>1. H!TypeOK'
    BY HoldBounds DEF HoldInv, H!PressLoad, H!TypeOK, StoresSeen, H!Request, H!Frames, H!ParameterAssumption,
       H!loop, H!script, H!past, H!Places, H!FrameCode, H!Held
  <1>2. TimerKept'
    BY DEF HoldInv, H!PressLoad, H!TypeOK, TimerKept, H!loop, H!script, H!past, H!Places, H!FrameCode, H!Held
  <1>3. StoresSeen'
    BY DEF HoldInv, H!PressLoad, H!TypeOK, StoresSeen, H!loop, H!script, H!past, Serving, H!Places,
       H!FrameCode, H!Held
  <1>4. Serving'
    BY DEF HoldInv, H!PressLoad, H!TypeOK, StoresSeen, Serving, H!Idle, H!Request, H!Alone, H!loop, H!script,
       H!past, H!Frames, H!Places, H!FrameCode, H!Held
  <1>5. Pressing'
    BY HoldBounds DEF HoldInv, H!PressLoad, H!TypeOK, StoresSeen, Serving, Pressing, InFrame, H!Alone,
       H!Request, H!Idle, H!ParameterAssumption, H!loop, H!script, H!past, H!Frames, H!Places, H!FrameCode,
        H!Held
  <1>6. Stepping'
    BY DEF HoldInv, H!PressLoad, H!TypeOK, StoresSeen, Serving, Stepping, Owed, H!Alone, H!Request, H!Idle,
       H!loop, H!script, H!past, H!Frames, H!Places, H!FrameCode, H!Held
  <1> QED BY <1>1, <1>2, <1>3, <1>4, <1>5, <1>6 DEF HoldInv

LEMMA PressStoreKeeps ==
  ASSUME HoldInv, H!Alone, UNCHANGED <<fast, overlap>>, H!PressStore
  PROVE  HoldInv'
  <1>1. H!TypeOK'
    BY HoldBounds DEF HoldInv, H!PressStore, H!TypeOK, StoresSeen, H!Request, H!Frames, H!ParameterAssumption,
       H!loop, H!script, H!past, H!Places, H!FrameCode, H!Held
  <1>2. TimerKept'
    BY DEF HoldInv, H!PressStore, H!TypeOK, TimerKept, H!loop, H!script, H!past, H!Places, H!FrameCode, H!Held
  <1>3. StoresSeen'
    BY DEF HoldInv, H!PressStore, H!TypeOK, StoresSeen, H!loop, H!script, H!past, Serving, H!Places,
       H!FrameCode, H!Held
  <1>4. Serving'
    BY DEF HoldInv, H!PressStore, H!TypeOK, StoresSeen, Serving, H!Idle, H!Request, H!Alone, H!loop, H!script,
       H!past, H!Frames, H!Places, H!FrameCode, H!Held
  <1>5. Pressing'
    BY HoldBounds DEF HoldInv, H!PressStore, H!TypeOK, StoresSeen, Serving, Pressing, InFrame, H!Alone,
       H!Request, H!Idle, H!ParameterAssumption, H!loop, H!script, H!past, H!Frames, H!Places, H!FrameCode,
        H!Held
  <1>6. Stepping'
    BY DEF HoldInv, H!PressStore, H!TypeOK, StoresSeen, Serving, Stepping, Owed, H!Alone, H!Request, H!Idle,
       H!loop, H!script, H!past, H!Frames, H!Places, H!FrameCode, H!Held
  <1> QED BY <1>1, <1>2, <1>3, <1>4, <1>5, <1>6 DEF HoldInv

LEMMA ReleaseKeeps ==
  ASSUME HoldInv, H!Alone, UNCHANGED <<fast, overlap>>, H!Release
  PROVE  HoldInv'
  <1>1. H!TypeOK'
    BY HoldBounds DEF HoldInv, H!Release, H!TypeOK, StoresSeen, H!Request, H!Frames, H!ParameterAssumption,
       H!loop, H!script, H!past, H!Places, H!FrameCode, H!Held
  <1>2. TimerKept'
    BY DEF HoldInv, H!Release, H!TypeOK, TimerKept, H!loop, H!script, H!past, H!Places, H!FrameCode, H!Held
  <1>3. StoresSeen'
    BY DEF HoldInv, H!Release, H!TypeOK, StoresSeen, H!loop, H!script, H!past, Serving, H!Places, H!FrameCode,
       H!Held
  <1>4. Serving'
    BY DEF HoldInv, H!Release, H!TypeOK, StoresSeen, Serving, H!Idle, H!Request, H!Alone, H!loop, H!script,
       H!past, H!Frames, H!Places, H!FrameCode, H!Held
  <1>5. Pressing'
    BY HoldBounds DEF HoldInv, H!Release, H!TypeOK, StoresSeen, Serving, Pressing, InFrame, H!Alone,
       H!Request, H!Idle, H!ParameterAssumption, H!loop, H!script, H!past, H!Frames, H!Places, H!FrameCode,
        H!Held
  <1>6. Stepping'
    BY DEF HoldInv, H!Release, H!TypeOK, StoresSeen, Serving, Stepping, Owed, H!Alone, H!Request, H!Idle,
       H!loop, H!script, H!past, H!Frames, H!Places, H!FrameCode, H!Held
  <1> QED BY <1>1, <1>2, <1>3, <1>4, <1>5, <1>6 DEF HoldInv

LEMMA StepLoadKeeps ==
  ASSUME HoldInv, H!Alone, UNCHANGED <<fast, overlap>>, H!StepLoad
  PROVE  HoldInv'
  <1>1. H!TypeOK'
    BY HoldBounds DEF HoldInv, H!StepLoad, H!TypeOK, StoresSeen, H!Request, H!Frames, H!ParameterAssumption,
       H!loop, H!script, H!past, H!Places, H!FrameCode, H!Held
  <1>2. TimerKept'
    BY DEF HoldInv, H!StepLoad, H!TypeOK, TimerKept, H!loop, H!script, H!past, H!Places, H!FrameCode, H!Held
  <1>3. StoresSeen'
    BY DEF HoldInv, H!StepLoad, H!TypeOK, StoresSeen, H!loop, H!script, H!past, Serving, H!Places,
       H!FrameCode, H!Held
  <1>4. Serving'
    BY DEF HoldInv, H!StepLoad, H!TypeOK, StoresSeen, Serving, H!Idle, H!Request, H!Alone, H!loop, H!script,
       H!past, H!Frames, H!Places, H!FrameCode, H!Held
  <1>5. Pressing'
    BY HoldBounds DEF HoldInv, H!StepLoad, H!TypeOK, StoresSeen, Serving, Pressing, InFrame, H!Alone,
       H!Request, H!Idle, H!ParameterAssumption, H!loop, H!script, H!past, H!Frames, H!Places, H!FrameCode,
        H!Held
  <1>6. Stepping'
    BY DEF HoldInv, H!StepLoad, H!TypeOK, StoresSeen, Serving, Stepping, Owed, H!Alone, H!Request, H!Idle,
       H!loop, H!script, H!past, H!Frames, H!Places, H!FrameCode, H!Held
  <1> QED BY <1>1, <1>2, <1>3, <1>4, <1>5, <1>6 DEF HoldInv

LEMMA StepStoreKeeps ==
  ASSUME HoldInv, H!Alone, UNCHANGED <<fast, overlap>>, H!StepStore
  PROVE  HoldInv'
  <1>1. H!TypeOK'
    BY HoldBounds DEF HoldInv, H!StepStore, H!TypeOK, StoresSeen, H!Request, H!Frames, H!ParameterAssumption,
       H!loop, H!script, H!past, H!Places, H!FrameCode, H!Held
  <1>2. TimerKept'
    BY DEF HoldInv, H!StepStore, H!TypeOK, TimerKept, H!loop, H!script, H!past, H!Places, H!FrameCode, H!Held
  <1>3. StoresSeen'
    BY DEF HoldInv, H!StepStore, H!TypeOK, StoresSeen, H!loop, H!script, H!past, Serving, H!Places,
       H!FrameCode, H!Held
  <1>4. Serving'
    BY DEF HoldInv, H!StepStore, H!TypeOK, StoresSeen, Serving, H!Idle, H!Request, H!Alone, H!loop, H!script,
       H!past, H!Frames, H!Places, H!FrameCode, H!Held
  <1>5. Pressing'
    BY HoldBounds DEF HoldInv, H!StepStore, H!TypeOK, StoresSeen, Serving, Pressing, InFrame, H!Alone,
       H!Request, H!Idle, H!ParameterAssumption, H!loop, H!script, H!past, H!Frames, H!Places, H!FrameCode,
        H!Held
  <1>6. Stepping'
    BY DEF HoldInv, H!StepStore, H!TypeOK, StoresSeen, Serving, Stepping, Owed, H!Alone, H!Request, H!Idle,
       H!loop, H!script, H!past, H!Frames, H!Places, H!FrameCode, H!Held
  <1> QED BY <1>1, <1>2, <1>3, <1>4, <1>5, <1>6 DEF HoldInv

LEMMA StepClearKeeps ==
  ASSUME HoldInv, H!Alone, UNCHANGED <<fast, overlap>>, H!StepClear
  PROVE  HoldInv'
  <1>1. H!TypeOK'
    BY HoldBounds DEF HoldInv, H!StepClear, H!TypeOK, StoresSeen, H!Request, H!Frames, H!ParameterAssumption,
       H!loop, H!script, H!past, H!Places, H!FrameCode, H!Held
  <1>2. TimerKept'
    BY DEF HoldInv, H!StepClear, H!TypeOK, TimerKept, H!loop, H!script, H!past, H!Places, H!FrameCode, H!Held
  <1>3. StoresSeen'
    BY DEF HoldInv, H!StepClear, H!TypeOK, StoresSeen, H!loop, H!script, H!past, Serving, H!Places,
       H!FrameCode, H!Held
  <1>4. Serving'
    BY DEF HoldInv, H!StepClear, H!TypeOK, StoresSeen, Serving, H!Idle, H!Request, H!Alone, H!loop, H!script,
       H!past, H!Frames, H!Places, H!FrameCode, H!Held
  <1>5. Pressing'
    BY HoldBounds DEF HoldInv, H!StepClear, H!TypeOK, StoresSeen, Serving, Pressing, InFrame, H!Alone,
       H!Request, H!Idle, H!ParameterAssumption, H!loop, H!script, H!past, H!Frames, H!Places, H!FrameCode,
        H!Held
  <1>6. Stepping'
    BY DEF HoldInv, H!StepClear, H!TypeOK, StoresSeen, Serving, Stepping, Owed, H!Alone, H!Request, H!Idle,
       H!loop, H!script, H!past, H!Frames, H!Places, H!FrameCode, H!Held
  <1> QED BY <1>1, <1>2, <1>3, <1>4, <1>5, <1>6 DEF HoldInv

LEMMA StepHoldKeeps ==
  ASSUME HoldInv, H!Alone, UNCHANGED <<fast, overlap>>, H!StepHold
  PROVE  HoldInv'
  <1>1. H!TypeOK'
    BY HoldBounds DEF HoldInv, H!StepHold, H!TypeOK, StoresSeen, H!Request, H!Frames, H!ParameterAssumption,
       H!loop, H!script, H!past, H!Places, H!FrameCode, H!Held
  <1>2. TimerKept'
    BY DEF HoldInv, H!StepHold, H!TypeOK, TimerKept, H!loop, H!script, H!past, H!Places, H!FrameCode, H!Held
  <1>3. StoresSeen'
    BY DEF HoldInv, H!StepHold, H!TypeOK, StoresSeen, H!loop, H!script, H!past, Serving, H!Places,
       H!FrameCode, H!Held
  <1>4. Serving'
    BY DEF HoldInv, H!StepHold, H!TypeOK, StoresSeen, Serving, H!Idle, H!Request, H!Alone, H!loop, H!script,
       H!past, H!Frames, H!Places, H!FrameCode, H!Held
  <1>5. Pressing'
    BY HoldBounds DEF HoldInv, H!StepHold, H!TypeOK, StoresSeen, Serving, Pressing, InFrame, H!Alone,
       H!Request, H!Idle, H!ParameterAssumption, H!loop, H!script, H!past, H!Frames, H!Places, H!FrameCode,
        H!Held
  <1>6. Stepping'
    BY DEF HoldInv, H!StepHold, H!TypeOK, StoresSeen, Serving, Stepping, Owed, H!Alone, H!Request, H!Idle,
       H!loop, H!script, H!past, H!Frames, H!Places, H!FrameCode, H!Held
  <1> QED BY <1>1, <1>2, <1>3, <1>4, <1>5, <1>6 DEF HoldInv

LEMMA AskPauseKeeps ==
  ASSUME HoldInv, H!AskPause
  PROVE  HoldInv'
  <1>1. H!TypeOK'
    BY HoldBounds DEF HoldInv, H!AskPause, H!Serve, H!TypeOK, StoresSeen, H!Request, H!Frames,
       H!ParameterAssumption, H!loop, H!script, H!past, H!Places, H!FrameCode, H!Held
  <1>2. TimerKept'
    BY DEF HoldInv, H!AskPause, H!Serve, H!TypeOK, TimerKept, H!loop, H!script, H!past, H!Places, H!FrameCode,
       H!Held
  <1>3. StoresSeen'
    BY DEF HoldInv, H!AskPause, H!Serve, H!TypeOK, StoresSeen, H!loop, H!script, H!past, Serving, H!Places,
       H!FrameCode, H!Held
  <1>4. Serving'
    BY DEF HoldInv, H!AskPause, H!Serve, H!TypeOK, StoresSeen, Serving, H!Idle, H!Request, H!Alone, H!loop,
       H!script, H!past, H!Frames, H!Places, H!FrameCode, H!Held
  <1>5. Pressing'
    BY HoldBounds DEF HoldInv, H!AskPause, H!Serve, H!TypeOK, StoresSeen, Serving, Pressing, InFrame, H!Alone,
       H!Request, H!Idle, H!ParameterAssumption, H!loop, H!script, H!past, H!Frames, H!Places, H!FrameCode,
        H!Held
  <1>6. Stepping'
    BY DEF HoldInv, H!AskPause, H!Serve, H!TypeOK, StoresSeen, Serving, Stepping, Owed, H!Alone, H!Request,
       H!Idle, H!loop, H!script, H!past, H!Frames, H!Places, H!FrameCode, H!Held
  <1> QED BY <1>1, <1>2, <1>3, <1>4, <1>5, <1>6 DEF HoldInv

LEMMA AskResumeKeeps ==
  ASSUME HoldInv, H!AskResume
  PROVE  HoldInv'
  <1>1. H!TypeOK'
    <2>1. /\ fast' \in Fast /\ overlap' \in Overlap /\ place' \in H!Places /\ frozen' \in BOOLEAN /\ shown' \in BOOLEAN
          /\ armed' \in BOOLEAN /\ armedOnce' \in BOOLEAN /\ (armed' => armedOnce') /\ paused' \in BOOLEAN
          /\ buttons' \in {"held", "pressed"}
      BY DEF HoldInv, H!AskResume, H!Serve, H!TypeOK, H!loop, H!script, H!past, H!Places, H!FrameCode, H!Held
    <2>2. stepLeft' \in -1..MaxFrames /\ pressLeft' \in 0..MaxFrames /\ seen' \in 0..MaxFrames
      BY HoldBounds DEF HoldInv, H!AskResume, H!Serve, H!TypeOK, H!Frames, H!ParameterAssumption, H!loop,
         H!script, H!past
    <2>3. http' \in H!Request
      BY HoldBounds DEF HoldInv, H!AskResume, H!Serve, H!TypeOK, H!Idle, H!Request, H!Frames,
         H!ParameterAssumption, H!loop, H!script, H!past
    <2>4. asked' \in 0..MaxFrames /\ saw' \in 0..(MaxFrames + 1) /\ budget' \in -1..MaxFrames
      BY HoldBounds DEF HoldInv, H!AskResume, H!Serve, H!TypeOK, H!Request, H!Frames, H!ParameterAssumption,
         H!loop, H!script, H!past
    <2> QED BY <2>1, <2>2, <2>3, <2>4 DEF H!TypeOK
  <1>2. TimerKept'
    BY DEF HoldInv, H!AskResume, H!Serve, H!TypeOK, TimerKept, H!loop, H!script, H!past, H!Places,
       H!FrameCode, H!Held
  <1>3. StoresSeen'
    BY DEF HoldInv, H!AskResume, H!Serve, H!TypeOK, StoresSeen, H!loop, H!script, H!past, Serving, H!Places,
       H!FrameCode, H!Held
  <1>4. Serving'
    BY DEF HoldInv, H!AskResume, H!Serve, H!TypeOK, StoresSeen, Serving, H!Idle, H!Request, H!Alone, H!loop,
       H!script, H!past, H!Frames, H!Places, H!FrameCode, H!Held
  <1>5. Pressing'
    BY HoldBounds DEF HoldInv, H!AskResume, H!Serve, H!TypeOK, StoresSeen, Serving, Pressing, InFrame,
       H!Alone, H!Request, H!Idle, H!ParameterAssumption, H!loop, H!script, H!past, H!Frames, H!Places,
        H!FrameCode, H!Held
  <1>6. Stepping'
    BY DEF HoldInv, H!AskResume, H!Serve, H!TypeOK, StoresSeen, Serving, Stepping, Owed, H!Alone, H!Request,
       H!Idle, H!loop, H!script, H!past, H!Frames, H!Places, H!FrameCode, H!Held
  <1> QED BY <1>1, <1>2, <1>3, <1>4, <1>5, <1>6 DEF HoldInv

LEMMA AskHoldKeeps ==
  ASSUME HoldInv, H!AskHold
  PROVE  HoldInv'
  <1>1. H!TypeOK'
    BY HoldBounds DEF HoldInv, H!AskHold, H!Serve, H!TypeOK, StoresSeen, H!Request, H!Frames,
       H!ParameterAssumption, H!loop, H!script, H!past, H!Places, H!FrameCode, H!Held
  <1>2. TimerKept'
    BY DEF HoldInv, H!AskHold, H!Serve, H!TypeOK, TimerKept, H!loop, H!script, H!past, H!Places, H!FrameCode,
       H!Held
  <1>3. StoresSeen'
    BY DEF HoldInv, H!AskHold, H!Serve, H!TypeOK, StoresSeen, H!loop, H!script, H!past, Serving, H!Places,
       H!FrameCode, H!Held
  <1>4. Serving'
    BY DEF HoldInv, H!AskHold, H!Serve, H!TypeOK, StoresSeen, Serving, H!Idle, H!Request, H!Alone, H!loop,
       H!script, H!past, H!Frames, H!Places, H!FrameCode, H!Held
  <1>5. Pressing'
    BY HoldBounds DEF HoldInv, H!AskHold, H!Serve, H!TypeOK, StoresSeen, Serving, Pressing, InFrame, H!Alone,
       H!Request, H!Idle, H!ParameterAssumption, H!loop, H!script, H!past, H!Frames, H!Places, H!FrameCode,
        H!Held
  <1>6. Stepping'
    BY DEF HoldInv, H!AskHold, H!Serve, H!TypeOK, StoresSeen, Serving, Stepping, Owed, H!Alone, H!Request,
       H!Idle, H!loop, H!script, H!past, H!Frames, H!Places, H!FrameCode, H!Held
  <1> QED BY <1>1, <1>2, <1>3, <1>4, <1>5, <1>6 DEF HoldInv

LEMMA AskStepKeeps ==
  ASSUME HoldInv, NEW n \in H!Frames, H!AskStep(n)
  PROVE  HoldInv'
  <1>1. H!TypeOK'
    BY HoldBounds DEF HoldInv, H!AskStep, H!Serve, H!TypeOK, StoresSeen, H!Request, H!Frames,
       H!ParameterAssumption, H!loop, H!script, H!past, H!Places, H!FrameCode, H!Held
  <1>2. TimerKept'
    BY DEF HoldInv, H!AskStep, H!Serve, H!TypeOK, TimerKept, H!loop, H!script, H!past, H!Places, H!FrameCode,
       H!Held
  <1>3. StoresSeen'
    BY DEF HoldInv, H!AskStep, H!Serve, H!TypeOK, StoresSeen, H!loop, H!script, H!past, Serving, H!Places,
       H!FrameCode, H!Held
  <1>4. Serving'
    BY DEF HoldInv, H!AskStep, H!Serve, H!TypeOK, StoresSeen, Serving, H!Idle, H!Request, H!Alone, H!loop,
       H!script, H!past, H!Frames, H!Places, H!FrameCode, H!Held
  <1>5. Pressing'
    BY HoldBounds DEF HoldInv, H!AskStep, H!Serve, H!TypeOK, StoresSeen, Serving, Pressing, InFrame, H!Alone,
       H!Request, H!Idle, H!ParameterAssumption, H!loop, H!script, H!past, H!Frames, H!Places, H!FrameCode,
        H!Held
  <1>6. Stepping'
    BY DEF HoldInv, H!AskStep, H!Serve, H!TypeOK, StoresSeen, Serving, Stepping, Owed, H!Alone, H!Request,
       H!Idle, H!loop, H!script, H!past, H!Frames, H!Places, H!FrameCode, H!Held
  <1> QED BY <1>1, <1>2, <1>3, <1>4, <1>5, <1>6 DEF HoldInv

LEMMA AskPressKeeps ==
  ASSUME HoldInv, NEW n \in H!Frames, H!AskPress(n)
  PROVE  HoldInv'
  <1>1. H!TypeOK'
    BY HoldBounds DEF HoldInv, H!AskPress, H!Serve, H!TypeOK, StoresSeen, H!Request, H!Frames,
       H!ParameterAssumption, H!loop, H!script, H!past, H!Places, H!FrameCode, H!Held
  <1>2. TimerKept'
    BY DEF HoldInv, H!AskPress, H!Serve, H!TypeOK, TimerKept, H!loop, H!script, H!past, H!Places, H!FrameCode,
       H!Held
  <1>3. StoresSeen'
    BY DEF HoldInv, H!AskPress, H!Serve, H!TypeOK, StoresSeen, H!loop, H!script, H!past, Serving, H!Places,
       H!FrameCode, H!Held
  <1>4. Serving'
    BY DEF HoldInv, H!AskPress, H!Serve, H!TypeOK, StoresSeen, Serving, H!Idle, H!Request, H!Alone, H!loop,
       H!script, H!past, H!Frames, H!Places, H!FrameCode, H!Held
  <1>5. Pressing'
    BY HoldBounds DEF HoldInv, H!AskPress, H!Serve, H!TypeOK, StoresSeen, Serving, Pressing, InFrame, H!Alone,
       H!Request, H!Idle, H!ParameterAssumption, H!loop, H!script, H!past, H!Frames, H!Places, H!FrameCode,
        H!Held
  <1>6. Stepping'
    BY DEF HoldInv, H!AskPress, H!Serve, H!TypeOK, StoresSeen, Serving, Stepping, Owed, H!Alone, H!Request,
       H!Idle, H!loop, H!script, H!past, H!Frames, H!Places, H!FrameCode, H!Held
  <1> QED BY <1>1, <1>2, <1>3, <1>4, <1>5, <1>6 DEF HoldInv

LEMMA FinishKeeps ==
  ASSUME HoldInv, H!Finish
  PROVE  HoldInv'
  <1>1. H!TypeOK'
    <2>1. /\ fast' \in Fast /\ overlap' \in Overlap /\ place' \in H!Places /\ frozen' \in BOOLEAN /\ shown' \in BOOLEAN
          /\ armed' \in BOOLEAN /\ armedOnce' \in BOOLEAN /\ (armed' => armedOnce') /\ paused' \in BOOLEAN
          /\ buttons' \in {"held", "pressed"}
      BY DEF HoldInv, H!Finish, H!TypeOK, H!loop, H!script, H!past, H!Places, H!FrameCode, H!Held
    <2>2. stepLeft' \in -1..MaxFrames /\ pressLeft' \in 0..MaxFrames /\ seen' \in 0..MaxFrames
      BY HoldBounds DEF HoldInv, H!Finish, H!TypeOK, H!Frames, H!ParameterAssumption, H!loop, H!script, H!past
    <2>3. http' \in H!Request
      BY HoldBounds DEF HoldInv, H!Finish, H!TypeOK, H!Idle, H!Request, H!Frames, H!ParameterAssumption,
         H!loop, H!script, H!past
    <2>4. asked' \in 0..MaxFrames /\ saw' \in 0..(MaxFrames + 1) /\ budget' \in -1..MaxFrames
      BY HoldBounds DEF HoldInv, H!Finish, H!TypeOK, H!Request, H!Frames, H!ParameterAssumption, H!loop,
         H!script, H!past
    <2> QED BY <2>1, <2>2, <2>3, <2>4 DEF H!TypeOK
  <1>2. TimerKept'
    BY DEF HoldInv, H!Finish, H!TypeOK, TimerKept, H!loop, H!script, H!past, H!Places, H!FrameCode, H!Held
  <1>3. StoresSeen'
    BY DEF HoldInv, H!Finish, H!TypeOK, StoresSeen, H!loop, H!script, H!past, Serving, H!Places, H!FrameCode,
       H!Held
  <1>4. Serving'
    BY DEF HoldInv, H!Finish, H!TypeOK, StoresSeen, Serving, H!Idle, H!Request, H!Alone, H!loop, H!script,
       H!past, H!Frames, H!Places, H!FrameCode, H!Held
  <1>5. Pressing'
    BY HoldBounds DEF HoldInv, H!Finish, H!TypeOK, StoresSeen, Serving, Pressing, InFrame, H!Alone, H!Request,
       H!Idle, H!ParameterAssumption, H!loop, H!script, H!past, H!Frames, H!Places, H!FrameCode, H!Held
  <1>6. Stepping'
    BY DEF HoldInv, H!Finish, H!TypeOK, StoresSeen, Serving, Stepping, Owed, H!Alone, H!Request, H!Idle,
       H!loop, H!script, H!past, H!Frames, H!Places, H!FrameCode, H!Held
  <1> QED BY <1>1, <1>2, <1>3, <1>4, <1>5, <1>6 DEF HoldInv

\* The first states satisfy the invariant ...
LEMMA HoldBegins == H!Init => HoldInv
  <1> SUFFICES ASSUME H!Init PROVE HoldInv
    OBVIOUS
  <1>1. H!TypeOK
    <2>1. /\ -1 \in -1..MaxFrames /\ 0 \in 0..MaxFrames /\ 0 \in 0..(MaxFrames + 1)
      BY HoldBounds DEF H!ParameterAssumption
    <2>2. http \in H!Request
      BY <2>1 DEF H!Init, H!Idle, H!Request
    <2> QED BY <2>1, <2>2 DEF H!Init, H!TypeOK, H!Places
  <1>2. TimerKept /\ StoresSeen /\ Serving /\ Pressing /\ Stepping
    BY DEF H!Init, TimerKept, StoresSeen, Serving, Pressing, Stepping, Owed, InFrame, H!Idle, H!FrameCode,
       H!Held
  <1> QED BY <1>1, <1>2 DEF HoldInv

\* ... and every step of the loop and of the channel keeps it.
LEMMA HoldStep == HoldInv /\ [H!Next]_hold => HoldInv'
  <1> SUFFICES ASSUME HoldInv, [H!Next]_hold PROVE HoldInv'
    OBVIOUS
  <1>1. CASE H!FrameLoop
    BY <1>1, FreezeKeeps, BeginKeeps, BreakKeeps, UnbreakKeeps, ParksKeeps, PresentKeeps, PaceKeeps,
       UnholdKeeps,
       AfterKeeps, AudioKeeps, PressLoadKeeps, PressStoreKeeps, ReleaseKeeps, StepLoadKeeps, StepStoreKeeps,
       StepClearKeeps, StepHoldKeeps DEF H!FrameLoop
  <1>2. CASE H!Channel
    <2>1. ASSUME NEW n \in H!Frames, H!AskStep(n) \/ H!AskPress(n) PROVE HoldInv'
      BY <2>1, AskStepKeeps, AskPressKeeps
    <2> QED BY <1>2, <2>1, AskPauseKeeps, AskResumeKeeps, AskHoldKeeps, FinishKeeps DEF H!Channel
  <1>3. CASE UNCHANGED hold
    <2>1. H!TypeOK' /\ TimerKept' /\ StoresSeen'
      BY <1>3 DEF HoldInv, hold, H!loop, H!script, H!past, H!TypeOK, TimerKept, StoresSeen
    <2>2. Serving' /\ Pressing' /\ Stepping'
      BY <1>3 DEF HoldInv, hold, H!loop, H!script, H!past, Serving, Pressing, Stepping, Owed, InFrame
    <2> QED BY <2>1, <2>2 DEF HoldInv
  <1> QED BY <1>1, <1>2, <1>3 DEF H!Next

\* What the run checks of the script follows from it.
LEMMA HoldImplied == HoldInv => H!TypeOK /\ H!WatchKept /\ H!PressKept
  <1> SUFFICES ASSUME HoldInv PROVE H!TypeOK /\ H!WatchKept /\ H!PressKept
    OBVIOUS
  <1>1. H!WatchKept
    BY DEF HoldInv, TimerKept, H!WatchKept, H!FrameCode, H!Held
  <1>2. H!PressKept
    BY DEF HoldInv, Pressing, H!PressKept, H!PressReleased, H!Idle
  <1> QED BY <1>1, <1>2 DEF HoldInv

\* A game frame only begins while the step has one left.
LEMMA StepBeginsStep == HoldInv /\ [H!Next]_hold => H!StepBegins
  <1> SUFFICES ASSUME HoldInv, [H!Next]_hold, ~overlap, ~fast, H!Begin PROVE budget # 0
    BY DEF H!StepBegins
  <1>1. place = "top" /\ place' # place
    BY DEF H!Begin
  <1>2. H!Alone
    BY <1>1 DEF H!Next, hold, H!loop, H!FrameLoop, H!Channel, H!AskStep, H!AskPress, H!AskPause, H!AskResume,
       H!AskHold, H!Finish, H!Serve
  <1>3. http.op # "step"
    BY <1>2 DEF H!Alone, H!Idle
  <1> QED BY <1>1, <1>3 DEF HoldInv, Stepping, Owed

-----------------------------------------------------------------------------
(* The benches, and the theorems. *)

\* What each bench's specification says of its component.
LEMMA CallsRun == FlowSpec => C!Init /\ [][C!Next]_calls
  <1>1. FlowInit => C!Init
    BY DEF FlowInit
  <1>2. [FlowNext]_<<bench, vars, calls, loop, hold>> => [C!Next]_calls
    BY DEF FlowNext
  <1> QED BY <1>1, <1>2, PTL DEF FlowSpec

\* So for the frame loop.
LEMMA LoopRuns == FlowSpec => L!Init /\ [][L!Next]_loop
  <1>1. FlowInit => L!Init
    BY DEF FlowInit
  <1>2. [FlowNext]_<<bench, vars, calls, loop, hold>> => [L!Next]_loop
    BY DEF FlowNext
  <1> QED BY <1>1, <1>2, PTL DEF FlowSpec

\* So for the script.
LEMMA HoldRuns == FlowSpec => H!Init /\ [][H!Next]_hold
  <1>1. FlowInit => H!Init
    BY DEF FlowInit
  <1>2. [FlowNext]_<<bench, vars, calls, loop, hold>> => [H!Next]_hold
    BY DEF FlowNext
  <1> QED BY <1>1, <1>2, PTL DEF FlowSpec

\* The calls' inductive invariant holds of every behaviour of the benches.
THEOREM CallsInvariant == FlowSpec => []CallsInv
  BY CallsBegin, CallsStep, CallsRun, PTL

\* Whatever calls, jumps, continuations, exits, loads, vectors and restarts come, for any depth of the
\* stacks: the frames are exactly the bodies the thread is inside (guest_runtime.cpp:332), runs and bodies
\* alternate, and no body or vector reaches the executor with a context of an earlier image.
THEOREM CallsHold == FlowSpec => []CallsOK
  BY CallsInvariant, CallsImplied, PTL DEF CallsOK

\* A body's end is one return to the guest, however it came about; an exit unwinds the thread and runs
\* no more guest code on it; a vector leaves the parked flow as it was.
THEOREM CallsUnwindHolds == FlowSpec => CallsUnwind
  <1>1. CallsInv /\ [C!Next]_calls => [\A t \in C!Thread :
             /\ C!Inside(t) /\ Len(stack'[t]) < Len(stack[t])
             /\ ~C!Top(t).exit /\ ~C!Top(t).cont
             => a7' = IF C!Top(t).owed THEN C!Top(t).base - 1 ELSE C!Below(t).stop]_calls
    BY ReturnsOwedStep DEF calls
  <1>2. CallsInv /\ [C!Next]_calls => [\A t \in C!Thread : C!Leaving(t) =>
             /\ Len(stack'[t]) <= Len(stack[t]) /\ runs' \in {t, "host"}
             /\ stack'[t] = <<>> \/ C!Leaving(t)']_calls
    BY HostExitStep DEF calls
  <1>3. CallsInv /\ [C!Next]_calls => [stack["host"] # <<>> =>
             /\ stack'["game"] = stack["game"] /\ frames'["game"] = frames["game"]
             /\ stack'["host"] = <<>> => a7' = stack["host"][1].stop]_calls
    BY VectorsStep DEF calls
  <1> QED BY <1>1, <1>2, <1>3, CallsInvariant, CallsRun, PTL
          DEF CallsUnwind, C!CallsUnwind, C!ReturnsOwed, C!HostExitUnwinds, C!VectorsLeaveFlow, C!vars, calls

\* The frame loop's inductive invariant holds.
THEOREM LoopInvariant == FlowSpec => []LoopInv
  BY LoopBegins, LoopStep, LoopRuns, PTL

\* No restart path leaves a flow that has returned, a flow whose image was replaced is replaced itself,
\* a released flow runs the program that is in memory and that the executor takes it for, and every
\* complete save file can be resumed (savestate.c:157).
THEOREM LoopHolds == FlowSpec => []LoopOK
  BY LoopInvariant, LoopImplied, PTL DEF LoopOK

\* The program does not end while a game start or a title restart is pending, except as the player asks.
THEOREM HandOffSurvives == FlowSpec => HandOffSurvivesOldFlow
  <1>1. LoopInv /\ [L!Next]_loop => [at = "decide" /\ at' # at /\ ret' => ~req.gameplay /\ ~req.title]_loop
    BY HandOffStep
  <1> QED BY <1>1, LoopInvariant, LoopRuns, PTL DEF HandOffSurvivesOldFlow, L!HandOffSurvivesOldFlow, L!vars,
             loop

\* The script's inductive invariant holds.
THEOREM HoldInvariant == FlowSpec => []HoldInv
  BY HoldBegins, HoldStep, HoldRuns, PTL

\* The watchdog stands down for every hold and for nothing else (hw.c:521), requests overlapping or not;
\* when they do not, a press is always released and seen for no more frames than asked.
THEOREM HoldHolds == FlowSpec => []HoldOK
  <1>1. HoldInv => HoldOK
    BY HoldImplied DEF HoldOK
  <1> QED BY <1>1, HoldInvariant, PTL

\* From a hold, /step?frames=N lets N game frames begin and no more: the safety half of HoldEnds.
THEOREM StepsKept == FlowSpec => [][H!StepBegins]_hold
  <1>1. HoldInv /\ [H!Next]_hold => [H!StepBegins]_hold
    BY StepBeginsStep
  <1> QED BY <1>1, HoldInvariant, HoldRuns, PTL
=============================================================================
