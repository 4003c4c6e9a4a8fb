--------------------------- MODULE CommonProofs ---------------------------
(***************************************************************************)
(* Facts the proofs of several clients rest on: what pn_collector_put and  *)
(* popping the oldest event do to the events that wait, and what happens   *)
(* to a sum (pn_session_outgoing_bytes() is one) when one term changes.    *)
(***************************************************************************)
EXTENDS Collector, FiniteSetTheorems, TLAPS

\* pn_collector_put keeps the queue a queue of events.
LEMMA PutType ==
  ASSUME NEW S, NEW q \in Seq(S), NEW e \in S
  PROVE  Put(q, e) \in Seq(S)
BY DEF Put

\* Position by position: the old queue, then possibly the new event.
LEMMA PutShape ==
  ASSUME NEW S, NEW q \in Seq(S), NEW e \in S
  PROVE  \/ Put(q, e) = q /\ Len(q) \in 1..Len(q) /\ q[Len(q)] = e
         \/ /\ Len(Put(q, e)) = Len(q) + 1
            /\ \A i \in 1..Len(q) : Put(q, e)[i] = q[i]
            /\ Put(q, e)[Len(q) + 1] = e
BY DEF Put

\* After a put the events waiting are those that were, and the new one.
LEMMA PutQueued ==
  ASSUME NEW S, NEW q \in Seq(S), NEW e \in S, NEW f
  PROVE  Queued(f, Put(q, e)) <=> Queued(f, q) \/ f = e
<1>1. CASE Put(q, e) = q /\ Len(q) \in 1..Len(q) /\ q[Len(q)] = e
  BY <1>1 DEF Queued
<1>2. CASE /\ Len(Put(q, e)) = Len(q) + 1
           /\ \A i \in 1..Len(q) : Put(q, e)[i] = q[i]
           /\ Put(q, e)[Len(q) + 1] = e
  <2>1. \A i \in 1..Len(q) : i \in 1..Len(q) + 1
    OBVIOUS
  <2>2. \A i \in 1..Len(q) + 1 : i \in 1..Len(q) \/ i = Len(q) + 1
    OBVIOUS
  <2>3. Len(q) + 1 \in 1..Len(q) + 1
    OBVIOUS
  <2>4. QED
    BY <1>2, <2>1, <2>2, <2>3 DEF Queued
<1>3. QED
  BY <1>1, <1>2, PutShape

\* A put repeats no event but possibly the one it puts.
LEMMA PutOnce ==
  ASSUME NEW S, NEW q \in Seq(S), NEW e \in S, NEW f,
         Once(f, q), f = e => ~Queued(f, q)
  PROVE  Once(f, Put(q, e))
<1>1. CASE Put(q, e) = q /\ Len(q) \in 1..Len(q) /\ q[Len(q)] = e
  BY <1>1
<1>2. CASE /\ Len(Put(q, e)) = Len(q) + 1
           /\ \A i \in 1..Len(q) : Put(q, e)[i] = q[i]
           /\ Put(q, e)[Len(q) + 1] = e
  BY <1>2 DEF Once, Queued
<1>3. QED
  BY <1>1, <1>2, PutShape

\* Popping the oldest event moves the others up by one.
LEMMA TailShape ==
  ASSUME NEW S, NEW q \in Seq(S), q # <<>>
  PROVE  /\ Tail(q) \in Seq(S)
         /\ Head(q) \in S /\ Head(q) = q[1]
         /\ Len(q) \in Nat \ {0}
         /\ Len(Tail(q)) = Len(q) - 1
         /\ \A i \in 1..Len(Tail(q)) : Tail(q)[i] = q[i + 1]
OBVIOUS

\* After the pop an event waits only if it did before.
LEMMA TailQueued ==
  ASSUME NEW S, NEW q \in Seq(S), q # <<>>, NEW f
  PROVE  /\ Queued(f, Tail(q)) => Queued(f, q)
         /\ Queued(f, q) /\ f # Head(q) => Queued(f, Tail(q))
<1>1. ASSUME NEW i \in 1..Len(Tail(q)), Tail(q)[i] = f PROVE Queued(f, q)
  <2>1. i + 1 \in 1..Len(q) /\ q[i + 1] = f
    BY <1>1, TailShape
  <2>2. QED
    BY <2>1 DEF Queued
<1>2. ASSUME NEW i \in 1..Len(q), q[i] = f, f # Head(q) PROVE Queued(f, Tail(q))
  <2>1. i # 1
    BY <1>2, TailShape
  <2>2. i - 1 \in 1..Len(Tail(q))
    BY <2>1, TailShape
  <2>3. Tail(q)[i - 1] = q[i]
    BY <2>2, TailShape
  <2>4. QED
    BY <1>2, <2>2, <2>3 DEF Queued
<1>3. QED
  BY <1>1, <1>2 DEF Queued

\* Nothing waits twice after a pop that did not before, and an event that
\* waited once does not wait any more after it is popped.
LEMMA TailOnce ==
  ASSUME NEW S, NEW q \in Seq(S), q # <<>>, NEW f, Once(f, q)
  PROVE  /\ Once(f, Tail(q))
         /\ f = Head(q) => ~Queued(f, Tail(q))
<1>1. ASSUME NEW i \in 1..Len(Tail(q)), NEW j \in 1..Len(Tail(q)),
             Tail(q)[i] = f, Tail(q)[j] = f
      PROVE  i = j
  <2>1. i + 1 \in 1..Len(q) /\ j + 1 \in 1..Len(q) /\ q[i + 1] = f /\ q[j + 1] = f
    BY <1>1, TailShape
  <2>2. i + 1 = j + 1
    BY <2>1 DEF Once
  <2>3. QED
    BY <2>2
<1>2. ASSUME f = Head(q), NEW i \in 1..Len(Tail(q)), Tail(q)[i] = f PROVE FALSE
  <2>1. i + 1 \in 1..Len(q) /\ 1 \in 1..Len(q) /\ q[i + 1] = f /\ q[1] = f
    BY <1>2, TailShape
  <2>2. i + 1 = 1
    BY <2>1 DEF Once
  <2>3. QED
    BY <2>2
<1>3. QED
  BY <1>1, <1>2 DEF Once, Queued

\* The same for an event that a handler raises.
LEMMA AppendQueued ==
  ASSUME NEW S, NEW q \in Seq(S), NEW e \in S, NEW f
  PROVE  /\ Append(q, e) \in Seq(S)
         /\ Queued(f, Append(q, e)) <=> Queued(f, q) \/ f = e
         /\ Once(f, q) /\ (f = e => ~Queued(f, q)) => Once(f, Append(q, e))
<1>1. /\ Append(q, e) \in Seq(S) /\ Len(Append(q, e)) = Len(q) + 1 /\ Len(q) \in Nat
      /\ \A i \in 1..Len(q) : Append(q, e)[i] = q[i]
      /\ Append(q, e)[Len(q) + 1] = e
  OBVIOUS
<1>2. \A i : i \in 1..Len(q) + 1 <=> i \in 1..Len(q) \/ i = Len(q) + 1
  BY <1>1
<1>3. Queued(f, Append(q, e)) <=> Queued(f, q) \/ f = e
  BY <1>1, <1>2 DEF Queued
<1>4. ASSUME Once(f, q), f = e => ~Queued(f, q) PROVE Once(f, Append(q, e))
  BY <1>1, <1>2, <1>4 DEF Once, Queued
<1>5. QED
  BY <1>1, <1>3, <1>4

-----------------------------------------------------------------------------
\* How many events of a type are waiting.
EventsOf(type, q) == {i \in 1..Len(q) : q[i].type = type}

LEMMA EventsFinite ==
  ASSUME NEW S, NEW q \in Seq(S), NEW type
  PROVE  IsFiniteSet(EventsOf(type, q)) /\ Cardinality(EventsOf(type, q)) \in Nat
<1>1. Len(q) \in Nat
  OBVIOUS
<1>2. IsFiniteSet(1..Len(q))
  BY <1>1, FS_Interval
<1>3. EventsOf(type, q) \subseteq 1..Len(q)
  BY DEF EventsOf
<1>4. QED
  BY <1>2, <1>3, FS_Subset, FS_CardinalityType

\* A put adds at most the new event.
LEMMA PutCount ==
  ASSUME NEW S, NEW q \in Seq(S), NEW e \in S, NEW type
  PROVE  /\ Cardinality(EventsOf(type, Put(q, e))) <= Cardinality(EventsOf(type, q)) + 1
         /\ e.type # type => Cardinality(EventsOf(type, Put(q, e))) = Cardinality(EventsOf(type, q))
<1>0. PICK n : n = Len(q)
  OBVIOUS
<1>1. IsFiniteSet(EventsOf(type, q)) /\ Cardinality(EventsOf(type, q)) \in Nat /\ n \in Nat
  BY <1>0, EventsFinite
<1>2. CASE Put(q, e) = q
  BY <1>1, <1>2
<1>3. CASE /\ Len(Put(q, e)) = n + 1
           /\ \A i \in 1..n : Put(q, e)[i] = q[i]
           /\ Put(q, e)[n + 1] = e
  <2>1. \A i : i \in 1..(n + 1) <=> i \in 1..n \/ i = n + 1
    BY <1>1
  <2>2. n + 1 \notin EventsOf(type, q)
    BY <1>0, <1>1 DEF EventsOf
  <2>3. EventsOf(type, Put(q, e)) =
          IF e.type = type THEN EventsOf(type, q) \union {n + 1} ELSE EventsOf(type, q)
    BY <1>0, <1>3, <2>1 DEF EventsOf
  <2>4. Cardinality(EventsOf(type, q) \union {n + 1}) = Cardinality(EventsOf(type, q)) + 1
    BY <1>1, <2>2, FS_AddElement
  <2>5. QED
    BY <1>1, <2>3, <2>4
<1>4. QED
  BY <1>0, <1>2, <1>3, PutShape

\* A handled event is one less.
LEMMA TailCount ==
  ASSUME NEW S, NEW q \in Seq(S), q # <<>>, NEW type
  PROVE  /\ Cardinality(EventsOf(type, Tail(q))) <= Cardinality(EventsOf(type, q))
         /\ Head(q).type = type =>
              Cardinality(EventsOf(type, Tail(q))) + 1 <= Cardinality(EventsOf(type, q))
<1>0. PICK n : n = Len(q)
  OBVIOUS
<1>1. /\ n \in Nat \ {0} /\ Len(Tail(q)) = n - 1 /\ Tail(q) \in Seq(S) /\ Head(q) = q[1]
      /\ \A i \in 1..(n - 1) : Tail(q)[i] = q[i + 1]
  BY <1>0, TailShape
<1>2. PICK A, B : A = EventsOf(type, Tail(q)) /\ B = EventsOf(type, q)
  OBVIOUS
<1>3. /\ IsFiniteSet(B) /\ Cardinality(B) \in Nat
      /\ IsFiniteSet(A) /\ Cardinality(A) \in Nat
  BY <1>1, <1>2, EventsFinite
<1>4. \A i \in A : i \in Nat /\ i + 1 \in B \ {1}
  <2>1. \A i \in 1..(n - 1) : i \in Nat /\ i + 1 \in 1..n /\ i + 1 # 1
    BY <1>1
  <2>2. QED
    BY <1>0, <1>1, <1>2, <2>1 DEF EventsOf
<1>5. PICK f : f = [i \in A |-> i + 1]
  OBVIOUS
<1>6. f \in Injection(A, B \ {1})
  <2>1. f \in [A -> B \ {1}]
    BY <1>4, <1>5
  <2>2. \A i, j \in A : f[i] = f[j] => i = j
    BY <1>4, <1>5
  <2>3. QED
    BY <2>1, <2>2 DEF Injection, IsInjective
<1>7. IsFiniteSet(B \ {1})
  BY <1>3, FS_Subset
<1>8. Cardinality(A) <= Cardinality(B \ {1})
  BY <1>6, <1>7, FS_Injection
<1>9. IF 1 \in B THEN Cardinality(B \ {1}) = Cardinality(B) - 1 ELSE Cardinality(B \ {1}) = Cardinality(B)
  <2>1. CASE 1 \in B
    BY <1>3, <2>1, FS_RemoveElement
  <2>2. CASE 1 \notin B
    <3>1. B \ {1} = B
      BY <2>2
    <3>2. QED
      BY <2>2, <3>1
  <2>3. QED
    BY <2>1, <2>2
<1>10. Head(q).type = type => 1 \in B
  BY <1>0, <1>1, <1>2 DEF EventsOf
<1>11. Cardinality(A) <= Cardinality(B) /\ (1 \in B => Cardinality(A) + 1 <= Cardinality(B))
  BY <1>3, <1>8, <1>9
<1>12. QED
  BY <1>2, <1>10, <1>11

-----------------------------------------------------------------------------
\* Sums over a finite domain.

\* Induction over the natural numbers, for a set of them.
LEMMA NatStep ==
  ASSUME NEW T, 0 \in T, \A n \in Nat : n \in T => n + 1 \in T
  PROVE  Nat \subseteq T
<1>0. SUFFICES ASSUME Nat \ T # {} PROVE FALSE
  OBVIOUS
<1>1. PICK x \in Nat \ T : \A y \in Nat \ T : ~(<<y, x>> \in OpToRel(<, Nat))
  BY <1>0, NatLessThanWellFounded, WFMin
<1>2. \A y \in Nat \ T : ~(y < x)
  BY <1>1 DEF OpToRel
<1>3. x - 1 \in Nat /\ x - 1 < x
  OBVIOUS
<1>4. x - 1 \in T
  BY <1>2, <1>3
<1>5. QED
  BY <1>3, <1>4

\* SumFunction takes the terms of f one by one, in an order of its own: one
\* step, and a function g that gives what is summed of each subset of D.
SumStep(f, g, s) ==
  IF s = {} THEN 0 ELSE f[CHOOSE x \in s : TRUE] + g[s \ {CHOOSE x \in s : TRUE}]

SumFolds(g, f, D) ==
  /\ g \in [SUBSET D -> Nat]
  /\ SumFunction(f) = g[D]
  /\ \A s \in SUBSET D : g[s] = SumStep(f, g, s)

\* The term SumFunction takes next is one of those left.
LEMMA ChooseIn ==
  ASSUME NEW s, s # {}
  PROVE  (CHOOSE x \in s : TRUE) \in s
OBVIOUS

\* Over a finite domain there is such a function: the recursion ends.
LEMMA SumRecursion ==
  ASSUME NEW D, IsFiniteSet(D), NEW f \in [D -> Nat]
  PROVE  \E g : SumFolds(g, f, D)
<1> DEFINE Upto(n) == {s \in SUBSET D : Cardinality(s) <= n}
           T == {n \in Nat : \E g \in [SUBSET D -> Nat] : \A s \in Upto(n) : g[s] = SumStep(f, g, s)}
<1>1. \A s \in SUBSET D : IsFiniteSet(s) /\ Cardinality(s) \in Nat /\ Cardinality(s) <= Cardinality(D)
  BY FS_Subset, FS_CardinalityType
<1>2. \A s \in SUBSET D : s # {} =>
        LET c == CHOOSE x \in s : TRUE IN
        c \in D /\ s \ {c} \in SUBSET D /\ Cardinality(s \ {c}) = Cardinality(s) - 1
  BY <1>1, FS_RemoveElement, ChooseIn
<1>3. 0 \in T
  <2>1. [s \in SUBSET D |-> 0] \in [SUBSET D -> Nat]
    OBVIOUS
  <2>2. \A s \in Upto(0) : s = {}
    BY <1>1, FS_EmptySet
  <2>3. QED
    BY <2>1, <2>2 DEF SumStep
<1>4. ASSUME NEW n \in Nat, n \in T PROVE n + 1 \in T
  <2>1. PICK g \in [SUBSET D -> Nat] : \A s \in Upto(n) : g[s] = SumStep(f, g, s)
    BY <1>4
  <2> DEFINE h == [s \in SUBSET D |-> SumStep(f, g, s)]
  <2>2. h \in [SUBSET D -> Nat]
    BY <1>2 DEF SumStep
  <2>3. ASSUME NEW s \in Upto(n + 1) PROVE h[s] = SumStep(f, h, s)
    <3>1. CASE s = {}
      BY <3>1 DEF SumStep
    <3>2. CASE s # {}
      <4>1. PICK c : c = CHOOSE x \in s : TRUE
        OBVIOUS
      <4>2. s \ {c} \in Upto(n)
        BY <1>1, <1>2, <3>2, <4>1
      <4>3. h[s \ {c}] = g[s \ {c}]
        BY <2>1, <4>2
      <4>4. QED
        BY <3>2, <4>1, <4>3 DEF SumStep
    <3>3. QED
      BY <3>1, <3>2
  <2>4. \E k \in [SUBSET D -> Nat] : \A s \in Upto(n + 1) : k[s] = SumStep(f, k, s)
    <3> HIDE DEF h, Upto
    <3>1. QED
      BY <2>2, <2>3
  <2>5. QED
    BY <2>4
<1>5. Cardinality(D) \in T
  <2>1. Nat \subseteq T
    <3> HIDE DEF T
    <3>1. QED
      BY <1>3, <1>4, NatStep
  <2>2. QED
    BY <2>1, <1>1
<1>6. PICK g \in [SUBSET D -> Nat] : \A s \in SUBSET D : g[s] = SumStep(f, g, s)
  BY <1>1, <1>5
<1> DEFINE Def(h) == h = [s \in SUBSET D |-> SumStep(f, h, s)]
           iter == CHOOSE h : Def(h)
<1>7. Def(g)
  BY <1>6
<1>8. Def(iter)
  <2> HIDE DEF Def
  <2>1. QED
    BY <1>7
<1>9. SumFunction(f) = iter[D]
  <2>1. DOMAIN f = D
    OBVIOUS
  <2>2. QED
    BY <2>1 DEF SumFunction, SumFunctionOnSet, FoldFunctionOnSet, MapThenFoldSet, SumStep
<1>10. iter \in [SUBSET D -> Nat]
  <2> DEFINE U == {n \in Nat : \A s \in Upto(n) : iter[s] \in Nat}
  <2> HIDE DEF iter
  <2>0. \A s \in SUBSET D : iter[s] = SumStep(f, iter, s)
    BY <1>8
  <2>1. 0 \in U
    <3>1. \A s \in Upto(0) : s = {}
      BY <1>1, FS_EmptySet
    <3>2. QED
      BY <2>0, <3>1 DEF SumStep
  <2>2. ASSUME NEW n \in Nat, n \in U PROVE n + 1 \in U
    <3>1. SUFFICES ASSUME NEW s \in Upto(n + 1) PROVE iter[s] \in Nat
      OBVIOUS
    <3>2. CASE s = {}
      <4>1. iter[{}] = 0
        BY <2>0 DEF SumStep
      <4>2. QED
        BY <3>2, <4>1
    <3>3. CASE s # {}
      <4>1. PICK c : c = CHOOSE x \in s : TRUE
        OBVIOUS
      <4>2. s \ {c} \in Upto(n) /\ c \in D
        BY <1>1, <1>2, <3>3, <4>1
      <4>3. iter[s \ {c}] \in Nat
        BY <2>2, <4>2
      <4>4. iter[s] = f[c] + iter[s \ {c}]
        BY <2>0, <3>3, <4>1 DEF SumStep
      <4>5. f[c] \in Nat
        BY <4>2
      <4>6. QED
        BY <4>3, <4>4, <4>5
    <3>4. QED
      BY <3>2, <3>3
  <2>3. Nat \subseteq U
    <3> HIDE DEF U
    <3>1. QED
      BY <2>1, <2>2, NatStep
  <2>4. Cardinality(D) \in U
    BY <2>3, <1>1
  <2>5. \A s \in SUBSET D : iter[s] \in Nat
    BY <2>4, <1>1
  <2>6. QED
    BY <1>8, <2>5
<1>11. SumFolds(iter, f, D)
  <2> HIDE DEF iter
  <2>1. QED
    BY <1>8, <1>9, <1>10 DEF SumFolds
<1>12. QED
  BY <1>11

\* The partial sums of f: what a sum is, whatever the order of its terms.
PartialSums(g, f, D) ==
  /\ g \in [SUBSET D -> Nat]
  /\ g[{}] = 0
  /\ \A s \in SUBSET D : \A x \in s : g[s] = f[x] + g[s \ {x}]

\* The order in which SumFunction takes the terms does not matter.
LEMMA SumHasPartialSums ==
  ASSUME NEW D, IsFiniteSet(D), NEW f \in [D -> Nat]
  PROVE  \E g : PartialSums(g, f, D) /\ SumFunction(f) = g[D]
<1>0. PICK g : SumFolds(g, f, D)
  BY SumRecursion
<1>1. /\ g \in [SUBSET D -> Nat]
      /\ SumFunction(f) = g[D]
      /\ \A s \in SUBSET D : g[s] = SumStep(f, g, s)
  BY <1>0 DEF SumFolds
<1> DEFINE Upto(n) == {s \in SUBSET D : Cardinality(s) <= n}
           T == {n \in Nat : \A s \in Upto(n) : \A x \in s : g[s] = f[x] + g[s \ {x}]}
<1>2. \A s \in SUBSET D : IsFiniteSet(s) /\ Cardinality(s) \in Nat /\ Cardinality(s) <= Cardinality(D)
  BY FS_Subset, FS_CardinalityType
<1>3. \A s \in SUBSET D : \A x \in s :
        x \in D /\ s \ {x} \in SUBSET D /\ Cardinality(s \ {x}) = Cardinality(s) - 1
  BY <1>2, FS_RemoveElement
<1>4. \A s \in SUBSET D : s # {} =>
        \E c \in s : g[s] = f[c] + g[s \ {c}]
  BY <1>1, ChooseIn DEF SumStep
<1>5. 0 \in T
  <2>1. \A s \in Upto(0) : s = {}
    BY <1>2, FS_EmptySet
  <2>2. QED
    BY <2>1
<1>6. ASSUME NEW n \in Nat, n \in T PROVE n + 1 \in T
  <2>1. SUFFICES ASSUME NEW s \in Upto(n + 1), NEW x \in s PROVE g[s] = f[x] + g[s \ {x}]
    OBVIOUS
  <2>2. PICK c \in s : g[s] = f[c] + g[s \ {c}]
    BY <1>4
  <2>3. CASE c = x
    BY <2>2, <2>3
  <2>4. CASE c # x
    <3>1. s \ {c} \in Upto(n) /\ s \ {x} \in Upto(n)
      BY <1>2, <1>3
    <3>2. x \in s \ {c} /\ c \in s \ {x} /\ (s \ {c}) \ {x} = (s \ {x}) \ {c}
      BY <2>4
    <3>3. g[s \ {c}] = f[x] + g[(s \ {c}) \ {x}]
      BY <1>6, <3>1, <3>2
    <3>4. g[s \ {x}] = f[c] + g[(s \ {x}) \ {c}]
      BY <1>6, <3>1, <3>2
    <3>5. PICK r \in Nat : r = g[(s \ {c}) \ {x}]
      BY <1>1
    <3>6. f[x] \in Nat /\ f[c] \in Nat
      BY <1>3
    <3>7. g[s \ {c}] = f[x] + r /\ g[s \ {x}] = f[c] + r
      BY <3>2, <3>3, <3>4, <3>5
    <3>8. QED
      BY <2>2, <3>6, <3>7
  <2>5. QED
    BY <2>3, <2>4
<1>7. Nat \subseteq T
  <2> HIDE DEF T
  <2>1. QED
    BY <1>5, <1>6, NatStep
<1>8. \A s \in SUBSET D : \A x \in s : g[s] = f[x] + g[s \ {x}]
  <2>1. Cardinality(D) \in T
    BY <1>7, <1>2
  <2>2. QED
    BY <2>1, <1>2
<1>9. g[{}] = 0
  BY <1>1 DEF SumStep
<1>10. QED
  BY <1>1, <1>8, <1>9 DEF PartialSums

\* Functions that agree on s have the same sum over s.
LEMMA PartialSumsAgree ==
  ASSUME NEW D, IsFiniteSet(D), NEW f, NEW h, NEW g, NEW k,
         PartialSums(g, f, D), PartialSums(k, h, D),
         NEW s \in SUBSET D, \A x \in s : f[x] = h[x]
  PROVE  g[s] = k[s]
<1> DEFINE Upto(n) == {t \in SUBSET s : Cardinality(t) <= n}
           T == {n \in Nat : \A t \in Upto(n) : g[t] = k[t]}
<1>1. \A t \in SUBSET s : t \in SUBSET D /\ IsFiniteSet(t) /\ Cardinality(t) \in Nat
  BY FS_Subset, FS_CardinalityType
<1>2. \A t \in SUBSET s : \A x \in t : Cardinality(t \ {x}) = Cardinality(t) - 1
  BY <1>1, FS_RemoveElement
<1>3. 0 \in T
  <2>1. \A t \in Upto(0) : t = {}
    BY <1>1, FS_EmptySet
  <2>2. QED
    BY <2>1 DEF PartialSums
<1>4. ASSUME NEW n \in Nat, n \in T PROVE n + 1 \in T
  <2>1. SUFFICES ASSUME NEW t \in Upto(n + 1) PROVE g[t] = k[t]
    OBVIOUS
  <2>2. CASE t = {}
    BY <2>2 DEF PartialSums
  <2>3. ASSUME NEW x \in t PROVE g[t] = k[t]
    <3>1. t \ {x} \in Upto(n)
      BY <1>1, <1>2
    <3>2. g[t \ {x}] = k[t \ {x}]
      BY <1>4, <3>1
    <3>3. g[t] = f[x] + g[t \ {x}] /\ k[t] = h[x] + k[t \ {x}]
      BY <1>1 DEF PartialSums
    <3>4. QED
      BY <3>2, <3>3
  <2>4. QED
    BY <2>2, <2>3
<1>5. Nat \subseteq T
  <2> HIDE DEF T
  <2>1. QED
    BY <1>3, <1>4, NatStep
<1>6. Cardinality(s) \in T
  BY <1>1, <1>5
<1>7. QED
  BY <1>1, <1>6

\* A sum of natural numbers is one.
LEMMA SumType ==
  ASSUME NEW D, IsFiniteSet(D), NEW f \in [D -> Nat]
  PROVE  SumFunction(f) \in Nat
<1>1. PICK g : PartialSums(g, f, D) /\ SumFunction(f) = g[D]
  BY SumHasPartialSums
<1>2. QED
  BY <1>1 DEF PartialSums

\* No term exceeds the sum.
LEMMA SumAtLeast ==
  ASSUME NEW D, IsFiniteSet(D), NEW f \in [D -> Nat], NEW l \in D
  PROVE  f[l] <= SumFunction(f)
<1>1. PICK g : PartialSums(g, f, D) /\ SumFunction(f) = g[D]
  BY SumHasPartialSums
<1>2. g[D] = f[l] + g[D \ {l}] /\ g[D \ {l}] \in Nat
  BY <1>1 DEF PartialSums
<1>3. QED
  BY <1>1, <1>2

\* When one term changes, the sum changes by as much.
LEMMA SumExcept ==
  ASSUME NEW D, IsFiniteSet(D), NEW f \in [D -> Nat], NEW l \in D, NEW v \in Nat
  PROVE  SumFunction([f EXCEPT ![l] = v]) = SumFunction(f) - f[l] + v
<1>0. PICK h : h = [f EXCEPT ![l] = v]
  OBVIOUS
<1>1. h \in [D -> Nat]
  BY <1>0
<1>2. PICK g : PartialSums(g, f, D) /\ SumFunction(f) = g[D]
  BY SumHasPartialSums
<1>3. PICK k : PartialSums(k, h, D) /\ SumFunction(h) = k[D]
  BY <1>1, SumHasPartialSums
<1>4. D \ {l} \in SUBSET D /\ \A x \in D \ {l} : f[x] = h[x]
  BY <1>0
<1>5. g[D \ {l}] = k[D \ {l}]
  BY <1>2, <1>3, <1>4, PartialSumsAgree
<1>6. g[D] = f[l] + g[D \ {l}] /\ k[D] = h[l] + k[D \ {l}] /\ g[D \ {l}] \in Nat
  BY <1>2, <1>3 DEF PartialSums
<1>7. h[l] = v /\ f[l] \in Nat
  BY <1>0
<1>8. SumFunction(h) = SumFunction(f) - f[l] + v
  BY <1>2, <1>3, <1>5, <1>6, <1>7
<1>9. QED
  BY <1>0, <1>8

\* A sum of zeros is zero.
LEMMA SumZero ==
  ASSUME NEW D, IsFiniteSet(D), NEW f \in [D -> Nat], \A x \in D : f[x] = 0
  PROVE  SumFunction(f) = 0
<1>1. PICK g : PartialSums(g, f, D) /\ SumFunction(f) = g[D]
  BY SumHasPartialSums
<1> DEFINE k == [s \in SUBSET D |-> 0]
<1>2. PartialSums(k, f, D)
  BY DEF PartialSums
<1>3. g[D] = k[D]
  <2> HIDE DEF k
  <2>1. QED
    BY <1>1, <1>2, PartialSumsAgree
<1>4. QED
  BY <1>1, <1>3
=============================================================================
