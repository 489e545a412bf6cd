-------------------------- MODULE ChannelTheorems --------------------------
(* How often a value is found in a buffered channel, and in the hands of a   *)
(* set of goroutines, before and after a send, a receive or an assignment.   *)
EXTENDS Naturals, Sequences, FiniteSets, FiniteSetTheorems, TLAPS

\* Positions of channel s that hold x, and goroutines of W that f says hold x.
Slots(s, x) == {i \in 1 .. Len(s) : s[i] = x}
Holders(f, W, x) == {w \in W : f[w] = x}

\* 1 for two equal values, 0 for different ones.
Same(x, y) == IF x = y THEN 1 ELSE 0

LEMMA SameValue ==
  ASSUME NEW x, NEW y
  PROVE  /\ Same(x, y) \in {0, 1}
         /\ x = y => Same(x, y) = 1
         /\ x # y => Same(x, y) = 0
BY DEF Same

\* Both are finite, so their sizes are numbers.
LEMMA SlotsFinite ==
  ASSUME NEW S, NEW s \in Seq(S), NEW x
  PROVE  IsFiniteSet(Slots(s, x)) /\ Cardinality(Slots(s, x)) \in Nat
<1>1. Len(s) \in Nat
  OBVIOUS
<1>2. IsFiniteSet(1 .. Len(s))
  BY <1>1, FS_Interval
<1>3. Slots(s, x) \in SUBSET (1 .. Len(s))
  BY DEF Slots
<1>4. IsFiniteSet(Slots(s, x))
  BY <1>2, <1>3, FS_Subset
<1> QED
  BY <1>4, FS_CardinalityType

LEMMA HoldersFinite ==
  ASSUME NEW W, IsFiniteSet(W), NEW f, NEW x
  PROVE  IsFiniteSet(Holders(f, W, x)) /\ Cardinality(Holders(f, W, x)) \in Nat
<1>1. Holders(f, W, x) \in SUBSET W
  BY DEF Holders
<1>2. IsFiniteSet(Holders(f, W, x))
  BY <1>1, FS_Subset
<1> QED
  BY <1>2, FS_CardinalityType

\* A send adds one copy of what is sent.
LEMMA CountAppend ==
  ASSUME NEW S, NEW s \in Seq(S), NEW y \in S, NEW x
  PROVE  Cardinality(Slots(Append(s, y), x))
           = Cardinality(Slots(s, x)) + Same(x, y)
<1> DEFINE n == Len(s)
<1>1. n \in Nat /\ Len(Append(s, y)) = n + 1
  OBVIOUS
<1>2. \A i \in 1 .. n + 1 : Append(s, y)[i] = IF i = n + 1 THEN y ELSE s[i]
  OBVIOUS
<1>3. IsFiniteSet(Slots(s, x)) /\ Cardinality(Slots(s, x)) \in Nat
  BY SlotsFinite
<1>4. CASE x = y
  <2>1. Slots(Append(s, y), x) = Slots(s, x) \cup {n + 1}
    BY <1>1, <1>2, <1>4 DEF Slots
  <2>2. n + 1 \notin Slots(s, x)
    BY <1>1 DEF Slots
  <2> QED
    BY <1>3, <1>4, <2>1, <2>2, FS_AddElement DEF Same
<1>5. CASE x # y
  <2>1. Slots(Append(s, y), x) = Slots(s, x)
    BY <1>1, <1>2, <1>5 DEF Slots
  <2> QED
    BY <1>3, <1>5, <2>1 DEF Same
<1> QED
  BY <1>4, <1>5

\* A receive takes one copy of what is received.
LEMMA CountTail ==
  ASSUME NEW S, NEW s \in Seq(S), s # <<>>, NEW x
  PROVE  Cardinality(Slots(s, x))
           = Cardinality(Slots(Tail(s), x)) + Same(x, Head(s))
<1> DEFINE n == Len(s)
           A == Slots(Tail(s), x)
           B == Slots(s, x) \ {1}
           f == [i \in A |-> i + 1]
<1>1. /\ n \in Nat \ {0} /\ Tail(s) \in Seq(S) /\ Len(Tail(s)) = n - 1
      /\ Head(s) = s[1]
  OBVIOUS
<1>2. \A i \in 1 .. n - 1 : Tail(s)[i] = s[i + 1]
  OBVIOUS
<1>3. f \in Bijection(A, B)
  <2>1. \A i \in A : i \in 1 .. n - 1 /\ s[i + 1] = x
    BY <1>1, <1>2 DEF Slots
  <2>2. f \in [A -> B]
    BY <1>1, <2>1 DEF Slots
  <2>3. \A a, b \in A : f[a] = f[b] => a = b
    BY <1>1, <2>1
  <2>4. \A b \in B : b - 1 \in A /\ f[b - 1] = b
    BY <1>1, <1>2 DEF Slots
  <2> QED
    BY <2>2, <2>3, <2>4 DEF Bijection, Injection, IsInjective, Surjection
<1>4. IsFiniteSet(A) /\ Cardinality(A) \in Nat
  BY <1>1, SlotsFinite
<1>5. IsFiniteSet(B) /\ Cardinality(B) = Cardinality(A)
  BY <1>3, <1>4, FS_Bijection DEF ExistsBijection
<1>6. CASE x = Head(s)
  <2>1. Slots(s, x) = B \cup {1} /\ 1 \notin B
    BY <1>1, <1>6 DEF Slots
  <2>2. Same(x, Head(s)) = 1
    BY <1>6 DEF Same
  <2> HIDE DEF A, B
  <2>3. Cardinality(Slots(s, x)) = Cardinality(A) + 1
    BY <1>4, <1>5, <2>1, FS_AddElement
  <2> QED
    BY <2>2, <2>3 DEF A
<1>7. CASE x # Head(s)
  <2>1. Slots(s, x) = B
    BY <1>1, <1>7 DEF Slots
  <2> HIDE DEF B
  <2> QED
    BY <1>4, <1>5, <1>7, <2>1 DEF Same
<1> QED
  BY <1>6, <1>7

\* A goroutine w lets go of what it held and takes something else.
LEMMA CountUpdate ==
  ASSUME NEW W, IsFiniteSet(W), NEW f, NEW g, NEW w \in W, NEW x,
         \A o \in W \ {w} : g[o] = f[o]
  PROVE  Cardinality(Holders(g, W, x)) + Same(x, f[w])
           = Cardinality(Holders(f, W, x)) + Same(x, g[w])
<1> DEFINE R == Holders(f, W, x) \ {w}
<1>1. IsFiniteSet(Holders(f, W, x))
  BY HoldersFinite
<1>2. IsFiniteSet(R)
  BY <1>1, FS_RemoveElement
<1>3. Cardinality(R) \in Nat
  BY <1>2, FS_CardinalityType
<1>4. Cardinality(R \cup {w}) = Cardinality(R) + 1
  <2>1. w \notin R
    OBVIOUS
  <2> QED
    BY <1>2, <2>1, FS_AddElement
<1>5. ASSUME NEW e \in {f, g}
      PROVE  Cardinality(Holders(e, W, x)) = Cardinality(R) + Same(x, e[w])
  <2>1. CASE e[w] = x
    <3>1. Holders(e, W, x) = R \cup {w}
      BY <2>1 DEF Holders
    <3>2. Same(x, e[w]) = 1
      BY <2>1, SameValue
    <3> QED
      BY <1>4, <3>1, <3>2
  <2>2. CASE e[w] # x
    <3>1. Holders(e, W, x) = R
      BY <2>2 DEF Holders
    <3>2. Same(x, e[w]) = 0
      BY <2>2, SameValue
    <3> HIDE DEF R
    <3> QED
      BY <1>3, <3>1, <3>2
  <2> QED
    BY <2>1, <2>2
<1>6. Same(x, f[w]) \in Nat /\ Same(x, g[w]) \in Nat
  BY SameValue
<1> HIDE DEF R
<1> QED
  BY <1>3, <1>5, <1>6
=============================================================================
