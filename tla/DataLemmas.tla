---------------------------- MODULE DataLemmas -----------------------------
(***************************************************************************)
(* Facts about the data of the models, cited by the proofs about them: the *)
(* operators of module Deques, popping a deque, and counters that wrap.    *)
(***************************************************************************)
EXTENDS Deques, SequenceTheorems, FiniteSetTheorems, WellFoundedInduction, TLAPS

-----------------------------------------------------------------------------
(* Deques.                                                                 *)

\* append() to an unbounded deque: the new positions and the old ones.
LEMMA AppendFacts ==
    ASSUME NEW S, NEW q \in Seq(S), NEW x \in S
    PROVE  /\ Append(q, x) \in Seq(S)
           /\ Len(q) \in Nat
           /\ Len(Append(q, x)) = Len(q) + 1
           /\ DOMAIN q = 1..Len(q)
           /\ DOMAIN Append(q, x) = 1..(Len(q) + 1)
           /\ \A i \in 1..Len(q) : Append(q, x)[i] = q[i]
           /\ Append(q, x)[Len(q) + 1] = x
BY AppendProperties, LenProperties

\* popleft(): what is left, element by element.
LEMMA TailFacts ==
    ASSUME NEW S, NEW q \in Seq(S), q /= <<>>
    PROVE  /\ Tail(q) \in Seq(S) /\ Head(q) = q[1] /\ Head(q) \in S
           /\ Len(q) \in Nat \ {0}
           /\ Len(Tail(q)) = Len(q) - 1
           /\ DOMAIN q = 1..Len(q)
           /\ DOMAIN Tail(q) = 1..(Len(q) - 1)
           /\ \A i \in 1..(Len(q) - 1) : Tail(q)[i] = q[i + 1]
BY HeadTailProperties

\* popleft() removes the head and nothing else.
LEMMA TailElements ==
    ASSUME NEW S, NEW q \in Seq(S), q /= <<>>
    PROVE  ToSet(q) = {Head(q)} \cup ToSet(Tail(q))
<1> USE TailFacts DEF ToSet
<1>1. ASSUME NEW e \in ToSet(q) PROVE e \in {Head(q)} \cup ToSet(Tail(q))
  <2>1. PICK i \in 1..Len(q) : e = q[i]
    OBVIOUS
  <2>2. CASE i = 1
    BY <2>1, <2>2
  <2>3. CASE i /= 1
    <3>1. i - 1 \in 1..(Len(q) - 1) /\ Tail(q)[i - 1] = e
      BY <2>1, <2>3
    <3> QED BY <3>1
  <2> QED BY <2>2, <2>3
<1>2. Head(q) \in ToSet(q)
  OBVIOUS
<1>3. ASSUME NEW i \in DOMAIN Tail(q) PROVE Tail(q)[i] \in ToSet(q)
  <2>1. i + 1 \in DOMAIN q /\ Tail(q)[i] = q[i + 1]
    OBVIOUS
  <2> QED BY <2>1
<1> QED BY <1>1, <1>2, <1>3

\* An increasing sequence of numbers, by its positions.
LEMMA IncreasingFacts ==
    ASSUME NEW S \in SUBSET Nat, NEW q \in Seq(S), Increasing(q)
    PROVE  /\ DOMAIN q = 1..Len(q) /\ Len(q) \in Nat
           /\ \A k \in 1..Len(q) : q[k] \in Nat
           /\ \A k, l \in 1..Len(q) : k < l => q[k] < q[l]
<1>1. DOMAIN q = 1..Len(q) /\ Len(q) \in Nat
  BY LenProperties
<1>2. ASSUME NEW k \in 1..Len(q) PROVE q[k] \in Nat
  BY ElementOfSeq
<1>3. \A k, l \in 1..Len(q) : k < l => q[k] < q[l]
  BY <1>1 DEF Increasing
<1> QED BY <1>1, <1>2, <1>3

\* The tail of an increasing deque is increasing and above its head.
LEMMA TailIncreasing ==
    ASSUME NEW S \in SUBSET Nat, NEW q \in Seq(S), q /= <<>>, Increasing(q)
    PROVE  /\ Increasing(Tail(q))
           /\ \A i \in DOMAIN Tail(q) : Head(q) < Tail(q)[i]
<1>1. /\ Head(q) = q[1] /\ Len(q) \in Nat \ {0} /\ DOMAIN q = 1..Len(q)
      /\ DOMAIN Tail(q) = 1..(Len(q) - 1)
      /\ \A i \in 1..(Len(q) - 1) : Tail(q)[i] = q[i + 1]
  BY TailFacts
<1>2. \A i, j \in DOMAIN q : i < j => q[i] < q[j]
  BY DEF Increasing
<1>3. ASSUME NEW i \in DOMAIN Tail(q), NEW j \in DOMAIN Tail(q), i < j
      PROVE  Tail(q)[i] < Tail(q)[j]
  <2>1. i + 1 \in DOMAIN q /\ j + 1 \in DOMAIN q /\ i + 1 < j + 1
    BY <1>1, <1>3
  <2> QED BY <1>1, <1>2, <2>1
<1>4. ASSUME NEW i \in DOMAIN Tail(q) PROVE Head(q) < Tail(q)[i]
  <2>1. 1 \in DOMAIN q /\ i + 1 \in DOMAIN q /\ 1 < i + 1
    BY <1>1
  <2> QED BY <1>1, <1>2, <2>1
<1> QED BY <1>3, <1>4 DEF Increasing

\* append() to a bounded deque: the two cases, element by element.
LEMMA PushFacts ==
    ASSUME NEW S, NEW q \in Seq(S), NEW x \in S, NEW n \in Nat \ {0}, Len(q) <= n,
           NEW p, p = PushBounded(q, x, n)
    PROVE  /\ p \in Seq(S) /\ Len(p) \in 1..n /\ DOMAIN p = 1..Len(p)
           /\ p[Len(p)] = x
           /\ Len(q) < n => /\ Len(p) = Len(q) + 1
                            /\ \A i \in 1..Len(q) : p[i] = q[i]
           /\ Len(q) = n => /\ Len(p) = n /\ q /= <<>>
                            /\ \A i \in 1..(n - 1) : p[i] = q[i + 1]
<1>1. CASE Len(q) < n
  BY <1>1, AppendProperties DEF PushBounded
<1>2. CASE Len(q) = n
  <2>1. q /= <<>> /\ p = Append(Tail(q), x)
    BY <1>2 DEF PushBounded
  <2>2. Tail(q) \in Seq(S) /\ Len(Tail(q)) = n - 1
    BY <1>2, <2>1, TailFacts
  <2>3. p \in Seq(S) /\ Len(p) = n /\ p[n] = x
    BY <2>1, <2>2, AppendProperties
  <2>4. ASSUME NEW i \in 1..(n - 1) PROVE p[i] = q[i + 1]
    <3>1. p[i] = Tail(q)[i]
      BY <2>1, <2>2, AppendProperties
    <3>2. Tail(q)[i] = q[i + 1]
      BY <1>2, <2>1, TailFacts
    <3> QED BY <3>1, <3>2
  <2> QED BY <1>2, <2>1, <2>3, <2>4
<1> QED BY <1>1, <1>2

\* append() to a bounded deque: the type.
LEMMA PushType ==
    ASSUME NEW S, NEW q \in Seq(S), NEW x \in S, NEW n \in Nat \ {0}, Len(q) <= n
    PROVE  PushBounded(q, x, n) \in Seq(S) /\ Len(PushBounded(q, x, n)) <= n
BY PushFacts

\* append() brings in nothing but x.
LEMMA PushElements ==
    ASSUME NEW S, NEW q \in Seq(S), NEW x \in S, NEW n \in Nat \ {0}, Len(q) <= n,
           NEW p, p = PushBounded(q, x, n), NEW i \in DOMAIN p
    PROVE  p[i] = x \/ \E j \in DOMAIN q : p[i] = q[j]
<1>1. CASE Len(q) < n
  BY <1>1, PushFacts
<1>2. CASE Len(q) = n
  <2>1. CASE i < n
    <3>1. i + 1 \in DOMAIN q /\ p[i] = q[i + 1]
      BY <1>2, <2>1, PushFacts
    <3> QED BY <3>1
  <2>2. CASE ~(i < n)
    BY <1>2, <2>2, PushFacts
  <2> QED BY <2>1, <2>2
<1> QED BY <1>1, <1>2

\* An increasing deque stays increasing when a greater number is appended.
LEMMA PushIncreasing ==
    ASSUME NEW S \in SUBSET Nat, NEW q \in Seq(S), NEW x \in S, NEW n \in Nat \ {0}, Len(q) <= n,
           Increasing(q), \A j \in DOMAIN q : q[j] < x,
           NEW p, p = PushBounded(q, x, n)
    PROVE  Increasing(p)
<1>0. /\ p \in Seq(S) /\ Len(p) \in 1..n /\ DOMAIN p = 1..Len(p)
      /\ p[Len(p)] = x
      /\ Len(q) < n => /\ Len(p) = Len(q) + 1
                       /\ \A k \in 1..Len(q) : p[k] = q[k]
      /\ Len(q) = n => /\ Len(p) = n /\ q /= <<>>
                       /\ \A k \in 1..(n - 1) : p[k] = q[k + 1]
  BY PushFacts
<1>a. /\ DOMAIN q = 1..Len(q) /\ Len(q) \in Nat
      /\ \A k \in 1..Len(q) : q[k] \in Nat
      /\ \A k, l \in 1..Len(q) : k < l => q[k] < q[l]
  BY IncreasingFacts
<1>b. x \in Nat /\ \A k \in 1..Len(q) : q[k] < x
  BY <1>a
<1> SUFFICES ASSUME NEW i \in 1..Len(p), NEW j \in 1..Len(p), i < j
             PROVE  p[i] < p[j]
  BY <1>0 DEF Increasing
<1>1. CASE Len(q) < n
  <2>1. /\ Len(p) = Len(q) + 1 /\ p[Len(q) + 1] = x
        /\ \A k \in 1..Len(q) : p[k] = q[k]
    BY <1>0, <1>1
  <2>2. i \in 1..Len(q) /\ p[i] = q[i]
    BY <1>a, <1>b, <2>1
  <2>3. CASE j = Len(q) + 1
    BY <1>b, <2>1, <2>2, <2>3
  <2>4. CASE j /= Len(q) + 1
    BY <1>a, <1>b, <2>1, <2>2, <2>4
  <2> QED BY <2>3, <2>4
<1>2. CASE Len(q) = n /\ j = n
  <2>1. p[i] = q[i + 1] /\ i + 1 \in 1..n /\ p[j] = x
    BY <1>0, <1>2
  <2> QED BY <1>a, <1>b, <1>2, <2>1
<1>3. CASE Len(q) = n /\ j /= n
  <2>1. /\ p[i] = q[i + 1] /\ p[j] = q[j + 1]
        /\ i + 1 \in 1..n /\ j + 1 \in 1..n /\ i + 1 < j + 1
    BY <1>0, <1>3
  <2> QED BY <1>a, <1>b, <1>3, <2>1
<1> QED BY <1>1, <1>2, <1>3

\* append() keeps everything but what it evicts, ...
LEMMA PushConserves ==
    ASSUME NEW S, NEW q \in Seq(S), NEW x \in S, NEW n \in Nat \ {0}, Len(q) <= n,
           NEW p, p = PushBounded(q, x, n)
    PROVE  ToSet(p) \cup PushEvicts(q, n) = ToSet(q) \cup {x}
<1>1. ASSUME NEW e \in ToSet(p) PROVE e \in ToSet(q) \cup {x}
  BY PushElements DEF ToSet
<1>2. PushEvicts(q, n) \subseteq ToSet(q)
  BY TailFacts DEF PushEvicts, ToSet
<1>3. x \in ToSet(p)
  BY PushFacts DEF ToSet
<1>4. ASSUME NEW j \in DOMAIN q PROVE q[j] \in ToSet(p) \cup PushEvicts(q, n)
  <2>1. CASE Len(q) < n
    BY <2>1, PushFacts DEF ToSet
  <2>2. CASE Len(q) = n /\ j = 1
    BY <2>2, TailFacts DEF PushEvicts
  <2>3. CASE Len(q) = n /\ j /= 1
    <3>1. j - 1 \in 1..(n - 1) /\ j - 1 \in DOMAIN p /\ p[j - 1] = q[j]
      BY <2>3, PushFacts
    <3> QED BY <3>1 DEF ToSet
  <2> QED BY <2>1, <2>2, <2>3
<1> QED BY <1>1, <1>2, <1>3, <1>4 DEF ToSet

\* ... and what it evicts is gone, when the deque was increasing.
LEMMA PushForgets ==
    ASSUME NEW S \in SUBSET Nat, NEW q \in Seq(S), NEW x \in S, NEW n \in Nat \ {0}, Len(q) <= n,
           Increasing(q), \A j \in DOMAIN q : q[j] < x,
           NEW p, p = PushBounded(q, x, n)
    PROVE  ToSet(p) \cap PushEvicts(q, n) = {}
<1> SUFFICES ASSUME Len(q) = n, NEW i \in DOMAIN p, p[i] = Head(q)
             PROVE  FALSE
  BY DEF ToSet, PushEvicts
<1>0. /\ p \in Seq(S) /\ Len(p) \in 1..n /\ DOMAIN p = 1..Len(p)
      /\ p[Len(p)] = x
      /\ Len(q) < n => /\ Len(p) = Len(q) + 1
                       /\ \A k \in 1..Len(q) : p[k] = q[k]
      /\ Len(q) = n => /\ Len(p) = n /\ q /= <<>>
                       /\ \A k \in 1..(n - 1) : p[k] = q[k + 1]
  BY PushFacts
<1>a. /\ DOMAIN q = 1..Len(q) /\ Len(q) \in Nat
      /\ \A k \in 1..Len(q) : q[k] \in Nat
      /\ \A k, l \in 1..Len(q) : k < l => q[k] < q[l]
  BY IncreasingFacts
<1>b. x \in Nat /\ \A k \in 1..Len(q) : q[k] < x
  BY <1>a
<1>1. Head(q) = q[1] /\ i \in 1..n /\ Len(p) = n
  BY <1>0, TailFacts
<1>2. CASE i = n
  BY <1>0, <1>a, <1>b, <1>1, <1>2
<1>3. CASE i /= n
  <2>1. i + 1 \in 1..n /\ 1 < i + 1 /\ p[i] = q[i + 1]
    BY <1>0, <1>1, <1>3
  <2> QED BY <1>0, <1>a, <1>b, <1>1, <2>1
<1> QED BY <1>2, <1>3

-----------------------------------------------------------------------------
(* Sequences.                                                              *)

\* A function on 1..n is a sequence of n elements.
LEMMA FunctionIsSeq ==
    ASSUME NEW S, NEW n \in Nat, NEW f \in [1..n -> S]
    PROVE  f \in Seq(S) /\ Len(f) = n /\ DOMAIN f = 1..n
<1>1. f \in Seq(S)
  BY SeqDef
<1>2. DOMAIN f = 1..n /\ DOMAIN f = 1..Len(f) /\ Len(f) \in Nat
  BY <1>1, LenProperties
<1> QED BY <1>1, <1>2

\* Two sequences put together, position by position.
LEMMA ConcatFacts ==
    ASSUME NEW S, NEW a \in Seq(S), NEW b \in Seq(S)
    PROVE  /\ a \o b \in Seq(S) /\ Len(a) \in Nat /\ Len(b) \in Nat
           /\ Len(a \o b) = Len(a) + Len(b)
           /\ \A i \in 1..Len(a) : (a \o b)[i] = a[i]
           /\ \A i \in 1..Len(b) : (a \o b)[Len(a) + i] = b[i]
<1>1. Len(a) \in Nat /\ Len(b) \in Nat
  BY LenProperties
<1>2. a \o b \in Seq(S) /\ Len(a \o b) = Len(a) + Len(b)
  BY ConcatProperties
<1>3. \A i \in 1..Len(a) : (a \o b)[i] = a[i]
  BY <1>1, ConcatProperties
<1>4. \A i \in 1..Len(b) : (a \o b)[Len(a) + i] = b[i]
  <2> SUFFICES ASSUME NEW i \in 1..Len(b) PROVE (a \o b)[Len(a) + i] = b[i]
    OBVIOUS
  <2>1. Len(a) + i \in 1..(Len(a) + Len(b)) /\ ~(Len(a) + i <= Len(a)) /\ Len(a) + i - Len(a) = i
    BY <1>1
  <2>2. (a \o b)[Len(a) + i] = b[Len(a) + i - Len(a)]
    BY <2>1, ConcatProperties
  <2> QED BY <2>1, <2>2
<1> QED BY <1>1, <1>2, <1>3, <1>4

\* What two sequences put together hold, ...
LEMMA ConcatElements ==
    ASSUME NEW S, NEW a \in Seq(S), NEW b \in Seq(S)
    PROVE  ToSet(a \o b) = ToSet(a) \cup ToSet(b)
<1> DEFINE c == a \o b
<1>1. /\ c \in Seq(S) /\ Len(a) \in Nat /\ Len(b) \in Nat /\ Len(c) = Len(a) + Len(b)
      /\ \A i \in 1..Len(a) : c[i] = a[i]
      /\ \A i \in 1..Len(b) : c[Len(a) + i] = b[i]
  BY ConcatFacts
<1>2. DOMAIN c = 1..(Len(a) + Len(b)) /\ DOMAIN a = 1..Len(a) /\ DOMAIN b = 1..Len(b)
  BY <1>1, LenProperties
<1> HIDE DEF c
<1>3. ASSUME NEW i \in DOMAIN c PROVE c[i] \in ToSet(a) \cup ToSet(b)
  <2>1. CASE i \in 1..Len(a)
    BY <1>1, <1>2, <2>1 DEF ToSet
  <2>2. CASE i \notin 1..Len(a)
    <3>1. i - Len(a) \in 1..Len(b) /\ i = Len(a) + (i - Len(a))
      BY <1>1, <1>2, <2>2
    <3>2. c[i] = b[i - Len(a)]
      BY <1>1, <3>1
    <3> QED BY <1>2, <3>1, <3>2 DEF ToSet
  <2> QED BY <2>1, <2>2
<1>4. ASSUME NEW i \in DOMAIN a PROVE a[i] \in ToSet(c)
  <2>1. i \in DOMAIN c /\ c[i] = a[i]
    BY <1>1, <1>2
  <2> QED BY <2>1 DEF ToSet
<1>5. ASSUME NEW i \in DOMAIN b PROVE b[i] \in ToSet(c)
  <2>1. Len(a) + i \in DOMAIN c /\ c[Len(a) + i] = b[i]
    BY <1>1, <1>2
  <2> QED BY <2>1 DEF ToSet
<1>6. ToSet(c) = ToSet(a) \cup ToSet(b)
  BY <1>3, <1>4, <1>5 DEF ToSet
<1> QED BY <1>6 DEF c

\* ... and what an append adds.
LEMMA AppendElements ==
    ASSUME NEW S, NEW q \in Seq(S), NEW x \in S
    PROVE  ToSet(Append(q, x)) = ToSet(q) \cup {x}
<1> DEFINE p == Append(q, x)
<1>1. /\ DOMAIN q = 1..Len(q) /\ DOMAIN p = 1..(Len(q) + 1) /\ Len(q) \in Nat
      /\ \A i \in 1..Len(q) : p[i] = q[i]
      /\ p[Len(q) + 1] = x
  BY AppendFacts
<1> HIDE DEF p
<1>2. ASSUME NEW i \in DOMAIN p PROVE p[i] \in ToSet(q) \cup {x}
  BY <1>1 DEF ToSet
<1>3. ASSUME NEW i \in DOMAIN q PROVE q[i] \in ToSet(p)
  BY <1>1 DEF ToSet
<1>4. x \in ToSet(p)
  BY <1>1 DEF ToSet
<1>5. ToSet(p) = ToSet(q) \cup {x}
  BY <1>2, <1>3, <1>4 DEF ToSet
<1> QED BY <1>5 DEF p

\* Cutting two sequences put together where they meet gives them back.
LEMMA CutConcat ==
    ASSUME NEW S, NEW a \in Seq(S), NEW b \in Seq(S)
    PROVE  /\ SubSeq(a \o b, 1, Len(a)) = a
           /\ SubSeq(a \o b, Len(a) + 1, Len(a \o b)) = b
<1> DEFINE c == a \o b
           l == SubSeq(c, 1, Len(a))
           r == SubSeq(c, Len(a) + 1, Len(c))
<1>1. /\ c \in Seq(S) /\ Len(a) \in Nat /\ Len(b) \in Nat
      /\ Len(c) = Len(a) + Len(b)
      /\ \A i \in 1..Len(a) : c[i] = a[i]
      /\ \A i \in 1..Len(b) : c[Len(a) + i] = b[i]
  BY ConcatFacts
<1> HIDE DEF c
<1>2. \A i \in 1..(Len(a) + Len(b)) : c[i] \in S
  BY <1>1, ElementOfSeq
<1>3. l = a
  <2>1. /\ l \in Seq(S) /\ Len(l) = Len(a)
        /\ \A i \in 1..Len(a) : l[i] = c[1 + i - 1]
    BY <1>1, <1>2, SubSeqProperties
  <2>2. \A i \in 1..Len(a) : l[i] = a[i]
    BY <1>1, <2>1
  <2> HIDE DEF l
  <2> QED BY <2>1, <2>2, SeqEqual
<1>4. r = b
  <2>1. /\ r \in Seq(S) /\ Len(r) = Len(b)
        /\ \A i \in 1..Len(b) : r[i] = c[Len(a) + 1 + i - 1]
    BY <1>1, <1>2, SubSeqProperties
  <2>2. \A i \in 1..Len(b) : r[i] = b[i]
    <3> SUFFICES ASSUME NEW i \in 1..Len(b) PROVE r[i] = b[i]
      OBVIOUS
    <3>1. Len(a) + 1 + i - 1 = Len(a) + i
      BY <1>1
    <3> QED BY <1>1, <2>1, <3>1
  <2> HIDE DEF r
  <2> QED BY <2>1, <2>2, SeqEqual
<1> QED BY <1>3, <1>4 DEF l, r, c

\* A sequence is its head and its tail.
LEMMA HeadThenTail ==
    ASSUME NEW S, NEW q \in Seq(S), q /= <<>>
    PROVE  /\ Tail(q) \in Seq(S) /\ Head(q) \in S
           /\ q = <<Head(q)>> \o Tail(q)
<1>1. q = <<Head(q)>> \o Tail(q)
  BY ConcatProperties, HeadTailProperties, SeqEqual, TailFacts
<1> QED BY <1>1, TailFacts

\* Appending to the second of two sequences put together.
LEMMA AppendToConcat ==
    ASSUME NEW S, NEW a \in Seq(S), NEW b \in Seq(S), NEW x \in S
    PROVE  a \o Append(b, x) = Append(a \o b, x)
<1>1. Append(b, x) = b \o <<x>> /\ <<x>> \in Seq(S) /\ a \o b \in Seq(S)
  BY AppendIsConcat, ConcatProperties
<1>2. (a \o b) \o <<x>> = a \o (b \o <<x>>)
  BY <1>1, ConcatAssociative
<1>3. Append(a \o b, x) = (a \o b) \o <<x>>
  BY <1>1, AppendIsConcat
<1> QED BY <1>1, <1>2, <1>3

\* Moving the head of the second of two sequences put together to the first.
LEMMA MoveHead ==
    ASSUME NEW S, NEW a \in Seq(S), NEW b \in Seq(S), b /= <<>>
    PROVE  Append(a, Head(b)) \o Tail(b) = a \o b
<1>1. Append(a, Head(b)) = a \o <<Head(b)>>
  BY HeadThenTail, AppendIsConcat
<1>2. <<Head(b)>> \in Seq(S) /\ Tail(b) \in Seq(S) /\ b = <<Head(b)>> \o Tail(b)
  BY HeadThenTail
<1> QED BY <1>1, <1>2, ConcatAssociative

\* Popping the second of two sequences put together removes one position.
LEMMA RemoveWhereMet ==
    ASSUME NEW S, NEW a \in Seq(S), NEW b \in Seq(S), b /= <<>>
    PROVE  /\ Len(a) + 1 \in DOMAIN (a \o b)
           /\ (a \o b)[Len(a) + 1] = Head(b)
           /\ RemoveAt(a \o b, Len(a) + 1) = a \o Tail(b)
<1>1. /\ a \o b \in Seq(S) /\ Len(a) \in Nat
      /\ Len(a \o b) = Len(a) + Len(b)
      /\ \A i \in 1..Len(b) : (a \o b)[Len(a) + i] = b[i]
  BY ConcatFacts
<1>2. /\ Tail(b) \in Seq(S) /\ Head(b) = b[1] /\ Head(b) \in S /\ Len(b) \in Nat \ {0}
      /\ b = <<Head(b)>> \o Tail(b)
  BY TailFacts, HeadThenTail
<1>3. Len(a) + 1 \in DOMAIN (a \o b) /\ (a \o b)[Len(a) + 1] = Head(b)
  <2>1. DOMAIN (a \o b) = 1..(Len(a) + Len(b)) /\ 1 \in 1..Len(b)
    BY <1>1, <1>2, LenProperties
  <2> QED BY <1>1, <1>2, <2>1
<1>4. SubSeq(a \o b, 1, (Len(a) + 1) - 1) = a
  BY <1>1, CutConcat
<1>5. SubSeq(a \o b, (Len(a) + 1) + 1, Len(a \o b)) = Tail(b)
  <2> DEFINE d == Append(a, Head(b))
  <2>1. d \in Seq(S) /\ Len(d) = Len(a) + 1
    BY <1>2, AppendFacts
  <2>2. a \o b = d \o Tail(b)
    BY MoveHead
  <2> HIDE DEF d
  <2>3. SubSeq(d \o Tail(b), Len(d) + 1, Len(d \o Tail(b))) = Tail(b)
    BY <1>2, <2>1, CutConcat
  <2> QED BY <2>1, <2>2, <2>3
<1> QED BY <1>3, <1>4, <1>5 DEF RemoveAt

-----------------------------------------------------------------------------
(* Counters that wrap.                                                     *)

\* A remainder, with the quotient it leaves.
LEMMA DivMod ==
    ASSUME NEW a \in Nat, NEW p \in Nat \ {0}
    PROVE  /\ a % p \in 0..(p - 1) /\ a \div p \in Nat
           /\ a = p * (a \div p) + (a % p)
OBVIOUS

\* The remainder is the only number below p that whole periods leave.
LEMMA ModUnique ==
    ASSUME NEW p \in Nat \ {0}, NEW q \in Int, NEW r \in 0..(p - 1)
    PROVE  (p * q + r) % p = r
OBVIOUS

\* A number below the period is its own remainder.
LEMMA ModSmall ==
    ASSUME NEW p \in Nat \ {0}, NEW a \in 0..(p - 1)
    PROVE  a % p = a
OBVIOUS

\* Numbers less than a period apart have different remainders.
LEMMA ModDiffers ==
    ASSUME NEW p \in Nat \ {0}, NEW a \in Nat, NEW b \in Nat, a < b, b < a + p
    PROVE  (a % p) /= (b % p)
<1> DEFINE qa == a \div p
           qb == b \div p
<1>1. /\ a = p * qa + (a % p) /\ qa \in Nat /\ (a % p) \in 0..(p - 1)
      /\ b = p * qb + (b % p) /\ qb \in Nat /\ (b % p) \in 0..(p - 1)
  BY DivMod
<1> HIDE DEF qa, qb
<1> SUFFICES ASSUME (a % p) = (b % p) PROVE FALSE
  OBVIOUS
<1>2. b - a = p * (qb - qa)
  BY <1>1
<1>3. ~(qb - qa <= 0) /\ ~(qb - qa >= 1)
  <2>1. ASSUME qb - qa <= 0 PROVE p * (qb - qa) <= 0
    BY <1>1, <2>1
  <2>2. ASSUME qb - qa >= 1 PROVE p * (qb - qa) >= p
    BY <1>1, <2>2
  <2> QED BY <1>2, <2>1, <2>2
<1> QED BY <1>1, <1>3

\* A counter read twice within less than a period has wrapped if and only if
\* it went backwards, ...
LEMMA WrapSeen ==
    ASSUME NEW p \in Nat \ {0}, NEW a \in Nat, NEW b \in Nat, a <= b, b - a < p
    PROVE  IF b % p < a % p THEN b - (b % p) = a - (a % p) + p
                            ELSE b - (b % p) = a - (a % p)
<1> DEFINE qa == a \div p
           qb == b \div p
<1>1. a % p \in 0..(p - 1) /\ qa \in Nat /\ a = p * qa + (a % p)
  BY DivMod
<1>2. b % p \in 0..(p - 1) /\ qb \in Nat /\ b = p * qb + (b % p)
  BY DivMod
<1> HIDE DEF qa, qb
<1>3. qb = qa \/ qb = qa + 1
  BY <1>1, <1>2
<1> QED BY <1>1, <1>2, <1>3

\* ... and the difference of the two readings tells the time between.
LEMMA WrapDifference ==
    ASSUME NEW p \in Nat \ {0}, NEW a \in Nat, NEW b \in Nat, a <= b, b - a < p
    PROVE  ((b % p) - (a % p)) % p = b - a
<1> DEFINE x == a % p
           y == b % p
<1>1. x \in 0..(p - 1) /\ y \in 0..(p - 1)
  BY DivMod
<1>2. IF y < x THEN b - y = a - x + p ELSE b - y = a - x
  BY WrapSeen
<1> HIDE DEF x, y
<1>3. CASE y < x
  <2>1. b - a \in 0..(p - 1) /\ y - x = p * (-1) + (b - a)
    BY <1>1, <1>2, <1>3
  <2>2. (p * (-1) + (b - a)) % p = b - a
    BY <2>1, ModUnique
  <2>3. (y - x) % p = b - a
    BY <2>1, <2>2
  <2> QED BY <2>3 DEF x, y
<1>4. CASE ~(y < x)
  <2>1. b - a \in 0..(p - 1) /\ y - x = p * 0 + (b - a)
    BY <1>1, <1>2, <1>4
  <2>2. (p * 0 + (b - a)) % p = b - a
    BY <2>1, ModUnique
  <2>3. (y - x) % p = b - a
    BY <2>1, <2>2
  <2> QED BY <2>3 DEF x, y
<1> QED BY <1>3, <1>4

\* A greater number at the end.
LEMMA AppendIncreasing ==
    ASSUME NEW q \in Seq(Nat), NEW x \in Nat, Increasing(q), \A e \in ToSet(q) : e < x
    PROVE  /\ Append(q, x) \in Seq(Nat) /\ Increasing(Append(q, x))
           /\ ToSet(Append(q, x)) = ToSet(q) \cup {x}
<1> DEFINE p == Append(q, x)
<1>1. /\ p \in Seq(Nat) /\ DOMAIN q = 1..Len(q) /\ DOMAIN p = 1..(Len(q) + 1)
      /\ Len(q) \in Nat /\ \A i \in 1..Len(q) : p[i] = q[i]
      /\ p[Len(q) + 1] = x
  BY AppendFacts
<1> HIDE DEF p
<1>2. ASSUME NEW i \in DOMAIN p, NEW j \in DOMAIN p, i < j PROVE p[i] < p[j]
  <2>1. i \in 1..Len(q) /\ p[i] = q[i] /\ q[i] \in ToSet(q)
    BY <1>1, <1>2 DEF ToSet
  <2>2. CASE j = Len(q) + 1
    BY <1>1, <2>1, <2>2
  <2>3. CASE j /= Len(q) + 1
    BY <1>1, <1>2, <2>1, <2>3 DEF Increasing
  <2> QED BY <2>2, <2>3
<1>3. ToSet(p) = ToSet(q) \cup {x}
  BY AppendElements DEF p
<1> QED BY <1>1, <1>2, <1>3 DEF Increasing, p

\* Two increasing sequences, the first below the second.
LEMMA ConcatIncreasing ==
    ASSUME NEW a \in Seq(Nat), NEW b \in Seq(Nat), Increasing(a), Increasing(b),
           \A x \in ToSet(a) : \A y \in ToSet(b) : x < y
    PROVE  Increasing(a \o b)
<1> DEFINE c == a \o b
<1>1. /\ c \in Seq(Nat) /\ Len(a) \in Nat /\ Len(b) \in Nat /\ Len(c) = Len(a) + Len(b)
      /\ \A i \in 1..Len(a) : c[i] = a[i]
      /\ \A i \in 1..Len(b) : c[Len(a) + i] = b[i]
  BY ConcatFacts
<1>2. DOMAIN c = 1..(Len(a) + Len(b)) /\ DOMAIN a = 1..Len(a) /\ DOMAIN b = 1..Len(b)
  BY <1>1, LenProperties
<1> HIDE DEF c
<1>0. \A n \in 1..(Len(a) + Len(b)) : n > Len(a) => n - Len(a) \in 1..Len(b) /\ n = Len(a) + (n - Len(a))
  BY <1>1
<1>3. ASSUME NEW i \in DOMAIN c, NEW j \in DOMAIN c, i < j PROVE c[i] < c[j]
  <2>1. CASE j <= Len(a)
    <3>1. i \in DOMAIN a /\ j \in DOMAIN a /\ c[i] = a[i] /\ c[j] = a[j]
      BY <1>1, <1>2, <1>3, <2>1
    <3> QED BY <1>3, <3>1 DEF Increasing
  <2>2. CASE i <= Len(a) /\ j > Len(a)
    <3>1. i \in DOMAIN a /\ c[i] = a[i]
      BY <1>1, <1>2, <2>2
    <3>2. PICK l \in 1..Len(b) : j = Len(a) + l
      <4>1. j - Len(a) \in 1..Len(b) /\ j = Len(a) + (j - Len(a))
        BY <1>0, <1>2, <2>2
      <4> QED BY <4>1
    <3>3. c[j] = b[l] /\ l \in DOMAIN b
      BY <1>1, <1>2, <3>2
    <3> QED BY <3>1, <3>3 DEF ToSet
  <2>3. CASE i > Len(a)
    <3>1. PICK k \in 1..Len(b), l \in 1..Len(b) : i = Len(a) + k /\ j = Len(a) + l
      <4>1. i - Len(a) \in 1..Len(b) /\ i = Len(a) + (i - Len(a))
        BY <1>0, <1>2, <2>3
      <4>2. j > Len(a)
        BY <1>1, <1>2, <1>3, <2>3
      <4>3. j - Len(a) \in 1..Len(b) /\ j = Len(a) + (j - Len(a))
        BY <1>0, <1>2, <4>2
      <4> QED BY <4>1, <4>3
    <3>2. c[i] = b[k] /\ c[j] = b[l] /\ k < l /\ k \in DOMAIN b /\ l \in DOMAIN b
      BY <1>1, <1>2, <1>3, <3>1
    <3> QED BY <3>2 DEF Increasing
  <2> QED BY <1>1, <1>2, <2>1, <2>2, <2>3
<1> QED BY <1>3 DEF Increasing, c

-----------------------------------------------------------------------------
(* Induction.                                                              *)

\* A nonempty set of numbers has a least one.
LEMMA LeastNat ==
    ASSUME NEW T \in SUBSET Nat, T /= {}
    PROVE  \E x \in T : \A y \in T : x <= y
<1>1. IsWellFoundedOn(OpToRel(<, Nat), Nat)
  BY NatLessThanWellFounded, Zenon
<1>2. PICK x \in T : \A y \in T : <<y, x>> \notin OpToRel(<, Nat)
  BY <1>1, WFMin, Zenon
<1>3. ASSUME NEW y \in T PROVE x <= y
  <2>1. x \in Nat /\ y \in Nat
    OBVIOUS
  <2>2. ~(y < x)
    BY <1>2, <1>3, <2>1 DEF OpToRel
  <2>. QED
    BY <2>1, <2>2
<1>. QED
  BY <1>3

\* Induction, on a set of numbers: one that holds 0 and with every number the
\* next one holds them all.
LEMMA SetInduction ==
    ASSUME NEW T, 0 \in T, \A n \in Nat : n \in T => n + 1 \in T
    PROVE  \A n \in Nat : n \in T
<1>1. SUFFICES ASSUME NEW a \in Nat, a \notin T
               PROVE  FALSE
  OBVIOUS
<1>2. PICK x \in Nat \ T : \A y \in Nat \ T : x <= y
  <2>1. a \in Nat \ T
    BY <1>1
  <2>. QED
    BY <2>1, LeastNat
<1>3. x - 1 \in Nat /\ ~(x <= x - 1) /\ (x - 1) + 1 = x
  <2>1. x /= 0
    BY <1>2
  <2>. QED
    BY <1>2, <2>1
<1>4. x - 1 \in T
  BY <1>2, <1>3
<1>. QED
  BY <1>2, <1>3, <1>4

-----------------------------------------------------------------------------
(* Numbers in order.                                                       *)

\* The function that InOrder builds.
Orders(f, S, n) ==
    f = [m \in 0..n |-> IF m = 0 THEN <<>>
                        ELSE IF m \in S THEN Append(f[m - 1], m)
                        ELSE f[m - 1]]

\* There is one for every number, ...
LEMMA OrdersExists ==
    ASSUME NEW S, NEW n \in Nat
    PROVE  \E f : Orders(f, S, n)
<1>. DEFINE T == {m \in Nat : \E f : Orders(f, S, m)}
<1>1. 0 \in T
  <2>1. Orders([m \in 0..0 |-> <<>>], S, 0)
    BY DEF Orders
  <2>. QED
    BY <2>1
<1>2. ASSUME NEW m \in Nat, m \in T PROVE m + 1 \in T
  <2>1. PICK f : Orders(f, S, m)
    BY <1>2
  <2>. DEFINE g == [i \in 0..(m + 1) |->
                       IF i = 0 THEN <<>>
                       ELSE IF i \in S THEN Append(f[i - 1], i) ELSE f[i - 1]]
  <2>2. \A i \in 0..m : f[i] = g[i]
    <3>1. SUFFICES ASSUME NEW i \in 0..m PROVE f[i] = g[i]
      OBVIOUS
    <3>2. i \in 0..(m + 1)
      OBVIOUS
    <3>3. f[i] = IF i = 0 THEN <<>>
                 ELSE IF i \in S THEN Append(f[i - 1], i) ELSE f[i - 1]
      BY <2>1, Zenon DEF Orders
    <3>. QED
      BY <3>2, <3>3, Zenon
  <2>3. \A i \in 0..(m + 1) : i /= 0 => i - 1 \in 0..m
    OBVIOUS
  <2>4. \A i \in 0..(m + 1) : i /= 0 => f[i - 1] = g[i - 1]
    BY <2>2, <2>3
  <2>5. Orders(g, S, m + 1)
    <3>1. g = [i \in 0..(m + 1) |->
                  IF i = 0 THEN <<>>
                  ELSE IF i \in S THEN Append(g[i - 1], i) ELSE g[i - 1]]
      BY <2>4, Zenon
    <3>. QED
      BY <3>1 DEF Orders
  <2>. QED
    BY <2>5
<1>3. \A m \in Nat : m \in T
  <2>. HIDE DEF T
  <2>. QED
    BY <1>1, <1>2, SetInduction
<1>. QED
  BY <1>3

\* ... and it depends on the members of S below only.
LEMMA OrdersAgree ==
    ASSUME NEW S, NEW U, NEW n \in Nat, NEW k \in Nat, NEW f, NEW g,
           Orders(f, S, n), Orders(g, U, k),
           \A i \in 1..n : i \in S <=> i \in U, n <= k
    PROVE  f[n] = g[n]
<1>. DEFINE T == {m \in Nat : m <= n => f[m] = g[m]}
<1>1. 0 \in T
  BY DEF Orders
<1>2. ASSUME NEW m \in Nat, m \in T PROVE m + 1 \in T
  <2>1. SUFFICES ASSUME m + 1 <= n PROVE f[m + 1] = g[m + 1]
    OBVIOUS
  <2>2. f[m] = g[m]
    BY <1>2, <2>1
  <2>3. /\ m + 1 \in 0..n /\ m + 1 \in 0..k /\ m + 1 /= 0 /\ (m + 1) - 1 = m
        /\ m + 1 \in 1..n
    BY <2>1
  <2>4. f[m + 1] = IF m + 1 \in S THEN Append(f[m], m + 1) ELSE f[m]
    BY <2>3 DEF Orders
  <2>5. g[m + 1] = IF m + 1 \in U THEN Append(g[m], m + 1) ELSE g[m]
    BY <2>3 DEF Orders
  <2>. QED
    BY <2>2, <2>3, <2>4, <2>5
<1>3. \A m \in Nat : m \in T
  <2>. HIDE DEF T
  <2>. QED
    BY <1>1, <1>2, SetInduction
<1>. QED
  BY <1>3

\* InOrder is the last of the orders of the numbers so far, ...
LEMMA InOrderDef ==
    ASSUME NEW S, NEW n \in Nat
    PROVE  \E f : Orders(f, S, n) /\ InOrder(S, n) = f[n]
<1>1. InOrder(S, n) = (CHOOSE f : Orders(f, S, n))[n]
  BY Zenon DEF InOrder, Orders
<1>2. Orders(CHOOSE f : Orders(f, S, n), S, n)
  BY OrdersExists, Zenon
<1>. QED
  BY <1>1, <1>2, Zenon

\* ... so nothing up to 0, ...
LEMMA InOrderEmpty ==
    ASSUME NEW S
    PROVE  InOrder(S, 0) = <<>>
<1>1. PICK f : Orders(f, S, 0) /\ InOrder(S, 0) = f[0]
  BY InOrderDef
<1>. QED
  BY <1>1 DEF Orders

\* ... and one more number is appended if it is a member.
LEMMA InOrderNext ==
    ASSUME NEW S, NEW n \in Nat
    PROVE  InOrder(S, n + 1) = IF n + 1 \in S THEN Append(InOrder(S, n), n + 1)
                               ELSE InOrder(S, n)
<1>1. PICK f : Orders(f, S, n) /\ InOrder(S, n) = f[n]
  BY InOrderDef
<1>2. PICK g : Orders(g, S, n + 1) /\ InOrder(S, n + 1) = g[n + 1]
  BY InOrderDef
<1>3. f[n] = g[n]
  BY <1>1, <1>2, OrdersAgree
<1>4. g[n + 1] = IF n + 1 \in S THEN Append(g[n], n + 1) ELSE g[n]
  <2>1. n + 1 \in 0..(n + 1) /\ n + 1 /= 0 /\ (n + 1) - 1 = n
    OBVIOUS
  <2>. QED
    BY <1>2, <2>1 DEF Orders
<1>. QED
  BY <1>1, <1>2, <1>3, <1>4

\* Only the members up to n matter.
LEMMA InOrderSame ==
    ASSUME NEW S, NEW U, NEW n \in Nat, \A i \in 1..n : i \in S <=> i \in U
    PROVE  InOrder(S, n) = InOrder(U, n)
<1>1. PICK f : Orders(f, S, n) /\ InOrder(S, n) = f[n]
  BY InOrderDef
<1>2. PICK g : Orders(g, U, n) /\ InOrder(U, n) = g[n]
  BY InOrderDef
<1>. QED
  BY <1>1, <1>2, OrdersAgree

\* What InOrder returns: the members of S up to n, each once, in order.
LEMMA InOrderFacts ==
    ASSUME NEW S, NEW n \in Nat
    PROVE  /\ InOrder(S, n) \in Seq(1..n)
           /\ Increasing(InOrder(S, n))
           /\ ToSet(InOrder(S, n)) = S \cap (1..n)
           /\ IsFiniteSet(S \cap (1..n))
           /\ Len(InOrder(S, n)) = Cardinality(S \cap (1..n))
<1>. DEFINE OK(m) == /\ InOrder(S, m) \in Seq(Nat)
                     /\ Increasing(InOrder(S, m))
                     /\ ToSet(InOrder(S, m)) = S \cap (1..m)
                     /\ IsFiniteSet(S \cap (1..m))
                     /\ Len(InOrder(S, m)) = Cardinality(S \cap (1..m))
            T == {m \in Nat : OK(m)}
<1>1. OK(0)
  <2>1. InOrder(S, 0) = <<>>
    BY InOrderEmpty
  <2>2. S \cap (1..0) = {}
    OBVIOUS
  <2>3. ToSet(<<>>) = {}
    BY DEF ToSet
  <2>4. <<>> \in Seq(Nat) /\ Len(<<>>) = 0 /\ Increasing(<<>>)
    BY DEF Increasing
  <2>5. IsFiniteSet({}) /\ Cardinality({}) = 0
    BY FS_EmptySet
  <2>. QED
    BY <2>1, <2>2, <2>3, <2>4, <2>5, Zenon
<1>2. ASSUME NEW m \in Nat, OK(m) PROVE OK(m + 1)
  <2>. DEFINE q == InOrder(S, m)
  <2>1. CASE m + 1 \notin S
    <3>1. S \cap (1..(m + 1)) = S \cap (1..m)
      BY <2>1
    <3>2. InOrder(S, m + 1) = q
      BY <2>1, InOrderNext
    <3>. QED
      BY <1>2, <3>1, <3>2
  <2>2. CASE m + 1 \in S
    <3>1. S \cap (1..(m + 1)) = (S \cap (1..m)) \cup {m + 1} /\ m + 1 \notin S \cap (1..m)
      BY <2>2
    <3>2. InOrder(S, m + 1) = Append(q, m + 1)
      BY <2>2, InOrderNext
    <3>3. \A e \in ToSet(q) : e < m + 1
      BY <1>2
    <3>4. /\ Append(q, m + 1) \in Seq(Nat) /\ Increasing(Append(q, m + 1))
          /\ ToSet(Append(q, m + 1)) = ToSet(q) \cup {m + 1}
      BY <1>2, <3>3, AppendIncreasing
    <3>5. Len(Append(q, m + 1)) = Len(q) + 1
      BY <1>2, m + 1 \in Nat
    <3>6. /\ IsFiniteSet((S \cap (1..m)) \cup {m + 1})
          /\ Cardinality((S \cap (1..m)) \cup {m + 1}) = Cardinality(S \cap (1..m)) + 1
      BY <1>2, <3>1, FS_AddElement
    <3>. QED
      BY <1>2, <3>1, <3>2, <3>4, <3>5, <3>6
  <2>. QED
    BY <2>1, <2>2
<1>3. \A m \in Nat : m \in T
  <2>. HIDE DEF OK
  <2>1. 0 \in T /\ \A m \in Nat : m \in T => m + 1 \in T
    BY <1>1, <1>2
  <2>. HIDE DEF T
  <2>. QED
    BY <2>1, SetInduction
<1>4. OK(n)
  <2>. HIDE DEF OK
  <2>. QED
    BY <1>3
<1>5. InOrder(S, n) \in Seq(1..n)
  <2>. DEFINE q == InOrder(S, n)
  <2>1. q \in Seq(Nat) /\ ToSet(q) = S \cap (1..n)
    BY <1>4
  <2>. HIDE DEF q
  <2>2. \A k \in 1..Len(q) : q[k] \in 1..n
    BY <2>1 DEF ToSet
  <2>. QED
    BY <2>1, <2>2 DEF q
<1>. QED
  BY <1>4, <1>5

\* Sequences of a type with the same elements are the same.
LEMMA SameElements ==
    ASSUME NEW X, NEW p \in Seq(X), NEW q \in Seq(X), Len(p) = Len(q),
           \A k \in 1..Len(p) : p[k] = q[k]
    PROVE  p = q
OBVIOUS

\* A sequence that is not empty is one of its elements appended to the others.
LEMMA TakeLast ==
    ASSUME NEW X, NEW q \in Seq(X), NEW n \in Nat, Len(q) = n + 1
    PROVE  \E r \in Seq(X), e \in X : q = Append(r, e) /\ Len(r) = n
<1>1. PICK r : r = [i \in 1..n |-> q[i]]
  OBVIOUS
<1>2. \A i \in 1..(n + 1) : q[i] \in X /\ (i = n + 1 \/ i \in 1..n)
  OBVIOUS
<1>3. n + 1 \in 1..(n + 1) /\ \A i \in 1..n : i \in 1..(n + 1)
  OBVIOUS
<1>4. r \in Seq(X) /\ Len(r) = n
  <2>1. r \in [1..n -> X]
    BY <1>1, <1>2, <1>3
  <2>. QED
    BY <2>1, FunctionIsSeq
<1>5. PICK e \in X : e = q[n + 1]
  BY <1>2, <1>3
<1>6. PICK a : a = Append(r, e)
  OBVIOUS
<1>7. /\ a \in Seq(X) /\ Len(a) = n + 1 /\ a[n + 1] = e
      /\ \A i \in 1..n : a[i] = r[i]
  BY <1>4, <1>6, AppendFacts
<1>8. \A i \in 1..(n + 1) : q[i] = a[i]
  BY <1>1, <1>2, <1>5, <1>7, Zenon
<1>9. q = a
  BY <1>7, <1>8, SameElements
<1>. QED
  BY <1>4, <1>6, <1>9

\* An increasing sequence is what it holds below its last element, and that one.
LEMMA LastTaken ==
    ASSUME NEW p \in Seq(Nat), Increasing(p), p /= <<>>
    PROVE  \E r \in Seq(Nat) : /\ Increasing(r) /\ p = Append(r, p[Len(p)])
                              /\ ToSet(r) = ToSet(p) \ {p[Len(p)]}
<1>1. PICK l : l = Len(p)
  OBVIOUS
<1>2. /\ DOMAIN p = 1..l /\ l \in Nat /\ l /= 0
      /\ \A k \in 1..l : p[k] \in Nat
      /\ \A i, j \in 1..l : i < j => p[i] < p[j]
  <2>1. l /= 0
    BY <1>1
  <2>. QED
    BY <1>1, <2>1, IncreasingFacts
<1>3. PICK r : r = [i \in 1..(l - 1) |-> p[i]]
  OBVIOUS
<1>4. r \in Seq(Nat) /\ Len(r) = l - 1 /\ DOMAIN r = 1..(l - 1)
  <2>1. l - 1 \in Nat /\ \A i \in 1..(l - 1) : p[i] \in Nat
    BY <1>2
  <2>2. r \in [1..(l - 1) -> Nat]
    BY <1>3, <2>1
  <2>. QED
    BY <2>1, <2>2, FunctionIsSeq
<1>5. \A i \in 1..(l - 1) : i \in 1..l /\ r[i] = p[i] /\ i < l
  BY <1>2, <1>3
<1>6. Increasing(r)
  BY <1>2, <1>4, <1>5 DEF Increasing
<1>7. l \in 1..l /\ p[l] \in Nat /\ (l - 1) + 1 = l
      /\ \A i \in 1..l : i = l \/ i \in 1..(l - 1)
  BY <1>2
<1>8. PICK a : a = Append(r, p[l])
  OBVIOUS
<1>9. /\ a \in Seq(Nat) /\ Len(a) = l /\ a[l] = p[l]
      /\ \A i \in 1..(l - 1) : a[i] = r[i]
  BY <1>4, <1>7, <1>8, AppendFacts
<1>10. \A i \in 1..l : p[i] = a[i]
  BY <1>5, <1>7, <1>9, Zenon
<1>11. p = a
  BY <1>1, <1>9, <1>10, SameElements
<1>12. ToSet(r) = ToSet(p) \ {p[l]}
  <2>1. ASSUME NEW i \in 1..(l - 1) PROVE r[i] \in ToSet(p) \ {p[l]}
    <3>1. p[i] < p[l] /\ p[i] \in Nat /\ p[l] \in Nat
      BY <1>2, <1>5, <1>7
    <3>2. p[i] /= p[l]
      BY <3>1
    <3>. QED
      BY <1>2, <1>5, <3>2 DEF ToSet
  <2>2. ASSUME NEW e \in ToSet(p) \ {p[l]} PROVE \E i \in 1..(l - 1) : r[i] = e
    <3>1. PICK i \in 1..l : p[i] = e
      BY <1>2 DEF ToSet
    <3>. QED
      BY <1>5, <1>7, <3>1
  <2>. QED
    BY <1>4, <2>1, <2>2 DEF ToSet
<1>. QED
  BY <1>1, <1>4, <1>6, <1>8, <1>11, <1>12

\* Nothing else lists the same numbers in order.
LEMMA InOrderUnique ==
    ASSUME NEW S, NEW n \in Nat, NEW q \in Seq(Nat), Increasing(q), ToSet(q) = S \cap (1..n)
    PROVE  q = InOrder(S, n)
<1>. DEFINE Only(m) == \A p \in Seq(Nat) :
                          Increasing(p) /\ ToSet(p) = S \cap (1..m) => p = InOrder(S, m)
            T == {m \in Nat : Only(m)}
<1>1. Only(0)
  <2>1. SUFFICES ASSUME NEW p \in Seq(Nat), ToSet(p) = S \cap (1..0)
                 PROVE  p = <<>>
    BY InOrderEmpty
  <2>2. ToSet(p) = {}
    BY <2>1
  <2>3. Len(p) \notin 1..Len(p)
    <3>1. DOMAIN p = 1..Len(p)
      OBVIOUS
    <3>. QED
      BY <2>2, <3>1 DEF ToSet
  <2>. QED
    BY <2>3
<1>2. ASSUME NEW m \in Nat, Only(m) PROVE Only(m + 1)
  <2>1. SUFFICES ASSUME NEW p \in Seq(Nat), Increasing(p), ToSet(p) = S \cap (1..(m + 1))
                 PROVE  p = InOrder(S, m + 1)
    OBVIOUS
  <2>2. CASE m + 1 \notin S
    <3>1. S \cap (1..(m + 1)) = S \cap (1..m)
      BY <2>2
    <3>. QED
      BY <1>2, <2>1, <2>2, <3>1, InOrderNext
  <2>3. CASE m + 1 \in S
    <3>1. /\ DOMAIN p = 1..Len(p) /\ Len(p) \in Nat
          /\ \A i \in 1..Len(p) : p[i] \in Nat
          /\ \A i, j \in 1..Len(p) : i < j => p[i] < p[j]
      BY <2>1, IncreasingFacts
    <3>2. \A i \in 1..Len(p) : p[i] \in 1..(m + 1)
      BY <2>1, <3>1 DEF ToSet
    <3>3. PICK k \in 1..Len(p) : p[k] = m + 1
      <4>1. m + 1 \in ToSet(p)
        BY <2>1, <2>3
      <4>. QED
        BY <3>1, <4>1 DEF ToSet
    <3>4. k = Len(p)
      <4>1. k \in Nat /\ k <= Len(p) /\ Len(p) \in 1..Len(p)
        BY <3>1, <3>3
      <4>2. k < Len(p) => p[k] < p[Len(p)]
        BY <3>1, <4>1
      <4>3. ~(m + 1 < p[Len(p)])
        <5>1. p[Len(p)] \in 1..(m + 1)
          BY <3>2, <4>1, Zenon
        <5>2. \A y \in 1..(m + 1) : ~(m + 1 < y)
          OBVIOUS
        <5>. QED
          BY <5>1, <5>2, Zenon
      <4>4. ~(k < Len(p))
        BY <3>3, <4>2, <4>3, Zenon
      <4>5. \A a, b \in Nat : a <= b /\ ~(a < b) => a = b
        OBVIOUS
      <4>. QED
        BY <3>1, <4>1, <4>4, <4>5, Zenon
    <3>5. p /= <<>> /\ p[Len(p)] = m + 1
      BY <3>3, <3>4
    <3>6. PICK r \in Seq(Nat) : /\ Increasing(r) /\ p = Append(r, p[Len(p)])
                              /\ ToSet(r) = ToSet(p) \ {p[Len(p)]}
      BY <2>1, <3>5, LastTaken
    <3>7. ToSet(r) = S \cap (1..m)
      <4>1. ToSet(r) = (S \cap (1..(m + 1))) \ {m + 1}
        BY <2>1, <3>5, <3>6, Zenon
      <4>2. 1..m = (1..(m + 1)) \ {m + 1}
        OBVIOUS
      <4>. QED
        BY <4>1, <4>2, Zenon
    <3>8. r = InOrder(S, m)
      BY <1>2, <3>6, <3>7
    <3>. QED
      BY <2>3, <3>5, <3>6, <3>8, InOrderNext
  <2>. QED
    BY <2>2, <2>3
<1>3. \A m \in Nat : m \in T
  <2>. HIDE DEF Only
  <2>1. 0 \in T /\ \A m \in Nat : m \in T => m + 1 \in T
    BY <1>1, <1>2
  <2>. HIDE DEF T
  <2>. QED
    BY <2>1, SetInduction
<1>4. Only(n)
  <2>. HIDE DEF Only
  <2>. QED
    BY <1>3
<1>. QED
  BY <1>4

-----------------------------------------------------------------------------
(* Selections from a sequence.                                             *)

\* What a selection holds, element by element.
LEMMA PickedFacts ==
    ASSUME NEW X, NEW q \in Seq(X), NEW S,
           NEW at, at = InOrder(S, Len(q)), NEW p, p = Picked(q, S)
    PROVE  /\ Len(q) \in Nat
           /\ p \in Seq(X) /\ Len(p) = Len(at) /\ Len(at) \in Nat
           /\ at \in Seq(Nat)
           /\ \A k \in 1..Len(at) : at[k] \in 1..Len(q) /\ at[k] \in S
           /\ \A k \in 1..Len(at) : p[k] = q[at[k]]
<1>1. Len(q) \in Nat
  OBVIOUS
<1>2. /\ at \in Seq(1..Len(q)) /\ Len(at) = Cardinality(S \cap (1..Len(q)))
      /\ ToSet(at) = S \cap (1..Len(q))
  BY <1>1, InOrderFacts
<1>3. at \in Seq(Nat) /\ Len(at) \in Nat /\ DOMAIN at = 1..Len(at)
  BY <1>2
<1>4. \A k \in 1..Len(at) : at[k] \in 1..Len(q) /\ at[k] \in S
  BY <1>2, <1>3 DEF ToSet
<1>5. p = [k \in 1..Len(at) |-> q[at[k]]]
  BY <1>3 DEF Picked
<1>6. \A k \in 1..Len(at) : q[at[k]] \in X
  BY <1>4
<1>7. p \in [1..Len(at) -> X]
  BY <1>5, <1>6
<1>8. p \in Seq(X) /\ Len(p) = Len(at)
  BY <1>3, <1>7, FunctionIsSeq
<1>. QED
  BY <1>1, <1>2, <1>3, <1>4, <1>5, <1>8

\* A selection, one more element.
LEMMA PickedAppend ==
    ASSUME NEW X, NEW q \in Seq(X), NEW x \in X, NEW S
    PROVE  Picked(Append(q, x), S) = IF Len(q) + 1 \in S THEN Append(Picked(q, S), x)
                                     ELSE Picked(q, S)
<1>. DEFINE a == Append(q, x)
            n == Len(q)
            at == InOrder(S, n)
            new == InOrder(S, n + 1)
            p == Picked(q, S)
            pa == Picked(a, S)
<1>1. /\ a \in Seq(X) /\ n \in Nat /\ Len(a) = n + 1
      /\ \A i \in 1..n : a[i] = q[i]
      /\ a[n + 1] = x
  BY AppendFacts
<1>2. /\ p \in Seq(X) /\ Len(p) = Len(at) /\ Len(at) \in Nat /\ at \in Seq(Nat)
      /\ \A k \in 1..Len(at) : at[k] \in 1..n
      /\ \A k \in 1..Len(at) : p[k] = q[at[k]]
  <2>1. at = InOrder(S, Len(q)) /\ p = Picked(q, S)
    OBVIOUS
  <2>. HIDE DEF at, p
  <2>2. /\ Len(q) \in Nat
        /\ p \in Seq(X) /\ Len(p) = Len(at) /\ Len(at) \in Nat
        /\ at \in Seq(Nat)
        /\ \A k \in 1..Len(at) : at[k] \in 1..Len(q) /\ at[k] \in S
        /\ \A k \in 1..Len(at) : p[k] = q[at[k]]
    BY <2>1, PickedFacts
  <2>. QED
    BY <2>2 DEF n
<1>3. /\ pa \in Seq(X) /\ Len(pa) = Len(new)
      /\ \A k \in 1..Len(new) : pa[k] = a[new[k]]
  <2>1. new = InOrder(S, Len(a)) /\ pa = Picked(a, S) /\ a \in Seq(X)
    BY <1>1
  <2>. HIDE DEF a, new, pa
  <2>2. /\ Len(a) \in Nat
        /\ pa \in Seq(X) /\ Len(pa) = Len(new) /\ Len(new) \in Nat
        /\ new \in Seq(Nat)
        /\ \A k \in 1..Len(new) : new[k] \in 1..Len(a) /\ new[k] \in S
        /\ \A k \in 1..Len(new) : pa[k] = a[new[k]]
    BY <2>1, PickedFacts
  <2>. QED
    BY <2>2
<1>4. new = IF n + 1 \in S THEN Append(at, n + 1) ELSE at
  BY <1>1, InOrderNext
<1>. SUFFICES pa = IF n + 1 \in S THEN Append(p, x) ELSE p
  BY DEF pa, p, n, a
<1>. HIDE DEF a, n, at, new, p, pa
<1>5. \A k \in 1..Len(at) : a[at[k]] = p[k]
  BY <1>1, <1>2
<1>6. CASE n + 1 \in S
  <2>. DEFINE b == Append(p, x)
  <2>1. /\ b \in Seq(X) /\ Len(b) = Len(at) + 1
        /\ \A k \in 1..Len(at) : b[k] = p[k]
        /\ b[Len(at) + 1] = x
    BY <1>2, AppendFacts
  <2>2. /\ Len(new) = Len(at) + 1 /\ new[Len(at) + 1] = n + 1
        /\ \A k \in 1..Len(at) : new[k] = at[k]
    <3>1. n + 1 \in Nat
      BY <1>1
    <3>. QED
      BY <1>2, <1>4, <1>6, <3>1, AppendFacts
  <2>. HIDE DEF b
  <2>3. \A k \in 1..(Len(at) + 1) : k \in 1..Len(at) \/ k = Len(at) + 1
    BY <1>2
  <2>4. \A k \in 1..Len(at) : k \in 1..(Len(at) + 1)
    BY <1>2
  <2>5. \A k \in 1..Len(at) : pa[k] = b[k]
    BY <1>3, <1>5, <2>1, <2>2, <2>4, Zenon
  <2>6. Len(at) + 1 \in 1..(Len(at) + 1)
    BY <1>2
  <2>7. pa[Len(at) + 1] = x
    <3>1. pa[Len(at) + 1] = a[new[Len(at) + 1]]
      BY <1>3, <2>2, <2>6, Zenon
    <3>. QED
      BY <1>1, <2>2, <3>1, Zenon
  <2>8. \A k \in 1..Len(b) : pa[k] = b[k]
    BY <2>1, <2>3, <2>5, <2>7, Zenon
  <2>9. pa = b
    BY <1>3, <2>1, <2>2, <2>8, SameElements
  <2>. QED
    BY <1>6, <2>9 DEF b
<1>7. CASE n + 1 \notin S
  <2>1. \A k \in 1..Len(at) : pa[k] = p[k]
    BY <1>3, <1>4, <1>5, <1>7
  <2>2. pa = p
    BY <1>2, <1>3, <1>4, <1>7, <2>1, SameElements
  <2>. QED
    BY <1>7, <2>2
<1>. QED
  BY <1>6, <1>7

\* Only the positions of the sequence matter.
LEMMA PickedSame ==
    ASSUME NEW X, NEW q \in Seq(X), NEW S, NEW U, \A i \in 1..Len(q) : i \in S <=> i \in U
    PROVE  Picked(q, S) = Picked(q, U)
<1>1. InOrder(S, Len(q)) = InOrder(U, Len(q))
  <2>1. Len(q) \in Nat
    OBVIOUS
  <2>. QED
    BY <2>1, InOrderSame
<1>. QED
  BY <1>1 DEF Picked

\* A selection from a selection is a selection.
LEMMA PickedAgain ==
    ASSUME NEW X, NEW q \in Seq(X), NEW S, NEW K, NEW U,
           NEW at, at = InOrder(S, Len(q)), NEW p, p = Picked(q, S),
           \A k \in 1..Len(at) : k \in K <=> at[k] \in U,
           \A i \in 1..Len(q) : i \in U => i \in S
    PROVE  Picked(p, K) = Picked(q, U)
<1>1. PICK n : n = Len(q)
  OBVIOUS
<1>2. /\ n \in Nat /\ p \in Seq(X) /\ Len(p) = Len(at) /\ Len(at) \in Nat
      /\ at \in Seq(Nat) /\ DOMAIN at = 1..Len(at)
      /\ \A k \in 1..Len(at) : at[k] \in 1..n
      /\ \A k \in 1..Len(at) : p[k] = q[at[k]]
  <2>1. /\ Len(q) \in Nat
        /\ p \in Seq(X) /\ Len(p) = Len(at) /\ Len(at) \in Nat
        /\ at \in Seq(Nat)
        /\ \A k \in 1..Len(at) : at[k] \in 1..Len(q) /\ at[k] \in S
        /\ \A k \in 1..Len(at) : p[k] = q[at[k]]
    BY PickedFacts
  <2>. QED
    BY <1>1, <2>1
<1>3. Increasing(at) /\ ToSet(at) = S \cap (1..n)
  BY <1>1, <1>2, InOrderFacts
<1>4. PICK kept : kept = InOrder(K, Len(p))
  OBVIOUS
<1>5. PICK new : new = Picked(p, K)
  OBVIOUS
<1>6. /\ new \in Seq(X) /\ Len(new) = Len(kept) /\ Len(kept) \in Nat
      /\ kept \in Seq(Nat) /\ DOMAIN kept = 1..Len(kept)
      /\ \A k \in 1..Len(kept) : kept[k] \in 1..Len(at) /\ kept[k] \in K
      /\ \A k \in 1..Len(kept) : new[k] = p[kept[k]]
  <2>1. /\ Len(p) \in Nat
        /\ new \in Seq(X) /\ Len(new) = Len(kept) /\ Len(kept) \in Nat
        /\ kept \in Seq(Nat)
        /\ \A k \in 1..Len(kept) : kept[k] \in 1..Len(p) /\ kept[k] \in K
        /\ \A k \in 1..Len(kept) : new[k] = p[kept[k]]
    BY <1>2, <1>4, <1>5, PickedFacts
  <2>. QED
    BY <1>2, <2>1
<1>7. Increasing(kept) /\ ToSet(kept) = K \cap (1..Len(at))
  BY <1>2, <1>4, InOrderFacts
<1>8. \A i, j \in 1..Len(at) : i < j => at[i] < at[j]
  BY <1>2, <1>3 DEF Increasing
<1>9. \A i, j \in 1..Len(kept) : i < j => kept[i] < kept[j]
  BY <1>6, <1>7 DEF Increasing
<1>10. PICK all : all = [k \in 1..Len(kept) |-> at[kept[k]]]
  OBVIOUS
<1>11. \A k \in 1..Len(kept) : all[k] = at[kept[k]]
  BY <1>10
<1>12. all \in Seq(Nat) /\ Len(all) = Len(kept) /\ DOMAIN all = 1..Len(kept)
  <2>1. \A k \in 1..Len(kept) : at[kept[k]] \in Nat
    BY <1>2, <1>6
  <2>2. all \in [1..Len(kept) -> Nat]
    BY <1>10, <2>1
  <2>. QED
    BY <1>6, <2>2, FunctionIsSeq
<1>13. Increasing(all)
  <2>1. ASSUME NEW i \in 1..Len(kept), NEW j \in 1..Len(kept), i < j
        PROVE  all[i] < all[j]
    <3>1. kept[i] < kept[j] /\ kept[i] \in 1..Len(at) /\ kept[j] \in 1..Len(at)
      BY <1>6, <1>9, <2>1
    <3>2. at[kept[i]] < at[kept[j]]
      BY <1>8, <3>1
    <3>. QED
      BY <1>11, <3>2
  <2>. QED
    BY <1>12, <2>1 DEF Increasing
<1>14. ToSet(all) = U \cap (1..n)
  <2>1. ASSUME NEW k \in 1..Len(kept) PROVE all[k] \in U \cap (1..n)
    <3>1. kept[k] \in 1..Len(at) /\ kept[k] \in K
      BY <1>6
    <3>2. at[kept[k]] \in U /\ at[kept[k]] \in 1..n
      BY <1>2, <3>1
    <3>. QED
      BY <1>11, <3>2
  <2>2. ASSUME NEW i \in U \cap (1..n) PROVE \E k \in 1..Len(kept) : all[k] = i
    <3>1. i \in ToSet(at)
      BY <1>1, <1>3
    <3>2. PICK j \in 1..Len(at) : at[j] = i
      BY <1>2, <3>1 DEF ToSet
    <3>3. j \in ToSet(kept)
      BY <1>7, <3>2
    <3>4. PICK k \in 1..Len(kept) : kept[k] = j
      BY <1>6, <3>3 DEF ToSet
    <3>. QED
      BY <1>11, <3>2, <3>4
  <2>. QED
    BY <1>12, <2>1, <2>2 DEF ToSet
<1>15. all = InOrder(U, Len(q))
  BY <1>1, <1>2, <1>12, <1>13, <1>14, InOrderUnique
<1>16. PICK old, order : old = Picked(q, U) /\ order = InOrder(U, Len(q))
  OBVIOUS
<1>17. /\ old \in Seq(X) /\ Len(old) = Len(all)
       /\ \A k \in 1..Len(all) : old[k] = q[all[k]]
  <2>1. /\ Len(q) \in Nat
        /\ old \in Seq(X) /\ Len(old) = Len(order) /\ Len(order) \in Nat
        /\ order \in Seq(Nat)
        /\ \A k \in 1..Len(order) : order[k] \in 1..Len(q) /\ order[k] \in U
        /\ \A k \in 1..Len(order) : old[k] = q[order[k]]
    BY <1>16, PickedFacts
  <2>2. all = order
    BY <1>15, <1>16
  <2>. QED
    BY <2>1, <2>2
<1>18. \A k \in 1..Len(kept) : new[k] = old[k]
  <2>1. SUFFICES ASSUME NEW k \in 1..Len(kept) PROVE new[k] = old[k]
    OBVIOUS
  <2>2. new[k] = p[kept[k]] /\ kept[k] \in 1..Len(at) /\ all[k] = at[kept[k]]
    BY <1>6, <1>11
  <2>3. p[kept[k]] = q[at[kept[k]]]
    BY <1>2, <2>2
  <2>4. old[k] = q[all[k]]
    BY <1>12, <1>17
  <2>. QED
    BY <2>2, <2>3, <2>4, Zenon
<1>19. new = old
  BY <1>6, <1>12, <1>17, <1>18, SameElements
<1>. QED
  BY <1>5, <1>16, <1>19

\* How long a selection is.
LEMMA PickedCount ==
    ASSUME NEW X, NEW q \in Seq(X), NEW S
    PROVE  Len(Picked(q, S)) = Cardinality(S \cap (1..Len(q)))
<1>1. PICK n : n = Len(q) /\ n \in Nat
  OBVIOUS
<1>2. PICK at : at = InOrder(S, n)
  OBVIOUS
<1>3. PICK p : p = Picked(q, S)
  OBVIOUS
<1>4. Len(p) = Len(at)
  BY <1>1, <1>2, <1>3, PickedFacts
<1>5. Len(at) = Cardinality(S \cap (1..n))
  BY <1>1, <1>2, InOrderFacts
<1>. QED
  BY <1>1, <1>3, <1>4, <1>5
=============================================================================
