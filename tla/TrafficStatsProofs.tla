------------------------- MODULE TrafficStatsProofs -------------------------
(***************************************************************************)
(* The running statistics say what the stream says: proofs about module    *)
(* TrafficStats, for every window, limit, deque length and set of nodes.   *)
(***************************************************************************)
EXTENDS TrafficStats, DataLemmas

-----------------------------------------------------------------------------
(* The bits of a window.                                                   *)

WindowEntries == [ts : Nat, bits : Nat]

\* The function that TotalBits builds.
Totals(f, s, n) ==
    f = [m \in 0..n |-> IF m = 0 THEN 0 ELSE f[m - 1] + s[m].bits]

\* There is one for every sequence, ...
LEMMA TotalsExist ==
    ASSUME NEW s, NEW n \in Nat
    PROVE  \E f : Totals(f, s, n)
<1>. DEFINE T == {m \in Nat : \E f : Totals(f, s, m)}
<1>1. 0 \in T
  <2>1. Totals([m \in 0..0 |-> 0], s, 0)
    BY DEF Totals
  <2>. QED
    BY <2>1
<1>2. ASSUME NEW m \in Nat, m \in T PROVE m + 1 \in T
  <2>1. PICK f : Totals(f, s, m)
    BY <1>2
  <2>. DEFINE g == [i \in 0..(m + 1) |-> IF i = 0 THEN 0 ELSE f[i - 1] + s[i].bits]
  <2>2. \A i \in 0..m : f[i] = g[i]
    <3>1. SUFFICES ASSUME NEW i \in 0..m PROVE f[i] = g[i]
      OBVIOUS
    <3>2. i \in 0..(m + 1)
      OBVIOUS
    <3>3. f[i] = IF i = 0 THEN 0 ELSE f[i - 1] + s[i].bits
      BY <2>1, Zenon DEF Totals
    <3>. QED
      BY <3>2, <3>3, Zenon
  <2>3. \A i \in 0..(m + 1) : i /= 0 => i - 1 \in 0..m
    OBVIOUS
  <2>4. \A i \in 0..(m + 1) : i /= 0 => f[i - 1] = g[i - 1]
    BY <2>2, <2>3
  <2>5. Totals(g, s, m + 1)
    <3>1. g = [i \in 0..(m + 1) |-> IF i = 0 THEN 0 ELSE g[i - 1] + s[i].bits]
      BY <2>4, Zenon
    <3>. QED
      BY <3>1 DEF Totals
  <2>. QED
    BY <2>5
<1>3. \A m \in Nat : m \in T
  <2>. HIDE DEF T
  <2>. QED
    BY <1>1, <1>2, SetInduction
<1>. QED
  BY <1>3

\* ... it is a number, and it depends on the entries it adds only.
LEMMA TotalsAgree ==
    ASSUME NEW s, NEW u, NEW n \in Nat, NEW k \in Nat, NEW f, NEW g,
           Totals(f, s, n), Totals(g, u, k), n <= k,
           \A i \in 1..n : s[i].bits \in Nat /\ s[i].bits = u[i].bits
    PROVE  f[n] = g[n] /\ f[n] \in Nat
<1>. DEFINE T == {m \in Nat : m <= n => f[m] = g[m] /\ f[m] \in Nat}
<1>1. 0 \in T
  <2>1. f[0] = 0 /\ g[0] = 0
    BY DEF Totals
  <2>. QED
    BY <2>1
<1>2. ASSUME NEW m \in Nat, m \in T PROVE m + 1 \in T
  <2>1. SUFFICES ASSUME m + 1 <= n PROVE f[m + 1] = g[m + 1] /\ f[m + 1] \in Nat
    OBVIOUS
  <2>2. f[m] = g[m] /\ f[m] \in Nat
    BY <1>2, <2>1
  <2>3. /\ m + 1 \in 0..n /\ m + 1 \in 0..k /\ m + 1 /= 0 /\ (m + 1) - 1 = m
        /\ m + 1 \in 1..n
    BY <2>1
  <2>4. f[m + 1] = f[m] + s[m + 1].bits
    BY <2>3 DEF Totals
  <2>5. g[m + 1] = g[m] + u[m + 1].bits
    BY <2>3 DEF Totals
  <2>. QED
    BY <2>2, <2>3, <2>4, <2>5
<1>3. \A m \in Nat : m \in T
  <2>. HIDE DEF T
  <2>. QED
    BY <1>1, <1>2, SetInduction
<1>. QED
  BY <1>3

\* TotalBits is the last of the partial sums.
LEMMA TotalBitsDef ==
    ASSUME NEW s, Len(s) \in Nat
    PROVE  \E f : Totals(f, s, Len(s)) /\ TotalBits(s) = f[Len(s)]
<1>1. TotalBits(s) = (CHOOSE f : Totals(f, s, Len(s)))[Len(s)]
  BY Zenon DEF TotalBits, Totals
<1>2. Totals(CHOOSE f : Totals(f, s, Len(s)), s, Len(s))
  BY TotalsExist, Zenon
<1>. QED
  BY <1>1, <1>2, Zenon

\* The total, equation by equation.
LEMMA TotalOfNone == TotalBits(<<>>) = 0
<1>1. Len(<<>>) = 0
  OBVIOUS
<1>2. PICK f : Totals(f, <<>>, 0) /\ TotalBits(<<>>) = f[0]
  BY <1>1, TotalBitsDef
<1>. QED
  BY <1>2 DEF Totals

\* One more entry adds its bits.
LEMMA TotalOfAppend ==
    ASSUME NEW s \in Seq(WindowEntries), NEW e \in WindowEntries
    PROVE  TotalBits(Append(s, e)) = TotalBits(s) + e.bits
<1>1. PICK n : n = Len(s) /\ n \in Nat
  OBVIOUS
<1>2. PICK a : a = Append(s, e)
  OBVIOUS
<1>3. Len(a) = n + 1 /\ a[n + 1] = e /\ \A i \in 1..n : a[i] = s[i]
  BY <1>1, <1>2, AppendFacts
<1>4. \A i \in 1..n : s[i].bits \in Nat /\ s[i].bits = a[i].bits
  <2>1. \A i \in 1..n : s[i] \in WindowEntries
    BY <1>1
  <2>. QED
    BY <1>3, <2>1 DEF WindowEntries
<1>5. PICK f : Totals(f, s, n) /\ TotalBits(s) = f[n]
  BY <1>1, TotalBitsDef
<1>6. PICK g : Totals(g, a, n + 1) /\ TotalBits(a) = g[n + 1]
  BY <1>1, <1>3, TotalBitsDef
<1>7. f[n] = g[n]
  <2>1. n \in Nat /\ n + 1 \in Nat /\ n <= n + 1
    BY <1>1
  <2>2. Totals(f, s, n) /\ Totals(g, a, n + 1)
    BY <1>5, <1>6
  <2>3. f[n] = g[n] /\ f[n] \in Nat
    BY <1>4, <2>1, <2>2, TotalsAgree, Zenon
  <2>. QED
    BY <2>3
<1>8. g[n + 1] = g[n] + a[n + 1].bits
  <2>1. n + 1 \in 0..(n + 1) /\ n + 1 /= 0 /\ (n + 1) - 1 = n
    BY <1>1
  <2>. QED
    BY <1>6, <2>1 DEF Totals
<1>. QED
  BY <1>2, <1>3, <1>5, <1>6, <1>7, <1>8

\* A total is a number.
LEMMA TotalIsNumber ==
    ASSUME NEW s \in Seq(WindowEntries)
    PROVE  TotalBits(s) \in Nat
<1>1. PICK n : n = Len(s) /\ n \in Nat
  OBVIOUS
<1>2. \A i \in 1..n : s[i].bits \in Nat
  <2>1. \A i \in 1..n : s[i] \in WindowEntries
    BY <1>1
  <2>. QED
    BY <2>1 DEF WindowEntries
<1>3. PICK f : Totals(f, s, n) /\ TotalBits(s) = f[n]
  BY <1>1, TotalBitsDef
<1>. QED
  BY <1>1, <1>2, <1>3, TotalsAgree

\* The bits of two windows put together are those of both.
LEMMA TotalOfConcat ==
    ASSUME NEW a \in Seq(WindowEntries), NEW b \in Seq(WindowEntries)
    PROVE  TotalBits(a \o b) = TotalBits(a) + TotalBits(b)
<1>. DEFINE Adds(n) == \A q \in Seq(WindowEntries) :
                          Len(q) = n => TotalBits(a \o q) = TotalBits(a) + TotalBits(q)
            T == {n \in Nat : Adds(n)}
<1>1. Adds(0)
  <2>1. SUFFICES ASSUME NEW q \in Seq(WindowEntries), Len(q) = 0
                 PROVE  TotalBits(a \o q) = TotalBits(a) + TotalBits(q)
    OBVIOUS
  <2>2. q = <<>> /\ a \o <<>> = a
    BY <2>1
  <2>. QED
    BY <2>2, TotalOfNone, TotalIsNumber
<1>2. ASSUME NEW n \in Nat, Adds(n) PROVE Adds(n + 1)
  <2>1. SUFFICES ASSUME NEW q \in Seq(WindowEntries), Len(q) = n + 1
                 PROVE  TotalBits(a \o q) = TotalBits(a) + TotalBits(q)
    OBVIOUS
  <2>2. PICK r \in Seq(WindowEntries), e \in WindowEntries : q = Append(r, e) /\ Len(r) = n
    BY <2>1, TakeLast
  <2>3. a \o r \in Seq(WindowEntries) /\ a \o q = Append(a \o r, e)
    BY <2>2, AppendToConcat, ConcatFacts
  <2>4. TotalBits(a \o r) = TotalBits(a) + TotalBits(r)
    BY <1>2, <2>2
  <2>5. TotalBits(a \o q) = TotalBits(a \o r) + e.bits /\ TotalBits(q) = TotalBits(r) + e.bits
    BY <2>2, <2>3, TotalOfAppend
  <2>6. TotalBits(a) \in Nat /\ TotalBits(r) \in Nat /\ e.bits \in Nat
    BY <2>2, TotalIsNumber DEF WindowEntries
  <2>. QED
    BY <2>4, <2>5, <2>6
<1>3. \A n \in Nat : n \in T
  <2>. HIDE DEF Adds
  <2>1. 0 \in T /\ \A n \in Nat : n \in T => n + 1 \in T
    BY <1>1, <1>2
  <2>. HIDE DEF T
  <2>. QED
    BY <2>1, SetInduction
<1>4. Len(b) \in Nat /\ Adds(Len(b))
  <2>1. Len(b) \in Nat
    OBVIOUS
  <2>. HIDE DEF Adds
  <2>. QED
    BY <1>3, <2>1
<1>. QED
  BY <1>4

-----------------------------------------------------------------------------
(* The newest elements.                                                    *)

\* Latest, element by element.
LEMMA LatestFacts ==
    ASSUME NEW X, NEW q \in Seq(X), NEW l, l = Latest(q)
    PROVE  /\ l \in Seq(X) /\ Len(q) \in Nat
           /\ Len(l) = IF Len(q) <= MeasLen THEN Len(q) ELSE MeasLen
           /\ \A k \in 1..Len(l) : l[k] = q[Len(q) - Len(l) + k]
<1>1. MeasLen \in Nat \ {0}
  BY StatsAssumption DEF StatsAssumption
<1>2. PICK n \in Nat : n = Len(q)
  OBVIOUS
<1>3. PICK a : a = Max({1, (n - MeasLen) + 1})
  OBVIOUS
<1>4. a = IF n <= MeasLen THEN 1 ELSE (n - MeasLen) + 1
  <2>. DEFINE b == (n - MeasLen) + 1
  <2>1. b \in Int /\ (n <= MeasLen <=> b <= 1)
    BY <1>1
  <2>. HIDE DEF b
  <2>2. \E x \in {1, b} : \A y \in {1, b} : x >= y
    BY <2>1
  <2>3. a \in {1, b} /\ \A y \in {1, b} : a >= y
    BY <1>3, <2>2 DEF Max, b
  <2>4. a = IF b <= 1 THEN 1 ELSE b
    BY <2>1, <2>3
  <2>. QED
    BY <2>1, <2>4 DEF b
<1>5. l = SubSeq(q, a, n)
  BY <1>2, <1>3 DEF Latest
<1>6. a \in 1..(n + 1)
  BY <1>1, <1>4
<1>7. (n - a) + 1 = IF n <= MeasLen THEN n ELSE MeasLen
  BY <1>1, <1>4
<1>8. /\ l \in Seq(X) /\ Len(l) = (n - a) + 1
      /\ \A k \in 1..((n - a) + 1) : l[k] = q[(a + k) - 1]
  <2>1. a \in Int /\ a >= 1 /\ n \in Int /\ \A i \in a..n : q[i] \in X
    BY <1>2, <1>6
  <2>2. l \in Seq(X)
    BY <1>2, <1>5, <1>6, SubSeqProperties
  <2>3. Len(l) = (n - a) + 1 /\ \A k \in 1..((n - a) + 1) : l[k] = q[(a + k) - 1]
    BY <1>2, <1>5, <1>6, SubSeqProperties
  <2>. QED
    BY <2>2, <2>3
<1>9. \A k \in 1..Len(l) : (n - Len(l)) + k = (a + k) - 1
  BY <1>6, <1>8
<1>. QED
  BY <1>2, <1>7, <1>8, <1>9

\* There are MeasLen of them at most.
LEMMA LatestShort ==
    ASSUME NEW q \in Seq(Int), NEW l, l = Latest(q)
    PROVE  Len(l) <= MeasLen
<1>1. PICK n, m : n = Len(q) /\ m = MeasLen
  OBVIOUS
<1>2. m \in Nat /\ n \in Nat
  BY <1>1, StatsAssumption DEF StatsAssumption
<1>3. Len(l) = IF n <= m THEN n ELSE m
  BY <1>1, LatestFacts
<1>4. Len(l) <= m
  BY <1>2, <1>3
<1>. QED
  BY <1>1, <1>4

\* There is no newest element of nothing.
LEMMA LatestOfNone == Latest(<<>>) = <<>>
<1>1. <<>> \in Seq(Int) /\ Len(<<>>) = 0 /\ MeasLen \in Nat
  BY StatsAssumption DEF StatsAssumption
<1>2. PICK l : l = Latest(<<>>)
  OBVIOUS
<1>3. l \in Seq(Int) /\ Len(l) = IF 0 <= MeasLen THEN 0 ELSE MeasLen
  BY <1>1, <1>2, LatestFacts
<1>4. Len(l) = 0
  BY <1>1, <1>3
<1>. QED
  BY <1>2, <1>3, <1>4

\* A bounded deque of measurements holds the newest of them all.
LEMMA LatestAppend ==
    ASSUME NEW X, NEW q \in Seq(X), NEW x \in X
    PROVE  PushBounded(Latest(q), x, MeasLen) = Latest(Append(q, x))
<1>1. MeasLen \in Nat \ {0}
  BY StatsAssumption DEF StatsAssumption
<1>2. PICK m : m = MeasLen
  OBVIOUS
<1>3. PICK l, a, p, n : /\ l = Latest(q) /\ a = Append(q, x) /\ n = Len(q)
                        /\ p = PushBounded(l, x, m)
  OBVIOUS
<1>4. PICK r : r = Latest(a)
  OBVIOUS
<1>5. /\ l \in Seq(X) /\ n \in Nat /\ Len(l) = IF n <= m THEN n ELSE m
      /\ \A k \in 1..Len(l) : l[k] = q[(n - Len(l)) + k]
  BY <1>2, <1>3, LatestFacts
<1>6. /\ a \in Seq(X) /\ Len(a) = n + 1 /\ a[n + 1] = x
      /\ \A i \in 1..n : a[i] = q[i]
  BY <1>3, AppendFacts
<1>7. /\ r \in Seq(X) /\ Len(r) = IF n + 1 <= m THEN n + 1 ELSE m
      /\ \A k \in 1..Len(r) : r[k] = a[((n + 1) - Len(r)) + k]
  <2>1. /\ r \in Seq(X)
        /\ Len(r) = IF Len(a) <= MeasLen THEN Len(a) ELSE MeasLen
        /\ \A k \in 1..Len(r) : r[k] = a[(Len(a) - Len(r)) + k]
    BY <1>4, <1>6, LatestFacts
  <2>. QED
    BY <1>2, <1>6, <2>1, Zenon
<1>8. m \in Nat \ {0} /\ Len(l) <= m /\ Len(l) \in Nat
  BY <1>1, <1>2, <1>5
<1>9. /\ p \in Seq(X) /\ p[Len(p)] = x
      /\ Len(l) < m => /\ Len(p) = Len(l) + 1
                       /\ \A i \in 1..Len(l) : p[i] = l[i]
      /\ Len(l) = m => /\ Len(p) = m
                       /\ \A i \in 1..(m - 1) : p[i] = l[i + 1]
  BY <1>3, <1>5, <1>8, PushFacts
<1>10. CASE n < m
  <2>1. Len(l) = n /\ Len(p) = n + 1 /\ Len(r) = n + 1 /\ n + 1 \in 1..(n + 1)
    BY <1>5, <1>7, <1>8, <1>9, <1>10
  <2>2. \A i \in 1..n : i \in 1..(n + 1) /\ (n - n) + i = i
    BY <1>5
  <2>3. \A i \in 1..(n + 1) : ((n + 1) - (n + 1)) + i = i /\ (i \in 1..n \/ i = n + 1)
    BY <1>5
  <2>4. \A i \in 1..n : p[i] = q[i]
    BY <1>5, <1>9, <1>10, <2>1, <2>2
  <2>5. \A i \in 1..(n + 1) : r[i] = a[i]
    BY <1>7, <2>1, <2>3
  <2>6. \A i \in 1..Len(p) : p[i] = r[i]
    BY <1>6, <1>9, <2>1, <2>2, <2>3, <2>4, <2>5
  <2>. QED
    BY <1>2, <1>3, <1>4, <1>7, <1>9, <2>1, <2>6, SameElements
<1>11. CASE n >= m
  <2>1. Len(l) = m /\ Len(p) = m /\ Len(r) = m
    BY <1>5, <1>7, <1>8, <1>9, <1>11
  <2>2. \A i \in 1..(m - 1) : /\ i \in 1..m /\ i + 1 \in 1..m
                              /\ ((n + 1) - m) + i = (n - m) + (i + 1)
                              /\ (n - m) + (i + 1) \in 1..n
    BY <1>5, <1>8, <1>11
  <2>3. m \in 1..m /\ ((n + 1) - m) + m = n + 1 /\ \A i \in 1..m : i \in 1..(m - 1) \/ i = m
    BY <1>5, <1>8
  <2>4. \A i \in 1..(m - 1) : p[i] = q[(n - m) + (i + 1)]
    BY <1>5, <1>9, <2>1, <2>2
  <2>5. \A i \in 1..(m - 1) : r[i] = q[(n - m) + (i + 1)]
    BY <1>6, <1>7, <2>1, <2>2
  <2>6. r[m] = x
    BY <1>6, <1>7, <2>1, <2>3
  <2>7. \A i \in 1..Len(p) : p[i] = r[i]
    BY <1>9, <2>1, <2>3, <2>4, <2>5, <2>6
  <2>. QED
    BY <1>2, <1>3, <1>4, <1>7, <1>9, <2>1, <2>7, SameElements
<1>. QED
  BY <1>5, <1>8, <1>10, <1>11

-----------------------------------------------------------------------------
(* The stream.                                                             *)

Frames == [id : Ids, ts : Nat, pairs : SUBSET Pairs, epoch : Nat]

\* The times from each frame to the next.
Gaps(q) == [n \in 1..(Len(q) - 1) |-> q[n + 1].ts - q[n].ts]

\* They are numbers.
LEMMA GapsType ==
    ASSUME NEW q \in Seq(Frames), NEW g, g = Gaps(q)
    PROVE  g \in Seq(Int)
<1>1. PICK n : n = Len(q)
  OBVIOUS
<1>2. n \in Nat /\ \A i \in 1..n : q[i] \in Frames
  BY <1>1
<1>3. \A i \in 1..n : q[i].ts \in Nat
  BY <1>2 DEF Frames
<1>4. \A i \in 1..(n - 1) : i \in 1..n /\ i + 1 \in 1..n
  BY <1>2
<1>5. \A i \in 1..(n - 1) : q[i + 1].ts - q[i].ts \in Int
  BY <1>3, <1>4
<1>6. g = [i \in 1..(n - 1) |-> q[i + 1].ts - q[i].ts]
  BY <1>1 DEF Gaps
<1>7. CASE n = 0
  <2>1. 1..(n - 1) = 1..0
    BY <1>7
  <2>2. g \in [1..0 -> Int]
    BY <1>5, <1>6, <2>1
  <2>. QED
    BY <2>2, FunctionIsSeq
<1>8. CASE n /= 0
  <2>1. n - 1 \in Nat
    BY <1>2, <1>8
  <2>2. g \in [1..(n - 1) -> Int]
    BY <1>5, <1>6
  <2>. QED
    BY <2>1, <2>2, FunctionIsSeq
<1>. QED
  BY <1>7, <1>8

\* There is none with one frame, ...
LEMMA GapsOfOne ==
    ASSUME NEW q \in Seq(Frames), Len(q) <= 1
    PROVE  Gaps(q) = <<>>
<1>1. 1..(Len(q) - 1) = {}
  OBVIOUS
<1>2. Gaps(q) \in [1..0 -> Int]
  BY <1>1 DEF Gaps
<1>3. Gaps(q) \in Seq(Int) /\ Len(Gaps(q)) = 0
  BY <1>2, FunctionIsSeq
<1>. QED
  BY <1>3

\* ... and one more with one frame more.
LEMMA GapsAppend ==
    ASSUME NEW q \in Seq(Frames), NEW f \in Frames, q /= <<>>
    PROVE  /\ Gaps(q) \in Seq(Int) /\ f.ts - q[Len(q)].ts \in Int
           /\ Gaps(Append(q, f)) = Append(Gaps(q), f.ts - q[Len(q)].ts)
<1>1. PICK n : n = Len(q) - 1 /\ n \in Nat /\ Len(q) = n + 1
  OBVIOUS
<1>2. PICK a : a = Append(q, f)
  OBVIOUS
<1>3. /\ a \in Seq(Frames) /\ Len(a) = n + 2 /\ a[n + 2] = f
      /\ \A i \in 1..(n + 1) : a[i] = q[i]
  <2>1. /\ a \in Seq(Frames) /\ Len(a) = Len(q) + 1 /\ a[Len(q) + 1] = f
        /\ \A i \in 1..Len(q) : a[i] = q[i]
    BY <1>2, AppendFacts
  <2>2. Len(q) + 1 = n + 2
    BY <1>1
  <2>. QED
    BY <1>1, <2>1, <2>2
<1>4. \A i \in 1..(n + 1) : q[i] \in Frames /\ q[i].ts \in Nat
  <2>1. \A i \in 1..(n + 1) : q[i] \in Frames
    BY <1>1
  <2>. QED
    BY <2>1 DEF Frames
<1>5. f.ts \in Nat
  BY DEF Frames
<1>6. PICK g, h, d : g = Gaps(q) /\ h = Gaps(a) /\ d = f.ts - q[n + 1].ts
  OBVIOUS
<1>7. \A i \in 1..n : i \in 1..(n + 1) /\ i + 1 \in 1..(n + 1)
  BY <1>1
<1>8. /\ g = [i \in 1..n |-> q[i + 1].ts - q[i].ts]
      /\ h = [i \in 1..(n + 1) |-> a[i + 1].ts - a[i].ts]
  <2>1. Len(q) - 1 = n /\ Len(a) - 1 = n + 1
    BY <1>1, <1>3
  <2>. QED
    BY <1>6, <2>1 DEF Gaps
<1>9. d \in Int
  BY <1>1, <1>4, <1>5, <1>6
<1>10. g \in Seq(Int) /\ Len(g) = n
  <2>1. \A i \in 1..n : q[i + 1].ts - q[i].ts \in Int
    BY <1>4, <1>7
  <2>2. g \in [1..n -> Int]
    BY <1>8, <2>1
  <2>. QED
    BY <1>1, <2>2, FunctionIsSeq
<1>11. n + 1 \in 1..(n + 1) /\ (n + 1) + 1 = n + 2 /\ n + 1 \in Nat
       /\ \A i \in 1..(n + 1) : i \in 1..n \/ i = n + 1
  BY <1>1
<1>12. h[n + 1] = d
  BY <1>3, <1>6, <1>8, <1>11
<1>13. \A i \in 1..n : h[i] = g[i]
  <2>1. SUFFICES ASSUME NEW i \in 1..n PROVE h[i] = g[i]
    OBVIOUS
  <2>2. h[i] = a[i + 1].ts - a[i].ts /\ g[i] = q[i + 1].ts - q[i].ts
    BY <1>7, <1>8, <2>1, Zenon
  <2>3. a[i + 1] = q[i + 1] /\ a[i] = q[i]
    BY <1>3, <1>7, <2>1, Zenon
  <2>. QED
    BY <2>2, <2>3, Zenon
<1>14. h \in Seq(Int) /\ Len(h) = n + 1
  <2>1. \A i \in 1..(n + 1) : h[i] \in Int
    <3>1. \A i \in 1..n : g[i] \in Int
      BY <1>10
    <3>. QED
      BY <1>9, <1>11, <1>12, <1>13, <3>1, Zenon
  <2>2. h \in [1..(n + 1) -> Int]
    BY <1>8, <2>1, Zenon
  <2>. QED
    BY <1>11, <2>2, FunctionIsSeq
<1>15. PICK b : b = Append(g, d)
  OBVIOUS
<1>16. /\ b \in Seq(Int) /\ Len(b) = n + 1 /\ b[n + 1] = d
       /\ \A i \in 1..n : b[i] = g[i]
  BY <1>9, <1>10, <1>15, AppendFacts
<1>17. \A i \in 1..(n + 1) : h[i] = b[i]
  BY <1>11, <1>12, <1>13, <1>16, Zenon
<1>18. h = b
  BY <1>14, <1>16, <1>17, SameElements
<1>. QED
  BY <1>1, <1>2, <1>6, <1>9, <1>10, <1>15, <1>18

-----------------------------------------------------------------------------
(* Requests and answers of a stream s.                                     *)

AnswersIn(s, l, i, j) ==
    /\ i < j
    /\ s[i].epoch = s[j].epoch
    /\ l \in Requested(s[i].id, s[i].pairs)
    /\ l \in Answered(s[j].id, s[j].pairs)
    /\ \A k \in (i + 1)..(j - 1) :
          l \notin Requested(s[k].id, s[k].pairs) \cup Answered(s[k].id, s[k].pairs)
    /\ s[j - 1].ts - s[i].ts <= PendingLimit

RequestIn(s, l, j) == CHOOSE i \in DOMAIN s : AnswersIn(s, l, i, j)

AnswersOf(s, l) == {j \in DOMAIN s : \E i \in DOMAIN s : AnswersIn(s, l, i, j)}

LatencyOf(s, l, j) == s[j].ts - s[RequestIn(s, l, j)].ts

LatenciesOf(s, l) ==
    LET answers == InOrder(AnswersOf(s, l), Len(s))
    IN  [n \in DOMAIN answers |-> LatencyOf(s, l, answers[n])]

\* A frame answers one request at most.
LEMMA RequestUnique ==
    ASSUME NEW s, NEW l, NEW i \in Nat, NEW k \in Nat, NEW j \in Nat,
           AnswersIn(s, l, i, j), AnswersIn(s, l, k, j)
    PROVE  i = k
<1>1. i < j /\ k < j
  BY DEF AnswersIn
<1>2. ~(i < k)
  <2>1. SUFFICES ASSUME i < k PROVE FALSE
    OBVIOUS
  <2>2. k \in (i + 1)..(j - 1)
    BY <1>1, <2>1
  <2>. QED
    BY <2>2 DEF AnswersIn
<1>3. ~(k < i)
  <2>1. SUFFICES ASSUME k < i PROVE FALSE
    OBVIOUS
  <2>2. i \in (k + 1)..(j - 1)
    BY <1>1, <2>1
  <2>. QED
    BY <2>2 DEF AnswersIn
<1>. QED
  BY <1>2, <1>3

\* The frame a frame answers, and the time it took.
LEMMA RequestFound ==
    ASSUME NEW s, NEW n \in Nat, DOMAIN s = 1..n, NEW l, NEW i \in 1..n, NEW j \in 1..n,
           AnswersIn(s, l, i, j)
    PROVE  /\ RequestIn(s, l, j) = i
           /\ LatencyOf(s, l, j) = s[j].ts - s[i].ts
<1>1. PICK r : r = RequestIn(s, l, j)
  OBVIOUS
<1>2. r \in 1..n /\ AnswersIn(s, l, r, j)
  BY <1>1, Zenon DEF RequestIn
<1>3. r \in Nat /\ i \in Nat /\ j \in Nat
  BY <1>2
<1>4. r = i
  BY <1>2, <1>3, RequestUnique
<1>. QED
  BY <1>1, <1>4 DEF LatencyOf

\* A later frame changes nothing of the earlier answers, ...
LEMMA AnswersKept ==
    ASSUME NEW s \in Seq(Frames), NEW f \in Frames, NEW l,
           NEW t, t = Append(s, f), NEW n, n = Len(s),
           NEW i \in 1..(n + 1), NEW j \in 1..n
    PROVE  AnswersIn(t, l, i, j) <=> AnswersIn(s, l, i, j)
<1>1. n \in Nat /\ \A k \in 1..n : t[k] = s[k]
  BY AppendFacts
<1>2. CASE ~(i < j)
  BY <1>2 DEF AnswersIn
<1>3. CASE i < j
  <2>1. i \in 1..n /\ j - 1 \in 1..n /\ \A k \in (i + 1)..(j - 1) : k \in 1..n
    BY <1>1, <1>3
  <2>2. t[i] = s[i] /\ t[j] = s[j] /\ t[j - 1] = s[j - 1]
        /\ \A k \in (i + 1)..(j - 1) : t[k] = s[k]
    BY <1>1, <2>1
  <2>. QED
    BY <2>2, Zenon DEF AnswersIn
<1>. QED
  BY <1>2, <1>3

\* ... and adds a measurement if it is an answer itself.
LEMMA LatenciesNext ==
    ASSUME NEW s \in Seq(Frames), NEW f \in Frames, NEW l
    PROVE  /\ LatenciesOf(s, l) \in Seq(Int)
           /\ (\A i \in 1..Len(s) : ~AnswersIn(Append(s, f), l, i, Len(s) + 1)) =>
                 LatenciesOf(Append(s, f), l) = LatenciesOf(s, l)
           /\ \A i \in 1..Len(s) : AnswersIn(Append(s, f), l, i, Len(s) + 1) =>
                 LatenciesOf(Append(s, f), l) = Append(LatenciesOf(s, l), f.ts - s[i].ts)
<1>1. PICK t, n : t = Append(s, f) /\ n = Len(s)
  OBVIOUS
<1>2. /\ n \in Nat /\ n = Len(s) /\ t = Append(s, f) /\ DOMAIN s = 1..n /\ DOMAIN t = 1..(n + 1) /\ t \in Seq(Frames)
      /\ t[n + 1] = f /\ Len(t) = n + 1
      /\ \A k \in 1..n : t[k] = s[k]
  BY <1>1, AppendFacts
<1>3. \A i \in 1..(n + 1), j \in 1..n : AnswersIn(t, l, i, j) <=> AnswersIn(s, l, i, j)
  BY <1>1, AnswersKept
<1>4. ~AnswersIn(t, l, n + 1, n + 1) /\ \A j \in 1..n : ~AnswersIn(t, l, n + 1, j)
  BY <1>2 DEF AnswersIn
<1>5. \A j \in 1..n : j \in AnswersOf(t, l) <=> j \in AnswersOf(s, l)
  <2>1. SUFFICES ASSUME NEW j \in 1..n
                 PROVE  j \in AnswersOf(t, l) <=> j \in AnswersOf(s, l)
    OBVIOUS
  <2>2. j \in AnswersOf(s, l) <=> \E i \in 1..n : AnswersIn(s, l, i, j)
    BY <1>2, <2>1 DEF AnswersOf
  <2>3. j \in AnswersOf(t, l) <=> \E i \in 1..(n + 1) : AnswersIn(t, l, i, j)
    BY <1>2, <2>1 DEF AnswersOf
  <2>4. \A i \in 1..(n + 1) : i \in 1..n \/ i = n + 1
    BY <1>2
  <2>5. \A i \in 1..n : i \in 1..(n + 1)
    BY <1>2
  <2>. QED
    BY <1>3, <1>4, <2>1, <2>2, <2>3, <2>4, <2>5, Zenon
<1>6. n + 1 \in AnswersOf(t, l) <=> \E i \in 1..n : AnswersIn(t, l, i, n + 1)
  BY <1>2, <1>4 DEF AnswersOf
<1>7. PICK at, new, p, q : /\ at = InOrder(AnswersOf(s, l), n)
                           /\ new = InOrder(AnswersOf(t, l), n + 1)
                           /\ p = LatenciesOf(s, l) /\ q = LatenciesOf(t, l)
  OBVIOUS
<1>8. new = IF n + 1 \in AnswersOf(t, l) THEN Append(at, n + 1) ELSE at
  <2>1. InOrder(AnswersOf(t, l), n) = at
    BY <1>2, <1>5, <1>7, InOrderSame
  <2>. QED
    BY <1>2, <1>7, <2>1, InOrderNext, Zenon
<1>9. /\ at \in Seq(Nat) /\ Len(at) \in Nat /\ DOMAIN at = 1..Len(at)
      /\ \A k \in 1..Len(at) : at[k] \in 1..n /\ at[k] \in AnswersOf(s, l)
  <2>1. at \in Seq(1..n) /\ ToSet(at) = AnswersOf(s, l) \cap (1..n)
    BY <1>2, <1>7, InOrderFacts
  <2>2. at \in Seq(Nat) /\ Len(at) \in Nat /\ DOMAIN at = 1..Len(at)
    BY <1>2, <2>1
  <2>. QED
    BY <2>1, <2>2 DEF ToSet
<1>10. p = [k \in 1..Len(at) |-> LatencyOf(s, l, at[k])]
  BY <1>2, <1>7, <1>9 DEF LatenciesOf
<1>11. q = [k \in DOMAIN new |-> LatencyOf(t, l, new[k])]
  BY <1>2, <1>7 DEF LatenciesOf
<1>12. \A i, j \in 1..(n + 1) : AnswersIn(t, l, i, j) => LatencyOf(t, l, j) = t[j].ts - t[i].ts
  <2>1. PICK m \in Nat : m = n + 1
    BY <1>2
  <2>2. DOMAIN t = 1..m
    BY <1>2, <2>1
  <2>3. \A u : DOMAIN u = 1..m =>
           \A i, j \in 1..m : AnswersIn(u, l, i, j) => LatencyOf(u, l, j) = u[j].ts - u[i].ts
    BY <2>1, RequestFound
  <2>. QED
    BY <2>1, <2>2, <2>3
<1>13. \A j \in 1..n : j \in AnswersOf(s, l) =>
          /\ LatencyOf(s, l, j) \in Int
          /\ LatencyOf(t, l, j) = LatencyOf(s, l, j)
  <2>1. SUFFICES ASSUME NEW j \in 1..n, j \in AnswersOf(s, l)
                 PROVE  /\ LatencyOf(s, l, j) \in Int
                        /\ LatencyOf(t, l, j) = LatencyOf(s, l, j)
    OBVIOUS
  <2>2. PICK i \in 1..n : AnswersIn(s, l, i, j)
    BY <1>2, <2>1 DEF AnswersOf
  <2>3. LatencyOf(s, l, j) = s[j].ts - s[i].ts
    BY <1>2, <2>1, <2>2, RequestFound
  <2>4. i \in 1..(n + 1) /\ j \in 1..(n + 1) /\ n + 1 \in Nat
    BY <1>2, <2>1, <2>2
  <2>5. AnswersIn(t, l, i, j)
    BY <1>3, <2>1, <2>2, <2>4
  <2>6. LatencyOf(t, l, j) = t[j].ts - t[i].ts
    BY <1>12, <2>4, <2>5
  <2>7. t[j] = s[j] /\ t[i] = s[i]
    BY <1>2, <2>1, <2>2
  <2>8. s[j].ts \in Nat /\ s[i].ts \in Nat
    <3>1. s[j] \in Frames /\ s[i] \in Frames
      BY <1>2, <2>1, <2>2
    <3>. QED
      BY <3>1 DEF Frames
  <2>. QED
    BY <2>3, <2>6, <2>7, <2>8
<1>14. p \in Seq(Int) /\ Len(p) = Len(at)
  <2>1. \A k \in 1..Len(at) : LatencyOf(s, l, at[k]) \in Int
    BY <1>9, <1>13
  <2>2. p \in [1..Len(at) -> Int]
    BY <1>10, <2>1
  <2>. QED
    BY <1>9, <2>2, FunctionIsSeq
<1>15. ASSUME \A i \in 1..n : ~AnswersIn(t, l, i, n + 1)
       PROVE  q = p
  <2>1. new = at
    BY <1>6, <1>8, <1>15
  <2>2. \A k \in 1..Len(at) : LatencyOf(t, l, at[k]) = LatencyOf(s, l, at[k])
    BY <1>9, <1>13
  <2>. QED
    BY <1>9, <1>10, <1>11, <2>1, <2>2, Zenon
<1>16. ASSUME NEW i \in 1..n, AnswersIn(t, l, i, n + 1)
       PROVE  q = Append(p, f.ts - s[i].ts)
  <2>1. new = Append(at, n + 1)
    BY <1>6, <1>8, <1>16
  <2>2. PICK m \in Nat : m = Len(at)
    BY <1>9
  <2>3. /\ DOMAIN new = 1..(m + 1) /\ new[m + 1] = n + 1
        /\ \A k \in 1..m : new[k] = at[k]
    <3>1. n + 1 \in Nat
      BY <1>2
    <3>. QED
      BY <1>9, <2>1, <2>2, <3>1, AppendFacts
  <2>4. LatencyOf(t, l, n + 1) = f.ts - s[i].ts /\ f.ts - s[i].ts \in Int
    <3>1. i \in 1..(n + 1) /\ n + 1 \in 1..(n + 1) /\ n + 1 \in Nat
      BY <1>2, <1>16
    <3>2. LatencyOf(t, l, n + 1) = t[n + 1].ts - t[i].ts
      BY <1>12, <1>16, <3>1
    <3>3. t[n + 1] = f /\ t[i] = s[i] /\ s[i] \in Frames
      BY <1>2, <1>16
    <3>4. f.ts \in Nat /\ s[i].ts \in Nat
      BY <3>3 DEF Frames
    <3>. QED
      BY <3>2, <3>3, <3>4
  <2>5. PICK b, d : d = f.ts - s[i].ts /\ b = Append(p, d)
    OBVIOUS
  <2>6. /\ b \in Seq(Int) /\ Len(b) = m + 1 /\ b[m + 1] = d
        /\ \A k \in 1..m : b[k] = p[k]
    BY <1>14, <2>2, <2>4, <2>5, AppendFacts
  <2>7. \A k \in 1..m : q[k] = p[k]
    <3>1. SUFFICES ASSUME NEW k \in 1..m PROVE q[k] = p[k]
      OBVIOUS
    <3>2. k \in 1..(m + 1) /\ at[k] \in 1..n /\ at[k] \in AnswersOf(s, l)
      BY <1>9, <2>2, <3>1
    <3>3. q[k] = LatencyOf(t, l, at[k]) /\ p[k] = LatencyOf(s, l, at[k])
      BY <1>10, <1>11, <2>2, <2>3, <3>1, <3>2, Zenon
    <3>. QED
      BY <1>13, <3>2, <3>3, Zenon
  <2>8. q[m + 1] = d
    <3>1. m + 1 \in 1..(m + 1)
      BY <2>2
    <3>. QED
      BY <1>11, <2>3, <2>4, <2>5, <3>1, Zenon
  <2>9. \A k \in 1..(m + 1) : k \in 1..m \/ k = m + 1
    BY <2>2
  <2>10. \A k \in 1..(m + 1) : q[k] = b[k]
    BY <2>6, <2>7, <2>8, <2>9, Zenon
  <2>11. DOMAIN q = 1..(m + 1) /\ DOMAIN b = 1..(m + 1)
    BY <1>11, <2>3, <2>6
  <2>12. q = b
    <3>1. q = [k \in 1..(m + 1) |-> q[k]] /\ b = [k \in 1..(m + 1) |-> b[k]]
      BY <1>11, <2>3, <2>6, <2>11
    <3>. QED
      BY <2>10, <3>1, Zenon
  <2>. QED
    BY <2>5, <2>12
<1>. QED
  BY <1>1, <1>7, <1>14, <1>15, <1>16, Zenon

\* Nothing is measured of nothing.
LEMMA NoLatencies ==
    ASSUME NEW l
    PROVE  LatenciesOf(<<>>, l) = <<>>
<1>1. PICK s, at : s = <<>> /\ at = InOrder(AnswersOf(s, l), 0)
  OBVIOUS
<1>2. at = <<>>
  BY <1>1, InOrderEmpty
<1>3. LatenciesOf(s, l) = [n \in DOMAIN at |-> LatencyOf(s, l, at[n])]
  BY <1>1 DEF LatenciesOf
<1>4. DOMAIN at = 1..0 /\ 1..0 = {}
  BY <1>2
<1>5. LatenciesOf(s, l) \in [1..0 -> Int]
  BY <1>3, <1>4
<1>6. LatenciesOf(s, l) \in Seq(Int) /\ Len(LatenciesOf(s, l)) = 0
  BY <1>5, FunctionIsSeq
<1>7. LatenciesOf(s, l) = <<>>
  BY <1>6
<1>. QED
  BY <1>1, <1>7

\* The measurements are numbers.
LEMMA LatenciesType ==
    ASSUME NEW s \in Seq(Frames), NEW l
    PROVE  LatenciesOf(s, l) \in Seq(Int)
<1>1. CASE s = <<>>
  <2>1. LatenciesOf(<<>>, l) = <<>> /\ <<>> \in Seq(Int)
    BY NoLatencies
  <2>. QED
    BY <1>1, <2>1, Zenon
<1>2. CASE s /= <<>>
  <2>1. PICK f : f \in Frames
    <3>1. s[1] \in Frames
      BY <1>2
    <3>. QED
      BY <3>1
  <2>2. /\ LatenciesOf(s, l) \in Seq(Int)
        /\ (\A i \in 1..Len(s) : ~AnswersIn(Append(s, f), l, i, Len(s) + 1)) =>
              LatenciesOf(Append(s, f), l) = LatenciesOf(s, l)
    BY <2>1, LatenciesNext
  <2>. QED
    BY <2>2
<1>. QED
  BY <1>1, <1>2

-----------------------------------------------------------------------------
(* The window of the load.                                                 *)

\* The times of a stream do not go back.
InTime(s) == \A i, j \in 1..Len(s) : i <= j => s[i].ts <= s[j].ts

\* The window w holds the entries of the frames of s from cutoff on.
WindowOf(w, s, cutoff) ==
    /\ w \in Seq(WindowEntries) /\ Len(w) <= Len(s)
    /\ \A k \in 1..Len(w) : w[k] = Entry(s[(Len(s) - Len(w)) + k].id,
                                        s[(Len(s) - Len(w)) + k].ts)
    /\ \A i \in 1..Len(s) : i <= Len(s) - Len(w) <=> s[i].ts < cutoff

\* An entry is a time and a number of bits.
LEMMA EntryType ==
    ASSUME NEW id \in Ids, NEW ts \in Nat
    PROVE  Entry(id, ts) \in WindowEntries /\ Entry(id, ts).ts = ts
<1>1. Dlc(id) \in {3, 8}
  BY DEF Dlc
<1>2. \A d \in {3, 8} : FrameBits(d) \in Nat
  BY DEF FrameBits
<1>. QED
  BY <1>1, <1>2 DEF Entry, WindowEntries

\* What is left of a sequence from its a-th element on.
LEMMA CutFacts ==
    ASSUME NEW X, NEW s \in Seq(X), NEW n \in Nat, n = Len(s), NEW a \in 1..n,
           NEW v, v = SubSeq(s, a, n)
    PROVE  /\ v \in Seq(X) /\ Len(v) = (n - a) + 1
           /\ \A k \in 1..((n - a) + 1) : v[k] = s[(a + k) - 1]
<1>1. a \in Int /\ n \in Int /\ a <= n /\ \A i \in a..n : s[i] \in X
  OBVIOUS
<1>2. /\ v \in Seq(X) /\ Len(v) = IF a <= n THEN n - a + 1 ELSE 0
      /\ \A k \in 1..(n - a + 1) : v[k] = s[a + k - 1]
  BY <1>1, SubSeqProperties
<1>. QED
  BY <1>1, <1>2

\* A sequence is what comes before its a-th element and what is left from it.
LEMMA CutInTwo ==
    ASSUME NEW X, NEW s \in Seq(X), NEW a \in 1..Len(s)
    PROVE  /\ SubSeq(s, 1, a - 1) \in Seq(X) /\ SubSeq(s, a, Len(s)) \in Seq(X)
           /\ s = SubSeq(s, 1, a - 1) \o SubSeq(s, a, Len(s))
<1>1. PICK n, b : n = Len(s) /\ b = a - 1
  OBVIOUS
<1>2. /\ n \in Nat /\ a \in 1..n /\ b \in Nat /\ b <= n /\ a = b + 1
      /\ 1 \in Int /\ b \in Int /\ \A i \in 1..b : s[i] \in X
  BY <1>1
<1>3. PICK u, v : u = SubSeq(s, 1, b) /\ v = SubSeq(s, a, n)
  OBVIOUS
<1>4. /\ u \in Seq(X) /\ Len(u) = b
      /\ \A k \in 1..b : u[k] = s[k]
  <2>1. /\ SubSeq(s, 1, b) \in Seq(X) /\ Len(SubSeq(s, 1, b)) = IF 1 <= b THEN b - 1 + 1 ELSE 0
        /\ \A k \in 1..(b - 1 + 1) : SubSeq(s, 1, b)[k] = s[1 + k - 1]
    BY <1>2, SubSeqProperties
  <2>2. b - 1 + 1 = b /\ \A k \in 1..b : 1 + k - 1 = k
    BY <1>2
  <2>3. Len(SubSeq(s, 1, b)) = b
    BY <1>2, <2>1
  <2>4. \A k \in 1..b : u[k] = s[k]
    BY <1>3, <2>1, <2>2, Zenon
  <2>. QED
    BY <1>3, <2>1, <2>3, <2>4, Zenon
<1>5. /\ v \in Seq(X) /\ Len(v) = n - b
      /\ \A k \in 1..(n - b) : v[k] = s[b + k]
  <2>1. /\ v \in Seq(X) /\ Len(v) = (n - a) + 1
        /\ \A k \in 1..((n - a) + 1) : v[k] = s[(a + k) - 1]
    <3>1. n = Len(s)
      BY <1>1
    <3>. QED
      BY <1>2, <1>3, <3>1, CutFacts
  <2>2. (n - a) + 1 = n - b /\ \A k \in 1..(n - b) : (a + k) - 1 = b + k
    BY <1>2
  <2>3. \A k \in 1..(n - b) : v[k] = s[b + k]
    BY <2>1, <2>2, Zenon
  <2>. QED
    BY <2>1, <2>2, <2>3
<1>6. PICK c, d, e, r : c = u /\ d = v /\ e = n - b /\ r = s
  OBVIOUS
<1>7. /\ e \in Nat /\ Len(r) = b + e /\ r \in Seq(X)
      /\ c \in Seq(X) /\ Len(c) = b /\ \A k \in 1..b : c[k] = r[k]
      /\ d \in Seq(X) /\ Len(d) = e /\ \A k \in 1..e : d[k] = r[b + k]
  <2>1. n - b \in Nat /\ n = b + (n - b)
    BY <1>2
  <2>. QED
    BY <1>1, <1>4, <1>5, <1>6, <2>1, Zenon
<1>8. PICK w : w = c \o d
  OBVIOUS
<1>9. /\ w \in Seq(X) /\ Len(w) = b + e
      /\ \A k \in 1..b : w[k] = c[k]
      /\ \A k \in 1..e : w[b + k] = d[k]
  <2>1. c \in Seq(X) /\ d \in Seq(X)
    BY <1>7
  <2>2. /\ c \o d \in Seq(X) /\ Len(c) \in Nat /\ Len(d) \in Nat
        /\ Len(c \o d) = Len(c) + Len(d)
        /\ \A k \in 1..Len(c) : (c \o d)[k] = c[k]
        /\ \A k \in 1..Len(d) : (c \o d)[Len(c) + k] = d[k]
    BY <2>1, ConcatFacts
  <2>. QED
    BY <1>7, <1>8, <2>2, Zenon
<1>10. \A i \in 1..(b + e) : r[i] = w[i]
  <2>1. \A k \in 1..b : r[k] = w[k]
    BY <1>7, <1>9, Zenon
  <2>2. \A k \in 1..e : r[b + k] = w[b + k]
    BY <1>7, <1>9, Zenon
  <2>3. \A i \in 1..(b + e) : i \in 1..b \/ \E k \in 1..e : i = b + k
    <3>1. SUFFICES ASSUME NEW i \in 1..(b + e), ~(i <= b)
                   PROVE  \E k \in 1..e : i = b + k
      BY <1>2
    <3>2. i - b \in 1..e /\ i = b + (i - b)
      BY <1>2, <1>7, <3>1
    <3>. QED
      BY <3>2, Zenon
  <2>. QED
    BY <2>1, <2>2, <2>3, Zenon
<1>11. r = w
  BY <1>7, <1>9, <1>10, SameElements
<1>. QED
  <2>1. s = u \o v
    BY <1>6, <1>8, <1>11, Zenon
  <2>. QED
    BY <1>1, <1>3, <1>4, <1>5, <2>1, Zenon

\* The entry to which a window is trimmed.
LEMMA FirstYoungFacts ==
    ASSUME NEW w \in Seq(WindowEntries), NEW cutoff \in Int,
           w /= <<>>, w[Len(w)].ts >= cutoff,
           NEW first, first = FirstYoung(w, cutoff)
    PROVE  /\ first \in 1..Len(w) /\ w[first].ts >= cutoff
           /\ \A k \in 1..(first - 1) : w[k].ts < cutoff
<1>1. Len(w) \in Nat /\ Len(w) \in 1..Len(w) /\ DOMAIN w = 1..Len(w)
  OBVIOUS
<1>2. PICK T : T = {i \in DOMAIN w : w[i].ts >= cutoff}
  OBVIOUS
<1>3. T \in SUBSET Nat /\ Len(w) \in T
  BY <1>1, <1>2
<1>4. \E x \in T : \A y \in T : x <= y
  <2>1. T /= {}
    BY <1>3
  <2>. QED
    BY <1>3, <2>1, LeastNat
<1>5. first \in T /\ \A y \in T : first <= y
  <2>1. first = CHOOSE x \in T : \A y \in T : x =< y
    BY <1>2 DEF FirstYoung, Min
  <2>. QED
    BY <1>4, <2>1, Zenon
<1>6. first \in 1..Len(w) /\ w[first].ts >= cutoff
  BY <1>1, <1>2, <1>5
<1>7. ASSUME NEW k \in 1..(first - 1) PROVE w[k].ts < cutoff
  <2>1. k \in 1..Len(w) /\ ~(first <= k)
    BY <1>1, <1>6, <1>7
  <2>2. ~(w[k].ts >= cutoff)
    BY <1>1, <1>2, <1>5, <2>1
  <2>3. w[k] \in WindowEntries
    BY <2>1
  <2>4. w[k].ts \in Nat
    BY <2>3 DEF WindowEntries
  <2>. QED
    BY <2>2, <2>4
<1>. QED
  BY <1>6, <1>7

\* Natural numbers are integers.
LEMMA NatInt == \A x \in Nat : x \in Int
OBVIOUS

\* One more frame: appended to the window, and the window trimmed.
LEMMA WindowNext ==
    ASSUME NEW s \in Seq(Frames), NEW f \in Frames, NEW t, t = Append(s, f), InTime(t),
           NEW w, NEW c \in Int, WindowOf(w, s, c), c <= f.ts - Window,
           NEW all, all = Append(w, Entry(f.id, f.ts)),
           NEW first, first = FirstYoung(all, f.ts - Window)
    PROVE  /\ all \in Seq(WindowEntries) /\ first \in 1..Len(all)
           /\ WindowOf(SubSeq(all, first, Len(all)), t, f.ts - Window)
<1>1. Window \in Nat
  BY StatsAssumption DEF StatsAssumption
<1>2. f.id \in Ids /\ f.ts \in Nat
  BY DEF Frames
<1>3. PICK n, m, lo : n = Len(s) /\ m = Len(w) /\ lo = n - m
  OBVIOUS
<1>4. /\ w \in Seq(WindowEntries) /\ m \in Nat /\ n \in Nat /\ lo \in Nat /\ n = lo + m
      /\ \A k \in 1..m : w[k] = Entry(s[lo + k].id, s[lo + k].ts)
      /\ \A i \in 1..n : i <= lo <=> s[i].ts < c
  <2>1. w \in Seq(WindowEntries) /\ m <= n
    BY <1>3 DEF WindowOf
  <2>2. m \in Nat /\ n \in Nat
    BY <1>3, <2>1
  <2>. QED
    BY <1>3, <2>1, <2>2 DEF WindowOf
<1>5. /\ t \in Seq(Frames) /\ Len(t) = n + 1 /\ t[n + 1] = f
      /\ \A i \in 1..n : t[i] = s[i]
  BY <1>3, AppendFacts
<1>6. Entry(f.id, f.ts) \in WindowEntries /\ Entry(f.id, f.ts).ts = f.ts
  BY <1>2, EntryType
<1>7. /\ all \in Seq(WindowEntries) /\ Len(all) = m + 1
      /\ all[m + 1] = Entry(f.id, f.ts)
      /\ \A k \in 1..m : all[k] = w[k]
  BY <1>3, <1>4, <1>6, AppendFacts
<1>8. PICK cutoff : cutoff = f.ts - Window
  OBVIOUS
<1>9. cutoff \in Int /\ f.ts >= cutoff /\ c <= cutoff
  BY <1>1, <1>2, <1>8
<1>10. /\ first \in 1..(m + 1) /\ all[first].ts >= cutoff
       /\ \A k \in 1..(first - 1) : all[k].ts < cutoff
  <2>1. all /= <<>> /\ all[Len(all)].ts >= cutoff
    BY <1>4, <1>6, <1>7, <1>9
  <2>2. first = FirstYoung(all, cutoff)
    BY <1>8
  <2>3. /\ first \in 1..Len(all) /\ all[first].ts >= cutoff
        /\ \A k \in 1..(first - 1) : all[k].ts < cutoff
    BY <1>7, <1>9, <2>1, <2>2, FirstYoungFacts
  <2>. QED
    BY <1>7, <2>3
<1>11. \A k \in 1..(m + 1) : all[k] = Entry(t[lo + k].id, t[lo + k].ts)
  <2>1. ASSUME NEW k \in 1..m PROVE all[k] = Entry(t[lo + k].id, t[lo + k].ts)
    <3>1. lo + k \in 1..n
      BY <1>4
    <3>. QED
      BY <1>4, <1>5, <1>7, <3>1
  <2>2. all[m + 1] = Entry(t[lo + (m + 1)].id, t[lo + (m + 1)].ts)
    <3>1. lo + (m + 1) = n + 1
      BY <1>4
    <3>. QED
      BY <1>5, <1>7, <3>1
  <2>3. \A k \in 1..(m + 1) : k \in 1..m \/ k = m + 1
    BY <1>4
  <2>. QED
    BY <2>1, <2>2, <2>3, Zenon
<1>12. \A k \in 1..(m + 1) : all[k].ts = t[lo + k].ts
  <2>1. SUFFICES ASSUME NEW k \in 1..(m + 1) PROVE all[k].ts = t[lo + k].ts
    OBVIOUS
  <2>2. lo + k \in 1..(n + 1)
    BY <1>4
  <2>3. t[lo + k] \in Frames
    BY <1>5, <2>2
  <2>4. t[lo + k].id \in Ids /\ t[lo + k].ts \in Nat
    BY <2>3 DEF Frames
  <2>. QED
    BY <1>11, <2>4, EntryType
<1>13. PICK v : v = SubSeq(all, first, m + 1)
  OBVIOUS
<1>14. PICK d : d = (m + 1) - first /\ d \in Nat
  BY <1>4, <1>10
<1>15. /\ v \in Seq(WindowEntries) /\ Len(v) = d + 1
       /\ \A k \in 1..(d + 1) : v[k] = all[(first + k) - 1]
  <2>1. PICK b \in Nat : b = m + 1
    BY <1>4
  <2>5. PICK y, a : y = all /\ a = first
    OBVIOUS
  <2>6. y \in Seq(WindowEntries) /\ a \in 1..b /\ b = Len(y) /\ v = SubSeq(y, a, b)
    BY <1>7, <1>10, <1>13, <2>1, <2>5
  <2>7. /\ v \in Seq(WindowEntries) /\ Len(v) = (b - a) + 1
        /\ \A k \in 1..((b - a) + 1) : v[k] = y[(a + k) - 1]
    BY <2>1, <2>6, CutFacts
  <2>3. /\ v \in Seq(WindowEntries) /\ Len(v) = (b - first) + 1
        /\ \A k \in 1..((b - first) + 1) : v[k] = all[(first + k) - 1]
    BY <2>5, <2>7, Zenon
  <2>4. (b - first) + 1 = d + 1
    BY <1>14, <2>1
  <2>. QED
    BY <2>3, <2>4, Zenon
<1>16. PICK up : /\ up = (lo + first) - 1 /\ up \in Nat /\ up = (n + 1) - (d + 1)
                /\ first \in Nat /\ 1 <= first /\ first <= m + 1
  <2>1. first \in Nat /\ 1 <= first /\ first <= m + 1
    BY <1>4, <1>10
  <2>2. (lo + first) - 1 \in Nat /\ (lo + first) - 1 = (n + 1) - (d + 1)
    BY <1>4, <1>14, <2>1
  <2>. QED
    BY <2>1, <2>2
<1>17. ASSUME NEW k \in 1..(d + 1) PROVE v[k] = Entry(t[up + k].id, t[up + k].ts)
  <2>1. (first + k) - 1 \in 1..(m + 1) /\ lo + ((first + k) - 1) = up + k
    <3>1. first \in Nat /\ 1 <= first /\ k \in Nat /\ 1 <= k
      BY <1>14, <1>16
    <3>2. k <= ((m + 1) - first) + 1
      BY <1>4, <1>14, <1>16
    <3>3. (first + k) - 1 \in Nat /\ 1 <= (first + k) - 1 /\ (first + k) - 1 <= m + 1
      BY <1>4, <3>1, <3>2
    <3>4. lo + ((first + k) - 1) = ((lo + first) - 1) + k
      BY <1>4, <3>1
    <3>. QED
      BY <1>4, <1>16, <3>3, <3>4
  <2>. QED
    BY <1>11, <1>15, <2>1
<1>18. ASSUME NEW i \in 1..(n + 1) PROVE i <= up <=> t[i].ts < cutoff
  <2>1. t[i].ts \in Nat /\ lo + first \in 1..(n + 1) /\ t[lo + first].ts \in Nat
    <3>1. lo + first \in 1..(n + 1)
      BY <1>4, <1>10
    <3>2. t[i] \in Frames /\ t[lo + first] \in Frames
      BY <1>5, <3>1
    <3>. QED
      BY <3>1, <3>2 DEF Frames
  <2>2. CASE i <= lo
    <3>1. i \in Nat /\ 1 <= i /\ i <= n /\ i <= up
      BY <1>4, <1>16, <2>2
    <3>2. i \in 1..n
      BY <1>4, <3>1
    <3>3. t[i].ts < c
      BY <1>4, <1>5, <2>2, <3>2
    <3>4. t[i].ts < cutoff
      <4>1. t[i].ts \in Int /\ c \in Int /\ cutoff \in Int /\ c <= cutoff
        BY <1>9, <2>1, NatInt, Zenon
      <4>2. \A x, y, z \in Int : x < y /\ y <= z => x < z
        OBVIOUS
      <4>. QED
        BY <3>3, <4>1, <4>2, Zenon
    <3>. QED
      BY <3>1, <3>4
  <2>3. CASE i > lo /\ i <= up
    <3>1. i - lo \in 1..(first - 1) /\ i - lo \in 1..(m + 1) /\ lo + (i - lo) = i
      <4>1. i \in Nat /\ lo \in Nat /\ m \in Nat
        BY <1>4
      <4>. QED
        BY <1>16, <2>3, <4>1
    <3>2. all[i - lo].ts < cutoff /\ all[i - lo].ts = t[i].ts
      BY <1>10, <1>12, <3>1
    <3>. QED
      BY <2>3, <3>2
  <2>4. CASE i > up
    <3>1. lo + first <= i /\ i \in Nat
      <4>1. i \in Nat /\ lo \in Nat
        BY <1>4
      <4>. QED
        BY <1>16, <2>4, <4>1
    <3>2. t[lo + first].ts <= t[i].ts
      BY <1>5, <2>1, <3>1 DEF InTime
    <3>3. t[lo + first].ts >= cutoff
      BY <1>10, <1>12
    <3>4. ~(t[i].ts < cutoff)
      <4>1. t[i].ts \in Int /\ t[lo + first].ts \in Int /\ cutoff \in Int
        BY <1>9, <2>1, NatInt, Zenon
      <4>2. \A x, y, z \in Int : y <= x /\ y >= z => ~(x < z)
        OBVIOUS
      <4>. QED
        BY <3>2, <3>3, <4>1, <4>2, Zenon
    <3>5. ~(i <= up)
      BY <1>16, <2>4, <3>1
    <3>. QED
      BY <3>4, <3>5
  <2>5. i <= lo \/ (i > lo /\ i <= up) \/ i > up
    <3>1. i \in Nat /\ lo \in Nat
      BY <1>4
    <3>. QED
      BY <1>16, <3>1
  <2>. QED
    BY <2>2, <2>3, <2>4, <2>5
<1>19. WindowOf(v, t, cutoff)
  <2>1. Len(v) <= Len(t)
    BY <1>5, <1>15, <1>16
  <2>2. (Len(t) - Len(v)) = up
    BY <1>5, <1>15, <1>16
  <2>. QED
    BY <1>5, <1>15, <1>17, <1>18, <2>1, <2>2 DEF WindowOf
<1>. QED
  BY <1>7, <1>8, <1>10, <1>13, <1>19

\* The window is the selection of the entries of these frames.
LEMMA WindowIsPicked ==
    ASSUME NEW s \in Seq(Frames), NEW c \in Int, NEW w, WindowOf(w, s, c),
           NEW S, \A i \in 1..Len(s) : i \in S <=> s[i].ts >= c,
           NEW recent, recent = Picked(s, S)
    PROVE  [n \in DOMAIN recent |-> Entry(recent[n].id, recent[n].ts)] = w
<1>1. PICK n, m, lo : n = Len(s) /\ m = Len(w) /\ lo = n - m
  OBVIOUS
<1>2. /\ w \in Seq(WindowEntries) /\ m \in Nat /\ n \in Nat /\ lo \in Nat /\ n = lo + m
      /\ \A k \in 1..m : w[k] = Entry(s[lo + k].id, s[lo + k].ts)
      /\ \A i \in 1..n : i <= lo <=> s[i].ts < c
  <2>1. w \in Seq(WindowEntries) /\ m <= n
    BY <1>1 DEF WindowOf
  <2>2. m \in Nat /\ n \in Nat
    BY <1>1, <2>1
  <2>. QED
    BY <1>1, <2>1, <2>2 DEF WindowOf
<1>3. \A i \in 1..n : i \in S <=> s[i].ts >= c
  BY <1>1
<1>4. DOMAIN s = 1..n /\ \A i \in 1..n : s[i].ts \in Nat
  <2>1. \A i \in 1..n : s[i] \in Frames
    BY <1>1
  <2>. QED
    BY <1>1, <2>1 DEF Frames
<1>5. PICK q : q = [k \in 1..m |-> lo + k]
  OBVIOUS
<1>6. q \in Seq(Nat) /\ Len(q) = m /\ DOMAIN q = 1..m /\ \A k \in 1..m : q[k] = lo + k
  <2>1. q \in [1..m -> Nat]
    BY <1>2, <1>5
  <2>. QED
    BY <1>2, <1>5, <2>1, FunctionIsSeq
<1>7. Increasing(q)
  BY <1>2, <1>6 DEF Increasing
<1>8. ToSet(q) = S \cap (1..n)
  <2>1. ASSUME NEW k \in 1..m PROVE q[k] \in S \cap (1..n)
    <3>1. lo + k \in 1..n /\ ~(lo + k <= lo)
      BY <1>2
    <3>2. s[lo + k].ts >= c
      BY <1>2, <1>4, <3>1
    <3>. QED
      BY <1>3, <1>4, <1>6, <3>1, <3>2
  <2>2. ASSUME NEW i \in S \cap (1..n) PROVE \E k \in 1..m : q[k] = i
    <3>1. i \in 1..n /\ ~(s[i].ts < c)
      BY <1>3, <1>4
    <3>2. ~(i <= lo)
      BY <1>2, <3>1
    <3>3. i - lo \in 1..m /\ lo + (i - lo) = i
      BY <1>2, <3>1, <3>2
    <3>. QED
      BY <1>6, <3>3
  <2>3. ToSet(q) = {q[k] : k \in 1..m}
    BY <1>6 DEF ToSet
  <2>. QED
    BY <2>1, <2>2, <2>3
<1>9. q = InOrder(S, Len(s))
  BY <1>1, <1>2, <1>6, <1>7, <1>8, InOrderUnique
<1>10. /\ recent \in Seq(Frames) /\ Len(recent) = m
       /\ \A k \in 1..m : recent[k] = s[lo + k]
  <2>1. PICK at : at = InOrder(S, Len(s))
    OBVIOUS
  <2>2. q = at
    BY <1>9, <2>1
  <2>4. /\ Len(s) \in Nat
        /\ recent \in Seq(Frames) /\ Len(recent) = Len(at) /\ Len(at) \in Nat
        /\ at \in Seq(Nat)
        /\ \A k \in 1..Len(at) : at[k] \in 1..Len(s) /\ at[k] \in S
        /\ \A k \in 1..Len(at) : recent[k] = s[at[k]]
    BY <2>1, PickedFacts
  <2>5. Len(recent) = m /\ \A k \in 1..m : recent[k] = s[q[k]]
    BY <1>6, <2>2, <2>4, Zenon
  <2>. QED
    BY <1>6, <2>4, <2>5, Zenon
<1>11. DOMAIN recent = 1..m /\ DOMAIN w = 1..m
  BY <1>1, <1>2, <1>10
<1>12. [k \in 1..m |-> Entry(recent[k].id, recent[k].ts)] = [k \in 1..m |-> w[k]]
  BY <1>2, <1>10
<1>13. w = [k \in 1..m |-> w[k]]
  BY <1>2, <1>11
<1>. QED
  BY <1>11, <1>12, <1>13, Zenon

\* The running sum is that of the trimmed window.
LEMMA SumNext ==
    ASSUME NEW w \in Seq(WindowEntries), NEW e \in WindowEntries,
           NEW all, all = Append(w, e), NEW first \in 1..Len(all)
    PROVE  TotalBits(SubSeq(all, first, Len(all)))
              = (TotalBits(w) + e.bits) - TotalBits(SubSeq(all, 1, first - 1))
<1>1. PICK n : n = Len(all)
  OBVIOUS
<1>2. all \in Seq(WindowEntries) /\ n \in Nat /\ TotalBits(all) = TotalBits(w) + e.bits
  BY <1>1, TotalOfAppend, AppendFacts
<1>3. PICK y, a : y = all /\ a = first
  OBVIOUS
<1>4. PICK u, v : u = SubSeq(y, 1, a - 1) /\ v = SubSeq(y, a, Len(y))
  OBVIOUS
<1>5. u \in Seq(WindowEntries) /\ v \in Seq(WindowEntries) /\ y = u \o v
  <2>1. y \in Seq(WindowEntries) /\ a \in 1..Len(y)
    BY <1>2, <1>3
  <2>2. /\ SubSeq(y, 1, a - 1) \in Seq(WindowEntries)
        /\ SubSeq(y, a, Len(y)) \in Seq(WindowEntries)
        /\ y = SubSeq(y, 1, a - 1) \o SubSeq(y, a, Len(y))
    BY <2>1, CutInTwo, Zenon
  <2>. QED
    BY <1>4, <2>2, Zenon
<1>6. TotalBits(y) = TotalBits(u) + TotalBits(v)
  BY <1>5, TotalOfConcat
<1>7. TotalBits(u) \in Nat /\ TotalBits(v) \in Nat /\ TotalBits(w) \in Nat /\ e.bits \in Nat
  BY <1>5, TotalIsNumber DEF WindowEntries
<1>8. TotalBits(w) + e.bits = TotalBits(u) + TotalBits(v)
  BY <1>2, <1>3, <1>6, Zenon
<1>9. TotalBits(v) = (TotalBits(w) + e.bits) - TotalBits(u)
  <2>1. \A b, c, d, g \in Nat : c + d = b + g => g = (c + d) - b
    OBVIOUS
  <2>. QED
    BY <1>7, <1>8, <2>1
<1>. QED
  BY <1>1, <1>3, <1>4, <1>9, Zenon

-----------------------------------------------------------------------------
(* The pending requests.                                                   *)

\* Request i of label l, in stream s, still waits for an answer in epoch e.
OpenIn(s, e, l, i) ==
    /\ s[i].epoch = e
    /\ l \in Requested(s[i].id, s[i].pairs)
    /\ \A k \in (i + 1)..Len(s) :
          l \notin Requested(s[k].id, s[k].pairs) \cup Answered(s[k].id, s[k].pairs)
    /\ s[Len(s)].ts - s[i].ts <= PendingLimit

\* What is pending of label l is the time of the request that waits.
PendingIs(s, e, l, x) ==
    /\ x \in Nat \cup {NoTs}
    /\ x /= NoTs => \E i \in 1..Len(s) : OpenIn(s, e, l, i) /\ x = s[i].ts
    /\ \A i \in 1..Len(s) : OpenIn(s, e, l, i) => x = s[i].ts

\* The next frame answers the request that waits, if it is an answer.
LEMMA AnswersOpen ==
    ASSUME NEW s \in Seq(Frames), NEW f \in Frames, NEW l,
           NEW t, t = Append(s, f), NEW n, n = Len(s), NEW i \in 1..n
    PROVE  AnswersIn(t, l, i, n + 1) <=> /\ OpenIn(s, f.epoch, l, i)
                                         /\ l \in Answered(f.id, f.pairs)
<1>1. n \in Nat /\ t[n + 1] = f /\ \A k \in 1..n : t[k] = s[k]
  BY AppendFacts
<1>2. i < n + 1 /\ (n + 1) - 1 = n /\ n \in 1..n /\ \A k \in (i + 1)..n : k \in 1..n
  BY <1>1
<1>3. \A k \in (i + 1)..n : t[k] = s[k]
  BY <1>1, <1>2
<1>. QED
  BY <1>1, <1>2, <1>3, Zenon DEF AnswersIn, OpenIn

\* A request that waits waited before, unless the frame is the request.
LEMMA OpenNext ==
    ASSUME NEW s \in Seq(Frames), NEW f \in Frames, NEW e, NEW l,
           NEW t, t = Append(s, f), InTime(t), NEW n, n = Len(s), NEW i \in 1..n
    PROVE  OpenIn(t, e, l, i) <=>
              /\ OpenIn(s, e, l, i) /\ f.ts - s[i].ts <= PendingLimit
              /\ l \notin Requested(f.id, f.pairs) \cup Answered(f.id, f.pairs)
<1>1. /\ n \in Nat /\ t[n + 1] = f /\ Len(t) = n + 1 /\ t \in Seq(Frames)
      /\ \A k \in 1..n : t[k] = s[k]
  BY AppendFacts
<1>2. /\ n \in 1..n /\ n + 1 \in (i + 1)..(n + 1)
      /\ \A k \in (i + 1)..n : k \in 1..n /\ k \in (i + 1)..(n + 1)
      /\ \A k \in (i + 1)..(n + 1) : k \in (i + 1)..n \/ k = n + 1
  BY <1>1
<1>3. t[i] = s[i] /\ t[n] = s[n] /\ \A k \in (i + 1)..n : t[k] = s[k]
  BY <1>1, <1>2
<1>4. f.ts - s[i].ts <= PendingLimit => s[n].ts - s[i].ts <= PendingLimit
  <2>1. s[n].ts <= f.ts
    <3>1. n \in 1..Len(t) /\ n + 1 \in 1..Len(t) /\ n <= n + 1
      BY <1>1, <1>2
    <3>2. t[n].ts <= t[n + 1].ts
      BY <3>1, Zenon DEF InTime
    <3>. QED
      BY <1>1, <1>3, <3>2
  <2>2. s[n].ts \in Int /\ s[i].ts \in Int /\ f.ts \in Int
    <3>1. s[n] \in Frames /\ s[i] \in Frames
      BY <1>2
    <3>. QED
      BY <3>1 DEF Frames
  <2>3. PendingLimit \in Int
    BY StatsAssumption DEF StatsAssumption
  <2>4. \A a, b, c, d \in Int : a <= b /\ b - c <= d => a - c <= d
    OBVIOUS
  <2>. QED
    BY <2>1, <2>2, <2>3, <2>4
<1>5. (\A k \in (i + 1)..(n + 1) :
          l \notin Requested(t[k].id, t[k].pairs) \cup Answered(t[k].id, t[k].pairs))
      <=> /\ \A k \in (i + 1)..n :
                l \notin Requested(s[k].id, s[k].pairs) \cup Answered(s[k].id, s[k].pairs)
          /\ l \notin Requested(f.id, f.pairs) \cup Answered(f.id, f.pairs)
  <2>. DEFINE Was(k) == l \notin Requested(s[k].id, s[k].pairs) \cup Answered(s[k].id, s[k].pairs)
              Is(k) == l \notin Requested(t[k].id, t[k].pairs) \cup Answered(t[k].id, t[k].pairs)
              New == l \notin Requested(f.id, f.pairs) \cup Answered(f.id, f.pairs)
  <2>1. (\A k \in (i + 1)..n : Is(k) <=> Was(k)) /\ (Is(n + 1) <=> New)
    BY <1>1, <1>3, Zenon
  <2>2. (\A k \in (i + 1)..(n + 1) : Is(k)) <=> (\A k \in (i + 1)..n : Was(k)) /\ New
    <3>. HIDE DEF Was, Is, New
    <3>1. ASSUME \A k \in (i + 1)..(n + 1) : Is(k)
          PROVE  (\A k \in (i + 1)..n : Was(k)) /\ New
      BY <1>2, <2>1, <3>1
    <3>2. ASSUME \A k \in (i + 1)..n : Was(k), New, NEW k \in (i + 1)..(n + 1)
          PROVE  Is(k)
      BY <1>2, <2>1, <3>2
    <3>. QED
      BY <3>1, <3>2
  <2>. QED
    BY <2>2
<1>6. OpenIn(t, e, l, i) <=>
         /\ s[i].epoch = e
         /\ l \in Requested(s[i].id, s[i].pairs)
         /\ \A k \in (i + 1)..(n + 1) :
                l \notin Requested(t[k].id, t[k].pairs) \cup Answered(t[k].id, t[k].pairs)
         /\ f.ts - s[i].ts <= PendingLimit
  BY <1>1, <1>3, Zenon DEF OpenIn
<1>. QED
  BY <1>4, <1>5, <1>6, Zenon DEF OpenIn

\* What is pending after one frame more.
LEMMA PendingNext ==
    ASSUME NEW s \in Seq(Frames), NEW f \in Frames, NEW e, e = f.epoch, NEW l,
           NEW t, t = Append(s, f), InTime(t), NEW x, PendingIs(s, e, l, x),
           NEW noted, noted = IF l \in Requested(f.id, f.pairs) THEN f.ts
                              ELSE IF l \in Answered(f.id, f.pairs) /\ x /= NoTs THEN NoTs
                              ELSE x,
           NEW y, y = IF noted >= f.ts - PendingLimit THEN noted ELSE NoTs
    PROVE  PendingIs(t, e, l, y)
<1>1. PICK n : n = Len(s)
  OBVIOUS
<1>2. /\ n \in Nat /\ t[n + 1] = f /\ Len(t) = n + 1 /\ t \in Seq(Frames)
      /\ \A k \in 1..n : t[k] = s[k]
  BY <1>1, AppendFacts
<1>3. f.ts \in Nat /\ PendingLimit \in Nat /\ \A i \in 1..n : s[i].ts \in Nat
  <2>1. \A i \in 1..n : s[i] \in Frames
    BY <1>1
  <2>2. PendingLimit \in Nat
    BY StatsAssumption DEF StatsAssumption
  <2>. QED
    BY <2>1, <2>2 DEF Frames
<1>4. /\ n + 1 \in 1..(n + 1)
      /\ \A i \in 1..(n + 1) : i \in 1..n \/ i = n + 1
      /\ \A i \in 1..n : i \in 1..(n + 1)
  BY <1>2
<1>5. OpenIn(t, e, l, n + 1) <=> l \in Requested(f.id, f.pairs)
  <2>1. ((n + 1) + 1)..(n + 1) = {}
    BY <1>2
  <2>2. f.ts - f.ts <= PendingLimit
    BY <1>3
  <2>. QED
    BY <1>2, <2>1, <2>2 DEF OpenIn
<1>6. \A i \in 1..n : OpenIn(t, e, l, i) <=>
              /\ OpenIn(s, e, l, i) /\ f.ts - s[i].ts <= PendingLimit
              /\ l \notin Requested(f.id, f.pairs) \cup Answered(f.id, f.pairs)
  BY <1>1, OpenNext
<1>7. /\ x \in Nat \cup {NoTs}
      /\ x /= NoTs => \E i \in 1..n : OpenIn(s, e, l, i) /\ x = s[i].ts
      /\ \A i \in 1..n : OpenIn(s, e, l, i) => x = s[i].ts
  BY <1>1 DEF PendingIs
<1>8. CASE l \in Requested(f.id, f.pairs)
  <2>1. y = f.ts
    BY <1>3, <1>8
  <2>2. \A i \in 1..n : ~OpenIn(t, e, l, i)
    BY <1>6, <1>8, Zenon
  <2>3. y = t[n + 1].ts
    BY <1>2, <2>1
  <2>. QED
    BY <1>2, <1>3, <1>4, <1>5, <1>8, <2>1, <2>2, <2>3, Zenon DEF PendingIs
<1>9. CASE l \notin Requested(f.id, f.pairs) /\ l \in Answered(f.id, f.pairs)
  <2>1. y = NoTs
    BY <1>9
  <2>2. \A i \in 1..n : ~OpenIn(t, e, l, i)
    BY <1>6, <1>9, Zenon
  <2>. QED
    BY <1>2, <1>4, <1>5, <1>9, <2>1, <2>2, Zenon DEF PendingIs
<1>10. CASE l \notin Requested(f.id, f.pairs) /\ l \notin Answered(f.id, f.pairs)
  <2>1. y = IF x >= f.ts - PendingLimit THEN x ELSE NoTs
    BY <1>10
  <2>2. \A i \in 1..n : s[i].ts >= f.ts - PendingLimit <=> f.ts - s[i].ts <= PendingLimit
    BY <1>3
  <2>3. ASSUME y /= NoTs
        PROVE  \E i \in 1..(n + 1) : OpenIn(t, e, l, i) /\ y = t[i].ts
    <3>1. y = x /\ x >= f.ts - PendingLimit /\ x /= NoTs
      BY <2>1, <2>3
    <3>2. PICK i \in 1..n : OpenIn(s, e, l, i) /\ x = s[i].ts
      BY <1>7, <3>1
    <3>3. f.ts - s[i].ts <= PendingLimit
      BY <2>2, <3>1, <3>2
    <3>. QED
      BY <1>2, <1>4, <1>6, <1>10, <3>1, <3>2, <3>3, Zenon
  <2>4. ASSUME NEW i \in 1..(n + 1), OpenIn(t, e, l, i)
        PROVE  y = t[i].ts
    <3>1. i \in 1..n
      BY <1>4, <1>5, <1>10, <2>4, Zenon
    <3>2. OpenIn(s, e, l, i) /\ f.ts - s[i].ts <= PendingLimit
      BY <1>6, <2>4, <3>1, Zenon
    <3>3. x = s[i].ts /\ s[i].ts >= f.ts - PendingLimit
      BY <1>7, <2>2, <3>1, <3>2
    <3>. QED
      BY <1>2, <2>1, <3>1, <3>3
  <2>5. y \in Nat \cup {NoTs}
    BY <1>7, <2>1
  <2>. QED
    BY <1>2, <2>3, <2>4, <2>5, Zenon DEF PendingIs
<1>. QED
  BY <1>8, <1>9, <1>10

-----------------------------------------------------------------------------
(* The timing of an id.                                                    *)

\* The frames of id since frame r of stream s.
Mine(s, r, id) == Picked(s, {i \in DOMAIN s : i > r /\ s[i].id = id})

\* Record st is that of the frames q.
TimingIs(st, q) ==
    /\ st.count = Len(q)
    /\ st.lastTs = IF q = <<>> THEN NoTs ELSE q[Len(q)].ts
    /\ st.intervals = Latest(Gaps(q)) /\ st.intervals \in Seq(Nat)

\* One frame more of the id.
LEMMA TimingNext ==
    ASSUME NEW q \in Seq(Frames), NEW f \in Frames, NEW st, TimingIs(st, q),
           \A k \in 1..Len(q) : q[k].ts <= f.ts,
           NEW new, new = [count     |-> st.count + 1,
                           lastTs    |-> f.ts,
                           intervals |-> IF st.lastTs = NoTs THEN st.intervals
                                         ELSE PushBounded(st.intervals, f.ts - st.lastTs, MeasLen)]
    PROVE  TimingIs(new, Append(q, f))
<1>1. PICK n, a : n = Len(q) /\ a = Append(q, f)
  OBVIOUS
<1>2. /\ n \in Nat /\ a \in Seq(Frames) /\ Len(a) = n + 1 /\ a[n + 1] = f
      /\ a /= <<>> /\ \A k \in 1..n : a[k] = q[k]
  <2>1. /\ n \in Nat /\ a \in Seq(Frames) /\ Len(a) = n + 1 /\ a[n + 1] = f
        /\ \A k \in 1..n : a[k] = q[k]
    BY <1>1, AppendFacts
  <2>. QED
    BY <2>1
<1>3. /\ st.count = n /\ st.intervals = Latest(Gaps(q)) /\ st.intervals \in Seq(Nat)
      /\ st.lastTs = IF q = <<>> THEN NoTs ELSE q[n].ts
  BY <1>1 DEF TimingIs
<1>4. f.ts \in Nat
  BY DEF Frames
<1>5. new.count = n + 1 /\ new.lastTs = f.ts
      /\ new.intervals = IF st.lastTs = NoTs THEN st.intervals
                         ELSE PushBounded(st.intervals, f.ts - st.lastTs, MeasLen)
  BY <1>3
<1>6. CASE q = <<>>
  <2>1. n = 0 /\ Len(a) <= 1 /\ Len(q) <= 1
    BY <1>1, <1>2, <1>6
  <2>2. Gaps(a) = <<>> /\ Gaps(q) = <<>>
    BY <1>2, <2>1, GapsOfOne
  <2>3. new.intervals = st.intervals
    BY <1>3, <1>5, <1>6
  <2>. QED
    BY <1>1, <1>2, <1>3, <1>5, <2>2, <2>3, Zenon DEF TimingIs
<1>7. CASE q /= <<>>
  <2>1. n \in 1..n /\ q[n] \in Frames
    BY <1>1, <1>2, <1>7
  <2>2. q[n].ts \in Nat /\ q[n].ts <= f.ts
    <3>1. q[n].ts \in Nat
      BY <2>1 DEF Frames
    <3>. QED
      BY <1>1, <2>1, <3>1
  <2>3. st.lastTs = q[n].ts /\ st.lastTs /= NoTs
    <3>1. q[n].ts /= NoTs
      BY <2>2 DEF NoTs
    <3>. QED
      BY <1>3, <1>7, <3>1
  <2>4. PICK g, d : g = Gaps(q) /\ d = f.ts - q[n].ts
    OBVIOUS
  <2>5. g \in Seq(Int) /\ d \in Int /\ Gaps(a) = Append(g, d)
    BY <1>1, <1>7, <2>4, GapsAppend
  <2>6. new.intervals = PushBounded(st.intervals, d, MeasLen)
    BY <1>5, <2>3, <2>4
  <2>7. PushBounded(Latest(g), d, MeasLen) = Latest(Append(g, d))
    BY <2>5, LatestAppend
  <2>8. d \in Nat
    BY <1>4, <2>2, <2>4
  <2>9. new.intervals \in Seq(Nat)
    <3>1. PICK v, p : v = st.intervals /\ p = PushBounded(v, d, MeasLen)
      OBVIOUS
    <3>2. v \in Seq(Nat) /\ MeasLen \in Nat \ {0}
      BY <1>3, <3>1, StatsAssumption DEF StatsAssumption
    <3>3. Len(v) <= MeasLen
      BY <1>3, <2>4, <2>5, <3>1, <3>2, LatestFacts
    <3>4. p \in Seq(Nat)
      BY <2>8, <3>1, <3>2, <3>3, PushFacts
    <3>. QED
      BY <2>6, <3>1, <3>4
  <2>10. new.intervals = Latest(Gaps(a))
    BY <1>3, <2>4, <2>5, <2>6, <2>7, Zenon
  <2>. QED
    BY <1>1, <1>2, <1>5, <2>9, <2>10, Zenon DEF TimingIs
<1>. QED
  BY <1>6, <1>7

\* The frames of an id, one frame later.
LEMMA MineNext ==
    ASSUME NEW s \in Seq(Frames), NEW f \in Frames, NEW r \in 0..Len(s), NEW id
    PROVE  /\ f.id = id => Mine(Append(s, f), r, id) = Append(Mine(s, r, id), f)
           /\ f.id /= id => Mine(Append(s, f), r, id) = Mine(s, r, id)
<1>1. PICK n, t : n = Len(s) /\ t = Append(s, f)
  OBVIOUS
<1>2. /\ n \in Nat /\ t[n + 1] = f /\ DOMAIN t = 1..(n + 1) /\ DOMAIN s = 1..n
      /\ r <= n /\ r \in Nat /\ \A k \in 1..n : t[k] = s[k]
  BY <1>1, AppendFacts
<1>3. PICK S, U : /\ S = {i \in DOMAIN s : i > r /\ s[i].id = id}
                  /\ U = {i \in DOMAIN t : i > r /\ t[i].id = id}
  OBVIOUS
<1>4. \A i \in 1..n : i \in S <=> i \in U
  BY <1>2, <1>3
<1>5. n + 1 \in U <=> f.id = id
  BY <1>2, <1>3
<1>6. Picked(t, U) = IF n + 1 \in U THEN Append(Picked(s, U), f) ELSE Picked(s, U)
  <2>1. Picked(Append(s, f), U) = IF Len(s) + 1 \in U THEN Append(Picked(s, U), f)
                                  ELSE Picked(s, U)
    BY PickedAppend
  <2>. QED
    BY <1>1, <2>1, Zenon
<1>7. Picked(s, U) = Picked(s, S)
  BY <1>1, <1>4, PickedSame
<1>8. Mine(t, r, id) = Picked(t, U) /\ Mine(s, r, id) = Picked(s, S)
  BY <1>3 DEF Mine
<1>. QED
  BY <1>1, <1>5, <1>6, <1>7, <1>8, Zenon

\* They are frames of the stream, ...
LEMMA MineFacts ==
    ASSUME NEW s \in Seq(Frames), NEW r, NEW id, NEW q, q = Mine(s, r, id)
    PROVE  q \in Seq(Frames) /\ \A k \in 1..Len(q) : \E i \in 1..Len(s) : q[k] = s[i]
<1>1. PICK S : S = {i \in DOMAIN s : i > r /\ s[i].id = id}
  OBVIOUS
<1>2. PICK p, at : p = Picked(s, S) /\ at = InOrder(S, Len(s))
  OBVIOUS
<1>3. /\ p \in Seq(Frames) /\ Len(p) = Len(at)
      /\ \A k \in 1..Len(at) : at[k] \in 1..Len(s) /\ at[k] \in S
      /\ \A k \in 1..Len(at) : p[k] = s[at[k]]
  BY <1>2, PickedFacts
<1>4. q = p
  BY <1>1, <1>2 DEF Mine
<1>. QED
  BY <1>3, <1>4, Zenon

\* ... and there is none since the newest frame.
LEMMA MineNone ==
    ASSUME NEW s \in Seq(Frames), NEW r, r = Len(s), NEW id
    PROVE  Mine(s, r, id) = <<>>
<1>1. PICK S, none : S = {i \in DOMAIN s : i > r /\ s[i].id = id} /\ none = {}
  OBVIOUS
<1>2. \A i \in 1..Len(s) : i \in S <=> i \in none
  BY <1>1
<1>3. PICK p, at : p = Picked(s, none) /\ at = InOrder(none, Len(s))
  OBVIOUS
<1>4. Mine(s, r, id) = p
  BY <1>1, <1>2, <1>3, PickedSame DEF Mine
<1>5. /\ p \in Seq(Frames) /\ Len(p) = Len(at) /\ Len(at) \in Nat
      /\ \A k \in 1..Len(at) : at[k] \in 1..Len(s) /\ at[k] \in none
      /\ \A k \in 1..Len(at) : p[k] = s[at[k]]
  BY <1>3, PickedFacts
<1>6. Len(p) = 0
  BY <1>1, <1>5
<1>. QED
  BY <1>4, <1>5, <1>6

\* The record of no frame.
LEMMA TimingOfNone == TimingIs(NoStats, <<>>)
<1>1. PICK q : q = <<>>
  OBVIOUS
<1>2. q \in Seq(Frames) /\ Len(q) = 0 /\ Len(q) <= 1
  BY <1>1
<1>3. Gaps(q) = <<>>
  BY <1>2, GapsOfOne
<1>. QED
  BY <1>1, <1>2, <1>3, LatestOfNone DEF TimingIs, NoStats

-----------------------------------------------------------------------------
(* The invariant.                                                          *)

StreamOK ==
    /\ stream \in Seq(Frames) /\ InTime(stream) /\ Len(stream) <= MaxFrames
    /\ resetAt \in 0..Len(stream)
    /\ pairs \subseteq Pairs /\ epoch \in Nat /\ edits \in 0..MaxEdits /\ epoch <= edits
    /\ \A i \in 1..Len(stream) : stream[i].epoch <= epoch

LoadOK ==
    /\ WindowOf(loadWindow, stream, LastTs - Window)
    /\ sumBits = TotalBits(loadWindow)

LatencyOK ==
    /\ pending \in [Labels -> Nat \cup {NoTs}]
    /\ meas \in [Labels -> Seq(Nat)]
    /\ \A l \in Labels : /\ PendingIs(stream, epoch, l, pending[l])
                          /\ meas[l] = Latest(LatenciesOf(stream, l))

TimingOK ==
    /\ timing \in [Ids -> [count : Nat, lastTs : Nat \cup {NoTs}, intervals : Seq(Nat)]]
    /\ \A id \in Ids : TimingIs(timing[id], Mine(stream, resetAt, id))

\* Each statistic is the same function of the stream, whatever the operations
\* that led there.
IInv == StreamOK /\ LoadOK /\ LatencyOK /\ TimingOK

\* The labels of what a file can name.
LEMMA FilesOfPairs == \A file \in Files : LoadPairs(file) \subseteq Pairs
<1>1. \A file \in Files : file \subseteq Entries
  BY DEF Files
<1>. QED
  BY <1>1 DEF LoadPairs, Pairs

\* The time of the newest frame is a number.
LEMMA NewestTime ==
    ASSUME StreamOK
    PROVE  /\ LastTs \in Nat
           /\ stream /= <<>> => LastTs = stream[Len(stream)].ts
           /\ \A i \in 1..Len(stream) : stream[i].ts <= LastTs
<1>1. PICK n : n = Len(stream)
  OBVIOUS
<1>2. stream \in Seq(Frames) /\ n \in Nat /\ InTime(stream)
  BY <1>1 DEF StreamOK
<1>3. CASE stream = <<>>
  BY <1>1, <1>2, <1>3 DEF LastTs
<1>4. CASE stream /= <<>>
  <2>1. n \in 1..n
    BY <1>1, <1>2, <1>4
  <2>2. LastTs = stream[n].ts
    BY <1>1, <1>4 DEF LastTs, Last
  <2>3. stream[n] \in Frames
    BY <1>1, <1>2, <2>1
  <2>4. stream[n].ts \in Nat
    BY <2>3 DEF Frames
  <2>5. \A i \in 1..n : i <= n
    BY <1>2
  <2>6. \A i \in 1..n : stream[i].ts <= stream[n].ts
    BY <1>1, <1>2, <2>1, <2>5 DEF InTime
  <2>. QED
    BY <1>1, <2>2, <2>4, <2>6
<1>. QED
  BY <1>3, <1>4

\* The statistics of nothing.
LEMMA InitIInv == Init => IInv
<1>. SUFFICES ASSUME Init PROVE IInv
  OBVIOUS
<1>1. stream = <<>> /\ Len(stream) = 0 /\ 1..Len(stream) = {} /\ stream \in Seq(Frames)
  BY DEF Init
<1>2. StreamOK
  BY <1>1, FilesOfPairs, StatsAssumption DEF Init, StatsAssumption, StreamOK, InTime
<1>3. LoadOK
  <2>1. loadWindow = <<>> /\ Len(loadWindow) = 0 /\ loadWindow \in Seq(WindowEntries)
    BY DEF Init
  <2>2. \A c : WindowOf(loadWindow, stream, c)
    BY <1>1, <2>1 DEF WindowOf
  <2>3. sumBits = TotalBits(loadWindow)
    BY TotalOfNone DEF Init
  <2>. QED
    BY <2>2, <2>3 DEF LoadOK
<1>4. LatencyOK
  <2>1. ASSUME NEW l \in Labels
        PROVE  /\ pending[l] = NoTs /\ meas[l] = <<>>
               /\ PendingIs(stream, epoch, l, pending[l])
               /\ meas[l] = Latest(LatenciesOf(stream, l))
    <3>1. pending[l] = NoTs /\ meas[l] = <<>>
      BY DEF Init
    <3>2. PendingIs(stream, epoch, l, pending[l])
      BY <1>1, <3>1 DEF PendingIs
    <3>3. LatenciesOf(stream, l) = <<>>
      BY <1>1, NoLatencies
    <3>. QED
      BY <3>1, <3>2, <3>3, LatestOfNone
  <2>2. pending \in [Labels -> Nat \cup {NoTs}] /\ meas \in [Labels -> Seq(Nat)]
    BY DEF Init
  <2>. QED
    BY <2>1, <2>2 DEF LatencyOK
<1>5. TimingOK
  <2>1. timing \in [Ids -> [count : Nat, lastTs : Nat \cup {NoTs}, intervals : Seq(Nat)]]
    BY DEF Init, NoTiming, NoStats
  <2>2. ASSUME NEW id \in Ids PROVE TimingIs(timing[id], Mine(stream, resetAt, id))
    <3>1. resetAt = Len(stream) /\ timing[id] = NoStats
      BY <1>1 DEF Init, NoTiming
    <3>. QED
      BY <1>1, <3>1, MineNone, TimingOfNone
  <2>. QED
    BY <2>1, <2>2 DEF TimingOK
<1>. QED
  BY <1>2, <1>3, <1>4, <1>5 DEF IInv

\* The endpoint that replaces the pairs forgets what is pending: no request of
\* an earlier epoch waits in the new one.
LEMMA SetPairsKeeps ==
    ASSUME IInv, NEW file \in Files, SetPairs(file)
    PROVE  IInv'
<1>1. StreamOK /\ LoadOK /\ LatencyOK /\ TimingOK
  BY DEF IInv
<1>2. /\ stream' = stream /\ resetAt' = resetAt /\ loadWindow' = loadWindow
      /\ sumBits' = sumBits /\ meas' = meas /\ timing' = timing /\ epoch' = epoch + 1
      /\ edits' = edits + 1 /\ edits < MaxEdits /\ pending' = [l \in Labels |-> NoTs]
      /\ pairs' = LoadPairs(file)
  BY DEF SetPairs, load
<1>3. StreamOK'
  <2>1. \A i \in 1..Len(stream) : stream[i] \in Frames
    BY <1>1 DEF StreamOK
  <2>2. \A i \in 1..Len(stream) : stream[i].epoch <= epoch /\ stream[i].epoch \in Nat
    BY <1>1, <2>1 DEF StreamOK, Frames
  <2>3. epoch \in Nat /\ edits \in 0..MaxEdits /\ epoch <= edits /\ MaxEdits \in Nat
    BY <1>1, StatsAssumption DEF StreamOK, StatsAssumption
  <2>4. \A i \in 1..Len(stream) : stream[i].epoch <= epoch + 1
    BY <2>2, <2>3
  <2>5. epoch + 1 \in Nat /\ edits + 1 \in 0..MaxEdits /\ epoch + 1 <= edits + 1
    BY <1>2, <2>3
  <2>. QED
    BY <1>1, <1>2, <2>4, <2>5, FilesOfPairs DEF StreamOK
<1>4. LoadOK'
  BY <1>1, <1>2 DEF LoadOK, LastTs
<1>5. TimingOK'
  BY <1>1, <1>2 DEF TimingOK
<1>6. LatencyOK'
  <2>1. ASSUME NEW l \in Labels PROVE PendingIs(stream, epoch + 1, l, NoTs)
    <3>1. ASSUME NEW i \in 1..Len(stream) PROVE ~OpenIn(stream, epoch + 1, l, i)
      <4>1. stream[i] \in Frames /\ stream[i].epoch <= epoch /\ epoch \in Nat
        BY <1>1 DEF StreamOK
      <4>2. stream[i].epoch \in Nat
        BY <4>1 DEF Frames
      <4>3. stream[i].epoch /= epoch + 1
        BY <4>1, <4>2
      <4>. QED
        BY <4>3 DEF OpenIn
    <3>. QED
      BY <3>1 DEF PendingIs
  <2>. QED
    BY <1>1, <1>2, <2>1 DEF LatencyOK
<1>. QED
  BY <1>3, <1>4, <1>5, <1>6 DEF IInv

\* The endpoint that resets the timing starts every id afresh.
LEMMA ResetKeeps ==
    ASSUME IInv, ResetTiming
    PROVE  IInv'
<1>1. StreamOK /\ LoadOK /\ LatencyOK /\ TimingOK
  BY DEF IInv
<1>2. /\ stream' = stream /\ resetAt' = Len(stream) /\ loadWindow' = loadWindow
      /\ sumBits' = sumBits /\ meas' = meas /\ timing' = NoTiming /\ epoch' = epoch
      /\ edits' = edits + 1 /\ edits < MaxEdits /\ pending' = pending /\ pairs' = pairs
  BY DEF ResetTiming, load, latency
<1>3. StreamOK'
  <2>1. /\ edits \in 0..MaxEdits /\ epoch \in Nat /\ epoch <= edits /\ MaxEdits \in Nat
        /\ Len(stream) \in Nat
    BY <1>1, StatsAssumption DEF StreamOK, StatsAssumption
  <2>2. edits + 1 \in 0..MaxEdits /\ epoch <= edits + 1 /\ Len(stream) \in 0..Len(stream)
    BY <1>2, <2>1
  <2>. QED
    BY <1>1, <1>2, <2>2 DEF StreamOK
<1>4. LoadOK'
  BY <1>1, <1>2 DEF LoadOK, LastTs
<1>5. LatencyOK'
  BY <1>1, <1>2 DEF LatencyOK
<1>6. TimingOK'
  <2>1. NoTiming \in [Ids -> [count : Nat, lastTs : Nat \cup {NoTs}, intervals : Seq(Nat)]]
    BY DEF NoTiming, NoStats
  <2>2. ASSUME NEW id \in Ids PROVE TimingIs(NoTiming[id], Mine(stream, Len(stream), id))
    <3>1. NoTiming[id] = NoStats /\ stream \in Seq(Frames)
      BY <1>1 DEF NoTiming, StreamOK
    <3>. QED
      BY <3>1, MineNone, TimingOfNone
  <2>. QED
    BY <1>2, <2>1, <2>2 DEF TimingOK
<1>. QED
  BY <1>3, <1>4, <1>5, <1>6 DEF IInv

\* What a frame is in the stream.
Frame(id, ts) == [id |-> id, ts |-> ts, pairs |-> pairs, epoch |-> epoch]

\* The next frame of the stream.
LEMMA FrameNext ==
    ASSUME StreamOK, NEW id \in Ids, NEW gap \in 0..MaxGap,
           NEW f, f = Frame(id, LastTs + gap), NEW t, t = Append(stream, f)
    PROVE  /\ f \in Frames /\ f.id = id /\ f.ts = LastTs + gap
           /\ f.pairs = pairs /\ f.epoch = epoch
           /\ LastTs <= f.ts /\ InTime(t)
<1>1. PICK n, ts : n = Len(stream) /\ ts = LastTs + gap
  OBVIOUS
<1>2. LastTs \in Nat /\ \A i \in 1..n : stream[i].ts <= LastTs
  BY <1>1, NewestTime
<1>3. ts \in Nat /\ LastTs <= ts
  BY <1>1, <1>2, StatsAssumption DEF StatsAssumption
<1>4. f.id = id /\ f.ts = ts /\ f.pairs = pairs /\ f.epoch = epoch
  BY <1>1 DEF Frame
<1>5. f \in Frames
  <2>1. pairs \in SUBSET Pairs /\ epoch \in Nat
    BY DEF StreamOK
  <2>. QED
    BY <1>1, <1>3, <2>1 DEF Frame, Frames
<1>6. InTime(t)
  <2>1. /\ stream \in Seq(Frames) /\ n \in Nat
        /\ \A i, j \in 1..n : i <= j => stream[i].ts <= stream[j].ts
    BY <1>1 DEF StreamOK, InTime
  <2>2. Len(t) = n + 1 /\ t[n + 1] = f /\ \A k \in 1..n : t[k] = stream[k]
    BY <1>1, <1>5, <2>1, AppendFacts
  <2>3. \A i \in 1..n : stream[i].ts <= f.ts
    <3>1. SUFFICES ASSUME NEW i \in 1..n PROVE stream[i].ts <= f.ts
      OBVIOUS
    <3>2. stream[i] \in Frames
      BY <1>1, <2>1
    <3>3. stream[i].ts \in Nat
      BY <3>2 DEF Frames
    <3>. QED
      BY <1>2, <1>3, <1>4, <3>3
  <2>4. SUFFICES ASSUME NEW i \in 1..(n + 1), NEW j \in 1..(n + 1), i <= j
                 PROVE  t[i].ts <= t[j].ts
    BY <2>2 DEF InTime
  <2>5. CASE i \in 1..n /\ j \in 1..n
    BY <2>1, <2>2, <2>4, <2>5
  <2>6. CASE i \in 1..n /\ j = n + 1
    BY <2>2, <2>3, <2>6
  <2>7. CASE i = n + 1
    <3>1. j = n + 1
      BY <2>1, <2>4, <2>7
    <3>2. t[i].ts \in Nat
      BY <1>3, <1>4, <2>2, <2>7
    <3>3. i = j /\ \A x \in Nat : x <= x
      BY <2>7, <3>1
    <3>. QED
      BY <3>2, <3>3, Zenon
  <2>8. (i \in 1..n \/ i = n + 1) /\ (j \in 1..n \/ j = n + 1)
    BY <2>1
  <2>. QED
    BY <2>5, <2>6, <2>7, <2>8
<1>. QED
  BY <1>1, <1>3, <1>4, <1>5, <1>6

\* A frame through the monitors: the window moves, the sum follows it, ...
LEMMA RecordKeeps ==
    ASSUME StreamOK, LoadOK, NEW f \in Frames, LastTs <= f.ts,
           NEW t, t = Append(stream, f), InTime(t), Record(f.id, f.ts)
    PROVE  /\ WindowOf(loadWindow', t, f.ts - Window)
           /\ sumBits' = TotalBits(loadWindow')
<1>1. PICK w, c, id, ts : w = loadWindow /\ c = LastTs - Window /\ id = f.id /\ ts = f.ts
  OBVIOUS
<1>2. id \in Ids /\ ts \in Nat
  BY <1>1 DEF Frames
<1>3. LastTs \in Nat /\ Window \in Nat /\ stream \in Seq(Frames) /\ LastTs <= ts
  BY <1>1, NewestTime, StatsAssumption DEF StatsAssumption, StreamOK
<1>4. c \in Int /\ c <= ts - Window
  BY <1>1, <1>2, <1>3
<1>5. PICK e, all, first : /\ e = Entry(id, ts) /\ all = Append(w, e)
                           /\ first = FirstYoung(all, ts - Window)
  OBVIOUS
<1>6. e \in WindowEntries /\ e.bits = FrameBits(Dlc(id))
  BY <1>2, <1>5, EntryType DEF Entry
<1>7. WindowOf(w, stream, c) /\ w \in Seq(WindowEntries) /\ sumBits = TotalBits(w)
  BY <1>1 DEF LoadOK, WindowOf
<1>8. /\ all \in Seq(WindowEntries) /\ first \in 1..Len(all)
      /\ WindowOf(SubSeq(all, first, Len(all)), t, f.ts - Window)
  <2>1. /\ all = Append(w, Entry(f.id, f.ts)) /\ first = FirstYoung(all, f.ts - Window)
        /\ c <= f.ts - Window
    BY <1>1, <1>4, <1>5
  <2>. QED
    BY <1>3, <1>4, <1>7, <2>1, WindowNext
<1>9. TotalBits(SubSeq(all, first, Len(all)))
         = (TotalBits(w) + e.bits) - TotalBits(SubSeq(all, 1, first - 1))
  <2>1. all = Append(w, e)
    BY <1>5
  <2>. QED
    BY <1>6, <1>7, <1>8, <2>1, SumNext
<1>10. /\ loadWindow' = SubSeq(all, first, Len(all))
       /\ sumBits' = sumBits + (FrameBits(Dlc(id)) - TotalBits(SubSeq(all, 1, first - 1)))
  BY <1>1, <1>5, Zenon DEF Record
<1>11. sumBits' = TotalBits(SubSeq(all, first, Len(all)))
  <2>1. PICK a, b, d : a = TotalBits(w) /\ b = e.bits /\ d = TotalBits(SubSeq(all, 1, first - 1))
    OBVIOUS
  <2>2. a \in Nat /\ b \in Nat /\ d \in Nat
    <3>1. SubSeq(all, 1, first - 1) \in Seq(WindowEntries)
      BY <1>8, CutInTwo
    <3>. QED
      BY <1>6, <1>7, <2>1, <3>1, TotalIsNumber DEF WindowEntries
  <2>3. \A x, y, z \in Nat : x + (y - z) = (x + y) - z
    OBVIOUS
  <2>4. sumBits' = a + (b - d) /\ TotalBits(SubSeq(all, first, Len(all))) = (a + b) - d
    BY <1>6, <1>7, <1>9, <1>10, <2>1, Zenon
  <2>. QED
    BY <2>2, <2>3, <2>4, Zenon
<1>. QED
  BY <1>8, <1>10, <1>11, Zenon

\* ... each label is matched against the request that waits, ...
LEMMA IngestKeeps ==
    ASSUME StreamOK, LatencyOK, NEW f \in Frames, f.pairs = pairs, f.epoch = epoch,
           LastTs <= f.ts, NEW t, t = Append(stream, f), InTime(t),
           IngestLatency(f.id, f.ts)
    PROVE  /\ pending' \in [Labels -> Nat \cup {NoTs}]
           /\ meas' \in [Labels -> Seq(Nat)]
           /\ \A l \in Labels : /\ PendingIs(t, epoch, l, pending'[l])
                                 /\ meas'[l] = Latest(LatenciesOf(t, l))
<1>1. PICK n, id, ts : n = Len(stream) /\ id = f.id /\ ts = f.ts
  OBVIOUS
<1>2. f.id = id /\ f.ts = ts /\ f.pairs = pairs /\ f.epoch = epoch /\ LastTs <= ts
  BY <1>1
<1>3. /\ stream \in Seq(Frames) /\ n \in Nat /\ LastTs \in Nat /\ ts \in Nat
      /\ \A i \in 1..n : stream[i].ts <= LastTs
  BY <1>1, <1>2, NewestTime DEF Frames, StreamOK
<1>. DEFINE hits == {l \in Answered(id, pairs) : pending[l] # NoTs}
            noted == [l \in Labels |->
                         IF l \in Requested(id, pairs) THEN ts
                         ELSE IF l \in hits THEN NoTs ELSE pending[l]]
<1>4. /\ meas' = [l \in Labels |->
                      IF l \in hits THEN PushBounded(meas[l], ts - pending[l], MeasLen)
                      ELSE meas[l]]
      /\ pending' = [l \in Labels |->
                         IF noted[l] >= ts - PendingLimit THEN noted[l] ELSE NoTs]
  BY <1>1, Zenon DEF IngestLatency
<1>5. ASSUME NEW l \in Labels
      PROVE  /\ pending'[l] \in Nat \cup {NoTs} /\ PendingIs(t, epoch, l, pending'[l])
             /\ meas'[l] \in Seq(Nat) /\ meas'[l] = Latest(LatenciesOf(t, l))
  <2>1. /\ pending[l] \in Nat \cup {NoTs} /\ PendingIs(stream, epoch, l, pending[l])
        /\ meas[l] \in Seq(Nat) /\ meas[l] = Latest(LatenciesOf(stream, l))
    BY <1>5 DEF LatencyOK
  <2>2. PICK x, m : x = pending[l] /\ m = meas[l]
    OBVIOUS
  <2>3. PICK d, y : /\ d = noted[l]
                    /\ y = IF d >= f.ts - PendingLimit THEN d ELSE NoTs
    OBVIOUS
  <2>4. d = IF l \in Requested(f.id, f.pairs) THEN f.ts
            ELSE IF l \in Answered(f.id, f.pairs) /\ x /= NoTs THEN NoTs ELSE x
    BY <1>2, <2>2, <2>3
  <2>5. PendingIs(stream, epoch, l, x)
    BY <2>1, <2>2
  <2>6. PendingIs(t, epoch, l, y)
    BY <1>2, <1>3, <2>3, <2>4, <2>5, PendingNext
  <2>7. pending'[l] = y
    BY <1>2, <1>4, <2>3
  <2>8. PICK p, q : p = LatenciesOf(stream, l) /\ q = LatenciesOf(t, l)
    OBVIOUS
  <2>9. /\ p \in Seq(Int)
        /\ (\A i \in 1..n : ~AnswersIn(t, l, i, n + 1)) => q = p
        /\ \A i \in 1..n : AnswersIn(t, l, i, n + 1) => q = Append(p, f.ts - stream[i].ts)
    <3>1. /\ LatenciesOf(stream, l) \in Seq(Int)
          /\ (\A i \in 1..Len(stream) : ~AnswersIn(Append(stream, f), l, i, Len(stream) + 1)) =>
                LatenciesOf(Append(stream, f), l) = LatenciesOf(stream, l)
          /\ \A i \in 1..Len(stream) : AnswersIn(Append(stream, f), l, i, Len(stream) + 1) =>
                LatenciesOf(Append(stream, f), l)
                   = Append(LatenciesOf(stream, l), f.ts - stream[i].ts)
      BY <1>3, LatenciesNext, Zenon
    <3>2. t = Append(stream, f)
      OBVIOUS
    <3>. QED
      BY <1>1, <2>8, <3>1, <3>2, Zenon
  <2>10. \A i \in 1..n : AnswersIn(t, l, i, n + 1) <=> /\ OpenIn(stream, epoch, l, i)
                                                      /\ l \in Answered(id, pairs)
    <3>1. \A i \in 1..n : AnswersIn(t, l, i, n + 1) <=> /\ OpenIn(stream, f.epoch, l, i)
                                                        /\ l \in Answered(f.id, f.pairs)
      BY <1>1, <1>2, <1>3, AnswersOpen
    <3>. QED
      BY <1>2, <3>1, Zenon
  <2>11. CASE l \in hits
    <3>1. l \in Answered(id, pairs) /\ x /= NoTs
      BY <2>2, <2>11
    <3>2. PICK i \in 1..n : OpenIn(stream, epoch, l, i) /\ x = stream[i].ts
      BY <1>1, <2>5, <3>1 DEF PendingIs
    <3>3. PICK g : g = ts - x
      OBVIOUS
    <3>4. q = Append(p, g)
      BY <1>2, <2>9, <2>10, <3>1, <3>2, <3>3
    <3>5. g \in Nat
      <4>1. stream[i] \in Frames /\ stream[i].ts <= LastTs
        BY <1>1, <1>3, <3>2
      <4>2. x \in Nat
        BY <3>2, <4>1 DEF Frames
      <4>. QED
        BY <1>2, <1>3, <3>2, <3>3, <4>1, <4>2
    <3>6. meas'[l] = PushBounded(m, g, MeasLen)
      BY <1>4, <2>2, <2>11, <3>3
    <3>7. PushBounded(Latest(p), g, MeasLen) = Latest(Append(p, g))
      BY <2>9, <3>5, LatestAppend
    <3>8. MeasLen \in Nat \ {0} /\ Len(m) <= MeasLen /\ m \in Seq(Nat)
      <4>1. MeasLen \in Nat \ {0}
        BY StatsAssumption DEF StatsAssumption
      <4>2. m = Latest(p)
        BY <2>1, <2>2, <2>8
      <4>. QED
        BY <2>1, <2>2, <2>9, <4>1, <4>2, LatestFacts
    <3>9. PICK r : r = PushBounded(m, g, MeasLen)
      OBVIOUS
    <3>10. r \in Seq(Nat)
      BY <3>5, <3>8, <3>9, PushFacts
    <3>11. r = Latest(q)
      BY <2>1, <2>2, <2>8, <3>4, <3>7, <3>9, Zenon
    <3>. QED
      BY <2>6, <2>7, <2>8, <3>6, <3>9, <3>10, <3>11, Zenon DEF PendingIs
  <2>12. CASE l \notin hits
    <3>1. \A i \in 1..n : ~AnswersIn(t, l, i, n + 1)
      <4>1. SUFFICES ASSUME NEW i \in 1..n, OpenIn(stream, epoch, l, i), l \in Answered(id, pairs)
                     PROVE  FALSE
        BY <2>10
      <4>2. x = stream[i].ts
        BY <1>1, <2>5, <4>1 DEF PendingIs
      <4>3. stream[i] \in Frames
        BY <1>1, <1>3, <4>1
      <4>4. x /= NoTs
        BY <4>2, <4>3 DEF Frames, NoTs
      <4>. QED
        BY <2>2, <2>12, <4>1, <4>4
    <3>2. meas'[l] = m
      BY <1>4, <2>2, <2>12
    <3>. QED
      BY <2>1, <2>2, <2>6, <2>7, <2>8, <2>9, <3>1, <3>2, Zenon DEF PendingIs
  <2>. QED
    BY <2>11, <2>12
<1>6. \A u, R : u = [l \in Labels |-> u[l]] /\ (\A l \in Labels : u[l] \in R) => u \in [Labels -> R]
  OBVIOUS
<1>7. pending' = [l \in Labels |-> pending'[l]] /\ meas' = [l \in Labels |-> meas'[l]]
  BY <1>4
<1>. QED
  BY <1>5, <1>6, <1>7, Zenon

\* ... and the record of its id takes one more.
LEMMA TimingKeeps ==
    ASSUME StreamOK, TimingOK, NEW f \in Frames, LastTs <= f.ts,
           NEW t, t = Append(stream, f), RecordTiming(f.id, f.ts)
    PROVE  /\ timing' \in [Ids -> [count : Nat, lastTs : Nat \cup {NoTs}, intervals : Seq(Nat)]]
           /\ \A o \in Ids : TimingIs(timing'[o], Mine(t, resetAt, o))
<1>1. PICK n, id, ts : n = Len(stream) /\ id = f.id /\ ts = f.ts
  OBVIOUS
<1>2. id \in Ids /\ f.id = id /\ f.ts = ts /\ LastTs <= ts
  BY <1>1 DEF Frames
<1>3. /\ stream \in Seq(Frames) /\ n \in Nat /\ LastTs \in Nat /\ ts \in Nat
      /\ resetAt \in 0..n /\ \A i \in 1..n : stream[i].ts <= LastTs
  BY <1>1, <1>2, NewestTime DEF Frames, StreamOK
<1>4. PICK st, q, new :
        /\ st = timing[id] /\ q = Mine(stream, resetAt, id)
        /\ new = [count     |-> st.count + 1,
                  lastTs    |-> f.ts,
                  intervals |-> IF st.lastTs = NoTs THEN st.intervals
                                ELSE PushBounded(st.intervals, f.ts - st.lastTs, MeasLen)]
  OBVIOUS
<1>5. timing' = [timing EXCEPT ![id] = new]
  BY <1>1, <1>2, <1>4 DEF RecordTiming
<1>6. TimingIs(st, q) /\ st.count \in Nat
  BY <1>2, <1>4 DEF TimingOK
<1>7. q \in Seq(Frames) /\ \A k \in 1..Len(q) : q[k].ts <= f.ts
  <2>1. q \in Seq(Frames) /\ \A k \in 1..Len(q) : \E i \in 1..n : q[k] = stream[i]
    BY <1>1, <1>3, <1>4, MineFacts
  <2>2. SUFFICES ASSUME NEW k \in 1..Len(q) PROVE q[k].ts <= f.ts
    BY <2>1
  <2>3. PICK i \in 1..n : q[k] = stream[i]
    BY <2>1
  <2>4. stream[i] \in Frames
    BY <1>1, <1>3, <2>3
  <2>5. stream[i].ts \in Nat
    BY <2>4 DEF Frames
  <2>. QED
    BY <1>2, <1>3, <2>3, <2>5
<1>8. TimingIs(new, Append(q, f))
  BY <1>2, <1>4, <1>6, <1>7, TimingNext
<1>9. new \in [count : Nat, lastTs : Nat \cup {NoTs}, intervals : Seq(Nat)]
  <2>1. new.intervals \in Seq(Nat)
    BY <1>8 DEF TimingIs
  <2>2. st.count + 1 \in Nat /\ f.ts \in Nat \cup {NoTs}
    BY <1>2, <1>3, <1>6
  <2>. QED
    BY <1>4, <2>1, <2>2
<1>10. \A o \in Ids : Mine(t, resetAt, o) = IF o = id THEN Append(Mine(stream, resetAt, o), f)
                                           ELSE Mine(stream, resetAt, o)
  <2>1. resetAt \in 0..Len(stream) /\ stream \in Seq(Frames)
    BY <1>1, <1>3
  <2>2. ASSUME NEW o
        PROVE  /\ f.id = o => Mine(Append(stream, f), resetAt, o) = Append(Mine(stream, resetAt, o), f)
               /\ f.id /= o => Mine(Append(stream, f), resetAt, o) = Mine(stream, resetAt, o)
    BY <2>1, MineNext, Zenon
  <2>3. t = Append(stream, f)
    OBVIOUS
  <2>. QED
    BY <1>2, <2>2, <2>3, Zenon
<1>11. ASSUME NEW o \in Ids PROVE TimingIs(timing'[o], Mine(t, resetAt, o))
  <2>1. timing'[o] = IF o = id THEN new ELSE timing[o]
    BY <1>5 DEF TimingOK
  <2>2. TimingIs(timing[o], Mine(stream, resetAt, o))
    BY DEF TimingOK
  <2>. QED
    BY <1>4, <1>8, <1>10, <2>1, <2>2, Zenon
<1>12. timing' \in [Ids -> [count : Nat, lastTs : Nat \cup {NoTs}, intervals : Seq(Nat)]]
  BY <1>5, <1>9 DEF TimingOK
<1>. QED
  BY <1>11, <1>12

\* A frame through all three monitors.
LEMMA PublishKeeps ==
    ASSUME IInv, NEW id \in Ids, NEW gap \in 0..MaxGap, Publish(id, gap)
    PROVE  IInv'
<1>1. StreamOK /\ LoadOK /\ LatencyOK /\ TimingOK
  BY DEF IInv
<1>2. PICK n, f : n = Len(stream) /\ f = Frame(id, LastTs + gap)
  OBVIOUS
<1>3. /\ n < MaxFrames /\ stream' = Append(stream, f)
      /\ Record(id, LastTs + gap) /\ RecordTiming(id, LastTs + gap)
      /\ IngestLatency(id, LastTs + gap)
      /\ pairs' = pairs /\ resetAt' = resetAt /\ epoch' = epoch /\ edits' = edits
  BY <1>2 DEF Publish, Frame
<1>4. /\ f \in Frames /\ f.id = id /\ f.ts = LastTs + gap
      /\ f.pairs = pairs /\ f.epoch = epoch
      /\ LastTs <= f.ts /\ InTime(stream')
  <2>1. PICK t : t = Append(stream, f)
    OBVIOUS
  <2>2. /\ f \in Frames /\ f.id = id /\ f.ts = LastTs + gap
        /\ f.pairs = pairs /\ f.epoch = epoch
        /\ LastTs <= f.ts /\ InTime(t)
    <3>1. StreamOK /\ f = Frame(id, LastTs + gap)
      BY <1>1, <1>2
    <3>2. f \in Frames /\ f.id = id /\ f.ts = LastTs + gap
      BY <2>1, <3>1, FrameNext
    <3>3. f.pairs = pairs /\ f.epoch = epoch
      BY <3>1 DEF Frame
    <3>4. LastTs <= f.ts /\ InTime(t)
      BY <2>1, <3>1, FrameNext
    <3>. QED
      BY <3>2, <3>3, <3>4
  <2>. QED
    BY <1>3, <2>1, <2>2
<1>5. /\ stream' \in Seq(Frames) /\ Len(stream') = n + 1 /\ stream'[n + 1] = f
      /\ n \in Nat /\ \A k \in 1..n : stream'[k] = stream[k]
  BY <1>1, <1>2, <1>3, <1>4, AppendFacts DEF StreamOK
<1>6. StreamOK'
  <2>1. n + 1 <= MaxFrames
    BY <1>3, <1>5, StatsAssumption DEF StatsAssumption
  <2>2. resetAt \in 0..(n + 1)
    BY <1>1, <1>2, <1>5 DEF StreamOK
  <2>3. \A i \in 1..(n + 1) : stream'[i].epoch <= epoch
    <3>1. \A i \in 1..(n + 1) : i \in 1..n \/ i = n + 1
      BY <1>5
    <3>2. epoch <= epoch
      BY <1>1 DEF StreamOK
    <3>3. \A i \in 1..n : stream[i].epoch <= epoch
      BY <1>1, <1>2 DEF StreamOK
    <3>. QED
      BY <1>4, <1>5, <3>1, <3>2, <3>3, Zenon
  <2>. QED
    BY <1>1, <1>3, <1>4, <1>5, <2>1, <2>2, <2>3 DEF StreamOK
<1>7. LoadOK'
  <2>1. /\ WindowOf(loadWindow', stream', f.ts - Window)
        /\ sumBits' = TotalBits(loadWindow')
    BY <1>1, <1>3, <1>4, RecordKeeps
  <2>2. LastTs' = f.ts
    <3>1. stream' /= <<>>
      BY <1>5
    <3>. QED
      BY <1>5, <3>1 DEF LastTs, Last
  <2>. QED
    BY <2>1, <2>2 DEF LoadOK
<1>8. LatencyOK'
  BY <1>1, <1>3, <1>4, IngestKeeps DEF LatencyOK
<1>9. TimingOK'
  BY <1>1, <1>3, <1>4, TimingKeeps DEF TimingOK
<1>. QED
  BY <1>6, <1>7, <1>8, <1>9 DEF IInv

\* Every statistic of the server is, after every step, its function of the
\* stream (server.py:180-184).
THEOREM StatsInvariant == Spec => []IInv
<1>1. IInv /\ [Next]_vars => IInv'
  <2>. SUFFICES ASSUME IInv, [Next]_vars PROVE IInv'
    OBVIOUS
  <2>1. ASSUME NEW id \in Ids, NEW gap \in 0..MaxGap, Publish(id, gap) PROVE IInv'
    BY <2>1, PublishKeeps
  <2>2. ASSUME NEW file \in Files, SetPairs(file) PROVE IInv'
    BY <2>2, SetPairsKeeps
  <2>3. ASSUME ResetTiming PROVE IInv'
    BY <2>3, ResetKeeps
  <2>4. CASE UNCHANGED vars
    BY <2>4 DEF IInv, StreamOK, LoadOK, LatencyOK, TimingOK, LastTs,
                vars, load, latency, history
  <2>. QED
    BY <2>1, <2>2, <2>3, <2>4 DEF Next
<1>. QED
  BY InitIInv, <1>1, PTL DEF Spec

-----------------------------------------------------------------------------
(* The properties the runs check.                                          *)

\* What the invariant says of the types.
LEMMA TypesFollow == IInv => TypeOK
<1>. SUFFICES ASSUME IInv PROVE TypeOK
  OBVIOUS
<1>1. StreamOK /\ LoadOK /\ LatencyOK /\ TimingOK
  BY DEF IInv
<1>2. loadWindow \in Seq([ts : Nat, bits : Nat]) /\ sumBits \in Nat
  BY <1>1, TotalIsNumber DEF LoadOK, WindowOf, WindowEntries
<1>3. ASSUME NEW l \in Labels PROVE meas[l] \in Seq(Nat) /\ Len(meas[l]) <= MeasLen
  <2>1. PICK p, m : p = LatenciesOf(stream, l) /\ m = meas[l]
    OBVIOUS
  <2>2. p \in Seq(Int)
    BY <1>1, <2>1, LatenciesType DEF StreamOK
  <2>3. m \in Seq(Nat) /\ m = Latest(p)
    BY <1>1, <2>1 DEF LatencyOK
  <2>4. Len(m) <= MeasLen
    BY <2>2, <2>3, LatestShort
  <2>. QED
    BY <2>1, <2>3, <2>4
<1>4. ASSUME NEW id \in Ids
      PROVE  /\ timing[id].count \in Nat /\ timing[id].lastTs \in Nat \cup {NoTs}
             /\ timing[id].intervals \in Seq(Nat) /\ Len(timing[id].intervals) <= MeasLen
  <2>1. PICK q, g, v : q = Mine(stream, resetAt, id) /\ g = Gaps(q) /\ v = timing[id].intervals
    OBVIOUS
  <2>2. q \in Seq(Frames)
    BY <1>1, <2>1, MineFacts DEF StreamOK
  <2>3. g \in Seq(Int)
    BY <2>1, <2>2, GapsType
  <2>4. v = Latest(g)
    BY <1>1, <2>1 DEF TimingOK, TimingIs
  <2>5. Len(v) <= MeasLen
    BY <2>3, <2>4, LatestShort
  <2>6. timing[id] \in [count : Nat, lastTs : Nat \cup {NoTs}, intervals : Seq(Nat)]
    BY <1>1 DEF TimingOK
  <2>. QED
    BY <2>1, <2>5, <2>6
<1>5. /\ pairs \subseteq Pairs /\ pending \in [Labels -> Nat \cup {NoTs}]
      /\ Len(stream) <= MaxFrames /\ resetAt \in 0..Len(stream) /\ edits \in 0..MaxEdits
  BY <1>1 DEF StreamOK, LatencyOK
<1>6. epoch \in 0..MaxEdits
  <2>1. epoch \in Nat /\ edits \in 0..MaxEdits /\ epoch <= edits /\ MaxEdits \in Nat
    BY <1>1, StatsAssumption DEF StreamOK, StatsAssumption
  <2>. QED
    BY <2>1
<1>. QED
  BY <1>2, <1>3, <1>4, <1>5, <1>6 DEF TypeOK

\* The statistics have their types and the deques of measurements their bounds
\* (bus_load.py:15, latency_monitor.py:44, timing_stats.py:13).
THEOREM StatsTypes == Spec => []TypeOK
BY StatsInvariant, TypesFollow, PTL

\* What the invariant says of the load.
LEMMA LoadFollows == IInv => LoadIsWindowSum
<1>. SUFFICES ASSUME IInv PROVE LoadIsWindowSum
  OBVIOUS
<1>1. StreamOK /\ LoadOK
  BY DEF IInv
<1>2. PICK c : c = LastTs - Window
  OBVIOUS
<1>3. PICK s, w, S, recent :
        /\ s = stream /\ w = loadWindow
        /\ S = {i \in DOMAIN stream : stream[i].ts >= LastTs - Window}
        /\ recent = Picked(s, S)
  OBVIOUS
<1>4. c \in Int
  BY <1>1, <1>2, NewestTime, StatsAssumption DEF StatsAssumption
<1>5. s \in Seq(Frames) /\ WindowOf(w, s, c) /\ sumBits = TotalBits(w)
  BY <1>1, <1>2, <1>3 DEF StreamOK, LoadOK
<1>6. \A i \in 1..Len(s) : i \in S <=> s[i].ts >= c
  BY <1>2, <1>3, <1>5
<1>7. recent = Picked(s, S)
  BY <1>3
<1>8. [n \in DOMAIN recent |-> Entry(recent[n].id, recent[n].ts)] = w
  BY <1>4, <1>5, <1>6, <1>7, WindowIsPicked
<1>. QED
  BY <1>3, <1>5, <1>8, Zenon DEF LoadIsWindowSum

\* The running sum of the load never drifts from the frames of its window,
\* whatever is added and dropped (bus_load.py:26-30).
THEOREM LoadNeverDrifts == Spec => []LoadIsWindowSum
BY StatsInvariant, LoadFollows, PTL

\* What the invariant says of the latencies.
LEMMA LatenciesFollow == IInv => LatenciesBelong
<1>. SUFFICES ASSUME IInv, NEW l \in Labels
              PROVE  LET answers == InOrder({j \in DOMAIN stream :
                                               \E i \in DOMAIN stream : Answers(l, i, j)},
                                            Len(stream))
                         Request(j) == CHOOSE i \in DOMAIN stream : Answers(l, i, j)
                     IN  meas[l] = Latest([n \in DOMAIN answers |->
                                     stream[answers[n]].ts - stream[Request(answers[n])].ts])
  BY DEF LatenciesBelong
<1>1. \A i, j : Answers(l, i, j) <=> AnswersIn(stream, l, i, j)
  BY DEF Answers, AnswersIn
<1>2. {j \in DOMAIN stream : \E i \in DOMAIN stream : Answers(l, i, j)} = AnswersOf(stream, l)
  BY DEF AnswersOf, Answers, AnswersIn
<1>3. \A j : (CHOOSE i \in DOMAIN stream : Answers(l, i, j)) = RequestIn(stream, l, j)
  BY DEF RequestIn, Answers, AnswersIn
<1>4. meas[l] = Latest(LatenciesOf(stream, l))
  BY DEF IInv, LatencyOK
<1>5. PICK at : at = InOrder(AnswersOf(stream, l), Len(stream))
  OBVIOUS
<1>6. LatenciesOf(stream, l) = [n \in DOMAIN at |->
                                  stream[at[n]].ts - stream[RequestIn(stream, l, at[n])].ts]
  BY <1>5 DEF LatenciesOf, LatencyOf
<1>. DEFINE all == {j \in DOMAIN stream : \E i \in DOMAIN stream : Answers(l, i, j)}
            Request(j) == CHOOSE i \in DOMAIN stream : Answers(l, i, j)
            measured == [n \in DOMAIN at |-> stream[at[n]].ts - stream[Request(at[n])].ts]
<1>7. at = InOrder(all, Len(stream))
  BY <1>2, <1>5
<1>8. measured = LatenciesOf(stream, l)
  <2>1. \A j : Request(j) = RequestIn(stream, l, j)
    BY <1>3
  <2>. HIDE DEF Request
  <2>. QED
    BY <1>6, <2>1, Zenon
<1>9. meas[l] = Latest([n \in DOMAIN InOrder(all, Len(stream)) |->
                           stream[InOrder(all, Len(stream))[n]].ts
                              - stream[Request(InOrder(all, Len(stream))[n])].ts])
  <2>1. meas[l] = Latest(measured)
    BY <1>4, <1>8, Zenon
  <2>. HIDE DEF Request, all
  <2>. QED
    BY <1>7, <2>1, Zenon
<1>. QED
  BY <1>9

\* No measurement is missed and none is made twice, across set_pairs, purges,
\* repeated requests and repeated answers (latency_monitor.py:91-111).
THEOREM EveryLatencyBelongs == Spec => []LatenciesBelong
BY StatsInvariant, LatenciesFollow, PTL

\* What the invariant says of the intervals.
LEMMA IntervalsFollow == IInv => IntervalsSinceReset
<1>. SUFFICES ASSUME IInv, NEW id \in Ids
              PROVE  LET mine == Picked(stream, {i \in DOMAIN stream :
                                                   i > resetAt /\ stream[i].id = id})
                     IN  /\ timing[id].count = Len(mine)
                         /\ timing[id].intervals =
                               Latest([n \in 1..(Len(mine) - 1) |-> mine[n + 1].ts - mine[n].ts])
  BY DEF IntervalsSinceReset
<1>1. TimingIs(timing[id], Mine(stream, resetAt, id))
  BY DEF IInv, TimingOK
<1>. QED
  BY <1>1, Zenon DEF TimingIs, Mine, Gaps

\* A reset is clean: no count and no interval reaches back over it
\* (timing_stats.py:16-20, 67).
THEOREM ResetIsClean == Spec => []IntervalsSinceReset
BY StatsInvariant, IntervalsFollow, PTL
=============================================================================
