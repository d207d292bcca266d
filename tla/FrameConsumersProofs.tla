------------------------ MODULE FrameConsumersProofs ------------------------
(***************************************************************************)
(* Theorems about the two consumers of the frames the ingest loop          *)
(* publishes.  Module LiveView: for every length of the store, cap and     *)
(* buffer, its types and that what the page is shown is a FrameFeed.       *)
(* Module TriggerCapture: for every size of its buffers, any number of     *)
(* frames and any order of endpoint calls, its types, what a session holds *)
(* and that each is logged at most once and in order.                      *)
(***************************************************************************)
EXTENDS LiveView, TriggerCapture, DataLemmas

USE LiveViewAssumption, TriggerAssumption
USE DEF LiveViewAssumption, TriggerAssumption

-----------------------------------------------------------------------------
(* Slices of a sequence.                                                   *)

\* The last n elements, one by one.
LEMMA LastOfFacts ==
    ASSUME NEW S, NEW s \in Seq(S), NEW n \in 0..Len(s)
    PROVE  /\ LastOf(s, n) \in Seq(S) /\ Len(LastOf(s, n)) = n
           /\ \A k \in 1..n : LastOf(s, n)[k] = s[Len(s) - n + k]
<1>1. Len(s) \in Nat
  BY LenProperties
<1>2. \A k \in (Len(s) - n + 1)..Len(s) : s[k] \in S
  BY <1>1, ElementOfSeq
<1> QED BY <1>1, <1>2, SubSeqProperties DEF LastOf

\* The numbers from a to b.
Numbers(a, b) == [i \in 1..(b - a + 1) |-> a + i - 1]

\* Consecutive numbers are a sequence that ends with the last of them.
LEMMA NumbersFacts ==
    ASSUME NEW a \in Nat, NEW b \in Nat, a <= b + 1
    PROVE  /\ Numbers(a, b) \in Seq(a..b) /\ Len(Numbers(a, b)) = b - a + 1
           /\ DOMAIN Numbers(a, b) = 1..(b - a + 1)
           /\ \A i \in 1..(b - a + 1) : Numbers(a, b)[i] = a + i - 1
<1>1. b - a + 1 \in Nat /\ Numbers(a, b) \in [1..(b - a + 1) -> a..b]
  BY DEF Numbers
<1>2. /\ Numbers(a, b) \in Seq(a..b) /\ Len(Numbers(a, b)) = b - a + 1
      /\ DOMAIN Numbers(a, b) = 1..(b - a + 1)
  BY <1>1, FunctionIsSeq
<1> QED BY <1>2 DEF Numbers

\* The last n of consecutive numbers are consecutive.
LEMMA LastOfNumbers ==
    ASSUME NEW a \in Nat, NEW b \in Nat, a <= b + 1, NEW n \in 0..(b - a + 1)
    PROVE  LastOf(Numbers(a, b), n) = Numbers(b - n + 1, b)
<1> DEFINE s == Numbers(a, b)
           l == LastOf(s, n)
           m == Numbers(b - n + 1, b)
<1>1. /\ s \in Seq(a..b) /\ Len(s) = b - a + 1
      /\ \A i \in 1..(b - a + 1) : s[i] = a + i - 1
  BY NumbersFacts
<1>2. /\ l \in Seq(a..b) /\ Len(l) = n
      /\ \A k \in 1..n : l[k] = s[Len(s) - n + k]
  <2>1. n \in 0..Len(s)
    BY <1>1
  <2> HIDE DEF s
  <2> QED BY <1>1, <2>1, LastOfFacts
<1>3. b - n + 1 \in Nat /\ b - n + 1 <= b + 1 /\ b - (b - n + 1) + 1 = n
  OBVIOUS
<1>4. /\ m \in Seq((b - n + 1)..b) /\ Len(m) = n
      /\ \A k \in 1..n : m[k] = (b - n + 1) + k - 1
  BY <1>3, NumbersFacts
<1>5. \A k \in 1..n : l[k] = m[k]
  <2> SUFFICES ASSUME NEW k \in 1..n PROVE l[k] = m[k]
    OBVIOUS
  <2>1. (b - a + 1) - n + k \in 1..(b - a + 1)
    OBVIOUS
  <2>2. s[(b - a + 1) - n + k] = a + ((b - a + 1) - n + k) - 1
    BY <1>1, <2>1
  <2> HIDE DEF s, l, m
  <2> QED BY <1>1, <1>2, <1>4, <2>2
<1>6. l \in Seq(Int) /\ m \in Seq(Int)
  BY <1>2, <1>4, SeqMonotonic
<1> HIDE DEF l, m
<1>7. l = m
  BY <1>2, <1>4, <1>5, <1>6, SeqEqual
<1> QED BY <1>7 DEF l, m, s

-----------------------------------------------------------------------------
(* The store.                                                              *)

\* How many frames the store keeps.
Kept == Lesser(total, StoreLen)

\* The store holds the newest frames: LiveTypeOK says so position by position.
StoreNewest == store = Numbers(total - Kept + 1, total)

LEMMA StoreFacts ==
    ASSUME LiveTypeOK
    PROVE  /\ total \in Nat /\ Kept \in 0..total /\ Kept <= StoreLen
           /\ Kept = total \/ Kept = StoreLen
           /\ StoreNewest /\ store \in Seq(1..total) /\ Len(store) = Kept
<1>1. /\ total \in Nat /\ Kept \in 0..total /\ Kept <= StoreLen
      /\ Kept = total \/ Kept = StoreLen
  BY DEF LiveTypeOK, Kept, Lesser
<1>2. total - Kept + 1 \in 1..(total + 1) /\ total - (total - Kept + 1) + 1 = Kept
  BY <1>1
<1>3. store = [i \in 1..Kept |-> total - Kept + i]
  BY DEF LiveTypeOK, Kept
<1>4. \A i \in 1..Kept : total - Kept + i = (total - Kept + 1) + i - 1
  BY <1>1
<1>5. StoreNewest
  <2>1. Numbers(total - Kept + 1, total)
          = [i \in 1..Kept |-> (total - Kept + 1) + i - 1]
    BY <1>2 DEF Numbers
  <2> HIDE DEF Kept
  <2> QED BY <1>3, <1>4, <2>1 DEF StoreNewest
<1>6. store \in Seq((total - Kept + 1)..total) /\ Len(store) = Kept
  <2> HIDE DEF Kept
  <2>1. Len(Numbers(total - Kept + 1, total)) = Kept
    BY <1>1, <1>2, NumbersFacts
  <2>2. Numbers(total - Kept + 1, total) \in Seq((total - Kept + 1)..total)
    BY <1>1, <1>2, NumbersFacts
  <2> QED BY <1>5, <2>1, <2>2 DEF StoreNewest
<1>7. store \in Seq(1..total)
  <2>1. (total - Kept + 1)..total \subseteq 1..total
    BY <1>1
  <2> QED BY <1>6, <2>1, SeqMonotonic
<1> QED BY <1>1, <1>5, <1>6, <1>7

\* append() to the store: it holds the newest frames again.
LEMMA PublishStore ==
    ASSUME LiveTypeOK, Publish
    PROVE  store' = [i \in 1..Lesser(total', StoreLen) |->
                        total' - Lesser(total', StoreLen) + i]
<1> DEFINE p == PushBounded(store, total + 1, StoreLen)
           n == Lesser(total + 1, StoreLen)
           f == [i \in 1..n |-> total' - n + i]
<1>1. /\ total \in Nat /\ Kept \in 0..total /\ Kept <= StoreLen
      /\ Kept = total \/ Kept = StoreLen
      /\ store \in Seq(1..total) /\ Len(store) = Kept
  BY StoreFacts
<1>2. \A i \in 1..Kept : store[i] = total - Kept + i
  <2>1. store = [i \in 1..Kept |-> total - Kept + i]
    BY DEF LiveTypeOK, Kept
  <2> QED BY <2>1
<1>3. 1..total \subseteq 1..(total + 1) /\ total + 1 \in 1..(total + 1)
  BY <1>1
<1>4. store \in Seq(1..(total + 1))
  BY <1>1, <1>3, SeqMonotonic
<1>5. /\ p \in Seq(1..(total + 1)) /\ Len(p) \in 1..StoreLen /\ DOMAIN p = 1..Len(p)
      /\ p[Len(p)] = total + 1
      /\ Len(store) < StoreLen => /\ Len(p) = Len(store) + 1
                                  /\ \A i \in 1..Len(store) : p[i] = store[i]
      /\ Len(store) = StoreLen => /\ Len(p) = StoreLen
                                  /\ \A i \in 1..(StoreLen - 1) : p[i] = store[i + 1]
  <2> DEFINE S == 1..(total + 1)
             x == total + 1
  <2>1. /\ Len(store) <= StoreLen /\ StoreLen \in Nat \ {0}
        /\ store \in Seq(S) /\ x \in S /\ p = PushBounded(store, x, StoreLen)
    BY <1>1, <1>3, <1>4
  <2> HIDE DEF p, S, x
  <2>2. /\ p \in Seq(S) /\ Len(p) \in 1..StoreLen /\ DOMAIN p = 1..Len(p)
        /\ p[Len(p)] = x
        /\ Len(store) < StoreLen => /\ Len(p) = Len(store) + 1
                                    /\ \A i \in 1..Len(store) : p[i] = store[i]
        /\ Len(store) = StoreLen => /\ Len(p) = StoreLen
                                    /\ \A i \in 1..(StoreLen - 1) : p[i] = store[i + 1]
    BY <2>1, PushFacts
  <2> QED BY <2>2 DEF S, x
<1>6. /\ Kept < StoreLen => n = Kept + 1 /\ Kept = total
      /\ Kept = StoreLen => n = StoreLen
      /\ n \in Nat
  BY <1>1 DEF Lesser
<1>7. store' = p /\ total' = total + 1 /\ Lesser(total', StoreLen) = n
  BY DEF Publish
<1> HIDE DEF p, n, Kept
<1>8. Len(p) = n
  <2>1. CASE Kept < StoreLen
    BY <1>1, <1>5, <1>6, <2>1
  <2>2. CASE Kept = StoreLen
    BY <1>1, <1>5, <1>6, <2>2
  <2> QED BY <1>1, <2>1, <2>2
<1>9. \A i \in 1..n : p[i] = total' - n + i
  <2> SUFFICES ASSUME NEW i \in 1..n PROVE p[i] = total' - n + i
    OBVIOUS
  <2>1. CASE i = n
    BY <1>1, <1>5, <1>6, <1>7, <1>8, <2>1
  <2>2. CASE i /= n /\ Kept < StoreLen
    <3>1. i \in 1..Kept
      BY <1>1, <1>6, <2>2
    <3>2. p[i] = store[i] /\ store[i] = total - Kept + i
      BY <1>1, <1>2, <1>5, <2>2, <3>1
    <3> QED BY <1>1, <1>6, <1>7, <2>2, <3>2
  <2>3. CASE i /= n /\ Kept = StoreLen
    <3>1. i \in 1..(StoreLen - 1) /\ i + 1 \in 1..Kept
      BY <1>1, <1>6, <2>3
    <3>2. p[i] = store[i + 1] /\ store[i + 1] = total - Kept + (i + 1)
      BY <1>1, <1>2, <1>5, <2>3, <3>1
    <3> QED BY <1>1, <1>6, <1>7, <2>3, <3>2
  <2> QED BY <1>1, <2>1, <2>2, <2>3
<1>10. p = f
  <2>1. f \in [1..n -> Int]
    BY <1>1, <1>6, <1>7
  <2>2. f \in Seq(Int) /\ Len(f) = n
    BY <1>6, <2>1, FunctionIsSeq
  <2>3. \A i \in 1..n : f[i] = p[i]
    BY <1>9
  <2>4. p \in Seq(Int)
    <3>1. 1..(total + 1) \subseteq Int
      OBVIOUS
    <3> QED BY <1>5, <3>1, SeqMonotonic
  <2> HIDE DEF f
  <2> QED BY <1>8, <2>2, <2>3, <2>4, SeqEqual
<1> QED BY <1>7, <1>10, Zenon DEF f

-----------------------------------------------------------------------------
(* The updates.                                                            *)

\* Update u takes the page from frame x to frame y: it is empty when there is
\* nothing new, and else ends with y, without a gap or as large as updates get.
Carries(u, x, y) ==
    IF x = y THEN u = <<>>
    ELSE \E a \in (x + 1)..y :
            /\ y - a < Cap
            /\ a = x + 1 \/ y - a + 1 = Cap
            /\ u = Numbers(a, y)

\* What a pass of the endpoint sends takes the page from the cursor to the
\* newest frame: the cap and the length of the store cost only old frames, and
\* the store is never the tighter of the two.
LEMMA UpdateCarries ==
    ASSUME LiveTypeOK
    PROVE  Carries(Capped(Since(lastTotal)), lastTotal, total)
<1>1. /\ total \in Nat /\ Kept \in 0..total /\ Kept <= StoreLen
      /\ Kept = total \/ Kept = StoreLen
      /\ StoreNewest /\ Len(store) = Kept
      /\ lastTotal \in 0..total
  BY StoreFacts DEF LiveTypeOK
<1>2. CASE total <= lastTotal
  <2>1. lastTotal = total /\ Since(lastTotal) = <<>>
    BY <1>1, <1>2 DEF Since
  <2>2. Lesser(Len(<<>>), Cap) = 0 /\ LastOf(<<>>, 0) = <<>>
    BY DEF Lesser, LastOf
  <2> QED BY <2>1, <2>2 DEF Capped, Carries
<1>3. CASE lastTotal < total
  <2> DEFINE d == Lesser(total - lastTotal, Kept)
             m == Lesser(d, Cap)
             a == total - m + 1
  <2>1. /\ d \in 1..Kept /\ m \in 1..d /\ a \in (lastTotal + 1)..total
        /\ total - a < Cap /\ (a = lastTotal + 1 \/ total - a + 1 = Cap)
    BY <1>1, <1>3 DEF Lesser
  <2> HIDE DEF d, m, Kept
  <2>2. Since(lastTotal) = LastOf(store, d)
    BY <1>1, <1>3 DEF Since, d
  <2>3. store = Numbers(total - Kept + 1, total)
    BY <1>1 DEF StoreNewest
  <2>4. LastOf(store, d) = Numbers(total - d + 1, total)
    <3>1. /\ total - Kept + 1 \in Nat /\ total - Kept + 1 <= total + 1
          /\ d \in 0..(total - (total - Kept + 1) + 1)
      BY <1>1, <2>1
    <3> QED BY <1>1, <2>3, <3>1, LastOfNumbers
  <2>5. /\ total - d + 1 \in Nat /\ total - d + 1 <= total + 1
        /\ m \in 0..(total - (total - d + 1) + 1) /\ total - (total - d + 1) + 1 = d
    BY <1>1, <2>1
  <2>6. Len(Numbers(total - d + 1, total)) = d
    BY <1>1, <2>5, NumbersFacts
  <2>7. LastOf(Numbers(total - d + 1, total), m) = Numbers(total - m + 1, total)
    BY <1>1, <2>5, LastOfNumbers
  <2>8. Capped(Since(lastTotal)) = Numbers(a, total)
    BY <2>2, <2>4, <2>6, <2>7 DEF Capped, m
  <2> HIDE DEF a
  <2>9. lastTotal /= total
    BY <1>1, <1>3
  <2> QED BY <2>1, <2>8, <2>9 DEF Carries
<1> QED BY <1>1, <1>2, <1>3

\* An update that carries the page from x to y: its numbers, and its last.
LEMMA CarriedFacts ==
    ASSUME NEW y \in Nat, NEW x \in 0..y, NEW u, Carries(u, x, y)
    PROVE  u \in Seq(1..y) /\ LastOr(u, x) = y
<1>1. CASE x = y
  BY <1>1 DEF Carries, LastOr
<1>2. CASE x /= y
  <2>1. PICK a \in (x + 1)..y : u = Numbers(a, y)
    BY <1>2 DEF Carries
  <2>2. a \in Nat /\ a <= y + 1 /\ a..y \subseteq 1..y /\ y - a + 1 \in 1..(y - a + 1)
    BY <2>1
  <2>3. /\ u \in Seq(a..y) /\ Len(u) = y - a + 1
        /\ \A i \in 1..(y - a + 1) : u[i] = a + i - 1
    BY <2>1, <2>2, NumbersFacts
  <2>4. u[Len(u)] = y
    BY <2>2, <2>3
  <2>5. u /= <<>>
    BY <2>2, <2>3
  <2> QED BY <2>2, <2>3, <2>4, <2>5, SeqMonotonic DEF LastOr
<1> QED BY <1>1, <1>2

-----------------------------------------------------------------------------
(* The inductive invariant.                                                *)

\* c gives the newest frame the page will have been shown before each update
\* under way, and after the last one: the first is what it has now, and the
\* last is the endpoint's cursor.
Cursors(c) ==
    /\ c[1] = upTo
    /\ c[Len(wire) + 1] = lastTotal
    /\ \A k \in 1..Len(wire) : c[k] <= c[k + 1] /\ Carries(wire[k], c[k], c[k + 1])

\* The updates under way lead from what the page has to the endpoint's cursor
\* without a gap the cap does not explain; a broken connection leaves none.
WireUnbroken ==
    IF conn THEN \E c \in [1..(Len(wire) + 1) -> 0..total] : Cursors(c)
            ELSE wire = <<>> /\ upTo = 0

\* The types, and updates under way that fit together.
FeedInv == LiveTypeOK /\ WireUnbroken

LEMMA FeedInvInit == LiveInit => FeedInv
<1> SUFFICES ASSUME LiveInit PROVE FeedInv
  OBVIOUS
<1>1. total = 0 /\ store = <<>> /\ Lesser(total, StoreLen) = 0
  BY DEF LiveInit, Lesser
<1>2. store = [i \in 1..Lesser(total, StoreLen) |-> total - Lesser(total, StoreLen) + i]
  <2>1. [i \in 1..0 |-> 0 - 0 + i] = <<>>
    OBVIOUS
  <2> QED BY <1>1, <2>1
<1>3. wire \in Seq(Seq(1..total)) /\ page \in Seq(1..total) /\ Len(wire) = 0
  BY DEF LiveInit
<1>4. /\ total \in 0..MaxPublished /\ conn \in BOOLEAN /\ lastTotal \in 0..total
      /\ Len(wire) <= MaxWire /\ upTo \in 0..total /\ drops \in 0..MaxDrops
  <2>1. MaxPublished \in Nat /\ MaxDrops \in Nat /\ MaxWire \in Nat
    OBVIOUS
  <2>2. conn \in BOOLEAN
    BY DEF LiveInit
  <2> QED BY <1>1, <1>3, <2>1, <2>2 DEF LiveInit
<1>5. LiveTypeOK
  BY <1>2, <1>3, <1>4, Zenon DEF LiveTypeOK
<1> QED BY <1>5 DEF LiveInit, FeedInv, WireUnbroken

\* The update the page is about to receive leads on from what it has.
LEMMA HeadCarries ==
    ASSUME FeedInv, wire /= <<>>
    PROVE  conn /\ \E y \in upTo..total :
              /\ Carries(Head(wire), upTo, y)
              /\ LastOr(Head(wire), upTo) = y
              /\ Head(wire) \in Seq(1..total)
<1>1. /\ wire \in Seq(Seq(1..total)) /\ total \in Nat /\ upTo \in 0..total
      /\ Head(wire) = wire[1] /\ Len(wire) \in Nat \ {0}
  BY TailFacts DEF FeedInv, LiveTypeOK
<1>2. conn
  BY DEF FeedInv, WireUnbroken
<1>3. PICK c \in [1..(Len(wire) + 1) -> 0..total] : Cursors(c)
  BY <1>2 DEF FeedInv, WireUnbroken
<1>4. /\ c[1] = upTo /\ c[2] \in 0..total /\ c[1] <= c[2]
      /\ Carries(wire[1], c[1], c[2])
  <2>1. 1 \in 1..Len(wire) /\ 2 \in 1..(Len(wire) + 1)
    BY <1>1
  <2>2. c[1] <= c[1 + 1] /\ Carries(wire[1], c[1], c[1 + 1])
    BY <1>3, <2>1 DEF Cursors
  <2>3. 1 + 1 = 2 /\ c[1] = upTo /\ c[2] \in 0..total
    BY <1>3, <2>1 DEF Cursors
  <2> QED BY <2>2, <2>3
<1>5. Carries(Head(wire), upTo, c[2]) /\ c[2] \in upTo..total
  BY <1>1, <1>4
<1>6. Head(wire) \in Seq(1..c[2]) /\ LastOr(Head(wire), upTo) = c[2]
  <2>1. c[2] \in Nat /\ upTo \in 0..c[2]
    BY <1>1, <1>5
  <2> QED BY <1>5, <2>1, CarriedFacts
<1>7. 1..c[2] \subseteq 1..total
  BY <1>1, <1>5
<1> QED BY <1>2, <1>5, <1>6, <1>7, SeqMonotonic

\* Types: the store stays the newest frames, updates are cut from it.
LEMMA TypeStep == FeedInv /\ [LiveNext]_liveVars => LiveTypeOK'
<1> SUFFICES ASSUME FeedInv, [LiveNext]_liveVars PROVE LiveTypeOK'
  OBVIOUS
<1>0. LiveTypeOK
  BY DEF FeedInv
<1>1. CASE Publish
  <2>1. total \in Nat /\ 1..total \subseteq 1..(total + 1)
    BY <1>0 DEF LiveTypeOK
  <2>2. Seq(1..total) \subseteq Seq(1..(total + 1))
    BY <2>1, SeqMonotonic
  <2>3. wire \in Seq(Seq(1..(total + 1))) /\ page \in Seq(1..(total + 1))
    BY <1>0, <2>2, SeqMonotonic DEF LiveTypeOK
  <2> QED BY <1>0, <1>1, <2>1, <2>3, PublishStore DEF Publish, LiveTypeOK
<1>2. CASE SendUpdate
  <2>1. Capped(Since(lastTotal)) \in Seq(1..total)
    BY <1>0, UpdateCarries, CarriedFacts DEF LiveTypeOK
  <2>2. /\ wire' = Append(wire, Capped(Since(lastTotal)))
        /\ wire \in Seq(Seq(1..total)) /\ Len(wire) < MaxWire
    BY <1>0, <1>2 DEF SendUpdate, LiveTypeOK
  <2>3. wire' \in Seq(Seq(1..total)) /\ Len(wire') <= MaxWire
    BY <2>1, <2>2, AppendFacts
  <2>4. total \in Nat /\ total \in 0..total
    BY <1>0 DEF LiveTypeOK
  <2> QED BY <1>0, <1>2, <2>3, <2>4 DEF SendUpdate, server, LiveTypeOK
<1>3. CASE Receive
  <2>1. /\ wire \in Seq(Seq(1..total)) /\ wire /= <<>> /\ wire' = Tail(wire)
        /\ Len(wire) <= MaxWire
    BY <1>0, <1>3 DEF Receive, LiveTypeOK
  <2>2. wire' \in Seq(Seq(1..total)) /\ Len(wire') <= MaxWire
    BY <2>1, TailFacts
  <2>3. /\ Head(wire) \in Seq(1..total)
        /\ upTo' \in upTo..total /\ upTo \in 0..total
    BY <1>0, <1>3, <2>1, HeadCarries DEF Receive, LiveTypeOK
  <2>4. page' \in Seq(1..total)
    BY <1>0, <1>3, <2>3, ConcatProperties DEF Receive, LiveTypeOK
  <2>5. upTo' \in 0..total
    BY <1>0, <2>3 DEF LiveTypeOK
  <2> QED BY <1>0, <1>3, <2>2, <2>4, <2>5 DEF Receive, server, LiveTypeOK
<1>4. CASE Disconnect
  <2>1. /\ wire' = <<>> /\ upTo' = 0 /\ conn' = FALSE /\ drops' = drops + 1
        /\ drops < MaxDrops
        /\ UNCHANGED <<store, total, lastTotal, page>>
    BY <1>4 DEF Disconnect, server
  <2>2. wire' \in Seq(Seq(1..total)) /\ Len(wire') = 0
    BY <2>1
  <2>3. /\ total' \in 0..MaxPublished /\ conn' \in BOOLEAN /\ lastTotal' \in 0..total'
        /\ wire' \in Seq(Seq(1..total')) /\ Len(wire') <= MaxWire
        /\ page' \in Seq(1..total') /\ upTo' \in 0..total' /\ drops' \in 0..MaxDrops
    <3>1. conn' \in BOOLEAN
      BY <2>1
    <3>2. Len(wire') <= MaxWire
      BY <2>2
    <3>3. wire' \in Seq(Seq(1..total')) /\ page' \in Seq(1..total')
      BY <1>0, <2>1, <2>2 DEF LiveTypeOK
    <3>4. /\ total \in 0..MaxPublished /\ lastTotal \in 0..total /\ drops \in 0..MaxDrops
          /\ MaxPublished \in Nat /\ MaxDrops \in Nat
      BY <1>0 DEF LiveTypeOK
    <3> QED BY <2>1, <3>1, <3>2, <3>3, <3>4
  <2>4. store' = [i \in 1..Lesser(total', StoreLen) |-> total' - Lesser(total', StoreLen) + i]
    BY <1>0, <2>1, Zenon DEF LiveTypeOK
  <2> QED BY <2>3, <2>4, Zenon DEF LiveTypeOK
<1>5. CASE Connect \/ UNCHANGED liveVars
  <2>1. /\ UNCHANGED <<store, total, wire, page, upTo, drops>>
        /\ conn' \in BOOLEAN /\ lastTotal' \in {0, lastTotal}
    BY <1>0, <1>5 DEF Connect, server, liveVars, LiveTypeOK
  <2>2. lastTotal' \in 0..total
    BY <1>0, <2>1 DEF LiveTypeOK
  <2>3. /\ total' \in 0..MaxPublished /\ conn' \in BOOLEAN /\ lastTotal' \in 0..total'
        /\ wire' \in Seq(Seq(1..total')) /\ Len(wire') <= MaxWire
        /\ page' \in Seq(1..total') /\ upTo' \in 0..total' /\ drops' \in 0..MaxDrops
    BY <1>0, <2>1, <2>2 DEF LiveTypeOK
  <2>4. store' = [i \in 1..Lesser(total', StoreLen) |-> total' - Lesser(total', StoreLen) + i]
    BY <1>0, <2>1, Zenon DEF LiveTypeOK
  <2> QED BY <2>3, <2>4, Zenon DEF LiveTypeOK
<1> QED BY <1>1, <1>2, <1>3, <1>4, <1>5 DEF LiveNext

\* A pass of the endpoint adds an update that starts at its cursor and moves
\* the cursor to the end of it; the page receives from the other end.
LEMMA WireStep == FeedInv /\ [LiveNext]_liveVars => WireUnbroken'
<1> SUFFICES ASSUME FeedInv, [LiveNext]_liveVars PROVE WireUnbroken'
  OBVIOUS
<1>0. /\ LiveTypeOK /\ WireUnbroken /\ total \in Nat /\ lastTotal \in 0..total
      /\ wire \in Seq(Seq(1..total)) /\ Len(wire) \in Nat
  BY LenProperties DEF FeedInv, LiveTypeOK
<1>1. CASE Publish
  <2>1. CASE conn
    <3>1. PICK c \in [1..(Len(wire) + 1) -> 0..total] : Cursors(c)
      BY <1>0, <2>1 DEF WireUnbroken
    <3>2. c \in [1..(Len(wire') + 1) -> 0..total'] /\ Cursors(c)'
      BY <1>0, <1>1, <3>1 DEF Publish, Cursors
    <3> QED BY <1>1, <2>1, <3>2 DEF Publish, WireUnbroken
  <2> QED BY <1>0, <1>1, <2>1 DEF Publish, WireUnbroken
<1>2. CASE SendUpdate
  <2> DEFINE n == Len(wire)
             u == Capped(Since(lastTotal))
  <2>1. PICK c \in [1..(n + 1) -> 0..total] : Cursors(c)
    BY <1>0, <1>2 DEF SendUpdate, WireUnbroken
  <2>2. u \in Seq(1..total) /\ Carries(u, lastTotal, total)
    BY <1>0, UpdateCarries, CarriedFacts
  <2>3. /\ Len(wire') = n + 1 /\ n \in Nat
        /\ \A k \in 1..n : wire'[k] = wire[k]
        /\ wire'[n + 1] = u
    <3>1. wire' = Append(wire, u)
      BY <1>2 DEF SendUpdate
    <3> HIDE DEF u
    <3> QED BY <1>0, <2>2, <3>1, AppendFacts
  <2> HIDE DEF n, u
  <2>4. PICK d \in [1..(n + 2) -> 0..total] :
           /\ \A k \in 1..(n + 1) : d[k] = c[k]
           /\ d[n + 2] = total
    <3> DEFINE e == [k \in 1..(n + 2) |-> IF k <= n + 1 THEN c[k] ELSE total]
    <3>1. /\ e \in [1..(n + 2) -> 0..total]
          /\ \A k \in 1..(n + 1) : e[k] = c[k]
          /\ e[n + 2] = total
      BY <1>0, <2>1, <2>3
    <3> QED BY <3>1
  <2>5. /\ c[1] = upTo /\ c[n + 1] = lastTotal
        /\ \A k \in 1..n : c[k] <= c[k + 1] /\ Carries(wire[k], c[k], c[k + 1])
    BY <2>1 DEF Cursors, n
  <2>6. \A k \in 1..(n + 1) : d[k] <= d[k + 1] /\ Carries(wire'[k], d[k], d[k + 1])
    <3> SUFFICES ASSUME NEW k \in 1..(n + 1)
                 PROVE  d[k] <= d[k + 1] /\ Carries(wire'[k], d[k], d[k + 1])
      OBVIOUS
    <3>1. CASE k = n + 1
      BY <1>0, <2>2, <2>3, <2>4, <2>5, <3>1
    <3>2. CASE k /= n + 1
      <4>1. k \in 1..n /\ k + 1 \in 1..(n + 1)
        BY <2>3, <3>2
      <4> QED BY <2>3, <2>4, <2>5, <4>1
    <3> QED BY <3>1, <3>2
  <2>7. /\ lastTotal' = total /\ total' = total /\ upTo' = upTo /\ conn'
        /\ Len(wire') + 1 = n + 2
    BY <1>2, <2>3 DEF SendUpdate, server
  <2>8. Cursors(d)'
    <3>1. d[1] = upTo' /\ d[Len(wire') + 1] = lastTotal'
      BY <2>3, <2>4, <2>5, <2>7
    <3> QED BY <2>3, <2>6, <3>1 DEF Cursors
  <2>9. d \in [1..(Len(wire') + 1) -> 0..total']
    BY <2>4, <2>7
  <2> QED BY <2>7, <2>8, <2>9 DEF WireUnbroken
<1>3. CASE Receive
  <2> DEFINE n == Len(wire)
  <2>1. conn /\ wire /= <<>>
    BY <1>3, HeadCarries DEF Receive
  <2>2. PICK c \in [1..(n + 1) -> 0..total] : Cursors(c)
    BY <1>0, <2>1 DEF WireUnbroken
  <2>3. /\ n \in Nat \ {0} /\ Len(wire') = n - 1 /\ Head(wire) = wire[1]
        /\ \A k \in 1..(n - 1) : wire'[k] = wire[k + 1]
    BY <1>0, <1>3, <2>1, TailFacts DEF Receive
  <2> HIDE DEF n
  <2>4. PICK d \in [1..n -> 0..total] : \A k \in 1..n : d[k] = c[k + 1]
    <3> DEFINE e == [k \in 1..n |-> c[k + 1]]
    <3>1. e \in [1..n -> 0..total] /\ \A k \in 1..n : e[k] = c[k + 1]
      BY <2>2, <2>3
    <3> QED BY <3>1
  <2>5. /\ c[1] = upTo /\ c[n + 1] = lastTotal
        /\ \A k \in 1..n : c[k] <= c[k + 1] /\ Carries(wire[k], c[k], c[k + 1])
    BY <2>2 DEF Cursors, n
  <2>6. upTo' = c[2]
    <3>1. 1 \in 1..n /\ c[1] \in 0..total /\ c[2] \in 0..total
      BY <2>2, <2>3
    <3>2. c[2] \in Nat /\ upTo \in 0..c[2] /\ Carries(Head(wire), upTo, c[2])
      BY <1>0, <2>3, <2>5, <3>1
    <3>3. LastOr(Head(wire), upTo) = c[2]
      BY <3>2, CarriedFacts
    <3> QED BY <1>3, <3>3 DEF Receive
  <2>7. \A k \in 1..(n - 1) : d[k] <= d[k + 1] /\ Carries(wire'[k], d[k], d[k + 1])
    <3> SUFFICES ASSUME NEW k \in 1..(n - 1)
                 PROVE  d[k] <= d[k + 1] /\ Carries(wire'[k], d[k], d[k + 1])
      OBVIOUS
    <3>1. k \in 1..n /\ k + 1 \in 1..n
      BY <2>3
    <3> QED BY <2>3, <2>4, <2>5, <3>1
  <2>8. lastTotal' = lastTotal /\ total' = total /\ conn' /\ Len(wire') + 1 = n
    BY <1>3, <2>1, <2>3 DEF Receive, server
  <2>9. Cursors(d)'
    <3>1. d[1] = upTo' /\ d[Len(wire') + 1] = lastTotal'
      BY <2>3, <2>4, <2>5, <2>6, <2>8
    <3> QED BY <2>3, <2>7, <3>1 DEF Cursors
  <2>10. d \in [1..(Len(wire') + 1) -> 0..total']
    BY <2>4, <2>8
  <2> QED BY <2>8, <2>9, <2>10 DEF WireUnbroken
<1>4. CASE Disconnect
  BY <1>4 DEF Disconnect, WireUnbroken
<1>5. CASE Connect
  <2>1. /\ wire' = <<>> /\ upTo' = 0 /\ conn' /\ lastTotal' = 0 /\ total' = total
    BY <1>0, <1>5 DEF Connect, server, WireUnbroken
  <2> DEFINE c == [k \in 1..1 |-> 0]
  <2>2. c \in [1..(Len(wire') + 1) -> 0..total'] /\ Cursors(c)'
    BY <1>0, <2>1 DEF Cursors
  <2> QED BY <2>1, <2>2 DEF WireUnbroken
<1>6. CASE UNCHANGED liveVars
  BY <1>0, <1>6 DEF liveVars, server, WireUnbroken, Cursors
<1> QED BY <1>1, <1>2, <1>3, <1>4, <1>5, <1>6 DEF LiveNext

\* The types, and the store: whatever its length, it holds the newest frames.
THEOREM LiveViewTypes == LiveSpec => []LiveTypeOK
<1>1. FeedInv => LiveTypeOK
  BY DEF FeedInv
<1>2. FeedInv /\ [LiveNext]_liveVars => FeedInv'
  BY TypeStep, WireStep DEF FeedInv
<1> QED BY <1>1, <1>2, FeedInvInit, PTL DEF LiveSpec

-----------------------------------------------------------------------------
(* The refinement.                                                         *)

\* A step of the server or the page is a step of the feed, or changes nothing
\* the feed shows.
LEMMA FeedStep == FeedInv /\ [LiveNext]_liveVars => [Feed!Next]_(Feed!feedVars)
<1> SUFFICES ASSUME FeedInv, [LiveNext]_liveVars PROVE [Feed!Next]_(Feed!feedVars)
  OBVIOUS
<1> USE DEF Feed!feedVars
<1>1. CASE Publish
  BY <1>1 DEF Publish, Feed!Next, Feed!Publish
<1>2. CASE SendUpdate \/ Connect \/ UNCHANGED liveVars
  BY <1>2 DEF SendUpdate, Connect, server, liveVars
<1>3. CASE Disconnect
  BY <1>3 DEF Disconnect, server, Feed!Next, Feed!Reconnect
<1>4. CASE Receive
  <2>1. /\ total \in Nat /\ upTo \in 0..total /\ page \in Seq(1..total)
        /\ page' = page \o Head(wire) /\ upTo' = LastOr(Head(wire), upTo)
        /\ total' = total
    BY <1>4 DEF Receive, server, FeedInv, LiveTypeOK
  <2>2. PICK y \in upTo..total : /\ Carries(Head(wire), upTo, y)
                                 /\ LastOr(Head(wire), upTo) = y
    BY <1>4, HeadCarries DEF Receive
  <2>3. CASE y = upTo
    <3>1. Head(wire) = <<>>
      BY <2>2, <2>3 DEF Carries
    <3>2. page' = page
      BY <2>1, <3>1, ConcatEmptySeq
    <3> QED BY <2>1, <2>2, <2>3, <3>2
  <2>4. CASE y /= upTo
    <3>1. PICK a \in (upTo + 1)..y :
             /\ y - a < Cap
             /\ a = upTo + 1 \/ y - a + 1 = Cap
             /\ Head(wire) = Numbers(a, y)
      BY <2>2, <2>4 DEF Carries
    <3>2. y \in (upTo + 1)..total
      BY <2>1, <2>2, <2>4
    <3>3. page' = page \o [i \in 1..(y - a + 1) |-> a + i - 1]
      BY <2>1, <3>1 DEF Numbers
    <3>4. Feed!Show
      BY <2>1, <2>2, <3>1, <3>2, <3>3 DEF Feed!Show
    <3> QED BY <3>4 DEF Feed!Next
  <2> QED BY <2>3, <2>4
<1> QED BY <1>1, <1>2, <1>3, <1>4 DEF LiveNext

\* The page is shown a FrameFeed (server.py:131-138): on each connection frames
\* come in order and none twice, and one is passed over only by an update as
\* large as the cap, whatever the store's length, however many updates the
\* socket holds and wherever a connection breaks.  (That the page catches up,
\* the fairness of the feed, is checked by TLC.)
THEOREM PageIsFeed == LiveSpec => Feed!Init /\ [][Feed!Next]_(Feed!feedVars)
<1>1. LiveInit => Feed!Init
  BY DEF LiveInit, Feed!Init
<1>2. FeedInv /\ [LiveNext]_liveVars => FeedInv'
  BY TypeStep, WireStep DEF FeedInv
<1> QED BY <1>1, <1>2, FeedInvInit, FeedStep, PTL DEF LiveSpec

-----------------------------------------------------------------------------
(* Type correctness.                                                       *)

\* The numbers and conditions the types are made of.
LEMMA TriggerInit == Init => TypeOK
BY DEF Init, TypeOK, Conditions, None

\* A session completed by the next frame is a session.
LEMMA SessionType ==
    ASSUME TypeOK, state = "collecting", seen < MaxFrames,
           NEW post \in Seq(1..MaxFrames), SaveSession(post)
    PROVE  /\ sessions' \in Seq(Session) /\ Len(sessions') = Len(sessions) + 1
           /\ captures' \in Seq(1..Len(sessions')) /\ Len(captures') <= MaxCaptures
           /\ pending' = Len(sessions') /\ logged \in Seq(1..Len(sessions'))
           /\ Len(sessions) \in Nat
<1> DEFINE n == Len(sessions) + 1
           s == [pre |-> preBuf, post |-> post, cond |-> cond, trig |-> trigAt]
<1>1. s \in Session /\ sessions \in Seq(Session)
  BY DEF TypeOK, Session
<1>2. sessions' = Append(sessions, s) /\ pending' = n
      /\ captures' = PushBounded(captures, n, MaxCaptures)
  BY DEF SaveSession
<1> HIDE DEF s
<1>3. /\ sessions' \in Seq(Session) /\ Len(sessions') = n /\ Len(sessions) \in Nat
  BY <1>1, <1>2, AppendFacts
<1>4. captures \in Seq(1..n) /\ logged \in Seq(1..n) /\ n \in 1..n
  <2>1. captures \in Seq(1..Len(sessions)) /\ logged \in Seq(1..Len(sessions))
    BY DEF TypeOK
  <2> QED BY <1>3, <2>1, SeqMonotonic
<1>5. captures' \in Seq(1..n) /\ Len(captures') <= MaxCaptures
  BY <1>2, <1>4, PushType DEF TypeOK
<1> QED BY <1>2, <1>3, <1>4, <1>5

\* Every step keeps the types.
LEMMA TriggerTypeStep == TypeOK /\ [Next]_vars => TypeOK'
<1> SUFFICES ASSUME TypeOK, [Next]_vars PROVE TypeOK'
  OBVIOUS
<1> USE DEF buffers, stores, history
<1>1. ASSUME NEW c \in Conditions, Arm(c) PROVE TypeOK'
  BY <1>1 DEF Arm, TypeOK, Conditions, None
<1>2. CASE Disarm
  BY <1>2 DEF Disarm, TypeOK
<1>3. CASE Fire
  BY <1>3 DEF Fire, Trigger, TypeOK
<1>4. CASE IngestIdle
  BY <1>4 DEF IngestIdle, TypeOK
<1>5. ASSUME NEW h \in SUBSET FrameConditions, IngestArmed(h) PROVE TypeOK'
  <2>1. preBuf' \in Seq(1..MaxFrames) /\ Len(preBuf') <= PreSize
    <3>1. seen + 1 \in 1..MaxFrames
      BY <1>5 DEF IngestArmed, TypeOK
    <3> QED BY <1>5, <3>1, PushType DEF IngestArmed, TypeOK
  <2>2. CASE cond \in h
    BY <1>5, <2>1, <2>2 DEF IngestArmed, Trigger, TypeOK
  <2>3. CASE cond \notin h
    BY <1>5, <2>1, <2>3 DEF IngestArmed, TypeOK
  <2> QED BY <2>2, <2>3
<1>6. CASE IngestCollecting
  <2> DEFINE post == Append(postBuf, seen + 1)
  <2>1. post \in Seq(1..MaxFrames)
    <3>1. seen + 1 \in 1..MaxFrames /\ postBuf \in Seq(1..MaxFrames)
      BY <1>6 DEF IngestCollecting, TypeOK
    <3> QED BY <3>1, AppendFacts
  <2>2. CASE Len(post) >= PostSize
    <3>1. SaveSession(post) /\ state = "collecting" /\ seen < MaxFrames /\ seen' = seen + 1
          /\ UNCHANGED <<cond, preBuf, trigAt, logged>>
      BY <1>6, <2>2 DEF IngestCollecting
    <3> HIDE DEF post
    <3>2. /\ sessions' \in Seq(Session) /\ Len(sessions') = Len(sessions) + 1
          /\ captures' \in Seq(1..Len(sessions')) /\ Len(captures') <= MaxCaptures
          /\ pending' = Len(sessions') /\ logged \in Seq(1..Len(sessions'))
          /\ Len(sessions) \in Nat
      BY <2>1, <3>1, SessionType
    <3>3. postBuf' = <<>> /\ state' = "armed" /\ armedSeen' = armedSeen
      BY <1>6, <3>1 DEF SaveSession, IngestCollecting
    <3> QED BY <3>1, <3>2, <3>3 DEF TypeOK
  <2>3. CASE ~(Len(post) >= PostSize)
    <3>1. Len(post) < PostSize
      BY <2>1, <2>3, LenProperties
    <3>2. /\ postBuf' = post /\ seen' = seen + 1 /\ seen < MaxFrames
          /\ UNCHANGED <<state, cond, preBuf, captures, pending, armedSeen, trigAt,
                         sessions, logged>>
      BY <1>6, <2>3 DEF IngestCollecting
    <3> HIDE DEF post
    <3> QED BY <2>1, <3>1, <3>2 DEF TypeOK
  <2> QED BY <2>2, <2>3
<1>7. CASE PopCompleted
  <2>1. pending \in 1..Len(sessions) /\ logged \in Seq(1..Len(sessions))
    BY <1>7 DEF PopCompleted, TypeOK
  <2>2. logged' \in Seq(1..Len(sessions))
    BY <1>7, <2>1, AppendFacts DEF PopCompleted
  <2> QED BY <1>7, <2>2 DEF PopCompleted, TypeOK
<1>8. CASE UNCHANGED vars
  BY <1>8 DEF vars, TypeOK
<1> QED BY <1>1, <1>2, <1>3, <1>4, <1>5, <1>6, <1>7, <1>8 DEF Next, Endpoints, Ingest

\* In every state the variables have their types: the buffers stay within their
\* sizes, and the database task is only ever handed sessions that exist.
THEOREM TriggerTypes == Spec => []TypeOK
BY TriggerInit, TriggerTypeStep, PTL DEF Spec

-----------------------------------------------------------------------------
(* What a session holds.                                                   *)

\* q holds the newest of the frames of A, in order and as many as fit.
NewestOf(q, A) ==
    /\ Increasing(q) /\ ToSet(q) \subseteq A
    /\ \A f \in A \ ToSet(q) : Len(q) = PreSize /\ \A g \in ToSet(q) : f < g

\* The pre-buffer holds the newest frames that came while armed, whatever the
\* state is now; while a session is collected none of these is after its trigger.
PreHoldsArmed ==
    /\ NewestOf(preBuf, armedSeen)
    /\ state = "collecting" => armedSeen \subseteq 1..trigAt

\* Triggers are in the past: a frame still to come is after all of them.
TriggersPast == \A i \in DOMAIN sessions : sessions[i].trig <= seen

\* What is being collected is every frame since the trigger.
PostTracksTrigger ==
    state = "collecting" =>
       /\ Len(postBuf) = seen - trigAt
       /\ \A k \in 1..Len(postBuf) : postBuf[k] = trigAt + k

\* The inductive invariant.
CaptureInv ==
    /\ TypeOK
    /\ PreHoldsArmed /\ PostTracksTrigger /\ TriggersPast
    /\ PostFollowsTrigger /\ PreIsNewestArmed

\* append() of a frame newer than all before: the buffer again holds the newest,
\* for what it evicts is its oldest.
LEMMA PushNewest ==
    ASSUME NEW m \in Nat, NEW S \in SUBSET Nat, m + 1 \in S,
           NEW q \in Seq(S), Len(q) <= PreSize,
           NEW A \in SUBSET (1..m), NewestOf(q, A),
           NEW p, p = PushBounded(q, m + 1, PreSize)
    PROVE  NewestOf(p, A \cup {m + 1})
<1>1. /\ Increasing(q) /\ ToSet(q) \subseteq A
      /\ \A f \in A \ ToSet(q) : Len(q) = PreSize /\ \A g \in ToSet(q) : f < g
  BY DEF NewestOf
<1>2. \A f \in A : f \in Nat /\ f < m + 1
  OBVIOUS
<1>3. \A j \in DOMAIN q : q[j] \in ToSet(q) /\ q[j] < m + 1
  BY <1>1, <1>2 DEF ToSet
<1>4. Increasing(p)
  BY <1>1, <1>3, PushIncreasing
<1>5. ToSet(p) \cup PushEvicts(q, PreSize) = ToSet(q) \cup {m + 1}
  BY PushConserves
<1>6. /\ Len(p) \in 1..PreSize /\ DOMAIN p = 1..Len(p) /\ p[Len(p)] = m + 1
      /\ Len(q) = PreSize => /\ Len(p) = PreSize /\ q /= <<>>
                             /\ \A i \in 1..(PreSize - 1) : p[i] = q[i + 1]
  BY PushFacts
<1>7. m + 1 \in ToSet(p)
  BY <1>6 DEF ToSet
<1>8. ASSUME NEW f \in A, f \notin ToSet(p)
      PROVE  Len(p) = PreSize /\ \A g \in ToSet(p) : f < g
  <2>1. CASE f \in ToSet(q)
    <3>1. Len(q) = PreSize /\ f = Head(q)
      <4>1. f \in PushEvicts(q, PreSize)
        BY <1>5, <1>8, <2>1
      <4> QED BY <4>1, LenProperties DEF PushEvicts
    <3>2. f = q[1] /\ 1 \in DOMAIN q /\ DOMAIN q = 1..PreSize
      BY <1>6, <3>1, TailFacts
    <3>3. ASSUME NEW i \in 1..PreSize PROVE f < p[i]
      <4>1. CASE i = PreSize
        BY <1>2, <1>6, <3>1, <4>1
      <4>2. CASE i /= PreSize
        <5>1. i \in 1..(PreSize - 1) /\ i + 1 \in 1..PreSize /\ 1 < i + 1
          BY <4>2
        <5>2. p[i] = q[i + 1] /\ q[1] < q[i + 1]
          BY <1>1, <1>6, <3>1, <3>2, <5>1 DEF Increasing
        <5> QED BY <3>2, <5>2
      <4> QED BY <4>1, <4>2
    <3> QED BY <1>6, <3>1, <3>3 DEF ToSet
  <2>2. CASE f \notin ToSet(q)
    <3>1. Len(q) = PreSize /\ \A g \in ToSet(q) : f < g
      BY <1>1, <2>2
    <3>2. \A g \in ToSet(p) : g \in ToSet(q) \/ g = m + 1
      BY <1>5
    <3> QED BY <1>2, <1>6, <3>1, <3>2
  <2> QED BY <2>1, <2>2
<1>9. ToSet(p) \subseteq A \cup {m + 1}
  BY <1>1, <1>5
<1> QED BY <1>4, <1>7, <1>8, <1>9 DEF NewestOf

\* A run of consecutive numbers is a sequence of them.
LEMMA RunFacts ==
    ASSUME NEW a \in Int, NEW n \in Nat, a >= 0
    PROVE  /\ Run(a + 1, a + n) \in Seq(Nat) /\ Len(Run(a + 1, a + n)) = n
           /\ \A k \in 1..n : Run(a + 1, a + n)[k] = a + k
<1>1. Run(a + 1, a + n) = [i \in 1..n |-> a + i]
  BY DEF Run
<1> DEFINE f == [i \in 1..n |-> a + i]
<1>2. f \in [1..n -> Nat]
  OBVIOUS
<1>3. f \in Seq(Nat) /\ Len(f) = n
  <2> HIDE DEF f
  <2> QED BY <1>2, FunctionIsSeq
<1> QED BY <1>1, <1>3

\* Only a frame ingested while armed changes the pre-buffer, and it joins what
\* came while armed as well; a trigger comes after all of these.
LEMMA PreStep ==
    ASSUME TypeOK, PreHoldsArmed, [Next]_vars
    PROVE  PreHoldsArmed'
<1> USE DEF buffers, stores, history
<1>0. /\ seen \in Nat /\ armedSeen \in SUBSET (1..seen) /\ MaxFrames \in Nat
      /\ preBuf \in Seq(1..MaxFrames) /\ Len(preBuf) <= PreSize
  BY DEF TypeOK
<1>1. ASSUME UNCHANGED <<preBuf, armedSeen>>,
             \/ state' /= "collecting"
             \/ UNCHANGED <<state, trigAt>>
             \/ trigAt' = seen
      PROVE  PreHoldsArmed'
  BY <1>0, <1>1 DEF PreHoldsArmed, NewestOf
<1>2. CASE Disarm \/ (\E c \in Conditions : Arm(c)) \/ IngestIdle \/ PopCompleted \/ UNCHANGED vars
  BY <1>1, <1>2 DEF Disarm, Arm, IngestIdle, PopCompleted, vars
<1>3. CASE Fire
  BY <1>1, <1>3 DEF Fire, Trigger
<1>4. CASE IngestCollecting
  <2>1. UNCHANGED <<preBuf, armedSeen, trigAt>> /\ (state' = "armed" \/ state' = state)
    BY <1>4 DEF IngestCollecting, SaveSession
  <2> QED BY <1>1, <2>1
<1>5. ASSUME NEW h, IngestArmed(h) PROVE PreHoldsArmed'
  <2>1. /\ state = "armed" /\ seen < MaxFrames
        /\ armedSeen' = armedSeen \cup {seen + 1}
        /\ preBuf' = PushBounded(preBuf, seen + 1, PreSize)
        /\ trigAt' = seen + 1 \/ state' = "armed"
    BY <1>5 DEF IngestArmed, Trigger
  <2> DEFINE S == 1..MaxFrames
  <2>2. S \in SUBSET Nat /\ seen + 1 \in S
    BY <1>0, <2>1
  <2>3. NewestOf(preBuf, armedSeen)
    BY DEF PreHoldsArmed
  <2>4. NewestOf(preBuf', armedSeen')
    <3> HIDE DEF S
    <3>1. preBuf \in Seq(S)
      BY <1>0 DEF S
    <3>2. NewestOf(preBuf', armedSeen \cup {seen + 1})
      BY <1>0, <2>1, <2>2, <2>3, <3>1, PushNewest
    <3> QED BY <2>1, <3>2
  <2>5. armedSeen' \subseteq 1..(seen + 1)
    BY <1>0, <2>1
  <2> QED BY <2>1, <2>4, <2>5 DEF PreHoldsArmed, NewestOf
<1> QED BY <1>2, <1>3, <1>4, <1>5 DEF Next, Endpoints, Ingest

\* Each frame ingested while collecting is the next after those collected.
LEMMA PostStep ==
    ASSUME TypeOK, PostTracksTrigger, [Next]_vars
    PROVE  PostTracksTrigger'
<1> USE DEF buffers, stores, history
<1>0. /\ seen \in Nat /\ trigAt \in Nat /\ postBuf \in Seq(1..MaxFrames) /\ MaxFrames \in Nat
      /\ Len(postBuf) \in Nat
  <2>1. seen \in 0..MaxFrames /\ trigAt \in 0..seen /\ postBuf \in Seq(1..MaxFrames)
    BY DEF TypeOK
  <2> QED BY <2>1, LenProperties
<1>1. CASE Disarm \/ IngestIdle \/ \E c \in Conditions : Arm(c)
  <2>1. state' # "collecting"
    BY <1>1 DEF Disarm, IngestIdle, Arm
  <2> QED BY <2>1 DEF PostTracksTrigger
<1>2. CASE PopCompleted \/ UNCHANGED vars
  BY <1>2 DEF PopCompleted, vars, PostTracksTrigger
<1>3. ASSUME NEW n \in Nat, Trigger(n), seen' = n PROVE PostTracksTrigger'
  BY <1>3 DEF Trigger, PostTracksTrigger
<1>4. ASSUME NEW h, IngestArmed(h) PROVE PostTracksTrigger'
  <2>1. Trigger(seen + 1) \/ state' # "collecting"
    BY <1>4 DEF IngestArmed
  <2> QED BY <1>0, <1>3, <1>4, <2>1 DEF IngestArmed, PostTracksTrigger
<1>5. CASE IngestCollecting
  <2>1. CASE state' = "collecting"
    <3>1. /\ state = "collecting" /\ seen < MaxFrames /\ seen' = seen + 1 /\ trigAt' = trigAt
          /\ postBuf' = Append(postBuf, seen + 1)
      BY <1>5, <2>1 DEF IngestCollecting, SaveSession
    <3>2. /\ Len(postBuf') = Len(postBuf) + 1 /\ postBuf'[Len(postBuf) + 1] = seen + 1
          /\ \A k \in 1..Len(postBuf) : postBuf'[k] = postBuf[k]
      <4>1. seen + 1 \in 1..MaxFrames
        BY <1>0, <3>1
      <4> QED BY <1>0, <3>1, <4>1, AppendFacts
    <3>3. Len(postBuf) = seen - trigAt /\ \A k \in 1..Len(postBuf) : postBuf[k] = trigAt + k
      BY <3>1 DEF PostTracksTrigger
    <3>4. ASSUME NEW k \in 1..(Len(postBuf) + 1) PROVE postBuf'[k] = trigAt + k
      <4>1. CASE k = Len(postBuf) + 1
        BY <1>0, <3>2, <3>3, <4>1
      <4>2. CASE k # Len(postBuf) + 1
        BY <1>0, <3>2, <3>3, <4>2
      <4> QED BY <4>1, <4>2
    <3> QED BY <1>0, <3>1, <3>2, <3>3, <3>4 DEF PostTracksTrigger
  <2>2. CASE state' # "collecting"
    BY <2>2 DEF PostTracksTrigger
  <2> QED BY <2>1, <2>2
<1> QED BY <1>0, <1>1, <1>2, <1>3, <1>4, <1>5 DEF Next, Endpoints, Ingest, Fire

\* The session the next frame completes holds the frames after the trigger.
LEMMA CompletedSession ==
    ASSUME CaptureInv, state = "collecting", seen < MaxFrames,
           NEW post, post = Append(postBuf, seen + 1), Len(post) >= PostSize
    PROVE  /\ post \in Seq(1..MaxFrames)
           /\ post = Run(trigAt + 1, trigAt + PostSize)
<1> USE DEF CaptureInv
<1>0. /\ seen \in Nat /\ trigAt \in Nat /\ trigAt \in 0..seen /\ MaxFrames \in Nat
      /\ postBuf \in Seq(1..MaxFrames) /\ seen + 1 \in 1..MaxFrames
      /\ Len(postBuf) \in Nat /\ Len(postBuf) < PostSize
      /\ Len(postBuf) = seen - trigAt /\ \A k \in 1..Len(postBuf) : postBuf[k] = trigAt + k
  <2>1. seen \in 0..MaxFrames /\ trigAt \in 0..seen /\ postBuf \in Seq(1..MaxFrames)
        /\ Len(postBuf) < PostSize
    BY DEF TypeOK
  <2> QED BY <2>1, LenProperties DEF PostTracksTrigger
<1>1. /\ post \in Seq(1..MaxFrames) /\ Len(post) = Len(postBuf) + 1
      /\ post[Len(postBuf) + 1] = seen + 1
      /\ \A k \in 1..Len(postBuf) : post[k] = postBuf[k]
  BY <1>0, AppendFacts
<1>2. post = Run(trigAt + 1, trigAt + PostSize)
  <2>1. Len(post) = PostSize
    BY <1>0, <1>1
  <2>2. ASSUME NEW k \in 1..PostSize PROVE post[k] = trigAt + k
    <3>1. CASE k = Len(postBuf) + 1
      BY <1>0, <1>1, <3>1
    <3>2. CASE k # Len(postBuf) + 1
      <4>1. k \in 1..Len(postBuf)
        BY <1>0, <1>1, <2>1, <3>2
      <4> QED BY <1>0, <1>1, <4>1
    <3> QED BY <3>1, <3>2
  <2> DEFINE run == Run(trigAt + 1, trigAt + PostSize)
  <2>3. run \in Seq(Nat) /\ Len(run) = PostSize /\ \A k \in 1..PostSize : run[k] = trigAt + k
    <3>1. trigAt \in Int /\ trigAt >= 0 /\ PostSize \in Nat
      BY <1>0
    <3> QED BY <3>1, RunFacts
  <2>4. post \in Seq(Nat)
    BY <1>0, <1>1, SeqMonotonic
  <2> HIDE DEF run
  <2>5. post = run
    BY <2>1, <2>2, <2>3, <2>4, SeqEqual
  <2> QED BY <2>5 DEF run
<1> QED BY <1>1, <1>2

\* What is said of a session: of its post-trigger and of its pre-trigger part.
PostRight(s) == s.post = Run(s.trig + 1, s.trig + PostSize)
PreRight(s, A) == NewestOf(s.pre, {f \in A : f <= s.trig})

LEMMA PropertiesByPart ==
    /\ PostFollowsTrigger <=> \A i \in DOMAIN sessions : PostRight(sessions[i])
    /\ PreIsNewestArmed <=> \A i \in DOMAIN sessions : PreRight(sessions[i], armedSeen)
BY DEF PostFollowsTrigger, PreIsNewestArmed, PostRight, PreRight, NewestOf

\* Frames after a session's trigger do not matter to it.
LEMMA LaterFrames ==
    ASSUME NEW n \in Nat, NEW A \in SUBSET Nat, NEW s, s.trig \in Nat, s.trig <= n,
           NEW B, B = A \/ B = A \cup {n + 1}
    PROVE  PreRight(s, B) <=> PreRight(s, A)
<1>1. {f \in B : f <= s.trig} = {f \in A : f <= s.trig}
  OBVIOUS
<1> QED BY <1>1, Zenon DEF PreRight

\* Only frames ingested while armed join those that came while armed, one each,
\* and the number of frames never falls.
LEMMA FramesGrow ==
    ASSUME TypeOK, [Next]_vars
    PROVE  /\ armedSeen' = armedSeen \/ armedSeen' = armedSeen \cup {seen + 1}
           /\ seen \in Nat /\ seen' \in Nat /\ seen <= seen' /\ armedSeen \in SUBSET Nat
<1>1. seen \in Nat /\ armedSeen \in SUBSET (1..seen)
  BY DEF TypeOK
<1>2. /\ armedSeen' = armedSeen \/ armedSeen' = armedSeen \cup {seen + 1}
      /\ seen' = seen \/ seen' = seen + 1
  BY DEF Next, Endpoints, Ingest, Arm, Disarm, Fire, IngestIdle, IngestArmed,
         IngestCollecting, PopCompleted, vars, history
<1> QED BY <1>1, <1>2

\* The sessions saved earlier stay as they are, and a new one is as promised.
LEMMA SessionsStep ==
    ASSUME CaptureInv, [Next]_vars
    PROVE  PostFollowsTrigger' /\ PreIsNewestArmed' /\ TriggersPast'
<1> USE DEF CaptureInv
<1>0. /\ \A i \in DOMAIN sessions : PostRight(sessions[i]) /\ PreRight(sessions[i], armedSeen)
      /\ \A i \in DOMAIN sessions : sessions[i].trig <= seen /\ sessions[i].trig \in Nat
  <2>1. \A i \in DOMAIN sessions : sessions[i] \in Session
    BY LenProperties, ElementOfSeq DEF TypeOK
  <2> QED BY <2>1, PropertiesByPart DEF TriggersPast, Session
<1>1. /\ armedSeen' = armedSeen \/ armedSeen' = armedSeen \cup {seen + 1}
      /\ seen \in Nat /\ seen' \in Nat /\ seen <= seen' /\ armedSeen \in SUBSET Nat
  BY FramesGrow
<1>2. ASSUME NEW i \in DOMAIN sessions
      PROVE  PreRight(sessions[i], armedSeen') /\ sessions[i].trig <= seen'
  <2>1. PreRight(sessions[i], armedSeen) /\ sessions[i].trig <= seen /\ sessions[i].trig \in Nat
    BY <1>0
  <2> DEFINE s == sessions[i]
             B == armedSeen'
  <2>2. s.trig \in Nat /\ s.trig <= seen /\ (B = armedSeen \/ B = armedSeen \cup {seen + 1})
        /\ PreRight(s, armedSeen)
    BY <1>1, <2>1
  <2> HIDE DEF s, B
  <2>3. PreRight(s, B)
    BY <1>1, <2>2, LaterFrames
  <2> QED BY <1>1, <2>1, <2>3 DEF s, B
<1>3. CASE UNCHANGED sessions
  <2>1. /\ \A i \in DOMAIN sessions' : PostRight(sessions'[i])
        /\ \A i \in DOMAIN sessions' : PreRight(sessions'[i], armedSeen')
        /\ \A i \in DOMAIN sessions' : sessions'[i].trig <= seen'
    BY <1>0, <1>2, <1>3
  <2>2. PostFollowsTrigger' /\ PreIsNewestArmed'
    BY <2>1 DEF PostFollowsTrigger, PreIsNewestArmed, PostRight, PreRight, NewestOf
  <2> QED BY <2>1, <2>2 DEF TriggersPast
<1>4. ASSUME IngestCollecting, NEW post, post = Append(postBuf, seen + 1),
             Len(post) >= PostSize, SaveSession(post)
      PROVE  PostFollowsTrigger' /\ PreIsNewestArmed' /\ TriggersPast'
  <2> DEFINE r == [pre |-> preBuf, post |-> post, cond |-> cond, trig |-> trigAt]
             n == Len(sessions) + 1
  <2>1. state = "collecting" /\ seen < MaxFrames /\ armedSeen' = armedSeen
    BY <1>4 DEF IngestCollecting
  <2>2. post \in Seq(1..MaxFrames) /\ post = Run(trigAt + 1, trigAt + PostSize)
    BY <1>4, <2>1, CompletedSession
  <2>3. r \in Session /\ sessions \in Seq(Session) /\ sessions' = Append(sessions, r)
    BY <1>4, <2>1, <2>2 DEF TypeOK, Session, SaveSession
  <2>4. PostRight(r)
    BY <2>2 DEF PostRight
  <2>5. PreRight(r, armedSeen')
    <3>1. armedSeen \subseteq 1..trigAt /\ NewestOf(preBuf, armedSeen)
      BY <2>1 DEF PreHoldsArmed
    <3>2. trigAt \in Nat
      BY DEF TypeOK
    <3>3. {f \in armedSeen : f <= trigAt} = armedSeen
      <4>1. \A f \in armedSeen : f <= trigAt
        BY <3>1, <3>2
      <4> QED BY <4>1, Zenon
    <3>4. NewestOf(preBuf, {f \in armedSeen : f <= trigAt})
      BY <3>1, <3>3, Zenon
    <3> QED BY <2>1, <3>4 DEF PreRight
  <2>6. r.trig <= seen'
    BY <1>1 DEF TypeOK
  <2> HIDE DEF r
  <2>7. /\ DOMAIN sessions = 1..Len(sessions) /\ DOMAIN sessions' = 1..n /\ Len(sessions) \in Nat
        /\ \A i \in 1..Len(sessions) : sessions'[i] = sessions[i]
        /\ sessions'[n] = r
    BY <2>3, AppendFacts
  <2>8. ASSUME NEW i \in DOMAIN sessions'
        PROVE  (i \in DOMAIN sessions /\ sessions'[i] = sessions[i]) \/ sessions'[i] = r
    BY <2>7
  <2>9. /\ \A i \in DOMAIN sessions' : PostRight(sessions'[i])
        /\ \A i \in DOMAIN sessions' : PreRight(sessions'[i], armedSeen')
        /\ \A i \in DOMAIN sessions' : sessions'[i].trig <= seen'
    BY <1>0, <1>2, <2>4, <2>5, <2>6, <2>8
  <2>10. PostFollowsTrigger' /\ PreIsNewestArmed'
    BY <2>9 DEF PostFollowsTrigger, PreIsNewestArmed, PostRight, PreRight, NewestOf
  <2> QED BY <2>9, <2>10 DEF TriggersPast
<1>5. CASE IngestCollecting
  BY <1>3, <1>4, <1>5 DEF IngestCollecting
<1>6. CASE ~IngestCollecting
  <2>1. UNCHANGED sessions
    BY <1>6 DEF Next, Endpoints, Ingest, Arm, Disarm, Fire, IngestIdle, IngestArmed,
                PopCompleted, vars, history
  <2> QED BY <1>3, <2>1
<1> QED BY <1>5, <1>6

\* Every step keeps the invariant of the capture.
LEMMA CaptureStep == CaptureInv /\ [Next]_vars => CaptureInv'
BY TriggerTypeStep, PreStep, PostStep, SessionsStep DEF CaptureInv

\* The invariant of the capture holds in every state.
LEMMA CaptureAlways == Spec => []CaptureInv
<1>1. Init => CaptureInv
  <2> SUFFICES ASSUME Init PROVE CaptureInv
    OBVIOUS
  <2>1. state = "idle" /\ preBuf = <<>> /\ armedSeen = {} /\ sessions = <<>>
    BY DEF Init
  <2>2. PreHoldsArmed /\ PostTracksTrigger /\ TriggersPast
    BY <2>1 DEF PreHoldsArmed, NewestOf, PostTracksTrigger, TriggersPast, Increasing, ToSet
  <2>3. PostFollowsTrigger /\ PreIsNewestArmed
    BY <2>1 DEF PostFollowsTrigger, PreIsNewestArmed
  <2> QED BY <2>2, <2>3, TriggerInit DEF CaptureInv
<1> QED BY <1>1, CaptureStep, PTL DEF Spec

\* The post-trigger part of every session is the PostSize frames right after its
\* trigger, whatever is armed, fired or disarmed between.
THEOREM PostIsRightAfter == Spec => []PostFollowsTrigger
<1>1. CaptureInv => PostFollowsTrigger
  BY DEF CaptureInv
<1> QED BY <1>1, CaptureAlways, PTL

\* The pre-trigger part of every session is the newest frames that came while
\* armed up to its trigger, in order and as many as the buffer holds: nothing
\* that came while idle or collecting, nothing left out but for newer ones,
\* whatever waits and collections were abandoned before.
THEOREM PreIsNewest == Spec => []PreIsNewestArmed
<1>1. CaptureInv => PreIsNewestArmed
  BY DEF CaptureInv
<1> QED BY <1>1, CaptureAlways, PTL

-----------------------------------------------------------------------------
(* Logging the sessions.                                                   *)

\* What waits to be logged is the last session saved, later than all logged.
PendingIsNewest ==
    /\ pending \in {0, Len(sessions)}
    /\ pending # 0 => \A i \in DOMAIN logged : logged[i] < pending

\* The invariant of the log.
LogInv == PendingIsNewest /\ LoggedAtMostOnce

\* A session is logged at most once, and before all finished after it.
LEMMA LogStep ==
    ASSUME TypeOK, LogInv, [Next]_vars
    PROVE  LogInv'
<1> USE DEF buffers, stores, history
<1>0. /\ Len(sessions) \in Nat /\ logged \in Seq(1..Len(sessions)) /\ pending \in 0..Len(sessions)
      /\ DOMAIN logged = 1..Len(logged) /\ Len(logged) \in Nat
      /\ \A i \in 1..Len(logged) : logged[i] \in 1..Len(sessions)
  <2>1. logged \in Seq(1..Len(sessions)) /\ sessions \in Seq(Session) /\ pending \in 0..Len(sessions)
    BY DEF TypeOK
  <2> QED BY <2>1, LenProperties, ElementOfSeq
<1>1. CASE UNCHANGED <<pending, sessions, logged>>
  BY <1>1 DEF LogInv, PendingIsNewest, LoggedAtMostOnce, Last
<1>2. ASSUME NEW post, SaveSession(post), IngestCollecting PROVE LogInv'
  <2>1. Len(sessions') = Len(sessions) + 1 /\ pending' = Len(sessions') /\ logged' = logged
    <3> DEFINE r == [pre |-> preBuf, post |-> post, cond |-> cond, trig |-> trigAt]
    <3>1. sessions' = Append(sessions, r) /\ pending' = Len(sessions) + 1 /\ logged' = logged
      BY <1>2 DEF SaveSession, IngestCollecting
    <3> HIDE DEF r
    <3>2. sessions \in Seq(Session \cup {r}) /\ r \in Session \cup {r}
      BY SeqMonotonic DEF TypeOK
    <3> QED BY <3>1, <3>2, AppendFacts
  <2> QED BY <1>0, <2>1 DEF LogInv, PendingIsNewest, LoggedAtMostOnce
<1>3. CASE PopCompleted
  <2>1. pending # 0 /\ logged' = Append(logged, pending) /\ pending' = 0 /\ sessions' = sessions
    BY <1>3 DEF PopCompleted
  <2>2. pending = Len(sessions) /\ \A i \in 1..Len(logged) : logged[i] < pending
    BY <1>0, <2>1 DEF LogInv, PendingIsNewest
  <2> DEFINE n == Len(logged) + 1
  <2>3. /\ logged' \in Seq(1..Len(sessions)) /\ Len(logged') = n /\ DOMAIN logged' = 1..n
        /\ logged'[n] = pending /\ \A i \in 1..Len(logged) : logged'[i] = logged[i]
    <3>1. pending \in 1..Len(sessions)
      BY <1>0, <2>1
    <3> QED BY <1>0, <2>1, <3>1, AppendFacts
  <2>4. Increasing(logged')
    <3>1. \A i, j \in 1..Len(logged) : i < j => logged[i] < logged[j]
      BY <1>0 DEF LogInv, LoggedAtMostOnce, Increasing
    <3>2. ASSUME NEW i \in 1..n, NEW j \in 1..n, i < j PROVE logged'[i] < logged'[j]
      <4>1. i \in 1..Len(logged) /\ (j = n \/ j \in 1..Len(logged))
        BY <1>0, <3>2
      <4> QED BY <2>2, <2>3, <3>1, <3>2, <4>1
    <3> QED BY <2>3, <3>2 DEF Increasing
  <2>5. Last(logged') = Len(sessions) /\ logged' # <<>>
    BY <1>0, <2>2, <2>3, EmptySeq DEF Last
  <2> QED BY <2>1, <2>4, <2>5 DEF LogInv, PendingIsNewest, LoggedAtMostOnce
<1>4. CASE IngestCollecting
  BY <1>1, <1>2, <1>4 DEF IngestCollecting
<1>5. CASE ~IngestCollecting /\ ~PopCompleted
  <2>1. UNCHANGED <<pending, sessions, logged>>
    BY <1>5 DEF Next, Endpoints, Ingest, Arm, Disarm, Fire, IngestIdle, IngestArmed, vars
  <2> QED BY <1>1, <2>1
<1> QED BY <1>3, <1>4, <1>5

\* A finished session is handed to the database logger at most once, in order,
\* and the last one finished is waiting for it or has been logged.
THEOREM SessionsLogged == Spec => []LoggedAtMostOnce
<1>1. Init => LogInv
  BY DEF Init, LogInv, PendingIsNewest, LoggedAtMostOnce, Increasing
<1>2. TypeOK /\ LogInv /\ [Next]_vars => LogInv'
  BY LogStep
<1>3. LogInv => LoggedAtMostOnce
  BY DEF LogInv
<1> QED BY <1>1, <1>2, <1>3, TriggerTypes, PTL DEF Spec
=============================================================================
