------------------------- MODULE DiagnosticsProofs --------------------------
(***************************************************************************)
(* Theorems about module Diagnostics for every window, burst threshold and *)
(* cooldown, and any order of events, updates of the page and polls: its   *)
(* types, that the alert table is what the events call for, and what an    *)
(* update of the page counts.                                              *)
(***************************************************************************)
EXTENDS Diagnostics, DataLemmas

-----------------------------------------------------------------------------
(* Cooldowns: when an alert last fired.                                    *)

\* The function that LastFired builds.
Fires(f, times, c, n) ==
    f = [k \in 1..n |-> IF k = 1 THEN times[1]
                        ELSE IF times[k] - f[k - 1] < Cooldown(c) THEN f[k - 1]
                        ELSE times[k]]

\* There is one for every number of submissions, ...
LEMMA FiresExists ==
    ASSUME NEW times, NEW c, NEW n \in Nat
    PROVE  \E f : Fires(f, times, c, n)
<1>. DEFINE T == {m \in Nat : \E f : Fires(f, times, c, m)}
<1>1. 0 \in T
  <2>1. Fires([k \in 1..0 |-> 0], times, c, 0)
    BY DEF Fires
  <2>. QED
    BY <2>1
<1>2. ASSUME NEW m \in Nat, m \in T PROVE m + 1 \in T
  <2>1. PICK f : Fires(f, times, c, m)
    BY <1>2
  <2>. DEFINE Next1(k, x) == IF k = 1 THEN times[1]
                             ELSE IF times[k] - x < Cooldown(c) THEN x ELSE times[k]
              g == [k \in 1..(m + 1) |-> Next1(k, f[k - 1])]
  <2>2. \A k \in 1..m : f[k] = g[k]
    <3>1. SUFFICES ASSUME NEW k \in 1..m PROVE f[k] = g[k]
      OBVIOUS
    <3>2. k \in 1..(m + 1)
      OBVIOUS
    <3>3. f[k] = Next1(k, f[k - 1])
      BY <2>1, Zenon DEF Fires
    <3>. QED
      BY <3>2, <3>3, Zenon
  <2>3. \A k \in 1..(m + 1) : k /= 1 => k - 1 \in 1..m
    OBVIOUS
  <2>4. \A k \in 1..(m + 1) : k /= 1 => f[k - 1] = g[k - 1]
    BY <2>2, <2>3, Zenon
  <2>5. \A k \in 1..(m + 1) : Next1(k, f[k - 1]) = Next1(k, g[k - 1])
    <3>. HIDE DEF g
    <3>. QED
      BY <2>4, Zenon
  <2>6. g = [k \in 1..(m + 1) |-> Next1(k, g[k - 1])]
    <3>1. g = [k \in 1..(m + 1) |-> Next1(k, f[k - 1])]
      OBVIOUS
    <3>. HIDE DEF g, Next1
    <3>. QED
      BY <2>5, <3>1, Zenon
  <2>7. Fires(g, times, c, m + 1)
    <3>. HIDE DEF g
    <3>. QED
      BY <2>6, Zenon DEF Fires
  <2>. QED
    BY <2>7
<1>3. \A m \in Nat : m \in T
  <2>. HIDE DEF T
  <2>. QED
    BY <1>1, <1>2, SetInduction
<1>. QED
  BY <1>3

\* Its value, submission by submission, ...
LEMMA FiresAt ==
    ASSUME NEW f, NEW times, NEW c, NEW n, Fires(f, times, c, n), NEW k \in 1..n
    PROVE  f[k] = IF k = 1 THEN times[1]
                  ELSE IF times[k] - f[k - 1] < Cooldown(c) THEN f[k - 1]
                  ELSE times[k]
BY Zenon DEF Fires

\* ... depends on the submissions so far only.
LEMMA FiresAgree ==
    ASSUME NEW s, NEW u, NEW c, NEW n \in Nat \ {0}, NEW k \in Nat, NEW f, NEW g,
           Fires(f, s, c, n), Fires(g, u, c, k), n <= k, \A i \in 1..n : s[i] = u[i]
    PROVE  f[n] = g[n]
<1>. DEFINE T == {m \in Nat : m \in 1..n => f[m] = g[m]}
<1>1. 0 \in T
  OBVIOUS
<1>2. ASSUME NEW m \in Nat, m \in T PROVE m + 1 \in T
  <2>1. SUFFICES ASSUME m + 1 \in 1..n PROVE f[m + 1] = g[m + 1]
    OBVIOUS
  <2>2. m + 1 \in 1..k /\ m + 1 - 1 = m /\ (m + 1 = 1 \/ m \in 1..n)
    <3>1. m + 1 <= n /\ m + 1 <= k
      BY <2>1
    <3>. QED
      BY <3>1
  <2>3. s[m + 1] = u[m + 1] /\ (m + 1 = 1 => s[1] = u[1])
    BY <2>1
  <2>4. f[m + 1] = IF m + 1 = 1 THEN s[1]
                   ELSE IF s[m + 1] - f[m + 1 - 1] < Cooldown(c) THEN f[m + 1 - 1]
                   ELSE s[m + 1]
    BY <2>1, FiresAt
  <2>5. g[m + 1] = IF m + 1 = 1 THEN u[1]
                   ELSE IF u[m + 1] - g[m + 1 - 1] < Cooldown(c) THEN g[m + 1 - 1]
                   ELSE u[m + 1]
    BY <2>2, FiresAt
  <2>6. m + 1 /= 1 => f[m + 1 - 1] = g[m + 1 - 1]
    BY <1>2, <2>2
  <2>. QED
    BY <2>3, <2>4, <2>5, <2>6, Zenon
<1>3. \A m \in Nat : m \in T
  <2>. HIDE DEF T
  <2>. QED
    BY <1>1, <1>2, SetInduction
<1>4. n \in 1..n
  OBVIOUS
<1>. QED
  BY <1>3, <1>4

\* LastFired is the last value of it.
LEMMA FiredDef ==
    ASSUME NEW times, NEW c, Len(times) \in Nat
    PROVE  \E f : Fires(f, times, c, Len(times)) /\ LastFired(times, c) = f[Len(times)]
<1>1. LastFired(times, c) = (CHOOSE f : Fires(f, times, c, Len(times)))[Len(times)]
  BY Zenon DEF LastFired, Fires
<1>2. Fires(CHOOSE f : Fires(f, times, c, Len(times)), times, c, Len(times))
  BY FiresExists, Zenon
<1>. QED
  BY <1>1, <1>2, Zenon

\* The first submission fires.
LEMMA FiredFirst ==
    ASSUME NEW t \in Nat, NEW c
    PROVE  LastFired(Append(<<>>, t), c) = t
<1>1. Len(Append(<<>>, t)) = 1 /\ Append(<<>>, t)[1] = t
  OBVIOUS
<1>2. PICK f : /\ Fires(f, Append(<<>>, t), c, Len(Append(<<>>, t)))
               /\ LastFired(Append(<<>>, t), c) = f[Len(Append(<<>>, t))]
  <2>1. Len(Append(<<>>, t)) \in Nat
    BY <1>1
  <2>. QED
    BY <2>1, FiredDef, Zenon
<1>3. f[1] = Append(<<>>, t)[1]
  <2>1. 1 \in 1..1
    OBVIOUS
  <2>. QED
    BY <1>1, <1>2, <2>1, FiresAt
<1>. QED
  BY <1>1, <1>2, <1>3, Zenon

\* Another one fires if the cooldown is over.
LEMMA FiredNext ==
    ASSUME NEW times \in Seq(Nat), times /= <<>>, NEW t \in Nat, NEW c
    PROVE  LastFired(Append(times, t), c) =
              IF t - LastFired(times, c) < Cooldown(c) THEN LastFired(times, c) ELSE t
<1>1. PICK n, a : n = Len(times) /\ a = Append(times, t)
  OBVIOUS
<1>2. /\ n \in Nat /\ n /= 0 /\ Len(a) = n + 1 /\ a[n + 1] = t
      /\ \A i \in 1..n : a[i] = times[i]
  <2>1. n \in Nat /\ n /= 0
    BY <1>1
  <2>. QED
    BY <1>1, <2>1, AppendFacts
<1>3. PICK f : Fires(f, times, c, n) /\ LastFired(times, c) = f[n]
  BY <1>1, <1>2, FiredDef
<1>4. PICK g : Fires(g, a, c, n + 1) /\ LastFired(a, c) = g[n + 1]
  BY <1>2, FiredDef
<1>5. /\ n \in 1..n /\ n + 1 \in 1..(n + 1) /\ n + 1 /= 1 /\ n + 1 - 1 = n
      /\ n + 1 \in Nat /\ n <= n + 1
  BY <1>2
<1>6. f[n] = g[n]
  <2>1. \A i \in 1..n : times[i] = a[i]
    BY <1>2
  <2>2. PICK k : k = n + 1 /\ k \in Nat /\ n <= k
    BY <1>5
  <2>3. Fires(g, a, c, k) /\ Fires(f, times, c, n) /\ n \in Nat \ {0}
    BY <1>2, <1>3, <1>4, <2>2
  <2>. QED
    BY <2>1, <2>2, <2>3, FiresAgree
<1>7. g[n + 1] = IF a[n + 1] - g[n + 1 - 1] < Cooldown(c) THEN g[n + 1 - 1] ELSE a[n + 1]
  BY <1>4, <1>5, FiresAt
<1>. QED
  BY <1>1, <1>2, <1>3, <1>4, <1>5, <1>6, <1>7, Zenon

\* The alert carries the time of one of the submissions.
LEMMA FiredIsTime ==
    ASSUME NEW times \in Seq(Nat), times /= <<>>, NEW c
    PROVE  \E k \in 1..Len(times) : LastFired(times, c) = times[k]
<1>1. PICK n : n = Len(times) /\ n \in Nat /\ n /= 0
  OBVIOUS
<1>2. PICK f : Fires(f, times, c, n) /\ LastFired(times, c) = f[n]
  BY <1>1, FiredDef
<1>. DEFINE T == {m \in Nat : m \in 1..n => \E k \in 1..n : f[m] = times[k]}
<1>3. 0 \in T
  OBVIOUS
<1>4. ASSUME NEW m \in Nat, m \in T PROVE m + 1 \in T
  <2>1. SUFFICES ASSUME m + 1 \in 1..n PROVE \E k \in 1..n : f[m + 1] = times[k]
    OBVIOUS
  <2>2. m + 1 - 1 = m /\ (m + 1 = 1 \/ m \in 1..n) /\ 1 \in 1..n
    BY <1>1, <2>1
  <2>3. f[m + 1] = IF m + 1 = 1 THEN times[1]
                   ELSE IF times[m + 1] - f[m + 1 - 1] < Cooldown(c) THEN f[m + 1 - 1]
                   ELSE times[m + 1]
    BY <1>2, <2>1, FiresAt
  <2>4. m + 1 /= 1 => \E k \in 1..n : f[m + 1 - 1] = times[k]
    BY <1>4, <2>2
  <2>. QED
    BY <2>1, <2>2, <2>3, <2>4, Zenon
<1>5. \A m \in Nat : m \in T
  <2>. HIDE DEF T
  <2>. QED
    BY <1>3, <1>4, SetInduction
<1>6. n \in 1..n
  BY <1>1
<1>. QED
  BY <1>1, <1>2, <1>5, <1>6

\* The table as a function of the times at which each category was submitted.
Table == [Categories -> [ts : Int, count : Nat]]

\* An alert in the table is one of those times, or none.
LEMMA AlertAfterFacts ==
    ASSUME NEW times \in Seq(Nat), NEW c
    PROVE  /\ AlertAfter(times, c) \in [ts : Int, count : Nat]
           /\ AlertAfter(times, c).count = Len(times)
           /\ \/ AlertAfter(times, c).ts = -1
              \/ \E k \in 1..Len(times) : AlertAfter(times, c).ts = times[k]
<1>1. Len(times) \in Nat
  OBVIOUS
<1>2. CASE times = <<>>
  BY <1>2 DEF AlertAfter, NoAlert
<1>3. CASE times /= <<>>
  <2>1. PICK k \in 1..Len(times) : LastFired(times, c) = times[k]
    BY <1>3, FiredIsTime
  <2>2. AlertAfter(times, c) = [ts |-> LastFired(times, c), count |-> Len(times)]
    BY <1>3, Zenon DEF AlertAfter
  <2>3. times[k] \in Nat
    BY <2>1
  <2>. HIDE DEF AlertAfter
  <2>. QED
    BY <1>1, <2>1, <2>2, <2>3
<1>. QED
  BY <1>2, <1>3

\* submit() brings the entry of its category up to date: a first alert, one
\* within its cooldown, or one fired again (alert_manager.py:24-44).
LEMMA SubmitEntry ==
    ASSUME NEW table \in Table, NEW c \in Categories, NEW t \in Nat,
           NEW times \in Seq(Nat), table[c] = AlertAfter(times, c)
    PROVE  Submit(table, c, t)[c] = AlertAfter(Append(times, t), c)
<1>1. PICK a : a = Append(times, t)
  OBVIOUS
<1>2. /\ Len(times) \in Nat /\ Len(a) = Len(times) + 1 /\ a /= <<>>
      /\ times /= <<>> => Len(times) > 0
  BY <1>1
<1>3. DOMAIN table = Categories
  BY DEF Table
<1>4. Submit(table, c, t)[c] =
         [ts    |-> IF table[c].count > 0 /\ t - table[c].ts < Cooldown(c)
                    THEN table[c].ts ELSE t,
          count |-> table[c].count + 1]
  BY <1>3, Zenon DEF Submit
<1>5. AlertAfter(a, c) = [ts |-> LastFired(a, c), count |-> Len(a)]
  BY <1>2, Zenon DEF AlertAfter
<1>6. CASE times = <<>>
  <2>1. table[c].count = 0
    BY <1>6 DEF AlertAfter, NoAlert
  <2>2. LastFired(a, c) = t /\ Len(a) = 1
    BY <1>1, <1>2, <1>6, FiredFirst
  <2>. QED
    BY <1>1, <1>4, <1>5, <2>1, <2>2
<1>7. CASE times /= <<>>
  <2>1. table[c] = [ts |-> LastFired(times, c), count |-> Len(times)]
    BY <1>7, Zenon DEF AlertAfter
  <2>2. table[c].ts = LastFired(times, c) /\ table[c].count = Len(times)
    BY <2>1
  <2>3. table[c].count > 0 /\ table[c].count + 1 = Len(a)
    BY <1>2, <1>7, <2>2
  <2>4. LastFired(a, c) = IF t - LastFired(times, c) < Cooldown(c)
                          THEN LastFired(times, c) ELSE t
    BY <1>1, <1>7, FiredNext
  <2>5. (IF table[c].count > 0 /\ t - table[c].ts < Cooldown(c) THEN table[c].ts ELSE t)
          = LastFired(a, c)
    BY <2>2, <2>3, <2>4, Zenon
  <2>. QED
    BY <1>1, <1>4, <1>5, <2>3, <2>5, Zenon
<1>. QED
  BY <1>6, <1>7

\* ... and no other entry.
LEMMA SubmitOthers ==
    ASSUME NEW table \in Table, NEW c \in Categories, NEW t \in Nat
    PROVE  /\ Submit(table, c, t) \in Table
           /\ \A d \in Categories : d /= c => Submit(table, c, t)[d] = table[d]
<1>1. table[c] \in [ts : Int, count : Nat]
  BY DEF Table
<1>. QED
  BY <1>1 DEF Submit, Table

-----------------------------------------------------------------------------
(* The history and what is selected from it.                               *)

Kinds == {"glitch", "runaway", "abort"} \cup ErrorKinds

Events == [kind : Kinds, t : Nat]

\* The times of a history, those of some kinds since time from, and their
\* positions.
TimesOf(e) == [i \in DOMAIN e |-> e[i].t]
From(e, kinds, from) == {i \in DOMAIN e : e[i].kind \in kinds /\ e[i].t >= from}
TimesFrom(e, kinds, from) == Picked(TimesOf(e), From(e, kinds, from))

\* The times are as many numbers as there are events.
LEMMA TimesFacts ==
    ASSUME NEW e \in Seq(Events)
    PROVE  /\ TimesOf(e) \in Seq(Nat) /\ Len(TimesOf(e)) = Len(e) /\ Len(e) \in Nat
           /\ DOMAIN e = 1..Len(e)
           /\ \A i \in 1..Len(e) : TimesOf(e)[i] = e[i].t /\ e[i] \in Events /\ e[i].t \in Nat
<1>1. DOMAIN e = 1..Len(e) /\ Len(e) \in Nat /\ \A i \in 1..Len(e) : e[i] \in Events
  BY LenProperties, ElementOfSeq
<1>2. \A i \in 1..Len(e) : e[i].t \in Nat
  BY <1>1 DEF Events
<1>3. TimesOf(e) \in [1..Len(e) -> Nat]
  BY <1>1, <1>2 DEF TimesOf
<1>4. TimesOf(e) \in Seq(Nat) /\ Len(TimesOf(e)) = Len(e)
  BY <1>1, <1>3, FunctionIsSeq
<1>. QED
  BY <1>1, <1>2, <1>4 DEF TimesOf

\* One more event, one more time.
LEMMA TimesNext ==
    ASSUME NEW e \in Seq(Events), NEW v \in Events
    PROVE  TimesOf(Append(e, v)) = Append(TimesOf(e), v.t)
<1>1. v.t \in Nat
  BY DEF Events
<1>2. PICK a, s, u, n : /\ a = Append(e, v) /\ s = TimesOf(e)
                        /\ u = Append(TimesOf(e), v.t) /\ n = Len(e)
  OBVIOUS
<1>3. /\ a \in Seq(Events) /\ Len(a) = n + 1 /\ n \in Nat /\ a[n + 1] = v
      /\ \A i \in 1..n : a[i] = e[i]
  BY <1>2, AppendFacts
<1>4. /\ s \in Seq(Nat) /\ Len(s) = n /\ \A i \in 1..n : s[i] = e[i].t
  BY <1>2, TimesFacts
<1>5. /\ u \in Seq(Nat) /\ Len(u) = n + 1 /\ u[n + 1] = v.t
      /\ \A i \in 1..n : u[i] = s[i]
  BY <1>1, <1>2, <1>4, AppendFacts
<1>6. /\ TimesOf(a) \in Seq(Nat) /\ Len(TimesOf(a)) = n + 1
      /\ \A i \in 1..(n + 1) : TimesOf(a)[i] = a[i].t
  BY <1>3, TimesFacts
<1>7. \A i \in 1..(n + 1) : TimesOf(a)[i] = u[i]
  <2>1. SUFFICES ASSUME NEW i \in 1..(n + 1) PROVE a[i].t = u[i]
    BY <1>6
  <2>2. i \in 1..n \/ i = n + 1
    BY <1>3
  <2>. QED
    BY <1>3, <1>4, <1>5, <2>2
<1>8. TimesOf(a) = u
  BY <1>5, <1>6, <1>7, SameElements
<1>. QED
  BY <1>2, <1>8

\* A selection of numbers, one more number: it joins if it is selected.
LEMMA TimePicked ==
    ASSUME NEW s \in Seq(Nat), NEW x \in Nat, NEW S
    PROVE  Picked(Append(s, x), S) = IF Len(s) + 1 \in S THEN Append(Picked(s, S), x)
                                     ELSE Picked(s, S)
BY PickedAppend

\* A selection of times, one more event: its time joins if it is selected.
LEMMA SelectNext ==
    ASSUME NEW e \in Seq(Events), NEW v \in Events, NEW S, NEW U,
           \A i \in 1..Len(e) : i \in S <=> i \in U
    PROVE  Picked(TimesOf(Append(e, v)), S) =
              IF Len(e) + 1 \in S THEN Append(Picked(TimesOf(e), U), v.t)
              ELSE Picked(TimesOf(e), U)
<1>1. /\ TimesOf(e) \in Seq(Nat) /\ Len(TimesOf(e)) = Len(e) /\ v.t \in Nat
      /\ TimesOf(Append(e, v)) = Append(TimesOf(e), v.t)
  BY TimesFacts, TimesNext DEF Events
<1>2. PICK s : s = TimesOf(e)
  OBVIOUS
<1>3. Picked(s, S) = Picked(s, U)
  BY <1>1, <1>2, PickedSame
<1>4. Picked(Append(s, v.t), S) = IF Len(s) + 1 \in S THEN Append(Picked(s, S), v.t)
                                  ELSE Picked(s, S)
  <2>1. PICK x : x = v.t
    OBVIOUS
  <2>2. s \in Seq(Nat) /\ x \in Nat
    BY <1>1, <1>2, <2>1
  <2>3. Picked(Append(s, x), S) = IF Len(s) + 1 \in S THEN Append(Picked(s, S), x)
                                  ELSE Picked(s, S)
    BY <2>2, TimePicked, Zenon
  <2>. QED
    BY <2>1, <2>3, Zenon
<1>. QED
  BY <1>1, <1>2, <1>3, <1>4, Zenon

\* Positions since a time, one more event.
LEMMA FromNext ==
    ASSUME NEW e \in Seq(Events), NEW v \in Events, NEW kinds, NEW from \in Int
    PROVE  /\ \A i \in 1..Len(e) : i \in From(Append(e, v), kinds, from)
                                   <=> i \in From(e, kinds, from)
           /\ Len(e) + 1 \in From(Append(e, v), kinds, from)
                 <=> v.kind \in kinds /\ v.t >= from
           /\ From(Append(e, v), kinds, from) \subseteq 1..(Len(e) + 1)
<1>1. PICK a, n : a = Append(e, v) /\ n = Len(e)
  OBVIOUS
<1>2. /\ DOMAIN a = 1..(n + 1) /\ DOMAIN e = 1..n /\ n \in Nat /\ a[n + 1] = v
      /\ \A i \in 1..n : a[i] = e[i]
  BY <1>1, AppendFacts
<1>3. \A i \in 1..n : i \in 1..(n + 1)
  BY <1>2
<1>4. n + 1 \in 1..(n + 1)
  BY <1>2
<1>. QED
  BY <1>1, <1>2, <1>3, <1>4, Zenon DEF From

\* The times since a time, one more event.
LEMMA TimesFromNext ==
    ASSUME NEW e \in Seq(Events), NEW v \in Events, NEW kinds, NEW from \in Int
    PROVE  TimesFrom(Append(e, v), kinds, from) =
              IF v.kind \in kinds /\ v.t >= from THEN Append(TimesFrom(e, kinds, from), v.t)
              ELSE TimesFrom(e, kinds, from)
<1>1. PICK S, U : S = From(Append(e, v), kinds, from) /\ U = From(e, kinds, from)
  OBVIOUS
<1>2. /\ \A i \in 1..Len(e) : i \in S <=> i \in U
      /\ Len(e) + 1 \in S <=> v.kind \in kinds /\ v.t >= from
  BY <1>1, FromNext
<1>3. Picked(TimesOf(Append(e, v)), S) =
         IF Len(e) + 1 \in S THEN Append(Picked(TimesOf(e), U), v.t)
         ELSE Picked(TimesOf(e), U)
  BY <1>2, SelectNext
<1>. QED
  BY <1>1, <1>2, <1>3, Zenon DEF TimesFrom

\* What a trimmed window keeps.
Trimmed(w, from) == Picked(w, {k \in DOMAIN w : w[k] >= from})

\* Trimming the times since an earlier time leaves those since the later one.
LEMMA TrimmedFrom ==
    ASSUME NEW e \in Seq(Events), NEW kinds, NEW cut \in Int, NEW from \in Int, cut <= from
    PROVE  Trimmed(TimesFrom(e, kinds, cut), from) = TimesFrom(e, kinds, from)
<1>1. PICK q, n, S, U, at, w :
         /\ q = TimesOf(e) /\ n = Len(e)
         /\ S = From(e, kinds, cut) /\ U = From(e, kinds, from)
         /\ at = InOrder(S, Len(q)) /\ w = Picked(q, S)
  OBVIOUS
<1>2. /\ q \in Seq(Nat) /\ Len(q) = n /\ n \in Nat /\ DOMAIN e = 1..n
      /\ \A i \in 1..n : q[i] = e[i].t /\ e[i].t \in Nat
  BY <1>1, TimesFacts
<1>3. /\ w \in Seq(Nat) /\ Len(w) = Len(at) /\ Len(at) \in Nat
      /\ \A k \in 1..Len(at) : at[k] \in 1..Len(q) /\ at[k] \in S
      /\ \A k \in 1..Len(at) : w[k] = q[at[k]]
  BY <1>1, <1>2, PickedFacts
<1>4. PICK K : K = {k \in DOMAIN w : w[k] >= from}
  OBVIOUS
<1>5. \A i \in 1..n : i \in U <=> i \in S /\ e[i].t >= from
  BY <1>1, <1>2 DEF From
<1>6. \A k \in 1..Len(at) : k \in K <=> at[k] \in U
  <2>1. SUFFICES ASSUME NEW k \in 1..Len(at) PROVE k \in K <=> at[k] \in U
    OBVIOUS
  <2>2. DOMAIN w = 1..Len(at)
    BY <1>3
  <2>3. at[k] \in 1..n /\ at[k] \in S /\ w[k] = e[at[k]].t
    BY <1>2, <1>3
  <2>. QED
    BY <1>4, <1>5, <2>2, <2>3
<1>7. \A i \in 1..Len(q) : i \in U => i \in S
  BY <1>2, <1>5
<1>8. Picked(w, K) = Picked(q, U)
  BY <1>1, <1>2, <1>6, <1>7, PickedAgain
<1>. QED
  BY <1>1, <1>4, <1>8, Zenon DEF Trimmed, TimesFrom

\* How many times there are since a time.
LEMMA TimesFromCount ==
    ASSUME NEW e \in Seq(Events), NEW kinds, NEW from \in Int
    PROVE  /\ TimesFrom(e, kinds, from) \in Seq(Nat)
           /\ Len(TimesFrom(e, kinds, from)) = Cardinality(From(e, kinds, from))
<1>1. PICK q, S : q = TimesOf(e) /\ S = From(e, kinds, from)
  OBVIOUS
<1>2. q \in Seq(Nat) /\ Len(q) = Len(e) /\ S \subseteq 1..Len(q)
  BY <1>1, TimesFacts DEF From
<1>3. Len(Picked(q, S)) = Cardinality(S \cap (1..Len(q)))
  BY <1>2, PickedCount
<1>4. S \cap (1..Len(q)) = S
  BY <1>2
<1>5. Picked(q, S) \in Seq(Nat)
  BY <1>2, PickedFacts
<1>. QED
  BY <1>1, <1>3, <1>4, <1>5 DEF TimesFrom

\* A window that takes the time of an event and is trimmed holds the times since
\* its edge, the new one included.
LEMMA TrimNext ==
    ASSUME NEW e \in Seq(Events), NEW v \in Events, NEW kinds, v.kind \in kinds,
           NEW cut \in Int, NEW from \in Int, cut <= from, from <= v.t
    PROVE  Trimmed(Append(TimesFrom(e, kinds, cut), v.t), from)
              = TimesFrom(Append(e, v), kinds, from)
<1>1. v.t \in Nat
  BY DEF Events
<1>2. v.t >= cut
  BY <1>1
<1>3. TimesFrom(Append(e, v), kinds, cut) = Append(TimesFrom(e, kinds, cut), v.t)
  BY <1>2, TimesFromNext
<1>4. Append(e, v) \in Seq(Events)
  OBVIOUS
<1>5. Trimmed(TimesFrom(Append(e, v), kinds, cut), from) = TimesFrom(Append(e, v), kinds, from)
  BY <1>4, TrimmedFrom
<1>. QED
  BY <1>3, <1>5, Zenon

-----------------------------------------------------------------------------
(* The events that raise an alert.                                         *)

\* Module Diagnostics tells them from its history; here from any.
CountIn(e, i, kinds, from) ==
    Cardinality({j \in 1..i : e[j].kind \in kinds /\ e[j].t >= from})

RaisesIn(e, i, c) ==
    \/ /\ e[i].kind = "glitch"
       /\ c = (IF CountIn(e, i, {"glitch"}, e[i].t - Window) >= GlitchBurst
               THEN "GLITCH_BURST" ELSE "SINGLE_GLITCH")
    \/ /\ e[i].kind = "abort"
       /\ c = (IF CountIn(e, i, {"abort"}, e[i].t - Window) >= AbortBurst
               THEN "REPEATED_ABORTS" ELSE "ABORTED_FRAME")
    \/ e[i].kind = "runaway" /\ c = "DOMINANT_RUNAWAY"
    \/ /\ e[i].kind \in ErrorKinds
       /\ CountIn(e, i, ErrorKinds, e[i].t - Window + 1) >= ErrorBurst
       /\ c = "REPEATED_ERROR_FRAMES"
    \/ e[i].kind = "busoff" /\ c = "BUS_OFF"

\* The times of those that raise c.
RaisedIn(e, c) == Picked(TimesOf(e), {i \in DOMAIN e : RaisesIn(e, i, c)})

\* A later event does not change a count, ...
LEMMA CountSame ==
    ASSUME NEW e \in Seq(Events), NEW v \in Events, NEW i \in 1..Len(e), NEW kinds, NEW from
    PROVE  CountIn(Append(e, v), i, kinds, from) = CountIn(e, i, kinds, from)
<1>1. PICK a : a = Append(e, v)
  OBVIOUS
<1>2. \A j \in 1..Len(e) : a[j] = e[j]
  BY <1>1, AppendFacts
<1>3. \A j \in 1..i : j \in 1..Len(e)
  OBVIOUS
<1>4. {j \in 1..i : a[j].kind \in kinds /\ a[j].t >= from}
         = {j \in 1..i : e[j].kind \in kinds /\ e[j].t >= from}
  BY <1>2, <1>3, Zenon
<1>. QED
  BY <1>1, <1>4, Zenon DEF CountIn

\* ... nor what an event raised.
LEMMA RaisesSame ==
    ASSUME NEW e \in Seq(Events), NEW v \in Events, NEW i \in 1..Len(e), NEW c
    PROVE  RaisesIn(Append(e, v), i, c) <=> RaisesIn(e, i, c)
<1>1. Append(e, v)[i] = e[i]
  BY AppendFacts
<1>2. \A kinds, from : CountIn(Append(e, v), i, kinds, from) = CountIn(e, i, kinds, from)
  BY CountSame
<1>. QED
  BY <1>1, <1>2, Zenon DEF RaisesIn

\* The count at the newest event is the length of the trimmed window.
LEMMA CountNewest ==
    ASSUME NEW e \in Seq(Events), NEW v \in Events, NEW kinds, NEW from \in Int
    PROVE  CountIn(Append(e, v), Len(e) + 1, kinds, from)
              = Len(TimesFrom(Append(e, v), kinds, from))
<1>1. PICK a : a = Append(e, v)
  OBVIOUS
<1>2. a \in Seq(Events) /\ DOMAIN a = 1..(Len(e) + 1)
  BY <1>1, AppendFacts
<1>3. Len(TimesFrom(a, kinds, from)) = Cardinality(From(a, kinds, from))
  BY <1>2, TimesFromCount
<1>. QED
  BY <1>1, <1>2, <1>3, Zenon DEF CountIn, From

\* The times of those that raise c are numbers, and one more event adds its
\* time if it raises c.
LEMMA RaisedNext ==
    ASSUME NEW e \in Seq(Events), NEW v \in Events, NEW c
    PROVE  /\ RaisedIn(e, c) \in Seq(Nat)
           /\ RaisedIn(Append(e, v), c) =
                 IF RaisesIn(Append(e, v), Len(e) + 1, c) THEN Append(RaisedIn(e, c), v.t)
                 ELSE RaisedIn(e, c)
<1>1. PICK a, S, U : /\ a = Append(e, v)
                     /\ S = {i \in DOMAIN a : RaisesIn(a, i, c)}
                     /\ U = {i \in DOMAIN e : RaisesIn(e, i, c)}
  OBVIOUS
<1>2. /\ DOMAIN a = 1..(Len(e) + 1) /\ DOMAIN e = 1..Len(e) /\ Len(e) \in Nat
      /\ Len(e) + 1 \in 1..(Len(e) + 1)
  BY <1>1, AppendFacts
<1>3. \A i \in 1..Len(e) : i \in S <=> i \in U
  <2>1. SUFFICES ASSUME NEW i \in 1..Len(e) PROVE i \in S <=> i \in U
    OBVIOUS
  <2>2. RaisesIn(a, i, c) <=> RaisesIn(e, i, c)
    BY <1>1, RaisesSame
  <2>3. i \in 1..(Len(e) + 1)
    BY <1>2
  <2>. QED
    BY <1>1, <1>2, <2>2, <2>3, Zenon
<1>4. Len(e) + 1 \in S <=> RaisesIn(a, Len(e) + 1, c)
  BY <1>1, <1>2, Zenon
<1>5. Picked(TimesOf(Append(e, v)), S) =
         IF Len(e) + 1 \in S THEN Append(Picked(TimesOf(e), U), v.t)
         ELSE Picked(TimesOf(e), U)
  BY <1>3, SelectNext
<1>6. RaisedIn(e, c) \in Seq(Nat)
  <2>1. PICK q : q = TimesOf(e) /\ q \in Seq(Nat)
    BY TimesFacts
  <2>2. Picked(q, U) \in Seq(Nat)
    BY <2>1, PickedFacts
  <2>. QED
    BY <1>1, <2>1, <2>2 DEF RaisedIn
<1>. QED
  BY <1>1, <1>4, <1>5, <1>6, Zenon DEF RaisedIn

\* The table is up to date with a for the categories of D, and with e for the
\* others.
UpTo(table, e, a, D) ==
    /\ table \in Table
    /\ \A c \in Categories : table[c] = AlertAfter(RaisedIn(IF c \in D THEN a ELSE e, c), c)

\* Submitting what the newest event raises brings the table up to date, ...
LEMMA SubmitMore ==
    ASSUME NEW e \in Seq(Events), NEW v \in Events, NEW D, NEW d \in Categories, d \notin D,
           NEW table, UpTo(table, e, Append(e, v), D),
           RaisesIn(Append(e, v), Len(e) + 1, d)
    PROVE  UpTo(Submit(table, d, v.t), e, Append(e, v), D \cup {d})
<1>1. PICK a, new : a = Append(e, v) /\ new = Submit(table, d, v.t)
  OBVIOUS
<1>2. table \in Table /\ v.t \in Nat
  BY DEF UpTo, Events
<1>3. new \in Table /\ \A c \in Categories : c /= d => new[c] = table[c]
  BY <1>1, <1>2, SubmitOthers
<1>4. RaisedIn(e, d) \in Seq(Nat) /\ RaisedIn(a, d) = Append(RaisedIn(e, d), v.t)
  BY <1>1, RaisedNext
<1>5. table[d] = AlertAfter(RaisedIn(e, d), d)
  BY Zenon DEF UpTo
<1>6. new[d] = AlertAfter(RaisedIn(a, d), d)
  BY <1>1, <1>2, <1>4, <1>5, SubmitEntry
<1>7. ASSUME NEW c \in Categories
      PROVE  new[c] = AlertAfter(RaisedIn(IF c \in D \cup {d} THEN a ELSE e, c), c)
  <2>1. CASE c = d
    BY <1>6, <2>1
  <2>2. CASE c /= d
    <3>1. new[c] = AlertAfter(RaisedIn(IF c \in D THEN a ELSE e, c), c)
      BY <1>1, <1>3, <2>2, Zenon DEF UpTo
    <3>2. c \in D \cup {d} <=> c \in D
      BY <2>2
    <3>. QED
      BY <3>1, <3>2, Zenon
  <2>. QED
    BY <2>1, <2>2
<1>. QED
  BY <1>1, <1>3, <1>7, Zenon DEF UpTo

\* ... and it is so when no other category was raised.
LEMMA AllSubmitted ==
    ASSUME NEW e \in Seq(Events), NEW v \in Events, NEW D, NEW table,
           UpTo(table, e, Append(e, v), D),
           \A c \in Categories : c \notin D => ~RaisesIn(Append(e, v), Len(e) + 1, c)
    PROVE  \A c \in Categories : table[c] = AlertAfter(RaisedIn(Append(e, v), c), c)
<1>1. PICK a : a = Append(e, v)
  OBVIOUS
<1>2. SUFFICES ASSUME NEW c \in Categories PROVE table[c] = AlertAfter(RaisedIn(a, c), c)
  BY <1>1
<1>3. table[c] = AlertAfter(RaisedIn(IF c \in D THEN a ELSE e, c), c)
  BY <1>1, Zenon DEF UpTo
<1>4. c \notin D => RaisedIn(a, c) = RaisedIn(e, c)
  BY <1>1, RaisedNext
<1>. QED
  BY <1>3, <1>4, Zenon

-----------------------------------------------------------------------------
(* The inductive invariant.                                                *)

\* The history: events of the kinds there are, at times that have come.
EventsOK ==
    /\ events \in Seq(Events) /\ Len(events) <= MaxEvents
    /\ now \in 0..MaxTime
    /\ \A i \in 1..Len(events) : events[i].t <= now

\* A window holds the times since some edge that is not too recent: how far it
\* has been trimmed depends on the updates of the page.
WindowOK(w, kinds) ==
    \E cut \in Int : cut <= now - Window /\ w = TimesFrom(events, kinds, cut)

\* The times of error frames: a trim cuts those at the edge of the second too.
ErrorsOK ==
    \E cut \in Int : cut <= now - Window + 1 /\ errTs = TimesFrom(events, ErrorKinds, cut)

\* The alert table is what the events of e call for.
Current(table, e) ==
    /\ table \in Table
    /\ \A c \in Categories : table[c] = AlertAfter(RaisedIn(e, c), c)

\* Counters never pass the number of events.
Told(n) == [tec : 0..n, state : {"unknown", "error-active", "bus-off"}]
BusOK ==
    /\ bus \in Told(Len(events)) /\ controller \in Told(Len(events))
    /\ poll = <<>> \/ \E answer \in Told(Len(events)) : poll = <<answer>>

DiagInv ==
    /\ EventsOK
    /\ WindowOK(glitchWindow, {"glitch"}) /\ WindowOK(abortWindow, {"abort"})
    /\ ErrorsOK /\ runaway \in BOOLEAN
    /\ Current(alerts, events)
    /\ BusOK

-----------------------------------------------------------------------------
(* What one more event does to each part of the invariant.                 *)

\* The event an action records.
LEMMA Recorded ==
    ASSUME EventsOK, NEW kind \in Kinds, Record(kind), UNCHANGED now
    PROVE  \E v \in Events : /\ v.kind = kind /\ v.t = now
                             /\ events' = Append(events, v)
                             /\ EventsOK'
                             /\ Len(events') = Len(events) + 1
<1>1. PICK v : v = [kind |-> kind, t |-> now]
  OBVIOUS
<1>2. v \in Events /\ v.kind = kind /\ v.t = now /\ now \in Nat
  BY <1>1 DEF Events, EventsOK
<1>3. PICK e, a, n : e = events /\ a = events' /\ n = Len(events)
  OBVIOUS
<1>4. e \in Seq(Events) /\ a = Append(e, v) /\ n < MaxEvents
  BY <1>1, <1>3 DEF EventsOK, Record
<1>5. /\ a \in Seq(Events) /\ n \in Nat /\ Len(a) = n + 1
      /\ \A i \in 1..n : a[i] = e[i]
      /\ a[n + 1] = v
  BY <1>2, <1>3, <1>4
<1>6. n + 1 <= MaxEvents
  BY <1>4, <1>5, DiagnosticsAssumption DEF DiagnosticsAssumption
<1>7. \A i \in 1..(n + 1) : i \in 1..n \/ i = n + 1
  BY <1>5
<1>8. \A i \in 1..(n + 1) : a[i].t <= now
  <2>1. SUFFICES ASSUME NEW i \in 1..(n + 1) PROVE a[i].t <= now
    OBVIOUS
  <2>2. CASE i \in 1..n
    BY <1>3, <1>5, <2>2 DEF EventsOK
  <2>3. CASE i = n + 1
    BY <1>2, <1>5, <2>3
  <2>. QED
    BY <1>7, <2>2, <2>3
<1>9. EventsOK'
  BY <1>3, <1>5, <1>6, <1>8 DEF EventsOK
<1>. QED
  BY <1>2, <1>3, <1>4, <1>5, <1>9

\* An event of another kind leaves a window as it is, ...
LEMMA WindowKept ==
    ASSUME EventsOK, NEW v \in Events, events' = Append(events, v), UNCHANGED now,
           NEW kinds, v.kind \notin kinds, NEW w, WindowOK(w, kinds)
    PROVE  \E cut \in Int : cut <= now' - Window /\ w = TimesFrom(events', kinds, cut)
<1>1. PICK cut \in Int : cut <= now - Window /\ w = TimesFrom(events, kinds, cut)
  BY DEF WindowOK
<1>2. TimesFrom(Append(events, v), kinds, cut) = TimesFrom(events, kinds, cut)
  BY TimesFromNext DEF EventsOK
<1>. QED
  BY <1>1, <1>2

\* ... and one of its kind is added to it, and it is trimmed.
LEMMA WindowGrown ==
    ASSUME EventsOK, NEW v \in Events, events' = Append(events, v), UNCHANGED now,
           NEW kinds, v.kind \in kinds, v.t = now, NEW w, WindowOK(w, kinds),
           NEW u, u = Trim(Append(w, now))
    PROVE  /\ u = TimesFrom(events', kinds, now - Window)
           /\ \E cut \in Int : cut <= now' - Window /\ u = TimesFrom(events', kinds, cut)
<1>1. PICK cut \in Int : cut <= now - Window /\ w = TimesFrom(events, kinds, cut)
  BY DEF WindowOK
<1>2. PICK from : from = now - Window
  OBVIOUS
<1>3. from \in Int /\ from <= v.t /\ now \in Nat
  BY <1>2, DiagnosticsAssumption DEF DiagnosticsAssumption, EventsOK
<1>4. u = Trimmed(Append(w, v.t), from)
  BY <1>2 DEF Trim, Trimmed
<1>5. Trimmed(Append(TimesFrom(events, kinds, cut), v.t), from)
        = TimesFrom(Append(events, v), kinds, from)
  BY <1>1, <1>2, <1>3, TrimNext DEF EventsOK
<1>6. u = TimesFrom(events', kinds, from)
  BY <1>1, <1>4, <1>5
<1>. QED
  BY <1>2, <1>3, <1>6

\* An update of the page trims a window.
LEMMA WindowTrimmed ==
    ASSUME EventsOK, UNCHANGED <<now, events>>, NEW kinds, NEW w, WindowOK(w, kinds),
           NEW u, u = Trim(w)
    PROVE  /\ u = TimesFrom(events, kinds, now - Window)
           /\ \E cut \in Int : cut <= now' - Window /\ u = TimesFrom(events', kinds, cut)
<1>1. PICK cut \in Int : cut <= now - Window /\ w = TimesFrom(events, kinds, cut)
  BY DEF WindowOK
<1>2. PICK from : from = now - Window
  OBVIOUS
<1>3. from \in Int /\ now \in Nat
  BY <1>2, DiagnosticsAssumption DEF DiagnosticsAssumption, EventsOK
<1>4. u = Trimmed(w, from)
  BY <1>2 DEF Trim, Trimmed
<1>5. Trimmed(TimesFrom(events, kinds, cut), from) = TimesFrom(events, kinds, from)
  BY <1>1, <1>2, <1>3, TrimmedFrom DEF EventsOK
<1>6. u = TimesFrom(events, kinds, from)
  BY <1>1, <1>4, <1>5
<1>. QED
  BY <1>2, <1>3, <1>6

\* An event that is not an error leaves the times of the error frames.
LEMMA ErrorsKept ==
    ASSUME EventsOK, NEW v \in Events, events' = Append(events, v), UNCHANGED <<now, errTs>>,
           v.kind \notin ErrorKinds, ErrorsOK
    PROVE  ErrorsOK'
<1>1. PICK cut \in Int : cut <= now - Window + 1 /\ errTs = TimesFrom(events, ErrorKinds, cut)
  BY DEF ErrorsOK
<1>2. TimesFrom(Append(events, v), ErrorKinds, cut) = TimesFrom(events, ErrorKinds, cut)
  BY TimesFromNext DEF EventsOK
<1>. QED
  BY <1>1, <1>2 DEF ErrorsOK

\* An error frame: the times kept are those within a second of it.
LEMMA ErrorsGrown ==
    ASSUME EventsOK, NEW v \in Events, events' = Append(events, v), UNCHANGED now,
           v.kind \in ErrorKinds, v.t = now, ErrorsOK, errTs' = ErrorTimes
    PROVE  ErrorsOK' /\ errTs' = TimesFrom(events', ErrorKinds, now - Window + 1)
<1>1. PICK cut \in Int : /\ cut <= now - Window + 1
                         /\ errTs = TimesFrom(events, ErrorKinds, cut)
  BY DEF ErrorsOK
<1>2. PICK e, a, from : e = events /\ a = events' /\ from = now - Window + 1
  OBVIOUS
<1>3. e \in Seq(Events) /\ a = Append(e, v) /\ from \in Int /\ from <= v.t /\ now \in Nat
  BY <1>2, DiagnosticsAssumption DEF DiagnosticsAssumption, EventsOK
<1>4. errTs' = TimesFrom(a, ErrorKinds, from)
  <2>1. PICK w : w = Append(errTs, now)
    OBVIOUS
  <2>2. errTs \in Seq(Nat) /\ w \in Seq(Nat)
    BY <1>1, <1>2, <1>3, <2>1, TimesFromCount
  <2>3. Picked(w, {i \in DOMAIN w : now - w[i] < Window}) = Trimmed(w, from)
    <3>1. \A i \in DOMAIN w : w[i] \in Nat
      BY <2>2
    <3>2. Window \in Nat
      BY DiagnosticsAssumption DEF DiagnosticsAssumption
    <3>3. \A x \in Nat : now - x < Window <=> x >= now - Window + 1
      BY <1>3, <3>2
    <3>4. {i \in DOMAIN w : now - w[i] < Window} = {i \in DOMAIN w : w[i] >= from}
      BY <1>2, <3>1, <3>3
    <3>. QED
      BY <3>4, Zenon DEF Trimmed
  <2>4. Trimmed(Append(TimesFrom(e, ErrorKinds, cut), v.t), from) = TimesFrom(a, ErrorKinds, from)
    BY <1>1, <1>2, <1>3, TrimNext
  <2>. QED
    BY <1>1, <1>2, <2>1, <2>3, <2>4, Zenon DEF ErrorTimes
<1>. QED
  BY <1>2, <1>3, <1>4 DEF ErrorsOK

\* One more event leaves room for one more error in the counters.
LEMMA CountersKept ==
    ASSUME EventsOK, Len(events') = Len(events) + 1, UNCHANGED <<bus, poll, controller>>, BusOK
    PROVE  BusOK'
<1>1. PICK n : n = Len(events)
  OBVIOUS
<1>2. n \in Nat
  BY <1>1 DEF EventsOK
<1>3. Told(n) \subseteq Told(n + 1)
  BY <1>2 DEF Told
<1>. QED
  BY <1>1, <1>3 DEF BusOK

\* The alerts that the newest event raises: of the burst categories one by the
\* number of events in its window, ...
LEMMA GlitchRaises ==
    ASSUME NEW e \in Seq(Events), NEW v \in Events, v.kind = "glitch", NEW c \in Categories
    PROVE  RaisesIn(Append(e, v), Len(e) + 1, c) <=>
              c = (IF Len(TimesFrom(Append(e, v), {"glitch"}, v.t - Window)) >= GlitchBurst
                   THEN "GLITCH_BURST" ELSE "SINGLE_GLITCH")
<1>1. PICK a, n : a = Append(e, v) /\ n = Len(e)
  OBVIOUS
<1>2. a[n + 1] = v /\ v.t - Window \in Int
  BY <1>1, DiagnosticsAssumption DEF DiagnosticsAssumption, Events
<1>3. CountIn(a, n + 1, {"glitch"}, v.t - Window)
        = Len(TimesFrom(a, {"glitch"}, v.t - Window))
  BY <1>1, <1>2, CountNewest
<1>. QED
  BY <1>1, <1>2, <1>3 DEF RaisesIn, ErrorKinds

\* of an abort likewise, ...
LEMMA AbortRaises ==
    ASSUME NEW e \in Seq(Events), NEW v \in Events, v.kind = "abort", NEW c \in Categories
    PROVE  RaisesIn(Append(e, v), Len(e) + 1, c) <=>
              c = (IF Len(TimesFrom(Append(e, v), {"abort"}, v.t - Window)) >= AbortBurst
                   THEN "REPEATED_ABORTS" ELSE "ABORTED_FRAME")
<1>1. PICK a, n : a = Append(e, v) /\ n = Len(e)
  OBVIOUS
<1>2. a[n + 1] = v /\ v.t - Window \in Int
  BY <1>1, DiagnosticsAssumption DEF DiagnosticsAssumption, Events
<1>3. CountIn(a, n + 1, {"abort"}, v.t - Window)
        = Len(TimesFrom(a, {"abort"}, v.t - Window))
  BY <1>1, <1>2, CountNewest
<1>. QED
  BY <1>1, <1>2, <1>3 DEF RaisesIn, ErrorKinds

\* of a runaway the one, ...
LEMMA RunawayRaises ==
    ASSUME NEW e \in Seq(Events), NEW v \in Events, v.kind = "runaway", NEW c \in Categories
    PROVE  RaisesIn(Append(e, v), Len(e) + 1, c) <=> c = "DOMINANT_RUNAWAY"
<1>1. PICK a, n : a = Append(e, v) /\ n = Len(e)
  OBVIOUS
<1>2. a[n + 1] = v
  BY <1>1
<1>. QED
  BY <1>1, <1>2 DEF RaisesIn, ErrorKinds

\* ... and of an error frame, up to two.
LEMMA ErrorRaises ==
    ASSUME NEW e \in Seq(Events), NEW v \in Events, v.kind \in ErrorKinds, NEW c \in Categories
    PROVE  RaisesIn(Append(e, v), Len(e) + 1, c) <=>
              \/ /\ c = "REPEATED_ERROR_FRAMES"
                 /\ Len(TimesFrom(Append(e, v), ErrorKinds, v.t - Window + 1)) >= ErrorBurst
              \/ c = "BUS_OFF" /\ v.kind = "busoff"
<1>1. PICK a, n : a = Append(e, v) /\ n = Len(e)
  OBVIOUS
<1>2. a[n + 1] = v /\ v.t - Window + 1 \in Int
  BY <1>1, DiagnosticsAssumption DEF DiagnosticsAssumption, Events
<1>3. CountIn(a, n + 1, ErrorKinds, v.t - Window + 1)
        = Len(TimesFrom(a, ErrorKinds, v.t - Window + 1))
  BY <1>1, <1>2, CountNewest
<1>. QED
  BY <1>1, <1>2, <1>3 DEF RaisesIn, ErrorKinds

\* The table after an event that raises one alert, ...
LEMMA CurrentAfterOne ==
    ASSUME NEW e \in Seq(Events), NEW v \in Events, NEW table, Current(table, e),
           NEW d \in Categories,
           \A c \in Categories : RaisesIn(Append(e, v), Len(e) + 1, c) <=> c = d
    PROVE  Current(Submit(table, d, v.t), Append(e, v))
<1>1. UpTo(table, e, Append(e, v), {})
  BY Zenon DEF Current, UpTo
<1>2. RaisesIn(Append(e, v), Len(e) + 1, d)
  OBVIOUS
<1>3. UpTo(Submit(table, d, v.t), e, Append(e, v), {} \cup {d})
  BY <1>1, <1>2, SubmitMore
<1>4. \A c \in Categories : c \notin {} \cup {d} => ~RaisesIn(Append(e, v), Len(e) + 1, c)
  OBVIOUS
<1>5. \A c \in Categories : Submit(table, d, v.t)[c] = AlertAfter(RaisedIn(Append(e, v), c), c)
  BY <1>3, <1>4, AllSubmitted
<1>6. Submit(table, d, v.t) \in Table
  BY <1>3, Zenon DEF UpTo
<1>. QED
  BY <1>5, <1>6, Zenon DEF Current

\* ... and after an error frame, which may raise both.
LEMMA CurrentAfterError ==
    ASSUME NEW e \in Seq(Events), NEW v \in Events, v.kind \in ErrorKinds,
           Current(alerts, e), v.t = now
    PROVE  Current(ErrorAlerts(v.kind, Len(TimesFrom(Append(e, v), ErrorKinds, v.t - Window + 1))),
                   Append(e, v))
<1>1. PICK a, count, burst, off :
         /\ a = Append(e, v)
         /\ count = Len(TimesFrom(a, ErrorKinds, v.t - Window + 1))
         /\ burst = IF count >= ErrorBurst
                    THEN Submit(alerts, "REPEATED_ERROR_FRAMES", now) ELSE alerts
         /\ off = IF v.kind = "busoff" THEN Submit(burst, "BUS_OFF", now) ELSE burst
  OBVIOUS
<1>2. "BUS_OFF" \in Categories /\ "REPEATED_ERROR_FRAMES" \in Categories
  BY DEF Categories
<1>3. \A c \in Categories : RaisesIn(a, Len(e) + 1, c) <=>
                               \/ c = "REPEATED_ERROR_FRAMES" /\ count >= ErrorBurst
                               \/ c = "BUS_OFF" /\ v.kind = "busoff"
  BY <1>1, ErrorRaises
<1>. DEFINE D1 == IF count >= ErrorBurst THEN {"REPEATED_ERROR_FRAMES"} ELSE {}
            D2 == IF v.kind = "busoff" THEN D1 \cup {"BUS_OFF"} ELSE D1
<1>4. UpTo(alerts, e, a, {})
  BY Zenon DEF Current, UpTo
<1>5. UpTo(burst, e, a, D1)
  <2>1. CASE count >= ErrorBurst
    <3>1. RaisesIn(a, Len(e) + 1, "REPEATED_ERROR_FRAMES")
      BY <1>2, <1>3, <2>1, Zenon
    <3>2. UpTo(Submit(alerts, "REPEATED_ERROR_FRAMES", v.t), e, a, {} \cup {"REPEATED_ERROR_FRAMES"})
      BY <1>1, <1>2, <1>4, <3>1, SubmitMore
    <3>3. {} \cup {"REPEATED_ERROR_FRAMES"} = D1
      BY <2>1
    <3>. QED
      BY <1>1, <2>1, <3>2, <3>3, Zenon
  <2>2. CASE ~(count >= ErrorBurst)
    BY <1>1, <1>4, <2>2, Zenon
  <2>. QED
    BY <2>1, <2>2
<1>6. UpTo(off, e, a, D2)
  <2>1. CASE v.kind = "busoff"
    <3>1. RaisesIn(a, Len(e) + 1, "BUS_OFF")
      BY <1>2, <1>3, <2>1, Zenon
    <3>2. "BUS_OFF" \notin D1
      OBVIOUS
    <3>3. UpTo(Submit(burst, "BUS_OFF", v.t), e, a, D1 \cup {"BUS_OFF"})
      <4>. HIDE DEF D1
      <4>. QED
        BY <1>1, <1>2, <1>5, <3>1, <3>2, SubmitMore
    <3>. QED
      BY <1>1, <2>1, <3>3, Zenon
  <2>2. CASE v.kind /= "busoff"
    BY <1>1, <1>5, <2>2, Zenon
  <2>. QED
    BY <2>1, <2>2
<1>7. \A c \in Categories : c \notin D2 => ~RaisesIn(a, Len(e) + 1, c)
  BY <1>3
<1>8. Current(off, a)
  <2>. HIDE DEF D2, D1
  <2>1. \A c \in Categories : off[c] = AlertAfter(RaisedIn(a, c), c)
    BY <1>1, <1>6, <1>7, AllSubmitted
  <2>. QED
    BY <1>6, <2>1, Zenon DEF UpTo, Current
<1>9. ErrorAlerts(v.kind, count) = off
  BY <1>1, Zenon DEF ErrorAlerts
<1>. QED
  BY <1>1, <1>8, <1>9, Zenon

-----------------------------------------------------------------------------
(* The invariant is inductive.                                             *)

\* At the start there are no events, no times and no alerts.
LEMMA Initially == Init => DiagInv
<1>. SUFFICES ASSUME Init PROVE DiagInv
  OBVIOUS
<1>0. events = <<>>
  BY Zenon DEF Init
<1>1. PICK e : e = events /\ e = <<>> /\ e \in Seq(Events) /\ Len(e) = 0
  <2>1. <<>> \in Seq(Events) /\ Len(<<>>) = 0
    OBVIOUS
  <2>. QED
    BY <1>0, <2>1, Zenon
<1>2. now = 0 /\ Window \in Nat /\ MaxEvents \in Nat /\ MaxTime \in Nat
  BY DiagnosticsAssumption DEF DiagnosticsAssumption, Init
<1>3. EventsOK
  BY <1>1, <1>2 DEF EventsOK
<1>4. \A kinds : \A from \in Int : From(e, kinds, from) = {} /\ TimesFrom(e, kinds, from) = <<>>
  <2>1. SUFFICES ASSUME NEW kinds, NEW from \in Int
                 PROVE  From(e, kinds, from) = {} /\ TimesFrom(e, kinds, from) = <<>>
    OBVIOUS
  <2>2. From(e, kinds, from) = {}
    BY <1>1 DEF From
  <2>3. /\ TimesFrom(e, kinds, from) \in Seq(Nat)
        /\ Len(TimesFrom(e, kinds, from)) = Cardinality(From(e, kinds, from))
    BY <1>1, TimesFromCount
  <2>4. Cardinality(From(e, kinds, from)) = 0
    BY <2>2, FS_EmptySet
  <2>5. \A w \in Seq(Nat) : Len(w) = 0 => w = <<>>
    OBVIOUS
  <2>. QED
    BY <2>2, <2>3, <2>4, <2>5, Zenon
<1>5. WindowOK(glitchWindow, {"glitch"}) /\ WindowOK(abortWindow, {"abort"})
  <2>1. PICK cut \in Int : cut <= now - Window
    BY <1>2
  <2>2. glitchWindow = <<>> /\ abortWindow = <<>>
    BY Zenon DEF Init
  <2>. QED
    BY <1>1, <1>4, <2>1, <2>2 DEF WindowOK
<1>6. ErrorsOK
  <2>1. PICK cut \in Int : cut <= now - Window + 1
    BY <1>2
  <2>2. errTs = <<>>
    BY Zenon DEF Init
  <2>. QED
    BY <1>1, <1>4, <2>1, <2>2 DEF ErrorsOK
<1>7. runaway \in BOOLEAN
  BY Zenon DEF Init
<1>8. Current(alerts, events)
  <2>1. alerts = [c \in Categories |-> NoAlert]
    BY Zenon DEF Init
  <2>2. ASSUME NEW c \in Categories PROVE AlertAfter(RaisedIn(e, c), c) = NoAlert
    <3>1. PICK S, q : S = {i \in DOMAIN e : RaisesIn(e, i, c)} /\ q = TimesOf(e)
      OBVIOUS
    <3>2. q \in Seq(Nat) /\ Len(q) = 0
      BY <1>1, <3>1, TimesFacts
    <3>3. PICK p : p = Picked(q, S)
      OBVIOUS
    <3>4. p \in Seq(Nat)
      BY <3>2, <3>3, PickedFacts
    <3>5. Len(p) = Cardinality(S \cap (1..Len(q)))
      BY <3>2, <3>3, PickedCount
    <3>6. S \cap (1..Len(q)) = {}
      BY <3>2
    <3>7. Cardinality(S \cap (1..Len(q))) = 0
      BY <3>6, FS_EmptySet
    <3>8. p = <<>>
      BY <3>4, <3>5, <3>7
    <3>. QED
      BY <3>1, <3>3, <3>8, Zenon DEF RaisedIn, AlertAfter
  <2>3. alerts \in Table
    BY <2>1 DEF Table, NoAlert
  <2>. QED
    BY <1>1, <2>1, <2>2, <2>3 DEF Current
<1>9. BusOK
  BY <1>1 DEF BusOK, Told, Init
<1>. QED
  BY <1>3, <1>5, <1>6, <1>7, <1>8, <1>9 DEF DiagInv

\* A glitch: its window takes it, and its single or burst alert is raised.
LEMMA GlitchStep == DiagInv /\ Glitch => DiagInv'
<1>. SUFFICES ASSUME DiagInv, Glitch PROVE DiagInv'
  OBVIOUS
<1>1. /\ UNCHANGED <<abortWindow, runaway, errTs, bus, poll, controller, now>>
      /\ Record("glitch") /\ glitchWindow' = Trim(Append(glitchWindow, now))
      /\ alerts' = Submit(alerts, IF Len(glitchWindow') >= GlitchBurst
                                  THEN "GLITCH_BURST" ELSE "SINGLE_GLITCH", now)
  BY DEF Glitch
<1>2. EventsOK /\ runaway \in BOOLEAN /\ ErrorsOK /\ BusOK /\ Current(alerts, events)
      /\ WindowOK(glitchWindow, {"glitch"}) /\ WindowOK(abortWindow, {"abort"})
  BY Zenon DEF DiagInv
<1>3. "glitch" \in Kinds
  BY DEF Kinds
<1>4. PICK v \in Events : /\ v.kind = "glitch" /\ v.t = now
                          /\ events' = Append(events, v) /\ EventsOK'
                          /\ Len(events') = Len(events) + 1
  BY <1>1, <1>2, <1>3, Recorded
<1>5. v.kind \in {"glitch"} /\ v.kind \notin {"abort"} /\ v.kind \notin {"runaway"}
      /\ v.kind \notin ErrorKinds
  BY <1>4 DEF ErrorKinds
<1>6. WindowOK(abortWindow, {"abort"})'
  <2>1. \E cut \in Int : cut <= now' - Window /\ abortWindow = TimesFrom(events', {"abort"}, cut)
    BY <1>1, <1>2, <1>4, <1>5, WindowKept, Zenon
  <2>. QED
    BY <1>1, <2>1, Zenon DEF WindowOK
<1>7. /\ glitchWindow' = TimesFrom(events', {"glitch"}, now - Window)
      /\ WindowOK(glitchWindow, {"glitch"})'
  <2>1. /\ glitchWindow' = TimesFrom(events', {"glitch"}, now - Window)
        /\ \E cut \in Int : cut <= now' - Window /\ glitchWindow' = TimesFrom(events', {"glitch"}, cut)
    BY <1>1, <1>2, <1>4, <1>5, WindowGrown
  <2>. QED
    BY <2>1, Zenon DEF WindowOK
<1>8. runaway' \in BOOLEAN /\ ErrorsOK' /\ BusOK'
  BY <1>1, <1>2, <1>4, <1>5, ErrorsKept, CountersKept
<1>9. Current(alerts', events')
  <2>1. PICK d : d = IF Len(glitchWindow') >= GlitchBurst THEN "GLITCH_BURST" ELSE "SINGLE_GLITCH"
    OBVIOUS
  <2>2. d \in Categories
    BY <2>1 DEF Categories
  <2>3. events \in Seq(Events)
    BY <1>2 DEF EventsOK
  <2>4. \A c \in Categories : RaisesIn(Append(events, v), Len(events) + 1, c) <=> c = d
    BY <1>4, <1>7, <2>1, <2>3, GlitchRaises
  <2>5. Current(Submit(alerts, d, v.t), Append(events, v))
    BY <1>2, <2>2, <2>3, <2>4, CurrentAfterOne
  <2>. QED
    BY <1>1, <1>4, <2>1, <2>5, Zenon
<1>10. Current(alerts, events)'
  BY <1>9, Zenon DEF Current
<1>. QED
  BY <1>4, <1>6, <1>7, <1>8, <1>10, Zenon DEF DiagInv

\* An aborted frame, likewise.
LEMMA AbortStep == DiagInv /\ Abort => DiagInv'
<1>. SUFFICES ASSUME DiagInv, Abort PROVE DiagInv'
  OBVIOUS
<1>1. /\ UNCHANGED <<glitchWindow, runaway, errTs, bus, poll, controller, now>>
      /\ Record("abort") /\ abortWindow' = Trim(Append(abortWindow, now))
      /\ alerts' = Submit(alerts, IF Len(abortWindow') >= AbortBurst
                                  THEN "REPEATED_ABORTS" ELSE "ABORTED_FRAME", now)
  BY DEF Abort
<1>2. EventsOK /\ runaway \in BOOLEAN /\ ErrorsOK /\ BusOK /\ Current(alerts, events)
      /\ WindowOK(glitchWindow, {"glitch"}) /\ WindowOK(abortWindow, {"abort"})
  BY Zenon DEF DiagInv
<1>3. "abort" \in Kinds
  BY DEF Kinds
<1>4. PICK v \in Events : /\ v.kind = "abort" /\ v.t = now
                          /\ events' = Append(events, v) /\ EventsOK'
                          /\ Len(events') = Len(events) + 1
  BY <1>1, <1>2, <1>3, Recorded
<1>5. v.kind \in {"abort"} /\ v.kind \notin {"glitch"} /\ v.kind \notin {"runaway"}
      /\ v.kind \notin ErrorKinds
  BY <1>4 DEF ErrorKinds
<1>6. WindowOK(glitchWindow, {"glitch"})'
  <2>1. \E cut \in Int : cut <= now' - Window /\ glitchWindow = TimesFrom(events', {"glitch"}, cut)
    BY <1>1, <1>2, <1>4, <1>5, WindowKept, Zenon
  <2>. QED
    BY <1>1, <2>1, Zenon DEF WindowOK
<1>7. /\ abortWindow' = TimesFrom(events', {"abort"}, now - Window)
      /\ WindowOK(abortWindow, {"abort"})'
  <2>1. /\ abortWindow' = TimesFrom(events', {"abort"}, now - Window)
        /\ \E cut \in Int : cut <= now' - Window /\ abortWindow' = TimesFrom(events', {"abort"}, cut)
    BY <1>1, <1>2, <1>4, <1>5, WindowGrown
  <2>. QED
    BY <2>1, Zenon DEF WindowOK
<1>8. runaway' \in BOOLEAN /\ ErrorsOK' /\ BusOK'
  BY <1>1, <1>2, <1>4, <1>5, ErrorsKept, CountersKept
<1>9. Current(alerts', events')
  <2>1. PICK d : d = IF Len(abortWindow') >= AbortBurst THEN "REPEATED_ABORTS" ELSE "ABORTED_FRAME"
    OBVIOUS
  <2>2. d \in Categories
    BY <2>1 DEF Categories
  <2>3. events \in Seq(Events)
    BY <1>2 DEF EventsOK
  <2>4. \A c \in Categories : RaisesIn(Append(events, v), Len(events) + 1, c) <=> c = d
    BY <1>4, <1>7, <2>1, <2>3, AbortRaises
  <2>5. Current(Submit(alerts, d, v.t), Append(events, v))
    BY <1>2, <2>2, <2>3, <2>4, CurrentAfterOne
  <2>. QED
    BY <1>1, <1>4, <2>1, <2>5, Zenon
<1>10. Current(alerts, events)'
  BY <1>9, Zenon DEF Current
<1>. QED
  BY <1>4, <1>6, <1>7, <1>8, <1>10, Zenon DEF DiagInv

\* A dominant runaway sets the flag and raises its alert.
LEMMA RunawayStep == DiagInv /\ Runaway => DiagInv'
<1>. SUFFICES ASSUME DiagInv, Runaway PROVE DiagInv'
  OBVIOUS
<1>1. /\ UNCHANGED <<glitchWindow, abortWindow, errTs, bus, poll, controller, now>>
      /\ Record("runaway") /\ runaway' = TRUE
      /\ alerts' = Submit(alerts, "DOMINANT_RUNAWAY", now)
  BY DEF Runaway
<1>2. EventsOK /\ ErrorsOK /\ BusOK /\ Current(alerts, events)
      /\ WindowOK(glitchWindow, {"glitch"}) /\ WindowOK(abortWindow, {"abort"})
  BY Zenon DEF DiagInv
<1>3. "runaway" \in Kinds
  BY DEF Kinds
<1>4. PICK v \in Events : /\ v.kind = "runaway" /\ v.t = now
                          /\ events' = Append(events, v) /\ EventsOK'
                          /\ Len(events') = Len(events) + 1
  BY <1>1, <1>2, <1>3, Recorded
<1>5. v.kind \in {"runaway"} /\ v.kind \notin {"glitch"} /\ v.kind \notin {"abort"}
      /\ v.kind \notin ErrorKinds
  BY <1>4 DEF ErrorKinds
<1>6. WindowOK(glitchWindow, {"glitch"})'
  <2>1. \E cut \in Int : cut <= now' - Window /\ glitchWindow = TimesFrom(events', {"glitch"}, cut)
    BY <1>1, <1>2, <1>4, <1>5, WindowKept, Zenon
  <2>. QED
    BY <1>1, <2>1, Zenon DEF WindowOK
<1>7. WindowOK(abortWindow, {"abort"})'
  <2>1. \E cut \in Int : cut <= now' - Window /\ abortWindow = TimesFrom(events', {"abort"}, cut)
    BY <1>1, <1>2, <1>4, <1>5, WindowKept, Zenon
  <2>. QED
    BY <1>1, <2>1, Zenon DEF WindowOK
<1>8. runaway' \in BOOLEAN /\ ErrorsOK' /\ BusOK'
  BY <1>1, <1>2, <1>4, <1>5, ErrorsKept, CountersKept
<1>9. Current(alerts', events')
  <2>1. "DOMINANT_RUNAWAY" \in Categories
    BY DEF Categories
  <2>2. events \in Seq(Events)
    BY <1>2 DEF EventsOK
  <2>3. \A c \in Categories :
           RaisesIn(Append(events, v), Len(events) + 1, c) <=> c = "DOMINANT_RUNAWAY"
    BY <1>4, <2>2, RunawayRaises
  <2>4. Current(Submit(alerts, "DOMINANT_RUNAWAY", v.t), Append(events, v))
    BY <1>2, <2>1, <2>2, <2>3, CurrentAfterOne
  <2>. QED
    BY <1>1, <1>4, <2>4, Zenon
<1>10. Current(alerts, events)'
  BY <1>9, Zenon DEF Current
<1>. QED
  BY <1>4, <1>6, <1>7, <1>8, <1>10, Zenon DEF DiagInv

\* An error frame: its time is kept with those of the last second, the counters
\* of the bus state follow it, and its alerts are raised.
LEMMA ErrorStep == DiagInv /\ (\E kind \in ErrorKinds : ErrorFrame(kind)) => DiagInv'
<1>. SUFFICES ASSUME DiagInv, NEW kind \in ErrorKinds, ErrorFrame(kind) PROVE DiagInv'
  OBVIOUS
<1>1. /\ UNCHANGED <<glitchWindow, abortWindow, runaway, poll, now>>
      /\ Record(kind) /\ Reporting(kind)
      /\ errTs' = ErrorTimes /\ alerts' = ErrorAlerts(kind, Len(errTs'))
      /\ bus' = IF kind = "crtl" THEN [bus EXCEPT !.tec = controller'.tec] ELSE bus
  BY DEF ErrorFrame, windows
<1>2. EventsOK /\ runaway \in BOOLEAN /\ ErrorsOK /\ BusOK /\ Current(alerts, events)
      /\ WindowOK(glitchWindow, {"glitch"}) /\ WindowOK(abortWindow, {"abort"})
  BY Zenon DEF DiagInv
<1>3. kind \in Kinds
  BY DEF Kinds
<1>4. PICK v \in Events : /\ v.kind = kind /\ v.t = now
                          /\ events' = Append(events, v) /\ EventsOK'
                          /\ Len(events') = Len(events) + 1
  BY <1>1, <1>2, <1>3, Recorded
<1>5. v.kind \in ErrorKinds /\ v.kind \notin {"glitch"} /\ v.kind \notin {"abort"}
      /\ v.kind \notin {"runaway"}
  BY <1>4 DEF ErrorKinds
<1>6. WindowOK(glitchWindow, {"glitch"})'
  <2>1. \E cut \in Int : cut <= now' - Window /\ glitchWindow = TimesFrom(events', {"glitch"}, cut)
    BY <1>1, <1>2, <1>4, <1>5, WindowKept, Zenon
  <2>. QED
    BY <1>1, <2>1, Zenon DEF WindowOK
<1>7. WindowOK(abortWindow, {"abort"})'
  <2>1. \E cut \in Int : cut <= now' - Window /\ abortWindow = TimesFrom(events', {"abort"}, cut)
    BY <1>1, <1>2, <1>4, <1>5, WindowKept, Zenon
  <2>. QED
    BY <1>1, <2>1, Zenon DEF WindowOK
<1>8. runaway' \in BOOLEAN
  BY <1>1, <1>2, <1>4, <1>5
<1>9. ErrorsOK' /\ errTs' = TimesFrom(events', ErrorKinds, now - Window + 1)
  BY <1>1, <1>2, <1>4, <1>5, ErrorsGrown
<1>10. Current(alerts', events')
  <2>1. events \in Seq(Events)
    BY <1>2 DEF EventsOK
  <2>2. Current(ErrorAlerts(v.kind, Len(TimesFrom(Append(events, v), ErrorKinds, v.t - Window + 1))),
                Append(events, v))
    BY <1>2, <1>4, <1>5, <2>1, CurrentAfterError
  <2>. QED
    BY <1>1, <1>4, <1>9, <2>2, Zenon
<1>11. Current(alerts, events)'
  BY <1>10, Zenon DEF Current
<1>12. BusOK'
  <2>1. PICK n : n = Len(events)
    OBVIOUS
  <2>2. n \in Nat /\ Len(events') = n + 1
    BY <1>2, <1>4, <2>1 DEF EventsOK
  <2>3. Told(n) \subseteq Told(n + 1)
    BY <2>2 DEF Told
  <2>4. controller \in Told(n) /\ bus \in Told(n)
    BY <1>2, <2>1 DEF BusOK
  <2>5. controller' \in Told(n + 1)
    <3>1. /\ controller.tec \in 0..n /\ controller.state \in {"unknown", "error-active", "bus-off"}
          /\ controller = [tec |-> controller.tec, state |-> controller.state]
      BY <2>4 DEF Told
    <3>2. controller' = CASE kind = "crtl" -> [controller EXCEPT !.tec = @ + 1]
                          [] kind = "busoff" -> [controller EXCEPT !.state = "bus-off"]
                          [] kind = "restarted" -> [tec |-> 0, state |-> "error-active"]
                          [] OTHER -> controller
      BY <1>1, Zenon DEF Reporting
    <3>3. CASE kind = "crtl"
      BY <2>2, <2>4, <3>1, <3>2, <3>3 DEF Told
    <3>4. CASE kind = "busoff"
      BY <2>2, <2>4, <3>1, <3>2, <3>4 DEF Told
    <3>5. CASE kind = "restarted"
      BY <2>2, <3>2, <3>5 DEF Told
    <3>6. CASE kind \notin {"crtl", "busoff", "restarted"}
      BY <2>3, <2>4, <3>2, <3>6
    <3>. QED
      BY <3>3, <3>4, <3>5, <3>6
  <2>6. bus' \in Told(n + 1)
    <3>1. CASE kind = "crtl"
      BY <1>1, <2>2, <2>4, <2>5, <3>1 DEF Told
    <3>2. CASE kind /= "crtl"
      BY <1>1, <2>3, <2>4, <3>2
    <3>. QED
      BY <3>1, <3>2
  <2>7. poll' = <<>> \/ \E answer \in Told(n + 1) : poll' = <<answer>>
    BY <1>1, <1>2, <2>1, <2>3 DEF BusOK
  <2>. QED
    BY <2>2, <2>5, <2>6, <2>7, Zenon DEF BusOK
<1>. QED
  BY <1>4, <1>6, <1>7, <1>8, <1>9, <1>11, <1>12, Zenon DEF DiagInv

\* An update of the page trims the two windows.
LEMMA SnapshotStep == DiagInv /\ Snapshot => DiagInv'
<1>. SUFFICES ASSUME DiagInv, Snapshot PROVE DiagInv'
  OBVIOUS
<1>1. /\ UNCHANGED <<runaway, errTs, alerts, bus, poll, controller, now, events>>
      /\ glitchWindow' = Trim(glitchWindow) /\ abortWindow' = Trim(abortWindow)
  BY DEF Snapshot
<1>2. EventsOK /\ runaway \in BOOLEAN /\ ErrorsOK /\ BusOK /\ Current(alerts, events)
      /\ WindowOK(glitchWindow, {"glitch"}) /\ WindowOK(abortWindow, {"abort"})
  BY Zenon DEF DiagInv
<1>3. WindowOK(glitchWindow, {"glitch"})'
  <2>1. \E cut \in Int : cut <= now' - Window /\ glitchWindow' = TimesFrom(events', {"glitch"}, cut)
    BY <1>1, <1>2, WindowTrimmed
  <2>. QED
    BY <2>1, Zenon DEF WindowOK
<1>4. WindowOK(abortWindow, {"abort"})'
  <2>1. \E cut \in Int : cut <= now' - Window /\ abortWindow' = TimesFrom(events', {"abort"}, cut)
    BY <1>1, <1>2, WindowTrimmed
  <2>. QED
    BY <2>1, Zenon DEF WindowOK
<1>5. EventsOK' /\ runaway' \in BOOLEAN /\ ErrorsOK' /\ BusOK' /\ Current(alerts, events)'
  BY <1>1, <1>2, Zenon DEF EventsOK, ErrorsOK, BusOK, Current
<1>. QED
  BY <1>3, <1>4, <1>5, Zenon DEF DiagInv

\* A poll reads the controller and writes the bus state: both are told of no
\* more errors than there are events.
LEMMA PollStep ==
    DiagInv /\ (PollRead \/ PollAnswer \/ PollUnknownState \/ PollFails) => DiagInv'
<1>. SUFFICES ASSUME DiagInv, PollRead \/ PollAnswer \/ PollUnknownState \/ PollFails
              PROVE  DiagInv'
  OBVIOUS
<1>1. UNCHANGED <<glitchWindow, abortWindow, runaway, errTs, alerts, controller, now, events>>
  BY DEF PollRead, PollAnswer, PollUnknownState, PollFails, PollEnds, windows
<1>2. PICK n : n = Len(events)
  OBVIOUS
<1>3. /\ bus \in Told(n) /\ controller \in Told(n)
      /\ poll = <<>> \/ \E answer \in Told(n) : poll = <<answer>>
  BY <1>2 DEF DiagInv, BusOK
<1>4. /\ bus' \in Told(n)
      /\ poll' = <<>> \/ \E answer \in Told(n) : poll' = <<answer>>
  <2>1. CASE PollRead
    BY <1>3, <2>1 DEF PollRead
  <2>2. CASE PollAnswer
    BY <1>3, <2>2 DEF PollAnswer, PollEnds
  <2>3. CASE PollUnknownState
    <3>1. PICK answer \in Told(n) : poll = <<answer>>
      BY <1>3, <2>3 DEF PollUnknownState, PollEnds
    <3>2. bus' = [bus EXCEPT !.tec = answer.tec] /\ poll' = <<>>
      BY <2>3, <3>1 DEF PollUnknownState, PollEnds
    <3>. QED
      BY <1>3, <3>2 DEF Told
  <2>4. CASE PollFails
    BY <1>3, <2>4 DEF PollFails, PollEnds
  <2>. QED
    BY <2>1, <2>2, <2>3, <2>4
<1>5. BusOK'
  BY <1>1, <1>2, <1>3, <1>4, Zenon DEF BusOK
<1>. QED
  BY <1>1, <1>5, Zenon
     DEF DiagInv, EventsOK, WindowOK, ErrorsOK, Current

\* The clock: edges only move on.
LEMMA TickStep == DiagInv /\ Tick => DiagInv'
<1>. SUFFICES ASSUME DiagInv, Tick PROVE DiagInv'
  OBVIOUS
<1>1. /\ now < MaxTime /\ now' = now + 1
      /\ UNCHANGED <<glitchWindow, abortWindow, runaway, errTs, alerts, bus, poll, controller, events>>
  BY DEF Tick, windows
<1>2. EventsOK /\ runaway \in BOOLEAN /\ ErrorsOK /\ BusOK /\ Current(alerts, events)
      /\ WindowOK(glitchWindow, {"glitch"}) /\ WindowOK(abortWindow, {"abort"})
  BY Zenon DEF DiagInv
<1>3. now \in Nat /\ Window \in Nat /\ MaxTime \in Nat /\ now' \in 0..MaxTime
  BY <1>1, <1>2, DiagnosticsAssumption DEF DiagnosticsAssumption, EventsOK
<1>4. \A x \in Int : /\ x <= now - Window => x <= now' - Window
                     /\ x <= now - Window + 1 => x <= now' - Window + 1
  BY <1>1, <1>3
<1>5. WindowOK(glitchWindow, {"glitch"})' /\ WindowOK(abortWindow, {"abort"})'
  BY <1>1, <1>2, <1>4, Zenon DEF WindowOK
<1>6. ErrorsOK'
  BY <1>1, <1>2, <1>4, Zenon DEF ErrorsOK
<1>7. EventsOK'
  <2>1. \A i \in 1..Len(events) : events[i].t \in Nat
    <3>1. \A i \in 1..Len(events) : events[i] \in Events
      BY <1>2 DEF EventsOK
    <3>. QED
      BY <3>1 DEF Events
  <2>2. \A x \in Nat : x <= now => x <= now'
    BY <1>1, <1>3
  <2>3. \A i \in 1..Len(events) : events[i].t <= now'
    BY <1>2, <2>1, <2>2, Zenon DEF EventsOK
  <2>. QED
    BY <1>1, <1>2, <1>3, <2>3, Zenon DEF EventsOK
<1>8. runaway' \in BOOLEAN /\ BusOK' /\ Current(alerts, events)'
  BY <1>1, <1>2, Zenon DEF BusOK, Current
<1>. QED
  BY <1>5, <1>6, <1>7, <1>8, Zenon DEF DiagInv

\* Every step keeps it.
LEMMA Kept == DiagInv /\ [Next]_vars => DiagInv'
<1>. SUFFICES ASSUME DiagInv, [Next]_vars PROVE DiagInv'
  OBVIOUS
<1>1. CASE Glitch
  BY <1>1, GlitchStep, Zenon
<1>2. CASE Runaway
  BY <1>2, RunawayStep, Zenon
<1>3. CASE Abort
  BY <1>3, AbortStep, Zenon
<1>4. CASE \E kind \in ErrorKinds : ErrorFrame(kind)
  BY <1>4, ErrorStep, Zenon
<1>5. CASE Snapshot
  BY <1>5, SnapshotStep, Zenon
<1>6. CASE PollRead \/ PollAnswer \/ PollUnknownState \/ PollFails
  BY <1>6, PollStep, Zenon
<1>7. CASE Tick
  BY <1>7, TickStep, Zenon
<1>8. CASE UNCHANGED vars
  BY <1>8, Zenon DEF vars, windows, DiagInv, EventsOK, WindowOK, ErrorsOK, Current, BusOK
<1>. QED
  BY <1>1, <1>2, <1>3, <1>4, <1>5, <1>6, <1>7, <1>8, Zenon DEF Next

\* The invariant holds of every reachable state.
THEOREM DiagInvariant == Spec => []DiagInv
<1>1. Init => DiagInv
  BY Initially
<1>2. DiagInv /\ [Next]_vars => DiagInv'
  BY Kept
<1>. QED
  BY <1>1, <1>2, PTL DEF Spec

-----------------------------------------------------------------------------
(* What follows from it.                                                   *)

\* Times selected from a history are times of it, and no more than events.
LEMMA SelectedTimes ==
    ASSUME NEW e \in Seq(Events), NEW m \in Nat, \A i \in 1..Len(e) : e[i].t <= m, NEW S
    PROVE  /\ Picked(TimesOf(e), S) \in Seq(0..m)
           /\ Len(Picked(TimesOf(e), S)) \in 0..Len(e)
<1>1. PICK q, n, p : q = TimesOf(e) /\ n = Len(e) /\ p = Picked(q, S)
  OBVIOUS
<1>2. /\ n \in Nat /\ DOMAIN e = 1..n /\ Len(q) = n
      /\ \A i \in 1..n : q[i] = e[i].t /\ e[i].t \in Nat
  BY <1>1, TimesFacts
<1>3. q \in [1..n -> 0..m]
  <2>1. q = [i \in 1..n |-> e[i].t]
    BY <1>1, <1>2, Zenon DEF TimesOf
  <2>2. \A i \in 1..n : e[i].t \in 0..m
    BY <1>1, <1>2
  <2>. QED
    BY <2>1, <2>2
<1>4. q \in Seq(0..m)
  BY <1>2, <1>3, FunctionIsSeq
<1>5. p \in Seq(0..m)
  BY <1>1, <1>4, PickedFacts
<1>6. Len(p) = Cardinality(S \cap (1..n))
  BY <1>1, <1>2, <1>4, PickedCount
<1>7. /\ IsFiniteSet(1..n) /\ Cardinality(1..n) = n
  BY <1>2, FS_Interval
<1>8. /\ Cardinality(S \cap (1..n)) <= Cardinality(1..n)
      /\ Cardinality(S \cap (1..n)) \in Nat
  BY <1>7, FS_Subset, FS_CardinalityType
<1>. QED
  BY <1>1, <1>2, <1>5, <1>6, <1>7, <1>8

\* The types follow: a time is that of an event, and a count is one of events.
LEMMA InvariantTypes == DiagInv => TypeOK
<1>. SUFFICES ASSUME DiagInv PROVE TypeOK
  OBVIOUS
<1>1. EventsOK /\ runaway \in BOOLEAN /\ ErrorsOK /\ BusOK /\ Current(alerts, events)
      /\ WindowOK(glitchWindow, {"glitch"}) /\ WindowOK(abortWindow, {"abort"})
  BY Zenon DEF DiagInv
<1>2. /\ events \in Seq(Events) /\ now \in Nat /\ now \in 0..MaxTime
      /\ \A i \in 1..Len(events) : events[i].t <= now
      /\ Len(events) \in Nat /\ Len(events) <= MaxEvents /\ MaxEvents \in Nat
  BY <1>1, DiagnosticsAssumption DEF DiagnosticsAssumption, EventsOK
<1>3. \A S : /\ Picked(TimesOf(events), S) \in Seq(0..now)
             /\ Len(Picked(TimesOf(events), S)) \in 0..Len(events)
  BY <1>2, SelectedTimes
<1>4. glitchWindow \in Seq(0..now) /\ abortWindow \in Seq(0..now) /\ errTs \in Seq(0..now)
  BY <1>1, <1>3, Zenon DEF WindowOK, ErrorsOK, TimesFrom
<1>5. alerts \in [Categories -> [ts : -1..now, count : 0..MaxEvents]]
  <2>1. /\ alerts \in [Categories -> [ts : Int, count : Nat]]
        /\ \A c \in Categories : alerts[c] = AlertAfter(RaisedIn(events, c), c)
    BY <1>1, Zenon DEF Current, Table
  <2>2. ASSUME NEW c \in Categories PROVE alerts[c] \in [ts : -1..now, count : 0..MaxEvents]
    <3>1. PICK p : p = RaisedIn(events, c)
      OBVIOUS
    <3>2. p \in Seq(0..now) /\ Len(p) \in 0..Len(events)
      BY <1>3, <3>1, Zenon DEF RaisedIn
    <3>3. p \in Seq(Nat) /\ \A k \in 1..Len(p) : p[k] \in 0..now
      BY <1>2, <3>2
    <3>4. /\ alerts[c] \in [ts : Int, count : Nat]
          /\ alerts[c].count = Len(p)
          /\ alerts[c].ts = -1 \/ \E k \in 1..Len(p) : alerts[c].ts = p[k]
      BY <2>1, <3>1, <3>3, AlertAfterFacts
    <3>5. alerts[c].ts \in -1..now
      BY <1>2, <3>3, <3>4
    <3>6. alerts[c].count \in 0..MaxEvents
      BY <1>2, <3>2, <3>4
    <3>. QED
      BY <3>4, <3>5, <3>6
  <2>. QED
    BY <2>1, <2>2
<1>6. /\ bus \in BusStates /\ controller \in BusStates
      /\ poll \in {<<>>} \cup {<<answer>> : answer \in BusStates}
  <2>1. Told(Len(events)) \subseteq BusStates
    BY <1>2 DEF Told, BusStates
  <2>. QED
    BY <1>1, <2>1 DEF BusOK
<1>7. runaway \in BOOLEAN
  BY <1>1, Zenon
<1>. QED
  BY <1>2, <1>4, <1>5, <1>6, <1>7, Zenon DEF TypeOK

\* Every variable keeps its type; in particular the counters of the bus state
\* are numbers whatever frames and polls write them
\* (diagnostics_aggregator.py:148-152, tec_rec_poller.py:39).
THEOREM DiagnosticsTypes == Spec => []TypeOK
BY DiagInvariant, InvariantTypes, PTL

\* The alerts follow: what an event raises is told from the same history.
LEMMA InvariantAlerts == DiagInv => AlertsMatchEvents
<1>. SUFFICES ASSUME DiagInv, NEW c \in Categories
              PROVE  alerts[c] = AlertAfter(Picked(TimesOf(events),
                                                   {i \in DOMAIN events : Raises(i, c)}), c)
  BY Zenon DEF AlertsMatchEvents, TimesOf
<1>1. alerts[c] = AlertAfter(RaisedIn(events, c), c)
  BY Zenon DEF DiagInv, Current
<1>2. ASSUME NEW i PROVE Raises(i, c) <=> RaisesIn(events, i, c)
  BY Zenon DEF Raises, RaisesIn, CountAt, CountIn
<1>3. {i \in DOMAIN events : Raises(i, c)} = {i \in DOMAIN events : RaisesIn(events, i, c)}
  BY <1>2
<1>. QED
  BY <1>1, <1>3, Zenon DEF RaisedIn

\* The alert table is what the events so far call for: a single or a burst
\* alert by the events of the last second, counted at each occurrence and fired
\* again only past its cooldown, whenever the page trims the windows between
\* (alert_manager.py:24-44, signal_quality_monitor.py:22-47,
\* diagnostics_aggregator.py:75-92).
THEOREM AlertsFollowEvents == Spec => []AlertsMatchEvents
BY DiagInvariant, InvariantAlerts, PTL

\* So do the counts of an update.
LEMMA SnapshotFromInvariant ==
    ASSUME DiagInv, Snapshot
    PROVE  /\ Len(glitchWindow') = Cardinality(Since({"glitch"}, now - Window))
           /\ Len(abortWindow') = Cardinality(Since({"abort"}, now - Window))
<1>1. /\ UNCHANGED <<now, events>>
      /\ glitchWindow' = Trim(glitchWindow) /\ abortWindow' = Trim(abortWindow)
  BY DEF Snapshot
<1>2. EventsOK /\ WindowOK(glitchWindow, {"glitch"}) /\ WindowOK(abortWindow, {"abort"})
  BY Zenon DEF DiagInv
<1>3. \A kinds : \A from \in Int :
         Len(TimesFrom(events, kinds, from)) = Cardinality(Since(kinds, from))
  <2>1. \A kinds, t : Since(kinds, t) = From(events, kinds, t)
    BY DEF Since, From
  <2>. QED
    BY <1>2, <2>1, TimesFromCount DEF EventsOK
<1>4. /\ glitchWindow' = TimesFrom(events, {"glitch"}, now - Window)
      /\ abortWindow' = TimesFrom(events, {"abort"}, now - Window)
  BY <1>1, <1>2, WindowTrimmed
<1>5. now - Window \in Int
  BY <1>2, DiagnosticsAssumption DEF DiagnosticsAssumption, EventsOK
<1>. QED
  BY <1>3, <1>4, <1>5

\* An update of the page counts the glitches and the aborts of the last second,
\* whatever updates and events trimmed the two windows before it
\* (signal_quality_monitor.py:56-62, 79-82).
THEOREM UpdatesCount == Spec => SnapshotCounts
<1>1. DiagInv /\ [Next]_vars =>
         [Snapshot =>
            /\ Len(glitchWindow') = Cardinality(Since({"glitch"}, now - Window))
            /\ Len(abortWindow') = Cardinality(Since({"abort"}, now - Window))]_vars
  BY SnapshotFromInvariant, Zenon
<1>. QED
  BY <1>1, DiagInvariant, PTL DEF Spec, SnapshotCounts
=============================================================================
