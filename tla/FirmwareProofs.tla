--------------------------- MODULE FirmwareProofs ---------------------------
(***************************************************************************)
(* Theorems about the PRU0 firmware and its shared memory.  Module PruRing: *)
(* for every depth of the ring, blind period and lag of the reader.        *)
(* Module SofCapture: for every counter period, blind period and length of *)
(* the run, a waiting PRU misses no edge and invents none, and its 64-bit  *)
(* times are exact over any number of counter rollovers.                   *)
(***************************************************************************)
EXTENDS PruRing, SofCapture, DataLemmas

USE RingAssumption, SofCaptureAssumption
USE DEF RingAssumption, SofCaptureAssumption

-----------------------------------------------------------------------------
(* Events and slots.                                                       *)

\* The index after the newest event of this run of the firmware, the one being
\* written included, and the number of events of earlier runs.
Claimed == IF wpc = "idle" THEN writeIdx ELSE writeIdx + 1

Before == Len(captured) - Claimed

\* Times do not exceed the clock, and the index counts events that exist.
ClockInv ==
    /\ Len(captured) <= MaxEvents /\ Claimed <= Len(captured)
    /\ \A n \in DOMAIN captured : captured[n].at <= now /\ captured[n].t <= now
    /\ \A i \in Slots : ring[i].t <= now

TypeInv == TypeOK /\ ClockInv

\* The events and the slots, field by field.
LEMMA EventFacts ==
    ASSUME TypeOK
    PROVE  /\ Len(captured) \in Nat /\ DOMAIN captured = 1..Len(captured)
           /\ \A n \in 1..Len(captured) : /\ captured[n] \in [t : Nat, at : Nat]
                                          /\ captured[n].t \in Nat /\ captured[n].at \in Nat
<1>1. Len(captured) \in Nat /\ DOMAIN captured = 1..Len(captured)
  BY LenProperties DEF TypeOK
<1>2. \A n \in 1..Len(captured) : captured[n] \in [t : Nat, at : Nat]
  BY ElementOfSeq DEF TypeOK
<1> QED BY <1>1, <1>2

LEMMA SlotFacts ==
    ASSUME TypeOK
    PROVE  /\ \A k \in Nat : SlotOf(k) \in Slots
           /\ \A i \in Slots : /\ ring[i] \in [ev : 0..MaxEvents, t : 0..MaxTime]
                               /\ ring[i].ev \in 0..MaxEvents /\ ring[i].t \in 0..MaxTime
           /\ writeIdx \in Nat /\ readIdx \in Nat /\ w \in Nat /\ now \in Nat
           /\ Claimed \in Nat
           /\ wpc = "idle" => Claimed = writeIdx
           /\ wpc /= "idle" => Claimed = writeIdx + 1
           /\ Published - writeIdx = Before
<1>1. \A k \in Nat : SlotOf(k) \in Slots
  BY DivMod DEF SlotOf, Slots
<1>2. \A i \in Slots : ring[i] \in [ev : 0..MaxEvents, t : 0..MaxTime]
  BY DEF TypeOK
<1>3. writeIdx \in Nat /\ readIdx \in Nat /\ w \in Nat /\ now \in Nat /\ Len(captured) \in Nat
  BY EventFacts DEF TypeOK
<1>4. /\ Claimed \in Nat
      /\ wpc = "idle" => Claimed = writeIdx
      /\ wpc /= "idle" => Claimed = writeIdx + 1
  BY <1>3 DEF Claimed
<1>5. Published - writeIdx = Before
  BY <1>3 DEF Published, Before, Claimed
<1> QED BY <1>1, <1>2, <1>3, <1>4, <1>5

\* What WriteHeader does to the events and to the slot it writes.
LEMMA HeaderFacts ==
    ASSUME TypeInv, WriteHeader
    PROVE  /\ captured' \in Seq([t : Nat, at : Nat])
           /\ Len(captured') = Len(captured) + 1 /\ Len(captured) < MaxEvents
           /\ \A n \in 1..Len(captured) : captured'[n] = captured[n]
           /\ captured'[Len(captured) + 1].t = now - pruStart
           /\ captured'[Len(captured) + 1].at = now
           /\ now - pruStart \in 0..now /\ now - pruStart > 0
           /\ Len(captured) > 0 => captured[Len(captured)].at < now
           /\ ring' \in [Slots -> [ev : 0..MaxEvents, t : 0..MaxTime]]
           /\ ring'[SlotOf(writeIdx)].ev = Len(captured) + 1
           /\ \A i \in Slots : /\ ring'[i].t = ring[i].t
                               /\ i /= SlotOf(writeIdx) => ring'[i] = ring[i]
<1> DEFINE e == [t |-> now - pruStart, at |-> now]
           s == SlotOf(writeIdx)
<1>1. /\ captured' = Append(captured, e) /\ Len(captured) + 1 <= MaxEvents
      /\ now - pruStart >= Blind
      /\ captured /= <<>> => now - captured[Len(captured)].at >= Blind
      /\ ring' = [ring EXCEPT ![s].ev = Len(captured) + 1]
  BY DEF WriteHeader, NextEvent, CapturedAt
<1>2. now \in Nat /\ pruStart \in 0..now /\ s \in Slots
  BY SlotFacts DEF TypeInv, TypeOK
<1>3. e \in [t : Nat, at : Nat] /\ e.t = now - pruStart /\ e.at = now
  BY <1>2
<1>4. captured \in Seq([t : Nat, at : Nat])
  BY DEF TypeInv, TypeOK
<1> HIDE DEF e, s
<1>5. /\ captured' \in Seq([t : Nat, at : Nat])
      /\ Len(captured') = Len(captured) + 1
      /\ \A n \in 1..Len(captured) : captured'[n] = captured[n]
      /\ captured'[Len(captured) + 1] = e
  BY <1>1, <1>3, <1>4, AppendFacts
<1>6. Len(captured) > 0 => captured[Len(captured)].at < now
  <2> SUFFICES ASSUME Len(captured) > 0 PROVE captured[Len(captured)].at < now
    OBVIOUS
  <2>1. Len(captured) \in 1..Len(captured) /\ captured /= <<>>
    BY <1>4, LenProperties
  <2>2. captured[Len(captured)].at \in Nat
    BY <2>1, EventFacts DEF TypeInv
  <2>3. now - captured[Len(captured)].at >= Blind
    BY <1>1, <2>1
  <2>4. \A a \in Nat : now - a >= Blind => a < now
    BY <1>2
  <2> QED BY <2>2, <2>3, <2>4
<1>7. ring \in [Slots -> [ev : 0..MaxEvents, t : 0..MaxTime]]
  BY DEF TypeInv, TypeOK
<1>8. Len(captured) \in Nat /\ Len(captured) + 1 \in 0..MaxEvents
  BY <1>1, <1>4, LenProperties
<1>9. /\ ring' \in [Slots -> [ev : 0..MaxEvents, t : 0..MaxTime]]
      /\ ring'[s].ev = Len(captured) + 1 /\ ring'[s].t = ring[s].t
      /\ \A i \in Slots : i /= s => ring'[i] = ring[i]
  BY <1>1, <1>2, <1>7, <1>8
<1>10. now - pruStart \in 0..now /\ now - pruStart > 0
  BY <1>1, <1>2
<1>11. /\ captured'[Len(captured) + 1].t = now - pruStart
       /\ captured'[Len(captured) + 1].at = now
  BY <1>3, <1>5
<1> QED BY <1>5, <1>6, <1>8, <1>9, <1>10, <1>11 DEF s

\* What WriteTimes does to the slot it writes.
LEMMA TimesFacts ==
    ASSUME TypeInv, WriteTimes
    PROVE  /\ Len(captured) \in 1..Len(captured)
           /\ ring' \in [Slots -> [ev : 0..MaxEvents, t : 0..MaxTime]]
           /\ ring'[SlotOf(writeIdx)].t = captured[Len(captured)].t
           /\ ring'[SlotOf(writeIdx)].ev = ring[SlotOf(writeIdx)].ev
           /\ \A i \in Slots : i /= SlotOf(writeIdx) => ring'[i] = ring[i]
           /\ \A i \in Slots : ring'[i].t <= now
<1> DEFINE s == SlotOf(writeIdx)
           x == captured[Len(captured)].t
<1>1. s \in Slots /\ ring \in [Slots -> [ev : 0..MaxEvents, t : 0..MaxTime]]
  BY SlotFacts DEF TypeInv, TypeOK
<1>2. wpc = "fill" /\ ring' = [ring EXCEPT ![s].t = x]
  BY DEF WriteTimes
<1>3. Len(captured) \in 1..Len(captured)
  <2>1. Len(captured) \in Nat /\ writeIdx \in Nat
    BY EventFacts DEF TypeInv, TypeOK
  <2>2. writeIdx + 1 <= Len(captured)
    BY <1>2 DEF TypeInv, ClockInv, Claimed
  <2>. QED
    BY <2>1, <2>2
<1>4. x \in 0..MaxTime /\ x <= now
  <2>1. x \in Nat /\ x <= now
    BY <1>3, EventFacts DEF TypeInv, ClockInv
  <2>2. now \in 0..MaxTime /\ MaxTime \in Nat
    BY DEF TypeInv, TypeOK
  <2> HIDE DEF x
  <2> QED BY <2>1, <2>2
<1> HIDE DEF s, x
<1>5. /\ ring' \in [Slots -> [ev : 0..MaxEvents, t : 0..MaxTime]]
      /\ ring'[s].t = x /\ ring'[s].ev = ring[s].ev
      /\ \A i \in Slots : i /= s => ring'[i] = ring[i]
  BY <1>1, <1>2, <1>4
<1>6. \A i \in Slots : ring'[i].t <= now
  BY <1>4, <1>5 DEF TypeInv, ClockInv
<1> QED BY <1>3, <1>5, <1>6 DEF s, x

\* Publish: the index counts one more event; it does not wrap, for there are
\* fewer events than it can count.
LEMMA PublishFacts ==
    ASSUME TypeInv, Publish
    PROVE  writeIdx' = writeIdx + 1 /\ writeIdx' \in 0..(IdxModulus - 1) /\ Claimed' = Claimed
<1>1. /\ wpc = "publish" /\ writeIdx' = (writeIdx + 1) % IdxModulus /\ wpc' = "idle"
  BY DEF Publish
<1>2. writeIdx + 1 <= Len(captured) /\ Len(captured) <= MaxEvents /\ Len(captured) \in Nat
  BY <1>1, SlotFacts, EventFacts DEF TypeInv, ClockInv
<1>3. writeIdx + 1 \in 0..(IdxModulus - 1) /\ IdxModulus \in Nat \ {0}
  BY <1>2, SlotFacts DEF TypeInv
<1>4. writeIdx' = writeIdx + 1
  BY <1>1, <1>3, ModSmall
<1> QED BY <1>1, <1>3, <1>4 DEF Claimed

\* The epoch is a time the clock has shown.
LEMMA CalibratedFacts ==
    ASSUME TypeInv
    PROVE  Calibrated \in 0..now
<1>1. LatestPruNs \in 0..now
  <2>1. CASE writeIdx = 0
    BY <2>1, SlotFacts DEF LatestPruNs, TypeInv
  <2>2. CASE writeIdx /= 0
    <3>1. writeIdx - 1 \in Nat
      BY <2>2, SlotFacts DEF TypeInv
    <3>2. SlotOf(writeIdx - 1) \in Slots
      BY <3>1, SlotFacts DEF TypeInv
    <3>3. ring[SlotOf(writeIdx - 1)].t \in 0..MaxTime /\ ring[SlotOf(writeIdx - 1)].t <= now
      BY <3>2, SlotFacts DEF TypeInv, ClockInv
    <3> QED BY <2>2, <3>3 DEF LatestPruNs
  <2> QED BY <2>1, <2>2
<1> QED BY <1>1, SlotFacts DEF Calibrated, TypeInv

-----------------------------------------------------------------------------
(* Type correctness.                                                       *)

LEMMA TypeInit == Init => TypeInv
<1> SUFFICES ASSUME Init PROVE TypeInv
  OBVIOUS
<1>1. ring = [i \in Slots |-> Blank] /\ Blank \in [ev : 0..MaxEvents, t : 0..MaxTime] /\ Blank.t = 0
  BY DEF Init, Blank
<1>2. ring \in [Slots -> [ev : 0..MaxEvents, t : 0..MaxTime]] /\ \A i \in Slots : ring[i].t = 0
  BY <1>1
<1>3. captured \in Seq([t : Nat, at : Nat]) /\ Len(captured) = 0 /\ DOMAIN captured = {}
  BY DEF Init
<1>4. yielded \in Seq([ev : 1..MaxEvents, t : Nat, stamp : Nat])
  BY DEF Init
<1>5. 0 \in 0..(IdxModulus - 1) /\ 1 \in 1..(MaxEvents + 1)
  OBVIOUS
<1>6. TypeOK
  <2>1. restarted \in BOOLEAN
    BY DEF Init
  <2> QED BY <1>2, <1>3, <1>4, <1>5, <2>1 DEF Init, TypeOK
<1>7. ClockInv
  BY <1>2, <1>3 DEF Init, ClockInv, Claimed
<1> QED BY <1>6, <1>7 DEF TypeInv

\* An event is captured and its slot begun.
LEMMA TypeHeader == TypeInv /\ WriteHeader => TypeInv'
<1> SUFFICES ASSUME TypeInv, WriteHeader PROVE TypeInv'
  OBVIOUS
<1>1. TypeOK /\ ClockInv /\ wpc = "idle" /\ wpc' = "fill"
      /\ UNCHANGED <<writeIdx, pruStart, rpc, readIdx, w, epoch, first, yielded, now, restarted>>
  BY DEF TypeInv, WriteHeader, reader
<1>2. TypeOK'
  BY <1>1, HeaderFacts DEF TypeOK
<1>3. /\ DOMAIN captured' = 1..(Len(captured) + 1)
      /\ Len(captured) \in Nat /\ DOMAIN captured = 1..Len(captured)
  BY <1>1, HeaderFacts, EventFacts, LenProperties
<1>4. \A n \in DOMAIN captured' : captured'[n].at <= now' /\ captured'[n].t <= now'
  <2> SUFFICES ASSUME NEW n \in 1..(Len(captured) + 1)
               PROVE  captured'[n].at <= now /\ captured'[n].t <= now
    BY <1>1, <1>3
  <2>1. CASE n = Len(captured) + 1
    <3>1. captured'[n].t = now - pruStart /\ captured'[n].at = now /\ now - pruStart \in 0..now
      BY <2>1, HeaderFacts
    <3>2. now \in Nat
      BY <1>1, SlotFacts
    <3> QED BY <3>1, <3>2
  <2>2. CASE n /= Len(captured) + 1
    <3>1. n \in 1..Len(captured)
      BY <1>3, <2>2
    <3>2. captured'[n] = captured[n]
      BY <3>1, HeaderFacts
    <3>3. captured[n].at <= now /\ captured[n].t <= now
      BY <1>1, <1>3, <3>1 DEF ClockInv
    <3> QED BY <3>2, <3>3
  <2> QED BY <2>1, <2>2
<1>5. Claimed' <= Len(captured') /\ Len(captured') <= MaxEvents
  <2>1. Claimed = writeIdx /\ Claimed' = writeIdx + 1 /\ writeIdx \in Nat
    BY <1>1, SlotFacts DEF Claimed
  <2> QED BY <1>1, <1>3, <2>1, HeaderFacts DEF ClockInv
<1>6. \A i \in Slots : ring'[i].t <= now'
  BY <1>1, HeaderFacts DEF ClockInv
<1> QED BY <1>2, <1>4, <1>5, <1>6 DEF TypeInv, ClockInv

LEMMA TypeTimes == TypeInv /\ WriteTimes => TypeInv'
<1> SUFFICES ASSUME TypeInv, WriteTimes PROVE TypeInv'
  OBVIOUS
<1>1. TypeOK /\ ClockInv /\ wpc = "fill" /\ wpc' = "publish"
      /\ UNCHANGED <<writeIdx, pruStart, captured, rpc, readIdx, w, epoch, first, yielded, now, restarted>>
  BY DEF TypeInv, WriteTimes, reader
<1>2. TypeOK'
  BY <1>1, TimesFacts DEF TypeOK
<1>3. Claimed' = Claimed
  BY <1>1 DEF Claimed
<1> QED BY <1>1, <1>2, <1>3, TimesFacts DEF TypeInv, ClockInv

LEMMA TypePublish == TypeInv /\ Publish => TypeInv'
<1> SUFFICES ASSUME TypeInv, Publish PROVE TypeInv'
  OBVIOUS
<1>1. TypeOK /\ ClockInv /\ wpc' = "idle"
      /\ UNCHANGED <<ring, pruStart, captured, rpc, readIdx, w, epoch, first, yielded, now, restarted>>
  BY DEF TypeInv, Publish, reader
<1>2. TypeOK'
  BY <1>1, PublishFacts DEF TypeOK
<1> QED BY <1>1, <1>2, PublishFacts DEF TypeInv, ClockInv

\* A restart takes the index back to zero: fewer events are counted.
LEMMA TypeRestart == TypeInv /\ Restart => TypeInv'
<1> SUFFICES ASSUME TypeInv, Restart PROVE TypeInv'
  OBVIOUS
<1>1. TypeOK /\ ClockInv /\ wpc' = "idle" /\ writeIdx' = 0 /\ pruStart' = now /\ restarted' = TRUE
      /\ UNCHANGED <<ring, captured, rpc, readIdx, w, epoch, first, yielded, now>>
  BY DEF TypeInv, Restart, reader
<1>2. 0 \in 0..(IdxModulus - 1) /\ now \in 0..now /\ restarted' \in BOOLEAN
  BY <1>1, SlotFacts
<1>3. TypeOK'
  BY <1>1, <1>2 DEF TypeOK
<1>4. Claimed' = 0 /\ Len(captured) \in Nat
  BY <1>1, EventFacts DEF Claimed
<1> QED BY <1>1, <1>3, <1>4 DEF TypeInv, ClockInv

\* SetCursor: what is due from now on begins at an event that may come.
LEMMA TypeCursor ==
    ASSUME TypeInv, NEW idx \in {0, writeIdx}, NEW n \in {Published, Published - writeIdx},
           SetCursor(idx, n)
    PROVE  /\ readIdx' \in 0..MaxIdx /\ first' \in 1..(MaxEvents + 1)
           /\ yielded' \in Seq([ev : 1..MaxEvents, t : Nat, stamp : Nat])
<1>1. /\ Len(captured) \in Nat /\ Len(captured) <= MaxEvents /\ Claimed <= Len(captured)
      /\ writeIdx \in Nat /\ Claimed \in writeIdx..(writeIdx + 1)
  BY EventFacts, SlotFacts DEF TypeInv, ClockInv
<1>2. Published \in writeIdx..MaxEvents
  BY <1>1 DEF Published, Claimed
<1>3. writeIdx <= MaxIdx
  BY <1>1
<1> QED BY <1>1, <1>2, <1>3 DEF SetCursor

LEMMA TypeOpen == TypeInv /\ Open => TypeInv'
<1> SUFFICES ASSUME TypeInv, Open PROVE TypeInv'
  OBVIOUS
<1>1. TypeOK /\ ClockInv /\ rpc' = "idle" /\ epoch' = Calibrated /\ restarted' = FALSE
      /\ SetCursor(writeIdx, Published)
      /\ UNCHANGED <<wpc, ring, writeIdx, pruStart, captured, w, now>>
  BY DEF TypeInv, Open, pru
<1>2. epoch' \in 0..MaxTime
  BY <1>1, CalibratedFacts DEF TypeOK
<1>3. TypeOK'
  <2>1. /\ readIdx' \in 0..MaxIdx /\ first' \in 1..(MaxEvents + 1)
        /\ yielded' \in Seq([ev : 1..MaxEvents, t : Nat, stamp : Nat])
    BY <1>1, TypeCursor
  <2>2. restarted' \in BOOLEAN
    BY <1>1
  <2> QED BY <1>1, <1>2, <2>1, <2>2 DEF TypeOK
<1> QED BY <1>1, <1>3 DEF TypeInv, ClockInv, Claimed

LEMMA TypeCheck == TypeInv /\ DrainCheck => TypeInv'
<1> SUFFICES ASSUME TypeInv, DrainCheck PROVE TypeInv'
  OBVIOUS
<1>1. /\ TypeOK /\ ClockInv /\ rpc' = "read" /\ restarted' = FALSE
      /\ epoch' \in {Calibrated, epoch}
      /\ (SetCursor(0, Published - writeIdx) \/ UNCHANGED <<readIdx, first, yielded>>)
      /\ UNCHANGED <<wpc, ring, writeIdx, pruStart, captured, w, now>>
  BY DEF TypeInv, DrainCheck, pru
<1>2. epoch' \in 0..MaxTime
  BY <1>1, CalibratedFacts DEF TypeOK
<1>3. TypeOK'
  <2>1. /\ readIdx' \in 0..MaxIdx /\ first' \in 1..(MaxEvents + 1)
        /\ yielded' \in Seq([ev : 1..MaxEvents, t : Nat, stamp : Nat])
    BY <1>1, TypeCursor DEF TypeOK
  <2>2. restarted' \in BOOLEAN
    BY <1>1
  <2> QED BY <1>1, <1>2, <2>1, <2>2 DEF TypeOK
<1> QED BY <1>1, <1>3 DEF TypeInv, ClockInv, Claimed

\* What DrainRead yields, when it yields.
LEMMA ReadFacts ==
    ASSUME TypeInv, DrainRead, rpc' /= "dead"
    PROVE  LET slot == ring[SlotOf(readIdx)]
               y    == [ev |-> slot.ev, t |-> slot.t, stamp |-> slot.t + epoch]
           IN  /\ y \in [ev : 1..MaxEvents, t : Nat, stamp : Nat]
               /\ yielded \in Seq([ev : 1..MaxEvents, t : Nat, stamp : Nat])
               /\ yielded' = Append(yielded, y)
               /\ rpc = "read" /\ rpc' = rpc /\ readIdx' = readIdx + 1
               /\ readIdx /= w /\ readIdx < MaxIdx
<1> DEFINE slot == ring[SlotOf(readIdx)]
           y    == [ev |-> slot.ev, t |-> slot.t, stamp |-> slot.t + epoch]
<1>1. /\ rpc = "read" /\ readIdx /= w /\ readIdx < MaxIdx
      /\ slot.ev /= 0 /\ yielded' = Append(yielded, y) /\ readIdx' = readIdx + 1 /\ rpc' = rpc
  BY DEF DrainRead
<1>2. slot.ev \in 0..MaxEvents /\ slot.t \in 0..MaxTime /\ epoch \in Nat
  BY SlotFacts DEF TypeInv, TypeOK
<1>3. y \in [ev : 1..MaxEvents, t : Nat, stamp : Nat]
  BY <1>1, <1>2
<1> QED BY <1>1, <1>3 DEF TypeInv, TypeOK

LEMMA TypeRead == TypeInv /\ DrainRead => TypeInv'
<1> SUFFICES ASSUME TypeInv, DrainRead PROVE TypeInv'
  OBVIOUS
<1>1. /\ TypeOK /\ ClockInv
      /\ UNCHANGED <<wpc, ring, writeIdx, pruStart, captured, w, epoch, first, now, restarted>>
  BY DEF TypeInv, DrainRead, pru
<1>2. CASE rpc' = "dead"
  <2>1. UNCHANGED <<readIdx, yielded>>
    BY <1>2 DEF DrainRead
  <2> QED BY <1>1, <1>2, <2>1 DEF TypeInv, TypeOK, ClockInv, Claimed
<1>3. CASE rpc' /= "dead"
  <2>1. yielded' \in Seq([ev : 1..MaxEvents, t : Nat, stamp : Nat])
    <3> DEFINE Y == [ev : 1..MaxEvents, t : Nat, stamp : Nat]
    <3>1. \E y \in Y : yielded \in Seq(Y) /\ yielded' = Append(yielded, y)
      BY <1>3, ReadFacts
    <3> HIDE DEF Y
    <3>2. yielded' \in Seq(Y)
      BY <3>1, AppendFacts
    <3> QED BY <3>2 DEF Y
  <2>2. readIdx' \in 0..MaxIdx /\ rpc' = rpc
    BY <1>1, <1>3, ReadFacts DEF TypeOK
  <2> QED BY <1>1, <2>1, <2>2 DEF TypeInv, TypeOK, ClockInv, Claimed
<1> QED BY <1>2, <1>3

\* The steps that move no event.
LEMMA TypeQuiet ==
    TypeInv /\ (DrainStart \/ DrainEnd \/ Close \/ Tick \/ UNCHANGED vars) => TypeInv'
<1> SUFFICES ASSUME TypeInv, DrainStart \/ DrainEnd \/ Close \/ Tick \/ UNCHANGED vars
             PROVE  TypeInv'
  OBVIOUS
<1>1. /\ TypeOK /\ ClockInv
      /\ UNCHANGED <<wpc, ring, writeIdx, pruStart, captured, readIdx, epoch, first, yielded, restarted>>
      /\ rpc' \in {"closed", "idle", "check", rpc}
      /\ w' \in {w, writeIdx}
      /\ now' = now \/ (now' = now + 1 /\ now < MaxTime)
  BY DEF TypeInv, DrainStart, DrainEnd, Close, Tick, vars, pru, reader
<1>2. now' \in 0..MaxTime /\ now <= now' /\ pruStart \in 0..now'
  BY <1>1 DEF TypeOK
<1>3. TypeOK'
  BY <1>1, <1>2 DEF TypeOK
<1>4. ClockInv'
  <2>1. \A n \in DOMAIN captured : captured[n].at <= now' /\ captured[n].t <= now'
    <3> SUFFICES ASSUME NEW n \in DOMAIN captured
                 PROVE  captured[n].at <= now' /\ captured[n].t <= now'
      OBVIOUS
    <3>1. captured[n].at \in Nat /\ captured[n].t \in Nat /\ now \in Nat /\ now' \in Nat
      BY <1>1, <1>2, EventFacts, SlotFacts
    <3>2. captured[n].at <= now /\ captured[n].t <= now
      BY <1>1 DEF ClockInv
    <3> QED BY <1>2, <3>1, <3>2
  <2>2. \A i \in Slots : ring[i].t <= now'
    BY <1>1, <1>2, SlotFacts DEF ClockInv, TypeOK
  <2> QED BY <1>1, <2>1, <2>2 DEF ClockInv, Claimed
<1> QED BY <1>3, <1>4 DEF TypeInv

LEMMA TypeStep == TypeInv /\ [Next]_vars => TypeInv'
BY TypeHeader, TypeTimes, TypePublish, TypeRestart, TypeOpen, TypeCheck, TypeRead, TypeQuiet
DEF Next, Pru, Reader

\* Types, for a ring of any depth and restarts of the firmware at any time: the
\* cursors and the times stay within their bounds, and no event is yielded that
\* was never captured.
THEOREM RingTypes == Spec => []TypeOK
<1>1. TypeInv => TypeOK
  BY DEF TypeInv
<1> QED BY <1>1, TypeInit, TypeStep, PTL DEF Spec

-----------------------------------------------------------------------------
(* The writer: what the slots hold.                                        *)

\* Within a run of the firmware the two clocks differ by its start; events are
\* captured in order, and the one being written was captured just now.
EventInv ==
    /\ \A n \in (Before + 1)..Len(captured) :
          captured[n].at = pruStart + captured[n].t /\ captured[n].t > 0
    /\ \A m, n \in DOMAIN captured : m <= n => captured[m].at <= captured[n].at
    /\ wpc /= "idle" => captured[Len(captured)].at = now

\* The slot of index k holds the event of index k.
Holds(k) ==
    /\ ring[SlotOf(k)].ev = Before + k + 1
    /\ ring[SlotOf(k)].t = captured[Before + k + 1].t

\* The slots of the last Depth indices hold their events, but for the slot the
\* writer has claimed, which holds what write_event has written so far.
RingHolds ==
    /\ \A k \in 0..(writeIdx - 1) : Claimed <= k + Depth => Holds(k)
    /\ wpc /= "idle" => ring[SlotOf(writeIdx)].ev = Len(captured)
    /\ wpc = "publish" => ring[SlotOf(writeIdx)].t = captured[Len(captured)].t

WriterInv == TypeInv /\ EventInv /\ RingHolds

\* The reader only reads.
LEMMA ReaderOnlyReads ==
    ASSUME Open \/ Reader \/ Close \/ UNCHANGED vars
    PROVE  UNCHANGED <<wpc, ring, writeIdx, pruStart, captured, now>>
BY DEF Open, Reader, DrainStart, DrainCheck, DrainRead, DrainEnd, Close, vars, pru

\* Numbers of events, from an index.
LEMMA BeforeFacts ==
    ASSUME TypeInv
    PROVE  /\ Before \in Nat /\ Len(captured) \in Nat /\ Before + Claimed = Len(captured)
           /\ DOMAIN captured = 1..Len(captured)
           /\ \A k \in 0..(Claimed - 1) : Before + k + 1 \in (Before + 1)..Len(captured)
           /\ \A k \in 0..(Claimed - 1) : Before + k + 1 \in 1..Len(captured)
<1>1. /\ Len(captured) \in Nat /\ DOMAIN captured = 1..Len(captured)
      /\ Claimed \in Nat /\ Claimed <= Len(captured)
  BY EventFacts, SlotFacts DEF TypeInv, ClockInv
<1>2. Before \in Nat /\ Before + Claimed = Len(captured)
  BY <1>1 DEF Before
<1>3. ASSUME NEW k \in 0..(Claimed - 1)
      PROVE  Before + k + 1 \in (Before + 1)..Len(captured) /\ Before + k + 1 \in 1..Len(captured)
  BY <1>1, <1>2
<1> QED BY <1>1, <1>2, <1>3

\* WriteHeader: no event of this run changes its number.
LEMMA HeaderNumbers ==
    ASSUME TypeInv, WriteHeader
    PROVE  /\ Claimed = writeIdx /\ Claimed' = writeIdx + 1 /\ Before' = Before
           /\ writeIdx' = writeIdx /\ writeIdx \in Nat
           /\ Before + writeIdx = Len(captured)
<1>1. wpc = "idle" /\ wpc' = "fill" /\ writeIdx' = writeIdx /\ writeIdx \in Nat
  BY SlotFacts DEF WriteHeader, TypeInv
<1>2. Claimed = writeIdx /\ Claimed' = writeIdx + 1
  BY <1>1 DEF Claimed
<1>3. Len(captured') = Len(captured) + 1 /\ Len(captured) \in Nat
  BY HeaderFacts, BeforeFacts
<1> QED BY <1>1, <1>2, <1>3 DEF Before

LEMMA EventHeader == WriterInv /\ WriteHeader => EventInv'
<1> SUFFICES ASSUME WriterInv, WriteHeader PROVE EventInv'
  OBVIOUS
<1> DEFINE L == Len(captured)
<1>1. /\ TypeInv /\ EventInv /\ L \in Nat /\ now \in Nat /\ pruStart \in 0..now
      /\ DOMAIN captured = 1..L /\ DOMAIN captured' = 1..(L + 1) /\ Len(captured') = L + 1
      /\ Before \in Nat /\ Before' = Before
      /\ UNCHANGED <<pruStart, now>> /\ wpc = "idle"
  <2>1. TypeInv /\ TypeOK /\ EventInv
    BY DEF WriterInv, TypeInv
  <2>2. Len(captured') = L + 1 /\ captured' \in Seq([t : Nat, at : Nat])
    BY <2>1, HeaderFacts
  <2>3. DOMAIN captured' = 1..(L + 1)
    BY <2>2, LenProperties
  <2> QED BY <2>1, <2>2, <2>3, BeforeFacts, HeaderNumbers DEF TypeOK, WriteHeader
<1>2. /\ \A n \in 1..L : captured'[n] = captured[n]
      /\ captured'[L + 1].t = now - pruStart /\ captured'[L + 1].at = now
      /\ now - pruStart > 0
  BY <1>1, HeaderFacts
<1>3. \A n \in 1..L : captured[n].at \in Nat /\ captured[n].t \in Nat /\ captured[n].at <= now
  BY <1>1, EventFacts DEF TypeInv, ClockInv
<1> HIDE DEF L
<1>4. \A n \in (Before' + 1)..Len(captured') :
         captured'[n].at = pruStart' + captured'[n].t /\ captured'[n].t > 0
  <2> SUFFICES ASSUME NEW n \in (Before + 1)..(L + 1)
               PROVE  captured'[n].at = pruStart + captured'[n].t /\ captured'[n].t > 0
    BY <1>1
  <2>1. CASE n = L + 1
    BY <1>1, <1>2, <2>1
  <2>2. CASE n /= L + 1
    <3>1. n \in (Before + 1)..L /\ n \in 1..L
      BY <1>1, <2>2
    <3>2. captured[n].at = pruStart + captured[n].t /\ captured[n].t > 0
      BY <1>1, <3>1 DEF EventInv, L
    <3> QED BY <1>2, <3>1, <3>2
  <2> QED BY <2>1, <2>2
<1>5. ASSUME NEW m \in DOMAIN captured', NEW n \in DOMAIN captured', m <= n
      PROVE  captured'[m].at <= captured'[n].at
  <2>1. CASE n = L + 1 /\ m = L + 1
    BY <1>1, <1>2, <2>1
  <2>2. CASE n = L + 1 /\ m /= L + 1
    <3>1. m \in 1..L
      BY <1>1, <2>2
    <3> QED BY <1>2, <1>3, <2>2, <3>1
  <2>3. CASE n /= L + 1
    <3>1. n \in 1..L /\ m \in 1..L
      BY <1>1, <1>5, <2>3
    <3>2. captured[m].at <= captured[n].at
      BY <1>1, <1>5, <3>1 DEF EventInv
    <3> QED BY <1>2, <3>1, <3>2
  <2> QED BY <2>1, <2>2, <2>3
<1> QED BY <1>1, <1>2, <1>4, <1>5 DEF EventInv

\* Steps that capture no event.
LEMMA EventStep == WriterInv /\ [Next]_vars => EventInv'
<1> SUFFICES ASSUME WriterInv, [Next]_vars PROVE EventInv'
  OBVIOUS
<1>0. TypeInv /\ EventInv
  BY DEF WriterInv
<1>1. CASE WriteHeader
  BY <1>1, EventHeader
<1>2. CASE WriteTimes
  <2>1. /\ wpc = "fill" /\ UNCHANGED <<captured, pruStart, now, writeIdx>>
        /\ wpc' = "publish"
    BY <1>2 DEF WriteTimes
  <2>2. Claimed' = Claimed
    BY <2>1 DEF Claimed
  <2> QED BY <1>0, <2>1, <2>2 DEF EventInv, Before
<1>3. CASE Publish
  <2>1. /\ wpc = "publish" /\ UNCHANGED <<captured, pruStart, now>> /\ wpc' = "idle"
        /\ Claimed' = Claimed
    BY <1>0, <1>3, PublishFacts DEF Publish
  <2> QED BY <1>0, <2>1 DEF EventInv, Before
<1>4. CASE Restart
  <2>1. wpc' = "idle" /\ writeIdx' = 0 /\ captured' = captured
    BY <1>4 DEF Restart
  <2>2. Before' = Len(captured) /\ Len(captured) \in Nat
    BY <1>0, <2>1, BeforeFacts DEF Before, Claimed
  <2>3. (Before' + 1)..Len(captured') = {}
    BY <2>1, <2>2
  <2> QED BY <1>0, <2>1, <2>3 DEF EventInv
<1>5. CASE Tick
  <2>1. wpc = "idle" /\ UNCHANGED <<wpc, captured, pruStart, writeIdx>>
    BY <1>5 DEF Tick, pru
  <2> QED BY <1>0, <2>1 DEF EventInv, Before, Claimed
<1>6. CASE Open \/ Reader \/ Close \/ UNCHANGED vars
  <2>1. UNCHANGED <<wpc, writeIdx, pruStart, captured, now>>
    BY <1>6, ReaderOnlyReads
  <2> QED BY <1>0, <2>1 DEF EventInv, Before, Claimed
<1> QED BY <1>1, <1>2, <1>3, <1>4, <1>5, <1>6 DEF Next, Pru

\* The slot the writer claims is Depth indices from the last one it wrote: no
\* other index of the last Depth has it.
LEMMA ClaimedApart ==
    ASSUME TypeInv, NEW k \in 0..(writeIdx - 1), writeIdx < k + Depth
    PROVE  SlotOf(k) \in Slots /\ SlotOf(k) /= SlotOf(writeIdx)
<1>1. writeIdx \in Nat /\ k \in Nat /\ k < writeIdx /\ SlotOf(k) \in Slots
  BY SlotFacts DEF TypeInv
<1>2. (k % Depth) /= (writeIdx % Depth)
  BY <1>1, ModDiffers
<1> QED BY <1>1, <1>2 DEF SlotOf

LEMMA RingStep == WriterInv /\ [Next]_vars => RingHolds'
<1> SUFFICES ASSUME WriterInv, [Next]_vars PROVE RingHolds'
  OBVIOUS
<1>0. TypeInv /\ RingHolds
  BY DEF WriterInv
<1>1. CASE WriteHeader
  <2>1. /\ Claimed = writeIdx /\ Claimed' = writeIdx + 1 /\ Before' = Before
        /\ writeIdx' = writeIdx /\ writeIdx \in Nat
        /\ Before \in Nat /\ Len(captured) \in Nat
        /\ Before + writeIdx = Len(captured)
    BY <1>0, <1>1, HeaderNumbers, BeforeFacts
  <2>2. ASSUME NEW k \in 0..(writeIdx - 1), Claimed' <= k + Depth
        PROVE  Holds(k)'
    <3>1. SlotOf(k) \in Slots /\ SlotOf(k) /= SlotOf(writeIdx)
      BY <1>0, <2>1, <2>2, ClaimedApart
    <3>2. ring'[SlotOf(k)] = ring[SlotOf(k)]
      BY <1>0, <1>1, <3>1, HeaderFacts
    <3>3. Before + k + 1 \in 1..Len(captured)
      BY <1>0, <2>1, BeforeFacts
    <3>4. captured'[Before + k + 1] = captured[Before + k + 1]
      BY <1>0, <1>1, <3>3, HeaderFacts
    <3>5. Holds(k)
      BY <1>0, <2>1, <2>2 DEF RingHolds
    <3> QED BY <2>1, <3>2, <3>4, <3>5 DEF Holds, SlotOf
  <2>3. ring'[SlotOf(writeIdx)].ev = Len(captured')
    BY <1>0, <1>1, HeaderFacts
  <2>4. wpc' = "fill"
    BY <1>1 DEF WriteHeader
  <2> QED BY <2>1, <2>2, <2>3, <2>4 DEF RingHolds, SlotOf
<1>2. CASE WriteTimes
  <2>1. /\ wpc = "fill" /\ wpc' = "publish" /\ UNCHANGED <<captured, writeIdx>>
        /\ writeIdx \in Nat
    BY <1>0, <1>2, SlotFacts DEF WriteTimes, TypeInv
  <2>2. Claimed' = Claimed /\ Claimed = writeIdx + 1 /\ Before' = Before
    BY <2>1 DEF Claimed, Before
  <2>3. ASSUME NEW k \in 0..(writeIdx - 1), Claimed' <= k + Depth
        PROVE  Holds(k)'
    <3>1. SlotOf(k) \in Slots /\ SlotOf(k) /= SlotOf(writeIdx)
      BY <1>0, <2>1, <2>2, <2>3, ClaimedApart
    <3>2. ring'[SlotOf(k)] = ring[SlotOf(k)]
      BY <1>0, <1>2, <3>1, TimesFacts
    <3>3. Holds(k)
      BY <1>0, <2>2, <2>3 DEF RingHolds
    <3> QED BY <2>1, <2>2, <3>2, <3>3 DEF Holds, SlotOf
  <2>4. ring'[SlotOf(writeIdx)].t = captured[Len(captured)].t
        /\ ring'[SlotOf(writeIdx)].ev = Len(captured)
    BY <1>0, <1>2, <2>1, TimesFacts DEF RingHolds
  <2> QED BY <2>1, <2>3, <2>4 DEF RingHolds, SlotOf
<1>3. CASE Publish
  <2>1. /\ wpc = "publish" /\ wpc' = "idle" /\ UNCHANGED <<captured, ring>>
        /\ writeIdx' = writeIdx + 1 /\ writeIdx \in Nat /\ Claimed' = Claimed
        /\ Claimed = writeIdx + 1
    BY <1>0, <1>3, PublishFacts, SlotFacts DEF Publish, TypeInv
  <2>2. Before' = Before /\ Before + writeIdx + 1 = Len(captured)
    BY <1>0, <2>1, BeforeFacts DEF Before
  <2>3. ASSUME NEW k \in 0..writeIdx, Claimed <= k + Depth
        PROVE  Holds(k)
    <3>1. CASE k = writeIdx
      BY <1>0, <2>1, <2>2, <3>1 DEF RingHolds, Holds
    <3>2. CASE k /= writeIdx
      <4>1. k \in 0..(writeIdx - 1)
        BY <2>1, <3>2
      <4> QED BY <1>0, <2>3, <4>1 DEF RingHolds
    <3> QED BY <3>1, <3>2
  <2>4. ASSUME NEW k \in 0..(writeIdx' - 1), Claimed' <= k + Depth
        PROVE  Holds(k)'
    <3>1. k \in 0..writeIdx
      BY <2>1
    <3>2. Holds(k)
      BY <2>1, <2>3, <2>4, <3>1
    <3> QED BY <2>1, <2>2, <3>2 DEF Holds, SlotOf
  <2> QED BY <2>1, <2>4 DEF RingHolds
<1>4. CASE Restart
  <2>1. wpc' = "idle" /\ writeIdx' = 0
    BY <1>4 DEF Restart
  <2> QED BY <2>1 DEF RingHolds
<1>5. CASE Tick \/ Open \/ Reader \/ Close \/ UNCHANGED vars
  <2>1. UNCHANGED <<wpc, ring, writeIdx, captured>>
    BY <1>5, ReaderOnlyReads DEF Tick, pru
  <2> QED BY <1>0, <2>1 DEF RingHolds, Holds, Before, Claimed, SlotOf
<1> QED BY <1>1, <1>2, <1>3, <1>4, <1>5 DEF Next, Pru

LEMMA WriterInit == Init => WriterInv
<1> SUFFICES ASSUME Init PROVE WriterInv
  OBVIOUS
<1>1. /\ TypeInv /\ Len(captured) = 0 /\ DOMAIN captured = {} /\ wpc = "idle"
      /\ writeIdx = 0 /\ Before = 0
  BY TypeInit DEF Init, Before, Claimed
<1> QED BY <1>1 DEF WriterInv, EventInv, RingHolds

LEMMA WriterStep == WriterInv /\ [Next]_vars => WriterInv'
BY TypeStep, EventStep, RingStep DEF WriterInv

-----------------------------------------------------------------------------
(* The reader: what drain yields.                                          *)

\* Is the reader at work.
Polling == rpc \in {"idle", "check", "read"}

\* A reader at work is at most MaxLag events behind the writer, and the cursor
\* stands for the next event it owes; or the firmware has restarted under a
\* cursor the next drain will find to be ahead.
CursorInv ==
    /\ restarted => Restarts /= "none"
    /\ Polling =>
          IF restarted
            THEN /\ wpc = "idle" /\ writeIdx = 0
                 /\ Depth < readIdx /\ readIdx < IdxModulus
                 /\ rpc /= "read" /\ (rpc = "check" => w = 0)
            ELSE /\ readIdx <= writeIdx /\ Claimed - readIdx <= MaxLag
                 /\ first + Len(yielded) = Before + readIdx + 1
                 /\ rpc /= "idle" => w \in readIdx..writeIdx

\* What was yielded are the events due, and no others.
YieldedInv ==
    /\ EveryEventOnce
    /\ \A i \in DOMAIN yielded : yielded[i].ev \in DOMAIN captured

ReaderInv == WriterInv /\ CursorInv /\ YieldedInv

LEMMA YieldedFacts ==
    ASSUME TypeInv
    PROVE  /\ Len(yielded) \in Nat /\ DOMAIN yielded = 1..Len(yielded)
           /\ \A i \in 1..Len(yielded) : /\ yielded[i].ev \in Nat /\ yielded[i].t \in Nat
                                         /\ yielded[i].stamp \in Nat
<1>1. yielded \in Seq([ev : 1..MaxEvents, t : Nat, stamp : Nat])
  BY DEF TypeInv, TypeOK
<1>2. Len(yielded) \in Nat /\ DOMAIN yielded = 1..Len(yielded)
  BY <1>1, LenProperties
<1>3. \A i \in 1..Len(yielded) : yielded[i] \in [ev : 1..MaxEvents, t : Nat, stamp : Nat]
  BY <1>1, ElementOfSeq
<1> QED BY <1>2, <1>3

\* The slot under the cursor holds the event due: the writer has not come round
\* to it, and is not writing it.
LEMMA DueIsThere ==
    ASSUME ReaderInv, DrainRead
    PROVE  LET n == Before + readIdx + 1
               y == [ev |-> n, t |-> captured[n].t, stamp |-> captured[n].t + epoch]
           IN  /\ n \in (Before + 1)..(Before + w) /\ n \in 1..Len(captured)
               /\ Before + w <= Len(captured)
               /\ y \in [ev : 1..MaxEvents, t : Nat, stamp : Nat]
               /\ yielded \in Seq([ev : 1..MaxEvents, t : Nat, stamp : Nat])
               /\ yielded' = Append(yielded, y)
               /\ first + Len(yielded) = n
               /\ rpc = "read" /\ rpc' = "read" /\ ~restarted
               /\ readIdx' = readIdx + 1 /\ readIdx < w
<1> DEFINE n == Before + readIdx + 1
           slot == ring[SlotOf(readIdx)]
<1>1. /\ rpc = "read" /\ readIdx /= w /\ TypeInv /\ RingHolds
      /\ readIdx \in Nat /\ writeIdx \in Nat /\ w \in Nat /\ Claimed \in Nat
      /\ writeIdx <= Claimed
      /\ Before \in Nat /\ Len(captured) \in Nat /\ Before + Claimed = Len(captured)
  BY SlotFacts, BeforeFacts DEF DrainRead, ReaderInv, WriterInv, TypeInv
<1>2. /\ ~restarted /\ readIdx <= writeIdx /\ Claimed - readIdx <= MaxLag
      /\ first + Len(yielded) = n /\ w \in readIdx..writeIdx
  BY <1>1 DEF ReaderInv, CursorInv, Polling
<1>3. readIdx \in 0..(writeIdx - 1) /\ Claimed <= readIdx + Depth /\ readIdx < w
  BY <1>1, <1>2
<1>4. slot.ev = n /\ slot.t = captured[n].t
  BY <1>1, <1>3 DEF RingHolds, Holds
<1>5. n \in (Before + 1)..(Before + w) /\ n \in 1..Len(captured) /\ Before + w <= Len(captured)
  BY <1>1, <1>2, <1>3
<1> HIDE DEF n, slot
<1>6. rpc' /= "dead"
  <2>1. slot.ev /= 0
    BY <1>1, <1>4, <1>5
  <2> QED BY <1>1, <2>1 DEF DrainRead, slot
<1>7. LET y == [ev |-> slot.ev, t |-> slot.t, stamp |-> slot.t + epoch]
      IN  /\ y \in [ev : 1..MaxEvents, t : Nat, stamp : Nat]
          /\ yielded \in Seq([ev : 1..MaxEvents, t : Nat, stamp : Nat])
          /\ yielded' = Append(yielded, y)
          /\ rpc' = rpc /\ readIdx' = readIdx + 1
  BY <1>1, <1>6, ReadFacts DEF slot
<1> QED BY <1>1, <1>2, <1>3, <1>4, <1>5, <1>7 DEF n

\* The restart check finds every restart, and nothing else: the index is behind
\* the cursor only after one.
LEMMA RestartIsFound ==
    ASSUME ReaderInv, DrainCheck
    PROVE  RestartNoticed <=> restarted
<1>1. /\ rpc = "check" /\ TypeInv /\ readIdx \in Nat /\ writeIdx \in Nat /\ w \in Nat
      /\ restarted \in BOOLEAN
  BY SlotFacts DEF DrainCheck, ReaderInv, WriterInv, TypeInv, TypeOK
<1>2. CASE restarted
  <2>1. w = 0 /\ Depth < readIdx /\ readIdx < IdxModulus
    BY <1>1, <1>2 DEF ReaderInv, CursorInv, Polling
  <2>2. readIdx - w = readIdx /\ readIdx \in 0..(IdxModulus - 1) /\ IdxModulus \in Nat \ {0}
    BY <1>1, <2>1
  <2>3. (readIdx - w) % IdxModulus = readIdx
    BY <2>2, ModSmall
  <2>4. ~SlightlyBehind
    BY <1>1, <2>1, <2>3 DEF SlightlyBehind
  <2> QED BY <1>2, <2>1, <2>4 DEF RestartNoticed
<1>3. CASE ~restarted
  <2>1. readIdx <= w
    BY <1>1, <1>3 DEF ReaderInv, CursorInv, Polling
  <2>2. ~(w = 0 /\ readIdx > Depth)
    BY <1>1, <2>1
  <2> QED BY <1>3, <2>2 DEF RestartNoticed
<1> QED BY <1>1, <1>2, <1>3

LEMMA CursorInit == Init => CursorInv /\ YieldedInv
<1> SUFFICES ASSUME Init PROVE CursorInv /\ YieldedInv
  OBVIOUS
<1>1. rpc = "closed" /\ restarted = FALSE /\ yielded = <<>> /\ DOMAIN yielded = {}
  BY DEF Init
<1> QED BY <1>1 DEF CursorInv, Polling, YieldedInv, EveryEventOnce

\* The writer stays within MaxLag of the cursor.
LEMMA CursorWriter ==
    ASSUME Restarts /= "any", ReaderInv, WriteHeader \/ WriteTimes \/ Publish
    PROVE  CursorInv'
<1>0. /\ TypeInv /\ CursorInv /\ readIdx \in Nat /\ writeIdx \in Nat
      /\ writeIdx \in 0..(IdxModulus - 1) /\ Claimed \in Nat /\ restarted \in BOOLEAN
  BY SlotFacts DEF ReaderInv, WriterInv, TypeInv, TypeOK
<1>1. UNCHANGED <<rpc, readIdx, w, first, yielded, restarted>>
  BY DEF WriteHeader, WriteTimes, Publish, reader
<1>2. Polling => ~restarted
  <2>1. CASE WriteHeader
    BY <1>0, <2>1 DEF WriteHeader, CursorInv
  <2>2. CASE WriteTimes \/ Publish
    <3>1. wpc /= "idle"
      BY <2>2 DEF WriteTimes, Publish
    <3> QED BY <1>0, <3>1 DEF CursorInv
  <2> QED BY <2>1, <2>2
<1>3. SUFFICES ASSUME Polling
               PROVE  /\ readIdx <= writeIdx' /\ Claimed' - readIdx <= MaxLag
                      /\ first + Len(yielded) = Before' + readIdx + 1
                      /\ rpc /= "idle" => w \in readIdx..writeIdx'
  BY <1>0, <1>1, <1>2 DEF CursorInv, Polling
<1>4. /\ readIdx <= writeIdx /\ Claimed - readIdx <= MaxLag
      /\ first + Len(yielded) = Before + readIdx + 1
      /\ rpc /= "idle" => w \in readIdx..writeIdx
  BY <1>0, <1>2, <1>3 DEF CursorInv
<1>5. CASE WriteHeader
  <2>1. Claimed' = writeIdx + 1 /\ Before' = Before /\ writeIdx' = writeIdx
    BY <1>0, <1>5, HeaderNumbers
  <2>2. (writeIdx - readIdx) % IdxModulus < MaxLag
    BY <1>2, <1>3, <1>5 DEF WriteHeader, ReaderKeepsUp, Unread, Polling
  <2>3. writeIdx - readIdx \in 0..(IdxModulus - 1) /\ IdxModulus \in Nat \ {0}
    BY <1>0, <1>4
  <2>4. writeIdx - readIdx < MaxLag
    BY <2>2, <2>3, ModSmall
  <2> QED BY <1>0, <1>4, <2>1, <2>4
<1>6. CASE WriteTimes
  <2>1. Claimed' = Claimed /\ Before' = Before /\ writeIdx' = writeIdx
    BY <1>6 DEF WriteTimes, Claimed, Before
  <2> QED BY <1>4, <2>1
<1>7. CASE Publish
  <2>1. Claimed' = Claimed /\ writeIdx' = writeIdx + 1 /\ captured' = captured
    BY <1>0, <1>7, PublishFacts DEF Publish
  <2>2. Before' = Before
    BY <2>1 DEF Before
  <2> QED BY <1>0, <1>4, <2>1, <2>2
<1> QED BY <1>5, <1>6, <1>7

LEMMA CursorRestart ==
    ASSUME Restarts /= "any", ReaderInv, Restart
    PROVE  CursorInv'
<1>0. TypeInv /\ CursorInv /\ readIdx \in Nat /\ writeIdx \in 0..(IdxModulus - 1)
  BY SlotFacts DEF ReaderInv, WriterInv, TypeInv, TypeOK
<1>1. /\ Restarts = "noticed" /\ rpc = "idle" /\ Depth < readIdx /\ ~restarted
      /\ wpc' = "idle" /\ writeIdx' = 0 /\ restarted' = TRUE
      /\ UNCHANGED <<rpc, readIdx, w, first, yielded>>
  BY DEF Restart, reader
<1>2. readIdx <= writeIdx
  BY <1>0, <1>1 DEF CursorInv, Polling
<1> QED BY <1>0, <1>1, <1>2 DEF CursorInv, Polling

\* SetCursor at the start of what the index counts.
LEMMA CursorOpen ==
    ASSUME ReaderInv, Open
    PROVE  CursorInv'
<1>0. /\ TypeInv /\ writeIdx \in Nat /\ Claimed \in Nat /\ Before \in Nat
      /\ Published - writeIdx = Before /\ Claimed <= writeIdx + 1
  BY SlotFacts, BeforeFacts DEF ReaderInv, WriterInv, TypeInv
<1>1. /\ rpc' = "idle" /\ restarted' = FALSE
      /\ readIdx' = writeIdx /\ first' = Published + 1 /\ yielded' = <<>>
      /\ UNCHANGED <<wpc, writeIdx, captured>>
  BY DEF Open, SetCursor, pru
<1>2. Claimed' = Claimed /\ Before' = Before /\ Len(yielded') = 0
  BY <1>1 DEF Claimed, Before
<1>3. Published \in Int
  BY <1>0, EventFacts DEF Published, TypeInv
<1>4. first' + Len(yielded') = Before + writeIdx + 1
  BY <1>0, <1>1, <1>2, <1>3
<1> QED BY <1>0, <1>1, <1>2, <1>4 DEF CursorInv, Polling

LEMMA CursorCheck ==
    ASSUME ReaderInv, DrainCheck
    PROVE  CursorInv'
<1>0. /\ TypeInv /\ CursorInv /\ writeIdx \in Nat /\ Before \in Nat
      /\ Published - writeIdx = Before
      /\ wpc = "idle" => Claimed = writeIdx
  BY SlotFacts, BeforeFacts DEF ReaderInv, WriterInv, TypeInv
<1>1. /\ rpc = "check" /\ rpc' = "read" /\ restarted' = FALSE
      /\ UNCHANGED <<wpc, writeIdx, captured, w>>
  BY DEF DrainCheck, pru
<1>2. Claimed' = Claimed /\ Before' = Before
  BY <1>1 DEF Claimed, Before
<1>3. CASE restarted
  <2>1. wpc = "idle" /\ writeIdx = 0 /\ w = 0
    BY <1>0, <1>1, <1>3 DEF CursorInv, Polling
  <2>2. readIdx' = 0 /\ first' = Before + 1 /\ yielded' = <<>>
    BY <1>0, <1>3, RestartIsFound DEF DrainCheck, SetCursor
  <2>3. Len(yielded') = 0 /\ first' + Len(yielded') = Before + 0 + 1
    BY <1>0, <2>2
  <2> QED BY <1>0, <1>1, <1>2, <2>1, <2>2, <2>3 DEF CursorInv, Polling
<1>4. CASE ~restarted
  <2>1. UNCHANGED <<readIdx, first, yielded>>
    BY <1>4, RestartIsFound DEF DrainCheck
  <2> QED BY <1>0, <1>1, <1>2, <1>4, <2>1 DEF CursorInv, Polling
<1> QED BY <1>3, <1>4

LEMMA CursorRead ==
    ASSUME ReaderInv, DrainRead
    PROVE  CursorInv'
<1>0. /\ TypeInv /\ CursorInv /\ readIdx \in Nat /\ writeIdx \in Nat /\ w \in Nat
      /\ Claimed \in Nat /\ Before \in Nat
  BY SlotFacts, BeforeFacts DEF ReaderInv, WriterInv, TypeInv
<1>1. /\ rpc = "read" /\ rpc' = "read" /\ ~restarted /\ restarted' = restarted
      /\ readIdx' = readIdx + 1 /\ readIdx < w
      /\ UNCHANGED <<wpc, writeIdx, captured, w, first>>
  BY DueIsThere DEF DrainRead, pru
<1>2. Claimed' = Claimed /\ Before' = Before
  BY <1>1 DEF Claimed, Before
<1>3. Len(yielded') = Len(yielded) + 1 /\ Len(yielded) \in Nat /\ first \in Nat
  <2> DEFINE Y == [ev : 1..MaxEvents, t : Nat, stamp : Nat]
  <2>1. \E y \in Y : yielded \in Seq(Y) /\ yielded' = Append(yielded, y)
    BY DueIsThere
  <2> HIDE DEF Y
  <2>2. Len(yielded') = Len(yielded) + 1 /\ Len(yielded) \in Nat
    BY <2>1, AppendFacts
  <2>3. first \in Nat
    BY <1>0 DEF TypeInv, TypeOK
  <2> QED BY <2>2, <2>3
<1>4. /\ Claimed - readIdx <= MaxLag /\ first + Len(yielded) = Before + readIdx + 1
      /\ w \in readIdx..writeIdx
  BY <1>0, <1>1 DEF CursorInv, Polling
<1>5. /\ readIdx' <= writeIdx /\ Claimed - readIdx' <= MaxLag
      /\ first + Len(yielded') = Before + readIdx' + 1
      /\ w \in readIdx'..writeIdx
  BY <1>0, <1>1, <1>3, <1>4
<1> QED BY <1>1, <1>2, <1>5 DEF CursorInv, Polling

LEMMA CursorQuiet ==
    ASSUME ReaderInv, DrainStart \/ DrainEnd \/ Close \/ Tick \/ UNCHANGED vars
    PROVE  CursorInv'
<1>0. TypeInv /\ CursorInv /\ readIdx \in Nat /\ writeIdx \in Nat
  BY SlotFacts DEF ReaderInv, WriterInv, TypeInv
<1>1. /\ UNCHANGED <<wpc, writeIdx, captured, readIdx, first, yielded, restarted>>
      /\ \/ rpc = "idle" /\ rpc' = "check" /\ w' = writeIdx
         \/ rpc = "read" /\ rpc' = "idle"
         \/ rpc' = "closed"
         \/ UNCHANGED <<rpc, w>>
  BY DEF DrainStart, DrainEnd, Close, Tick, vars, pru, reader
<1>2. Claimed' = Claimed /\ Before' = Before
  BY <1>1 DEF Claimed, Before
<1> QED BY <1>0, <1>1, <1>2 DEF CursorInv, Polling

LEMMA CursorStep ==
    ASSUME Restarts /= "any"
    PROVE  ReaderInv /\ [Next]_vars => CursorInv'
BY CursorWriter, CursorRestart, CursorOpen, CursorCheck, CursorRead, CursorQuiet
DEF Next, Pru, Reader

\* drain appends the event due; SetCursor begins anew; the events stay.
LEMMA YieldedStep == ReaderInv /\ [Next]_vars => YieldedInv'
<1> SUFFICES ASSUME ReaderInv, [Next]_vars PROVE YieldedInv'
  OBVIOUS
<1>0. /\ TypeInv /\ YieldedInv
      /\ Len(captured) \in Nat /\ DOMAIN captured = 1..Len(captured)
      /\ Len(yielded) \in Nat /\ DOMAIN yielded = 1..Len(yielded) /\ first \in Nat
  BY EventFacts, YieldedFacts DEF ReaderInv, WriterInv, TypeInv, TypeOK
<1>1. CASE WriteHeader
  <2>1. UNCHANGED <<first, yielded>>
    BY <1>1 DEF WriteHeader, reader
  <2>2. /\ DOMAIN captured' = 1..(Len(captured) + 1)
        /\ \A n \in 1..Len(captured) : captured'[n] = captured[n]
    BY <1>0, <1>1, HeaderFacts, LenProperties
  <2> QED BY <1>0, <2>1, <2>2 DEF YieldedInv, EveryEventOnce
<1>2. ASSUME yielded' = <<>> PROVE YieldedInv'
  <2>1. DOMAIN yielded' = {}
    BY <1>2
  <2> QED BY <2>1 DEF YieldedInv, EveryEventOnce
<1>3. CASE UNCHANGED <<captured, first, yielded>>
  BY <1>0, <1>3 DEF YieldedInv, EveryEventOnce
<1>4. CASE DrainRead
  <2> DEFINE n == Before + readIdx + 1
             y == [ev |-> n, t |-> captured[n].t, stamp |-> captured[n].t + epoch]
             Y == [ev : 1..MaxEvents, t : Nat, stamp : Nat]
             L == Len(yielded)
  <2>1. /\ y \in Y /\ yielded \in Seq(Y) /\ yielded' = Append(yielded, y)
        /\ first + L = n /\ n \in 1..Len(captured)
    BY <1>4, DueIsThere
  <2>2. y.ev = n /\ y.t = captured[n].t
    OBVIOUS
  <2>3. UNCHANGED <<captured, first>>
    BY <1>4 DEF DrainRead, pru
  <2> HIDE DEF n, y, Y
  <2>4. /\ DOMAIN yielded' = 1..(L + 1)
        /\ \A i \in 1..L : yielded'[i] = yielded[i]
        /\ yielded'[L + 1] = y
    BY <2>1, AppendFacts
  <2> HIDE DEF L
  <2>5. ASSUME NEW i \in 1..(L + 1)
        PROVE  /\ yielded'[i].ev = first + i - 1
               /\ yielded'[i].t = captured[yielded'[i].ev].t
               /\ yielded'[i].ev \in DOMAIN captured
    <3>1. CASE i = L + 1
      <4>1. first + i - 1 = n
        BY <1>0, <2>1, <3>1 DEF L
      <4> QED BY <1>0, <2>1, <2>2, <2>4, <3>1, <4>1
    <3>2. CASE i /= L + 1
      <4>1. i \in 1..L /\ i \in DOMAIN yielded
        BY <1>0, <3>2 DEF L
      <4> QED BY <1>0, <2>4, <4>1 DEF YieldedInv, EveryEventOnce
    <3> QED BY <3>1, <3>2
  <2> QED BY <2>3, <2>4, <2>5 DEF YieldedInv, EveryEventOnce
<1>5. CASE Open
  <2>1. yielded' = <<>>
    BY <1>5 DEF Open, SetCursor
  <2> QED BY <1>2, <2>1
<1>6. CASE DrainCheck
  <2>1. yielded' = <<>> \/ UNCHANGED <<captured, first, yielded>>
    BY <1>6 DEF DrainCheck, SetCursor, pru
  <2> QED BY <1>2, <1>3, <2>1
<1>7. CASE \/ WriteTimes \/ Publish \/ Restart \/ DrainStart \/ DrainEnd
           \/ Close \/ Tick \/ UNCHANGED vars
  <2>1. UNCHANGED <<captured, first, yielded>>
    BY <1>7 DEF WriteTimes, Publish, Restart, DrainStart, DrainEnd, Close, Tick, vars, pru, reader
  <2> QED BY <1>3, <2>1
<1> QED BY <1>1, <1>4, <1>5, <1>6, <1>7 DEF Next, Pru, Reader

LEMMA ReaderStep ==
    ASSUME Restarts /= "any"
    PROVE  ReaderInv /\ [Next]_vars => ReaderInv'
BY WriterStep, CursorStep, YieldedStep DEF ReaderInv

LEMMA ReaderInit == Init => ReaderInv
BY WriterInit, CursorInit DEF ReaderInv

\* drain yields every event published since the cursor was set, once and in
\* capture order (pru_shm.py:71), however the writer's steps fall between the
\* reader's, for a ring of any depth, unless the firmware restarts where the
\* check of lines 79-83 is not sure to see it (a run shows what happens then).
THEOREM EventsYieldedOnce ==
    ASSUME Restarts /= "any"
    PROVE  Spec => []EveryEventOnce
<1>1. ReaderInv => EveryEventOnce
  BY DEF ReaderInv, YieldedInv
<1>2. ReaderInv /\ [Next]_vars => ReaderInv'
  BY ReaderStep
<1> QED BY <1>1, <1>2, ReaderInit, PTL DEF Spec

-----------------------------------------------------------------------------
(* The stamps.                                                             *)

\* Events published between the two looks of a drain were captured just now.
FreshInv ==
    rpc = "check" /\ ~restarted =>
       \A n \in (Before + w + 1)..Len(captured) : captured[n].at = now

\* The index up to which the drain in progress, or the last one, reads.
Seen == IF rpc = "read" THEN w ELSE readIdx

\* An event left to a later drain was captured no earlier than any stamp.
PastInv ==
    Polling /\ ~restarted =>
       \A i \in DOMAIN yielded : \A n \in (Before + Seen + 1)..Len(captured) :
          yielded[i].stamp <= captured[n].at

\* The stamp of event n with the epoch of the drain in progress.
StampOf(n) == captured[n].t + epoch

\* While a drain has events left its epoch fits them all: it is no earlier than
\* the start of the firmware, and their stamps lie between those before and the
\* captures after.
EpochInv ==
    rpc = "read" /\ readIdx < w =>
       /\ pruStart <= epoch
       /\ \A n \in (Before + readIdx + 1)..(Before + w) :
             /\ StampOf(n) <= now
             /\ \A m \in (Before + w + 1)..Len(captured) : StampOf(n) <= captured[m].at
             /\ \A i \in DOMAIN yielded : yielded[i].stamp <= StampOf(n)

StampInv == StampsSound /\ FreshInv /\ PastInv /\ EpochInv

LEMMA StampInit == Init => StampInv
<1> SUFFICES ASSUME Init PROVE StampInv
  OBVIOUS
<1>1. rpc = "closed" /\ DOMAIN yielded = {}
  BY DEF Init
<1> QED BY <1>1 DEF StampInv, StampsSound, FreshInv, PastInv, EpochInv, Polling

\* Nothing yielded, nothing owed by a drain in progress.
LEMMA StampReset ==
    ASSUME yielded' = <<>>, rpc' /= "check", ~(rpc' = "read" /\ readIdx' < w')
    PROVE  StampInv'
<1>1. DOMAIN yielded' = {}
  OBVIOUS
<1> QED BY <1>1 DEF StampInv, StampsSound, FreshInv, PastInv, EpochInv

\* A new event is captured now, after all that was stamped.
LEMMA StampHeader ==
    ASSUME ReaderInv, StampInv, WriteHeader
    PROVE  StampInv'
<1> DEFINE L == Len(captured)
<1>0. /\ TypeInv /\ StampInv /\ L \in Nat /\ DOMAIN captured = 1..L
      /\ Before \in Nat /\ now \in Nat /\ w \in Nat /\ readIdx \in Nat
      /\ Before + Claimed = L
      /\ \A i \in DOMAIN yielded : /\ yielded[i].stamp \in Nat
                                   /\ yielded[i].ev \in 1..L
  BY EventFacts, BeforeFacts, SlotFacts, YieldedFacts
  DEF ReaderInv, WriterInv, TypeInv, YieldedInv
<1>1. /\ Before' = Before /\ Len(captured') = L + 1
      /\ Claimed = writeIdx
      /\ \A n \in 1..L : captured'[n] = captured[n]
      /\ captured'[L + 1].at = now
      /\ UNCHANGED <<rpc, readIdx, w, epoch, yielded, now, restarted, pruStart>>
  BY <1>0, HeaderNumbers, HeaderFacts DEF WriteHeader, reader
<1> HIDE DEF L
<1>2. StampsSound'
  BY <1>0, <1>1 DEF StampInv, StampsSound, CapturedAt
<1>3. FreshInv'
  <2> SUFFICES ASSUME rpc = "check", ~restarted, NEW n \in (Before + w + 1)..(L + 1)
               PROVE  captured'[n].at = now
    BY <1>1 DEF FreshInv
  <2>1. CASE n = L + 1
    BY <1>1, <2>1
  <2>2. CASE n /= L + 1
    <3>1. n \in (Before + w + 1)..L /\ n \in 1..L
      BY <1>0, <2>2
    <3> QED BY <1>0, <1>1, <3>1 DEF StampInv, FreshInv, L
  <2> QED BY <2>1, <2>2
<1>4. PastInv'
  <2>0. Seen \in Nat /\ Seen' = Seen
    BY <1>0, <1>1 DEF Seen
  <2> SUFFICES ASSUME Polling, ~restarted, NEW i \in DOMAIN yielded,
                      NEW n \in (Before + Seen + 1)..(L + 1)
               PROVE  yielded[i].stamp <= captured'[n].at
    BY <1>1, <2>0 DEF PastInv, Polling
  <2>1. CASE n = L + 1
    <3>1. yielded[i].stamp <= now
      BY <1>0 DEF StampInv, StampsSound
    <3> QED BY <1>1, <2>1, <3>1
  <2>2. CASE n /= L + 1
    <3>1. n \in (Before + Seen + 1)..L /\ n \in 1..L
      BY <1>0, <2>0, <2>2
    <3> QED BY <1>0, <1>1, <3>1 DEF StampInv, PastInv, L
  <2> QED BY <2>1, <2>2
<1>5. EpochInv'
  <2> SUFFICES ASSUME rpc = "read", readIdx < w
               PROVE  /\ pruStart <= epoch
                      /\ \A n \in (Before + readIdx + 1)..(Before + w) :
                            /\ StampOf(n)' <= now
                            /\ \A m \in (Before + w + 1)..(L + 1) : StampOf(n)' <= captured'[m].at
                            /\ \A i \in DOMAIN yielded : yielded[i].stamp <= StampOf(n)'
    BY <1>1 DEF EpochInv
  <2>1. Before + w <= L
    <3>1. restarted \in BOOLEAN /\ writeIdx \in Nat
      BY <1>0, SlotFacts DEF TypeInv, TypeOK
    <3>2. w \in readIdx..writeIdx
      BY <3>1 DEF ReaderInv, CursorInv, Polling
    <3> QED BY <1>0, <1>1, <3>1, <3>2
  <2>2. ASSUME NEW n \in (Before + readIdx + 1)..(Before + w)
        PROVE  /\ StampOf(n)' <= now
               /\ \A m \in (Before + w + 1)..(L + 1) : StampOf(n)' <= captured'[m].at
               /\ \A i \in DOMAIN yielded : yielded[i].stamp <= StampOf(n)'
    <3>1. n \in 1..L
      BY <1>0, <2>1
    <3>2. StampOf(n)' = StampOf(n)
      BY <1>1, <3>1 DEF StampOf
    <3>3. /\ StampOf(n) <= now
          /\ \A m \in (Before + w + 1)..L : StampOf(n) <= captured[m].at
          /\ \A i \in DOMAIN yielded : yielded[i].stamp <= StampOf(n)
      BY <1>0 DEF StampInv, EpochInv, L
    <3>4. ASSUME NEW m \in (Before + w + 1)..(L + 1)
          PROVE  StampOf(n) <= captured'[m].at
      <4>1. CASE m = L + 1
        BY <1>1, <3>3, <4>1
      <4>2. CASE m /= L + 1
        <5>1. m \in (Before + w + 1)..L /\ m \in 1..L
          BY <1>0, <4>2
        <5> QED BY <1>1, <3>3, <5>1
      <4> QED BY <4>1, <4>2
    <3> QED BY <3>2, <3>3, <3>4
  <2> QED BY <1>0, <2>2 DEF StampInv, EpochInv
<1> QED BY <1>2, <1>3, <1>4, <1>5 DEF StampInv

\* Steps that leave the events, their stamps and the clock alone.
LEMMA StampQuiet ==
    ASSUME Restarts /= "any", ReaderInv, StampInv,
           WriteTimes \/ Publish \/ Restart \/ DrainEnd \/ Close \/ UNCHANGED vars
    PROVE  StampInv'
<1>0. TypeInv /\ StampInv
  BY DEF ReaderInv, WriterInv
<1>1. UNCHANGED <<captured, readIdx, w, epoch, yielded, now>>
  BY DEF WriteTimes, Publish, Restart, DrainEnd, Close, vars, pru, reader
<1>2. StampsSound'
  BY <1>0, <1>1 DEF StampInv, StampsSound, CapturedAt
<1>3. CASE WriteTimes \/ Publish \/ UNCHANGED vars
  <2>1. Claimed' = Claimed
    BY <1>0, <1>3, PublishFacts DEF WriteTimes, Claimed, vars, pru
  <2>2. Before' = Before /\ UNCHANGED <<rpc, restarted, pruStart>>
    BY <1>1, <1>3, <2>1 DEF Before, WriteTimes, Publish, vars, pru, reader
  <2> QED BY <1>0, <1>1, <1>2, <2>2
          DEF StampInv, FreshInv, PastInv, EpochInv, Polling, Seen, StampOf
<1>4. CASE Restart
  <2>1. restarted' = TRUE /\ rpc' = rpc
    BY <1>4 DEF Restart, reader
  <2>2. Restarts = "noticed"
    BY <1>4 DEF Restart
  <2>3. rpc' = "idle"
    BY <1>4, <2>1, <2>2 DEF Restart
  <2>4. FreshInv' /\ EpochInv' /\ PastInv'
    BY <2>1, <2>3 DEF FreshInv, EpochInv, PastInv
  <2> QED BY <1>2, <2>4 DEF StampInv
<1>5. CASE DrainEnd
  <2>1. /\ rpc = "read" /\ readIdx = w /\ rpc' = "idle"
        /\ UNCHANGED <<wpc, writeIdx, restarted>>
    BY <1>5 DEF DrainEnd, pru
  <2>2. Before' = Before /\ Seen' = Seen
    BY <1>1, <2>1 DEF Before, Claimed, Seen
  <2> QED BY <1>0, <1>1, <1>2, <2>1, <2>2 DEF StampInv, FreshInv, PastInv, EpochInv, Polling
<1>6. CASE Close
  <2>1. rpc' = "closed"
    BY <1>6 DEF Close
  <2> QED BY <1>2, <2>1 DEF StampInv, FreshInv, PastInv, EpochInv, Polling
<1> QED BY <1>3, <1>4, <1>5, <1>6

LEMMA StampTick ==
    ASSUME ReaderInv, StampInv, Tick
    PROVE  StampInv'
<1>0. /\ TypeInv /\ StampInv /\ now \in Nat /\ epoch \in Nat
      /\ DOMAIN captured = 1..Len(captured) /\ Len(captured) \in Nat
      /\ \A n \in DOMAIN captured : captured[n].at \in Nat /\ captured[n].t \in Nat
      /\ \A i \in DOMAIN yielded : /\ yielded[i].stamp \in Nat
                                   /\ yielded[i].ev \in DOMAIN captured
  <2>1. TypeInv /\ StampInv /\ TypeOK /\ YieldedInv
    BY DEF ReaderInv, WriterInv, TypeInv
  <2>2. now \in Nat /\ epoch \in Nat
    BY <2>1 DEF TypeOK
  <2>3. /\ DOMAIN captured = 1..Len(captured) /\ Len(captured) \in Nat
        /\ \A n \in 1..Len(captured) : captured[n].at \in Nat /\ captured[n].t \in Nat
    BY <2>1, EventFacts
  <2>4. \A i \in DOMAIN yielded : yielded[i].stamp \in Nat /\ yielded[i].ev \in DOMAIN captured
    BY <2>1, YieldedFacts DEF YieldedInv
  <2> QED BY <2>1, <2>2, <2>3, <2>4
<1>1. /\ rpc /= "check" /\ now' = now + 1
      /\ UNCHANGED <<wpc, writeIdx, captured, rpc, readIdx, w, epoch, yielded, restarted, pruStart>>
  BY DEF Tick, pru, reader
<1>2. Before' = Before /\ Seen' = Seen
  BY <1>1 DEF Before, Claimed, Seen
<1>3. StampsSound'
  <2> SUFFICES ASSUME NEW i \in DOMAIN yielded
               PROVE  /\ yielded[i].stamp \in captured[yielded[i].ev].at..(now + 1)
                      /\ \A j \in 1..(i - 1) : yielded[j].stamp <= yielded[i].stamp
    BY <1>1 DEF StampsSound, CapturedAt
  <2>1. /\ yielded[i].stamp \in captured[yielded[i].ev].at..now
        /\ \A j \in 1..(i - 1) : yielded[j].stamp <= yielded[i].stamp
    BY <1>0 DEF StampInv, StampsSound, CapturedAt
  <2> QED BY <1>0, <2>1
<1>4. FreshInv' /\ PastInv'
  BY <1>0, <1>1, <1>2 DEF StampInv, FreshInv, PastInv, Polling
<1>5. EpochInv'
  <2> SUFFICES ASSUME rpc = "read", readIdx < w
               PROVE  /\ pruStart <= epoch
                      /\ \A n \in (Before + readIdx + 1)..(Before + w) :
                            /\ StampOf(n) <= now + 1
                            /\ \A m \in (Before + w + 1)..Len(captured) : StampOf(n) <= captured[m].at
                            /\ \A i \in DOMAIN yielded : yielded[i].stamp <= StampOf(n)
    BY <1>1, <1>2 DEF EpochInv, StampOf
  <2>1. /\ pruStart <= epoch
        /\ \A n \in (Before + readIdx + 1)..(Before + w) :
              /\ StampOf(n) <= now
              /\ \A m \in (Before + w + 1)..Len(captured) : StampOf(n) <= captured[m].at
              /\ \A i \in DOMAIN yielded : yielded[i].stamp <= StampOf(n)
    BY <1>0 DEF StampInv, EpochInv
  <2>2. ASSUME NEW n \in (Before + readIdx + 1)..(Before + w) PROVE StampOf(n) \in Int
    <3>1. w <= writeIdx /\ writeIdx \in Nat /\ Claimed \in Nat /\ writeIdx <= Claimed
      <4>1. restarted \in BOOLEAN
        BY <1>0 DEF TypeInv, TypeOK
      <4>2. w \in readIdx..writeIdx
        BY <4>1 DEF ReaderInv, CursorInv, Polling
      <4> QED BY <1>0, <4>2, SlotFacts DEF TypeInv
    <3>2. Before \in Nat /\ Before + Claimed = Len(captured) /\ w \in Nat /\ readIdx \in Nat
      BY <1>0, BeforeFacts, SlotFacts DEF TypeInv
    <3>3. n \in 1..Len(captured)
      BY <3>1, <3>2, <1>0
    <3> QED BY <1>0, <3>3 DEF StampOf
  <2> QED BY <1>0, <2>1, <2>2
<1> QED BY <1>3, <1>4, <1>5 DEF StampInv

\* A drain starts: only the event being written can be published before its
\* second look.
LEMMA StampStart ==
    ASSUME ReaderInv, StampInv, DrainStart
    PROVE  StampInv'
<1>0. /\ TypeInv /\ EventInv /\ writeIdx \in Nat /\ Len(captured) \in Nat
      /\ Before \in Nat /\ Before + Claimed = Len(captured)
      /\ wpc = "idle" => Claimed = writeIdx
      /\ wpc /= "idle" => Claimed = writeIdx + 1
  BY BeforeFacts, SlotFacts DEF ReaderInv, WriterInv, TypeInv
<1>1. /\ rpc = "idle" /\ rpc' = "check" /\ w' = writeIdx
      /\ UNCHANGED <<wpc, writeIdx, captured, readIdx, yielded, now, restarted>>
  BY DEF DrainStart, pru
<1>2. Before' = Before /\ Seen' = Seen
  BY <1>1 DEF Before, Claimed, Seen
<1>3. StampsSound'
  BY <1>1 DEF StampInv, StampsSound, CapturedAt
<1>4. FreshInv'
  <2> SUFFICES ASSUME NEW n \in (Before + writeIdx + 1)..Len(captured)
               PROVE  captured[n].at = now
    BY <1>1, <1>2 DEF FreshInv
  <2>1. wpc /= "idle" /\ n = Len(captured)
    BY <1>0
  <2> QED BY <1>0, <2>1 DEF EventInv
<1>5. PastInv'
  BY <1>1, <1>2 DEF StampInv, PastInv, Polling
<1>6. EpochInv'
  BY <1>1 DEF EpochInv
<1> QED BY <1>3, <1>4, <1>5, <1>6 DEF StampInv

LEMMA StampOpen ==
    ASSUME Open
    PROVE  StampInv'
<1>1. yielded' = <<>> /\ rpc' = "idle"
  BY DEF Open, SetCursor
<1> QED BY <1>1, StampReset

\* What a drain with events left takes for the newest event is the newest one
\* published, of this run of the firmware.
LEMMA NewestIsThere ==
    ASSUME ReaderInv, DrainCheck, ~restarted, readIdx < w
    PROVE  LET last == Before + writeIdx IN
           /\ last \in (Before + 1)..Len(captured) /\ Before + w <= last
           /\ captured[last].t > 0
           /\ epoch' = now - captured[last].t
<1> DEFINE last == Before + writeIdx
<1>1. /\ TypeInv /\ EventInv /\ RingHolds /\ rpc = "check"
      /\ readIdx \in Nat /\ writeIdx \in Nat /\ w \in Nat /\ Claimed \in Nat
      /\ writeIdx <= Claimed
      /\ Before \in Nat /\ Len(captured) \in Nat /\ Before + Claimed = Len(captured)
  BY SlotFacts, BeforeFacts DEF DrainCheck, ReaderInv, WriterInv, TypeInv
<1>2. Claimed - readIdx <= MaxLag /\ w \in readIdx..writeIdx
  BY <1>1 DEF ReaderInv, CursorInv, Polling
<1>3. last \in (Before + 1)..Len(captured) /\ Before + w <= last
  BY <1>1, <1>2
<1>4. captured[last].t > 0
  BY <1>1, <1>3 DEF EventInv
<1>5. writeIdx - 1 \in 0..(writeIdx - 1) /\ Claimed <= writeIdx - 1 + Depth
  BY <1>1, <1>2
<1>6. ring[SlotOf(writeIdx - 1)].t = captured[last].t
  <2>1. Holds(writeIdx - 1)
    BY <1>1, <1>5 DEF RingHolds
  <2>2. Before + (writeIdx - 1) + 1 = last
    BY <1>1
  <2> QED BY <2>1, <2>2 DEF Holds
<1> HIDE DEF last
<1>7. LatestPruNs = captured[last].t
  BY <1>1, <1>5, <1>6 DEF LatestPruNs
<1>8. epoch' = Calibrated
  BY <1>1, <1>4, <1>7 DEF DrainCheck
<1> QED BY <1>3, <1>4, <1>7, <1>8 DEF Calibrated, last

\* The second look of a drain sets an epoch that fits the events it will read.
LEMMA StampCheck ==
    ASSUME ReaderInv, StampInv, DrainCheck
    PROVE  StampInv'
<1>0. /\ TypeInv /\ EventInv /\ StampInv /\ rpc = "check" /\ rpc' = "read" /\ restarted' = FALSE
      /\ Before \in Nat /\ Len(captured) \in Nat /\ DOMAIN captured = 1..Len(captured)
      /\ readIdx \in Nat /\ w \in Nat /\ now \in Nat
  BY BeforeFacts, SlotFacts DEF ReaderInv, WriterInv, TypeInv, DrainCheck
<1>1. UNCHANGED <<wpc, writeIdx, pruStart, captured, w, now>>
  BY DEF DrainCheck, pru
<1>2. Before' = Before
  BY <1>1 DEF Before, Claimed
<1>3. CASE restarted
  <2>1. w = 0
    BY <1>0, <1>3 DEF ReaderInv, CursorInv, Polling
  <2>2. readIdx' = 0 /\ yielded' = <<>>
    BY <1>3, RestartIsFound DEF DrainCheck, SetCursor
  <2>3. rpc' /= "check" /\ ~(rpc' = "read" /\ readIdx' < w')
    BY <1>0, <1>1, <2>1, <2>2
  <2> QED BY <2>2, <2>3, StampReset
<1>4. CASE ~restarted
  <2>1. UNCHANGED <<readIdx, yielded>>
    BY <1>4, RestartIsFound DEF DrainCheck
  <2>2. readIdx <= w
    BY <1>0, <1>4 DEF ReaderInv, CursorInv, Polling
  <2>3. StampsSound'
    BY <1>0, <1>1, <2>1 DEF StampInv, StampsSound, CapturedAt
  <2>4. FreshInv'
    BY <1>0 DEF FreshInv
  <2>5. \A i \in DOMAIN yielded : \A n \in (Before + readIdx + 1)..Len(captured) :
           yielded[i].stamp <= captured[n].at
    BY <1>0, <1>4 DEF StampInv, PastInv, Polling, Seen
  <2>6. PastInv'
    <3>1. Seen' = w
      BY <1>0, <1>1 DEF Seen
    <3>2. \A n \in (Before + w + 1)..Len(captured) : n \in (Before + readIdx + 1)..Len(captured)
      BY <1>0, <2>2
    <3> QED BY <1>0, <1>1, <1>2, <2>1, <2>5, <3>1, <3>2 DEF PastInv
  <2>7. EpochInv'
    <3> DEFINE last == Before + writeIdx
               S(n) == captured[n].t + epoch'
    <3> SUFFICES ASSUME readIdx < w
                 PROVE  /\ pruStart <= epoch'
                        /\ \A n \in (Before + readIdx + 1)..(Before + w) :
                              /\ S(n) <= now
                              /\ \A m \in (Before + w + 1)..Len(captured) : S(n) <= captured[m].at
                              /\ \A i \in DOMAIN yielded : yielded[i].stamp <= S(n)
      BY <1>0, <1>1, <1>2, <2>1 DEF EpochInv, StampOf
    <3>1. /\ last \in (Before + 1)..Len(captured) /\ Before + w <= last
          /\ captured[last].t > 0 /\ epoch' = now - captured[last].t
      BY <1>4, NewestIsThere
    <3> HIDE DEF last
    <3>2. /\ captured[last].t \in Nat /\ captured[last].at \in Nat /\ captured[last].at <= now
          /\ captured[last].at = pruStart + captured[last].t
      <4>1. last \in 1..Len(captured)
        BY <1>0, <3>1
      <4> QED BY <1>0, <3>1, <4>1, EventFacts DEF TypeInv, ClockInv, EventInv
    <3>3. pruStart \in Nat
      BY <1>0 DEF TypeInv, TypeOK
    <3>4. pruStart <= epoch'
      BY <1>0, <3>1, <3>2, <3>3
    <3>5. ASSUME NEW n \in (Before + readIdx + 1)..(Before + w)
          PROVE  /\ S(n) <= now /\ captured[n].at <= S(n) /\ captured[n].at \in Nat
                 /\ S(n) \in Int
      <4>1. n \in 1..Len(captured) /\ n \in (Before + 1)..Len(captured) /\ n <= last
        BY <1>0, <3>1
      <4>2. last \in 1..Len(captured) /\ last \in Nat
        BY <1>0, <3>1
      <4>3. captured[n].t \in Nat /\ captured[n].at \in Nat
        BY <1>0, <4>1, EventFacts DEF TypeInv
      <4>4. captured[n].at = pruStart + captured[n].t
        BY <1>0, <4>1 DEF EventInv
      <4>5. captured[n].at <= captured[last].at
        BY <1>0, <4>1, <4>2 DEF EventInv
      <4>6. S(n) = captured[n].t + (now - captured[last].t)
        BY <3>1
      <4> HIDE DEF S
      <4>7. S(n) = captured[n].at + (now - captured[last].at)
        <5>1. now \in Nat /\ pruStart \in Nat /\ captured[n].t \in Nat /\ captured[last].t \in Nat
          BY <1>0, <3>2, <3>3, <4>3
        <5> QED BY <3>2, <4>4, <4>6, <5>1
      <4> QED BY <1>0, <3>2, <4>3, <4>5, <4>7
    <3>6. ASSUME NEW n \in (Before + readIdx + 1)..(Before + w),
                 NEW m \in (Before + w + 1)..Len(captured)
          PROVE  S(n) <= captured[m].at
      <4>1. captured[m].at = now
        BY <1>0, <1>4 DEF StampInv, FreshInv
      <4> QED BY <3>5, <4>1
    <3>7. ASSUME NEW n \in (Before + readIdx + 1)..(Before + w), NEW i \in DOMAIN yielded
          PROVE  yielded[i].stamp <= S(n)
      <4>1. n \in (Before + readIdx + 1)..Len(captured)
        BY <1>0, <3>1
      <4>2. yielded[i].stamp <= captured[n].at
        BY <2>5, <4>1
      <4>3. yielded[i].stamp \in Nat
        BY <1>0, YieldedFacts
      <4>4. captured[n].at <= S(n) /\ captured[n].at \in Nat /\ S(n) \in Int
        BY <3>5
      <4> HIDE DEF S
      <4> QED BY <4>2, <4>3, <4>4
    <3> QED BY <3>4, <3>5, <3>6, <3>7
  <2> QED BY <2>3, <2>4, <2>6, <2>7 DEF StampInv
<1> QED BY <1>3, <1>4

\* An iteration of the loop stamps the event due.
LEMMA StampRead ==
    ASSUME ReaderInv, StampInv, DrainRead
    PROVE  StampInv'
<1> DEFINE n0 == Before + readIdx + 1
           y  == [ev |-> n0, t |-> captured[n0].t, stamp |-> captured[n0].t + epoch]
           k  == Len(yielded)
<1>0. /\ TypeInv /\ EventInv /\ StampInv /\ YieldedInv
      /\ Before \in Nat /\ Len(captured) \in Nat /\ DOMAIN captured = 1..Len(captured)
      /\ readIdx \in Nat /\ w \in Nat /\ now \in Nat
  BY BeforeFacts, SlotFacts DEF ReaderInv, WriterInv, TypeInv
<1>1. /\ n0 \in (Before + 1)..(Before + w) /\ n0 \in 1..Len(captured)
      /\ Before + w <= Len(captured)
      /\ y \in [ev : 1..MaxEvents, t : Nat, stamp : Nat]
      /\ yielded \in Seq([ev : 1..MaxEvents, t : Nat, stamp : Nat])
      /\ yielded' = Append(yielded, y)
      /\ rpc = "read" /\ rpc' = "read" /\ ~restarted /\ readIdx' = readIdx + 1 /\ readIdx < w
  BY DueIsThere
<1>2. UNCHANGED <<wpc, writeIdx, pruStart, captured, w, epoch, now, restarted>>
  BY DEF DrainRead, pru
<1>3. Before' = Before /\ Seen' = w /\ Seen = w
  BY <1>1, <1>2 DEF Before, Claimed, Seen
<1>4. y.ev = n0 /\ y.stamp = StampOf(n0) /\ y.stamp \in Nat
  BY <1>1 DEF StampOf
<1>5. n0 \in (Before + readIdx + 1)..(Before + w) /\ n0 \in Nat
  BY <1>0, <1>1
<1>6. /\ pruStart <= epoch /\ StampOf(n0) <= now
      /\ \A m \in (Before + w + 1)..Len(captured) : StampOf(n0) <= captured[m].at
      /\ \A i \in DOMAIN yielded : yielded[i].stamp <= StampOf(n0)
  BY <1>0, <1>1, <1>5 DEF StampInv, EpochInv
<1>7. captured[n0].at \in Nat /\ captured[n0].t \in Nat /\ pruStart \in Nat /\ epoch \in Nat
  <2>1. captured[n0].at \in Nat /\ captured[n0].t \in Nat
    BY <1>0, <1>1, EventFacts DEF TypeInv
  <2>2. pruStart \in Nat /\ epoch \in Nat
    BY <1>0 DEF TypeInv, TypeOK
  <2> QED BY <2>1, <2>2
<1>8. captured[n0].at <= StampOf(n0)
  <2>1. captured[n0].at = pruStart + captured[n0].t
    <3>1. n0 \in (Before + 1)..Len(captured)
      BY <1>0, <1>1
    <3> QED BY <1>0, <3>1 DEF EventInv
  <2> QED BY <1>6, <1>7, <2>1 DEF StampOf
<1> HIDE DEF n0, y
<1>9. /\ k \in Nat /\ DOMAIN yielded = 1..k /\ DOMAIN yielded' = 1..(k + 1)
      /\ \A i \in 1..k : yielded'[i] = yielded[i]
      /\ yielded'[k + 1] = y
  <2>1. k \in Nat /\ DOMAIN yielded = 1..k
    BY <1>0, YieldedFacts
  <2>2. /\ yielded' \in Seq([ev : 1..MaxEvents, t : Nat, stamp : Nat])
        /\ Len(yielded') = k + 1
        /\ \A i \in 1..k : yielded'[i] = yielded[i]
        /\ yielded'[k + 1] = y
    BY <1>1, AppendFacts
  <2>3. DOMAIN yielded' = 1..(k + 1)
    BY <2>2, LenProperties
  <2> QED BY <2>1, <2>2, <2>3
<1> HIDE DEF k
<1>10. StampsSound'
  <2> SUFFICES ASSUME NEW i \in 1..(k + 1)
               PROVE  /\ yielded'[i].stamp \in captured[yielded'[i].ev].at..now
                      /\ \A j \in 1..(i - 1) : yielded'[j].stamp <= yielded'[i].stamp
    BY <1>2, <1>9 DEF StampsSound, CapturedAt
  <2>1. CASE i = k + 1
    <3>1. yielded'[i] = y
      BY <1>9, <2>1
    <3>2. y.stamp \in captured[y.ev].at..now
      BY <1>0, <1>4, <1>6, <1>7, <1>8
    <3>3. ASSUME NEW j \in 1..(i - 1) PROVE yielded'[j].stamp <= y.stamp
      <4>1. j \in DOMAIN yielded /\ yielded'[j] = yielded[j]
        BY <1>9, <2>1
      <4> QED BY <1>4, <1>6, <4>1
    <3> QED BY <3>1, <3>2, <3>3
  <2>2. CASE i /= k + 1
    <3>1. i \in 1..k /\ yielded'[i] = yielded[i]
      BY <1>9, <2>2
    <3>2. /\ yielded[i].stamp \in captured[yielded[i].ev].at..now
          /\ \A j \in 1..(i - 1) : yielded[j].stamp <= yielded[i].stamp
      BY <1>0, <1>9, <3>1 DEF StampInv, StampsSound, CapturedAt
    <3>3. \A j \in 1..(i - 1) : yielded'[j] = yielded[j]
      BY <1>9, <3>1
    <3> QED BY <3>1, <3>2, <3>3
  <2> QED BY <2>1, <2>2
<1>11. FreshInv'
  BY <1>1 DEF FreshInv
<1>12. PastInv'
  <2> SUFFICES ASSUME NEW i \in 1..(k + 1), NEW m \in (Before + w + 1)..Len(captured)
               PROVE  yielded'[i].stamp <= captured[m].at
    BY <1>2, <1>3, <1>9 DEF PastInv
  <2>1. CASE i = k + 1
    BY <1>4, <1>6, <1>9, <2>1
  <2>2. CASE i /= k + 1
    <3>1. i \in DOMAIN yielded /\ yielded'[i] = yielded[i]
      BY <1>9, <2>2
    <3> QED BY <1>0, <1>1, <1>3, <3>1 DEF StampInv, PastInv, Polling
  <2> QED BY <2>1, <2>2
<1>13. EpochInv'
  <2> SUFFICES ASSUME NEW n \in (Before + readIdx + 2)..(Before + w)
               PROVE  /\ StampOf(n) <= now
                      /\ \A m \in (Before + w + 1)..Len(captured) : StampOf(n) <= captured[m].at
                      /\ \A i \in 1..(k + 1) : yielded'[i].stamp <= StampOf(n)
    <3>1. Before + (readIdx + 1) + 1 = Before + readIdx + 2
      BY <1>0
    <3>2. (Before + readIdx + 1)' = Before + readIdx + 2 /\ (Before + w)' = Before + w
      BY <1>1, <1>2, <1>3, <3>1
    <3>3. \A n \in Nat : StampOf(n)' = StampOf(n)
      BY <1>2 DEF StampOf
    <3>4. \A n \in (Before + readIdx + 2)..(Before + w) : n \in Nat
      BY <1>0
    <3>5. (Before + w + 1)' = Before + w + 1
      BY <1>2, <1>3
    <3> QED BY <1>2, <1>6, <1>9, <3>2, <3>3, <3>4, <3>5 DEF EpochInv
  <2>1. n \in (Before + readIdx + 1)..(Before + w)
    BY <1>0
  <2>2. /\ StampOf(n) <= now
        /\ \A m \in (Before + w + 1)..Len(captured) : StampOf(n) <= captured[m].at
        /\ \A i \in DOMAIN yielded : yielded[i].stamp <= StampOf(n)
    BY <1>0, <1>1, <2>1 DEF StampInv, EpochInv
  <2>3. StampOf(n0) <= StampOf(n)
    <3>1. /\ n \in 1..Len(captured) /\ n \in (Before + 1)..Len(captured)
          /\ n0 \in (Before + 1)..Len(captured) /\ n0 <= n
      BY <1>0, <1>1, <1>5 DEF n0
    <3>2. captured[n].t \in Nat /\ captured[n].at \in Nat
      BY <1>0, <3>1, EventFacts DEF TypeInv
    <3>3. captured[n].at = pruStart + captured[n].t /\ captured[n0].at = pruStart + captured[n0].t
      BY <1>0, <3>1 DEF EventInv
    <3>4. captured[n0].at <= captured[n].at
      BY <1>0, <1>1, <3>1 DEF EventInv
    <3> QED BY <1>7, <3>2, <3>3, <3>4 DEF StampOf
  <2>4. ASSUME NEW i \in 1..(k + 1) PROVE yielded'[i].stamp <= StampOf(n)
    <3>1. CASE i = k + 1
      BY <1>4, <1>9, <2>3, <3>1
    <3>2. CASE i /= k + 1
      <4>1. i \in DOMAIN yielded /\ yielded'[i] = yielded[i]
        BY <1>9, <3>2
      <4> QED BY <2>2, <4>1
    <3> QED BY <3>1, <3>2
  <2> QED BY <2>2, <2>4
<1> QED BY <1>10, <1>11, <1>12, <1>13 DEF StampInv

LEMMA StampStep ==
    ASSUME Restarts /= "any"
    PROVE  ReaderInv /\ StampInv /\ [Next]_vars => StampInv'
BY StampHeader, StampQuiet, StampTick, StampStart, StampOpen, StampCheck, StampRead
DEF Next, Pru, Reader

\* Every stamp drain gives out lies between the capture of its event and the
\* moment, and stamps never go back, although each poll moves the epoch
\* (pru_shm.py:86-91): recalibrating from the newest event never dates one
\* before its capture, nor one of the same poll after the clock.  For a ring of
\* any depth, unless the firmware restarts unnoticed.
THEOREM StampsAreSound ==
    ASSUME Restarts /= "any"
    PROVE  Spec => []StampsSound
<1>1. Init => ReaderInv /\ StampInv
  BY ReaderInit, StampInit
<1>2. ReaderInv /\ StampInv /\ [Next]_vars => ReaderInv' /\ StampInv'
  BY ReaderStep, StampStep
<1>3. StampInv => StampsSound
  BY DEF StampInv
<1> QED BY <1>1, <1>2, <1>3, PTL DEF Spec

-----------------------------------------------------------------------------
(* The capture loop: where the PRU stands.                                 *)

Booting == pc \in {"bootGpio", "bootIntc", "bootShm"}
Capturing == pc \in {"ackGpio", "ackIntc", "write"}

\* Once the GPIO bit is cleared an edge can only be of this very tick, and
\* once the INTC event is cleared after it the two latches agree.
LatchesFresh ==
    /\ pc \in {"bootShm", "wait"} => (intc <=> gpio)
    /\ pc \in {"bootIntc", "bootShm", "drainIntc", "wait"} => (gpio => lastEdge = time)

\* How long ago the latest capture was, by where the PRU stands.
SinceCapture ==
    /\ lastEdge <= LastFall /\ lastCapture <= LastFall
    /\ Booting => time = 0 /\ lastCapture = 0 /\ events = <<>>
    /\ Capturing => time = lastCapture
    /\ Capturing \/ pc = "blind" => iepSnap = lastCapture % IepPeriod
    /\ pc = "blind" => time - lastCapture <= BlindCounts
    /\ pc \in {"drainGpio", "drainIntc"} => time - lastCapture = BlindCounts
    /\ pc = "wait" => /\ time - lastCapture <= MaxIdle
                      /\ time <= LastFall \/ time - lastCapture = BlindCounts
                      /\ events # <<>> => time - lastCapture >= BlindCounts

\* The inductive invariant of the latches and the clock.
LoopInv == CaptureTypeOK /\ LatchesFresh /\ SinceCapture

-----------------------------------------------------------------------------
(* The capture loop.                                                       *)

\* The counter is a number below its period.
LEMMA IepType == CaptureTypeOK => Iep \in 0..(IepPeriod - 1)
BY DivMod DEF CaptureTypeOK, Iep

\* In the blind loop the 32-bit difference is the time since the capture.
LEMMA BlindMeasures ==
    ASSUME LoopInv, pc = "blind"
    PROVE  (Iep - iepSnap) % IepPeriod = time - lastCapture
<1>1. /\ lastCapture \in Nat /\ time \in Nat /\ lastCapture <= time
      /\ time - lastCapture < IepPeriod /\ iepSnap = lastCapture % IepPeriod
  BY DEF LoopInv, CaptureTypeOK, SinceCapture
<1> QED BY <1>1, WrapDifference DEF Iep

\* The firmware starts at time 0 with nothing captured.
LEMMA LoopInit == CaptureInit => LoopInv
BY DEF CaptureInit, LoopInv, CaptureTypeOK, LatchesFresh, SinceCapture, Booting, Capturing, Labels, captureVars, latches, shm, regs, seen

\* A capture comes at the tick of an edge.
LEMMA CaptureAtEdge == LoopInv /\ Capture => lastEdge = time
BY DEF LoopInv, LatchesFresh, Capture

\* Every step keeps the invariant of the loop.
LEMMA LoopStep == LoopInv /\ [CaptureNext]_captureVars => LoopInv'
<1> SUFFICES ASSUME LoopInv, [CaptureNext]_captureVars PROVE LoopInv'
  OBVIOUS
<1> USE DEF LoopInv, CaptureTypeOK, LatchesFresh, SinceCapture, Booting, Capturing, Labels,
            latches, shm, regs, seen
<1>1. ASSUME NEW from, NEW to, ClearGpio(from, to),
             <<from, to>> \in {<<"bootGpio", "bootIntc">>, <<"ackGpio", "ackIntc">>,
                               <<"drainGpio", "drainIntc">>}
      PROVE  LoopInv'
  BY <1>1 DEF ClearGpio
<1>2. ASSUME NEW from, NEW to, ClearIntc(from, to),
             <<from, to>> \in {<<"bootIntc", "bootShm">>, <<"ackIntc", "write">>,
                               <<"drainIntc", "wait">>}
      PROVE  LoopInv'
  BY <1>2 DEF ClearIntc
<1>3. CASE ShmInit
  BY <1>3 DEF ShmInit
<1>4. CASE Capture
  <2>1. Iep \in 0..(IepPeriod - 1) /\ IepRollover(Iep) \in Nat
    BY IepType DEF IepRollover
  <2>2. lastEdge = time
    BY <1>4, CaptureAtEdge
  <2>3. CaptureTypeOK'
    BY <1>4, <2>1 DEF Capture
  <2> QED BY <1>4, <2>2, <2>3 DEF Capture, Iep
<1>5. CASE WriteEvent
  <2>1. events' \in Seq([t : Nat, at : Nat])
    BY <1>5, AppendProperties DEF WriteEvent
  <2> QED BY <1>5, <2>1 DEF WriteEvent
<1>6. CASE BlindOver
  <2>1. time - lastCapture >= BlindCounts
    BY <1>6, BlindMeasures DEF BlindOver, BlindElapsed
  <2> QED BY <1>6, <2>1 DEF BlindOver
<1>7. CASE Edge
  BY <1>7 DEF Edge
<1>8. CASE PollTick
  <2>1. CASE pc = "wait" /\ ~intc
    BY <1>8, <2>1 DEF PollTick
  <2>2. CASE pc = "blind" /\ ~BlindElapsed
    <3>1. time - lastCapture < BlindCounts
      BY <2>2, BlindMeasures DEF BlindElapsed
    <3> QED BY <1>8, <2>2, <3>1 DEF PollTick
  <2> QED BY <1>8, <2>1, <2>2 DEF PollTick, IdlePolling
<1>9. CASE UNCHANGED captureVars
  BY <1>9 DEF captureVars
<1> QED BY <1>1, <1>2, <1>3, <1>4, <1>5, <1>6, <1>7, <1>8, <1>9
        DEF CaptureNext, Firmware, Boot, Ack, Drain

\* The loop's invariant holds in every state.
LEMMA LoopAlways == CaptureSpec => []LoopInv
BY LoopInit, LoopStep, PTL DEF CaptureSpec

\* In every state the variables have their types: in particular time never runs
\* more than a blind period past the last tick at which the line may fall.
THEOREM LoopTypes == CaptureSpec => []CaptureTypeOK
<1>1. LoopInv => CaptureTypeOK
  BY DEF LoopInv
<1> QED BY <1>1, LoopAlways, PTL

\* A PRU that polls is neither deaf to a latched edge nor woken by nothing: the
\* GPIO bit is cleared before the level-triggered INTC event (main.c:234-240).
THEOREM PollIsHonest == CaptureSpec => []PollTellsTheTruth
<1>1. LoopInv => PollTellsTheTruth
  BY DEF LoopInv, LatchesFresh, PollTellsTheTruth
<1> QED BY <1>1, LoopAlways, PTL

\* Every capture is at the tick of an edge: none of the edges of a blind period
\* comes back through a latch, at whatever point of the two clears it falls.
THEOREM CapturesAtEdges == CaptureSpec => SofOnlyAtEdge
<1>1. LoopInv /\ [CaptureNext]_captureVars => [Capture => lastEdge = time]_captureVars
  BY CaptureAtEdge
<1> QED BY <1>1, LoopAlways, PTL DEF CaptureSpec, SofOnlyAtEdge

-----------------------------------------------------------------------------
(* The 64-bit times.                                                       *)

\* The shared memory holds the counter of the latest capture and the whole
\* periods before it.
TimeExtended ==
    /\ ~Booting => /\ prevIep = lastCapture % IepPeriod
                   /\ rolloverNs = lastCapture - prevIep
    /\ Capturing => tFall = lastCapture

\* Events are exact and apart; while one is being captured, those written are
\* a blind period older than it.
EventsExact ==
    \A i \in DOMAIN events :
       /\ events[i].t = events[i].at
       /\ events[i].at <= IF Capturing THEN lastCapture - BlindCounts ELSE lastCapture
       /\ \A j \in 1..(i - 1) : events[i].at - events[j].at >= BlindCounts

\* iep_to_ns extends the counter exactly, unless a whole period has gone by.
LEMMA ExtendsExactly ==
    ASSUME MaxIdle < IepPeriod, LoopInv, TimeExtended, pc = "wait"
    PROVE  IepRollover(Iep) = time - Iep
<1>1. /\ lastCapture \in Nat /\ time \in Nat /\ lastCapture <= time
      /\ time - lastCapture < IepPeriod
      /\ prevIep = lastCapture % IepPeriod /\ rolloverNs = lastCapture - prevIep
  BY DEF LoopInv, CaptureTypeOK, SinceCapture, TimeExtended, Booting
<1>2. prevIep \in Nat /\ Iep \in Nat
  BY IepType DEF LoopInv, CaptureTypeOK
<1>3. IF Iep < prevIep THEN time - Iep = lastCapture - prevIep + IepPeriod
                       ELSE time - Iep = lastCapture - prevIep
  BY <1>1, WrapSeen DEF Iep
<1> QED BY <1>1, <1>2, <1>3 DEF IepRollover

\* Every step keeps the times extended.
LEMMA TimeExtendedStep ==
    ASSUME MaxIdle < IepPeriod, LoopInv, TimeExtended, [CaptureNext]_captureVars
    PROVE  TimeExtended'
<1> USE DEF TimeExtended, Booting, Capturing, latches, shm, regs, seen
<1>1. ASSUME NEW from, NEW to, ClearGpio(from, to) \/ ClearIntc(from, to),
             <<from, to>> \in {<<"bootGpio", "bootIntc">>, <<"bootIntc", "bootShm">>,
                               <<"ackGpio", "ackIntc">>, <<"ackIntc", "write">>,
                               <<"drainGpio", "drainIntc">>, <<"drainIntc", "wait">>}
      PROVE  TimeExtended'
  BY <1>1 DEF ClearGpio, ClearIntc
<1>2. CASE ShmInit
  <2>1. lastCapture' = 0
    BY <1>2 DEF ShmInit, LoopInv, SinceCapture
  <2>2. (IepPeriod * 0 + 0) % IepPeriod = 0
    BY ModUnique
  <2>3. 0 % IepPeriod = 0
    BY <2>2
  <2> QED BY <1>2, <2>1, <2>3 DEF ShmInit
<1>3. CASE Capture
  <2>1. IepRollover(Iep) = time - Iep /\ Iep \in Nat /\ time \in Nat
    BY <1>3, ExtendsExactly, IepType DEF Capture, LoopInv, CaptureTypeOK
  <2>2. tFall' = time /\ rolloverNs' = time - Iep /\ prevIep' = Iep /\ lastCapture' = time
    BY <1>3, <2>1 DEF Capture
  <2> QED BY <1>3, <2>2 DEF Capture, Iep
<1>4. CASE WriteEvent \/ BlindOver \/ Edge \/ PollTick \/ UNCHANGED captureVars
  BY <1>4 DEF WriteEvent, BlindOver, Edge, PollTick, captureVars
<1> QED BY <1>1, <1>2, <1>3, <1>4 DEF CaptureNext, Firmware, Boot, Ack, Drain

\* Every step keeps the events exact and apart.
LEMMA EventsExactStep ==
    ASSUME LoopInv, TimeExtended, EventsExact, [CaptureNext]_captureVars
    PROVE  EventsExact'
<1> USE DEF EventsExact, Booting, Capturing, latches, shm, regs, seen
<1>0. /\ events \in Seq([t : Nat, at : Nat]) /\ lastCapture \in Nat /\ time \in Nat
      /\ DOMAIN events = 1..Len(events) /\ Len(events) \in Nat
      /\ \A i \in 1..Len(events) : events[i] \in [t : Nat, at : Nat]
  <2>1. events \in Seq([t : Nat, at : Nat]) /\ lastCapture \in Nat /\ time \in Nat
    BY DEF LoopInv, CaptureTypeOK
  <2> QED BY <2>1, LenProperties, ElementOfSeq
<1>1. ASSUME NEW from, NEW to, ClearGpio(from, to) \/ ClearIntc(from, to),
             <<from, to>> \in {<<"bootGpio", "bootIntc">>, <<"bootIntc", "bootShm">>,
                               <<"ackGpio", "ackIntc">>, <<"ackIntc", "write">>,
                               <<"drainGpio", "drainIntc">>, <<"drainIntc", "wait">>}
      PROVE  EventsExact'
  BY <1>1 DEF ClearGpio, ClearIntc
<1>2. CASE ShmInit
  BY <1>2 DEF ShmInit
<1>3. CASE Capture
  <2>1. events # <<>> => time - lastCapture >= BlindCounts
    BY <1>3 DEF Capture, LoopInv, SinceCapture
  <2>2. \A i \in DOMAIN events : events # <<>>
    BY <1>0
  <2>3. events' = events /\ lastCapture' = time /\ pc = "wait" /\ pc' = "ackGpio"
    BY <1>3 DEF Capture
  <2> QED BY <1>0, <2>1, <2>2, <2>3
<1>4. CASE WriteEvent
  <2> DEFINE n == Len(events) + 1
  <2>1. /\ DOMAIN events' = 1..n
        /\ \A i \in 1..Len(events) : events'[i] = events[i]
        /\ events'[n] = [t |-> lastCapture, at |-> lastCapture]
    <3>1. tFall = lastCapture /\ tFall \in Nat
      BY <1>4 DEF WriteEvent, LoopInv, CaptureTypeOK, TimeExtended
    <3>2. [t |-> lastCapture, at |-> lastCapture] \in [t : Nat, at : Nat]
      BY <1>0
    <3> QED BY <1>0, <1>4, <3>1, <3>2, AppendFacts DEF WriteEvent
  <2>2. pc = "write" /\ pc' = "blind" /\ lastCapture' = lastCapture
    BY <1>4 DEF WriteEvent
  <2>3. ASSUME NEW i \in 1..n
        PROVE  /\ events'[i].t = events'[i].at
               /\ events'[i].at <= lastCapture
               /\ \A j \in 1..(i - 1) : events'[i].at - events'[j].at >= BlindCounts
    <3>1. ASSUME NEW k \in 1..Len(events)
          PROVE  /\ events[k].t = events[k].at /\ events[k].at \in Nat
                 /\ events[k].at <= lastCapture - BlindCounts
                 /\ \A j \in 1..(k - 1) : events[k].at - events[j].at >= BlindCounts
      <4>1. k \in DOMAIN events /\ events[k] \in [t : Nat, at : Nat]
        BY <1>0
      <4>2. /\ events[k].t = events[k].at /\ events[k].at <= lastCapture - BlindCounts
            /\ \A j \in 1..(k - 1) : events[k].at - events[j].at >= BlindCounts
        BY <2>2, <4>1, Zenon
      <4> HIDE DEF EventsExact
      <4> QED BY <4>1, <4>2
    <3> HIDE DEF EventsExact
    <3>2. CASE i = n
      <4>1. events'[i].t = lastCapture /\ events'[i].at = lastCapture
        BY <2>1, <3>2
      <4>2. ASSUME NEW j \in 1..(i - 1) PROVE events'[i].at - events'[j].at >= BlindCounts
        <5>1. j \in 1..Len(events) /\ events'[j] = events[j]
          BY <1>0, <2>1, <3>2
        <5> QED BY <1>0, <3>1, <4>1, <5>1
      <4> QED BY <1>0, <4>1, <4>2
    <3>3. CASE i /= n
      <4>1. i \in 1..Len(events)
        BY <1>0, <3>3
      <4>2. \A j \in 1..(i - 1) : j \in 1..Len(events)
        BY <1>0, <4>1
      <4>3. events'[i] = events[i] /\ \A j \in 1..(i - 1) : events'[j] = events[j]
        BY <2>1, <4>1, <4>2
      <4>4. /\ events[i].t = events[i].at /\ events[i].at <= lastCapture
            /\ \A j \in 1..(i - 1) : events[i].at - events[j].at >= BlindCounts
        <5>1. /\ events[i].t = events[i].at /\ events[i].at \in Nat
              /\ events[i].at <= lastCapture - BlindCounts
              /\ \A j \in 1..(i - 1) : events[i].at - events[j].at >= BlindCounts
          BY <3>1, <4>1, Zenon
        <5>2. BlindCounts \in Nat /\ lastCapture \in Nat
          BY <1>0
        <5> QED BY <5>1, <5>2
      <4> QED BY <4>3, <4>4
    <3> QED BY <3>2, <3>3
  <2> QED BY <2>1, <2>2, <2>3
<1>5. CASE BlindOver \/ Edge \/ PollTick \/ UNCHANGED captureVars
  BY <1>5 DEF BlindOver, Edge, PollTick, captureVars
<1> QED BY <1>1, <1>2, <1>3, <1>4, <1>5 DEF CaptureNext, Firmware, Boot, Ack, Drain

\* t_fall_ns of every event is the time since the IEP reset, over any number of
\* rollovers of the counter, and events are a blind period apart, provided the
\* line is never idle for a whole counter period.
THEOREM CapturesAreSound ==
    ASSUME MaxIdle < IepPeriod
    PROVE  CaptureSpec => []CapturesSound
<1>1. CaptureInit => TimeExtended /\ EventsExact
  BY DEF CaptureInit, TimeExtended, EventsExact, Booting, Capturing
<1>2. LoopInv /\ TimeExtended /\ EventsExact /\ [CaptureNext]_captureVars => (TimeExtended /\ EventsExact)'
  BY TimeExtendedStep, EventsExactStep
<1>3. EventsExact => CapturesSound
  BY DEF EventsExact, CapturesSound
<1> QED BY <1>1, <1>2, <1>3, LoopAlways, PTL DEF CaptureSpec
=============================================================================
