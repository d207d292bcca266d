------------------------ MODULE IngestPipelineProofs ------------------------
(***************************************************************************)
(* Theorems about module IngestPipeline for every window, blind period,    *)
(* sleep and timeout, every length of the deques and every number of       *)
(* frames and SOFs.  What CorrelatorProofs shows of a correlator used as   *)
(* agreed is carried over to the one the server runs.                      *)
(***************************************************************************)
EXTENDS IngestPipeline, DataLemmas

C == INSTANCE CorrelatorProofs

USE PipelineAssumption DEF PipelineAssumption

-----------------------------------------------------------------------------
(* The correlator and its proofs.                                          *)

LEMMA CorrelatorParameters ==
    C!MaxDeltaAssumption /\ C!QueueLenAssumption /\ C!BoundAssumption
BY DEF C!MaxDeltaAssumption, C!QueueLenAssumption, C!BoundAssumption

\* The correlator of the pipeline is the one the proofs are about.
LEMMA SameInit == Correlation!Init <=> C!Init
BY DEF Correlation!Init, C!Init

LEMMA SameStep == [Correlation!Next]_(Correlation!vars) <=> [C!Next]_(C!vars)
<1> USE DEF C!vars, Correlation!vars, C!queues, C!history, Correlation!queues, Correlation!history
<1>1. Correlation!vars = C!vars /\ (UNCHANGED Correlation!vars <=> UNCHANGED C!vars)
  OBVIOUS
<1>2. Correlation!Next <=> C!Next
  BY DEF C!Next, C!Tick, C!IngestPru, C!IngestFrame, C!TryMatch, C!DrainMatched,
         C!EmitUnmatched, C!DiscardSof, C!Match, C!MatchReturn,
         C!DrainBegin, C!FlushStale, C!DrainReturn, C!LastStamp, C!Enrich, C!NoPruTs,
         C!HeadDelta, C!BothQueued, C!HeadStale, C!PushBounded, C!PushEvicts, C!LastOr,
         Correlation!Next, Correlation!Tick, Correlation!IngestPru, Correlation!IngestFrame,
         Correlation!TryMatch, Correlation!DrainMatched,
         Correlation!EmitUnmatched, Correlation!DiscardSof, Correlation!Match,
         Correlation!MatchReturn, Correlation!DrainBegin, Correlation!FlushStale,
         Correlation!DrainReturn, Correlation!LastStamp, Correlation!Enrich,
         Correlation!NoPruTs, Correlation!HeadDelta, Correlation!BothQueued,
         Correlation!HeadStale, Correlation!PushBounded, Correlation!PushEvicts,
         Correlation!LastOr
<1> QED BY <1>1, <1>2

\* The types of the correlator's variables the pipeline looks at.
LEMMA CorrelatorTypes ==
    ASSUME C!TypeOK
    PROVE  /\ now \in Nat /\ drainNow \in Nat
           /\ frames \in Seq(0..now) /\ DOMAIN frames = 1..Len(frames) /\ Len(frames) \in Nat
           /\ sofs \in Seq(0..now) /\ DOMAIN sofs = 1..Len(sofs) /\ Len(sofs) \in Nat
           /\ Len(out) \in Nat /\ DOMAIN out = 1..Len(out)
           /\ LastOr(frames, 0) \in 0..now /\ LastOr(sofs, 0) \in 0..now
<1>1. /\ now \in Nat /\ drainNow \in 0..now
      /\ frames \in Seq(0..now) /\ sofs \in Seq(0..now) /\ out \in Seq(C!EnrichedFrames)
  BY DEF C!TypeOK
<1>2. /\ DOMAIN frames = 1..Len(frames) /\ Len(frames) \in Nat
      /\ DOMAIN sofs = 1..Len(sofs) /\ Len(sofs) \in Nat
      /\ Len(out) \in Nat /\ DOMAIN out = 1..Len(out)
  BY <1>1, LenProperties
<1>3. ASSUME NEW q \in Seq(0..now) PROVE LastOr(q, 0) \in 0..now
  <2>1. CASE q = <<>>
    BY <1>1, <2>1 DEF LastOr
  <2>2. CASE q /= <<>>
    <3>1. Len(q) \in 1..Len(q)
      BY <2>2, LenProperties, EmptySeq
    <3>2. q[Len(q)] \in 0..now
      BY <3>1, ElementOfSeq
    <3> QED BY <2>2, <3>2 DEF LastOr
  <2> QED BY <2>1, <2>2
<1> QED BY <1>1, <1>2, <1>3

-----------------------------------------------------------------------------
(* What the steps do to the variables of the correlator.                   *)

\* Steps that leave alone all that the invariants below read.
Aside == UNCHANGED <<now, frames, sofs, out, lostFrames, drainNow>>

LEMMA RecvFrameFacts ==
    ASSUME RecvFrame
    PROVE  /\ task = "recv" /\ batch /= <<>> /\ batch' = Tail(batch)
           /\ frames' = Append(frames, Head(batch).ts)
           /\ own' = Append(own, Head(batch).sof)
           /\ lostFrames \subseteq lostFrames'
           /\ UNCHANGED <<now, drainNow, sofs, out, bus, socketQ, task, upTo, offset,
                          nextPoll, published, detector>>
BY DEF RecvFrame, Correlation!IngestFrame

LEMMA PollEventFacts ==
    ASSUME PollEvent
    PROVE  /\ task = "drain" /\ Len(sofs) < upTo
           /\ sofs' = Append(sofs, caps[Len(sofs) + 1] + offset)
           /\ pfd' = Append(pfd, [sof |-> Len(sofs) + 1, wall |-> now])
           /\ UNCHANGED <<now, drainNow, frames, out, lostFrames, bus, socketQ, loop, own,
                          published, released, aborted>>
BY DEF PollEvent, Correlation!IngestPru

LEMMA PollMatchedFacts ==
    ASSUME PollMatched
    PROVE  /\ task = "drain" /\ Len(sofs) = upTo /\ task' = "flush" /\ drainNow' = now
           /\ UNCHANGED <<now, frames, sofs, out, lostFrames, bus, socketQ, batch, upTo, offset,
                          nextPoll, own, published, detector>>
BY DEF PollMatched, Correlation!DrainBegin, Correlation!queues, Correlation!history

LEMMA PollMatchedReturnFacts ==
    ASSUME PollMatchedReturn
    PROVE  /\ task = "flush" /\ task' = "publish" /\ out' = out \o matched
           /\ C!DrainReturn
           /\ UNCHANGED <<now, drainNow, frames, sofs, lostFrames, bus, socketQ, batch, upTo,
                          offset, nextPoll, own, published, detector>>
BY DEF PollMatchedReturn, Correlation!DrainReturn, C!DrainReturn, Correlation!HeadStale, C!HeadStale

LEMMA CorrelatorLoopFacts ==
    ASSUME CorrelatorLoop
    PROVE  Aside /\ UNCHANGED <<bus, socketQ, loop, own, published, detector>>
BY DEF CorrelatorLoop, Aside, Correlation!TryMatch, Correlation!EmitUnmatched,
       Correlation!DiscardSof, Correlation!Match, Correlation!MatchReturn, Correlation!FlushStale,
       Correlation!queues, Correlation!history

LEMMA TickFacts ==
    ASSUME Tick
    PROVE  /\ task = "idle" /\ socketQ = <<>> /\ inFlight = Quiet /\ now < nextPoll
           /\ now' = now + 1
           /\ UNCHANGED <<frames, sofs, out, lostFrames, drainNow, bus, socketQ, loop, own,
                          published, detector>>
BY DEF Tick, Correlation!Tick, Correlation!queues, Correlation!history

\* The remaining steps do not touch the correlator.
LEMMA OtherFacts ==
    ASSUME \/ Bus \/ Recv \/ RecvEnd \/ PollStart \/ PublishFrame \/ PublishEnd
           \/ SweepAbort \/ SweepEnd \/ UNCHANGED vars
    PROVE  Aside /\ UNCHANGED corr
BY DEF Aside, Bus, BusSof, BusFrame, BusAbort, Recv, RecvEnd, PollStart, PublishFrame,
       PublishEnd, SweepAbort, SweepEnd, vars, corr

-----------------------------------------------------------------------------
(* Frames: kernel order.                                                   *)

\* A frame waits on the socket and in a batch for no tick of the clock, and the
\* clock stands still while one is on the bus.
KernelInv ==
    /\ \A i \in DOMAIN batch : batch[i].ts = now
    /\ \A i \in DOMAIN socketQ : socketQ[i].ts = now
    /\ inFlight /= Quiet \/ batch /= <<>> \/ socketQ /= <<>> => now <= Correlation!LastStamp
    /\ batch /= <<>> => task = "recv"

\* The messages a queue of the kernel may hold.
Messages == [ts : 0..now, sof : 0..Len(caps)]

LEMMA QueueTypes ==
    ASSUME TypeOK
    PROVE  /\ batch \in Seq(Messages) /\ socketQ \in Seq(Messages)
           /\ DOMAIN batch = 1..Len(batch) /\ Len(batch) \in Nat
           /\ DOMAIN socketQ = 1..Len(socketQ) /\ Len(socketQ) \in Nat
           /\ caps \in Seq(0..now) /\ DOMAIN caps = 1..Len(caps) /\ Len(caps) \in Nat
<1>1. batch \in Seq(Messages) /\ socketQ \in Seq(Messages) /\ caps \in Seq(0..now)
  BY DEF TypeOK, Messages
<1> QED BY <1>1, LenProperties

LEMMA KernelStep ==
    ASSUME TypeOK, KernelInv, C!TypeOK, [Next]_vars
    PROVE  KernelInv'
<1>0. now \in Nat
  BY CorrelatorTypes
<1>1. CASE BusSof
  <2>1. /\ now <= Correlation!LastStamp
        /\ UNCHANGED <<now, batch, socketQ, task>>
    BY <1>1 DEF BusSof, loop
  <2> QED BY <2>1 DEF KernelInv, Correlation!LastStamp
<1>2. CASE BusFrame
  <2> DEFINE m == [ts |-> now, sof |-> inFlight]
  <2>1. /\ inFlight /= Quiet /\ socketQ' = Append(socketQ, m)
        /\ UNCHANGED <<now, batch, task>>
    BY <1>2 DEF BusFrame, loop
  <2>2. m \in Messages
    BY <1>0, <2>1, QueueTypes DEF Messages, TypeOK, Quiet, NoSof
  <2> HIDE DEF m
  <2>3. /\ DOMAIN socketQ' = 1..(Len(socketQ) + 1)
        /\ \A i \in 1..Len(socketQ) : socketQ'[i] = socketQ[i]
        /\ socketQ'[Len(socketQ) + 1] = m
    BY <2>1, <2>2, QueueTypes, AppendFacts
  <2>4. m.ts = now
    BY DEF m
  <2>5. \A i \in DOMAIN socketQ' : socketQ'[i].ts = now
    BY <2>3, <2>4, QueueTypes DEF KernelInv
  <2> QED BY <2>1, <2>5 DEF KernelInv, Correlation!LastStamp
<1>3. CASE BusAbort
  BY <1>3 DEF BusAbort, loop, KernelInv, Correlation!LastStamp
<1>4. CASE Recv
  BY <1>4 DEF Recv, bus, KernelInv, Correlation!LastStamp
<1>5. CASE RecvFrame
  <2>1. /\ task' = task /\ task = "recv" /\ batch /= <<>> /\ batch' = Tail(batch)
        /\ UNCHANGED <<now, inFlight, socketQ>>
    BY <1>5, RecvFrameFacts DEF bus
  <2>2. \A i \in DOMAIN batch' : i + 1 \in DOMAIN batch /\ batch'[i] = batch[i + 1]
    BY <2>1, QueueTypes, TailFacts
  <2> QED BY <2>1, <2>2 DEF KernelInv, Correlation!LastStamp
<1>6. CASE RecvEnd
  BY <1>6 DEF RecvEnd, bus, KernelInv, Correlation!LastStamp
<1>7. CASE Tick
  <2>1. batch = <<>> /\ socketQ = <<>>
    BY <1>7, TickFacts DEF KernelInv
  <2>2. batch' = <<>> /\ socketQ' = <<>> /\ inFlight' = Quiet
    BY <1>7, <2>1, TickFacts DEF bus, loop
  <2> QED BY <2>2 DEF KernelInv
<1>8. CASE CorrelatorLoop
  BY <1>8, CorrelatorLoopFacts DEF Aside, bus, loop, KernelInv, Correlation!LastStamp
<1>9. CASE IngestLoop \/ UNCHANGED vars
  <2>1. UNCHANGED <<now, batch, socketQ, inFlight>>
    BY <1>9, PollEventFacts, PollMatchedFacts, PollMatchedReturnFacts
    DEF IngestLoop, PollStart, PublishFrame, PublishEnd, SweepAbort, SweepEnd, vars, bus, loop
  <2>2. task = "recv" => task' = task
    BY <1>9, PollEventFacts, PollMatchedFacts, PollMatchedReturnFacts
    DEF IngestLoop, PollStart, PublishFrame, PublishEnd, SweepAbort, SweepEnd, vars, loop
  <2> QED BY <2>1, <2>2 DEF KernelInv, Correlation!LastStamp
<1> QED BY <1>1, <1>2, <1>3, <1>4, <1>5, <1>6, <1>7, <1>8, <1>9 DEF Next, Bus, Readable

-----------------------------------------------------------------------------
(* SOFs: stamps in order although the epoch moves.                         *)

\* What is left in the ring was captured no earlier than the last stamp; while a
\* drain runs the clock stands still, and its offset keeps the stamps of the
\* events it has yet to pass on between the last one and the clock.
EpochInv ==
    /\ \A i, j \in DOMAIN caps : i <= j => caps[i] <= caps[j]
    /\ Len(sofs) <= upTo
    /\ task /= "drain" => upTo = Len(sofs)
    /\ \A n \in (upTo + 1)..Len(caps) : LastOr(sofs, 0) <= caps[n]
    /\ task = "drain" =>
          /\ \A n \in (upTo + 1)..Len(caps) : caps[n] = now
          /\ \A k \in (Len(sofs) + 1)..upTo : caps[k] + offset \in LastOr(sofs, 0)..now

\* The times of the captures.
LEMMA CapFacts ==
    ASSUME TypeOK, C!TypeOK
    PROVE  /\ now \in Nat /\ Len(caps) \in Nat /\ DOMAIN caps = 1..Len(caps)
           /\ \A n \in 1..Len(caps) : caps[n] \in 0..now
           /\ upTo \in 0..Len(caps) /\ offset \in 0..now
<1>1. now \in Nat /\ caps \in Seq(0..now) /\ upTo \in 0..Len(caps) /\ offset \in 0..now
  BY CorrelatorTypes DEF TypeOK
<1> QED BY <1>1, LenProperties, ElementOfSeq

\* drain recalibrates.
LEMMA PollStartEpoch ==
    ASSUME TypeOK, EpochInv, C!TypeOK, PollStart
    PROVE  EpochInv'
<1>0. /\ now \in Nat /\ Len(caps) \in Nat /\ DOMAIN caps = 1..Len(caps)
      /\ \A n \in 1..Len(caps) : caps[n] \in 0..now
      /\ Len(sofs) \in Nat /\ LastOr(sofs, 0) \in 0..now /\ upTo \in 0..Len(caps)
  BY CapFacts, CorrelatorTypes
<1>1. /\ task = "idle" /\ task' = "drain" /\ upTo' = Len(caps) /\ offset' = Offset
      /\ UNCHANGED <<now, sofs, caps>>
  BY DEF PollStart, corr, bus
<1>2. upTo = Len(sofs)
  BY <1>1 DEF EpochInv
<1>3. ASSUME NEW k \in (Len(sofs) + 1)..Len(caps)
      PROVE  caps[k] + offset' \in LastOr(sofs, 0)..now
  <2>1. Len(caps) > Len(sofs) /\ k \in 1..Len(caps) /\ Len(caps) \in 1..Len(caps)
    BY <1>0
  <2>2. Last(caps) = caps[Len(caps)]
    BY DEF Last
  <2>3. offset' = now - caps[Len(caps)]
    BY <1>1, <2>1, <2>2 DEF Offset
  <2>4. caps[k] <= caps[Len(caps)]
    <3>1. k \in DOMAIN caps /\ Len(caps) \in DOMAIN caps /\ k <= Len(caps)
      BY <1>0, <2>1
    <3> QED BY <3>1 DEF EpochInv
  <2>5. LastOr(sofs, 0) <= caps[k]
    BY <1>2, <1>0 DEF EpochInv
  <2>6. caps[k] \in 0..now /\ caps[Len(caps)] \in 0..now
    BY <1>0, <2>1
  <2> QED BY <1>0, <2>3, <2>4, <2>5, <2>6
<1>4. Len(sofs) <= Len(caps)
  BY <1>0, <1>2
<1> QED BY <1>0, <1>1, <1>3, <1>4 DEF EpochInv

\* An event passed on becomes the last stamp.
LEMMA PollEventEpoch ==
    ASSUME TypeOK, EpochInv, C!TypeOK, PollEvent
    PROVE  EpochInv'
<1> DEFINE t == caps[Len(sofs) + 1] + offset
<1>0. /\ now \in Nat /\ Len(caps) \in Nat /\ DOMAIN caps = 1..Len(caps)
      /\ \A n \in 1..Len(caps) : caps[n] \in 0..now
      /\ sofs \in Seq(0..now) /\ Len(sofs) \in Nat /\ LastOr(sofs, 0) \in 0..now
      /\ upTo \in 0..Len(caps) /\ offset \in Nat
  BY CapFacts, CorrelatorTypes
<1>1. /\ task = "drain" /\ task' = "drain" /\ Len(sofs) < upTo /\ sofs' = Append(sofs, t)
      /\ UNCHANGED <<now, caps, upTo, offset>>
  BY PollEventFacts DEF bus, loop
<1>2. Len(sofs) + 1 \in (Len(sofs) + 1)..upTo /\ Len(sofs) + 1 \in 1..Len(caps)
  BY <1>0, <1>1
<1>3. t \in LastOr(sofs, 0)..now /\ t \in 0..now
  <2>1. t \in LastOr(sofs, 0)..now
    BY <1>1, <1>2 DEF EpochInv
  <2> QED BY <1>0, <2>1
<1> HIDE DEF t
<1>4. Len(sofs') = Len(sofs) + 1 /\ sofs'[Len(sofs) + 1] = t /\ sofs' /= <<>>
  <2>1. Len(sofs') = Len(sofs) + 1 /\ sofs'[Len(sofs) + 1] = t
    BY <1>0, <1>1, <1>3, AppendFacts
  <2> QED BY <1>0, <2>1, EmptySeq
<1>5. LastOr(sofs', 0) = t
  BY <1>4 DEF LastOr
<1>6. ASSUME NEW k \in (Len(sofs) + 2)..upTo
      PROVE  caps[k] + offset \in t..now
  <2>1. k \in (Len(sofs) + 1)..upTo /\ k \in 1..Len(caps)
    BY <1>0
  <2>2. caps[k] + offset <= now
    BY <1>0, <1>1, <2>1 DEF EpochInv
  <2>3. caps[Len(sofs) + 1] <= caps[k]
    <3>1. Len(sofs) + 1 \in DOMAIN caps /\ k \in DOMAIN caps /\ Len(sofs) + 1 <= k
      BY <1>0, <1>2, <2>1
    <3> QED BY <3>1 DEF EpochInv
  <2>4. caps[k] \in Nat /\ caps[Len(sofs) + 1] \in Nat
    BY <1>0, <1>2, <2>1
  <2> QED BY <1>0, <1>3, <2>2, <2>3, <2>4 DEF t
<1>7. ASSUME NEW n \in (upTo + 1)..Len(caps) PROVE t <= caps[n] /\ caps[n] = now
  BY <1>0, <1>1, <1>3 DEF EpochInv
<1>8. Len(sofs') <= upTo /\ \A k \in (Len(sofs') + 1)..upTo : k \in (Len(sofs) + 2)..upTo
  BY <1>0, <1>1, <1>4
<1> QED BY <1>1, <1>5, <1>6, <1>7, <1>8 DEF EpochInv

\* A SOF captured now is no earlier than any stamp.
LEMMA BusSofEpoch ==
    ASSUME TypeOK, EpochInv, C!TypeOK, BusSof
    PROVE  EpochInv'
<1>0. /\ now \in Nat /\ Len(caps) \in Nat /\ DOMAIN caps = 1..Len(caps)
      /\ \A n \in 1..Len(caps) : caps[n] \in 0..now
      /\ Len(sofs) \in Nat /\ LastOr(sofs, 0) \in 0..now /\ upTo \in 0..Len(caps)
      /\ caps \in Seq(0..now)
  BY CapFacts, CorrelatorTypes DEF TypeOK
<1>1. UNCHANGED <<now, sofs, task, upTo, offset>>
  BY DEF BusSof, corr, loop
<1>2. CASE caps' = caps
  BY <1>1, <1>2 DEF EpochInv
<1>3. CASE caps' = Append(caps, now)
  <2>1. /\ Len(caps') = Len(caps) + 1 /\ DOMAIN caps' = 1..(Len(caps) + 1)
        /\ \A n \in 1..Len(caps) : caps'[n] = caps[n]
        /\ caps'[Len(caps) + 1] = now
    BY <1>0, <1>3, AppendFacts
  <2>2. ASSUME NEW i \in DOMAIN caps', NEW j \in DOMAIN caps', i <= j
        PROVE  caps'[i] <= caps'[j]
    <3>1. CASE j = Len(caps) + 1
      <4>1. CASE i = j
        BY <1>0, <2>1, <3>1, <4>1
      <4>2. CASE i /= j
        <5>1. i \in 1..Len(caps)
          BY <1>0, <2>1, <2>2, <3>1, <4>2
        <5>2. caps'[i] \in 0..now
          BY <1>0, <2>1, <5>1
        <5> QED BY <1>0, <2>1, <3>1, <5>2
      <4> QED BY <4>1, <4>2
    <3>2. CASE j /= Len(caps) + 1
      <4>1. i \in 1..Len(caps) /\ j \in 1..Len(caps)
        BY <1>0, <2>1, <2>2, <3>2
      <4> QED BY <1>0, <2>1, <2>2, <4>1 DEF EpochInv
    <3> QED BY <3>1, <3>2
  <2>3. ASSUME NEW n \in (upTo + 1)..Len(caps')
        PROVE  /\ LastOr(sofs, 0) <= caps'[n]
               /\ task = "drain" => caps'[n] = now
    <3>1. CASE n = Len(caps) + 1
      BY <1>0, <2>1, <3>1
    <3>2. CASE n /= Len(caps) + 1
      <4>1. n \in (upTo + 1)..Len(caps) /\ n \in 1..Len(caps)
        BY <1>0, <2>1, <3>2
      <4> QED BY <2>1, <4>1 DEF EpochInv
    <3> QED BY <3>1, <3>2
  <2>4. ASSUME task = "drain", NEW k \in (Len(sofs) + 1)..upTo
        PROVE  caps'[k] + offset \in LastOr(sofs, 0)..now
    <3>1. k \in 1..Len(caps)
      BY <1>0
    <3> QED BY <2>1, <2>4, <3>1 DEF EpochInv
  <2> QED BY <1>1, <2>2, <2>3, <2>4 DEF EpochInv
<1> QED BY <1>2, <1>3 DEF BusSof

LEMMA EpochStep ==
    ASSUME TypeOK, EpochInv, C!TypeOK, [Next]_vars
    PROVE  EpochInv'
<1>1. CASE PollMatched
  BY <1>1, PollMatchedFacts DEF EpochInv, bus
<1>2. CASE Tick
  BY <1>2, TickFacts DEF EpochInv, bus, loop
<1>3. CASE BusFrame \/ BusAbort \/ RecvFrame \/ CorrelatorLoop \/ PublishFrame \/ SweepAbort \/ UNCHANGED vars
  <2>1. UNCHANGED <<now, sofs, caps, task, upTo, offset>>
    BY <1>3, RecvFrameFacts, CorrelatorLoopFacts
    DEF BusFrame, BusAbort, PublishFrame, SweepAbort, vars, Aside, corr, bus, loop
  <2> QED BY <2>1 DEF EpochInv
<1>4. CASE Recv \/ RecvEnd \/ PollMatchedReturn \/ PublishEnd \/ SweepEnd
  <2>1. /\ task /= "drain" /\ task' /= "drain"
        /\ UNCHANGED <<sofs, caps, upTo>>
    BY <1>4, PollMatchedReturnFacts DEF Recv, RecvEnd, PublishEnd, SweepEnd, corr, bus
  <2> QED BY <2>1 DEF EpochInv
<1> QED BY <1>1, <1>2, <1>3, <1>4, PollStartEpoch, PollEventEpoch, BusSofEpoch
        DEF Next, Bus, Readable, IngestLoop

-----------------------------------------------------------------------------
(* The contract.                                                           *)

\* A frame of a batch may be ingested.
LEMMA RecvFrameAgrees ==
    ASSUME TypeOK, KernelInv, C!TypeOK, RecvFrame
    PROVE  Correlation!Next
<1>1. /\ Correlation!IngestFrame(Head(batch).ts) /\ batch /= <<>>
  BY DEF RecvFrame
<1>2. Head(batch) = batch[1] /\ 1 \in DOMAIN batch
  BY <1>1, QueueTypes, TailFacts
<1>3. Head(batch).ts = now /\ now <= Correlation!LastStamp
  BY <1>1, <1>2 DEF KernelInv
<1>4. now \in Correlation!LastOr(frames, 0)..now
  <2>1. now \in Nat /\ LastOr(frames, 0) \in 0..now
    BY CorrelatorTypes
  <2>2. Correlation!LastOr(frames, 0) = LastOr(frames, 0)
    BY DEF LastOr, Correlation!LastOr
  <2> QED BY <2>1, <2>2
<1> QED BY <1>1, <1>3, <1>4 DEF Correlation!Next

\* An event of the ring may be passed on.
LEMMA PollEventAgrees ==
    ASSUME TypeOK, EpochInv, C!TypeOK, PollEvent
    PROVE  Correlation!Next
<1> DEFINE t == caps[Len(sofs) + 1] + offset
<1>1. task = "drain" /\ Len(sofs) < upTo /\ Correlation!IngestPru(t)
  BY DEF PollEvent
<1>2. Len(sofs) + 1 \in (Len(sofs) + 1)..upTo
  BY <1>1, CapFacts, CorrelatorTypes
<1>3. t \in LastOr(sofs, 0)..now
  BY <1>1, <1>2 DEF EpochInv
<1>4. Correlation!LastOr(sofs, 0) = LastOr(sofs, 0)
  BY DEF LastOr, Correlation!LastOr
<1> HIDE DEF t
<1> QED BY <1>1, <1>3, <1>4 DEF Correlation!Next

LEMMA ContractStep ==
    ASSUME TypeOK, KernelInv, EpochInv, C!TypeOK, [Next]_vars
    PROVE  [Correlation!Next]_(Correlation!vars)
<1>1. CASE RecvFrame
  BY <1>1, RecvFrameAgrees
<1>2. CASE PollEvent
  BY <1>2, PollEventAgrees
<1>3. CASE CorrelatorLoop
  BY <1>3 DEF CorrelatorLoop, Correlation!Next, Correlation!DrainMatched
<1>4. CASE PollMatched \/ PollMatchedReturn
  BY <1>4 DEF PollMatched, PollMatchedReturn, Correlation!Next, Correlation!DrainMatched
<1>5. CASE Tick
  BY <1>5 DEF Tick, Correlation!Next
<1>6. CASE \/ Bus \/ Recv \/ RecvEnd \/ PollStart \/ PublishFrame \/ PublishEnd
           \/ SweepAbort \/ SweepEnd \/ UNCHANGED vars
  <2>1. UNCHANGED corr /\ UNCHANGED now
    BY <1>6, OtherFacts DEF Aside
  <2> QED BY <2>1 DEF corr, Correlation!vars, Correlation!queues, Correlation!history
<1> QED BY <1>1, <1>2, <1>3, <1>4, <1>5, <1>6 DEF Next, Readable, IngestLoop

-----------------------------------------------------------------------------
(* Type correctness.                                                       *)

Pendings == [sof : DOMAIN sofs, wall : 0..now]

Calls == PollEvent \/ PollMatched \/ PollMatchedReturn \/ CorrelatorLoop \/ RecvFrame

Others ==
    \/ BusFrame \/ BusAbort \/ Recv \/ RecvEnd \/ PollStart \/ PublishFrame \/ PublishEnd
    \/ SweepAbort \/ SweepEnd \/ UNCHANGED vars

LEMMA NextCases == [Next]_vars => BusSof \/ Tick \/ Calls \/ Others
BY DEF Next, Bus, Readable, IngestLoop, Calls, Others

\* The clock and the histories only grow.
LEMMA WorldGrows ==
    ASSUME TypeOK, C!TypeOK, [Next]_vars
    PROVE  /\ now \in Nat /\ now' \in Nat /\ now <= now'
           /\ caps' \in Seq(0..now') /\ DOMAIN caps \subseteq DOMAIN caps'
           /\ Len(caps) \in Nat /\ Len(caps') \in Nat /\ Len(caps) <= Len(caps')
           /\ DOMAIN sofs \subseteq DOMAIN sofs'
           /\ Len(out) \in Nat /\ Len(out') \in Nat /\ Len(out) <= Len(out')
<1>0. /\ now \in Nat /\ caps \in Seq(0..now)
      /\ Len(caps) \in Nat /\ DOMAIN caps = 1..Len(caps)
      /\ sofs \in Seq(0..now) /\ Len(sofs) \in Nat /\ DOMAIN sofs = 1..Len(sofs)
      /\ Len(out) \in Nat
  BY CorrelatorTypes, QueueTypes
<1>1. CASE BusSof
  <2>1. UNCHANGED <<now, sofs, out>> /\ (caps' = caps \/ caps' = Append(caps, now))
    BY <1>1 DEF BusSof, corr
  <2>2. CASE caps' = Append(caps, now)
    <3>1. now \in 0..now
      BY <1>0
    <3>2. /\ caps' \in Seq(0..now) /\ Len(caps') = Len(caps) + 1
          /\ DOMAIN caps' = 1..(Len(caps) + 1)
      BY <1>0, <2>2, <3>1, AppendFacts
    <3> QED BY <1>0, <2>1, <3>2
  <2> QED BY <1>0, <2>1, <2>2
<1>2. CASE Tick
  <2>1. now' = now + 1 /\ UNCHANGED <<caps, sofs, out>>
    BY <1>2, TickFacts DEF bus
  <2>2. caps \in Seq(0..(now + 1))
    <3>1. 0..now \subseteq 0..(now + 1)
      BY <1>0
    <3> QED BY <1>0, <3>1, SeqMonotonic
  <2> QED BY <1>0, <2>1, <2>2
<1>3. CASE PollEvent
  <2>1. /\ UNCHANGED <<now, caps, out>>
        /\ sofs' = Append(sofs, caps[Len(sofs) + 1] + offset)
    BY <1>3, PollEventFacts DEF bus
  <2>2. DOMAIN sofs' = 1..(Len(sofs) + 1)
    BY <1>0, <2>1, AppendProperties, LenProperties
  <2> QED BY <1>0, <2>1, <2>2
<1>4. CASE PollMatchedReturn
  <2>1. UNCHANGED <<now, caps, sofs>> /\ out' = out \o matched
    BY <1>4, PollMatchedReturnFacts DEF bus
  <2>2. out \in Seq(C!EnrichedFrames) /\ matched \in Seq(C!EnrichedFrames)
    BY DEF C!TypeOK
  <2>3. Len(out') = Len(out) + Len(matched) /\ Len(matched) \in Nat
    BY <2>1, <2>2, ConcatProperties, LenProperties
  <2> QED BY <1>0, <2>1, <2>3
<1>5. CASE PollMatched \/ CorrelatorLoop \/ RecvFrame
  <2>1. UNCHANGED <<now, caps, sofs, out>>
    BY <1>5, PollMatchedFacts, CorrelatorLoopFacts, RecvFrameFacts DEF Aside, bus
  <2> QED BY <1>0, <2>1
<1>6. CASE Others
  <2>1. UNCHANGED <<now, caps, sofs, out>>
    BY <1>6, OtherFacts
    DEF Others, Aside, Bus, BusFrame, BusAbort, Recv, RecvEnd, PollStart, PublishFrame,
        PublishEnd, SweepAbort, SweepEnd, vars, bus
  <2> QED BY <1>0, <2>1
<1> QED BY <1>1, <1>2, <1>3, <1>4, <1>5, <1>6, NextCases DEF Calls

\* What was of its type before a step still is.
LEMMA Carried ==
    ASSUME TypeOK, C!TypeOK, [Next]_vars
    PROVE  /\ inFlight \in {Quiet, NoSof} \cup DOMAIN caps'
           /\ Messages \subseteq Messages'
           /\ socketQ \in Seq(Messages') /\ batch \in Seq(Messages')
           /\ upTo \in 0..Len(caps') /\ offset \in 0..now' /\ nextPoll \in Nat
           /\ own \in Seq(0..Len(caps')) /\ published \in 0..Len(out')
           /\ Pendings \subseteq Pendings' /\ pfd \in Seq(Pendings')
<1>1. Messages \subseteq Messages' /\ Pendings \subseteq Pendings'
  BY WorldGrows DEF Messages, Pendings
<1>2. socketQ \in Seq(Messages') /\ batch \in Seq(Messages')
  BY <1>1, QueueTypes, SeqMonotonic
<1>3. pfd \in Seq(Pendings')
  <2>1. pfd \in Seq(Pendings)
    BY DEF TypeOK, Pendings
  <2> QED BY <1>1, <2>1, SeqMonotonic
<1>4. own \in Seq(0..Len(caps'))
  <2>1. 0..Len(caps) \subseteq 0..Len(caps')
    BY WorldGrows
  <2> QED BY <2>1, SeqMonotonic DEF TypeOK
<1>5. /\ inFlight \in {Quiet, NoSof} \cup DOMAIN caps'
      /\ upTo \in 0..Len(caps') /\ offset \in 0..now' /\ nextPoll \in Nat
      /\ published \in 0..Len(out')
  <2>1. /\ inFlight \in {Quiet, NoSof} \cup DOMAIN caps
        /\ upTo \in 0..Len(caps) /\ offset \in 0..now /\ nextPoll \in Nat
        /\ published \in 0..Len(out)
    BY DEF TypeOK
  <2>2. inFlight \in {Quiet, NoSof} \cup DOMAIN caps'
    BY <2>1, WorldGrows
  <2>3. upTo \in 0..Len(caps') /\ offset \in 0..now'
    BY <2>1, WorldGrows
  <2>4. published \in 0..Len(out')
    BY <2>1, WorldGrows
  <2> QED BY <2>1, <2>2, <2>3, <2>4
<1> QED BY <1>1, <1>2, <1>3, <1>4, <1>5

LEMMA TypeBus ==
    ASSUME TypeOK, C!TypeOK, [Next]_vars, Bus
    PROVE  TypeOK'
<1>0. caps' \in Seq(0..now') /\ Len(own) = Len(frames) /\ frames' = frames
  BY WorldGrows, OtherFacts DEF TypeOK, Aside
<1>1. CASE BusSof
  <2>1. UNCHANGED <<now, sofs, out, socketQ, batch, task, upTo, offset, nextPoll, own, published, pfd>>
    BY <1>1 DEF BusSof, corr, loop, detector
  <2>2. inFlight' \in {Quiet, NoSof} \cup DOMAIN caps'
    <3>1. CASE PruArmed
      <4>1. caps' = Append(caps, now) /\ inFlight' = Len(caps) + 1
        BY <1>1, <3>1 DEF BusSof
      <4>2. DOMAIN caps' = 1..(Len(caps) + 1) /\ Len(caps) \in Nat
        BY <4>1, QueueTypes, AppendProperties, LenProperties
      <4> QED BY <4>1, <4>2
    <3>2. CASE ~PruArmed
      BY <1>1, <3>2 DEF BusSof
    <3> QED BY <3>1, <3>2
  <2> QED BY <1>0, <2>1, <2>2, Carried DEF TypeOK, Messages, Pendings
<1>2. CASE BusFrame
  <2> DEFINE m == [ts |-> now, sof |-> inFlight]
  <2>1. /\ socketQ' = Append(socketQ, m) /\ inFlight' = Quiet /\ inFlight /= Quiet
        /\ UNCHANGED <<now, sofs, out, caps, batch, task, upTo, offset, nextPoll, own, published, pfd>>
    BY <1>2 DEF BusFrame, corr, loop, detector
  <2>2. m \in Messages
    BY <2>1, QueueTypes, CorrelatorTypes DEF Messages, TypeOK, Quiet, NoSof
  <2>3. socketQ' \in Seq(Messages')
    <3> HIDE DEF m
    <3> QED BY <2>1, <2>2, Carried, AppendProperties
  <2> QED BY <1>0, <2>1, <2>3, Carried DEF TypeOK, Messages, Pendings
<1>3. CASE BusAbort
  <2>1. /\ inFlight' = Quiet
        /\ UNCHANGED <<now, sofs, out, caps, socketQ, batch, task, upTo, offset, nextPoll, own,
                       published, pfd>>
    BY <1>3 DEF BusAbort, corr, loop, detector
  <2> QED BY <1>0, <2>1, Carried DEF TypeOK, Messages, Pendings
<1> QED BY <1>1, <1>2, <1>3 DEF Bus

LEMMA TypeReadable ==
    ASSUME TypeOK, C!TypeOK, [Next]_vars, Readable
    PROVE  TypeOK'
<1>0. caps' \in Seq(0..now') /\ Len(own) = Len(frames)
  BY WorldGrows DEF TypeOK
<1>1. CASE Recv \/ RecvEnd
  <2>1. /\ UNCHANGED <<now, frames, sofs, out, caps, inFlight, upTo, offset, nextPoll, own,
                       published, pfd>>
        /\ task' \in {"idle", "recv"}
        /\ (batch' = socketQ /\ socketQ' = <<>>) \/ UNCHANGED <<batch, socketQ>>
    BY <1>1 DEF Recv, RecvEnd, corr, bus, detector
  <2>2. batch' \in Seq(Messages') /\ socketQ' \in Seq(Messages')
    BY <2>1, Carried, EmptySeq
  <2> QED BY <1>0, <2>1, <2>2, Carried DEF TypeOK, Messages, Pendings
<1>2. CASE RecvFrame
  <2>1. /\ batch /= <<>> /\ batch' = Tail(batch)
        /\ frames' = Append(frames, Head(batch).ts) /\ own' = Append(own, Head(batch).sof)
        /\ UNCHANGED <<now, sofs, out, caps, inFlight, socketQ, task, upTo, offset, nextPoll,
                       published, pfd>>
    BY <1>2, RecvFrameFacts DEF bus, detector
  <2>2. Head(batch) \in Messages /\ batch' \in Seq(Messages')
    BY <2>1, Carried, QueueTypes, TailFacts
  <2>3. Head(batch).sof \in 0..Len(caps) /\ Head(batch).ts \in 0..now
    BY <2>2 DEF Messages
  <2>4. own' \in Seq(0..Len(caps')) /\ Len(own') = Len(own) + 1
    <3>1. Head(batch).sof \in 0..Len(caps')
      BY <2>1, <2>3
    <3> QED BY <2>1, <3>1, Carried, AppendProperties
  <2>5. Len(frames') = Len(frames) + 1
    BY <2>1, <2>3, CorrelatorTypes, AppendProperties
  <2> QED BY <1>0, <2>1, <2>2, <2>4, <2>5, Carried DEF TypeOK, Messages, Pendings
<1> QED BY <1>1, <1>2 DEF Readable

\* A pass of the ingest loop.
LEMMA TypeLoop ==
    ASSUME TypeOK, C!TypeOK, C!TypeOK', [Next]_vars, IngestLoop
    PROVE  TypeOK'
<1>0. /\ caps' \in Seq(0..now') /\ Len(own) = Len(frames)
      /\ pfd \in Seq(Pendings) /\ now \in Nat
      /\ Len(out) \in Nat /\ published \in 0..Len(out)
  BY WorldGrows DEF TypeOK, Pendings
<1>1. CASE PollStart
  <2>1. /\ task' = "drain" /\ upTo' = Len(caps) /\ offset' = Offset
        /\ UNCHANGED <<now, frames, sofs, out, caps, inFlight, socketQ, batch, nextPoll, own,
                       published, pfd>>
    BY <1>1 DEF PollStart, corr, bus, detector
  <2>2. Offset \in 0..now
    <3>1. CASE Len(caps) > Len(sofs)
      <4>1. Len(caps) \in 1..Len(caps)
        BY <3>1, CorrelatorTypes, QueueTypes
      <4>2. caps[Len(caps)] \in 0..now
        BY <4>1, CapFacts
      <4>3. Offset = now - caps[Len(caps)]
        BY <3>1 DEF Offset, Last
      <4> QED BY <1>0, <4>2, <4>3
    <3>2. CASE ~(Len(caps) > Len(sofs))
      BY <3>2 DEF Offset, TypeOK
    <3> QED BY <3>1, <3>2
  <2>3. upTo' \in 0..Len(caps')
    BY <2>1, QueueTypes
  <2> QED BY <1>0, <2>1, <2>2, <2>3, Carried DEF TypeOK, Messages, Pendings
<1>2. CASE PollEvent
  <2> DEFINE p == [sof |-> Len(sofs) + 1, wall |-> now]
  <2>1. /\ pfd' = Append(pfd, p) /\ sofs' = Append(sofs, caps[Len(sofs) + 1] + offset)
        /\ UNCHANGED <<now, frames, out, caps, inFlight, socketQ, batch, task, upTo, offset,
                       nextPoll, own, published>>
    BY <1>2, PollEventFacts DEF bus, loop
  <2>2. p \in Pendings'
    <3>1. DOMAIN sofs' = 1..(Len(sofs) + 1) /\ Len(sofs) \in Nat
      BY <2>1, CorrelatorTypes, AppendProperties, LenProperties
    <3> QED BY <1>0, <2>1, <3>1 DEF Pendings
  <2>3. pfd' \in Seq(Pendings')
    <3> HIDE DEF p
    <3> QED BY <2>1, <2>2, Carried, AppendProperties
  <2> QED BY <1>0, <2>1, <2>3, Carried DEF TypeOK, Messages, Pendings
<1>3. CASE PollMatched
  <2>1. /\ task' = "flush"
        /\ UNCHANGED <<now, frames, sofs, out, caps, inFlight, socketQ, batch, upTo, offset,
                       nextPoll, own, published, pfd>>
    BY <1>3, PollMatchedFacts DEF bus, detector
  <2> QED BY <1>0, <2>1, Carried DEF TypeOK, Messages, Pendings
<1>4. CASE PollMatchedReturn
  <2>1. /\ task' = "publish"
        /\ UNCHANGED <<now, frames, sofs, caps, inFlight, socketQ, batch, upTo, offset,
                       nextPoll, own, published, pfd>>
    BY <1>4, PollMatchedReturnFacts DEF bus, detector
  <2> QED BY <1>0, <2>1, Carried DEF TypeOK, Messages, Pendings
<1>5. CASE PublishFrame
  <2>1. /\ published < Len(out) /\ published' = published + 1
        /\ pfd' = pfd \/ (pfd /= <<>> /\ pfd' = Tail(pfd))
        /\ UNCHANGED <<now, frames, sofs, out, caps, inFlight, socketQ, batch, task, upTo, offset,
                       nextPoll, own>>
    BY <1>5 DEF PublishFrame, corr, bus, loop
  <2>2. pfd' \in Seq(Pendings')
    <3>1. CASE pfd' = pfd
      BY <3>1, Carried
    <3>2. CASE pfd /= <<>> /\ pfd' = Tail(pfd)
      BY <3>2, Carried, TailFacts
    <3> QED BY <2>1, <3>1, <3>2
  <2>3. published' \in 0..Len(out')
    BY <1>0, <2>1
  <2> QED BY <1>0, <2>1, <2>2, <2>3, Carried DEF TypeOK, Messages, Pendings
<1>6. CASE SweepAbort
  <2>1. /\ pfd /= <<>> /\ pfd' = Tail(pfd)
        /\ UNCHANGED <<now, frames, sofs, out, caps, inFlight, socketQ, batch, task, upTo, offset,
                       nextPoll, own, published>>
    BY <1>6 DEF SweepAbort, HeadExpired, corr, bus, loop
  <2>2. pfd' \in Seq(Pendings')
    BY <2>1, Carried, TailFacts
  <2> QED BY <1>0, <2>1, <2>2, Carried DEF TypeOK, Messages, Pendings
<1>7. CASE PublishEnd \/ SweepEnd
  <2>1. /\ task' \in {"sweep", "idle"}
        /\ nextPoll' = nextPoll \/ nextPoll' = now + Poll
        /\ UNCHANGED <<now, frames, sofs, out, caps, inFlight, socketQ, batch, upTo, offset, own,
                       published, pfd>>
    BY <1>7 DEF PublishEnd, SweepEnd, corr, bus, detector
  <2>2. nextPoll' \in Nat
    BY <1>0, <2>1, Carried
  <2> QED BY <1>0, <2>1, <2>2, Carried DEF TypeOK, Messages, Pendings
<1> QED BY <1>1, <1>2, <1>3, <1>4, <1>5, <1>6, <1>7 DEF IngestLoop

LEMMA TypeStep ==
    ASSUME TypeOK, C!TypeOK, C!TypeOK', [Next]_vars
    PROVE  TypeOK'
<1>0. caps' \in Seq(0..now') /\ Len(own) = Len(frames)
  BY WorldGrows DEF TypeOK
<1>1. CASE CorrelatorLoop \/ Tick \/ UNCHANGED vars
  <2>1. UNCHANGED <<frames, sofs, out, caps, inFlight, socketQ, batch, task, upTo, offset,
                    nextPoll, own, published, pfd>>
    BY <1>1, CorrelatorLoopFacts, TickFacts DEF Aside, vars, corr, bus, loop, detector
  <2> QED BY <1>0, <2>1, Carried DEF TypeOK, Messages, Pendings
<1> QED BY <1>1, TypeBus, TypeReadable, TypeLoop DEF Next

-----------------------------------------------------------------------------
(* The pipeline keeps its part of the contract.                            *)

\* The correlator's own invariant is one conjunct: it holds because the contract
\* is kept, and the contract is kept because the types it gives hold.
PipelineInv ==
    /\ C!CorrelatorInv
    /\ TypeOK /\ KernelInv /\ EpochInv

LEMMA CorrelatorTypeOK == C!CorrelatorInv => C!TypeOK
BY C!CorrelatorSays, CorrelatorParameters

LEMMA PipelineInit == Init => PipelineInv
<1> SUFFICES ASSUME Init PROVE PipelineInv
  OBVIOUS
<1>1. C!Init
  BY SameInit DEF Init
<1>2. C!CorrelatorInv
  BY <1>1, C!CorrelatorInit, CorrelatorParameters
<1>3. /\ now = 0 /\ frames = <<>> /\ sofs = <<>> /\ out = <<>>
      /\ caps = <<>> /\ batch = <<>> /\ socketQ = <<>>
  BY DEF Init, Correlation!Init
<1>4. TypeOK
  <2>1. /\ caps \in Seq(0..now) /\ socketQ \in Seq(Messages) /\ batch \in Seq(Messages)
        /\ own \in Seq(0..Len(caps)) /\ pfd \in Seq(Pendings)
    BY <1>3, EmptySeq DEF Init
  <2>2. /\ Len(own) = Len(frames) /\ Len(caps) = 0 /\ Len(out) = 0
    BY <1>3 DEF Init
  <2>3. nextPoll \in Nat
    BY DEF Init
  <2> QED BY <1>3, <2>1, <2>2, <2>3 DEF Init, TypeOK, Messages, Pendings
<1>5. KernelInv
  BY <1>3 DEF Init, KernelInv
<1>6. EpochInv
  BY <1>3 DEF Init, EpochInv
<1> QED BY <1>2, <1>4, <1>5, <1>6 DEF PipelineInv

LEMMA PipelineStep == PipelineInv /\ [Next]_vars => PipelineInv'
<1> SUFFICES ASSUME PipelineInv, [Next]_vars PROVE PipelineInv'
  OBVIOUS
<1>1. C!TypeOK /\ C!CorrelatorInv /\ TypeOK /\ KernelInv /\ EpochInv
  BY CorrelatorTypeOK DEF PipelineInv
<1>2. [C!Next]_(C!vars)
  BY <1>1, ContractStep, SameStep
<1>3. C!CorrelatorInv'
  BY <1>1, <1>2, C!CorrelatorStep, CorrelatorParameters
<1>4. C!TypeOK'
  BY <1>1, <1>2, C!TypeStep, CorrelatorParameters
<1> QED BY <1>1, <1>3, <1>4, TypeStep, KernelStep, EpochStep DEF PipelineInv

\* The types of the pipeline's variables.
THEOREM PipelineTypes == Spec => []TypeOK
<1>1. PipelineInv => TypeOK
  BY DEF PipelineInv
<1> QED BY <1>1, PipelineInit, PipelineStep, PTL DEF Spec

\* The server uses the correlator as module Correlator assumes: one call at a
\* time, frames in kernel order, and SOF stamps that never go back or ahead of
\* the clock although every poll of _ingest_loop moves the epoch.
THEOREM ContractIsKept == Spec => CorrelatorContract
<1>1. Init => Correlation!Init
  BY DEF Init
<1>2. PipelineInv /\ [Next]_vars => [Correlation!Next]_(Correlation!vars)
  BY ContractStep, CorrelatorTypeOK DEF PipelineInv
<1> QED BY <1>1, <1>2, PipelineInit, PipelineStep, PTL DEF Spec, CorrelatorContract

\* Therefore what is proved of the correlator alone holds in the server: no
\* frame read from the socket is lost but by a full deque, repeated or
\* overtaken, and no two frames get the same SOF or cross.
THEOREM PipelineConserves ==
    Spec => [](Correlation!FramesConserved /\ Correlation!PairsDoNotCross)
<1>1. C!CorrelatorInv => C!FramesConserved /\ C!PairsDoNotCross
  BY C!CorrelatorSays, CorrelatorParameters
<1>2. C!PairsDoNotCross => Correlation!PairsDoNotCross
  BY DEF C!PairsDoNotCross, Correlation!PairsDoNotCross, C!Emitted, Correlation!Emitted,
         C!NoPruTs, Correlation!NoPruTs
<1>3. C!FramesConserved => Correlation!FramesConserved
  BY DEF C!FramesConserved, Correlation!FramesConserved, C!FramesInOrder,
         Correlation!FramesInOrder, C!LeavingOrder, Correlation!LeavingOrder,
         C!Emitted, Correlation!Emitted, C!Increasing, Correlation!Increasing,
         C!ToSet, Correlation!ToSet
<1>4. PipelineInv => Correlation!FramesConserved /\ Correlation!PairsDoNotCross
  BY <1>1, <1>2, <1>3 DEF PipelineInv
<1> QED BY <1>4, PipelineInit, PipelineStep, PTL DEF Spec

\* Nor does a frame leave without a SOF that was stamped within its window: the
\* captured frames that go out without theirs, which a run shows, are those
\* whose SOF the poll stamped out of the window.
THEOREM StampedPairsAreNotMissed == Spec => Correlation!NoPairMissed
<1> DEFINE Said == [\A e \in C!ToSet(C!Emitted') \ C!ToSet(C!Emitted) :
                      e.sof = C!NoPruTs => \A s \in C!UnusedSofs : ~C!InWindow(s, e.frame)]_(C!vars)
           Asked == [\A e \in Correlation!ToSet(Correlation!Emitted') \ Correlation!ToSet(Correlation!Emitted) :
                       e.sof = Correlation!NoPruTs =>
                          \A s \in Correlation!UnusedSofs : ~Correlation!InWindow(s, e.frame)]_(Correlation!vars)
<1>1. ASSUME PipelineInv, [Next]_vars PROVE Said
  <2>1. [C!Next]_(C!vars) /\ C!PairingInv
    BY <1>1, ContractStep, SameStep, CorrelatorTypeOK DEF PipelineInv, C!CorrelatorInv
  <2> QED BY <2>1, C!EmittedFitsNone, CorrelatorParameters
<1>2. Said => Asked
  BY DEF C!Emitted, C!NoPruTs, C!UnusedSofs, C!InWindow, C!ToSet, C!vars, C!queues, C!history,
         Correlation!Emitted, Correlation!NoPruTs, Correlation!UnusedSofs, Correlation!InWindow,
         Correlation!ToSet, Correlation!vars, Correlation!queues, Correlation!history
<1>3. PipelineInv /\ [Next]_vars => Asked
  BY <1>1, <1>2
<1> QED BY <1>3, PipelineInit, PipelineStep, PTL DEF Spec, Correlation!NoPairMissed

-----------------------------------------------------------------------------
(* The abort detector.                                                     *)

SofsOf(q) == [i \in DOMAIN q |-> q[i].sof]

Waiting == SofsOf(pfd)

\* The SOFs that have left the detector.
Left == ToSet(released) \cup ToSet(aborted)

\* Released and reported SOFs are in order, apart, and before those pending,
\* and the three are all SOFs so far: a new one comes after them.
DetectorInv ==
    /\ released \in Seq(Nat) /\ aborted \in Seq(Nat)
    /\ Increasing(released) /\ Increasing(aborted) /\ Increasing(Waiting)
    /\ \A s \in Left : \A x \in ToSet(Waiting) : s < x
    /\ ToSet(released) \cap ToSet(aborted) = {}
    /\ Left \cup ToSet(Waiting) = DOMAIN sofs

\* The SOFs of pending entries, by position and as the deque moves.
LEMMA SofsOfFacts ==
    ASSUME NEW S, NEW R, \A e \in R : e.sof \in S, NEW q \in Seq(R)
    PROVE  /\ SofsOf(q) \in Seq(S) /\ Len(SofsOf(q)) = Len(q) /\ Len(q) \in Nat
           /\ \A i \in 1..Len(q) : SofsOf(q)[i] = q[i].sof
<1>1. Len(q) \in Nat /\ DOMAIN q = 1..Len(q) /\ \A i \in 1..Len(q) : q[i] \in R
  BY LenProperties, ElementOfSeq
<1>2. SofsOf(q) \in [1..Len(q) -> S]
  BY <1>1 DEF SofsOf
<1>3. SofsOf(q) \in Seq(S) /\ Len(SofsOf(q)) = Len(q)
  BY <1>1, <1>2, FunctionIsSeq
<1> QED BY <1>1, <1>3 DEF SofsOf

LEMMA SofsOfAppend ==
    ASSUME NEW S, NEW R, \A e \in R : e.sof \in S, NEW q \in Seq(R), NEW x \in R
    PROVE  SofsOf(Append(q, x)) = Append(SofsOf(q), x.sof)
<1> DEFINE p == Append(q, x)
           l == SofsOf(p)
           r == Append(SofsOf(q), x.sof)
<1>1. /\ p \in Seq(R) /\ Len(p) = Len(q) + 1 /\ Len(q) \in Nat
      /\ \A i \in 1..Len(q) : p[i] = q[i]
      /\ p[Len(q) + 1] = x
  BY AppendFacts
<1>2. /\ SofsOf(q) \in Seq(S) /\ Len(SofsOf(q)) = Len(q)
      /\ \A i \in 1..Len(q) : SofsOf(q)[i] = q[i].sof
  BY SofsOfFacts
<1> HIDE DEF p
<1>3. /\ l \in Seq(S) /\ Len(l) = Len(q) + 1
      /\ \A i \in 1..(Len(q) + 1) : l[i] = p[i].sof
  <2>1. p \in Seq(R)
    BY <1>1
  <2>2. /\ SofsOf(p) \in Seq(S) /\ Len(SofsOf(p)) = Len(p)
        /\ \A i \in 1..Len(p) : SofsOf(p)[i] = p[i].sof
    BY <2>1, SofsOfFacts
  <2> QED BY <1>1, <2>2
<1>4. x.sof \in S
  OBVIOUS
<1>5. /\ r \in Seq(S) /\ Len(r) = Len(q) + 1
      /\ \A i \in 1..Len(q) : r[i] = SofsOf(q)[i]
      /\ r[Len(q) + 1] = x.sof
  BY <1>2, <1>4, AppendFacts
<1> HIDE DEF l, r
<1>6. ASSUME NEW i \in 1..(Len(q) + 1) PROVE l[i] = r[i]
  <2>1. CASE i = Len(q) + 1
    BY <1>1, <1>3, <1>5, <2>1
  <2>2. CASE i /= Len(q) + 1
    <3>1. i \in 1..Len(q)
      BY <1>1, <2>2
    <3> QED BY <1>1, <1>2, <1>3, <1>5, <3>1
  <2> QED BY <2>1, <2>2
<1>7. l = r
  BY <1>3, <1>5, <1>6, SeqEqual
<1> QED BY <1>7 DEF l, r, p

LEMMA SofsOfTail ==
    ASSUME NEW S, NEW R, \A e \in R : e.sof \in S, NEW q \in Seq(R), q /= <<>>
    PROVE  /\ SofsOf(Tail(q)) = Tail(SofsOf(q))
           /\ SofsOf(q) /= <<>> /\ Head(SofsOf(q)) = Head(q).sof
<1> DEFINE p == Tail(q)
           w1 == SofsOf(q)
           l == SofsOf(p)
           r == Tail(w1)
<1>1. /\ p \in Seq(R) /\ Len(p) = Len(q) - 1 /\ Len(q) \in Nat \ {0} /\ Head(q) = q[1]
      /\ \A i \in 1..(Len(q) - 1) : p[i] = q[i + 1]
  BY TailFacts
<1>2. /\ w1 \in Seq(S) /\ Len(w1) = Len(q)
      /\ \A i \in 1..Len(q) : w1[i] = q[i].sof
  BY SofsOfFacts
<1>3. w1 /= <<>>
  BY <1>1, <1>2, EmptySeq
<1> HIDE DEF p
<1>4. /\ l \in Seq(S) /\ Len(l) = Len(q) - 1
      /\ \A i \in 1..(Len(q) - 1) : l[i] = p[i].sof
  BY <1>1, SofsOfFacts
<1> HIDE DEF w1
<1>5. /\ r \in Seq(S) /\ Len(r) = Len(q) - 1 /\ Head(w1) = w1[1]
      /\ \A i \in 1..(Len(q) - 1) : r[i] = w1[i + 1]
  BY <1>2, <1>3, TailFacts
<1> HIDE DEF l, r
<1>6. ASSUME NEW i \in 1..(Len(q) - 1) PROVE l[i] = r[i]
  <2>1. i + 1 \in 1..Len(q)
    BY <1>1
  <2> QED BY <1>1, <1>2, <1>4, <1>5, <2>1
<1>7. l = r
  BY <1>4, <1>5, <1>6, SeqEqual
<1>8. 1 \in 1..Len(q)
  BY <1>1
<1>9. Head(w1) = Head(q).sof
  BY <1>1, <1>2, <1>5, <1>8
<1> QED BY <1>3, <1>7, <1>9 DEF l, r, p, w1

LEMMA WaitingFacts ==
    ASSUME TypeOK, C!TypeOK
    PROVE  /\ \A e \in Pendings : e.sof \in Nat
           /\ pfd \in Seq(Pendings) /\ Waiting \in Seq(Nat)
           /\ sofs \in Seq(0..now) /\ DOMAIN sofs = 1..Len(sofs) /\ Len(sofs) \in Nat
           /\ now \in Nat
<1>1. /\ sofs \in Seq(0..now) /\ DOMAIN sofs = 1..Len(sofs) /\ Len(sofs) \in Nat /\ now \in Nat
  BY CorrelatorTypes
<1>2. \A e \in Pendings : e.sof \in Nat
  BY <1>1 DEF Pendings
<1>3. pfd \in Seq(Pendings)
  BY DEF TypeOK, Pendings
<1> QED BY <1>1, <1>2, <1>3, SofsOfFacts DEF Waiting

\* The oldest pending SOF leaves, in one way or the other.
LEMMA LeaveKeepsDetector ==
    ASSUME TypeOK, C!TypeOK, DetectorInv, pfd /= <<>>, pfd' = Tail(pfd), sofs' = sofs,
           \/ released' = Append(released, Head(pfd).sof) /\ aborted' = aborted
           \/ aborted' = Append(aborted, Head(pfd).sof) /\ released' = released
    PROVE  DetectorInv'
<1> DEFINE h == Head(pfd).sof
<1>1. /\ Waiting \in Seq(Nat) /\ Waiting /= <<>> /\ h = Head(Waiting) /\ Waiting' = Tail(Waiting)
  BY WaitingFacts, SofsOfTail DEF Waiting
<1> HIDE DEF h
<1>2. /\ h \in Nat /\ Waiting' \in Seq(Nat) /\ Increasing(Waiting')
      /\ \A i \in DOMAIN Waiting' : h < Waiting'[i]
      /\ ToSet(Waiting) = {h} \cup ToSet(Waiting')
  BY <1>1, TailIncreasing, TailFacts, TailElements DEF DetectorInv
<1>3. \A x \in ToSet(Waiting') : h < x
  BY <1>2 DEF ToSet
<1>4. \A s \in Left : s < h
  BY <1>2 DEF DetectorInv
<1>5. h \notin Left
  <2>1. ~(h < h)
    BY <1>2
  <2> QED BY <1>4, <2>1
<1>6. CASE released' = Append(released, h) /\ aborted' = aborted
  <2>1. \A e \in ToSet(released) : e < h
    BY <1>4 DEF Left
  <2>2. /\ released' \in Seq(Nat) /\ Increasing(released')
        /\ ToSet(released') = ToSet(released) \cup {h}
    BY <1>2, <1>6, <2>1, AppendIncreasing DEF DetectorInv
  <2>3. Left' = Left \cup {h}
    BY <1>6, <2>2 DEF Left
  <2>4. ToSet(released') \cap ToSet(aborted') = {}
    BY <1>5, <1>6, <2>2 DEF DetectorInv, Left
  <2> QED BY <1>2, <1>3, <1>6, <2>2, <2>3, <2>4 DEF DetectorInv
<1>7. CASE aborted' = Append(aborted, h) /\ released' = released
  <2>1. \A e \in ToSet(aborted) : e < h
    BY <1>4 DEF Left
  <2>2. /\ aborted' \in Seq(Nat) /\ Increasing(aborted')
        /\ ToSet(aborted') = ToSet(aborted) \cup {h}
    BY <1>2, <1>7, <2>1, AppendIncreasing DEF DetectorInv
  <2>3. Left' = Left \cup {h}
    BY <1>7, <2>2 DEF Left
  <2>4. ToSet(released') \cap ToSet(aborted') = {}
    BY <1>5, <1>7, <2>2 DEF DetectorInv, Left
  <2> QED BY <1>2, <1>3, <1>7, <2>2, <2>3, <2>4 DEF DetectorInv
<1> QED BY <1>6, <1>7 DEF h

\* A new SOF is later than all the others.
LEMMA EventKeepsDetector ==
    ASSUME TypeOK, C!TypeOK, C!TypeOK', DetectorInv, PollEvent, [Next]_vars
    PROVE  DetectorInv'
<1> DEFINE x == Len(sofs) + 1
           p == [sof |-> x, wall |-> now]
<1>1. /\ sofs' = Append(sofs, caps[x] + offset) /\ pfd' = Append(pfd, p)
      /\ UNCHANGED <<released, aborted, now>>
  BY PollEventFacts
<1>2. /\ sofs \in Seq(0..now) /\ Len(sofs) \in Nat /\ DOMAIN sofs = 1..Len(sofs) /\ now \in Nat
      /\ pfd \in Seq(Pendings') /\ Waiting \in Seq(Nat)
  BY WaitingFacts, Carried
<1>3. x \in Nat /\ DOMAIN sofs' = 1..x
  BY <1>1, <1>2, AppendProperties, LenProperties
<1>4. p \in Pendings' /\ p.sof = x
  BY <1>1, <1>2, <1>3 DEF Pendings
<1>5. \A e \in Pendings' : e.sof \in Nat
  BY <1>3 DEF Pendings
<1> HIDE DEF x, p
<1>6. Waiting' = Append(Waiting, x)
  <2>1. pfd \in Seq(Pendings') /\ p \in Pendings'
    BY <1>2, <1>4
  <2>2. SofsOf(Append(pfd, p)) = Append(SofsOf(pfd), p.sof)
    BY <1>5, <2>1, SofsOfAppend
  <2>3. SofsOf(pfd') = Append(SofsOf(pfd), x)
    BY <1>1, <1>4, <2>2
  <2> QED BY <2>3 DEF Waiting
<1>7. \A s \in Left \cup ToSet(Waiting) : s < x
  BY <1>2 DEF DetectorInv, x
<1>8. /\ Increasing(Waiting') /\ ToSet(Waiting') = ToSet(Waiting) \cup {x}
  BY <1>2, <1>3, <1>6, <1>7, AppendIncreasing DEF DetectorInv
<1>9. Left' = Left
  BY <1>1 DEF Left
<1>10. \A s \in Left : \A y \in ToSet(Waiting') : s < y
  BY <1>7, <1>8 DEF DetectorInv
<1>11. Left \cup ToSet(Waiting') = DOMAIN sofs'
  <2>1. DOMAIN sofs' = DOMAIN sofs \cup {x}
    BY <1>2, <1>3 DEF x
  <2> QED BY <1>8, <2>1 DEF DetectorInv
<1> QED BY <1>1, <1>8, <1>9, <1>10, <1>11 DEF DetectorInv

LEMMA DetectorStep ==
    ASSUME PipelineInv, PipelineInv', DetectorInv, [Next]_vars
    PROVE  DetectorInv'
<1>0. TypeOK /\ C!TypeOK /\ C!TypeOK'
  <2>1. C!CorrelatorInv' => C!TypeOK'
    BY CorrelatorTypeOK, PTL
  <2> QED BY <2>1, CorrelatorTypeOK DEF PipelineInv
<1>1. CASE PollEvent
  BY <1>0, <1>1, EventKeepsDetector
<1>2. CASE PublishFrame
  <2>1. CASE MarksMatched(out[published + 1]) /\ pfd /= <<>>
    BY <1>0, <1>2, <2>1, LeaveKeepsDetector DEF PublishFrame, corr
  <2>2. CASE ~(MarksMatched(out[published + 1]) /\ pfd /= <<>>)
    BY <1>2, <2>2 DEF PublishFrame, corr, DetectorInv, Waiting, Left
  <2> QED BY <2>1, <2>2
<1>3. CASE SweepAbort
  BY <1>0, <1>3, LeaveKeepsDetector DEF SweepAbort, HeadExpired, corr
<1>4. CASE \/ Bus \/ Readable \/ CorrelatorLoop \/ Tick \/ PollStart \/ PollMatched
           \/ PollMatchedReturn \/ PublishEnd \/ SweepEnd \/ UNCHANGED vars
  <2>1. UNCHANGED <<sofs, pfd, released, aborted>>
    BY <1>4, RecvFrameFacts, CorrelatorLoopFacts, TickFacts, PollMatchedFacts, PollMatchedReturnFacts
    DEF Bus, BusSof, BusFrame, BusAbort, Readable, Recv, RecvEnd, PollStart, PublishEnd, SweepEnd,
        vars, Aside, corr, detector
  <2> QED BY <2>1 DEF DetectorInv, Waiting, Left
<1> QED BY <1>1, <1>2, <1>3, <1>4 DEF Next, IngestLoop

LEMMA DetectorInit == Init => DetectorInv
<1> SUFFICES ASSUME Init PROVE DetectorInv
  OBVIOUS
<1>1. pfd = <<>> /\ released = <<>> /\ aborted = <<>> /\ sofs = <<>>
  BY DEF Init, Correlation!Init
<1>2. Waiting = <<>>
  <2>1. [i \in {} |-> <<>>[i].sof] = <<>>
    OBVIOUS
  <2> QED BY <1>1, <2>1 DEF Waiting, SofsOf
<1>3. <<>> \in Seq(Nat) /\ Increasing(<<>>) /\ ToSet(<<>>) = {}
  BY DEF Increasing, ToSet
<1> QED BY <1>1, <1>2, <1>3 DEF DetectorInv, Left

\* For every timeout and sleep, every SOF handed to the abort detector is still
\* pending, released or reported, once and oldest first
\* (partial_frame_detector.py:37-62 under the calls of server.py:171-186).
THEOREM SofsAccountedFor == Spec => []DetectorAccounts
<1>1. PipelineInv /\ DetectorInv => DetectorAccounts
  <2> SUFFICES ASSUME PipelineInv, DetectorInv PROVE DetectorAccounts
    OBVIOUS
  <2>1. Waiting \in Seq(Nat)
    BY WaitingFacts, CorrelatorTypeOK DEF PipelineInv
  <2>2. Increasing(released \o Waiting) /\ Increasing(aborted \o Waiting)
    <3>1. /\ \A x \in ToSet(released) : \A y \in ToSet(Waiting) : x < y
          /\ \A x \in ToSet(aborted) : \A y \in ToSet(Waiting) : x < y
      BY DEF DetectorInv, Left
    <3> QED BY <2>1, <3>1, ConcatIncreasing DEF DetectorInv
  <2>3. Waiting = [i \in DOMAIN pfd |-> pfd[i].sof]
    BY DEF Waiting, SofsOf
  <2> QED BY <2>2, <2>3 DEF DetectorAccounts, DetectorInv, Left
<1>2. PipelineInv /\ DetectorInv /\ [Next]_vars => PipelineInv' /\ DetectorInv'
  BY PipelineStep, DetectorStep
<1> QED BY <1>1, <1>2, PipelineInit, DetectorInit, PTL DEF Spec

-----------------------------------------------------------------------------
(* The sleep of _ingest_loop.                                              *)

\* The loop never oversleeps, the detector holds its SOFs in the order they
\* were handed over, and when the loop goes to sleep the oldest has not expired.
SleepInv ==
    /\ now <= nextPoll /\ nextPoll <= now + Poll
    /\ \A i, j \in DOMAIN pfd : i <= j => pfd[i].wall <= pfd[j].wall
    /\ task \in {"idle", "recv"} =>
          \A i \in DOMAIN pfd : nextPoll - pfd[i].wall <= Timeout + Poll

\* The pending entries, by position.
LEMMA PendingFacts ==
    ASSUME TypeOK, C!TypeOK
    PROVE  /\ now \in Nat /\ nextPoll \in Nat
           /\ pfd \in Seq(Pendings) /\ DOMAIN pfd = 1..Len(pfd) /\ Len(pfd) \in Nat
           /\ \A i \in 1..Len(pfd) : pfd[i].wall \in 0..now
<1>1. now \in Nat /\ nextPoll \in Nat /\ pfd \in Seq(Pendings)
  BY WaitingFacts DEF TypeOK
<1>2. DOMAIN pfd = 1..Len(pfd) /\ Len(pfd) \in Nat
  BY <1>1, LenProperties
<1>3. \A i \in 1..Len(pfd) : pfd[i] \in Pendings
  BY <1>1, ElementOfSeq
<1> QED BY <1>1, <1>2, <1>3 DEF Pendings

\* The oldest entry leaves.
LEMMA LeaveKeepsOrder ==
    ASSUME TypeOK, C!TypeOK, SleepInv, pfd /= <<>>, pfd' = Tail(pfd)
    PROVE  \A i, j \in DOMAIN pfd' : i <= j => pfd'[i].wall <= pfd'[j].wall
<1> SUFFICES ASSUME NEW i \in DOMAIN pfd', NEW j \in DOMAIN pfd', i <= j
             PROVE  pfd'[i].wall <= pfd'[j].wall
  OBVIOUS
<1>1. /\ DOMAIN pfd = 1..Len(pfd) /\ DOMAIN pfd' = 1..(Len(pfd) - 1) /\ Len(pfd) \in Nat
      /\ \A k \in 1..(Len(pfd) - 1) : pfd'[k] = pfd[k + 1]
  BY PendingFacts, TailFacts
<1>2. i + 1 \in DOMAIN pfd /\ j + 1 \in DOMAIN pfd /\ i + 1 <= j + 1
  BY <1>1
<1>3. pfd[i + 1].wall <= pfd[j + 1].wall
  BY <1>2 DEF SleepInv
<1> QED BY <1>1, <1>3

LEMMA SleepStep ==
    ASSUME TypeOK, C!TypeOK, C!TypeOK', SleepInv, [Next]_vars
    PROVE  SleepInv'
<1>0. /\ now \in Nat /\ nextPoll \in Nat
      /\ pfd \in Seq(Pendings) /\ DOMAIN pfd = 1..Len(pfd) /\ Len(pfd) \in Nat
      /\ \A i \in 1..Len(pfd) : pfd[i].wall \in 0..now
  BY PendingFacts
<1>1. CASE PollEvent
  <2> DEFINE p == [sof |-> Len(sofs) + 1, wall |-> now]
  <2>1. /\ pfd' = Append(pfd, p) /\ task' = "drain"
        /\ UNCHANGED <<now, nextPoll>>
    BY <1>1, PollEventFacts DEF loop
  <2>2. p \in Pendings'
    <3>1. sofs' = Append(sofs, caps[Len(sofs) + 1] + offset)
      BY <1>1, PollEventFacts
    <3>2. sofs \in Seq(0..now) /\ Len(sofs) \in Nat
      BY CorrelatorTypes
    <3>3. Len(sofs) + 1 \in DOMAIN sofs'
      BY <3>1, <3>2, AppendProperties, LenProperties
    <3> QED BY <1>0, <2>1, <3>3 DEF Pendings
  <2>3. pfd \in Seq(Pendings') /\ p.wall = now
    BY Carried
  <2> HIDE DEF p
  <2>4. /\ DOMAIN pfd' = 1..(Len(pfd) + 1)
        /\ \A i \in 1..Len(pfd) : pfd'[i] = pfd[i]
        /\ pfd'[Len(pfd) + 1] = p
    BY <2>1, <2>2, <2>3, AppendFacts
  <2>5. ASSUME NEW i \in DOMAIN pfd', NEW j \in DOMAIN pfd', i <= j
        PROVE  pfd'[i].wall <= pfd'[j].wall
    <3>1. CASE j \in 1..Len(pfd)
      <4>1. i \in DOMAIN pfd /\ j \in DOMAIN pfd
        BY <1>0, <2>4, <2>5, <3>1
      <4>2. pfd[i].wall <= pfd[j].wall
        BY <2>5, <4>1 DEF SleepInv
      <4> QED BY <1>0, <2>4, <4>1, <4>2
    <3>2. CASE j \notin 1..Len(pfd)
      <4>1. j = Len(pfd) + 1
        BY <1>0, <2>4, <3>2
      <4>2. pfd'[j].wall = now
        BY <2>3, <2>4, <4>1
      <4>3. pfd'[i].wall <= now
        <5>1. CASE i = Len(pfd) + 1
          BY <1>0, <2>3, <2>4, <5>1
        <5>2. CASE i /= Len(pfd) + 1
          <6>1. i \in 1..Len(pfd)
            BY <1>0, <2>4, <5>2
          <6>2. pfd[i].wall \in 0..now
            BY <1>0, <6>1
          <6> QED BY <1>0, <2>4, <6>1, <6>2
        <5> QED BY <5>1, <5>2
      <4> QED BY <4>2, <4>3
    <3> QED BY <3>1, <3>2
  <2> QED BY <2>1, <2>5 DEF SleepInv
<1>2. CASE PublishFrame
  <2>1. task' = "publish" /\ UNCHANGED <<now, nextPoll>>
    BY <1>2 DEF PublishFrame, loop
  <2>2. \A i, j \in DOMAIN pfd' : i <= j => pfd'[i].wall <= pfd'[j].wall
    <3>1. CASE MarksMatched(out[published + 1]) /\ pfd /= <<>>
      BY <1>2, <3>1, LeaveKeepsOrder DEF PublishFrame
    <3>2. CASE ~(MarksMatched(out[published + 1]) /\ pfd /= <<>>)
      BY <1>2, <3>2 DEF PublishFrame, SleepInv
    <3> QED BY <3>1, <3>2
  <2> QED BY <2>1, <2>2 DEF SleepInv
<1>3. CASE SweepAbort
  <2>1. pfd /= <<>> /\ pfd' = Tail(pfd) /\ task' = "sweep" /\ UNCHANGED <<now, nextPoll>>
    BY <1>3 DEF SweepAbort, HeadExpired, loop
  <2> QED BY <2>1, LeaveKeepsOrder DEF SleepInv
<1>4. CASE SweepEnd
  <2>1. ~HeadExpired /\ nextPoll' = now + Poll /\ UNCHANGED <<now, pfd>>
    BY <1>4 DEF SweepEnd, detector
  <2>2. ASSUME NEW i \in DOMAIN pfd PROVE now - pfd[i].wall <= Timeout
    <3>1. pfd /= <<>> /\ 1 \in DOMAIN pfd /\ 1 <= i
      BY <1>0
    <3>2. Head(pfd) = pfd[1]
      BY <1>0, <3>1, TailFacts
    <3>3. now - pfd[1].wall <= Timeout
      <4>1. ~(now - pfd[1].wall > Timeout)
        BY <2>1, <3>1, <3>2 DEF HeadExpired
      <4>2. pfd[1].wall \in 0..now
        BY <1>0, <3>1
      <4> QED BY <1>0, <4>1, <4>2
    <3>4. pfd[1].wall <= pfd[i].wall
      BY <3>1 DEF SleepInv
    <3> QED BY <1>0, <3>1, <3>3, <3>4
  <2>3. \A i \in DOMAIN pfd' : nextPoll' - pfd'[i].wall <= Timeout + Poll
    <3> SUFFICES ASSUME NEW i \in DOMAIN pfd PROVE (now + Poll) - pfd[i].wall <= Timeout + Poll
      BY <2>1
    <3>1. now - pfd[i].wall <= Timeout /\ pfd[i].wall \in 0..now
      BY <1>0, <2>2
    <3> QED BY <1>0, <3>1
  <2> QED BY <1>0, <2>1, <2>3 DEF SleepInv
<1>5. CASE Tick
  <2>1. now' = now + 1 /\ now < nextPoll /\ UNCHANGED <<task, nextPoll, pfd>>
    BY <1>5, TickFacts DEF loop, detector
  <2> QED BY <1>0, <2>1 DEF SleepInv
<1>6. CASE PollStart \/ PollMatched \/ PollMatchedReturn \/ PublishEnd
  <2>1. /\ task' \notin {"idle", "recv"}
        /\ UNCHANGED <<now, nextPoll, pfd>>
    BY <1>6, PollMatchedFacts, PollMatchedReturnFacts
    DEF PollStart, PublishEnd, detector
  <2> QED BY <2>1 DEF SleepInv
<1>7. CASE Bus \/ Readable \/ CorrelatorLoop \/ UNCHANGED vars
  <2>1. /\ task' \in {"idle", "recv"} => task \in {"idle", "recv"}
        /\ UNCHANGED <<now, nextPoll, pfd>>
    BY <1>7, RecvFrameFacts, CorrelatorLoopFacts
    DEF Bus, BusSof, BusFrame, BusAbort, Readable, Recv, RecvEnd, vars, Aside, loop, detector
  <2> QED BY <2>1 DEF SleepInv
<1> QED BY <1>1, <1>2, <1>3, <1>4, <1>5, <1>6, <1>7 DEF Next, IngestLoop

LEMMA SleepInit == Init => SleepInv
<1> SUFFICES ASSUME Init PROVE SleepInv
  OBVIOUS
<1>1. now = 0 /\ nextPoll \in 0..Poll /\ pfd = <<>>
  BY DEF Init, Correlation!Init
<1> QED BY <1>1 DEF SleepInv

\* For every timeout and sleep, no SOF is pending for longer than the timeout
\* and one sleep together when the loop is idle, although the sweep stops at
\* the first that has not expired (partial_frame_detector.py:46-62).
THEOREM NoAbortOverlooked == Spec => []AbortsReportedSoon
<1>1. PipelineInv /\ SleepInv => AbortsReportedSoon
  <2> SUFFICES ASSUME PipelineInv, SleepInv, task = "idle", NEW i \in DOMAIN pfd
               PROVE  now - pfd[i].wall <= Timeout + Poll
    BY DEF AbortsReportedSoon
  <2>1. now \in Nat /\ nextPoll \in Nat /\ pfd[i].wall \in 0..now
    BY PendingFacts, CorrelatorTypeOK DEF PipelineInv
  <2>2. now <= nextPoll /\ nextPoll - pfd[i].wall <= Timeout + Poll
    BY DEF SleepInv
  <2> QED BY <2>1, <2>2
<1>2. PipelineInv /\ PipelineInv' /\ SleepInv /\ [Next]_vars => SleepInv'
  <2>1. C!CorrelatorInv' => C!TypeOK'
    BY CorrelatorTypeOK, PTL
  <2> QED BY <2>1, SleepStep, CorrelatorTypeOK DEF PipelineInv
<1> QED BY <1>1, <1>2, PipelineInit, PipelineStep, SleepInit, PTL DEF Spec

-----------------------------------------------------------------------------
(* Frames reach the monitors.                                              *)

Delivered(f) == \E i \in DOMAIN out : out[i].frame = f

\* While drained frames are published, no other is older than the window; when
\* the loop sleeps, none will be by more than the sleep when it wakes up.
PublishInv ==
    /\ task = "flush" => drainNow = now
    /\ task \in {"publish", "sweep"} =>
          \A f \in DOMAIN frames \ lostFrames : Delivered(f) \/ now - frames[f] <= MaxDelta
    /\ task /= "publish" => published = Len(out)
    /\ task \in {"idle", "recv"} =>
          \A f \in DOMAIN frames \ lostFrames :
             Delivered(f) \/ nextPoll - frames[f] <= MaxDelta + Poll

\* Stamps of frames are natural numbers.
LEMMA FrameStamps ==
    ASSUME C!TypeOK
    PROVE  /\ now \in Nat /\ \A f \in DOMAIN frames : frames[f] \in 0..now
<1>1. now \in Nat /\ frames \in Seq(0..now) /\ DOMAIN frames = 1..Len(frames)
  BY CorrelatorTypes
<1> QED BY <1>1, ElementOfSeq

\* A frame read from the socket is as old as the clock is slow: not at all.
LEMMA RecvFramePublish ==
    ASSUME TypeOK, C!TypeOK, KernelInv, SleepInv, PublishInv, RecvFrame
    PROVE  PublishInv'
<1>0. /\ now \in Nat /\ nextPoll \in Nat /\ nextPoll <= now + Poll
      /\ frames \in Seq(0..now) /\ Len(frames) \in Nat /\ DOMAIN frames = 1..Len(frames)
  BY CorrelatorTypes DEF TypeOK, SleepInv
<1>1. /\ task = "recv" /\ task' = "recv" /\ batch /= <<>>
      /\ frames' = Append(frames, Head(batch).ts) /\ lostFrames \subseteq lostFrames'
      /\ UNCHANGED <<now, drainNow, out, nextPoll, published>>
  BY RecvFrameFacts
<1>2. Head(batch).ts = now
  <2>1. Head(batch) = batch[1] /\ 1 \in DOMAIN batch
    BY <1>1, QueueTypes, TailFacts
  <2> QED BY <2>1 DEF KernelInv
<1>3. /\ DOMAIN frames' = 1..(Len(frames) + 1)
      /\ \A f \in 1..Len(frames) : frames'[f] = frames[f]
      /\ frames'[Len(frames) + 1] = now
  <2>1. now \in 0..now
    BY <1>0
  <2> QED BY <1>0, <1>1, <1>2, <2>1, AppendFacts
<1>4. ASSUME NEW f \in DOMAIN frames' \ lostFrames'
      PROVE  Delivered(f) \/ nextPoll - frames'[f] <= MaxDelta + Poll
  <2>1. CASE f = Len(frames) + 1
    BY <1>0, <1>3, <2>1
  <2>2. CASE f /= Len(frames) + 1
    <3>1. f \in 1..Len(frames)
      BY <1>0, <1>3, <2>2
    <3>2. f \in DOMAIN frames \ lostFrames
      BY <1>0, <1>1, <3>1
    <3>3. Delivered(f) \/ nextPoll - frames[f] <= MaxDelta + Poll
      BY <1>1, <3>2 DEF PublishInv
    <3> QED BY <1>3, <3>1, <3>3
  <2> QED BY <2>1, <2>2
<1>5. published' = Len(out')
  BY <1>1 DEF PublishInv
<1> QED BY <1>1, <1>4, <1>5 DEF PublishInv, Delivered

\* drain_matched returns whatever is older than the window.
LEMMA DrainPublish ==
    ASSUME TypeOK, C!CorrelatorInv, PublishInv, PollMatchedReturn
    PROVE  PublishInv'
<1>1. /\ task = "flush" /\ task' = "publish" /\ C!DrainReturn
      /\ UNCHANGED <<now, drainNow, frames, lostFrames>>
  BY PollMatchedReturnFacts
<1>2. drainNow = now
  BY <1>1 DEF PublishInv
<1>3. ASSUME NEW f \in DOMAIN frames \ lostFrames
      PROVE  Delivered(f)' \/ now - frames[f] <= MaxDelta
  <2>1. (\E i \in DOMAIN out' : out'[i].frame = f) \/ drainNow - frames[f] <= MaxDelta
    BY <1>1, <1>3, C!DrainLeavesYoung, CorrelatorParameters
  <2> QED BY <1>2, <2>1 DEF Delivered
<1>4. \A f \in DOMAIN frames' \ lostFrames' : Delivered(f)' \/ now' - frames'[f] <= MaxDelta
  BY <1>1, <1>3
<1> QED BY <1>1, <1>4 DEF PublishInv, Delivered

LEMMA PublishStep ==
    ASSUME TypeOK, C!CorrelatorInv, KernelInv, SleepInv, PublishInv, [Next]_vars
    PROVE  PublishInv'
<1>0. C!TypeOK
  BY CorrelatorTypeOK
<1>1. CASE RecvFrame
  BY <1>0, <1>1, RecvFramePublish
<1>2. CASE PollMatchedReturn
  BY <1>2, DrainPublish
<1>3. CASE PollStart \/ PollEvent \/ PollMatched
  <2>1. /\ task' \in {"drain", "flush"} /\ task /= "publish"
        /\ task' = "flush" => drainNow' = now
        /\ UNCHANGED <<now, out, published>>
    BY <1>3, PollEventFacts, PollMatchedFacts DEF PollStart, corr, loop
  <2> QED BY <2>1 DEF PublishInv
<1>4. CASE PublishFrame \/ SweepAbort
  <2>1. /\ task \in {"publish", "sweep"} /\ task' = task
        /\ task = "sweep" => published' = published
        /\ UNCHANGED <<now, frames, lostFrames, out>>
    BY <1>4 DEF PublishFrame, SweepAbort, corr, loop
  <2> QED BY <2>1 DEF PublishInv, Delivered
<1>5. CASE PublishEnd
  <2>1. /\ task = "publish" /\ task' = "sweep" /\ published = Len(out)
        /\ UNCHANGED <<now, frames, lostFrames, out, published>>
    BY <1>5 DEF PublishEnd, corr
  <2> QED BY <2>1 DEF PublishInv, Delivered
<1>6. CASE SweepEnd
  <2>1. /\ task = "sweep" /\ task' = "idle" /\ nextPoll' = now + Poll
        /\ UNCHANGED <<now, frames, lostFrames, out, published>>
    BY <1>6 DEF SweepEnd, corr
  <2>2. ASSUME NEW f \in DOMAIN frames \ lostFrames
        PROVE  Delivered(f) \/ (now + Poll) - frames[f] <= MaxDelta + Poll
    <3>1. Delivered(f) \/ now - frames[f] <= MaxDelta
      BY <2>1 DEF PublishInv
    <3>2. now \in Nat /\ frames[f] \in 0..now
      BY <1>0, FrameStamps
    <3> QED BY <3>1, <3>2
  <2> QED BY <2>1, <2>2 DEF PublishInv, Delivered
<1>7. CASE Tick
  <2>1. task = "idle" /\ UNCHANGED <<task, frames, lostFrames, out, published, nextPoll>>
    BY <1>7, TickFacts DEF loop
  <2> QED BY <2>1 DEF PublishInv, Delivered
<1>8. CASE Bus \/ Recv \/ RecvEnd \/ CorrelatorLoop \/ UNCHANGED vars
  <2>1. /\ task' = task \/ (task \in {"idle", "recv"} /\ task' \in {"idle", "recv"})
        /\ UNCHANGED <<now, drainNow, frames, lostFrames, out, published, nextPoll>>
    BY <1>8, CorrelatorLoopFacts, OtherFacts
    DEF Aside, Bus, BusSof, BusFrame, BusAbort, Recv, RecvEnd, vars, loop
  <2> QED BY <2>1 DEF PublishInv, Delivered
<1> QED BY <1>1, <1>2, <1>3, <1>4, <1>5, <1>6, <1>7, <1>8 DEF Next, Readable, IngestLoop

LEMMA PublishInit == Init => PublishInv
<1> SUFFICES ASSUME Init PROVE PublishInv
  OBVIOUS
<1>1. task = "idle" /\ frames = <<>> /\ out = <<>> /\ published = 0
  BY DEF Init, Correlation!Init
<1> QED BY <1>1 DEF PublishInv

\* For every window and sleep, a frame read from the socket has been handed to
\* the monitors, or is no older than the window and one sleep together, when
\* the loop is idle; frames a full deque dropped excepted (server.py:163-168).
THEOREM FramesReachMonitors == Spec => []FramesPublishedSoon
<1> DEFINE Inv == PipelineInv /\ SleepInv /\ PublishInv
<1>1. Inv => FramesPublishedSoon
  <2> SUFFICES ASSUME Inv, task = "idle", NEW f \in DOMAIN frames \ lostFrames
               PROVE  \/ \E i \in 1..published : out[i].frame = f
                      \/ now - frames[f] <= MaxDelta + Poll
    BY DEF FramesPublishedSoon
  <2>1. C!TypeOK
    BY CorrelatorTypeOK DEF PipelineInv
  <2>2. now \in Nat /\ frames[f] \in 0..now /\ nextPoll \in Nat /\ now <= nextPoll
    BY <2>1, FrameStamps DEF PipelineInv, TypeOK, SleepInv
  <2>3. DOMAIN out = 1..published
    BY <2>1, CorrelatorTypes DEF PublishInv
  <2>4. Delivered(f) \/ nextPoll - frames[f] <= MaxDelta + Poll
    BY DEF PublishInv
  <2> QED BY <2>2, <2>3, <2>4 DEF Delivered
<1>2. Init => Inv
  BY PipelineInit, SleepInit, PublishInit
<1>3. Inv /\ PipelineInv' /\ [Next]_vars => Inv'
  <2>1. C!CorrelatorInv' => C!TypeOK'
    BY CorrelatorTypeOK, PTL
  <2> QED BY <2>1, SleepStep, PublishStep, CorrelatorTypeOK DEF PipelineInv
<1> QED BY <1>1, <1>2, <1>3, PipelineStep, PTL DEF Spec
=============================================================================
