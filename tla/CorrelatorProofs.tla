-------------------------- MODULE CorrelatorProofs --------------------------
(***************************************************************************)
(* Theorems about module Correlator for every window, every length of the  *)
(* deques and every number of frames and SOFs.                             *)
(***************************************************************************)
EXTENDS Correlator, DataLemmas

USE MaxDeltaAssumption, QueueLenAssumption, BoundAssumption

-----------------------------------------------------------------------------
(* Type correctness.                                                       *)

\* The head of the frame queue is a frame that was ingested.
LEMMA HeadFrame ==
    ASSUME TypeOK, canQ /= <<>>
    PROVE  /\ Tail(canQ) \in Seq(DOMAIN frames) /\ Len(Tail(canQ)) <= QueueLen
           /\ Head(canQ) \in DOMAIN frames
BY TailFacts DEF TypeOK

\* The head of the SOF queue is a SOF that was ingested.
LEMMA HeadSof ==
    ASSUME TypeOK, pruQ /= <<>>
    PROVE  /\ Tail(pruQ) \in Seq(DOMAIN sofs) /\ Len(Tail(pruQ)) <= QueueLen
           /\ Head(pruQ) \in DOMAIN sofs
BY TailFacts DEF TypeOK

\* An ingested timestamp is no later than the clock.
LEMMA StampType ==
    ASSUME NEW n \in Nat, NEW q \in Seq(0..n), NEW t \in LastOr(q, 0)..n
    PROVE  t \in 0..n
<1>1. CASE q = <<>>
  BY <1>1 DEF LastOr
<1>2. CASE q /= <<>>
  <2>1. q[Len(q)] \in 0..n
    BY <1>2, ElementOfSeq, EmptySeq, LenProperties
  <2> QED BY <1>2, <2>1 DEF LastOr
<1> QED BY <1>1, <1>2

\* The enriched frames stay enriched frames while frames and SOFs come in.
LEMMA EnrichedGrow ==
    ASSUME TypeOK, DOMAIN frames \subseteq DOMAIN frames', DOMAIN sofs \subseteq DOMAIN sofs'
    PROVE  /\ EnrichedFrames \subseteq EnrichedFrames'
           /\ out \in Seq(EnrichedFrames') /\ matched \in Seq(EnrichedFrames')
<1>1. EnrichedFrames \subseteq EnrichedFrames'
  BY DEF EnrichedFrames, NoPruTs
<1> QED BY <1>1, SeqMonotonic DEF TypeOK

\* The queues start empty and the clocks at zero.
LEMMA TypeInit == Init => TypeOK
BY DEF Init, TypeOK, Phases

\* Each action keeps the types: ingestion adds a number and queues it, the
\* loops move numbers between the queues and _matched.
LEMMA TypeStep == TypeOK /\ [Next]_vars => TypeOK'
<1> SUFFICES ASSUME TypeOK, [Next]_vars PROVE TypeOK'
  OBVIOUS
<1> USE DEF Phases
<1>1. CASE Tick
  <2>1. frames \in Seq(0..(now + 1)) /\ sofs \in Seq(0..(now + 1))
    BY SeqMonotonic DEF TypeOK
  <2>2. UNCHANGED EnrichedFrames
    BY <1>1 DEF Tick, history, EnrichedFrames
  <2> QED BY <1>1, <2>1, <2>2 DEF Tick, TypeOK, queues, history
<1>2. ASSUME NEW t \in LastOr(sofs, 0)..now, IngestPru(t) PROVE TypeOK'
  <2>1. sofs' \in Seq(0..now) /\ DOMAIN sofs \subseteq DOMAIN sofs' /\ Len(sofs) + 1 \in DOMAIN sofs'
    <3>1. t \in 0..now /\ sofs' = Append(sofs, t) /\ sofs \in Seq(0..now)
      BY <1>2, StampType DEF IngestPru, TypeOK
    <3> QED BY <3>1, AppendFacts
  <2>2. pruQ \in Seq(DOMAIN sofs')
    BY <2>1, SeqMonotonic DEF TypeOK
  <2>3. pruQ' \in Seq(DOMAIN sofs') /\ Len(pruQ') <= QueueLen
    BY <1>2, <2>1, <2>2, PushType DEF IngestPru, TypeOK
  <2>4. PushEvicts(pruQ, QueueLen) \subseteq DOMAIN sofs'
    BY <2>2, TailFacts DEF PushEvicts
  <2>5. out' \in Seq(EnrichedFrames') /\ matched' \in Seq(EnrichedFrames')
    BY <1>2, <2>1, EnrichedGrow DEF IngestPru
  <2> QED BY <1>2, <2>1, <2>3, <2>4, <2>5 DEF IngestPru, TypeOK
<1>3. ASSUME NEW t \in LastOr(frames, 0)..now, IngestFrame(t) PROVE TypeOK'
  <2>1. frames' \in Seq(0..now) /\ DOMAIN frames \subseteq DOMAIN frames' /\ Len(frames) + 1 \in DOMAIN frames'
    <3>1. t \in 0..now /\ frames' = Append(frames, t) /\ frames \in Seq(0..now)
      BY <1>3, StampType DEF IngestFrame, TypeOK
    <3> QED BY <3>1, AppendFacts
  <2>2. canQ \in Seq(DOMAIN frames')
    BY <2>1, SeqMonotonic DEF TypeOK
  <2>3. canQ' \in Seq(DOMAIN frames') /\ Len(canQ') <= QueueLen
    BY <1>3, <2>1, <2>2, PushType DEF IngestFrame, TypeOK
  <2>4. PushEvicts(canQ, QueueLen) \subseteq DOMAIN frames'
    BY <2>2, TailFacts DEF PushEvicts
  <2>5. out' \in Seq(EnrichedFrames') /\ matched' \in Seq(EnrichedFrames')
    BY <1>3, <2>1, EnrichedGrow DEF IngestFrame
  <2> QED BY <1>3, <2>1, <2>3, <2>4, <2>5 DEF IngestFrame, TypeOK
<1>4. ASSUME EmitUnmatched \/ FlushStale PROVE TypeOK'
  <2>1. Enrich(Head(canQ), NoPruTs) \in EnrichedFrames
    BY <1>4, HeadFrame DEF EmitUnmatched, FlushStale, BothQueued, HeadStale, Enrich, EnrichedFrames
  <2>2. matched' \in Seq(EnrichedFrames)
    <3>1. /\ matched' = Append(matched, Enrich(Head(canQ), NoPruTs))
          /\ matched \in Seq(EnrichedFrames)
      BY <1>4 DEF EmitUnmatched, FlushStale, TypeOK
    <3> QED BY <2>1, <3>1, AppendFacts
  <2>3. UNCHANGED EnrichedFrames
    BY <1>4 DEF EmitUnmatched, FlushStale, history, EnrichedFrames
  <2> QED
    BY <1>4, <2>2, <2>3, HeadFrame
    DEF EmitUnmatched, FlushStale, BothQueued, HeadStale, TypeOK, history
<1>5. CASE DiscardSof
  <2>1. UNCHANGED EnrichedFrames
    BY <1>5 DEF DiscardSof, history, EnrichedFrames
  <2> QED BY <1>5, <2>1, HeadSof DEF DiscardSof, BothQueued, TypeOK, history
<1>6. CASE Match
  <2>1. Enrich(Head(canQ), Head(pruQ)) \in EnrichedFrames
    BY <1>6, HeadFrame, HeadSof DEF Match, BothQueued, Enrich, EnrichedFrames
  <2>2. matched' \in Seq(EnrichedFrames)
    BY <1>6, <2>1, AppendProperties DEF Match, TypeOK
  <2>3. UNCHANGED EnrichedFrames
    BY <1>6 DEF Match, history, EnrichedFrames
  <2> QED
    BY <1>6, <2>2, <2>3, HeadFrame, HeadSof DEF Match, BothQueued, TypeOK, history
<1>7. ASSUME MatchReturn \/ DrainBegin \/ UNCHANGED vars PROVE TypeOK'
  <2>1. UNCHANGED EnrichedFrames
    BY <1>7 DEF MatchReturn, DrainBegin, vars, history, EnrichedFrames
  <2> QED BY <1>7, <2>1 DEF MatchReturn, DrainBegin, vars, queues, history, TypeOK
<1>8. CASE DrainReturn
  <2>1. UNCHANGED EnrichedFrames
    BY <1>8 DEF DrainReturn, EnrichedFrames
  <2>2. out \o matched \in Seq(EnrichedFrames)
    BY ConcatProperties DEF TypeOK
  <2> QED BY <1>8, <2>1, <2>2 DEF DrainReturn, TypeOK
<1> QED
  BY <1>1, <1>2, <1>3, <1>4, <1>5, <1>6, <1>7, <1>8 DEF Next, TryMatch, DrainMatched

\* Every number the correlator holds or has emitted names a frame or a SOF it
\* was given, and the two deques keep their bound.
THEOREM TypeCorrect == Spec => []TypeOK
BY TypeInit, TypeStep, PTL DEF Spec

-----------------------------------------------------------------------------
(* The two queues.                                                         *)

\* One queue is empty unless _try_match is running; drain_matched only takes
\* frames away.
QueuesMet == phase /= "match" => pruQ = <<>> \/ canQ = <<>>

\* Only _try_match runs with both queues non-empty, and it stops when one is
\* empty.
LEMMA QueuesMetStep == QueuesMet /\ [Next]_vars => QueuesMet'
<1> SUFFICES ASSUME QueuesMet, [Next]_vars PROVE QueuesMet'
  OBVIOUS
<1> USE DEF QueuesMet
<1>1. CASE Tick \/ UNCHANGED vars
  BY <1>1 DEF Tick, vars, queues
<1>2. ASSUME NEW t, IngestPru(t) \/ IngestFrame(t) PROVE QueuesMet'
  BY <1>2 DEF IngestPru, IngestFrame
<1>3. CASE EmitUnmatched \/ DiscardSof \/ Match
  BY <1>3 DEF EmitUnmatched, DiscardSof, Match
<1>4. CASE MatchReturn
  BY <1>4 DEF MatchReturn, BothQueued, queues
<1>5. CASE DrainBegin \/ FlushStale \/ DrainReturn
  BY <1>5 DEF DrainBegin, FlushStale, DrainReturn, HeadStale, queues
<1> QED BY <1>1, <1>2, <1>3, <1>4, <1>5 DEF Next, TryMatch, DrainMatched

\* Between two operations nothing is left that could be paired: _try_match
\* never gives the lock back with both queues non-empty.
THEOREM MatchingComplete == Spec => []NothingLeftToMatch
<1>1. Init => QueuesMet
  BY DEF Init, QueuesMet
<1>2. QueuesMet => NothingLeftToMatch
  BY DEF QueuesMet, NothingLeftToMatch
<1> QED BY <1>1, <1>2, QueuesMetStep, PTL DEF Spec

-----------------------------------------------------------------------------
(* What a step does to the frames emitted so far.                          *)

\* What was emitted names frames and SOFs that were ingested.
LEMMA EmittedType ==
    ASSUME TypeOK
    PROVE  /\ Emitted \in Seq(EnrichedFrames)
           /\ Len(Emitted) \in Nat /\ DOMAIN Emitted = 1..Len(Emitted)
           /\ \A i \in DOMAIN Emitted :
                 Emitted[i].frame \in DOMAIN frames /\ Emitted[i].sof \in DOMAIN sofs \cup {NoPruTs}
<1>1. Emitted \in Seq(EnrichedFrames)
  BY ConcatProperties DEF TypeOK, Emitted
<1>2. Len(Emitted) \in Nat /\ DOMAIN Emitted = 1..Len(Emitted)
  BY <1>1, LenProperties
<1>3. ASSUME NEW i \in DOMAIN Emitted PROVE Emitted[i] \in EnrichedFrames
  BY <1>1, <1>2, <1>3, ElementOfSeq
<1> QED BY <1>1, <1>2, <1>3 DEF EnrichedFrames

\* _matched.append: one more frame emitted, behind all others.
LEMMA EmitAppends ==
    ASSUME TypeOK, NEW e \in EnrichedFrames,
           out' = out, matched' = Append(matched, e)
    PROVE  Emitted' = Append(Emitted, e)
<1>1. /\ out \in Seq(EnrichedFrames) /\ matched \in Seq(EnrichedFrames)
      /\ <<e>> \in Seq(EnrichedFrames)
  BY DEF TypeOK
<1>2. matched' = matched \o <<e>> /\ Append(Emitted, e) = Emitted \o <<e>>
  BY <1>1, AppendIsConcat, EmittedType
<1>3. out \o (matched \o <<e>>) = (out \o matched) \o <<e>>
  BY <1>1, ConcatAssociative
<1> QED BY <1>2, <1>3 DEF Emitted

\* drain_matched hands the frames on and emits none.
LEMMA DrainEmitsNothing ==
    ASSUME TypeOK, DrainReturn
    PROVE  Emitted' = Emitted
<1>1. out \o matched \in Seq(EnrichedFrames)
  BY ConcatProperties DEF TypeOK
<1>2. (out \o matched) \o <<>> = out \o matched
  BY <1>1, ConcatEmptySeq
<1> QED BY <1>2 DEF DrainReturn, Emitted

\* The three ways a frame is emitted.
EmitStep(e) ==
    /\ canQ /= <<>>
    /\ e \in EnrichedFrames /\ e.frame = Head(canQ)
    /\ canQ' = Tail(canQ)
    /\ Emitted' = Append(Emitted, e)
    /\ UNCHANGED <<frames, sofs, lostFrames, lostSofs>>

\* The head of _can_q is emitted without a SOF: too old for one, or stale.
LEMMA UnmatchedEmits ==
    ASSUME TypeOK, EmitUnmatched \/ FlushStale
    PROVE  /\ EmitStep(Enrich(Head(canQ), NoPruTs))
           /\ pruQ' = pruQ
<1>1. /\ canQ /= <<>> /\ canQ' = Tail(canQ)
      /\ matched' = Append(matched, Enrich(Head(canQ), NoPruTs))
      /\ out' = out /\ pruQ' = pruQ
      /\ UNCHANGED <<frames, sofs, lostFrames, lostSofs>>
  BY DEF EmitUnmatched, FlushStale, BothQueued, HeadStale, history
<1>2. Enrich(Head(canQ), NoPruTs) \in EnrichedFrames
  BY <1>1, HeadFrame DEF Enrich, EnrichedFrames
<1>3. Emitted' = Append(Emitted, Enrich(Head(canQ), NoPruTs))
  BY <1>1, <1>2, EmitAppends
<1> QED BY <1>1, <1>2, <1>3 DEF EmitStep, Enrich

\* The heads of the two queues are emitted as a pair.
LEMMA MatchEmits ==
    ASSUME TypeOK, Match
    PROVE  /\ EmitStep(Enrich(Head(canQ), Head(pruQ)))
           /\ pruQ /= <<>> /\ pruQ' = Tail(pruQ)
<1>1. /\ canQ /= <<>> /\ canQ' = Tail(canQ)
      /\ pruQ /= <<>> /\ pruQ' = Tail(pruQ)
      /\ matched' = Append(matched, Enrich(Head(canQ), Head(pruQ)))
      /\ out' = out
      /\ UNCHANGED <<frames, sofs, lostFrames, lostSofs>>
  BY DEF Match, BothQueued, history
<1>2. Enrich(Head(canQ), Head(pruQ)) \in EnrichedFrames
  BY <1>1, HeadFrame, HeadSof DEF Enrich, EnrichedFrames
<1>3. Emitted' = Append(Emitted, Enrich(Head(canQ), Head(pruQ)))
  BY <1>1, <1>2, EmitAppends
<1> QED BY <1>1, <1>2, <1>3 DEF EmitStep, Enrich

\* Steps that leave the queues and what was emitted alone.
LEMMA QuietSteps ==
    ASSUME TypeOK, Tick \/ MatchReturn \/ DrainBegin \/ DrainReturn \/ UNCHANGED vars
    PROVE  UNCHANGED <<pruQ, canQ, Emitted, frames, sofs, lostFrames, lostSofs>>
<1>1. CASE DrainReturn
  BY <1>1, DrainEmitsNothing DEF DrainReturn
<1>2. CASE ~DrainReturn
  BY <1>2 DEF Tick, MatchReturn, DrainBegin, vars, queues, history, Emitted
<1> QED BY <1>1, <1>2

-----------------------------------------------------------------------------
(* Frames leave in order.                                                  *)

\* Emitted frames come before the queued ones, and both are in order.
FrameOrder ==
    /\ Increasing(canQ)
    /\ \A i, j \in DOMAIN Emitted : i < j => Emitted[i].frame < Emitted[j].frame
    /\ \A i \in DOMAIN Emitted, k \in DOMAIN canQ : Emitted[i].frame < canQ[k]

\* The frame emitted is the first of those queued.
LEMMA EmitKeepsFrameOrder ==
    ASSUME TypeOK, FrameOrder, NEW e, EmitStep(e)
    PROVE  FrameOrder'
<1>1. /\ canQ \in Seq(DOMAIN frames) /\ canQ /= <<>> /\ canQ' = Tail(canQ)
      /\ DOMAIN frames \in SUBSET Nat
      /\ e \in EnrichedFrames /\ e.frame = Head(canQ) /\ Emitted' = Append(Emitted, e)
  <2>1. canQ \in Seq(DOMAIN frames) /\ frames \in Seq(Nat)
    BY DEF TypeOK
  <2>2. DOMAIN frames \in SUBSET Nat
    BY <2>1, LenProperties
  <2> QED BY <2>1, <2>2 DEF EmitStep
<1>2. Increasing(canQ') /\ \A k \in DOMAIN canQ' : e.frame < canQ'[k]
  BY <1>1, TailIncreasing DEF FrameOrder
<1>3. /\ Head(canQ) = canQ[1] /\ 1 \in DOMAIN canQ
      /\ \A k \in DOMAIN canQ' : k + 1 \in DOMAIN canQ /\ canQ'[k] = canQ[k + 1]
  BY <1>1, TailFacts
<1>4. /\ DOMAIN Emitted = 1..Len(Emitted) /\ Len(Emitted) \in Nat
      /\ DOMAIN Emitted' = 1..(Len(Emitted) + 1)
      /\ \A i \in 1..Len(Emitted) : Emitted'[i] = Emitted[i]
      /\ Emitted'[Len(Emitted) + 1] = e
  BY <1>1, EmittedType, AppendFacts
<1>5. \A i \in 1..Len(Emitted) : Emitted[i].frame < e.frame
  BY <1>1, <1>3, <1>4 DEF FrameOrder
<1>6. ASSUME NEW i \in DOMAIN Emitted', NEW j \in DOMAIN Emitted', i < j
      PROVE  Emitted'[i].frame < Emitted'[j].frame
  <2>1. i \in 1..Len(Emitted) /\ Emitted'[i] = Emitted[i]
    BY <1>4, <1>6
  <2>2. CASE j = Len(Emitted) + 1
    BY <1>4, <1>5, <2>1, <2>2
  <2>3. CASE j /= Len(Emitted) + 1
    <3>1. j \in 1..Len(Emitted) /\ Emitted'[j] = Emitted[j]
      BY <1>4, <2>3
    <3> QED BY <1>4, <1>6, <2>1, <3>1 DEF FrameOrder
  <2> QED BY <2>2, <2>3
<1>7. ASSUME NEW i \in DOMAIN Emitted', NEW k \in DOMAIN canQ'
      PROVE  Emitted'[i].frame < canQ'[k]
  <2>1. CASE i = Len(Emitted) + 1
    BY <1>2, <1>4, <2>1
  <2>2. CASE i /= Len(Emitted) + 1
    <3>1. i \in 1..Len(Emitted) /\ Emitted'[i] = Emitted[i]
      BY <1>4, <2>2
    <3> QED BY <1>3, <1>4, <3>1 DEF FrameOrder
  <2> QED BY <2>1, <2>2
<1> QED BY <1>2, <1>6, <1>7 DEF FrameOrder

\* A frame coming in has a greater number than any before it.
LEMMA IngestKeepsFrameOrder ==
    ASSUME TypeOK, FrameOrder, NEW t, IngestFrame(t)
    PROVE  FrameOrder'
<1> DEFINE x == Len(frames) + 1
           S == 1..x
<1>1. /\ canQ \in Seq(S) /\ x \in S /\ S \in SUBSET Nat /\ Len(canQ) <= QueueLen
      /\ DOMAIN frames = 1..Len(frames) /\ Len(frames) \in Nat
  <2>1. DOMAIN frames = 1..Len(frames) /\ Len(frames) \in Nat
    BY LenProperties DEF TypeOK
  <2> QED BY <2>1, SeqMonotonic DEF TypeOK
<1>2. /\ canQ' = PushBounded(canQ, x, QueueLen)
      /\ Emitted' = Emitted
  BY DEF IngestFrame, Emitted
<1>3. \A k \in DOMAIN canQ : canQ[k] < x
  <2>1. \A k \in DOMAIN canQ : canQ[k] \in DOMAIN frames
    BY ElementOfSeq, LenProperties DEF TypeOK
  <2> QED BY <1>1, <2>1
<1> HIDE DEF x, S
<1>4. Increasing(canQ')
  BY <1>1, <1>2, <1>3, PushIncreasing DEF FrameOrder
<1>5. ASSUME NEW i \in DOMAIN Emitted, NEW k \in DOMAIN canQ'
      PROVE  Emitted[i].frame < canQ'[k]
  <2>1. canQ'[k] = x \/ \E j \in DOMAIN canQ : canQ'[k] = canQ[j]
    BY <1>1, <1>2, PushElements
  <2>2. Emitted[i].frame \in DOMAIN frames
    BY EmittedType
  <2>3. Emitted[i].frame < x
    BY <1>1, <2>2 DEF x
  <2> QED BY <2>1, <2>3 DEF FrameOrder
<1> QED BY <1>2, <1>4, <1>5 DEF FrameOrder

\* Every action keeps the frames in order.
LEMMA FrameOrderStep == TypeOK /\ FrameOrder /\ [Next]_vars => FrameOrder'
<1> SUFFICES ASSUME TypeOK, FrameOrder, [Next]_vars PROVE FrameOrder'
  OBVIOUS
<1>1. CASE Tick \/ MatchReturn \/ DrainBegin \/ DrainReturn \/ UNCHANGED vars
  BY <1>1, QuietSteps DEF FrameOrder
<1>2. ASSUME NEW t, IngestPru(t) PROVE FrameOrder'
  BY <1>2 DEF IngestPru, FrameOrder, Emitted
<1>3. ASSUME NEW t, IngestFrame(t) PROVE FrameOrder'
  BY <1>3, IngestKeepsFrameOrder
<1>4. CASE EmitUnmatched \/ FlushStale
  BY <1>4, UnmatchedEmits, EmitKeepsFrameOrder
<1>5. CASE Match
  BY <1>5, MatchEmits, EmitKeepsFrameOrder
<1>6. CASE DiscardSof
  BY <1>6 DEF DiscardSof, FrameOrder, Emitted, history
<1> QED BY <1>1, <1>2, <1>3, <1>4, <1>5, <1>6 DEF Next, TryMatch, DrainMatched

-----------------------------------------------------------------------------
(* No frame is forgotten.                                                  *)

EmittedFrames == {Emitted[i].frame : i \in DOMAIN Emitted}

\* The frames emitted, queued and dropped are all there are, and those
\* dropped are neither emitted nor queued.
Conservation ==
    /\ EmittedFrames \cup ToSet(canQ) \cup lostFrames = DOMAIN frames
    /\ (EmittedFrames \cup ToSet(canQ)) \cap lostFrames = {}

\* An emitted frame moves from the queue to the emitted ones.
LEMMA EmitConserves ==
    ASSUME TypeOK, Conservation, NEW e, EmitStep(e)
    PROVE  Conservation'
<1>1. /\ canQ \in Seq(DOMAIN frames) /\ canQ /= <<>> /\ canQ' = Tail(canQ)
      /\ e \in EnrichedFrames /\ e.frame = Head(canQ) /\ Emitted' = Append(Emitted, e)
      /\ UNCHANGED <<frames, lostFrames>>
  BY DEF TypeOK, EmitStep
<1>2. ToSet(canQ) = {e.frame} \cup ToSet(canQ')
  BY <1>1, TailElements
<1>3. /\ DOMAIN Emitted = 1..Len(Emitted) /\ Len(Emitted) \in Nat
      /\ DOMAIN Emitted' = 1..(Len(Emitted) + 1)
      /\ \A i \in 1..Len(Emitted) : Emitted'[i] = Emitted[i]
      /\ Emitted'[Len(Emitted) + 1] = e
  BY <1>1, EmittedType, AppendFacts
<1>4. EmittedFrames' = EmittedFrames \cup {e.frame}
  <2>1. ASSUME NEW i \in DOMAIN Emitted' PROVE Emitted'[i].frame \in EmittedFrames \cup {e.frame}
    BY <1>3 DEF EmittedFrames
  <2>2. ASSUME NEW i \in DOMAIN Emitted PROVE Emitted[i].frame \in EmittedFrames'
    <3>1. i \in DOMAIN Emitted' /\ Emitted'[i] = Emitted[i]
      BY <1>3
    <3> QED BY <3>1 DEF EmittedFrames
  <2>3. e.frame \in EmittedFrames'
    <3>1. Len(Emitted) + 1 \in DOMAIN Emitted'
      BY <1>3
    <3> QED BY <1>3, <3>1 DEF EmittedFrames
  <2> QED BY <2>1, <2>2, <2>3 DEF EmittedFrames
<1> QED BY <1>1, <1>2, <1>4 DEF Conservation

\* A frame coming in is queued; the one it may evict counts as lost.
LEMMA IngestConserves ==
    ASSUME TypeOK, FrameOrder, Conservation, NEW t \in LastOr(frames, 0)..now, IngestFrame(t)
    PROVE  Conservation'
<1> DEFINE x == Len(frames) + 1
           S == 1..x
           dropped == PushEvicts(canQ, QueueLen)
<1>1. /\ canQ \in Seq(S) /\ x \in S /\ S \in SUBSET Nat /\ Len(canQ) <= QueueLen
      /\ DOMAIN frames = 1..Len(frames) /\ Len(frames) \in Nat
  <2>1. DOMAIN frames = 1..Len(frames) /\ Len(frames) \in Nat
    BY LenProperties DEF TypeOK
  <2> QED BY <2>1, SeqMonotonic DEF TypeOK
<1>2. /\ canQ' = PushBounded(canQ, x, QueueLen)
      /\ lostFrames' = lostFrames \cup dropped
      /\ EmittedFrames' = EmittedFrames
  BY DEF IngestFrame, Emitted, EmittedFrames
<1>3. DOMAIN frames' = DOMAIN frames \cup {x} /\ x \notin DOMAIN frames
  <2>1. t \in 0..now /\ frames \in Seq(0..now) /\ frames' = Append(frames, t)
    BY StampType DEF TypeOK, IngestFrame
  <2>2. DOMAIN frames' = 1..x
    BY <2>1, AppendFacts
  <2> QED BY <1>1, <2>2
<1>4. \A k \in DOMAIN canQ : canQ[k] < x
  <2>1. \A k \in DOMAIN canQ : canQ[k] \in DOMAIN frames
    BY ElementOfSeq, LenProperties DEF TypeOK
  <2> QED BY <1>1, <2>1
<1> HIDE DEF x, S
<1>5. ToSet(canQ') \cup dropped = ToSet(canQ) \cup {x}
  BY <1>1, <1>2, PushConserves
<1>6. ToSet(canQ') \cap dropped = {}
  BY <1>1, <1>2, <1>4, PushForgets DEF FrameOrder
<1>7. EmittedFrames \cap dropped = {}
  <2> SUFFICES ASSUME NEW i \in DOMAIN Emitted, Emitted[i].frame \in dropped
               PROVE  FALSE
    BY DEF EmittedFrames
  <2>1. canQ /= <<>> /\ Emitted[i].frame = canQ[1] /\ 1 \in DOMAIN canQ
    BY <1>1, TailFacts DEF PushEvicts
  <2>2. Emitted[i].frame < canQ[1] /\ Emitted[i].frame \in Nat
    BY <1>1, <2>1, EmittedType DEF FrameOrder
  <2> QED BY <2>1, <2>2
<1> QED BY <1>2, <1>3, <1>5, <1>6, <1>7 DEF Conservation

\* Every action conserves the frames.
LEMMA ConservationStep ==
    TypeOK /\ FrameOrder /\ Conservation /\ [Next]_vars => Conservation'
<1> SUFFICES ASSUME TypeOK, FrameOrder, Conservation, [Next]_vars PROVE Conservation'
  OBVIOUS
<1>1. CASE Tick \/ MatchReturn \/ DrainBegin \/ DrainReturn \/ UNCHANGED vars
  BY <1>1, QuietSteps DEF Conservation, EmittedFrames
<1>2. ASSUME NEW t, IngestPru(t) PROVE Conservation'
  BY <1>2 DEF IngestPru, Conservation, EmittedFrames, Emitted
<1>3. ASSUME NEW t \in LastOr(frames, 0)..now, IngestFrame(t) PROVE Conservation'
  BY <1>3, IngestConserves
<1>4. CASE EmitUnmatched \/ FlushStale
  BY <1>4, UnmatchedEmits, EmitConserves
<1>5. CASE Match
  BY <1>5, MatchEmits, EmitConserves
<1>6. CASE DiscardSof
  BY <1>6 DEF DiscardSof, Conservation, EmittedFrames, Emitted, history
<1> QED BY <1>1, <1>2, <1>3, <1>4, <1>5, <1>6 DEF Next, TryMatch, DrainMatched

\* The leaving order, position by position.
LEMMA LeavingFacts ==
    ASSUME TypeOK
    PROVE  /\ DOMAIN LeavingOrder = 1..(Len(Emitted) + Len(canQ))
           /\ \A i \in 1..Len(Emitted) : LeavingOrder[i] = Emitted[i].frame
           /\ \A i \in 1..Len(canQ) : LeavingOrder[Len(Emitted) + i] = canQ[i]
           /\ DOMAIN canQ = 1..Len(canQ) /\ Len(canQ) \in Nat
<1> DEFINE S == DOMAIN frames
           E == [i \in DOMAIN Emitted |-> Emitted[i].frame]
<1>1. DOMAIN Emitted = 1..Len(Emitted) /\ Len(Emitted) \in Nat
  BY EmittedType
<1>2. E \in [1..Len(Emitted) -> S]
  BY <1>1, EmittedType
<1>3. E \in Seq(S) /\ Len(E) = Len(Emitted)
  BY <1>1, <1>2
<1>4. canQ \in Seq(S) /\ DOMAIN canQ = 1..Len(canQ) /\ Len(canQ) \in Nat
  BY LenProperties DEF TypeOK
<1>5. LeavingOrder = E \o canQ
  BY DEF LeavingOrder
<1>6. \A i \in 1..Len(Emitted) : E[i] = Emitted[i].frame
  BY <1>1
<1> HIDE DEF S, E
<1>7. /\ DOMAIN LeavingOrder = 1..(Len(E) + Len(canQ))
      /\ \A i \in 1..(Len(E) + Len(canQ)) :
            LeavingOrder[i] = IF i <= Len(E) THEN E[i] ELSE canQ[i - Len(E)]
  <2>1. /\ LeavingOrder \in Seq(S) /\ Len(LeavingOrder) = Len(E) + Len(canQ)
        /\ \A i \in 1..(Len(E) + Len(canQ)) :
              LeavingOrder[i] = IF i <= Len(E) THEN E[i] ELSE canQ[i - Len(E)]
    BY <1>3, <1>4, <1>5, ConcatProperties
  <2>2. DOMAIN LeavingOrder = 1..Len(LeavingOrder)
    BY <2>1, LenProperties
  <2> QED BY <2>1, <2>2
<1> QED BY <1>1, <1>3, <1>4, <1>6, <1>7

\* The emitted frames, then the queued ones, are in order as one sequence.
LEMMA LeavingIncreases == TypeOK /\ FrameOrder => FramesInOrder
<1> SUFFICES ASSUME TypeOK, FrameOrder,
                    NEW i \in DOMAIN LeavingOrder, NEW j \in DOMAIN LeavingOrder, i < j
             PROVE  LeavingOrder[i] < LeavingOrder[j]
  BY DEF FramesInOrder, Increasing
<1> DEFINE n == Len(Emitted)
<1>1. /\ DOMAIN Emitted = 1..n /\ n \in Nat /\ DOMAIN canQ = 1..Len(canQ) /\ Len(canQ) \in Nat
      /\ i \in 1..(n + Len(canQ)) /\ j \in 1..(n + Len(canQ))
      /\ \A k \in 1..n : LeavingOrder[k] = Emitted[k].frame
      /\ \A k \in 1..Len(canQ) : LeavingOrder[n + k] = canQ[k]
  BY EmittedType, LeavingFacts
<1> HIDE DEF n
<1>2. CASE j <= n
  BY <1>1, <1>2 DEF FrameOrder
<1>3. CASE n < j
  <2>1. j - n \in DOMAIN canQ /\ LeavingOrder[j] = canQ[j - n]
    BY <1>1, <1>3
  <2>2. CASE i <= n
    BY <1>1, <2>1, <2>2 DEF FrameOrder
  <2>3. CASE n < i
    <3>1. i - n \in DOMAIN canQ /\ LeavingOrder[i] = canQ[i - n] /\ i - n < j - n
      BY <1>1, <2>3
    <3> QED BY <2>1, <3>1 DEF FrameOrder, Increasing
  <2> QED BY <1>1, <2>2, <2>3
<1> QED BY <1>1, <1>2, <1>3

\* The frames in leaving order are those emitted and those queued.
LEMMA LeavingElements == TypeOK => ToSet(LeavingOrder) = EmittedFrames \cup ToSet(canQ)
<1> SUFFICES ASSUME TypeOK PROVE ToSet(LeavingOrder) = EmittedFrames \cup ToSet(canQ)
  OBVIOUS
<1> DEFINE n == Len(Emitted)
<1>1. /\ DOMAIN Emitted = 1..n /\ n \in Nat /\ DOMAIN canQ = 1..Len(canQ) /\ Len(canQ) \in Nat
      /\ DOMAIN LeavingOrder = 1..(n + Len(canQ))
      /\ \A k \in 1..n : LeavingOrder[k] = Emitted[k].frame
      /\ \A k \in 1..Len(canQ) : LeavingOrder[n + k] = canQ[k]
  BY EmittedType, LeavingFacts
<1> HIDE DEF n
<1>2. ASSUME NEW i \in DOMAIN LeavingOrder
      PROVE  LeavingOrder[i] \in EmittedFrames \cup ToSet(canQ)
  <2>1. CASE i <= n
    BY <1>1, <2>1 DEF EmittedFrames
  <2>2. CASE n < i
    <3>1. i - n \in DOMAIN canQ /\ LeavingOrder[i] = canQ[i - n]
      BY <1>1, <2>2
    <3> QED BY <3>1 DEF ToSet
  <2> QED BY <1>1, <2>1, <2>2
<1>3. ASSUME NEW i \in DOMAIN Emitted PROVE Emitted[i].frame \in ToSet(LeavingOrder)
  <2>1. i \in DOMAIN LeavingOrder /\ LeavingOrder[i] = Emitted[i].frame
    BY <1>1
  <2> QED BY <2>1 DEF ToSet
<1>4. ASSUME NEW k \in DOMAIN canQ PROVE canQ[k] \in ToSet(LeavingOrder)
  <2>1. n + k \in DOMAIN LeavingOrder /\ LeavingOrder[n + k] = canQ[k]
    BY <1>1
  <2> QED BY <2>1 DEF ToSet
<1> QED BY <1>2, <1>3, <1>4 DEF ToSet, EmittedFrames

\* Every frame given to ingest_frame is returned by drain_matched, about to be,
\* waiting, or was dropped by the full deque; frames leave in the order they
\* came, none twice, by whichever of the three ways out.
THEOREM FramesAreConserved == Spec => []FramesConserved
<1> DEFINE Inv == TypeOK /\ FrameOrder /\ Conservation
<1>1. Init => FrameOrder /\ Conservation
  BY DEF Init, FrameOrder, Conservation, EmittedFrames, Emitted, Increasing, ToSet
<1>2. Inv /\ [Next]_vars => Inv'
  BY TypeStep, FrameOrderStep, ConservationStep
<1>3. Inv => FramesConserved
  BY LeavingIncreases, LeavingElements DEF Conservation, FramesConserved
<1> QED BY <1>1, <1>2, <1>3, TypeInit, PTL DEF Spec

-----------------------------------------------------------------------------
(* Pairs do not cross.                                                     *)

\* The SOFs already paired come before the queued ones, and both are in order.
SofOrder ==
    /\ Increasing(pruQ)
    /\ PairsDoNotCross
    /\ \A i \in DOMAIN Emitted, k \in DOMAIN pruQ : Emitted[i].sof < pruQ[k]

\* The queued SOFs, by position.
LEMMA PruQueueFacts ==
    ASSUME TypeOK
    PROVE  /\ DOMAIN sofs = 1..Len(sofs) /\ Len(sofs) \in Nat /\ DOMAIN sofs \in SUBSET Nat
           /\ DOMAIN pruQ = 1..Len(pruQ) /\ Len(pruQ) \in Nat
           /\ \A k \in DOMAIN pruQ : pruQ[k] \in DOMAIN sofs
<1>1. DOMAIN sofs = 1..Len(sofs) /\ Len(sofs) \in Nat
  BY LenProperties DEF TypeOK
<1>2. DOMAIN pruQ = 1..Len(pruQ) /\ Len(pruQ) \in Nat
  BY LenProperties DEF TypeOK
<1>3. \A k \in DOMAIN pruQ : pruQ[k] \in DOMAIN sofs
  BY <1>2, ElementOfSeq DEF TypeOK
<1> QED BY <1>1, <1>2, <1>3

\* A frame emitted without a SOF uses none.
LEMMA UnmatchedKeepsSofOrder ==
    ASSUME TypeOK, SofOrder, EmitUnmatched \/ FlushStale
    PROVE  SofOrder'
<1> DEFINE e == Enrich(Head(canQ), NoPruTs)
           n == Len(Emitted)
<1>1. e \in EnrichedFrames /\ e.sof = NoPruTs /\ Emitted' = Append(Emitted, e) /\ pruQ' = pruQ
  BY UnmatchedEmits DEF EmitStep, Enrich
<1>2. /\ DOMAIN Emitted = 1..n /\ n \in Nat /\ DOMAIN Emitted' = 1..(n + 1)
      /\ \A i \in 1..n : Emitted'[i] = Emitted[i]
      /\ Emitted'[n + 1] = e
  BY <1>1, EmittedType, AppendFacts
<1> HIDE DEF e, n
<1>3. \A i \in DOMAIN Emitted' : Emitted'[i].sof /= NoPruTs => i \in 1..n
  BY <1>1, <1>2
<1>4. PairsDoNotCross'
  BY <1>2, <1>3 DEF SofOrder, PairsDoNotCross
<1>5. ASSUME NEW i \in DOMAIN Emitted', NEW k \in DOMAIN pruQ'
      PROVE  Emitted'[i].sof < pruQ'[k]
  <2>1. CASE i \in 1..n
    BY <1>1, <1>2, <2>1 DEF SofOrder
  <2>2. CASE i \notin 1..n
    BY <1>1, <1>2, <1>3, <2>2, PruQueueFacts DEF NoPruTs
  <2> QED BY <2>1, <2>2
<1> QED BY <1>1, <1>4, <1>5 DEF SofOrder

\* The SOF paired is the first of those queued.
LEMMA MatchKeepsSofOrder ==
    ASSUME TypeOK, SofOrder, Match
    PROVE  SofOrder'
<1> DEFINE e == Enrich(Head(canQ), Head(pruQ))
           n == Len(Emitted)
<1>1. /\ e \in EnrichedFrames /\ e.sof = Head(pruQ) /\ Emitted' = Append(Emitted, e)
      /\ pruQ /= <<>> /\ pruQ' = Tail(pruQ)
  BY MatchEmits DEF EmitStep, Enrich
<1>2. /\ DOMAIN Emitted = 1..n /\ n \in Nat /\ DOMAIN Emitted' = 1..(n + 1)
      /\ \A i \in 1..n : Emitted'[i] = Emitted[i]
      /\ Emitted'[n + 1] = e
  BY <1>1, EmittedType, AppendFacts
<1>3. pruQ \in Seq(DOMAIN sofs) /\ DOMAIN sofs \in SUBSET Nat
  BY PruQueueFacts DEF TypeOK
<1> HIDE DEF e, n
<1>4. Increasing(pruQ') /\ \A k \in DOMAIN pruQ' : e.sof < pruQ'[k]
  BY <1>1, <1>3, TailIncreasing DEF SofOrder
<1>5. /\ Head(pruQ) = pruQ[1] /\ 1 \in DOMAIN pruQ
      /\ \A k \in DOMAIN pruQ' : k + 1 \in DOMAIN pruQ /\ pruQ'[k] = pruQ[k + 1]
  BY <1>1, <1>3, TailFacts
<1>6. \A i \in 1..n : Emitted[i].sof < e.sof
  BY <1>1, <1>2, <1>5 DEF SofOrder
<1>7. PairsDoNotCross'
  <2> SUFFICES ASSUME NEW i \in DOMAIN Emitted', NEW j \in DOMAIN Emitted', i < j,
                      Emitted'[i].sof /= NoPruTs, Emitted'[j].sof /= NoPruTs
               PROVE  Emitted'[i].sof < Emitted'[j].sof
    BY DEF PairsDoNotCross
  <2>1. i \in 1..n /\ Emitted'[i] = Emitted[i]
    BY <1>2
  <2>2. CASE j = n + 1
    BY <1>2, <1>6, <2>1, <2>2
  <2>3. CASE j /= n + 1
    <3>1. j \in 1..n /\ Emitted'[j] = Emitted[j]
      BY <1>2, <2>3
    <3> QED BY <1>2, <2>1, <3>1 DEF SofOrder, PairsDoNotCross
  <2> QED BY <2>2, <2>3
<1>8. ASSUME NEW i \in DOMAIN Emitted', NEW k \in DOMAIN pruQ'
      PROVE  Emitted'[i].sof < pruQ'[k]
  <2>1. CASE i = n + 1
    BY <1>2, <1>4, <2>1
  <2>2. CASE i /= n + 1
    <3>1. i \in 1..n /\ Emitted'[i] = Emitted[i]
      BY <1>2, <2>2
    <3> QED BY <1>2, <1>5, <3>1 DEF SofOrder
  <2> QED BY <2>1, <2>2
<1> QED BY <1>4, <1>7, <1>8 DEF SofOrder

\* A SOF coming in has a greater number than any before it.
LEMMA IngestKeepsSofOrder ==
    ASSUME TypeOK, SofOrder, NEW t, IngestPru(t)
    PROVE  SofOrder'
<1> DEFINE x == Len(sofs) + 1
           S == 1..x
<1>1. pruQ \in Seq(S) /\ x \in S /\ S \in SUBSET Nat /\ Len(pruQ) <= QueueLen
  BY PruQueueFacts, SeqMonotonic DEF TypeOK
<1>2. pruQ' = PushBounded(pruQ, x, QueueLen) /\ Emitted' = Emitted
  BY DEF IngestPru, Emitted
<1>3. \A k \in DOMAIN pruQ : pruQ[k] < x
  BY PruQueueFacts
<1>4. \A i \in DOMAIN Emitted : Emitted[i].sof < x
  BY EmittedType, PruQueueFacts DEF NoPruTs
<1> HIDE DEF x, S
<1>5. Increasing(pruQ')
  BY <1>1, <1>2, <1>3, PushIncreasing DEF SofOrder
<1>6. ASSUME NEW i \in DOMAIN Emitted, NEW k \in DOMAIN pruQ'
      PROVE  Emitted[i].sof < pruQ'[k]
  <2>1. pruQ'[k] = x \/ \E j \in DOMAIN pruQ : pruQ'[k] = pruQ[j]
    BY <1>1, <1>2, PushElements
  <2> QED BY <1>4, <2>1 DEF SofOrder
<1> QED BY <1>2, <1>5, <1>6 DEF SofOrder, PairsDoNotCross

\* Every action keeps the SOFs in order.
LEMMA SofOrderStep == TypeOK /\ SofOrder /\ [Next]_vars => SofOrder'
<1> SUFFICES ASSUME TypeOK, SofOrder, [Next]_vars PROVE SofOrder'
  OBVIOUS
<1>1. CASE Tick \/ MatchReturn \/ DrainBegin \/ DrainReturn \/ UNCHANGED vars
  BY <1>1, QuietSteps DEF SofOrder, PairsDoNotCross
<1>2. ASSUME NEW t, IngestPru(t) PROVE SofOrder'
  BY <1>2, IngestKeepsSofOrder
<1>3. ASSUME NEW t, IngestFrame(t) PROVE SofOrder'
  BY <1>3 DEF IngestFrame, SofOrder, PairsDoNotCross, Emitted
<1>4. CASE EmitUnmatched \/ FlushStale
  BY <1>4, UnmatchedKeepsSofOrder
<1>5. CASE Match
  BY <1>5, MatchKeepsSofOrder
<1>6. CASE DiscardSof
  <2>1. pruQ \in Seq(DOMAIN sofs) /\ DOMAIN sofs \in SUBSET Nat /\ pruQ /= <<>>
    BY <1>6, PruQueueFacts DEF TypeOK, DiscardSof, BothQueued
  <2>2. Increasing(Tail(pruQ))
    BY <2>1, TailIncreasing DEF SofOrder
  <2>3. \A k \in DOMAIN Tail(pruQ) : k + 1 \in DOMAIN pruQ /\ Tail(pruQ)[k] = pruQ[k + 1]
    BY <2>1, TailFacts
  <2>4. Emitted' = Emitted /\ pruQ' = Tail(pruQ)
    BY <1>6 DEF DiscardSof, Emitted, history
  <2> QED BY <2>2, <2>3, <2>4 DEF SofOrder, PairsDoNotCross
<1> QED BY <1>1, <1>2, <1>3, <1>4, <1>5, <1>6 DEF Next, TryMatch, DrainMatched

\* A PRU timestamp is given to one frame only, and a later frame gets a later
\* one, whatever was discarded, dropped or emitted unmatched between them.
THEOREM PairsNeverCross == Spec => []PairsDoNotCross
<1> DEFINE Inv == TypeOK /\ SofOrder
<1>1. Init => SofOrder
  BY DEF Init, SofOrder, PairsDoNotCross, Emitted, Increasing
<1>2. Inv /\ [Next]_vars => Inv'
  BY TypeStep, SofOrderStep
<1>3. Inv => PairsDoNotCross
  BY DEF SofOrder
<1> QED BY <1>1, <1>2, <1>3, TypeInit, PTL DEF Spec

-----------------------------------------------------------------------------
(* Timestamps come in order.                                               *)

\* The timestamps in q do not go back.
Sorted(q) == \A i, j \in DOMAIN q : i <= j => q[i] <= q[j]

StampsSorted == Sorted(frames) /\ Sorted(sofs)

\* A timestamp no earlier than the last one keeps them in order.
LEMMA AppendSorted ==
    ASSUME NEW n \in Nat, NEW q \in Seq(0..n), Sorted(q), NEW t \in LastOr(q, 0)..n
    PROVE  Sorted(Append(q, t))
<1>1. t \in 0..n
  BY StampType
<1>2. /\ DOMAIN q = 1..Len(q) /\ Len(q) \in Nat
      /\ DOMAIN Append(q, t) = 1..(Len(q) + 1)
      /\ \A i \in 1..Len(q) : Append(q, t)[i] = q[i]
      /\ Append(q, t)[Len(q) + 1] = t
  BY <1>1, AppendFacts
<1>3. \A i \in 1..Len(q) : q[i] \in 0..n
  BY ElementOfSeq
<1>4. \A i \in 1..Len(q) : q[i] <= t
  <2> SUFFICES ASSUME NEW i \in 1..Len(q) PROVE q[i] <= t
    OBVIOUS
  <2>1. q /= <<>> /\ Len(q) \in DOMAIN q
    BY <1>2
  <2>2. q[i] <= q[Len(q)] /\ q[Len(q)] \in 0..n
    BY <1>2, <1>3, <2>1 DEF Sorted
  <2>3. q[Len(q)] <= t
    BY <2>1, <2>2 DEF LastOr
  <2> QED BY <1>1, <1>3, <2>2, <2>3
<1> SUFFICES ASSUME NEW i \in 1..(Len(q) + 1), NEW j \in 1..(Len(q) + 1), i <= j
             PROVE  Append(q, t)[i] <= Append(q, t)[j]
  BY <1>2 DEF Sorted
<1>5. CASE j = Len(q) + 1
  BY <1>1, <1>2, <1>4, <1>5
<1>6. CASE j /= Len(q) + 1
  <2>1. i \in 1..Len(q) /\ j \in 1..Len(q)
    BY <1>2, <1>6
  <2> QED BY <1>2, <2>1 DEF Sorted
<1> QED BY <1>5, <1>6

\* Only the two ingest calls add timestamps.
LEMMA StampsSortedStep == TypeOK /\ StampsSorted /\ [Next]_vars => StampsSorted'
<1> SUFFICES ASSUME TypeOK, StampsSorted, [Next]_vars PROVE StampsSorted'
  OBVIOUS
<1>0. now \in Nat /\ frames \in Seq(0..now) /\ sofs \in Seq(0..now)
  BY DEF TypeOK
<1>1. ASSUME NEW t \in LastOr(sofs, 0)..now, IngestPru(t) PROVE StampsSorted'
  BY <1>0, <1>1, AppendSorted DEF IngestPru, StampsSorted
<1>2. ASSUME NEW t \in LastOr(frames, 0)..now, IngestFrame(t) PROVE StampsSorted'
  BY <1>0, <1>2, AppendSorted DEF IngestFrame, StampsSorted
<1>3. CASE UNCHANGED <<frames, sofs>>
  BY <1>3 DEF StampsSorted
<1>4. CASE Tick \/ TryMatch \/ DrainMatched \/ UNCHANGED vars
  BY <1>3, <1>4
  DEF Tick, TryMatch, DrainMatched, EmitUnmatched, DiscardSof, Match, MatchReturn,
      DrainBegin, FlushStale, DrainReturn, vars, history
<1> QED BY <1>1, <1>2, <1>4 DEF Next

\* The queued frames by position, and their timestamps: none before the head's.
LEMMA CanQueueFacts ==
    ASSUME TypeOK, FrameOrder, StampsSorted, canQ /= <<>>
    PROVE  /\ Head(canQ) \in DOMAIN frames /\ DOMAIN frames \in SUBSET Nat
           /\ \A f \in DOMAIN frames : frames[f] \in 0..now
           /\ \A k \in DOMAIN canQ : /\ canQ[k] \in DOMAIN frames
                                     /\ Head(canQ) <= canQ[k]
                                     /\ frames[Head(canQ)] <= frames[canQ[k]]
<1>1. /\ DOMAIN frames = 1..Len(frames) /\ Len(frames) \in Nat
      /\ \A f \in 1..Len(frames) : frames[f] \in 0..now
  BY LenProperties, ElementOfSeq DEF TypeOK
<1>2. /\ Head(canQ) = canQ[1] /\ Head(canQ) \in DOMAIN frames
      /\ DOMAIN canQ = 1..Len(canQ) /\ Len(canQ) \in Nat \ {0}
  BY TailFacts DEF TypeOK
<1>3. ASSUME NEW k \in DOMAIN canQ
      PROVE  canQ[k] \in DOMAIN frames /\ Head(canQ) <= canQ[k]
  <2>1. canQ[k] \in DOMAIN frames
    BY <1>2, ElementOfSeq DEF TypeOK
  <2>2. CASE k = 1
    BY <1>1, <1>2, <2>1, <2>2
  <2>3. CASE k /= 1
    <3>1. 1 \in DOMAIN canQ /\ 1 < k
      BY <1>2, <2>3
    <3>2. canQ[1] < canQ[k]
      BY <3>1 DEF FrameOrder, Increasing
    <3> QED BY <1>1, <1>2, <2>1, <3>2
  <2> QED BY <2>1, <2>2, <2>3
<1>4. \A k \in DOMAIN canQ : frames[Head(canQ)] <= frames[canQ[k]]
  BY <1>2, <1>3 DEF StampsSorted, Sorted
<1> QED BY <1>1, <1>2, <1>3, <1>4

\* The queued SOFs have timestamps no earlier than the head's.
LEMMA PruQueueStamps ==
    ASSUME TypeOK, SofOrder, StampsSorted, pruQ /= <<>>
    PROVE  /\ \A s \in DOMAIN sofs : sofs[s] \in 0..now
           /\ Head(pruQ) \in DOMAIN sofs
           /\ \A s \in ToSet(pruQ) : s \in DOMAIN sofs /\ sofs[Head(pruQ)] <= sofs[s]
<1>1. \A s \in DOMAIN sofs : sofs[s] \in 0..now
  BY PruQueueFacts, ElementOfSeq DEF TypeOK
<1>2. /\ Head(pruQ) = pruQ[1] /\ Head(pruQ) \in DOMAIN sofs
      /\ DOMAIN pruQ = 1..Len(pruQ) /\ Len(pruQ) \in Nat \ {0}
  BY TailFacts DEF TypeOK
<1>3. ASSUME NEW k \in DOMAIN pruQ
      PROVE  pruQ[k] \in DOMAIN sofs /\ sofs[Head(pruQ)] <= sofs[pruQ[k]]
  <2>1. pruQ[k] \in DOMAIN sofs
    BY PruQueueFacts
  <2>2. Head(pruQ) <= pruQ[k]
    <3>1. CASE k = 1
      BY <1>2, <2>1, <3>1, PruQueueFacts
    <3>2. CASE k /= 1
      <4>1. 1 \in DOMAIN pruQ /\ 1 < k
        BY <1>2, <3>2
      <4>2. pruQ[1] < pruQ[k]
        BY <4>1 DEF SofOrder, Increasing
      <4> QED BY <1>2, <2>1, <4>2, PruQueueFacts
    <3> QED BY <3>1, <3>2
  <2> QED BY <1>2, <2>1, <2>2 DEF StampsSorted, Sorted
<1> QED BY <1>1, <1>2, <1>3 DEF ToSet

\* A frame left in the queue is no older than its head, which the loop examined.
LEMMA DrainKeepsYoung ==
    ASSUME TypeOK, FrameOrder, StampsSorted, DrainReturn, NEW f \in ToSet(canQ)
    PROVE  drainNow - frames[f] <= MaxDelta
<1>1. PICK k \in DOMAIN canQ : f = canQ[k]
  BY DEF ToSet
<1>2. now \in Nat /\ drainNow \in 0..now /\ canQ /= <<>>
  BY <1>1 DEF TypeOK
<1>3. /\ Head(canQ) \in DOMAIN frames /\ canQ[k] \in DOMAIN frames
      /\ frames[Head(canQ)] <= frames[canQ[k]]
      /\ \A g \in DOMAIN frames : frames[g] \in 0..now
  BY <1>2, CanQueueFacts
<1>4. ~(drainNow - frames[Head(canQ)] > MaxDelta)
  BY <1>2 DEF DrainReturn, HeadStale
<1> QED BY <1>1, <1>2, <1>3, <1>4

\* When drain_matched returns, every frame still held is young enough to wait,
\* although its loop looked at the oldest only: stamps come in order.
THEOREM OldFramesLeave == Spec => OnlyYoungFramesWait
<1> DEFINE Inv == TypeOK /\ FrameOrder /\ StampsSorted
<1>1. Init => FrameOrder /\ StampsSorted
  BY DEF Init, FrameOrder, Emitted, Increasing, StampsSorted, Sorted
<1>2. Inv /\ [Next]_vars => Inv'
  BY TypeStep, FrameOrderStep, StampsSortedStep
<1>3. Inv /\ [Next]_vars =>
        [DrainReturn => \A f \in ToSet(canQ') : drainNow - frames[f] <= MaxDelta]_vars
  <2>1. DrainReturn => canQ' = canQ
    BY DEF DrainReturn
  <2> QED BY <2>1, DrainKeepsYoung
<1> QED BY <1>1, <1>2, <1>3, TypeInit, PTL DEF Spec, OnlyYoungFramesWait

-----------------------------------------------------------------------------
(* No pair is missed.                                                      *)

\* A frame has come that is too late for SOF s, and so are the frames queued
\* and those to come.
Overtaken(s) ==
    \E f \in DOMAIN frames :
       /\ frames[f] - sofs[s] > MaxDelta
       /\ \A k \in DOMAIN canQ : f <= canQ[k]

\* Why a SOF that is neither queued nor used was given up.
DiscardsJustified == \A s \in UnusedSofs \ ToSet(pruQ) : Overtaken(s)

\* One more emitted frame uses up its SOF, and no other becomes unused.
LEMMA EmitUses ==
    ASSUME TypeOK, NEW e, EmitStep(e)
    PROVE  UnusedSofs' \subseteq UnusedSofs \ {e.sof}
<1>1. /\ e \in EnrichedFrames /\ Emitted' = Append(Emitted, e)
      /\ UNCHANGED <<sofs, lostSofs>>
  BY DEF EmitStep
<1>2. /\ DOMAIN Emitted = 1..Len(Emitted) /\ Len(Emitted) \in Nat
      /\ DOMAIN Emitted' = 1..(Len(Emitted) + 1)
      /\ \A i \in 1..Len(Emitted) : Emitted'[i] = Emitted[i]
      /\ Emitted'[Len(Emitted) + 1] = e
  BY <1>1, EmittedType, AppendFacts
<1>3. ASSUME NEW d \in ToSet(Emitted) PROVE d \in ToSet(Emitted')
  <2>1. PICK i \in 1..Len(Emitted) : d = Emitted[i]
    BY <1>2 DEF ToSet
  <2>2. i \in DOMAIN Emitted' /\ Emitted'[i] = d
    BY <1>2, <2>1
  <2> QED BY <2>2 DEF ToSet
<1>4. e \in ToSet(Emitted')
  <2>1. Len(Emitted) + 1 \in DOMAIN Emitted'
    BY <1>2
  <2> QED BY <1>2, <2>1 DEF ToSet
<1> QED BY <1>1, <1>3, <1>4 DEF UnusedSofs

\* Frames only leave the queue: a SOF overtaken before is overtaken still.
LEMMA PopKeepsOvertaken ==
    ASSUME TypeOK, canQ /= <<>>, canQ' = Tail(canQ), UNCHANGED <<frames, sofs>>,
           NEW s, Overtaken(s)
    PROVE  Overtaken(s)'
<1>1. PICK f \in DOMAIN frames : /\ frames[f] - sofs[s] > MaxDelta
                                 /\ \A k \in DOMAIN canQ : f <= canQ[k]
  BY DEF Overtaken
<1>2. \A k \in DOMAIN canQ' : k + 1 \in DOMAIN canQ /\ canQ'[k] = canQ[k + 1]
  BY TailFacts DEF TypeOK
<1> QED BY <1>1, <1>2 DEF Overtaken

\* A frame leaves without a SOF: the SOFs stay as they are.
LEMMA UnmatchedJustified ==
    ASSUME TypeOK, DiscardsJustified, EmitUnmatched \/ FlushStale
    PROVE  DiscardsJustified'
<1> DEFINE e == Enrich(Head(canQ), NoPruTs)
<1>1. EmitStep(e) /\ pruQ' = pruQ
  BY UnmatchedEmits
<1> HIDE DEF e
<1>2. UnusedSofs' \subseteq UnusedSofs
  BY <1>1, EmitUses
<1> SUFFICES ASSUME NEW s \in UnusedSofs' \ ToSet(pruQ') PROVE Overtaken(s)'
  BY DEF DiscardsJustified
<1>3. Overtaken(s)
  BY <1>1, <1>2 DEF DiscardsJustified
<1> QED BY <1>1, <1>3, PopKeepsOvertaken DEF EmitStep

\* The SOF that leaves the queue is used by the frame it is paired with.
LEMMA MatchJustified ==
    ASSUME TypeOK, DiscardsJustified, Match
    PROVE  DiscardsJustified'
<1> DEFINE e == Enrich(Head(canQ), Head(pruQ))
<1>1. EmitStep(e) /\ pruQ /= <<>> /\ pruQ' = Tail(pruQ) /\ e.sof = Head(pruQ)
  BY MatchEmits DEF Enrich
<1> HIDE DEF e
<1>2. UnusedSofs' \subseteq UnusedSofs \ {Head(pruQ)}
  BY <1>1, EmitUses
<1>3. ToSet(pruQ) = {Head(pruQ)} \cup ToSet(pruQ')
  BY <1>1, TailElements DEF TypeOK
<1> SUFFICES ASSUME NEW s \in UnusedSofs' \ ToSet(pruQ') PROVE Overtaken(s)'
  BY DEF DiscardsJustified
<1>4. Overtaken(s)
  BY <1>2, <1>3 DEF DiscardsJustified
<1> QED BY <1>1, <1>4, PopKeepsOvertaken DEF EmitStep

\* A SOF is discarded because of the oldest frame waiting.
LEMMA DiscardJustified ==
    ASSUME TypeOK, FrameOrder, StampsSorted, DiscardsJustified, DiscardSof
    PROVE  DiscardsJustified'
<1>1. /\ pruQ /= <<>> /\ canQ /= <<>> /\ HeadDelta > MaxDelta
      /\ pruQ' = Tail(pruQ)
      /\ UNCHANGED <<canQ, matched, frames, sofs, out, lostSofs>>
  BY DEF DiscardSof, BothQueued, history
<1>2. UnusedSofs' = UnusedSofs /\ \A s : Overtaken(s)' <=> Overtaken(s)
  BY <1>1 DEF UnusedSofs, Overtaken, Emitted
<1>3. ToSet(pruQ) = {Head(pruQ)} \cup ToSet(pruQ')
  BY <1>1, TailElements DEF TypeOK
<1>4. Overtaken(Head(pruQ))
  <2>1. /\ Head(canQ) \in DOMAIN frames
        /\ \A k \in DOMAIN canQ : Head(canQ) <= canQ[k]
    BY <1>1, CanQueueFacts
  <2> QED BY <1>1, <2>1 DEF Overtaken, HeadDelta
<1> QED BY <1>2, <1>3, <1>4 DEF DiscardsJustified

\* A SOF coming in is queued; the one it may evict counts as lost.
LEMMA IngestPruJustified ==
    ASSUME TypeOK, DiscardsJustified, NEW t \in LastOr(sofs, 0)..now, IngestPru(t)
    PROVE  DiscardsJustified'
<1> DEFINE x == Len(sofs) + 1
           S == 1..x
           dropped == PushEvicts(pruQ, QueueLen)
<1>1. pruQ \in Seq(S) /\ x \in S /\ Len(pruQ) <= QueueLen
  BY PruQueueFacts, SeqMonotonic DEF TypeOK
<1>2. /\ pruQ' = PushBounded(pruQ, x, QueueLen)
      /\ lostSofs' = lostSofs \cup dropped
      /\ sofs' = Append(sofs, t) /\ UNCHANGED <<canQ, frames>> /\ Emitted' = Emitted
  BY DEF IngestPru, Emitted
<1>3. /\ DOMAIN sofs' = DOMAIN sofs \cup {x}
      /\ \A s \in DOMAIN sofs : sofs'[s] = sofs[s]
  <2>1. t \in 0..now /\ sofs \in Seq(0..now)
    BY StampType DEF TypeOK
  <2>2. /\ DOMAIN sofs = 1..Len(sofs) /\ Len(sofs) \in Nat /\ DOMAIN sofs' = 1..(Len(sofs) + 1)
        /\ \A s \in 1..Len(sofs) : sofs'[s] = sofs[s]
    BY <1>2, <2>1, AppendFacts
  <2> QED BY <2>2
<1> HIDE DEF x, S
<1>4. ToSet(pruQ') \cup dropped = ToSet(pruQ) \cup {x}
  BY <1>1, <1>2, PushConserves
<1>5. x \in ToSet(pruQ')
  BY <1>1, <1>2, PushFacts DEF ToSet
<1> SUFFICES ASSUME NEW s \in UnusedSofs' \ ToSet(pruQ') PROVE Overtaken(s)'
  BY DEF DiscardsJustified
<1>6. s \in DOMAIN sofs /\ s \in UnusedSofs /\ s \notin dropped
  BY <1>2, <1>3, <1>5 DEF UnusedSofs
<1>7. Overtaken(s)
  BY <1>4, <1>6 DEF DiscardsJustified
<1> QED BY <1>2, <1>3, <1>6, <1>7 DEF Overtaken

\* A frame coming in is behind all others.
LEMMA IngestFrameJustified ==
    ASSUME TypeOK, DiscardsJustified, NEW t \in LastOr(frames, 0)..now, IngestFrame(t)
    PROVE  DiscardsJustified'
<1> DEFINE x == Len(frames) + 1
           S == 1..x
<1>1. /\ canQ \in Seq(S) /\ x \in S /\ Len(canQ) <= QueueLen
      /\ \A f \in DOMAIN frames : f \in Nat /\ f <= x
  <2>1. DOMAIN frames = 1..Len(frames) /\ Len(frames) \in Nat
    BY LenProperties DEF TypeOK
  <2> QED BY <2>1, SeqMonotonic DEF TypeOK
<1>2. /\ canQ' = PushBounded(canQ, x, QueueLen) /\ frames' = Append(frames, t)
      /\ UNCHANGED <<pruQ, sofs, lostSofs>> /\ Emitted' = Emitted
  BY DEF IngestFrame, Emitted
<1>3. \A f \in DOMAIN frames : f \in DOMAIN frames' /\ frames'[f] = frames[f]
  <2>1. t \in 0..now /\ frames \in Seq(0..now)
    BY StampType DEF TypeOK
  <2> QED BY <1>2, <2>1, AppendFacts
<1> HIDE DEF x, S
<1> SUFFICES ASSUME NEW s \in UnusedSofs' \ ToSet(pruQ') PROVE Overtaken(s)'
  BY DEF DiscardsJustified
<1>4. s \in UnusedSofs \ ToSet(pruQ)
  BY <1>2 DEF UnusedSofs
<1>5. PICK f \in DOMAIN frames : /\ frames[f] - sofs[s] > MaxDelta
                                 /\ \A k \in DOMAIN canQ : f <= canQ[k]
  BY <1>4 DEF DiscardsJustified, Overtaken
<1>6. ASSUME NEW k \in DOMAIN canQ' PROVE f <= canQ'[k]
  <2>1. canQ'[k] = x \/ \E j \in DOMAIN canQ : canQ'[k] = canQ[j]
    BY <1>1, <1>2, PushElements
  <2> QED BY <1>1, <1>5, <2>1
<1> QED BY <1>2, <1>3, <1>5, <1>6 DEF Overtaken

\* Every action keeps discards justified.
LEMMA DiscardsJustifiedStep ==
    TypeOK /\ FrameOrder /\ StampsSorted /\ DiscardsJustified /\ [Next]_vars
      => DiscardsJustified'
<1> SUFFICES ASSUME TypeOK, FrameOrder, StampsSorted, DiscardsJustified, [Next]_vars
             PROVE  DiscardsJustified'
  OBVIOUS
<1>1. CASE Tick \/ MatchReturn \/ DrainBegin \/ DrainReturn \/ UNCHANGED vars
  BY <1>1, QuietSteps DEF DiscardsJustified, UnusedSofs, Overtaken
<1>2. ASSUME NEW t \in LastOr(sofs, 0)..now, IngestPru(t) PROVE DiscardsJustified'
  BY <1>2, IngestPruJustified
<1>3. ASSUME NEW t \in LastOr(frames, 0)..now, IngestFrame(t) PROVE DiscardsJustified'
  BY <1>3, IngestFrameJustified
<1>4. CASE EmitUnmatched \/ FlushStale
  BY <1>4, UnmatchedJustified
<1>5. CASE Match
  BY <1>5, MatchJustified
<1>6. CASE DiscardSof
  BY <1>6, DiscardJustified
<1> QED BY <1>1, <1>2, <1>3, <1>4, <1>5, <1>6 DEF Next, TryMatch, DrainMatched

PairingInv ==
    /\ TypeOK /\ QueuesMet
    /\ FrameOrder /\ SofOrder /\ StampsSorted
    /\ DiscardsJustified

\* No unused SOF fits the frame that leaves without one: those given up were
\* too early for a frame before it, those queued are later than it.
LEMMA UnmatchedFitsNone ==
    ASSUME PairingInv, EmitUnmatched \/ FlushStale, NEW s \in UnusedSofs
    PROVE  ~InWindow(s, Head(canQ))
<1> DEFINE h == Head(canQ)
<1>1. canQ /= <<>>
  BY DEF EmitUnmatched, FlushStale, BothQueued, HeadStale
<1>2. /\ h \in DOMAIN frames /\ DOMAIN frames \in SUBSET Nat
      /\ \A f \in DOMAIN frames : frames[f] \in Nat
      /\ s \in DOMAIN sofs /\ sofs[s] \in Nat
  <2>1. now \in Nat /\ sofs \in Seq(0..now)
    BY DEF PairingInv, TypeOK
  <2>2. \A f \in DOMAIN frames : frames[f] \in 0..now
    BY <1>1, CanQueueFacts DEF PairingInv
  <2>3. s \in DOMAIN sofs
    BY DEF UnusedSofs
  <2>4. sofs[s] \in 0..now
    BY <2>1, <2>3, ElementOfSeq, LenProperties
  <2> QED BY <1>1, <2>1, <2>2, <2>3, <2>4, CanQueueFacts DEF PairingInv
<1>3. CASE s \notin ToSet(pruQ)
  <2>1. PICK f \in DOMAIN frames : /\ frames[f] - sofs[s] > MaxDelta
                                   /\ \A k \in DOMAIN canQ : f <= canQ[k]
    BY <1>3 DEF PairingInv, DiscardsJustified, Overtaken
  <2>2. h = canQ[1] /\ 1 \in DOMAIN canQ
    BY <1>1, TailFacts DEF PairingInv, TypeOK
  <2>3. frames[f] <= frames[h]
    BY <1>2, <2>1, <2>2 DEF PairingInv, StampsSorted, Sorted
  <2> HIDE DEF h
  <2>4. frames[h] - sofs[s] > MaxDelta
    BY <1>2, <2>1, <2>3
  <2> QED BY <1>2, <2>4 DEF InWindow, h
<1>4. CASE s \in ToSet(pruQ)
  <2>1. pruQ /= <<>>
    BY <1>4 DEF ToSet
  <2>2. EmitUnmatched
    BY <1>1, <2>1 DEF PairingInv, QueuesMet, FlushStale
  <2>3. /\ Head(pruQ) \in DOMAIN sofs /\ sofs[Head(pruQ)] \in Nat
        /\ sofs[Head(pruQ)] <= sofs[s]
    <3>1. now \in Nat
      BY DEF PairingInv, TypeOK
    <3> QED BY <1>4, <2>1, <3>1, PruQueueStamps DEF PairingInv
  <2>4. frames[h] - sofs[Head(pruQ)] < 0
    BY <2>2 DEF EmitUnmatched, HeadDelta
  <2> HIDE DEF h
  <2>5. frames[h] - sofs[s] < 0
    BY <1>2, <2>3, <2>4
  <2> QED BY <1>2, <2>5 DEF InWindow, h
<1> QED BY <1>3, <1>4

\* What one step newly emits without a SOF is the oldest frame waiting.
LEMMA NewlyUnmatched ==
    ASSUME TypeOK, [Next]_vars, NEW e \in ToSet(Emitted') \ ToSet(Emitted),
           e.sof = NoPruTs
    PROVE  (EmitUnmatched \/ FlushStale) /\ e.frame = Head(canQ)
<1>1. ASSUME NEW d, EmitStep(d) PROVE e = d
  <2>1. /\ d \in EnrichedFrames /\ Emitted' = Append(Emitted, d)
    BY <1>1 DEF EmitStep
  <2>2. /\ DOMAIN Emitted = 1..Len(Emitted) /\ Len(Emitted) \in Nat
        /\ DOMAIN Emitted' = 1..(Len(Emitted) + 1)
        /\ \A i \in 1..Len(Emitted) : Emitted'[i] = Emitted[i]
        /\ Emitted'[Len(Emitted) + 1] = d
    BY <2>1, EmittedType, AppendFacts
  <2>3. PICK i \in 1..(Len(Emitted) + 1) : e = Emitted'[i]
    BY <2>2 DEF ToSet
  <2>4. i \notin 1..Len(Emitted)
    BY <2>2, <2>3 DEF ToSet
  <2> QED BY <2>2, <2>3, <2>4
<1>2. CASE EmitUnmatched \/ FlushStale
  BY <1>1, <1>2, UnmatchedEmits DEF EmitStep
<1>3. CASE Match
  <2>1. /\ pruQ /= <<>> /\ e = Enrich(Head(canQ), Head(pruQ))
    BY <1>1, <1>3, MatchEmits
  <2>2. Head(pruQ) \in DOMAIN sofs /\ DOMAIN sofs = 1..Len(sofs)
    BY <2>1, HeadSof, PruQueueFacts
  <2> QED BY <2>1, <2>2 DEF Enrich, NoPruTs
<1>4. CASE Emitted' = Emitted
  BY <1>4
<1>5. CASE Tick \/ MatchReturn \/ DrainBegin \/ DrainReturn \/ UNCHANGED vars
  BY <1>4, <1>5, QuietSteps
<1>6. ASSUME NEW t, IngestPru(t) \/ IngestFrame(t)
      PROVE  Emitted' = Emitted
  BY <1>6 DEF IngestPru, IngestFrame, Emitted
<1>7. CASE DiscardSof
  BY <1>4, <1>7 DEF DiscardSof, Emitted, history
<1> QED BY <1>2, <1>3, <1>4, <1>5, <1>6, <1>7 DEF Next, TryMatch, DrainMatched

LEMMA PairingInit == Init => PairingInv
<1>1. Init => QueuesMet /\ FrameOrder /\ SofOrder /\ StampsSorted
  BY DEF Init, QueuesMet, FrameOrder, SofOrder, PairsDoNotCross, Emitted, Increasing,
         StampsSorted, Sorted
<1>2. Init => DiscardsJustified
  BY DEF Init, DiscardsJustified, UnusedSofs
<1> QED BY <1>1, <1>2, TypeInit DEF PairingInv

LEMMA PairingStep == PairingInv /\ [Next]_vars => PairingInv'
BY TypeStep, QueuesMetStep, FrameOrderStep, SofOrderStep, StampsSortedStep,
   DiscardsJustifiedStep
DEF PairingInv

\* Whatever a step emits without a SOF, no unused SOF fits.
LEMMA EmittedFitsNone ==
    ASSUME PairingInv, [Next]_vars,
           NEW e \in ToSet(Emitted') \ ToSet(Emitted), e.sof = NoPruTs,
           NEW s \in UnusedSofs
    PROVE  ~InWindow(s, e.frame)
<1>1. (EmitUnmatched \/ FlushStale) /\ e.frame = Head(canQ)
  BY NewlyUnmatched DEF PairingInv
<1> QED BY <1>1, UnmatchedFitsNone

\* A frame leaves without a PRU timestamp only if no SOF ingested so far and
\* still unused fits it: neither a discard nor giving up on a frame costs a
\* pair, for any window and any length of the deques.
THEOREM PairsAreNotMissed == Spec => NoPairMissed
<1>1. PairingInv /\ [Next]_vars =>
        [\A e \in ToSet(Emitted') \ ToSet(Emitted) :
            e.sof = NoPruTs => \A s \in UnusedSofs : ~InWindow(s, e.frame)]_vars
  BY EmittedFitsNone
<1> QED BY <1>1, PairingInit, PairingStep, PTL DEF Spec, NoPairMissed

-----------------------------------------------------------------------------
(* What a program built on the correlator can count on.                    *)

CorrelatorInv == PairingInv /\ Conservation

LEMMA CorrelatorInit == Init => CorrelatorInv
<1>1. Init => Conservation
  BY DEF Init, Conservation, EmittedFrames, Emitted, ToSet
<1> QED BY <1>1, PairingInit DEF CorrelatorInv

LEMMA CorrelatorStep == CorrelatorInv /\ [Next]_vars => CorrelatorInv'
BY PairingStep, ConservationStep DEF CorrelatorInv, PairingInv

LEMMA CorrelatorSays ==
    CorrelatorInv => TypeOK /\ NothingLeftToMatch /\ FramesConserved /\ PairsDoNotCross
<1> SUFFICES ASSUME CorrelatorInv
             PROVE  TypeOK /\ NothingLeftToMatch /\ FramesConserved /\ PairsDoNotCross
  OBVIOUS
<1>1. TypeOK /\ QueuesMet /\ FrameOrder /\ SofOrder /\ Conservation
  BY DEF CorrelatorInv, PairingInv
<1>2. NothingLeftToMatch
  BY <1>1 DEF QueuesMet, NothingLeftToMatch
<1>3. FramesConserved
  BY <1>1, LeavingIncreases, LeavingElements DEF Conservation, FramesConserved
<1> QED BY <1>1, <1>2, <1>3 DEF SofOrder

\* When drain_matched returns, every frame ingested has been returned, was
\* dropped, or is no older than the window.
LEMMA DrainLeavesYoung ==
    ASSUME CorrelatorInv, DrainReturn, NEW f \in DOMAIN frames \ lostFrames
    PROVE  (\E i \in DOMAIN out' : out'[i].frame = f) \/ drainNow - frames[f] <= MaxDelta
<1>1. TypeOK /\ FrameOrder /\ StampsSorted /\ Conservation
  BY DEF CorrelatorInv, PairingInv
<1>2. f \in EmittedFrames \/ f \in ToSet(canQ)
  BY <1>1 DEF Conservation
<1>3. CASE f \in EmittedFrames
  BY <1>3 DEF EmittedFrames, Emitted, DrainReturn
<1>4. CASE f \in ToSet(canQ)
  BY <1>1, <1>4, DrainKeepsYoung
<1> QED BY <1>2, <1>3, <1>4

-----------------------------------------------------------------------------
(* The correlator is a conduit.                                            *)

\* The frame numbers of a sequence of enriched frames.
FramesOf(q) == [i \in DOMAIN q |-> q[i].frame]

LEMMA FramesOfFacts ==
    ASSUME NEW R, NEW S, \A e \in R : e.frame \in S, NEW q \in Seq(R)
    PROVE  /\ FramesOf(q) \in Seq(S) /\ Len(FramesOf(q)) = Len(q) /\ Len(q) \in Nat
           /\ \A i \in 1..Len(q) : FramesOf(q)[i] = q[i].frame
<1>1. DOMAIN q = 1..Len(q) /\ Len(q) \in Nat
  BY LenProperties
<1>2. \A i \in 1..Len(q) : q[i].frame \in S
  BY ElementOfSeq
<1>3. FramesOf(q) \in [1..Len(q) -> S]
  BY <1>1, <1>2 DEF FramesOf
<1>4. FramesOf(q) \in Seq(S) /\ Len(FramesOf(q)) = Len(q)
  BY <1>1, <1>3, FunctionIsSeq
<1> QED BY <1>1, <1>4 DEF FramesOf

\* One more enriched frame is one more frame number.
LEMMA FramesOfAppend ==
    ASSUME NEW R, NEW S, \A e \in R : e.frame \in S, NEW q \in Seq(R), NEW x \in R
    PROVE  FramesOf(Append(q, x)) = Append(FramesOf(q), x.frame)
<1> DEFINE l == FramesOf(Append(q, x))
           r == Append(FramesOf(q), x.frame)
<1>1. /\ Append(q, x) \in Seq(R) /\ Len(q) \in Nat /\ Len(Append(q, x)) = Len(q) + 1
      /\ \A i \in 1..Len(q) : Append(q, x)[i] = q[i]
      /\ Append(q, x)[Len(q) + 1] = x
  BY AppendFacts
<1>2. /\ l \in Seq(S) /\ Len(l) = Len(q) + 1
      /\ \A i \in 1..(Len(q) + 1) : l[i] = Append(q, x)[i].frame
  BY <1>1, FramesOfFacts
<1>3. /\ FramesOf(q) \in Seq(S) /\ Len(FramesOf(q)) = Len(q)
      /\ \A i \in 1..Len(q) : FramesOf(q)[i] = q[i].frame
  BY FramesOfFacts
<1>4. /\ r \in Seq(S) /\ Len(r) = Len(q) + 1
      /\ \A i \in 1..Len(q) : r[i] = q[i].frame
      /\ r[Len(q) + 1] = x.frame
  <2>1. x.frame \in S
    OBVIOUS
  <2>2. /\ r \in Seq(S) /\ Len(r) = Len(FramesOf(q)) + 1
        /\ \A i \in 1..Len(FramesOf(q)) : r[i] = FramesOf(q)[i]
        /\ r[Len(FramesOf(q)) + 1] = x.frame
    BY <1>3, <2>1, AppendFacts
  <2> HIDE DEF r
  <2> QED BY <1>3, <2>2
<1> HIDE DEF l, r
<1>5. \A i \in 1..(Len(q) + 1) : l[i] = r[i]
  <2> SUFFICES ASSUME NEW i \in 1..(Len(q) + 1) PROVE l[i] = r[i]
    OBVIOUS
  <2>1. CASE i = Len(q) + 1
    BY <1>1, <1>2, <1>4, <2>1
  <2>2. CASE i /= Len(q) + 1
    <3>1. i \in 1..Len(q)
      BY <1>1, <2>2
    <3> QED BY <1>1, <1>2, <1>4, <3>1
  <2> QED BY <2>1, <2>2
<1>6. l = r
  BY <1>2, <1>4, <1>5, SeqEqual
<1> QED BY <1>6 DEF l, r

\* Two sequences of enriched frames put together.
LEMMA FramesOfConcat ==
    ASSUME NEW R, NEW S, \A e \in R : e.frame \in S, NEW p \in Seq(R), NEW q \in Seq(R)
    PROVE  FramesOf(p \o q) = FramesOf(p) \o FramesOf(q)
<1> DEFINE l == FramesOf(p \o q)
           r == FramesOf(p) \o FramesOf(q)
<1>1. /\ p \o q \in Seq(R) /\ Len(p) \in Nat /\ Len(q) \in Nat
      /\ Len(p \o q) = Len(p) + Len(q)
      /\ \A i \in 1..Len(p) : (p \o q)[i] = p[i]
      /\ \A i \in 1..Len(q) : (p \o q)[Len(p) + i] = q[i]
  BY ConcatFacts
<1>2. /\ l \in Seq(S) /\ Len(l) = Len(p) + Len(q)
      /\ \A i \in 1..(Len(p) + Len(q)) : l[i] = (p \o q)[i].frame
  BY <1>1, FramesOfFacts
<1>3. /\ FramesOf(p) \in Seq(S) /\ Len(FramesOf(p)) = Len(p)
      /\ FramesOf(q) \in Seq(S) /\ Len(FramesOf(q)) = Len(q)
      /\ \A i \in 1..Len(p) : FramesOf(p)[i] = p[i].frame
      /\ \A i \in 1..Len(q) : FramesOf(q)[i] = q[i].frame
  BY FramesOfFacts
<1>4. /\ r \in Seq(S) /\ Len(r) = Len(p) + Len(q)
      /\ \A i \in 1..Len(p) : r[i] = p[i].frame
      /\ \A i \in 1..Len(q) : r[Len(p) + i] = q[i].frame
  <2>1. /\ r \in Seq(S) /\ Len(r) = Len(FramesOf(p)) + Len(FramesOf(q))
        /\ \A i \in 1..Len(FramesOf(p)) : r[i] = FramesOf(p)[i]
        /\ \A i \in 1..Len(FramesOf(q)) : r[Len(FramesOf(p)) + i] = FramesOf(q)[i]
    <3> DEFINE a == FramesOf(p)
               b == FramesOf(q)
    <3>1. a \in Seq(S) /\ b \in Seq(S) /\ r = a \o b
      BY <1>3
    <3> HIDE DEF a, b, r
    <3>2. /\ r \in Seq(S) /\ Len(r) = Len(a) + Len(b)
          /\ \A i \in 1..Len(a) : r[i] = a[i]
          /\ \A i \in 1..Len(b) : r[Len(a) + i] = b[i]
      BY <3>1, ConcatFacts
    <3> QED BY <3>2 DEF a, b
  <2> HIDE DEF r
  <2> QED BY <1>3, <2>1
<1> HIDE DEF l, r
<1>5. \A i \in 1..(Len(p) + Len(q)) : l[i] = r[i]
  <2> SUFFICES ASSUME NEW i \in 1..(Len(p) + Len(q)) PROVE l[i] = r[i]
    OBVIOUS
  <2>1. CASE i <= Len(p)
    <3>1. i \in 1..Len(p)
      BY <1>1, <2>1
    <3> QED BY <1>1, <1>2, <1>4, <3>1
  <2>2. CASE Len(p) < i
    <3>1. PICK k \in 1..Len(q) : i = Len(p) + k
      <4>1. i - Len(p) \in 1..Len(q) /\ i = Len(p) + (i - Len(p))
        BY <1>1, <2>2
      <4> QED BY <4>1
    <3>2. l[i] = q[k].frame
      BY <1>1, <1>2, <3>1
    <3> QED BY <1>4, <3>1, <3>2
  <2> QED BY <1>1, <2>1, <2>2
<1>6. l = r
  BY <1>2, <1>4, <1>5, SeqEqual
<1> QED BY <1>6 DEF l, r

\* What the refinement takes for the frames held.
Held == FramesOf(matched) \o canQ

LEMMA HeldFacts ==
    ASSUME TypeOK
    PROVE  /\ \A e \in EnrichedFrames : e.frame \in Nat
           /\ matched \in Seq(EnrichedFrames) /\ out \in Seq(EnrichedFrames)
           /\ FramesOf(matched) \in Seq(Nat) /\ canQ \in Seq(Nat)
           /\ FramesOf(out) \in Seq(Nat)
           /\ Len(frames) \in Nat /\ Len(FramesOf(matched)) = Len(matched)
           /\ Len(matched) \in Nat /\ Len(canQ) \in Nat
<1>1. DOMAIN frames = 1..Len(frames) /\ Len(frames) \in Nat
  BY LenProperties DEF TypeOK
<1>2. DOMAIN frames \subseteq Nat
  BY <1>1
<1>3. canQ \in Seq(Nat)
  BY <1>2, SeqMonotonic DEF TypeOK
<1>4. \A e \in EnrichedFrames : e.frame \in Nat
  BY <1>2 DEF EnrichedFrames
<1>5. matched \in Seq(EnrichedFrames) /\ out \in Seq(EnrichedFrames)
  BY DEF TypeOK
<1> QED BY <1>1, <1>3, <1>4, <1>5, FramesOfFacts, LenProperties

\* Emitting a frame moves it from _can_q to _matched: it is held as before.
LEMMA EmitHolds ==
    ASSUME TypeOK, EmitUnmatched \/ FlushStale \/ Match
    PROVE  Held' = Held /\ UNCHANGED <<frames, out, lostFrames>>
<1>1. PICK e \in EnrichedFrames :
         /\ e.frame = Head(canQ) /\ matched' = Append(matched, e)
         /\ canQ /= <<>> /\ canQ' = Tail(canQ)
         /\ UNCHANGED <<frames, out, lostFrames>>
  <2>1. CASE EmitUnmatched \/ FlushStale
    <3>1. Enrich(Head(canQ), NoPruTs) \in EnrichedFrames
      BY <2>1, HeadFrame DEF EmitUnmatched, FlushStale, BothQueued, HeadStale, Enrich, EnrichedFrames
    <3> QED BY <2>1, <3>1 DEF EmitUnmatched, FlushStale, BothQueued, HeadStale, Enrich, history
  <2>2. CASE Match
    <3>1. Enrich(Head(canQ), Head(pruQ)) \in EnrichedFrames
      BY <2>2, HeadFrame, HeadSof DEF Match, BothQueued, Enrich, EnrichedFrames
    <3> QED BY <2>2, <3>1 DEF Match, BothQueued, Enrich, history
  <2> QED BY <2>1, <2>2
<1>2. FramesOf(matched') = Append(FramesOf(matched), Head(canQ))
  BY <1>1, HeldFacts, FramesOfAppend
<1>3. Append(FramesOf(matched), Head(canQ)) \o Tail(canQ) = FramesOf(matched) \o canQ
  BY <1>1, HeldFacts, MoveHead
<1> QED BY <1>1, <1>2, <1>3 DEF Held

\* A frame coming in is accepted; if _can_q was full its head is lost, which is
\* the frame held longest of those not yet emitted.
LEMMA IngestAccepts ==
    ASSUME TypeOK, NEW t, IngestFrame(t)
    PROVE  Conduit!Accept \/ Conduit!AcceptWithLoss
<1> DEFINE M == FramesOf(matched)
           x == Len(frames) + 1
<1>1. /\ M \in Seq(Nat) /\ canQ \in Seq(Nat) /\ x \in Nat /\ Len(M) \in Nat
      /\ Len(canQ) <= QueueLen /\ Len(canQ) \in Nat
  BY HeldFacts DEF TypeOK
<1>2. /\ Len(frames) < MaxFrames /\ matched' = matched /\ out' = out
      /\ canQ' = PushBounded(canQ, x, QueueLen)
      /\ lostFrames' = lostFrames \cup PushEvicts(canQ, QueueLen)
      /\ frames' = Append(frames, t)
  BY DEF IngestFrame
<1>3. Len(frames') = Len(frames) + 1
  <2>1. frames \in Seq(0..now) /\ frames \in Seq((0..now) \cup {t}) /\ t \in (0..now) \cup {t}
    BY SeqMonotonic DEF TypeOK
  <2> QED BY <1>2, <2>1, AppendFacts
<1> HIDE DEF M
<1>4. CASE Len(canQ) < QueueLen
  <2>1. canQ' = Append(canQ, x) /\ lostFrames' = lostFrames
    BY <1>2, <1>4 DEF PushBounded, PushEvicts
  <2>2. M \o Append(canQ, x) = Append(M \o canQ, x)
    BY <1>1, AppendToConcat
  <2>3. Held' = Append(Held, x)
    BY <1>2, <2>1, <2>2 DEF Held, M
  <2> QED BY <1>2, <1>3, <2>1, <2>3 DEF Conduit!Accept, Held, FramesOf
<1>5. CASE Len(canQ) = QueueLen
  <2>1. /\ canQ /= <<>> /\ canQ' = Append(Tail(canQ), x)
        /\ lostFrames' = lostFrames \cup {Head(canQ)}
    BY <1>2, <1>5 DEF PushBounded, PushEvicts
  <2>2. /\ Len(M) + 1 \in DOMAIN Held
        /\ Held[Len(M) + 1] = Head(canQ)
        /\ RemoveAt(Held, Len(M) + 1) = M \o Tail(canQ)
    BY <1>1, <2>1, RemoveWhereMet DEF Held, M
  <2>3. M \o Append(Tail(canQ), x) = Append(M \o Tail(canQ), x)
    BY <1>1, <2>1, TailFacts, AppendToConcat
  <2>4. Held' = Append(RemoveAt(Held, Len(M) + 1), x)
    BY <1>2, <2>1, <2>2, <2>3 DEF Held, M
  <2>5. Len(Held) >= QueueLen
    BY <1>1, <1>5, ConcatFacts DEF Held, M
  <2>6. \E i \in DOMAIN Held : /\ Held' = Append(RemoveAt(Held, i), x)
                               /\ lostFrames' = lostFrames \cup {Held[i]}
    BY <2>1, <2>2, <2>4
  <2>7. \A i : RemoveAt(Held, i) = Conduit!RemoveAt(Held, i)
    BY DEF RemoveAt, Conduit!RemoveAt
  <2>8. \E i \in DOMAIN Held : /\ Held' = Append(Conduit!RemoveAt(Held, i), x)
                               /\ lostFrames' = lostFrames \cup {Held[i]}
    BY <2>6, <2>7
  <2> QED BY <1>2, <1>3, <2>5, <2>8 DEF Conduit!AcceptWithLoss, Held, FramesOf
<1> QED BY <1>1, <1>4, <1>5

\* drain_matched returns what was emitted: the frames held longest.
LEMMA DrainDelivers ==
    ASSUME TypeOK, DrainReturn
    PROVE  Conduit!Deliver \/ UNCHANGED <<frames, Held, FramesOf(out), lostFrames>>
<1> DEFINE M == FramesOf(matched)
<1>1. /\ M \in Seq(Nat) /\ canQ \in Seq(Nat) /\ FramesOf(out) \in Seq(Nat)
      /\ Len(M) = Len(matched) /\ Len(M) \in Nat /\ Len(canQ) \in Nat
  BY HeldFacts
<1>2. /\ out' = out \o matched /\ matched' = <<>>
      /\ UNCHANGED <<canQ, frames, lostFrames>>
  BY DEF DrainReturn
<1>3. FramesOf(out') = FramesOf(out) \o M
  BY <1>2, HeldFacts, FramesOfConcat
<1>4. Held' = canQ
  <2>1. FramesOf(<<>>) = <<>>
    BY DEF FramesOf
  <2> QED BY <1>1, <1>2, <2>1, ConcatEmptySeq DEF Held
<1> HIDE DEF M
<1>5. /\ SubSeq(Held, 1, Len(M)) = M
      /\ SubSeq(Held, Len(M) + 1, Len(Held)) = canQ
      /\ Len(Held) = Len(M) + Len(canQ)
  <2>1. Held = M \o canQ
    BY DEF Held, M
  <2>2. /\ SubSeq(M \o canQ, 1, Len(M)) = M
        /\ SubSeq(M \o canQ, Len(M) + 1, Len(M \o canQ)) = canQ
    BY <1>1, CutConcat
  <2>3. Len(M \o canQ) = Len(M) + Len(canQ)
    BY <1>1, ConcatFacts
  <2> QED BY <2>1, <2>2, <2>3
<1>6. CASE Len(M) = 0
  <2>1. M = <<>>
    BY <1>1, <1>6, EmptySeq
  <2>2. Held = canQ /\ FramesOf(out') = FramesOf(out)
    BY <1>1, <1>3, <2>1, ConcatEmptySeq DEF Held, M
  <2> QED BY <1>2, <1>4, <2>2 DEF FramesOf
<1>7. CASE Len(M) /= 0
  <2>1. Len(M) \in 1..Len(Held)
    BY <1>1, <1>5, <1>7
  <2>2. \E n \in 1..Len(Held) :
           /\ FramesOf(out') = FramesOf(out) \o SubSeq(Held, 1, n)
           /\ Held' = SubSeq(Held, n + 1, Len(Held))
    BY <1>3, <1>4, <1>5, <2>1
  <2> QED BY <1>2, <2>2 DEF Conduit!Deliver, Held, FramesOf
<1> QED BY <1>6, <1>7

\* Every step of the correlator is a step of the conduit or changes nothing it
\* shows.
LEMMA ConduitStep == TypeOK /\ [Next]_vars => [Conduit!Next]_(Conduit!conduitVars)
<1> SUFFICES ASSUME TypeOK, [Next]_vars PROVE [Conduit!Next]_(Conduit!conduitVars)
  OBVIOUS
<1>1. ASSUME UNCHANGED <<frames, out, lostFrames>>, Held' = Held
      PROVE  UNCHANGED Conduit!conduitVars
  BY <1>1 DEF Conduit!conduitVars, Held, FramesOf
<1>2. ASSUME NEW t, IngestFrame(t) PROVE Conduit!Next
  BY <1>2, IngestAccepts DEF Conduit!Next
<1>3. CASE EmitUnmatched \/ FlushStale \/ Match
  BY <1>1, <1>3, EmitHolds
<1>4. CASE DrainReturn
  BY <1>4, DrainDelivers DEF Conduit!Next, Conduit!conduitVars, Held, FramesOf
<1>5. CASE UNCHANGED <<canQ, matched, frames, out, lostFrames>>
  BY <1>1, <1>5 DEF Held
<1>6. ASSUME NEW t, IngestPru(t) PROVE UNCHANGED Conduit!conduitVars
  BY <1>1, <1>6 DEF IngestPru, Held
<1>7. CASE Tick \/ DiscardSof \/ MatchReturn \/ DrainBegin \/ UNCHANGED vars
  BY <1>5, <1>7 DEF Tick, DiscardSof, MatchReturn, DrainBegin, vars, queues, history
<1> QED BY <1>2, <1>3, <1>4, <1>6, <1>7 DEF Next, TryMatch, DrainMatched

\* For every length of the deques the correlator is a first-in first-out conduit
\* for frames (correlator.py:26-90): it hands on what it was given in order, and
\* loses a frame only when a full deque's worth is held.  (That each frame held
\* is handed on in the end, the fairness of the conduit, is checked by TLC.)
THEOREM CorrelatorIsConduit == Spec => Conduit!Init /\ [][Conduit!Next]_(Conduit!conduitVars)
<1>1. Init => Conduit!Init
  <2>1. [i \in {} |-> <<>>[i].frame] = <<>>
    OBVIOUS
  <2> QED BY DEF Init, Conduit!Init
<1> QED BY <1>1, TypeInit, TypeStep, ConduitStep, PTL DEF Spec
=============================================================================
