----------------------------- MODULE Correlator -----------------------------
(***************************************************************************)
(* The Correlator of backend/can_sniffer/correlator.py: it pairs the SOF   *)
(* timestamps the PRU captured with the frames SocketCAN delivered.        *)
(*                                                                         *)
(* A frame is its number in the order of ingest_frame calls, and frames[f] *)
(* is its kernel timestamp; a SOF is its number in the order of ingest_pru *)
(* calls, and sofs[s] is its (calibrated) timestamp.  What the frame       *)
(* carries is left out: _enrich copies it unchanged.  The lock is held for *)
(* a whole operation; the loops inside it are modelled one iteration per   *)
(* step, with phase telling which loop holds the lock.                     *)
(***************************************************************************)
EXTENDS Integers, Sequences, Deques

CONSTANTS MaxDelta,    \* _max_delta_ns
          QueueLen,    \* maxlen of the deques _pru_q and _can_q
          MaxTime,     \* bound: last value of the clock
          MaxFrames,   \* bound: frames ingested
          MaxSofs      \* bound: SOFs ingested

ASSUME MaxDeltaAssumption == MaxDelta \in Nat
ASSUME QueueLenAssumption == QueueLen \in Nat \ {0}
ASSUME BoundAssumption ==
    /\ MaxTime \in Nat
    /\ MaxFrames \in Nat
    /\ MaxSofs \in Nat

VARIABLES phase,       \* "free", or the loop run under _lock: "match", "flush"
          pruQ,        \* _pru_q: SOFs waiting for a frame
          canQ,        \* _can_q: frames waiting for a SOF
          matched,     \* _matched: enriched frames not yet drained
          now,         \* time.time_ns()
          drainNow,    \* now_ns of the drain_matched call in progress
          frames,      \* history: kernel timestamp of every frame ingested
          sofs,        \* history: timestamp of every SOF ingested
          out,         \* history: enriched frames drain_matched returned
          lostFrames,  \* history: frames _can_q dropped because it was full
          lostSofs     \* history: SOFs _pru_q dropped because it was full

queues == <<pruQ, canQ, matched>>
history == <<frames, sofs, out, lostFrames, lostSofs>>
vars == <<phase, queues, now, drainNow, history>>

Phases == {"free", "match", "flush"}

\* pru_ts_ns = None of an EnrichedFrame; SOF numbers start at 1.
NoPruTs == 0

\* _enrich: frame f stamped with SOF s, or with NoPruTs.
Enrich(f, s) == [frame |-> f, sof |-> s]

\* Every enriched frame so far, in the order they were produced.
Emitted == out \o matched

-----------------------------------------------------------------------------
Init ==
    /\ phase = "free"
    /\ pruQ = <<>>
    /\ canQ = <<>>
    /\ matched = <<>>
    /\ now = 0
    /\ drainNow = 0
    /\ frames = <<>>
    /\ sofs = <<>>
    /\ out = <<>>
    /\ lostFrames = {}
    /\ lostSofs = {}

\* The wall clock moves on, also while an operation holds the lock.
Tick ==
    /\ now < MaxTime
    /\ now' = now + 1
    /\ UNCHANGED <<phase, queues, drainNow, history>>

\* ingest_pru(event) up to its _try_match call.  PruShm.drain stamps the SOFs
\* in capture order and never later than the clock.  An event of another type
\* returns at once (the firmware writes none).
IngestPru(t) ==
    /\ phase = "free"
    /\ Len(sofs) < MaxSofs
    /\ sofs' = Append(sofs, t)
    /\ pruQ' = PushBounded(pruQ, Len(sofs) + 1, QueueLen)
    /\ lostSofs' = lostSofs \cup PushEvicts(pruQ, QueueLen)
    /\ phase' = "match"
    /\ UNCHANGED <<canQ, matched, now, drainNow, frames, out, lostFrames>>

\* ingest_frame(msg) up to its _try_match call.  The kernel stamps frames in
\* the order it queues them on the socket and never later than the clock.
IngestFrame(t) ==
    /\ phase = "free"
    /\ Len(frames) < MaxFrames
    /\ frames' = Append(frames, t)
    /\ canQ' = PushBounded(canQ, Len(frames) + 1, QueueLen)
    /\ lostFrames' = lostFrames \cup PushEvicts(canQ, QueueLen)
    /\ phase' = "match"
    /\ UNCHANGED <<pruQ, matched, now, drainNow, sofs, out, lostSofs>>

-----------------------------------------------------------------------------
\* delta_ns of the heads of the two queues.
HeadDelta == frames[Head(canQ)] - sofs[Head(pruQ)]

\* The loop condition of _try_match.
BothQueued == pruQ /= <<>> /\ canQ /= <<>>

\* Mutant: the branch forgets _matched.append.
EmitUnmatchedForgetting ==
    /\ phase = "match"
    /\ BothQueued
    /\ HeadDelta < 0
    /\ canQ' = Tail(canQ)
    /\ UNCHANGED <<phase, pruQ, matched, now, drainNow, history>>

\* delta_ns < 0: the frame is older than the SOF and leaves without it.
EmitUnmatched ==
    /\ phase = "match"
    /\ BothQueued
    /\ HeadDelta < 0
    /\ canQ' = Tail(canQ)
    /\ matched' = Append(matched, Enrich(Head(canQ), NoPruTs))
    /\ UNCHANGED <<phase, pruQ, now, drainNow, history>>

\* Mutant: >= for > discards a SOF whose frame is at the edge of the window.
DiscardSofAtEdge ==
    /\ phase = "match"
    /\ BothQueued
    /\ HeadDelta >= MaxDelta
    /\ pruQ' = Tail(pruQ)
    /\ UNCHANGED <<phase, canQ, matched, now, drainNow, history>>

\* delta_ns > _max_delta_ns: no frame came for the SOF, which is discarded.
DiscardSof ==
    /\ phase = "match"
    /\ BothQueued
    /\ HeadDelta > MaxDelta
    /\ pruQ' = Tail(pruQ)
    /\ UNCHANGED <<phase, canQ, matched, now, drainNow, history>>

\* Mutant: the popleft of _pru_q is forgotten.
MatchKeepingSof ==
    /\ phase = "match"
    /\ BothQueued
    /\ HeadDelta \in 0..MaxDelta
    /\ canQ' = Tail(canQ)
    /\ matched' = Append(matched, Enrich(Head(canQ), Head(pruQ)))
    /\ UNCHANGED <<phase, pruQ, now, drainNow, history>>

\* Otherwise the two heads are paired.
Match ==
    /\ phase = "match"
    /\ BothQueued
    /\ HeadDelta \in 0..MaxDelta
    /\ pruQ' = Tail(pruQ)
    /\ canQ' = Tail(canQ)
    /\ matched' = Append(matched, Enrich(Head(canQ), Head(pruQ)))
    /\ UNCHANGED <<phase, now, drainNow, history>>

\* Mutant: _try_match looks at the heads once (if for while).
MatchReturnAtOnce ==
    /\ phase = "match"
    /\ phase' = "free"
    /\ UNCHANGED <<queues, now, drainNow, history>>

\* A queue is empty: _try_match returns and the lock is released.
MatchReturn ==
    /\ phase = "match"
    /\ ~BothQueued
    /\ phase' = "free"
    /\ UNCHANGED <<queues, now, drainNow, history>>

-----------------------------------------------------------------------------
\* drain_matched takes the lock and reads the clock once.
DrainBegin ==
    /\ phase = "free"
    /\ phase' = "flush"
    /\ drainNow' = now
    /\ UNCHANGED <<queues, now, history>>

\* Mutant: frames give up only while a SOF is queued.
HeadStaleWithSof ==
    pruQ /= <<>> /\ canQ /= <<>> /\ drainNow - frames[Head(canQ)] > MaxDelta

\* age_ns > _max_delta_ns for the oldest frame waiting.
HeadStale == canQ /= <<>> /\ drainNow - frames[Head(canQ)] > MaxDelta

\* One iteration of the flush loop: the oldest frame gives up waiting.
FlushStale ==
    /\ phase = "flush"
    /\ HeadStale
    /\ canQ' = Tail(canQ)
    /\ matched' = Append(matched, Enrich(Head(canQ), NoPruTs))
    /\ UNCHANGED <<phase, pruQ, now, drainNow, history>>

\* Mutants: the flush looks at one frame only; _matched is not cleared.
DrainReturnEarly ==
    /\ phase = "flush"
    /\ out' = out \o matched
    /\ matched' = <<>>
    /\ phase' = "free"
    /\ UNCHANGED <<pruQ, canQ, now, drainNow, frames, sofs, lostFrames, lostSofs>>

DrainReturnAgain ==
    /\ phase = "flush"
    /\ ~HeadStale
    /\ Len(out) < MaxFrames
    /\ out' = out \o matched
    /\ phase' = "free"
    /\ UNCHANGED <<pruQ, canQ, matched, now, drainNow, frames, sofs, lostFrames, lostSofs>>

\* The flush loop ends; _matched is copied, cleared and returned.
DrainReturn ==
    /\ phase = "flush"
    /\ ~HeadStale
    /\ out' = out \o matched
    /\ matched' = <<>>
    /\ phase' = "free"
    /\ UNCHANGED <<pruQ, canQ, now, drainNow, frames, sofs, lostFrames, lostSofs>>

-----------------------------------------------------------------------------
\* Bound: frames are stamped early enough to grow stale before MaxTime.
LastStamp == MaxTime - MaxDelta - 1

TryMatch == EmitUnmatched \/ DiscardSof \/ Match \/ MatchReturn

DrainMatched == DrainBegin \/ FlushStale \/ DrainReturn

Next ==
    \/ Tick
    \/ \E t \in LastOr(sofs, 0)..now : IngestPru(t)
    \/ \E t \in LastOr(frames, 0)..now : t <= LastStamp /\ IngestFrame(t)
    \/ TryMatch
    \/ DrainMatched

\* The event loop runs every callback to its end, _ingest_loop calls
\* drain_matched every 20 ms, and the wall clock advances.
Fairness == WF_vars(Tick) /\ WF_vars(TryMatch) /\ WF_vars(DrainMatched)

Spec == Init /\ [][Next]_vars /\ Fairness

-----------------------------------------------------------------------------
EnrichedFrames == [frame : DOMAIN frames, sof : DOMAIN sofs \cup {NoPruTs}]

\* Types of the variables; every number names a frame or SOF ingested.
TypeOK ==
    /\ phase \in Phases
    /\ pruQ \in Seq(DOMAIN sofs)
    /\ canQ \in Seq(DOMAIN frames)
    /\ Len(pruQ) <= QueueLen /\ Len(canQ) <= QueueLen
    /\ out \in Seq(EnrichedFrames)
    /\ matched \in Seq(EnrichedFrames)
    /\ now \in Nat /\ drainNow \in 0..now
    /\ frames \in Seq(0..now)
    /\ sofs \in Seq(0..now)
    /\ lostFrames \subseteq DOMAIN frames
    /\ lostSofs \subseteq DOMAIN sofs

\* Between operations one of the queues is empty: whatever could be paired
\* has been (the loop of _try_match, lines 67-89, never stops early).
NothingLeftToMatch == phase = "free" => pruQ = <<>> \/ canQ = <<>>

\* The frame numbers in the order they leave the correlator.
LeavingOrder == [i \in DOMAIN Emitted |-> Emitted[i].frame] \o canQ

\* Frames leave in the order they came in, none twice, although there are
\* three ways out (paired, older than the SOF, stale) and a reply in between.
FramesInOrder == Increasing(LeavingOrder)

\* Every frame ingested is delivered, about to be, waiting, or was dropped by
\* the full deque, in order: no path of _try_match or drain_matched forgets,
\* repeats or overtakes one.
FramesConserved ==
    /\ FramesInOrder
    /\ ToSet(LeavingOrder) \cup lostFrames = DOMAIN frames
    /\ ToSet(LeavingOrder) \cap lostFrames = {}

\* A PRU timestamp goes to one frame only, and pairs never cross: a later
\* frame gets a later SOF, also after discards and unmatched frames.
PairsDoNotCross ==
    \A i, j \in DOMAIN Emitted :
       /\ i < j
       /\ Emitted[i].sof /= NoPruTs
       /\ Emitted[j].sof /= NoPruTs
       => Emitted[i].sof < Emitted[j].sof

\* A frame carries the timestamp only of a SOF at most MaxDelta before it.
InWindow(s, f) == frames[f] - sofs[s] \in 0..MaxDelta

\* The SOFs no frame was paired with and the full deque did not drop.
UnusedSofs == {s \in DOMAIN sofs \ lostSofs : \A e \in ToSet(Emitted) : e.sof /= s}

\* A frame leaves without a PRU timestamp only if no SOF ingested so far and
\* still unused lies in its window: discarding a SOF (line 84) and giving up
\* on a frame (lines 57, 77) never cost a pair.
NoPairMissed ==
    [][\A e \in ToSet(Emitted') \ ToSet(Emitted) :
          e.sof = NoPruTs => \A s \in UnusedSofs : ~InWindow(s, e.frame)]_vars

\* When drain_matched returns, every frame still held is young enough to wait
\* for its SOF, wherever it stands in the queue (the loop looks at the head).
OnlyYoungFramesWait ==
    [][DrainReturn => \A f \in ToSet(canQ') : drainNow - frames[f] <= MaxDelta]_vars

\* The correlator is a first-in first-out conduit for frames: in particular each
\* reaches the caller of drain_matched unless the full deque drops it, so that
\* waiting frames cannot be stuck behind one another.
Conduit == INSTANCE FrameConduit WITH
    Capacity  <- QueueLen,
    accepted  <- Len(frames),
    held      <- [i \in DOMAIN matched |-> matched[i].frame] \o canQ,
    delivered <- [i \in DOMAIN out |-> out[i].frame],
    lost      <- lostFrames

ConduitSpec == Conduit!Spec
=============================================================================
