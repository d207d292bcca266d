--------------------------- MODULE IngestPipeline ---------------------------
(***************************************************************************)
(* The frame pipeline of backend/can_sniffer/server.py, end to end: a      *)
(* frame on the bus gives the PRU a SOF, unless it is blind, and a little  *)
(* later the kernel a frame, unless the frame is aborted.  The server's    *)
(* event loop runs two callbacks, one at a time: _on_can_readable when the *)
(* socket is readable, and one pass of _ingest_loop every Poll ticks,      *)
(* which drains the PRU ring, then the correlator, then the abort          *)
(* detector.  The Correlator is module Correlator; the ring is reduced to  *)
(* what PruRing shows of it: it loses nothing and keeps the order.         *)
(***************************************************************************)
EXTENDS Integers, Sequences, SequencesExt, Deques

CONSTANTS MaxDelta, QueueLen, MaxTime, MaxFrames, MaxSofs,  \* of Correlator
          Blind,      \* BLIND_COUNTS, in ticks
          Poll,       \* the sleep of _ingest_loop
          Timeout     \* _ABORT_TIMEOUT_S of the abort detector

ASSUME PipelineAssumption ==
    /\ MaxDelta \in Nat /\ QueueLen \in Nat \ {0}
    /\ MaxTime \in Nat /\ MaxFrames \in Nat /\ MaxSofs \in Nat
    /\ Blind \in Nat \ {0} /\ Poll \in Nat \ {0} /\ Timeout \in Nat

VARIABLES phase, pruQ, canQ, matched, now, drainNow,           \* of Correlator
          frames, sofs, out, lostFrames, lostSofs,             \* of Correlator
          inFlight,   \* frame on the bus: its SOF, NoSof, or Quiet
          caps,       \* capture time of every SOF: the PRU ring
          socketQ,    \* frames queued on the socket: timestamp and SOF
          task,       \* callback the event loop is in, and how far
          batch,      \* frames recv_batch returned, not yet ingested
          upTo,       \* drain's write_idx
          offset,     \* epoch_offset_ns
          nextPoll,   \* when _ingest_loop wakes up
          own,        \* history: for every frame ingested, its own SOF
          published,  \* number of drained frames handed to the monitors
          pfd,        \* PartialFrameDetector._pending
          released,   \* history: SOFs mark_matched removed
          aborted     \* history: SOFs reported as aborted

corr == <<phase, pruQ, canQ, matched, drainNow, frames, sofs, out, lostFrames, lostSofs>>
bus == <<inFlight, caps>>
loop == <<task, batch, upTo, offset, nextPoll>>
detector == <<pfd, released, aborted>>
vars == <<corr, now, bus, socketQ, loop, own, published, detector>>

Correlation == INSTANCE Correlator

NoSof == 0    \* the PRU was blind when the frame began
Quiet == -1   \* no frame on the bus

Init ==
    /\ Correlation!Init
    /\ inFlight = Quiet /\ caps = <<>>
    /\ socketQ = <<>>
    /\ task = "idle" /\ batch = <<>> /\ upTo = 0 /\ offset = 0
    /\ nextPoll \in 0..Poll
    /\ own = <<>> /\ published = 0
    /\ pfd = <<>> /\ released = <<>> /\ aborted = <<>>

-----------------------------------------------------------------------------
\* The PRU is past the blind period of its last capture.
PruArmed == caps = <<>> \/ now - Last(caps) >= Blind

\* A frame begins; the PRU stamps its SOF if it is armed (module SofCapture).
BusSof ==
    /\ inFlight = Quiet
    /\ Len(caps) < MaxSofs
    /\ Len(frames) + Len(batch) + Len(socketQ) < MaxFrames
    /\ now <= Correlation!LastStamp
    /\ IF PruArmed
         THEN caps' = Append(caps, now) /\ inFlight' = Len(caps) + 1
         ELSE UNCHANGED caps /\ inFlight' = NoSof
    /\ UNCHANGED <<corr, now, socketQ, loop, own, published, detector>>

\* The frame is complete: the kernel stamps and queues it.
BusFrame ==
    /\ inFlight /= Quiet
    /\ socketQ' = Append(socketQ, [ts |-> now, sof |-> inFlight])
    /\ inFlight' = Quiet
    /\ UNCHANGED <<corr, now, caps, loop, own, published, detector>>

\* The frame is aborted, or the SOF was a phantom edge: no frame arrives.
BusAbort ==
    /\ inFlight /= Quiet
    /\ inFlight' = Quiet
    /\ UNCHANGED <<corr, now, caps, socketQ, loop, own, published, detector>>

-----------------------------------------------------------------------------
\* _on_can_readable: recv_batch takes what is queued (fewer than max_batch).
Recv ==
    /\ task = "idle" /\ socketQ /= <<>>
    /\ task' = "recv"
    /\ batch' = socketQ
    /\ socketQ' = <<>>
    /\ UNCHANGED <<corr, now, bus, upTo, offset, nextPoll, own, published, detector>>

\* correlator.ingest_frame(msg) for the next frame of the batch.
RecvFrame ==
    /\ task = "recv" /\ batch /= <<>>
    /\ Correlation!IngestFrame(Head(batch).ts)
    /\ own' = Append(own, Head(batch).sof)
    /\ batch' = Tail(batch)
    /\ UNCHANGED <<bus, socketQ, task, upTo, offset, nextPoll, published, detector>>

RecvEnd ==
    /\ task = "recv" /\ batch = <<>> /\ phase = "free"
    /\ task' = "idle"
    /\ UNCHANGED <<corr, now, bus, socketQ, batch, upTo, offset, nextPoll, own,
                   published, detector>>

\* The loops of the correlator, within the call that entered them.
CorrelatorLoop ==
    /\ Correlation!TryMatch \/ Correlation!FlushStale
    /\ UNCHANGED <<bus, socketQ, loop, own, published, detector>>

-----------------------------------------------------------------------------
\* Mutants: a fixed offset that no event corrects; the difference taken the
\* other way round.
OffsetFixed == MaxDelta
OffsetSwapped == IF Len(caps) > Len(sofs) THEN Last(caps) - now ELSE offset

\* drain(): new events make the newest one happen now (pru_shm.py:88-91).
Offset == IF Len(caps) > Len(sofs) THEN now - Last(caps) ELSE offset

\* _ingest_loop wakes up and begins to drain the PRU ring.
PollStart ==
    /\ task = "idle" /\ now >= nextPoll
    /\ task' = "drain"
    /\ upTo' = Len(caps)
    /\ offset' = Offset
    /\ UNCHANGED <<corr, now, bus, socketQ, batch, nextPoll, own, published, detector>>

\* Mutant: pfd.ingest_pru is called for the first event of a drain only.
PollEventOnce ==
    /\ task = "drain" /\ Len(sofs) < upTo
    /\ Correlation!IngestPru(caps[Len(sofs) + 1] + offset)
    /\ pfd' = IF pfd = <<>> THEN <<[sof |-> Len(sofs) + 1, wall |-> now]>> ELSE pfd
    /\ UNCHANGED <<bus, socketQ, loop, own, published, released, aborted>>

\* The next event goes to the correlator and to the abort detector.
PollEvent ==
    /\ task = "drain" /\ Len(sofs) < upTo
    /\ Correlation!IngestPru(caps[Len(sofs) + 1] + offset)
    /\ pfd' = Append(pfd, [sof |-> Len(sofs) + 1, wall |-> now])
    /\ UNCHANGED <<bus, socketQ, loop, own, published, released, aborted>>

\* No event is left: drain_matched.
PollMatched ==
    /\ task = "drain" /\ Len(sofs) = upTo
    /\ Correlation!DrainBegin
    /\ task' = "flush"
    /\ UNCHANGED <<bus, socketQ, batch, upTo, offset, nextPoll, own, published, detector>>

PollMatchedReturn ==
    /\ task = "flush"
    /\ Correlation!DrainReturn
    /\ task' = "publish"
    /\ UNCHANGED <<bus, socketQ, batch, upTo, offset, nextPoll, own, published, detector>>

\* A frame with a PRU timestamp releases the oldest SOF the detector holds.
MarksMatched(e) == e.sof /= Correlation!NoPruTs

\* The body of the loop over the drained frames: mark_matched and the
\* monitors, which take every frame and are left out.
PublishFrame ==
    /\ task = "publish" /\ published < Len(out)
    /\ published' = published + 1
    /\ IF MarksMatched(out[published + 1]) /\ pfd /= <<>>
         THEN /\ released' = Append(released, Head(pfd).sof)
              /\ pfd' = Tail(pfd)
         ELSE UNCHANGED <<released, pfd>>
    /\ UNCHANGED <<corr, now, bus, socketQ, loop, own, aborted>>

\* Mutant: the pass ends without publishing the frames drained.
PublishEndEarly ==
    /\ task = "publish"
    /\ task' = "sweep"
    /\ UNCHANGED <<corr, now, bus, socketQ, batch, upTo, offset, nextPoll, own,
                   published, detector>>

PublishEnd ==
    /\ task = "publish" /\ published = Len(out)
    /\ task' = "sweep"
    /\ UNCHANGED <<corr, now, bus, socketQ, batch, upTo, offset, nextPoll, own,
                   published, detector>>

\* The oldest pending SOF is older than the timeout.
HeadExpired == pfd /= <<>> /\ now - Head(pfd).wall > Timeout

\* sweep_timeouts reports it as aborted ...
SweepAbort ==
    /\ task = "sweep" /\ HeadExpired
    /\ aborted' = Append(aborted, Head(pfd).sof)
    /\ pfd' = Tail(pfd)
    /\ UNCHANGED <<corr, now, bus, socketQ, loop, own, published, released>>

\* Mutant: the sweep ends although the head has expired.
SweepEndEarly ==
    /\ task = "sweep"
    /\ task' = "idle"
    /\ nextPoll' = now + Poll
    /\ UNCHANGED <<corr, now, bus, socketQ, batch, upTo, offset, own, published, detector>>

\* ... and stops at the first that is not; the task sleeps.
SweepEnd ==
    /\ task = "sweep" /\ ~HeadExpired
    /\ task' = "idle"
    /\ nextPoll' = now + Poll
    /\ UNCHANGED <<corr, now, bus, socketQ, batch, upTo, offset, own, published, detector>>

-----------------------------------------------------------------------------
\* The clock moves while the event loop has nothing due: a tick is long (the
\* width of the window, 5 ms) beside a frame on the bus or a callback.
Tick ==
    /\ task = "idle" /\ socketQ = <<>> /\ inFlight = Quiet
    /\ now < nextPoll
    /\ Correlation!Tick
    /\ UNCHANGED <<bus, socketQ, loop, own, published, detector>>

Bus == BusSof \/ BusFrame \/ BusAbort

Readable == Recv \/ RecvFrame \/ RecvEnd

IngestLoop ==
    \/ PollStart \/ PollEvent \/ PollMatched \/ PollMatchedReturn
    \/ PublishFrame \/ PublishEnd \/ SweepAbort \/ SweepEnd

Next == Bus \/ Readable \/ CorrelatorLoop \/ IngestLoop \/ Tick

Spec == Init /\ [][Next]_vars

-----------------------------------------------------------------------------
\* Types of the variables that are not the correlator's.
TypeOK ==
    /\ inFlight \in {Quiet, NoSof} \cup DOMAIN caps
    /\ caps \in Seq(0..now)
    /\ socketQ \in Seq([ts : 0..now, sof : 0..Len(caps)])
    /\ batch \in Seq([ts : 0..now, sof : 0..Len(caps)])
    /\ task \in {"idle", "recv", "drain", "flush", "publish", "sweep"}
    /\ upTo \in 0..Len(caps) /\ offset \in 0..now /\ nextPoll \in Nat
    /\ own \in Seq(0..Len(caps)) /\ Len(own) = Len(frames)
    /\ published \in 0..Len(out)
    /\ pfd \in Seq([sof : DOMAIN sofs, wall : 0..now])

\* The pipeline uses the correlator the way module Correlator assumes: one
\* call at a time, SOF stamps that never go back or ahead of the clock although
\* every poll moves the epoch, frames in kernel order.
CorrelatorContract == Correlation!Init /\ [][Correlation!Next]_(Correlation!vars)

\* Every SOF handed to the abort detector is pending, released or reported,
\* exactly once and oldest first, however matches, discards and timeouts fall.
DetectorAccounts ==
    LET waiting == [i \in DOMAIN pfd |-> pfd[i].sof]
        left == ToSet(released) \cup ToSet(aborted)
    IN /\ Increasing(released \o waiting) /\ Increasing(aborted \o waiting)
       /\ ToSet(released) \cap ToSet(aborted) = {}
       /\ left \cup ToSet(waiting) = DOMAIN sofs

\* The sweep looks at the head only, yet no SOF outlives the timeout by more
\* than one sleep: when the loop is idle none has been pending for longer.  The
\* detector counts from the drain, so this is not the bound that the README
\* promises from the bus event on: see IsolatedAbortShownSoon.
AbortsReportedSoon ==
    task = "idle" => \A i \in DOMAIN pfd : now - pfd[i].wall <= Timeout + Poll

\* README.md:951: "Isolated aborted frames appear in the dashboard within 5-6 ms
\* of the bus event".  A SOF that is the only one captured, and whose frame was
\* aborted, is reported within the timeout and one tick more (10 ms).
IsolatedAbortShownSoon ==
    \A s \in DOMAIN caps :
       LET framed == {inFlight} \cup ToSet(own) \cup {e.sof : e \in ToSet(socketQ \o batch)}
       IN  DOMAIN caps = {s} /\ s \notin framed =>
              s \in ToSet(aborted) \/ now - caps[s] <= Timeout + 1

\* The sleep of the loop only delays the display (server.py:163-168): when the
\* loop is idle every frame received that the full deque did not drop has been
\* published or is younger than the window and one sleep together.
FramesPublishedSoon ==
    task = "idle" =>
       \A f \in DOMAIN frames \ lostFrames :
          \/ \E i \in 1..published : out[i].frame = f
          \/ now - frames[f] <= MaxDelta + Poll

\* server.py:164-167: the SOF of a frame is queued when the frame arrives and
\* matched with it; so a frame the PRU captured carries its own SOF.
CapturedFramesCarryTheirSof ==
    \A e \in ToSet(out) : own[e.frame] /= NoSof => e.sof = own[e.frame]

\* partial_frame_detector.py:22-26: a SOF reported as aborted is one no frame
\* was matched with.
MatchedNeverReported == \A e \in ToSet(out) : e.sof \notin ToSet(aborted)
=============================================================================
