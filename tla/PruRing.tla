------------------------------ MODULE PruRing -------------------------------
(***************************************************************************)
(* The shared-memory ring between the PRU and the backend: write_event of  *)
(* pru/pru0_timestamp/main.c on one side, PruShm of pru_shm.py on the      *)
(* other.  The two run on different processors and share only memory.      *)
(*                                                                         *)
(* Events are numbered in the order the PRU captured them, over all its    *)
(* restarts; captured[n] holds event n's time on the PRU's clock and on    *)
(* the wall clock.  write_event is a step per group of fields, so that a   *)
(* reader can meet a half-written slot.                                    *)
(***************************************************************************)
EXTENDS Integers, Sequences

CONSTANTS Depth,         \* PRU_RING_DEPTH
          IdxModulus,    \* 2^32: write_idx is a uint32
          Blind,         \* ticks of the blind period between two captures
          MaxLag,        \* events the PRU gets ahead of the reader, at most
          Restarts,      \* firmware restarts: "none", "noticed" or "any"
          MaxEvents,     \* bound: events captured
          MaxTime,       \* bound: last value of the clocks
          MaxIdx         \* bound: the reader's cursor

ASSUME RingAssumption ==
    /\ Depth \in Nat \ {0} /\ IdxModulus \in Nat /\ IdxModulus % Depth = 0
    /\ Blind \in Nat \ {0} /\ MaxLag \in 1..Depth
    /\ Restarts \in {"none", "noticed", "any"}
    /\ MaxEvents \in Nat /\ MaxTime \in Nat /\ MaxIdx \in Nat
    /\ MaxEvents < IdxModulus /\ MaxEvents < MaxIdx

VARIABLES wpc,        \* write_event: "idle", "fill" or "publish"
          ring,       \* the slots: event number (type, flags, seq) and t_fall_ns
          writeIdx,   \* shm->write_idx
          pruStart,   \* wall time of the IEP reset
          rpc,        \* PruShm: "closed", "idle", "check", "read" or "dead"
          readIdx,    \* _read_idx, a Python integer
          w,          \* the local write_idx of drain
          epoch,      \* epoch_offset_ns
          now,        \* wall clock
          restarted,  \* the firmware restarted and drain has not run since
          captured,   \* history: the times of every event
          first,      \* history: first event due since _read_idx was last set
          yielded     \* history: what drain has yielded since then

pru == <<wpc, ring, writeIdx, pruStart, captured>>
reader == <<rpc, readIdx, w, epoch, first, yielded>>
vars == <<pru, reader, now, restarted>>

Slots == 0..(Depth - 1)

\* A slot no event was ever written to.
Blank == [ev |-> 0, t |-> 0]

Init ==
    /\ wpc = "idle"
    /\ ring = [i \in Slots |-> Blank]
    /\ writeIdx = 0
    /\ pruStart = 0
    /\ rpc = "closed"
    /\ readIdx = 0 /\ w = 0 /\ epoch = 0
    /\ now = 0
    /\ restarted = FALSE
    /\ captured = <<>>
    /\ first = 1 /\ yielded = <<>>

-----------------------------------------------------------------------------
\* The slot of a logical index: idx & (PRU_RING_DEPTH - 1).
SlotOf(idx) == idx % Depth

\* Events in the ring the reader has not passed: all since a restart that it has
\* not polled after.
Unread == IF restarted THEN writeIdx ELSE (writeIdx - readIdx) % IdxModulus

\* The ingest loop has not been stalled for more than MaxLag blind periods.
ReaderKeepsUp == rpc \in {"closed", "dead"} \/ Unread < MaxLag

\* Number of the next event.
NextEvent == Len(captured) + 1

\* Wall time of the capture of event n.
CapturedAt(n) == captured[n].at

\* A SOF is captured and write_event writes the first fields of its slot.
WriteHeader ==
    /\ wpc = "idle"
    /\ NextEvent <= MaxEvents
    /\ now - pruStart >= Blind
    /\ captured /= <<>> => now - CapturedAt(Len(captured)) >= Blind
    /\ ReaderKeepsUp
    /\ Restarts = "noticed" => ~restarted
    /\ captured' = Append(captured, [t |-> now - pruStart, at |-> now])
    /\ ring' = [ring EXCEPT ![SlotOf(writeIdx)].ev = NextEvent]
    /\ wpc' = "fill"
    /\ UNCHANGED <<writeIdx, pruStart, reader, now, restarted>>

\* ... then its times ...
WriteTimes ==
    /\ wpc = "fill"
    /\ ring' = [ring EXCEPT ![SlotOf(writeIdx)].t = captured[Len(captured)].t]
    /\ wpc' = "publish"
    /\ UNCHANGED <<writeIdx, pruStart, captured, reader, now, restarted>>

\* Mutant: without the compiler barrier the index may be stored first.
PublishUnordered ==
    /\ wpc \in {"fill", "publish"}
    /\ writeIdx' = (writeIdx + 1) % IdxModulus
    /\ wpc' = "idle"
    /\ UNCHANGED <<ring, pruStart, captured, reader, now, restarted>>

\* ... and only then makes it visible: shm->write_idx++.
Publish ==
    /\ wpc = "publish"
    /\ writeIdx' = (writeIdx + 1) % IdxModulus
    /\ wpc' = "idle"
    /\ UNCHANGED <<ring, pruStart, captured, reader, now, restarted>>

\* The firmware is reloaded: main resets write_idx and the IEP, and leaves the
\* slots as they are.  A restart is sure to be noticed when the reader is past
\* Depth and polls before the next event.
Restart ==
    /\ Restarts /= "none" /\ ~restarted
    /\ Restarts = "noticed" => rpc = "idle" /\ readIdx > Depth
    /\ wpc' = "idle"
    /\ writeIdx' = 0
    /\ pruStart' = now
    /\ restarted' = TRUE
    /\ UNCHANGED <<ring, captured, reader, now>>

-----------------------------------------------------------------------------
\* Mutant: the slot after the newest event.
LatestPruNsOffByOne == IF writeIdx = 0 THEN 0 ELSE ring[SlotOf(writeIdx)].t

\* _latest_pru_ns.
LatestPruNs == IF writeIdx = 0 THEN 0 ELSE ring[SlotOf(writeIdx - 1)].t

\* Mutant: the difference is taken the other way round.
CalibratedSwapped == LatestPruNs - now

\* _calibrate: the newest event is taken to have happened just now.
Calibrated == now - LatestPruNs

\* The cursor is set to idx: what drain owes is what comes from there on.
SetCursor(idx, published) ==
    /\ readIdx' = idx
    /\ first' = published + 1
    /\ yielded' = <<>>

\* Events published so far: all captured but the one being written.
Published == IF wpc = "idle" THEN Len(captured) ELSE Len(captured) - 1

\* Mutant: start from the beginning of the ring.
OpenAtZero ==
    /\ rpc = "closed"
    /\ rpc' = "idle"
    /\ SetCursor(0, Published)
    /\ epoch' = Calibrated
    /\ restarted' = FALSE
    /\ UNCHANGED <<pru, w, now>>

\* PruShm(): start from the current write position.
Open ==
    /\ rpc = "closed"
    /\ rpc' = "idle"
    /\ SetCursor(writeIdx, Published)
    /\ epoch' = Calibrated
    /\ restarted' = FALSE
    /\ UNCHANGED <<pru, w, now>>

\* drain() reads write_idx once.
DrainStart ==
    /\ rpc = "idle"
    /\ rpc' = "check"
    /\ w' = writeIdx
    /\ UNCHANGED <<pru, readIdx, epoch, first, yielded, now, restarted>>

\* write_idx is behind the cursor by less than Depth (line 79).
SlightlyBehind == w /= readIdx % IdxModulus /\ (readIdx - w) % IdxModulus < Depth

\* Mutant: the restart branch is missing.
RestartNever == FALSE

\* write_idx went back to 0 under a cursor beyond Depth (line 82).
RestartNoticed == ~SlightlyBehind /\ w = 0 /\ readIdx > Depth

\* Restart check and recalibration, from a second look at the ring.
DrainCheck ==
    /\ rpc = "check"
    /\ rpc' = "read"
    /\ IF RestartNoticed
         THEN SetCursor(0, Published - writeIdx)
         ELSE UNCHANGED <<readIdx, first, yielded>>
    /\ epoch' = IF RestartNoticed \/ (w /= readIdx /\ LatestPruNs > 0)
                  THEN Calibrated ELSE epoch
    /\ restarted' = FALSE
    /\ UNCHANGED <<pru, w, now>>

\* One iteration of the loop: the event under the cursor is yielded with its
\* time moved to the wall clock.  The type of a slot never written is none of
\* PruEventType: the exception ends the ingest task.
DrainRead ==
    /\ rpc = "read"
    /\ readIdx /= w
    /\ readIdx < MaxIdx
    /\ LET slot == ring[SlotOf(readIdx)] IN
         IF slot.ev = 0
           THEN /\ rpc' = "dead"
                /\ UNCHANGED <<readIdx, yielded>>
           ELSE /\ yielded' = Append(yielded, [ev |-> slot.ev, t |-> slot.t,
                                               stamp |-> slot.t + epoch])
                /\ readIdx' = readIdx + 1
                /\ UNCHANGED rpc
    /\ UNCHANGED <<pru, w, epoch, first, now, restarted>>

\* The loop ends; the ingest loop goes on and sleeps.
DrainEnd ==
    /\ rpc = "read"
    /\ readIdx = w
    /\ rpc' = "idle"
    /\ UNCHANGED <<pru, readIdx, w, epoch, first, yielded, now, restarted>>

\* close(), when the server stops.
Close ==
    /\ rpc = "idle"
    /\ rpc' = "closed"
    /\ UNCHANGED <<pru, readIdx, w, epoch, first, yielded, now, restarted>>

-----------------------------------------------------------------------------
\* Both clocks advance, in units no longer than a blind period (10 ms): a
\* write_event, and the two looks of drain at write_idx, fall in one tick.
Tick ==
    /\ now < MaxTime
    /\ wpc = "idle"
    /\ rpc /= "check"
    /\ now' = now + 1
    /\ UNCHANGED <<pru, reader, restarted>>

Pru == WriteHeader \/ WriteTimes \/ Publish

Reader == DrainStart \/ DrainCheck \/ DrainRead \/ DrainEnd

Next == Pru \/ Restart \/ Open \/ Reader \/ Close \/ Tick

\* The ingest loop polls for ever; a write_event once begun is finished.
Spec ==
    /\ Init /\ [][Next]_vars
    /\ WF_vars(WriteTimes \/ Publish) /\ WF_vars(Reader)

-----------------------------------------------------------------------------
\* Types of the variables, and the cursors of a reader that keeps up.
TypeOK ==
    /\ wpc \in {"idle", "fill", "publish"}
    /\ ring \in [Slots -> [ev : 0..MaxEvents, t : 0..MaxTime]]
    /\ writeIdx \in 0..(IdxModulus - 1)
    /\ rpc \in {"closed", "idle", "check", "read", "dead"}
    /\ readIdx \in 0..MaxIdx /\ w \in 0..(IdxModulus - 1)
    /\ epoch \in 0..MaxTime /\ now \in 0..MaxTime /\ pruStart \in 0..now
    /\ restarted \in BOOLEAN
    /\ captured \in Seq([t : Nat, at : Nat])
    /\ first \in 1..(MaxEvents + 1)
    /\ yielded \in Seq([ev : 1..MaxEvents, t : Nat, stamp : Nat])

\* drain yields every event published since the cursor was set, once and in
\* capture order (pru_shm.py:71), with the PRU writing all the while; none mixes
\* the header of one event with the time of another.
EveryEventOnce ==
    \A i \in DOMAIN yielded :
       /\ yielded[i].ev = first + i - 1
       /\ yielded[i].t = captured[yielded[i].ev].t

\* What Correlator relies on, although the epoch moves with every poll: a
\* stamp is no earlier than the capture and no later than the clock, and
\* stamps never go back.
StampsSound ==
    \A i \in DOMAIN yielded :
       /\ yielded[i].stamp \in CapturedAt(yielded[i].ev)..now
       /\ \A j \in 1..(i - 1) : yielded[j].stamp <= yielded[i].stamp

\* A poll comes to an end: it does not chase an index it can never meet.
DrainEnds == rpc = "check" ~> rpc = "idle"

\* pru_shm.py:74-76: "If write_idx fell behind our read cursor by more than the
\* ring depth, the PRU restarted - reset and recalibrate."  So the loop of drain
\* never starts with its cursor that far beyond its end.
RestartDetected == [][DrainCheck => readIdx' <= w + Depth]_vars
=============================================================================
