# A verification of BBB CANsniffer in TLA+

BBB CANsniffer is a CAN bus analyser on a BeagleBone Black. A PRU core
timestamps the start of every frame (SOF) in hardware, the kernel's SocketCAN
delivers the frames, and a Python server pairs the two, watches the bus, and
serves a browser and a database. This directory holds TLA+ models of the parts
where order, timing and concurrency decide whether the result is right, the TLC
configurations that check them, and TLAPS proofs, for every size of the system,
of most of what the configurations check on a small one.

Paths below are relative to `src/`; `backend/` stands for `backend/can_sniffer/`.

## 1. Inventory of the system

| Component | State | Operations | Hard behaviour | Correct when |
|---|---|---|---|---|
| PRU0 firmware (`pru/pru0_timestamp/main.c`) | two interrupt latches in a row, `iep_snap`, the 64-bit extension in shared memory, the ring | boot, capture, acknowledge, `write_event`, blind period, drain | a level-triggered latch fed by another latch; a counter that wraps every 4.29 s; a reader on another processor | each capture is an edge, its time is exact and never goes back, a slot is published whole |
| `PruShm` (`backend/pru_shm.py`) | `_read_idx`, epoch offset | open, `drain`, `_calibrate`, close | lock-free ring, firmware restart under a live cursor, an epoch that moves with every poll | each event once, in order, stamped between its capture and now |
| `SocketCanReader` (`backend/socketcan_reader.py`) | a socket | `recv_batch` | partial batches, interface going down | frames in kernel order |
| `Correlator` (`backend/correlator.py`) | `_pru_q`, `_can_q`, `_matched` | `ingest_pru`, `ingest_frame`, `drain_matched` | two queues merged by their heads, with discards, unmatched frames, a time-out and full deques | no frame lost, repeated or overtaken; pairs sound, complete and in order |
| `PartialFrameDetector` (`backend/partial_frame_detector.py`) | `_pending` | `ingest_pru`, `mark_matched`, `sweep_timeouts` | kept in step with the correlator by counting only | every SOF accounted for once; those reported had no frame |
| Server event loop (`backend/server.py`) | the tasks and their timers, the global objects | `_on_can_readable`, `_ingest_loop`, `_capture_logger_loop`, endpoints, shutdown | what each callback sees of the others; the sleep between polls | frames published soon; contracts of the parts kept |
| `TriggerCapture` (`backend/trigger_capture.py`) | state, two buffers, `_pending`, `_captures` | `arm`, `disarm`, `fire`, `ingest`, `pop_completed` | calls in any order; a one-slot mailbox to the logger | sessions hold the frames around their trigger and reach the database |
| `DiagLogger` (`backend/diag_logger.py`) | row buffers, connection | `log_*`, `run`, `_flush`, `close` | unlocked buffers shared by a worker thread and the event loop; errors; shutdown during a flush | every row stored once, in order |
| `FrameStore` and WebSocket (`backend/frame_store.py`, `server.py`, `frontend/app.js`) | ring of frames and its total; one cursor per connection | append, `since`, push every 200 ms, reconnect | bursts beyond the cap, a page slower than the bus, reconnection at any moment | on each connection frames come in order, none twice, and are passed over only in a burst; the page catches up |
| Alerting (`backend/diagnostics_aggregator.py`, `alert_manager.py`, `signal_quality_monitor.py`, `error_decoder.py`, `tec_rec_poller.py`) | active alerts, cooldowns, sliding windows, bus state | ingest of PRU events, error frames, aborts; snapshots; polling | windows trimmed by events and by reading; two writers of the bus state, one with old news; alerts never resolved | the alerts are those the events call for, refired once per cooldown; the bus state catches up |
| `BehavioralMonitor` (`backend/behavioral_monitor.py`) | learned periods and values | learn, check | not connected in the server | anomalies only after learning |
| Traffic statistics (`backend/bus_load.py`, `timing_stats.py`, `latency_monitor.py`) | windows, running sum, pending requests | ingest, reset, change of pairs | a sum kept beside its window; late and repeated answers; state left from before a reset | sums equal their definitions, a latency is from a request to its answer |
| Fault injector (`pru/pru0_fault_inject/main.c`, `tools/can_gen/generator.py`) | mode and count in shared memory, the tasks of the scenarios | set mode, inject, count; start, time out, fail, interrupt | two writers of two words, each word read, then written; every way out of the generator | the count is not ahead of the faults; the bus is free after an orderly end |
| System health, sequence export, frontend drawing, PRU1 stub, provisioning | - | - | - | not part of the core logic |

Interactions. PRU and server share only memory: the ring, written by
`write_event` and read by `PruShm.drain`. The kernel queues frames on a socket
whose readability runs `_on_can_readable`, which ingests each frame into the
correlator. Every 20 ms `_ingest_loop` drains the ring into the correlator and
the abort detector, drains the correlator, hands each frame to the detector
(`mark_matched`), the frame store, the monitors, the trigger and the logger,
and sweeps the detector. All of this runs on one event loop thread and a
callback is never interrupted; the exception is `DiagLogger._flush`, which runs
in a worker thread on the same lists the event loop appends to.

What is hard to test is listed, line by line, under `hazards` in
`PROJECT.json`.

## 2. Plan

Order of work, the most important behaviour first:

1. `Correlator`, with the abstract `FrameConduit` it implements. *Done.*
2. `SofCapture` and `PruRing`: where its SOFs come from. *Done.*
3. `IngestPipeline`: correlator, ring, socket, ingest loop and abort detector
   together, using module `Correlator` through `INSTANCE`. *Done.*
4. `TriggerCapture` and `DiagLogger`: where frames go. *Done.*
5. Proofs about `Correlator`: types, completeness of matching, conservation,
   order of pairs, the window of a pair, no pair missed. *Done*, section 6.
6. `LiveView` with the abstract `FrameFeed` it implements; `TrafficStats`;
   `Alerts` and `Diagnostics`; `FaultInject`, with a proof of its count. *Done.*
7. Proofs about the other parts: that `Correlator`'s steps are steps of
   `FrameConduit`; the capture loop; the ring; the trigger; that `LiveView`'s
   steps are steps of `FrameFeed`; the pipeline, which carries the theorems about
   the correlator over to the one the server runs; the database logger. *Done*,
   section 6.
8. Proofs about the statistics and the diagnostics: that what they keep up step
   by step is the function of the whole history it should be. *Done*, section 6.
9. If it is ever connected: `BehavioralMonitor`.

## 3. Modules and code

`Deques` holds what `collections.deque` does: bounded append, what it evicts,
the right end; and what a trim or a list comprehension with a condition leaves
of a sequence, `Picked(q, S)`: the elements at the positions of `S`, in order.

**Correlator** (`backend/correlator.py`). `pruQ`, `canQ`, `matched` are
`_pru_q`, `_can_q`, `_matched`; a frame and a SOF are their numbers in order of
arrival, and `frames`, `sofs` give their timestamps. `out`, `lostFrames` and
`lostSofs` are history. The lock is held for a whole operation: `phase` tells
which loop is running under it. `ingest_pru` and `ingest_frame` are `IngestPru`
and `IngestFrame` followed by the loop of `_try_match`, whose three branches are
`EmitUnmatched` (frame older than SOF), `DiscardSof` (SOF too old) and `Match`;
`MatchReturn` ends the loop. `drain_matched` is `DrainBegin`, `FlushStale` for
each frame that gives up waiting, and `DrainReturn`. Only `Tick` can come
between the steps of an operation. The module asks two things of its callers:
SOF stamps and frame stamps never go back and are never after the clock.
`PruRing` and `IngestPipeline` check that the callers deliver this.

**FrameConduit** is abstract: frames enter in order, leave in order, are lost
only when `Capacity` of them are inside, and do leave. `Correlator!Conduit` is
the refinement mapping: `held` is `_matched` followed by `_can_q`.

**SofCapture** (`pru/pru0_timestamp/main.c`). A step is a call of the main loop
or an iteration of a polling loop. `gpio` and `intc` are the two latches: the
edge sets both; clearing `intc` while `gpio` is set brings it back, as a
level-triggered event does (`scripts/setup_pru.sh:134-140` sets that mode).
`Iep` is the counter, `time` the true time since its reset, `tFall` what
`iep_to_ns` computes. Instructions take no time; time passes while the PRU
polls. The edges come at any time.

**PruRing** (`write_event` and `backend/pru_shm.py`). `WriteHeader`,
`WriteTimes`, `Publish` are the groups of stores in `write_event`; `Restart` is
a reload of the firmware, at any point of it. `DrainStart`, `DrainCheck`,
`DrainRead`, `DrainEnd` are `drain`: reading `write_idx` once, the restart test
and recalibration, one yielded event, the end of the loop. The reader's `dead`
state is the ingest task ended by an unknown event type.

**IngestPipeline** (`backend/server.py`, with `recv_batch` and
`PartialFrameDetector`). `BusSof`, `BusFrame`, `BusAbort` are the bus: a frame
begins (and is captured unless the PRU is blind), arrives, or never does.
`Recv*` is `_on_can_readable`; `PollStart` ... `SweepEnd` are one pass of
`_ingest_loop`; the correlator's actions are those of `Correlator`,
instantiated. The ring is reduced to the list of capture times `caps` and the
number drained: `PruRing` shows that it loses nothing and keeps the order.
`own` remembers each frame's true SOF.

**TriggerCapture** (`backend/trigger_capture.py` and the endpoints and logger
task of `server.py`). Each call is one step: none awaits. The conditions a frame
meets are chosen freely among those `_condition_met` can find true. `armedSeen`
is history: the frames that came while the trigger was armed.

**DiagLogger** (`backend/diag_logger.py`). One buffer per table; `_flush` is a
step per row of `executemany`, per `if`, per `clear()`, and a commit, by either
of two threads. `executemany` walks the live list. `FlushFails` is a database
error: the transaction is rolled back and the thread's flush ends with an
exception. `Shutdown` cancels the run task and starts `close()`, which does not
wait for the worker; a worker may then find the connection closed, at its start
(`FlushSkipped`) or later (`FlushOnClosed`).

**LiveView** (`backend/frame_store.py`, `ws_endpoint` of `server.py`, `connect`
of `frontend/app.js`). `store` and `total` are `_frames` and `_total`, and a
frame is the number of its append. `SendUpdate` is one pass of the endpoint's
loop: `Since` reads the store as `since()` does, by its clamp and from the right
end, `Capped` keeps the newest, and the cursor `lastTotal` moves past all.
`wire` holds updates sent and not received; a full one makes `send_text` wait
(`MaxWire`). `Disconnect` loses what is under way; `Connect` starts an endpoint
at total 0. `page` is everything handed to `ingestFrame`.

**FrameFeed** is abstract: what is shown on one connection goes up by whole
updates, each either adjacent to the last or as large as updates get. The
refinement is `published <- total`, `shown <- page`; `upTo`, the newest frame
received on this connection, is history of `LiveView`.

**TrafficStats** (`bus_load.py`, `timing_stats.py`, `latency_monitor.py`). Each
published frame goes through `Record`, `RecordTiming` and `IngestLatency` in one
step, as in `_ingest_loop`; `LoadPairs`, `SetPairs` and `ResetTiming` are the
configuration and its endpoints. `stream` is history: the properties compute
from it what the windows, sums and tables should hold. A request is an id with
base 0x1xx, its answer the same node with base 0x0xx.

**Alerts** (`alert_manager.py`, with the tables of `models.py`): `Submit` on the
table of alerts by category, and `AlertAfter`, which says from the times of the
submissions alone what the entry should be.

**Diagnostics** (`diagnostics_aggregator.py`, `signal_quality_monitor.py`,
`error_decoder.py`, `tec_rec_poller.py`). `Glitch`, `Runaway`, `Abort`,
`ErrorFrame` are the ingest calls with their flush of alerts; `Snapshot` is an
update of a page, which trims two windows. `PollRead` is the moment `ip` reads
the controller, and `PollAnswer`, `PollUnknownState`, `PollFails` the end of
`communicate()`; error frames come in between. The controller is the
environment (`Reporting`): it counts errors, goes bus-off, and restarts
(`scripts/setup_can.sh:17`). The pending list of `SignalQualityMonitor` is
flushed in the call that fills it and has no variable. The ring has event types
for glitch and runaway which the firmware of this commit does not write: the
model sends them, as the server is ready for them.
`MCDiagnostics` gives the cooldowns.

**FaultInject** (`pru/pru0_fault_inject/main.c`, `tools/can_gen/generator.py`).
The PRU's loop is a step per access to shared memory: the poll of the mode, the
end of the hold, the read and the write of `faults_done++`, the write of IDLE
after a one-shot glitch. `set_mode` reads `faults_done` (`SetMode`) and writes
it back beside the mode; `struct.pack_into` first clears its bytes, then stores
the fields in order (`StoreClear`, `StoreMagic`, `StoreMode`, `StoreCount`):
another process can see the zeros. `ok` is `_ok`: `Connect` is
`PruFault.__init__`, which may fail for any reason of the system and does fail
without the magic word; then `set_mode` does nothing. Tasks of one event loop do
not interleave within a `set_mode`. `run()` is `Launch` (which does not touch
the mode), `Settle`, `StartTask` and `WakeTask` for the scenarios, `NextRound`
with `--loop`, and its ends `RoundEnds`, `TaskFails`, `Interrupt`, all through
`Finally` and `Close`; `InterruptEarly` passes by the `finally` block, and
`Kill` may come anywhere. `MCFaultInject` gives the command lines.

**DataLemmas** and the modules named **...Proofs**: section 6. Each holds the
proofs about the module it is named after, but three hold those about two:
**FirmwareProofs** about `SofCapture` and `PruRing`, where the SOFs come from,
**FrameConsumersProofs** about `TriggerCapture` and `LiveView`, where frames go,
and **SharedMemoryProofs** about `DiagLogger` and `FaultInject`, whose programs
share memory without a lock. The names of `SofCapture`, `LiveView` and
`FaultInject` that would clash there begin with `Capture`, `Live` and `Fault`
(`CaptureSpec`, `LiveTypeOK`, ...).

## 4. Runs

| Run | Shows | Bounds, and why they are enough |
|---|---|---|
| `correlator` | Correlator: at rest one queue is empty (`NothingLeftToMatch`); frames are conserved and in order (`FramesConserved`); pairs do not cross (`PairsDoNotCross`); a frame leaves without a SOF only if no unused SOF so far fits it (`NoPairMissed`); after a drain only young frames wait (`OnlyYoungFramesWait`); it implements `FrameConduit`, so that every frame is delivered that no full deque drops (`ConduitSpec`) | three frames and three SOFs against deques of two, so that either can overflow; a window of one tick and four ticks of clock, so that frames are early, on either edge of the window, and late |
| `firmware` | capture loop: every capture is at an edge (`SofOnlyAtEdge`); a waiting PRU is neither deaf nor dreaming (`PollTellsTheTruth`); times exact and a blind period apart (`CapturesSound`); ring: each event once, in order and whole (`EveryEventOnce`), stamped soundly (`StampsSound`); each poll ends (`DrainEnds`) | a counter of five ticks that wraps three times; a blind period of two, so that it straddles a wrap; a ring of two slots gone round three times, a reader at most two events behind, and one restart of the kind `drain` recognises |
| `ingest_pipeline` | the loop keeps the correlator's contract (`CorrelatorContract`); the detector accounts for every SOF (`DetectorAccounts`) and reports within its time-out and one sleep of the drain (`AbortsReportedSoon`); frames, but for those the full deque dropped, are published within the window and a sleep (`FramesPublishedSoon`) | three frames and SOFs against deques of two, so that a full one drops a frame; a tick of 5 ms gives the code's own proportions: window and time-out one tick, blind period two, sleep four; ten ticks are two and a half passes |
| `pipeline_match` | *violation*: a captured frame can go out without its SOF, or with another's | as above, with deques of four, so that none drops a frame |
| `frame_consumers` | live view: the store, the endpoint and a page that reconnects implement `FrameFeed` (`FeedSpec`); trigger: the post-trigger part is the frames right after the trigger (`PostFollowsTrigger`), the pre-trigger part is the newest frames that came while armed up to it, in order, as many as fit (`PreIsNewestArmed`), sessions are logged at most once and in order (`LoggedAtMostOnce`) | seven frames for both; a store of three, updates of two, two frames on the wire, two broken connections: the page falls behind the cap and behind the store, on its first connection and on later ones; two frames each side of the trigger: two whole sessions with frames between; any order of endpoint calls |
| `trigger_loss` | *violation*: of two sessions finished between two passes of the logger's task the first is never logged | one frame each side of the trigger, four frames |
| `diag_logger` | a row is lost only in the ways named in `RowsAccountedFor`; stored rows are in order and single (`RowsInOrderOnce`); the others are stored (`RowsAreStored`) | two tables of two rows, so that one table's flush can fail after the other's clear; one error; one shutdown |
| `diag_logger_loss` | *violation*: a row is lost with neither error nor shutdown | one table, two rows |
| `traffic_stats` | the load is that of the window ending with the newest frame (`LoadIsWindowSum`); every measured latency is from a request to its first answer under the same pairs, and none is missed (`LatenciesBelong`); counts and intervals are those since the reset (`IntervalsSinceReset`) | four frames of two nodes (two requests and two answers, in any order), gaps of up to twice the window, one endpoint call at any point, deques of one so that they overflow |
| `diagnostics` | the alerts are those the events call for (`AlertsMatchEvents`); an update counts the glitches and aborts of the last second (`SnapshotCounts`); the bus state catches up with the controller (`BusStateCatchesUp`) | bursts of two, four events, cooldowns of three, two and no ticks of the window: a burst is raised, suppressed and refired; bus-off and its restart, with a poll across either |
| `error_rate_stale` | *violation*: an update counts error frames of a second that is over | as above |
| `fault_inject` | the count is never ahead of the faults (`FaultTypeOK`); after the orderly end of a generator that was connected, or found the magic word cleared, no fault stays (`BusReleased`) | every command line of one or two scenarios, also twice the same, looped or not; three faults, one each of a killed generator and of two scenarios; any number of launches |

`firmware` and `frame_consumers` each check two modules that share no variable
(`MCFirmware`, `MCFrameConsumers`). No step of one changes what a property of
the other reads, so that in each behaviour only one of the two moves, except
that a frame always goes to both consumers: the states are those of the two
modules one after the other instead of their product.

Six more configurations are kept for the findings of section 5. Each checks one
documented claim and ends with TLC's counterexample: `PruRingRestart.cfg`,
`TriggerCaptureRolling.cfg`, `IngestPipelineAbort.cfg`,
`IngestPipelineAbortLate.cfg`, `TrafficStatsReset.cfg`, and
`DiagnosticsRunaway.cfg` (module `MCDiagnostics`; the others are named after
their modules).

Every property of a passing run has a mutant (operators marked *Mutant* in the
modules): a plausible slip in the code it models, under which TLC finds the
property violated.

### Fairness

Safety properties need none. `Correlator`: an operation in progress finishes
(the event loop runs a callback to its end), `_ingest_loop` calls
`drain_matched` again and again (every 20 ms, `server.py:187`), and the clock
advances. No fairness is assumed of ingestion: frames need not come. `PruRing`:
a `write_event` once begun is finished, and the reader polls. `DiagLogger`: the
run task's timer fires, a flush once begun goes on, and `close()` goes on to
close the connection; the steps of the two threads are otherwise unordered.
`LiveView`: the endpoint's sleep ends (`server.py:150`), TCP delivers, the
page's timer reconnects (`app.js:88`). `Diagnostics`: the poller polls
(`tec_rec_poller.py:20-23`), and `ip` gives a complete answer now and then
(strong fairness: any number of polls may fail in between). `FaultInject`: the
PRU does not stop; nothing is assumed of the generator. Runs whose clock is
bounded switch the deadlock check off and say so in the cfg. In `firmware` only
the capture loop stops so: the ring's reader can always poll (`DrainEnds`).

### Assumptions on the environment

- PRU instructions are instantaneous beside a tick of the IEP model; the two
  latches follow an edge at once.
- A gap between captures is shorter than a counter period (`MaxIdle` below
  `IepPeriod`). Longer silence hides a wrap: the times stay monotone, and run
  behind.
- The ingest loop is not stalled long enough for the ring (256 events, 10 ms
  apart) to be overrun: `MaxLag`.
- `write_event` and the two looks `drain` takes at `write_idx` fall in one
  clock tick.
- In the pipeline a frame on the bus and a callback are short beside the
  5 ms tick.
- Wall clock and `time.monotonic` advance together.
- Kernel timestamps do not go back (`TrafficStats`), and different pairs have
  different labels: with equal ones, requests of one pair would be answered by
  another.
- Connections break finitely often (`MaxDrops`), and the cap of an update is not
  above the length of the store (100 and 1000 in the code).
- A poll of the controller is seen at one moment, and an error frame is read
  when it is reported: the socket's queue is not modelled.
- The wall clock does not jump (windows and cooldowns use `time.time()`).
- The four fault scenarios keep the order of their sleeps: 80 ms before 100 ms,
  and both before the 10 s of a run. A second Ctrl-C counts as a kill. One
  generator runs at a time, and the fault firmware is not reloaded.
- `BusReleased` speaks of a generator with a connection. One started without
  access to `/dev/mem` frees nothing a killed one has left (finding 15). One that
  finds no magic word has nothing to free: only the clear of `pack_into` takes
  the word away, and it sets the mode to IDLE in the same stroke.

## 5. Findings

Shown by a run that expects a violation, or by one of the further configurations
of section 4:

1. **Lost rows** (`diag_logger_loss`; `backend/diag_logger.py:211`). A row the
   event loop appends between the end of `executemany` and `clear()` is never
   stored.
2. **Missed pairs** (`pipeline_match`; `backend/pru_shm.py:88`). Each poll makes
   the newest event happen *now*, so a SOF drained up to 20 ms late is stamped
   after its own frame: the frame leaves without it, or a later frame takes it.
   The correlator itself misses no pair (`NoPairMissed`): the stamps it is
   given are at fault.
3. **Firmware restart** (`PruRingRestart.cfg`; `backend/pru_shm.py:81`). `drain`
   recognises a restart only if it reads `write_idx = 0` with a cursor beyond
   256. One event before the next poll hides it, and a cursor of 256 or less is
   not looked at. The cursor is then ahead of `write_idx`, and
   `while _read_idx != write_idx` runs away: it re-yields old slots without end,
   or meets a blank one and the exception ends the ingest task.
4. **Rolling pre-trigger buffer** (`TriggerCaptureRolling.cfg`;
   `backend/trigger_capture.py:101`). The README promises a buffer fed at all
   times; it is fed only while armed.
5. **Wrong SOF reported** (`IngestPipelineAbort.cfg`;
   `backend/partial_frame_detector.py:44`). `mark_matched` removes the oldest
   pending SOF, not the matched one. After one SOF without a frame the matched
   SOFs that follow are reported in its place.
6. **Lost sessions** (`trigger_loss`; `backend/trigger_capture.py:137`). The
   logger's task looks every 100 ms at a mailbox for one session. The 200 frames
   after a trigger can pass in less, and one pass of the ingest loop can finish
   two sessions: the README says that a session is saved.
7. **Late aborts** (`IngestPipelineAbortLate.cfg`; `server.py:187`). The README
   has an isolated aborted frame on the dashboard 5 to 6 ms after the event. The
   5 ms are counted from the drain, and drain and sweep come once every 20 ms:
   the code's own bound is 20 ms to the drain and 25 ms (the time-out and one
   sleep, `AbortsReportedSoon`) from there; the push to the page comes on top.
8. **Reset Stats** (`TrafficStatsReset.cfg`; `server.py:288`). The README
   says that it clears all timing and latency accumulators; it clears the timing.
9. **Stale error rate** (`error_rate_stale`;
   `backend/diagnostics_aggregator.py:120`). `error_frames_1s`, shown as "err/s"
   (`frontend/app.js:192`), is the number in the second that ends with the
   *last* error frame, for ever after it.
10. **Runaway without end** (`DiagnosticsRunaway.cfg`;
    `backend/signal_quality_monitor.py:35`). `dominant_runaway`, shown as
    "ACTIVE" (`frontend/app.js:207`), is never taken back.

Stated in the models, as the code has it:

11. The bus load is that of the second ending with the last frame: a silent bus
    keeps it (`LoadIsWindowSum`; `bus_load.py:38`).
12. The limit of 1 s on a pending request holds up to the frame *before* its
    answer: on a quiet bus an answer of any age is measured (`LatenciesBelong`;
    `latency_monitor.py:111`).
13. `faults_done` loses counts and may fall (`generator.py:84-86` writes back what
    it read, and clears the word first), so the "glitches injected so far" of the
    generator are a lower bound.
14. With `glitch` and another fault on one command line, the PRU's write of IDLE
    (`main.c:96`) or the wake-up of either task can end the other's fault early.
    A generator killed with DOMINANT set leaves the bus dominant until the next
    one sets a mode: it does not reset it at its start.
15. A generator without a connection ends in order and frees nothing: its
    `set_mode` does nothing (`generator.py:83`). One killed between the clear of
    `pack_into` and its first store leaves no magic word, and from then on every
    generator goes without a connection, until the firmware is loaded again,
    with the message that the PRU may not be running.

Seen by reading: the `error_frame` trigger condition tests an attribute that
frames do not have and error frames never reach it (`trigger_capture.py:118`);
no alert is ever resolved, so an alert stays on the page
(`alert_manager.py:46`); a list of latency pairs that `load_pairs` cannot read
is saved first and stops the next start (`server.py:267`, `66`).

## 6. Proofs

TLAPS checks the theorems below for every value of the constants that the
module's named assumption allows: any window, blind period, sleep, time-out,
burst threshold and cooldown, any length of deques, ring, buffers and store (at
least one), any bounds on the clock and on the numbers of frames, SOFs, events,
rows and failures. The assumptions say that each constant is a number of the
right kind and, where the code has it, how two of them compare (the blind period
is below the counter period, the cap of an update not above the length of the
store, the index a multiple of the ring); what the theorems need beyond that is
listed under *Hypotheses*. What is owed by a module's callers is in the guards of
its actions, and where the callers are modelled it is proved of them.

| Module | Theorem | States | Inductive invariant, and why the property alone is not one |
|---|---|---|---|
| `CorrelatorProofs` | `TypeCorrect` | `TypeOK` | inductive as it stands |
| | `MatchingComplete` | `NothingLeftToMatch` | `QueuesMet`: one queue is empty unless `_try_match` runs, hence also throughout `drain_matched`; at rest alone it says nothing of the state an operation starts from |
| | `FramesAreConserved` | `FramesConserved` | `FrameOrder` (queued frames in order and after all emitted ones), `Conservation` (emitted, queued and dropped frames are all there are, and a dropped one is in no other place) |
| | `PairsNeverCross` | `PairsDoNotCross` | `SofOrder`: queued SOFs in order and after all those used |
| | `OldFramesLeave` | `OnlyYoungFramesWait` | `StampsSorted` with `FrameOrder`: the head of the queue is its oldest frame |
| | `PairsAreNotMissed` | `NoPairMissed` | `PairingInv`, see below |
| | `CorrelatorIsConduit` | the safety part of `ConduitSpec` | `held` is `_matched` followed by `_can_q`; a match moves the head of the one to the end of the other, which changes nothing |
| `FirmwareProofs` | `LoopTypes` | `CaptureTypeOK` | `SinceCapture`: how far the clock can be from the last capture at each point of the loop |
| | `PollIsHonest`, `CapturesAtEdges` | `PollTellsTheTruth`, `SofOnlyAtEdge` | `LatchesFresh`: the two latches agree whenever the PRU waits, and once the GPIO bit is cleared it can only stand for an edge of this tick |
| | `CapturesAreSound` | `CapturesSound` | `TimeExtended` (the extension in shared memory is the last capture's time less its counter value), `EventsExact` |
| | `RingTypes` | `TypeOK` | `ClockInv`: the index, with the event being written, counts no more events than were captured, and no time in the ring is after now |
| | `EventsYieldedOnce` | `EveryEventOnce` | `RingHolds` (every slot the reader may still ask for holds its event, header and time), `CursorInv` (the events yielded end where the cursor stands, and the cursor is behind the index by no more than the lag) |
| | `StampsAreSound` | `StampsSound` | `EpochInv` (the stamps this poll will give lie between those given and the events not seen), `PastInv` |
| `IngestPipelineProofs` | `PipelineTypes` | `TypeOK` | with the types of the correlator, and `KernelInv`: what is on the socket arrived in this tick |
| | `ContractIsKept` | `CorrelatorContract` | `EpochInv`: the SOFs of a poll, stamped with this poll's epoch, come after all stamped before and not after now |
| | `PipelineConserves`, `StampedPairsAreNotMissed` | `FramesConserved` and `PairsDoNotCross`; `NoPairMissed`; of the server's own correlator | the invariants of `CorrelatorProofs`, through `INSTANCE` |
| | `SofsAccountedFor` | `DetectorAccounts` | `DetectorInv`: pending SOFs are in order and after all that left |
| | `NoAbortOverlooked` | `AbortsReportedSoon` | `SleepInv`: the next poll is at most a sleep away, and no pending SOF will then be older than the time-out and that sleep |
| | `FramesReachMonitors` | `FramesPublishedSoon` | `PublishInv`: when the loop is idle, a frame not delivered will at the next poll be no older than the window and a sleep |
| `FrameConsumersProofs` | `TriggerTypes` | `TypeOK` | inductive as it stands |
| | `PostIsRightAfter`, `PreIsNewest` | `PostFollowsTrigger`, `PreIsNewestArmed` | `PostTracksTrigger`, `PreHoldsArmed`: what the two buffers hold while armed and while a session is being collected (the pre-buffer the newest frames that came while armed), with `TriggersPast`: a session's trigger is behind, so that frames to come are none of its own; the properties speak of finished ones |
| | `SessionsLogged` | `LoggedAtMostOnce` | `PendingIsNewest`: the mailbox holds the newest session or nothing |
| | `LiveViewTypes` | `LiveTypeOK` | the store holds the newest numbers, as many as fit |
| | `PageIsFeed` | the safety part of `FeedSpec` | `WireUnbroken`: there are cursors, from the page's to the endpoint's, such that each update on the wire leads from one to the next |
| `SharedMemoryProofs` | `LoggerTypes` | `TypeOK` of `DiagLogger` | `BufInv`: rows are counted before they are buffered, so that the iterator stays in range |
| | `LossesAreKnown` | `RowsAccountedFor` | `AccountInv`: every row executemany has passed is in the transaction or stored, and every row still in the buffer when it has returned is so too, or is one of `inClear` |
| | `StoredInOrder` | `RowsInOrderOnce` | `OrderInv`: of the tables behind the flush the transaction holds rows before those buffered, of its own table exactly those the iterator has passed, of the others none |
| | `CountNeverAhead` | `FaultTypeOK`, with `done <= injected` | `Uncounted`: while the PRU has a fault it has not counted, neither `done`, nor the count the PRU has read, nor the one `set_mode` is about to write back includes it |
| `TrafficStatsProofs` | `StatsTypes` | `TypeOK` | `StatsInvariant`, see below |
| | `LoadNeverDrifts` | `LoadIsWindowSum` | `LoadOK`: the window is the part of the stream since its edge, and the sum kept beside it is the sum of its bits; the property speaks of the sum and the stream only |
| | `EveryLatencyBelongs` | `LatenciesBelong` | `LatencyOK`: a pending request is the newest frame of its label if that is a request under the same pairs and not yet too old, and the measurements are the latest of all due so far |
| | `ResetIsClean` | `IntervalsSinceReset` | `TimingOK`: also the time of the last frame of an id is that of its last frame since the reset |
| `DiagnosticsProofs` | `DiagnosticsTypes` | `TypeOK` | `DiagInv`: the bounds of the counters follow from the history, and those of the bus state from the number of events (`BusOK`) |
| | `AlertsFollowEvents` | `AlertsMatchEvents` | `WindowOK`, `ErrorsOK`: each window is the selection of the history since some edge that is not too recent; what the next event raises depends on it |
| | `UpdatesCount` | `SnapshotCounts` | `WindowOK` again: an update trims whatever was left since that edge to the last second |

`PairsAreNotMissed`. A frame leaves unmatched in two places. If SOFs are
queued then, they are at least as late as their head, which is later than the
frame. The flush runs with no SOF queued (`QueuesMet`). There remain the SOFs
discarded before: `DiscardsJustified` says that each was overtaken, that is,
some frame too late for it has come, and every queued frame is at least as
late. It is kept by each action for a reason of its own (a discard is justified
by the head of the frame queue, ingestion only adds later frames, eviction
takes the SOF out of account).

*The pipeline.* `IngestPipelineProofs` instantiates `CorrelatorProofs`, so that
the theorems there are facts about the server's correlator as soon as each step
of the pipeline is shown to be a step of `Correlator` or to leave its variables
alone. That is `ContractIsKept`, and its hard case is the drain of the ring: the
guard of `IngestPru` asks that stamps do not go back, while every poll moves the
epoch. It holds because a poll makes its newest event happen now, which cannot
move an event before one of an earlier poll. The theorem says that the stamps
are ordered, not that they are near the truth: finding 2 is in that gap.

*The logger.* Up to shutdown one thread flushes at a time, by `task = "sleep" =>
pc["worker"] = "idle"` in the types. `FlushersInv` adds that two can only be in
`_flush` when `close()` found a worker there (`overlap`). Without an overlap a
rollback takes back exactly what this flush wrote, and of that only rows still
in their buffer are written again: the others are `rolledBack`. With one, the
account still balances until an error comes, since clearing a buffer needs every
row in it to be written, by whichever thread; the order does not, since both
threads insert the same rows. `close()` can roll nothing back when it closes the
connection: `DrainedInv` says that its own flush left all buffers and the
transaction empty, and nothing is logged after it began.

*The statistics and the diagnostics* compare what the code keeps up step by step
(a running sum, trimmed windows, a table of pending requests, a table of alerts)
with a function of the whole history. The invariants say that each of these *is*
such a function: `IInv` of `TrafficStatsProofs` that the window, the pending
requests, the latencies and the counts are those of the stream; `DiagInv` that
the windows are those of the events and the alerts those they call for. Two
windows of the diagnostics are trimmed by events and by updates of the page, so
that how far they reach back is open: there is some edge (`cut`), at least a
window ago, since which they hold every time. An event or an update that trims
puts the edge where it belongs, so that neither the alerts nor the counts depend
on who looked when. The step is the same for each: `Picked` of a history with
one more event is `Picked` of the history, with that event appended if it is
selected (`PickedAppend`), and trimming a selection is a selection
(`PickedAgain`). An alert is fired, suppressed or fired again as `LastFired` of
one more submission says (`SubmitEntry`); an error frame that raises two alerts
submits them one after the other (`SubmitMore`, `AllSubmitted`).

*Hypotheses* beyond the kinds of the constants:

- `CapturesAreSound` assumes `MaxIdle < IepPeriod`. A silence longer than the
  counter's period (4.29 s) hides a wrap, and the times are then behind: the
  property is false of the code without the hypothesis.
- `EventsYieldedOnce` and `StampsAreSound` assume
  `Restarts /= "any"`: no restart, or only one `drain` notices.
  `PruRingRestart.cfg` shows what another restart does (finding 3).
- `MaxEvents < IdxModulus` in `RingAssumption`: the 32-bit `write_idx` does not
  wrap. At 100 events a second, the most the blind period of 10 ms allows, it
  would after 497 days. `MaxLag` is the environment assumption of section 4.

`DataLemmas` states once what appending, popping, concatenating, and cutting
do to elements, order and length, what a counter that wraps tells of the time
between two readings, and what `InOrder` and `Picked` select. The last
are recursive functions. What they yield is proved for every length through the
set of the numbers for which it holds: it contains 0 and with each number the
next, so it is all of them, for otherwise there would be a least one outside
(`LeastNat`, `SetInduction`). The same carries the sum of the bits
(`TotalBits`) and the last firing of an alert (`LastFired`).

Model-checked only: liveness, and with it the fairness part of `ConduitSpec` and
`FeedSpec`, `DrainEnds`, `RowsAreStored`, `BusStateCatchesUp` and `BusReleased`,
which are out of the prover's reach. Every invariant, and every action property,
that a passing run checks is a theorem.

## 7. Not modelled, and why

- `BehavioralMonitor`: the server gives none to `DiagnosticsAggregator`
  (`server.py:60`), so that none of its state exists in the running program.
- What the page does with frames once received: filter, pause and its own ring
  of rows. Endpoints that only read.
- Failures of the socket: an interface that goes down makes `recv_batch` raise,
  and the sniffer is set up again by hand.
- The scenarios of the generator that send frames, beyond that they run and may
  fail.
- `DiagLogger._purge` and the SQL schema: a daily deletion by age.
- Parsing of CAN frames and kernel timestamps: data, not control.
- `SystemHealthMonitor`, `sequence_export.py`, the frontend's drawing: reading,
  formatting, rendering.
- `pru1_bitbang`: an empty stub. Provisioning scripts, units and device tree:
  outside the program; one fact is taken from them, the INTC mode.
