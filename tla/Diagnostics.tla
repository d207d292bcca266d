---------------------------- MODULE Diagnostics -----------------------------
(***************************************************************************)
(* The diagnostics of the server: DiagnosticsAggregator with its           *)
(* SignalQualityMonitor, ErrorDecoder and AlertManager, and TecRecPoller,  *)
(* whose task shares the bus state with the error frames.  The server      *)
(* gives the aggregator no BehavioralMonitor, so ingest_frame and          *)
(* check_periodic_timeouts do nothing (server.py:60).  Each call runs on   *)
(* the event loop without awaiting and is a step; only a poll awaits.      *)
(***************************************************************************)
EXTENDS Alerts, Deques, FiniteSets

CONSTANTS Window,          \* the second of the sliding windows
          GlitchBurst,     \* _GLITCH_BURST_THRESHOLD
          AbortBurst,      \* _ABORT_BURST_THRESHOLD
          ErrorBurst,      \* _ERR_BURST_THRESHOLD
          MaxEvents,       \* bound: events on the bus
          MaxTime          \* bound: clock

ASSUME DiagnosticsAssumption ==
    /\ Window \in Nat \ {0}
    /\ GlitchBurst \in Nat \ {0} /\ AbortBurst \in Nat \ {0}
    /\ ErrorBurst \in Nat \ {0}
    /\ MaxEvents \in Nat /\ MaxTime \in Nat

VARIABLES glitchWindow,  \* _glitch_window
          abortWindow,   \* _abort_window
          runaway,       \* _runaway_active
          errTs,         \* _err_ts
          alerts,        \* _active of the AlertManager
          bus,           \* tec and state of TecRecPoller
          poll,          \* what the ip command under way has read, if one is
          controller,    \* the CAN controller: its error counter and state
          now,           \* time.time()
          events         \* history: kind and time of every event

windows == <<glitchWindow, abortWindow, runaway>>
vars == <<windows, errTs, alerts, bus, poll, controller, now, events>>

\* Error frames: a protocol error, one with the controller's counters, bus-off,
\* and the restart from it (restart-ms in scripts/setup_can.sh:17).
ErrorKinds == {"error", "crtl", "busoff", "restarted"}

\* Bus states, as the poller and the controller tell them.
BusStates == [tec : 0..MaxEvents, state : {"unknown", "error-active", "bus-off"}]

Record(kind) ==
    /\ Len(events) < MaxEvents
    /\ events' = Append(events, [kind |-> kind, t |-> now])

\* The controller after it has reported an error: in bus-off it reports none but
\* its restart, which clears its counters.
Reporting(kind) ==
    /\ (kind = "restarted") = (controller.state = "bus-off")
    /\ controller' =
          CASE kind = "crtl" -> [controller EXCEPT !.tec = @ + 1]
            [] kind = "busoff" -> [controller EXCEPT !.state = "bus-off"]
            [] kind = "restarted" -> [tec |-> 0, state |-> "error-active"]
            [] OTHER -> controller

Init ==
    /\ glitchWindow = <<>> /\ abortWindow = <<>> /\ runaway = FALSE
    /\ errTs = <<>>
    /\ alerts = [c \in Categories |-> NoAlert]
    /\ bus = [tec |-> 0, state |-> "unknown"]
    /\ poll = <<>>
    /\ controller = [tec |-> 0, state |-> "error-active"]
    /\ now = 0
    /\ events = <<>>

-----------------------------------------------------------------------------
\* Mutant: the window is emptied, as if it were a count per second.
TrimAll(window) == Picked(window, {i \in DOMAIN window : window[i] = now})

\* _trim: the window is in order, so its old entries are those at the left.
Trim(window) == Picked(window, {i \in DOMAIN window : window[i] >= now - Window})

\* ingest_pru_event on a GLITCH, with the flush of the pending alert.  The ring
\* has this type and the next (shared_mem.h:31-32); the firmware of this
\* commit writes neither.
Glitch ==
    /\ Record("glitch")
    /\ glitchWindow' = Trim(Append(glitchWindow, now))
    /\ alerts' = Submit(alerts, IF Len(glitchWindow') >= GlitchBurst
                                THEN "GLITCH_BURST" ELSE "SINGLE_GLITCH", now)
    /\ UNCHANGED <<abortWindow, runaway, errTs, bus, poll, controller, now>>

\* ingest_pru_event on a DOMINANT_RUNAWAY: the flag is never taken back.
Runaway ==
    /\ Record("runaway")
    /\ runaway' = TRUE
    /\ alerts' = Submit(alerts, "DOMINANT_RUNAWAY", now)
    /\ UNCHANGED <<glitchWindow, abortWindow, errTs, bus, poll, controller, now>>

\* ingest_abort, the callback of PartialFrameDetector.
Abort ==
    /\ Record("abort")
    /\ abortWindow' = Trim(Append(abortWindow, now))
    /\ alerts' = Submit(alerts, IF Len(abortWindow') >= AbortBurst
                                THEN "REPEATED_ABORTS" ELSE "ABORTED_FRAME", now)
    /\ UNCHANGED <<glitchWindow, runaway, errTs, bus, poll, controller, now>>

\* Mutant: the burst test counts the frames before this one.
ErrorAlertsLate(kind, count) ==
    LET burst == IF count > ErrorBurst
                 THEN Submit(alerts, "REPEATED_ERROR_FRAMES", now) ELSE alerts
    IN  IF kind = "busoff" THEN Submit(burst, "BUS_OFF", now) ELSE burst

\* The alerts of an error frame, with count frames in the window.
ErrorAlerts(kind, count) ==
    LET burst == IF count >= ErrorBurst
                 THEN Submit(alerts, "REPEATED_ERROR_FRAMES", now) ELSE alerts
    IN  IF kind = "busoff" THEN Submit(burst, "BUS_OFF", now) ELSE burst

\* The times of the error frames of the last second, with one more now.
ErrorTimes ==
    LET all == Append(errTs, now)
    IN  Picked(all, {i \in DOMAIN all : now - all[i] < Window})

\* Mutant: counters the frame does not carry overwrite those of the poller.
ErrorFrameUnchecked(kind) ==
    /\ Reporting(kind)
    /\ Record(kind)
    /\ bus' = [bus EXCEPT !.tec = IF kind = "crtl" THEN controller'.tec ELSE -1]
    /\ errTs' = ErrorTimes
    /\ alerts' = ErrorAlerts(kind, Len(errTs'))
    /\ UNCHANGED <<windows, poll, now>>

\* _on_can_readable with an error frame: decode (only class CRTL carries the
\* counters), ingest_error_frame.
ErrorFrame(kind) ==
    /\ Reporting(kind)
    /\ Record(kind)
    /\ bus' = IF kind = "crtl" THEN [bus EXCEPT !.tec = controller'.tec] ELSE bus
    /\ errTs' = ErrorTimes
    /\ alerts' = ErrorAlerts(kind, Len(errTs'))
    /\ UNCHANGED <<windows, poll, now>>

\* snapshot() for an update of the page: it trims the two windows, and not the
\* times of the error frames, whose number it sends as error_frames_1s.
Snapshot ==
    /\ glitchWindow' = Trim(glitchWindow)
    /\ abortWindow' = Trim(abortWindow)
    /\ UNCHANGED <<runaway, errTs, alerts, bus, poll, controller, now, events>>

-----------------------------------------------------------------------------
\* TecRecPoller._poll starts `ip`, which reads the controller while the event
\* loop goes on.
PollRead ==
    /\ poll = <<>>
    /\ poll' = <<controller>>
    /\ UNCHANGED <<windows, errTs, alerts, bus, controller, now, events>>

\* The rest of a poll, which leaves the bus state as given.
PollEnds(answered) ==
    /\ poll # <<>>
    /\ poll' = <<>>
    /\ bus' = answered
    /\ UNCHANGED <<windows, errTs, alerts, controller, now, events>>

\* Mutant: a count of zero is taken for a missing one.
PollAnswerNonZero ==
    PollEnds([tec   |-> IF poll[1].tec = 0 THEN bus.tec ELSE poll[1].tec,
              state |-> poll[1].state])

\* communicate() returns: the answer replaces the bus state.
PollAnswer == PollEnds(poll[1])

\* The same with a state BusState does not know, such as "stopped".
PollUnknownState == PollEnds([bus EXCEPT !.tec = poll[1].tec])

\* No `ip`, or an answer that is not its JSON: any exception ends this poll.
PollFails == PollEnds(bus)

Tick ==
    /\ now < MaxTime
    /\ now' = now + 1
    /\ UNCHANGED <<windows, errTs, alerts, bus, poll, controller, events>>

Next ==
    \/ Glitch \/ Runaway \/ Abort
    \/ \E kind \in ErrorKinds : ErrorFrame(kind)
    \/ Snapshot
    \/ PollRead \/ PollAnswer \/ PollUnknownState \/ PollFails
    \/ Tick

\* The task polls every second (tec_rec_poller.py:20-23), and `ip` now and then
\* gives a complete answer.
Fairness == WF_vars(PollRead) /\ SF_vars(PollAnswer)

Spec == Init /\ [][Next]_vars /\ Fairness

-----------------------------------------------------------------------------
\* Type invariant: in particular the counters of the bus state are numbers.
TypeOK ==
    /\ glitchWindow \in Seq(0..now) /\ abortWindow \in Seq(0..now)
    /\ runaway \in BOOLEAN
    /\ errTs \in Seq(0..now)
    /\ alerts \in [Categories -> [ts : -1..now, count : 0..MaxEvents]]
    /\ bus \in BusStates
    /\ poll \in {<<>>} \cup {<<answer>> : answer \in BusStates}
    /\ controller \in BusStates
    /\ now \in 0..MaxTime
    /\ Len(events) <= MaxEvents

\* How many events of these kinds, up to the i-th, there are since time from.
CountAt(i, kinds, from) ==
    Cardinality({j \in 1..i : events[j].kind \in kinds /\ events[j].t >= from})

\* Should the i-th event have raised c?  A burst is told by the events of the
\* window that ends with it, whose edge counts for glitches and aborts only.
Raises(i, c) ==
    LET kind == events[i].kind
        edge == events[i].t - Window
        glitches == CountAt(i, {"glitch"}, edge)
        aborts == CountAt(i, {"abort"}, edge)
        errors == CountAt(i, ErrorKinds, edge + 1)
    IN  \/ kind = "glitch" /\ c = (IF glitches >= GlitchBurst
                                   THEN "GLITCH_BURST" ELSE "SINGLE_GLITCH")
        \/ kind = "abort" /\ c = (IF aborts >= AbortBurst
                                  THEN "REPEATED_ABORTS" ELSE "ABORTED_FRAME")
        \/ kind = "runaway" /\ c = "DOMINANT_RUNAWAY"
        \/ kind \in ErrorKinds /\ errors >= ErrorBurst /\ c = "REPEATED_ERROR_FRAMES"
        \/ kind = "busoff" /\ c = "BUS_OFF"

\* The alert table is what the events so far call for (README.md:636-640,
\* 671-679): single and burst alerts told apart by the last second, one alert
\* per category, counted at each occurrence, refired only past its cooldown.
\* Updates of the page, which trim the windows, make no difference.
AlertsMatchEvents ==
    \A c \in Categories :
       LET times == [i \in DOMAIN events |-> events[i].t]
       IN  alerts[c] = AlertAfter(Picked(times, {i \in DOMAIN events : Raises(i, c)}), c)

\* Times of the events of these kinds, from time t on.
Since(kinds, t) == {i \in DOMAIN events : events[i].kind \in kinds /\ events[i].t >= t}

\* An update counts the glitches and aborts of the last second, whatever events
\* and updates trimmed the windows before (signal_quality_monitor.py:57-62).
SnapshotCounts ==
    [][Snapshot =>
         /\ Len(glitchWindow') = Cardinality(Since({"glitch"}, now - Window))
         /\ Len(abortWindow') = Cardinality(Since({"abort"}, now - Window))]_vars

\* diagnostics_aggregator.py:46: "Rolling 1-second error frame counter"
\* (README.md:569: "error frames/sec").  The error_frames_1s of an update is the
\* number of error frames in the second before the update, whose edge does not
\* count (diagnostics_aggregator.py:76).
ErrorRateIsCurrent ==
    [][Snapshot => Len(errTs') = Cardinality(Since(ErrorKinds, now - Window + 1))]_vars

\* README.md:571: "dominant runaway status", shown as ACTIVE or OK
\* (app.js:207).  An update that says ACTIVE has a runaway of the last second.
RunawayIsCurrent ==
    [][Snapshot => (runaway' => Since({"runaway"}, now - Window) # {})]_vars

\* The bus state catches up with the controller once the controller rests,
\* although error frames and polls write it in any order and an answer may be
\* older than the frame it overwrites (tec_rec_poller.py:39,
\* diagnostics_aggregator.py:148-152).
BusStateCatchesUp == <>[](bus = controller)
=============================================================================
