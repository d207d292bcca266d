---------------------------- MODULE TrafficStats ----------------------------
(***************************************************************************)
(* The running statistics fed by the ingest loop with every frame it       *)
(* publishes (server.py:180-184): BusLoadMonitor, TimingStatsCollector and *)
(* LatencyMonitor, with the endpoints that reset or reconfigure them.      *)
(* Each keeps a window, a sum or a table beside the stream; the properties *)
(* compare them with the stream itself, which only the model keeps.        *)
(***************************************************************************)
EXTENDS Integers, Sequences, SequencesExt, FiniteSetsExt, Deques

CONSTANTS Nodes,         \* lower bytes of arbitration ids
          Window,        \* _WINDOW_S of BusLoadMonitor
          PendingLimit,  \* age at which a pending request is purged
          MeasLen,       \* maxlen of the measurements and of _intervals
          MaxGap,        \* bound: time from one frame to the next
          MaxFrames,     \* bound: frames
          MaxEdits       \* bound: calls of the endpoints

ASSUME StatsAssumption ==
    /\ Nodes \subseteq 0..255
    /\ Window \in Nat /\ PendingLimit \in Nat
    /\ MeasLen \in Nat \ {0}
    /\ MaxGap \in Nat /\ MaxFrames \in Nat /\ MaxEdits \in Nat

VARIABLES loadWindow,  \* _window: time and bits of the frames of the last second
          sumBits,     \* _sum_bits
          pairs,       \* _explicit and _patterns
          pending,     \* _pending, NoTs where a label is missing
          meas,        \* _meas
          timing,      \* _stats of TimingStatsCollector
          stream,      \* history: every frame, with the pairs in force and their epoch
          resetAt,     \* history: frames at the last reset of the timing
          epoch,       \* history: calls of set_pairs so far
          edits        \* history: endpoint calls so far

load == <<loadWindow, sumBits>>
latency == <<pairs, pending, meas>>
history == <<stream, resetAt, epoch, edits>>
vars == <<load, latency, timing, history>>

\* Arbitration ids by base and node: requests 0x1xx, answers 0x0xx, others.
Ids == [base : {"request", "answer"}, node : Nodes]

NoTs == -1

\* The dlc of a frame: a request is shorter than its answer.
Dlc(id) == IF id.base = "request" THEN 3 ELSE 8

\* _frame_bit_length: 47 bits around the payload, and stuff bits.
FrameBits(dlc) == LET all == 8 * dlc + 47 IN all + (all - 1) \div 4

-----------------------------------------------------------------------------
\* BusLoadMonitor

\* The total of the bits of some entries of the window.
TotalBits(entries) ==
    LET upTo[n \in 0..Len(entries)] == IF n = 0 THEN 0
                                       ELSE upTo[n - 1] + entries[n].bits
    IN  upTo[Len(entries)]

\* What the window keeps of a frame.
Entry(id, ts) == [ts |-> ts, bits |-> FrameBits(Dlc(id))]

\* The first entry of a window, just appended to, that is not before cutoff.
FirstYoung(window, cutoff) ==
    Min({i \in DOMAIN window : window[i].ts >= cutoff})

\* Mutant: the trim forgets the bits of the entries it drops.
RecordKeepingSum(id, ts) ==
    LET all == Append(loadWindow, Entry(id, ts))
        first == FirstYoung(all, ts - Window)
    IN  /\ loadWindow' = SubSeq(all, first, Len(all))
        /\ sumBits' = sumBits + FrameBits(Dlc(id))

\* record(frame): append, add, then drop from the left what is too old.
Record(id, ts) ==
    LET all == Append(loadWindow, Entry(id, ts))
        first == FirstYoung(all, ts - Window)
    IN  /\ loadWindow' = SubSeq(all, first, Len(all))
        /\ sumBits' = sumBits + FrameBits(Dlc(id))
                        - TotalBits(SubSeq(all, 1, first - 1))

-----------------------------------------------------------------------------
\* LatencyMonitor.  A pair is explicit, two ids, or a pattern, two bases; a
\* pattern has a label per node.  Labels of different pairs are different.
PairOf(kind, req, resp) == [kind |-> kind, req |-> req, resp |-> resp]

\* load_pairs: the entries of the file, none if there is no file; all but the
\* patterns are explicit, whatever type they give.
LoadPairs(file) ==
    {PairOf(IF e.kind = "pattern" THEN "pattern" ELSE "explicit", e.req, e.resp) : e \in file}

\* A file of the model: the pattern of the example, and the same pair spelled
\* out for each node.
Entries ==
    {[kind |-> "pattern", req |-> "request", resp |-> "answer"]} \cup
    {[kind |-> "", req  |-> [base |-> "request", node |-> n],
                   resp |-> [base |-> "answer", node |-> n]] : n \in Nodes}
Files == {{}, Entries}

Pairs == LoadPairs(Entries)

\* ep.label or pp.label_for(node).
Label(p, id) == [pair |-> p, node |-> id.node]
Labels == [pair : Pairs, node : Nodes]

IsRequest(p, id) ==
    IF p.kind = "explicit" THEN id = p.req ELSE id.base = p.req

\* The elif branches: a response is not also a request.
IsResponse(p, id) ==
    /\ ~IsRequest(p, id)
    /\ IF p.kind = "explicit" THEN id = p.resp ELSE id.base = p.resp

Requested(id, config) == {Label(p, id) : p \in {q \in config : IsRequest(q, id)}}
Answered(id, config) == {Label(p, id) : p \in {q \in config : IsResponse(q, id)}}

\* Mutant: the purge comes before the match.
IngestPurgingFirst(id, ts) ==
    LET young == [l \in Labels |->
                     IF pending[l] >= ts - PendingLimit THEN pending[l] ELSE NoTs]
        hits == {l \in Answered(id, pairs) : young[l] # NoTs}
    IN  /\ meas' = [l \in Labels |->
                      IF l \in hits THEN PushBounded(meas[l], ts - young[l], MeasLen)
                      ELSE meas[l]]
        /\ pending' = [l \in Labels |->
                         IF l \in Requested(id, pairs) THEN ts
                         ELSE IF l \in hits THEN NoTs ELSE young[l]]

\* ingest(frame): a request is noted, over an earlier one of its label; a
\* response takes the pending request; then requests too old are purged.
IngestLatency(id, ts) ==
    LET hits == {l \in Answered(id, pairs) : pending[l] # NoTs}
        noted == [l \in Labels |->
                     IF l \in Requested(id, pairs) THEN ts
                     ELSE IF l \in hits THEN NoTs ELSE pending[l]]
    IN  /\ meas' = [l \in Labels |->
                      IF l \in hits THEN PushBounded(meas[l], ts - pending[l], MeasLen)
                      ELSE meas[l]]
        /\ pending' = [l \in Labels |->
                         IF noted[l] >= ts - PendingLimit THEN noted[l] ELSE NoTs]

-----------------------------------------------------------------------------
\* TimingStatsCollector

NoStats == [count |-> 0, lastTs |-> NoTs, intervals |-> <<>>]

\* _IdStats.record(ts)
RecordTiming(id, ts) ==
    timing' = [timing EXCEPT ![id] =
        [count     |-> @.count + 1,
         lastTs    |-> ts,
         intervals |-> IF @.lastTs = NoTs THEN @.intervals
                       ELSE PushBounded(@.intervals, ts - @.lastTs, MeasLen)]]

\* reset(): every id forgotten.
NoTiming == [id \in Ids |-> NoStats]

-----------------------------------------------------------------------------
Init ==
    /\ loadWindow = <<>> /\ sumBits = 0
    /\ pairs \in {LoadPairs(file) : file \in Files}
    /\ pending = [l \in Labels |-> NoTs]
    /\ meas = [l \in Labels |-> <<>>]
    /\ timing = NoTiming
    /\ stream = <<>> /\ resetAt = 0 /\ epoch = 0 /\ edits = 0

\* The time of the newest frame.
LastTs == IF stream = <<>> THEN 0 ELSE Last(stream).ts

\* One frame through the monitors; kernel timestamps do not go back.
Publish(id, gap) ==
    LET ts == LastTs + gap
    IN  /\ Len(stream) < MaxFrames
        /\ Record(id, ts)
        /\ RecordTiming(id, ts)
        /\ IngestLatency(id, ts)
        /\ stream' = Append(stream, [id |-> id, ts |-> ts, pairs |-> pairs,
                                    epoch |-> epoch])
        /\ UNCHANGED <<pairs, resetAt, epoch, edits>>

\* Mutant: a change of pairs leaves the pending requests.
SetPairsOnly(file) ==
    /\ edits < MaxEdits
    /\ pairs' = LoadPairs(file)
    /\ epoch' = epoch + 1
    /\ edits' = edits + 1
    /\ UNCHANGED <<load, pending, meas, timing, stream, resetAt>>

\* PUT /api/latency/pairs: the list is saved and loaded; set_pairs forgets the
\* pending requests and keeps the measurements.
SetPairs(file) ==
    /\ edits < MaxEdits
    /\ pairs' = LoadPairs(file)
    /\ pending' = [l \in Labels |-> NoTs]
    /\ epoch' = epoch + 1
    /\ edits' = edits + 1
    /\ UNCHANGED <<load, meas, timing, stream, resetAt>>

\* Mutant: the counts are cleared, the last arrivals are not.
ResetCounts ==
    /\ edits < MaxEdits
    /\ timing' = [id \in Ids |-> [NoStats EXCEPT !.lastTs = timing[id].lastTs]]
    /\ resetAt' = Len(stream)
    /\ edits' = edits + 1
    /\ UNCHANGED <<load, latency, stream, epoch>>

\* POST /api/timing/reset
ResetTiming ==
    /\ edits < MaxEdits
    /\ timing' = NoTiming
    /\ resetAt' = Len(stream)
    /\ edits' = edits + 1
    /\ UNCHANGED <<load, latency, stream, epoch>>

Next ==
    \/ \E id \in Ids, gap \in 0..MaxGap : Publish(id, gap)
    \/ \E file \in Files : SetPairs(file)
    \/ ResetTiming

Spec == Init /\ [][Next]_vars

-----------------------------------------------------------------------------
TypeOK ==
    /\ loadWindow \in Seq([ts : Nat, bits : Nat]) /\ sumBits \in Nat
    /\ pairs \subseteq Pairs
    /\ pending \in [Labels -> Nat \cup {NoTs}]
    /\ \A l \in Labels : meas[l] \in Seq(Nat) /\ Len(meas[l]) <= MeasLen
    /\ \A id \in Ids :
          /\ timing[id].count \in Nat /\ timing[id].lastTs \in Nat \cup {NoTs}
          /\ timing[id].intervals \in Seq(Nat)
          /\ Len(timing[id].intervals) <= MeasLen
    /\ Len(stream) <= MaxFrames
    /\ resetAt \in 0..Len(stream) /\ epoch \in 0..MaxEdits /\ edits \in 0..MaxEdits

\* The last MeasLen elements of s.
Latest(s) == SubSeq(s, Max({1, Len(s) - MeasLen + 1}), Len(s))

\* The load is that of the frames of the window that ends with the newest
\* frame, however many additions and subtractions led to the running sum
\* (bus_load.py:26-30).  It is not that of the second before now: a silent bus
\* keeps it (bus_load.py:38).
LoadIsWindowSum ==
    LET recent == Picked(stream, {i \in DOMAIN stream : stream[i].ts >= LastTs - Window})
    IN  sumBits = TotalBits([n \in DOMAIN recent |-> Entry(recent[n].id, recent[n].ts)])

\* Frame j answers request i of label l: they came under the same set of pairs,
\* no frame of the label came between, and the request was young enough at the
\* frame before j.
Answers(l, i, j) ==
    /\ i < j
    /\ stream[i].epoch = stream[j].epoch
    /\ l \in Requested(stream[i].id, stream[i].pairs)
    /\ l \in Answered(stream[j].id, stream[j].pairs)
    /\ \A k \in (i + 1)..(j - 1) :
          l \notin Requested(stream[k].id, stream[k].pairs)
                     \cup Answered(stream[k].id, stream[k].pairs)
    /\ stream[j - 1].ts - stream[i].ts <= PendingLimit

\* A measurement is the time from a request to its first answer: none is made
\* with a repeated answer, an overtaken request or pairs since replaced, and
\* none is missed.  The limit bounds the wait up to the frame before the
\* answer only: on a quiet bus an answer of any age is measured
\* (latency_monitor.py:91-111).  A reset of the timing leaves the measurements,
\* which is not what the README says of it: see ResetClearsLatency.
LatenciesBelong ==
    \A l \in Labels :
       LET answers == InOrder({j \in DOMAIN stream : \E i \in DOMAIN stream : Answers(l, i, j)},
                              Len(stream))
           Request(j) == CHOOSE i \in DOMAIN stream : Answers(l, i, j)
       IN  meas[l] = Latest([n \in DOMAIN answers |->
                                stream[answers[n]].ts - stream[Request(answers[n])].ts])

\* README.md:584: "Reset Stats (Latency tab) - clears all timing and latency
\* accumulators"; the button posts /api/timing/reset (app.js:402-403).  After it
\* no latency is left in the table.
ResetClearsLatency ==
    [][ResetTiming => \A l \in Labels : meas'[l] = <<>>]_vars

\* Counts and intervals of an id are those of its frames since the reset; no
\* interval spans one (timing_stats.py:16-20, 67).
IntervalsSinceReset ==
    \A id \in Ids :
       LET mine == Picked(stream, {i \in DOMAIN stream : i > resetAt /\ stream[i].id = id})
       IN  /\ timing[id].count = Len(mine)
           /\ timing[id].intervals =
                 Latest([n \in 1..(Len(mine) - 1) |-> mine[n + 1].ts - mine[n].ts])
=============================================================================
