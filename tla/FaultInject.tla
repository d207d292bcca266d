---------------------------- MODULE FaultInject -----------------------------
(***************************************************************************)
(* The fault injector of the second board: the firmware of its PRU         *)
(* (pru/pru0_fault_inject/main.c) and the generator that drives it         *)
(* (tools/can_gen/generator.py), two processors that share fault_mode and  *)
(* faults_done in DDR without a lock.  The firmware has started before the *)
(* first generator and is not loaded again.                                *)
(***************************************************************************)
EXTENDS Integers, Sequences

CONSTANTS CommandLines,  \* the lists of scenarios a generator is started with
          MaxInjected    \* bound: faults

\* The scenarios: four drive the PRU, each by a fault mode of its name, and
\* "traffic" stands for those that send frames, which may also fail.
OneShot == {"glitch", "dominant"}
Endless == {"glitch_burst", "intermittent", "traffic"}

ASSUME FaultInjectAssumption ==
    /\ CommandLines \subseteq Seq(OneShot \cup Endless)
    /\ MaxInjected \in Nat

VARIABLES magic,     \* magic is FAULT_SHM_MAGIC
          mode,      \* fault_mode
          done,      \* faults_done
          pru,       \* where the PRU is, the mode it read, and the count
          gen,       \* where run() of the generator is
          ok,        \* _ok of its PruFault
          line,      \* its scenarios, until it leaves the try block
          loop,      \* --loop, likewise
          tasks,     \* state of the task of each scenario
          store,     \* the set_mode under way: what pack_into has yet to write
          injected   \* history: faults put on the bus

shm == <<magic, mode, done>>
generator == <<gen, ok, line, loop, tasks>>
faultVars == <<shm, pru, generator, store, injected>>

GlitchModes == {"glitch", "glitch_burst", "intermittent"}
Modes == GlitchModes \cup {"idle", "dominant"}

\* R30 bit 0 is low between these points of the loop, and high at all others.
Dominant == pru.at \in {"glitch", "hold"}

\* The firmware has started, the generator has not.
FaultInit ==
    /\ magic = TRUE /\ mode = "idle" /\ done = 0
    /\ pru = [at |-> "poll", mode |-> "idle", count |-> 0]
    /\ gen = "off" /\ ok = FALSE /\ line = <<>> /\ loop = FALSE /\ tasks = <<>>
    /\ store = [at |-> "none", mode |-> "idle", count |-> 0]
    /\ injected = 0

-----------------------------------------------------------------------------
(* The PRU: an idle poll changes nothing, so only the others are steps. *)

\* A poll that finds one of the glitch modes drives the bus dominant.
PruGlitch ==
    /\ pru.at = "poll" /\ mode \in GlitchModes /\ injected < MaxInjected
    /\ pru' = [pru EXCEPT !.at = "glitch", !.mode = mode]
    /\ injected' = injected + 1
    /\ UNCHANGED <<shm, generator, store>>

\* Its 400 ns are over.
PruGlitchEnds ==
    /\ pru.at = "glitch"
    /\ pru' = [pru EXCEPT !.at = "count"]
    /\ UNCHANGED <<shm, generator, store, injected>>

\* A poll that finds FAULT_DOMINANT.
PruHold ==
    /\ pru.at = "poll" /\ mode = "dominant" /\ injected < MaxInjected
    /\ pru' = [pru EXCEPT !.at = "hold", !.mode = mode]
    /\ injected' = injected + 1
    /\ UNCHANGED <<shm, generator, store>>

\* Mutant: the wait looks at the mode it has read (a lost volatile).
PruReleaseCached ==
    /\ pru.at = "hold" /\ pru.mode # "dominant"
    /\ pru' = [pru EXCEPT !.at = "count"]
    /\ UNCHANGED <<shm, generator, store, injected>>

\* It holds the bus until the mode is another.
PruRelease ==
    /\ pru.at = "hold" /\ mode # "dominant"
    /\ pru' = [pru EXCEPT !.at = "count"]
    /\ UNCHANGED <<shm, generator, store, injected>>

\* faults_done++ reads ...
PruCountRead ==
    /\ pru.at = "count"
    /\ pru' = [pru EXCEPT !.at = "add", !.count = done]
    /\ UNCHANGED <<shm, generator, store, injected>>

\* ... and writes.
PruCountWrite ==
    /\ pru.at = "add"
    /\ done' = pru.count + 1
    /\ pru' = [at    |-> IF pru.mode = "glitch" THEN "one-shot" ELSE "poll",
               mode  |-> "idle", count |-> 0]
    /\ UNCHANGED <<magic, mode, generator, store, injected>>

\* A one-shot glitch puts the mode back, whatever it is by now.
PruOneShotEnds ==
    /\ pru.at = "one-shot"
    /\ mode' = "idle"
    /\ pru' = [pru EXCEPT !.at = "poll"]
    /\ UNCHANGED <<magic, done, generator, store, injected>>

PruStep ==
    \/ PruGlitch \/ PruGlitchEnds
    \/ PruHold \/ PruRelease
    \/ PruCountRead \/ PruCountWrite \/ PruOneShotEnds

-----------------------------------------------------------------------------
(* set_mode.  It runs on the event loop, so that no task comes in between,  *)
(* but the PRU does.  pack_into clears its 16 bytes, then stores each field. *)

Writing == store.at # "none"

\* Mutant: faults_done is stored as one more, for the fault asked for.
SetModeCounting(m) ==
    /\ ~Writing
    /\ IF ok THEN store' = [at |-> "clear", mode |-> m, count |-> done + 1]
             ELSE UNCHANGED store

\* The call: it first reads faults_done, to write it back.  Without a
\* connection it does nothing.
SetMode(m) ==
    /\ ~Writing
    /\ IF ok THEN store' = [at |-> "clear", mode |-> m, count |-> done]
             ELSE UNCHANGED store

StoreClear ==
    /\ store.at = "clear"
    /\ magic' = FALSE /\ mode' = "idle" /\ done' = 0
    /\ store' = [store EXCEPT !.at = "magic"]
    /\ UNCHANGED <<pru, generator, injected>>

StoreMagic ==
    /\ store.at = "magic"
    /\ magic' = TRUE
    /\ store' = [store EXCEPT !.at = "mode"]
    /\ UNCHANGED <<mode, done, pru, generator, injected>>

StoreMode ==
    /\ store.at = "mode"
    /\ mode' = store.mode
    /\ store' = [store EXCEPT !.at = "count"]
    /\ UNCHANGED <<magic, done, pru, generator, injected>>

StoreCount ==
    /\ store.at = "count"
    /\ done' = store.count
    /\ store' = [at |-> "none", mode |-> "idle", count |-> 0]
    /\ UNCHANGED <<magic, mode, pru, generator, injected>>

-----------------------------------------------------------------------------
(* The generator. *)

Fresh(scenarios) == [i \in DOMAIN scenarios |-> "created"]

\* PruFault(): without access to /dev/mem, or without the magic word, the
\* generator goes on with no connection to the PRU.
Connect == ok' \in {FALSE, magic}

\* main() and run() up to the pause after the socket is open: the mode a killed
\* generator has left stays.
Launch ==
    /\ gen \in {"off", "ended", "killed"}
    /\ Connect
    /\ line' \in CommandLines
    /\ loop' \in BOOLEAN
    /\ tasks' = Fresh(line')
    /\ gen' = "settling"
    /\ UNCHANGED <<shm, pru, store, injected>>

\* The pause is over: a round of tasks begins.
Settle ==
    /\ gen = "settling"
    /\ gen' = "running"
    /\ UNCHANGED <<shm, pru, ok, line, loop, tasks, store, injected>>

\* A task runs up to its first sleep, in the order of the command line.
StartTask(i) ==
    /\ gen = "running"
    /\ tasks[i] = "created" /\ \A j \in 1..(i - 1) : tasks[j] # "created"
    /\ tasks' = [tasks EXCEPT ![i] = "asleep"]
    /\ IF line[i] = "traffic" THEN ~Writing /\ UNCHANGED store ELSE SetMode(line[i])
    /\ UNCHANGED <<shm, pru, gen, ok, line, loop, injected>>

\* A one-shot scenario wakes up, dominant (80 ms) before glitch (100 ms).
WakeTask(i) ==
    /\ gen = "running"
    /\ tasks[i] = "asleep" /\ line[i] \in OneShot
    /\ line[i] = "glitch" => \A j \in DOMAIN tasks :
                                line[j] = "dominant" => tasks[j] = "over"
    /\ \A j \in DOMAIN tasks : tasks[j] # "created"
    /\ tasks' = [tasks EXCEPT ![i] = "over"]
    /\ SetMode("idle")
    /\ UNCHANGED <<shm, pru, gen, ok, line, loop, injected>>

AllOver == \A i \in DOMAIN tasks : tasks[i] = "over"

\* gather returns in a loop: the next round.
NextRound ==
    /\ gen = "running" /\ loop /\ AllOver /\ ~Writing
    /\ tasks' = Fresh(line)
    /\ UNCHANGED <<shm, pru, gen, ok, line, loop, store, injected>>

\* Nothing runs any more.
Leave == tasks' = <<>> /\ line' = <<>> /\ loop' = FALSE

\* The finally block: the tasks are cancelled, and none of them cleans up.
Finally ==
    /\ gen' = "resetting"
    /\ Leave
    /\ SetMode("idle")
    /\ UNCHANGED <<shm, pru, ok, injected>>

\* gather returns outside a loop, or its 10 s are over, by when the one-shot
\* scenarios have ended.
RoundEnds ==
    /\ gen = "running" /\ ~loop
    /\ \A i \in DOMAIN tasks : tasks[i] = IF line[i] \in OneShot THEN "over" ELSE "asleep"
    /\ Finally

\* A scenario raises (a send or a cansend that fails): gather does as well, once
\* the other tasks have had their first turn.
TaskFails ==
    /\ gen = "running"
    /\ \A i \in DOMAIN tasks : tasks[i] # "created"
    /\ \E i \in DOMAIN tasks : line[i] = "traffic" /\ tasks[i] = "asleep"
    /\ Finally

\* Ctrl-C cancels run() where it awaits.
Interrupt ==
    /\ gen = "running"
    /\ Finally

\* Ctrl-C in the pause, or no CAN socket: the finally block is not reached.
InterruptEarly ==
    /\ gen = "settling"
    /\ gen' = "off"
    /\ Leave
    /\ UNCHANGED <<shm, pru, ok, store, injected>>

\* close() of the PruFault sets the mode once more.
Close ==
    /\ gen = "resetting"
    /\ gen' = "closing"
    /\ SetMode("idle")
    /\ UNCHANGED <<shm, pru, ok, line, loop, tasks, injected>>

End ==
    /\ gen = "closing" /\ ~Writing
    /\ gen' = "ended"
    /\ UNCHANGED <<shm, pru, ok, line, loop, tasks, store, injected>>

\* The process is killed, between any two stores.
Kill ==
    /\ gen \notin {"off", "ended", "killed"}
    /\ gen' = "killed"
    /\ Leave
    /\ store' = [at |-> "none", mode |-> "idle", count |-> 0]
    /\ UNCHANGED <<shm, pru, ok, injected>>

FaultNext ==
    \/ PruStep
    \/ StoreClear \/ StoreMagic \/ StoreMode \/ StoreCount
    \/ Launch \/ Settle
    \/ \E i \in DOMAIN tasks : StartTask(i) \/ WakeTask(i)
    \/ NextRound \/ RoundEnds \/ TaskFails
    \/ Interrupt \/ InterruptEarly
    \/ Close \/ End \/ Kill

\* The PRU never stops.  Nothing obliges the generator to go on.
FaultSpec == FaultInit /\ [][FaultNext]_faultVars /\ WF_faultVars(PruStep)

-----------------------------------------------------------------------------
\* Type invariant.  The count is never ahead of the faults on the bus, although
\* both sides write it from a value they have read before.
FaultTypeOK ==
    /\ magic \in BOOLEAN /\ mode \in Modes /\ done \in 0..injected
    /\ pru \in [at : {"poll", "glitch", "hold", "count", "add", "one-shot"},
                mode : Modes, count : 0..injected]
    /\ gen \in {"off", "settling", "running", "resetting", "closing", "ended", "killed"}
    /\ ok \in BOOLEAN
    /\ line \in CommandLines \cup {<<>>} /\ loop \in BOOLEAN
    /\ tasks = <<>> \/ tasks \in [DOMAIN line -> {"created", "asleep", "over"}]
    /\ store \in [at : {"none", "clear", "magic", "mode", "count"},
                  mode : Modes, count : 0..injected]
    /\ injected \in 0..MaxInjected

\* A generator that ends in order, and is not followed by another, leaves the
\* bus to the others: whatever the scenarios and however they ended, no fault is
\* on it for good, and none comes any more (generator.py:366-372).  That takes a
\* connection: one started without access to /dev/mem frees nothing.  One that
\* found no magic word needs none, for whoever cleared it cleared the mode first.
BusReleased ==
    <>[](gen = "ended" /\ (ok \/ ~magic)) => <>[](~Dominant /\ mode = "idle")
=============================================================================
