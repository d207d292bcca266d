----------------------------- MODULE SofCapture -----------------------------
(***************************************************************************)
(* The capture loop of the PRU0 firmware, pru/pru0_timestamp/main.c: how a *)
(* falling edge on the CAN line becomes a SOF event with a 64-bit time.    *)
(*                                                                         *)
(* The PRU polls an interrupt line fed by two latches in a row: the GPIO   *)
(* bank's status bit, which the edge sets, and the PRUSS INTC event, which *)
(* is level-triggered and so is set for as long as the GPIO bit is.  Time  *)
(* is the number of ticks since the IEP counter was reset; the counter     *)
(* itself wraps at IepPeriod.  The PRU executes an instruction in 5 ns:    *)
(* time passes only while it polls.                                        *)
(***************************************************************************)
EXTENDS Integers, Sequences

CONSTANTS IepPeriod,    \* 2^32 ticks, IEP_PERIOD_NS
          BlindCounts,  \* BLIND_COUNTS
          MaxIdle,      \* longest time from one capture to the next
          LastFall      \* bound: last tick at which the line may fall

ASSUME SofCaptureAssumption ==
    /\ IepPeriod \in Nat \ {0}
    /\ BlindCounts \in 1..(IepPeriod - 1)
    /\ MaxIdle \in Nat /\ BlindCounts < MaxIdle
    /\ LastFall \in Nat

VARIABLES pc,           \* where the PRU stands in main
          gpio,         \* GPIO_IRQSTATUS_0 bit of the CAN pin
          intc,         \* PRUSS INTC event 24, read as R31[30]
          iepSnap,      \* iep_snap
          tFall,        \* t_fall_ns
          prevIep,      \* shm->_pru_prev_iep
          rolloverNs,   \* shm->_pru_rollover_ns
          events,       \* history: t_fall_ns of every event written, and when
          time,         \* ticks since the IEP reset
          lastEdge,     \* history: time of the latest falling edge since the reset
          lastCapture   \* history: time of the latest capture

latches == <<gpio, intc>>
shm == <<prevIep, rolloverNs>>
regs == <<iepSnap, tFall>>
seen == <<time, lastEdge, lastCapture>>
captureVars == <<pc, latches, shm, regs, events, seen>>

Labels == {"bootGpio", "bootIntc", "bootShm", "wait", "ackGpio", "ackIntc",
           "write", "blind", "drainGpio", "drainIntc"}

\* iep_cnt_read().
Iep == time % IepPeriod

\* Edges may have been latched, and shared memory holds anything, at start.
CaptureInit ==
    /\ pc = "bootGpio"
    /\ gpio \in BOOLEAN /\ intc = gpio
    /\ prevIep \in 0..1 /\ rolloverNs \in 0..1
    /\ iepSnap = 0 /\ tFall = 0
    /\ events = <<>>
    /\ time = 0 /\ lastEdge = -1 /\ lastCapture = 0

-----------------------------------------------------------------------------
\* gpio2_irq_clear().
ClearGpio(from, to) ==
    /\ pc = from
    /\ pc' = to
    /\ gpio' = FALSE
    /\ UNCHANGED <<intc, shm, regs, events, seen>>

\* Mutant: an INTC event in pulse mode is cleared even if the GPIO bit is set.
ClearIntcPulse(from, to) ==
    /\ pc = from
    /\ pc' = to
    /\ intc' = FALSE
    /\ UNCHANGED <<gpio, shm, regs, events, seen>>

\* intc_event_clear(): a level event whose source is still set comes back.
ClearIntc(from, to) ==
    /\ pc = from
    /\ pc' = to
    /\ intc' = gpio
    /\ UNCHANGED <<gpio, shm, regs, events, seen>>

\* main starts: clear both latches, then initialise the shared memory.
ShmInit ==
    /\ pc = "bootShm"
    /\ pc' = "wait"
    /\ prevIep' = 0 /\ rolloverNs' = 0
    /\ UNCHANGED <<latches, regs, events, seen>>

Boot ==
    \/ ClearGpio("bootGpio", "bootIntc")
    \/ ClearIntc("bootIntc", "bootShm")
    \/ ShmInit

\* Mutant: rollovers are not counted.
IepNoRollover(count) == rolloverNs

\* Mutant: a counter equal to the previous one counts as a rollover.
IepRolloverOrSame(count) ==
    IF count <= prevIep THEN rolloverNs + IepPeriod ELSE rolloverNs

\* iep_to_ns: the counter went backwards, so it has wrapped since last time.
IepRollover(count) ==
    IF count < prevIep THEN rolloverNs + IepPeriod ELSE rolloverNs

\* The poll of R31 sees the interrupt; the counter is read and extended.
Capture ==
    /\ pc = "wait" /\ intc
    /\ pc' = "ackGpio"
    /\ iepSnap' = Iep
    /\ rolloverNs' = IepRollover(Iep)
    /\ prevIep' = Iep
    /\ tFall' = IepRollover(Iep) + Iep
    /\ lastCapture' = time
    /\ UNCHANGED <<latches, events, time, lastEdge>>

\* write_event; the ring it writes to is the subject of module PruRing.
WriteEvent ==
    /\ pc = "write"
    /\ pc' = "blind"
    /\ events' = Append(events, [t |-> tFall, at |-> lastCapture])
    /\ UNCHANGED <<latches, shm, regs, seen>>

\* Mutants: one tick early; one tick late.
BlindElapsedEarly == (Iep - iepSnap) % IepPeriod >= BlindCounts - 1
BlindElapsedLate == (Iep - iepSnap) % IepPeriod > BlindCounts

\* iep_cnt_read() - iep_snap, in 32-bit arithmetic, has reached BLIND_COUNTS.
BlindElapsed == (Iep - iepSnap) % IepPeriod >= BlindCounts

BlindOver ==
    /\ pc = "blind"
    /\ BlindElapsed
    /\ pc' = "drainGpio"
    /\ UNCHANGED <<latches, shm, regs, events, seen>>

\* Mutant: the latches are cleared in the other order.
DrainSwapped == ClearIntc("drainGpio", "drainIntc") \/ ClearGpio("drainIntc", "wait")

\* After the capture, and again after the blind period: GPIO first, then INTC.
Ack == ClearGpio("ackGpio", "ackIntc") \/ ClearIntc("ackIntc", "write")

Drain == ClearGpio("drainGpio", "drainIntc") \/ ClearIntc("drainIntc", "wait")

Firmware == Boot \/ Capture \/ Ack \/ WriteEvent \/ BlindOver \/ Drain

-----------------------------------------------------------------------------
\* The CAN line falls (start of frame or a bit inside it).
Edge ==
    /\ time <= LastFall
    /\ gpio' = TRUE /\ intc' = TRUE
    /\ lastEdge' = time
    /\ UNCHANGED <<pc, shm, regs, events, time, lastCapture>>

\* The PRU is in one of its polling loops with nothing to do yet.
IdlePolling == (pc = "wait" /\ ~intc) \/ (pc = "blind" /\ ~BlindElapsed)

\* Some edge follows a capture within MaxIdle.  A blind period that begins
\* at LastFall may still run to its end, twice over.
PollTick ==
    /\ IdlePolling
    /\ time < LastFall + 2 * BlindCounts
    /\ pc = "wait" => time < LastFall /\ time - lastCapture < MaxIdle
    /\ time' = time + 1
    /\ UNCHANGED <<pc, latches, shm, regs, events, lastEdge, lastCapture>>

CaptureNext == Firmware \/ Edge \/ PollTick

CaptureSpec == CaptureInit /\ [][CaptureNext]_captureVars

-----------------------------------------------------------------------------
\* Types of the variables.
CaptureTypeOK ==
    /\ pc \in Labels
    /\ gpio \in BOOLEAN /\ intc \in BOOLEAN
    /\ iepSnap \in 0..(IepPeriod - 1) /\ prevIep \in Nat
    /\ tFall \in Nat /\ rolloverNs \in Nat
    /\ events \in Seq([t : Nat, at : Nat])
    /\ time \in 0..(LastFall + BlindCounts) /\ lastEdge \in -1..time /\ lastCapture \in 0..time

\* A SOF is captured at the very tick of an edge: an edge of the blind period,
\* or one already captured, never comes back through a latch (main.c:234-240).
SofOnlyAtEdge == [][Capture => lastEdge = time]_captureVars

\* While the PRU waits, the line it polls tells exactly whether an edge is
\* latched: it is neither deaf to one nor woken by nothing.
PollTellsTheTruth == pc = "wait" => (intc <=> gpio)

\* t_fall_ns is the time since the IEP reset over any number of rollovers
\* (README.md:844-845), as long as no idle period hides one: MaxIdle is below
\* IepPeriod.  Two captures are a blind period apart, also across a rollover.
CapturesSound ==
    \A i \in DOMAIN events :
       /\ events[i].t = events[i].at
       /\ \A j \in 1..(i - 1) : events[i].at - events[j].at >= BlindCounts
=============================================================================
