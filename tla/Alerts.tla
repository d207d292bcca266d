------------------------------- MODULE Alerts -------------------------------
(***************************************************************************)
(* AlertManager (backend/can_sniffer/alert_manager.py) as operators on its *)
(* table of active alerts, with the severities and cooldowns of models.py. *)
(* An alert is known by its category: the diagnostics of the server raise  *)
(* none with a CAN id or a signal name.                                    *)
(***************************************************************************)
EXTENDS Integers, Sequences, SequencesExt

CONSTANT CooldownOf  \* ALERT_COOLDOWN_S, per severity

Severities == {"INFO", "WARN", "CRITICAL"}

ASSUME CooldownAssumption == CooldownOf \in [Severities -> Nat]

\* The categories the server's diagnostics raise.
Categories == {"SINGLE_GLITCH", "GLITCH_BURST", "ABORTED_FRAME", "REPEATED_ABORTS",
               "DOMINANT_RUNAWAY", "REPEATED_ERROR_FRAMES", "BUS_OFF"}

\* ALERT_SEVERITY_MAP
Severity(c) ==
    CASE c \in {"BUS_OFF", "DOMINANT_RUNAWAY", "REPEATED_ABORTS"} -> "CRITICAL"
      [] c = "SINGLE_GLITCH" -> "INFO"
      [] OTHER -> "WARN"

Cooldown(c) == CooldownOf[Severity(c)]

\* The fields of an alert that change; no alert is resolved (resolve has no
\* caller), so every alert of the table is active.
NoAlert == [ts |-> -1, count |-> 0]

\* Mutant: a suppressed alert restarts its cooldown.
SubmitExtending(table, c, now) ==
    [table EXCEPT ![c] = [ts |-> now, count |-> @.count + 1]]

\* submit(): a new alert, one suppressed within its cooldown, or one refired.
Submit(table, c, now) ==
    [table EXCEPT ![c] =
        [ts    |-> IF @.count > 0 /\ now - @.ts < Cooldown(c) THEN @.ts ELSE now,
         count |-> @.count + 1]]

-----------------------------------------------------------------------------
\* What the table promises, in terms of the times at which a category was
\* submitted: the n-th submission leaves the alert with the time at which it
\* last fired, the first submission or the first past a cooldown since.
LastFired(times, c) ==
    LET fired[n \in 1..Len(times)] ==
            IF n = 1 THEN times[1]
            ELSE IF times[n] - fired[n - 1] < Cooldown(c) THEN fired[n - 1]
            ELSE times[n]
    IN  fired[Len(times)]

\* The alert after submissions at these times.
AlertAfter(times, c) ==
    IF times = <<>> THEN NoAlert
    ELSE [ts |-> LastFired(times, c), count |-> Len(times)]
=============================================================================
