\* A tick is the window.  Bursts of two, four events and three ticks: a burst
\* can be raised, suppressed, and refired past the WARN cooldown of two ticks;
\* the cooldowns stand in the order of the code's 0, 5 and 10 s.
SPECIFICATION Spec
CONSTANTS
    CooldownOf <- Cooldowns
    Window = 1
    GlitchBurst = 2
    AbortBurst = 2
    ErrorBurst = 2
    MaxEvents = 4
    MaxTime = 3
INVARIANTS
    TypeOK
    AlertsMatchEvents
PROPERTIES
    SnapshotCounts
    BusStateCatchesUp
