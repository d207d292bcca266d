\* The bounds of Diagnostics.cfg.
SPECIFICATION Spec
CONSTANTS
    CooldownOf <- Cooldowns
    Window = 1
    GlitchBurst = 2
    AbortBurst = 2
    ErrorBurst = 2
    MaxEvents = 4
    MaxTime = 3
PROPERTIES
    RunawayIsCurrent
