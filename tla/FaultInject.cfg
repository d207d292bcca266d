\* Two scenarios at a time and three faults: a fault of a killed generator, one
\* of each scenario of the next.
SPECIFICATION FaultSpec
CONSTANTS
    CommandLines <- Lines
    MaxInjected = 3
INVARIANT
    FaultTypeOK
PROPERTY
    BusReleased
