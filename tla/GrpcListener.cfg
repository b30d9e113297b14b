\* A stopped listener takes no step.
CONSTANTS
    MaxAttempts = 3
    InitialBackoff = 1
    MaxBackoff = 3
    StallTimeout = 3
SPECIFICATION ListenerSpec
INVARIANTS
    GivesUpOnBarrenAttempts
PROPERTIES
    ShutdownStopsListener
    SilentStreamIsLeft
    BarrenListenerStops
CHECK_DEADLOCK FALSE
