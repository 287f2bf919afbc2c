SPECIFICATION Spec
CONSTANTS
    StopGrace = 2
    ExitGrace = 6
    StopTimeout = 7
    Watchdog = 10
INVARIANT JdtlsNotOrphaned
