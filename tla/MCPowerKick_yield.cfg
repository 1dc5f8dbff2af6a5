\* The build with the mutex and one hang: the watchdog and a power
\* transition that flushes the work of the watchdog wait for each other.
SPECIFICATION FairSpec
CONSTANTS
    r1 = r1
    Renders = {r1}
    PowerLockWrap = TRUE
    MaxSuspends = 1
    MaxHangs = 1
    MaxInitFails = 0
PROPERTY RecoveryGivesWay
\* Suspends, hangs and renders are bounded: there the system comes to rest.
CHECK_DEADLOCK FALSE
