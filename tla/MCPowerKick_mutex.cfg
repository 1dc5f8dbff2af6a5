\* The build with the mutex, one suspend, no hang: every render finishes.
SPECIFICATION FairSpec
CONSTANTS
    r1 = r1
    Renders = {r1}
    PowerLockWrap = TRUE
    MaxSuspends = 1
    MaxHangs = 0
    MaxInitFails = 0
PROPERTY EveryRenderFinishes
\* Suspends, hangs and renders are bounded: there the system comes to rest.
CHECK_DEADLOCK FALSE
