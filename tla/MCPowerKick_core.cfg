\* The build without the mutex: ISR_ID does not wait, KERNEL_ID gives up
\* after a while.  The system is suspended once and one start of the core
\* times out, or the microkernel hangs once.
SPECIFICATION Spec
CONSTANTS
    r1 = r1
    Renders = {r1}
    PowerLockWrap = FALSE
    MaxSuspends = 1
    MaxHangs = 1
    MaxInitFails = 1
CONSTRAINT OneTrouble
INVARIANTS
    AsleepMeansEmpty
    HardwareIsOn
    KickCovered
    PowerExclusive
\* Suspends, hangs and renders are bounded: there the system comes to rest.
CHECK_DEADLOCK FALSE
