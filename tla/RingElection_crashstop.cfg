\* Four admins start as a stable cluster led by port 0; up to two of them
\* (the coordinator included) crash and none restarts.  Leadership stays
\* unique, and the survivors end up agreeing on one running coordinator.
CONSTANTS
    N <- MCNodesCrashStop
    MaxCrashes <- MCCrashesCrashStop
    MaxStarts = 1
SPECIFICATION SpecStable
INVARIANT AtMostOneLeader
PROPERTY EventuallyAgreedLeader
CHECK_DEADLOCK FALSE
