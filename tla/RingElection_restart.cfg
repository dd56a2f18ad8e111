\* Three admins, one crash, and the crashed admin is started again.
CONSTANTS
    N <- MCNodesRestart
    MaxCrashes = 1
    MaxStarts <- MCStartsRestart
SPECIFICATION SpecStable
INVARIANT AtMostOneLeader
CHECK_DEADLOCK FALSE
