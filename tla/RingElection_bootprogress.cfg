\* Three admins started from nothing, in any order, no crash: the start-up
\* handshake (AskForCoordinator) always ends with a coordinator_id.
CONSTANTS
    N <- MCNodesBoot
    MaxCrashes = 0
    MaxStarts = 1
SPECIFICATION SpecBoot
INVARIANT TypeOK
PROPERTY EveryNodeLearnsCoordinator
CHECK_DEADLOCK FALSE
