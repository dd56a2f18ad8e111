\* Three admins started from nothing, in any order, no crash.
CONSTANTS
    N <- MCNodesBoot
    MaxCrashes = 0
    MaxStarts = 1
SPECIFICATION SpecBoot
PROPERTY EventuallyAgreedLeader
CHECK_DEADLOCK FALSE
