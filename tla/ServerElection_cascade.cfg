\* Servers 1..3, any of them may crash, twice in all: a replica may crash
\* during the election or the new leader after it.  Timely acks and connects.
CONSTANTS
    Running <- MCRunning3
    Lead = 1
    Crashable <- MCRunning3
    MaxCrashes = 2
    PromptAcks = FALSE
    Timely = TRUE
SPECIFICATION Spec
INVARIANT TypeOK AtMostOneLeader
PROPERTY ElectionRefined
CHECK_DEADLOCK FALSE
