\* Servers 1..3, leader 1 crashes; an ack may arrive after the 300 ms
\* WaitForNeighborAck timeout.
CONSTANTS
    Running <- MCRunning3
    Lead = 1
    Crashable = {1}
    MaxCrashes = 1
    PromptAcks = FALSE
    Timely = FALSE
SPECIFICATION Spec
INVARIANT AtMostOneLeader
CHECK_DEADLOCK FALSE
