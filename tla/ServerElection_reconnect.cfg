\* Servers 1..3 run in the ring 1..5, 1 is leader and crashes; slots 4 and 5
\* are empty, so every hop to them times out.  With timely acks and connects,
\* and acks received as soon as they are sent (PromptAcks), every running
\* replica ends up connected to one running leader.
CONSTANTS
    Running <- MCRunning3
    Lead = 1
    Crashable = {1}
    MaxCrashes = 1
    PromptAcks = TRUE
    Timely = TRUE
SPECIFICATION Spec
PROPERTY EventuallyConnected
CHECK_DEADLOCK FALSE
