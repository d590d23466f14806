\* WaitUntilActive with the constants of the code, in units of 200 ms, and
\* PollUntilProcessed scaled down: no pause, a growing one, one beyond the cap.
SPECIFICATION Spec
CONSTANTS
    MaxRetries = 5
    BaseDelay = 1
    TotalTimeout = 50
    MaxDelay = 8
    Intervals = {0, 3, 12}
    MaxPolls = 6
    MaxClock = 52
    MaxPollClock = 26
INVARIANTS
    GivesUpAtDeadline
\* The call ends: a returned call has no further step.
CHECK_DEADLOCK FALSE
