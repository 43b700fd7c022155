CONSTANTS
    j1 = j1
    j2 = j2
    j3 = j3
    Job = {j1, j2, j3}
    Writable <- MCOwnHome
    MaxFails = 1
    MaxDeaths = 0
    MaxRestarts = 0
SPECIFICATION Spec
CHECK_DEADLOCK FALSE
INVARIANT RunsOnReadySetup
