CONSTANTS
    j1 = j1
    j2 = j2
    j3 = j3
    Job = {j1, j2, j3}
    Writable <- MCOwnLocal
    MaxFails = 3
    MaxDeaths = 1
    MaxRestarts = 2
SPECIFICATION FairSpec
CHECK_DEADLOCK FALSE
INVARIANT TypeOK OneLeader NobodyRunsDuringSetup DoneMeansCloned ReadyUnlessFailed NobodyWaitsInVain
PROPERTY EveryJobRuns WaitEnds
