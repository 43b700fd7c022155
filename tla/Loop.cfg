CONSTANTS
    w1 = w1
    w2 = w2
    fork = fork
    exit = exit
    Worker = {w1, w2}
    OneShot = {w2}
    File = {fork, exit}
    FileList <- MCFileList
    Report <- MCShortReport
    Products <- MCProducts
    MaxKills = 1
    MaxRestarts = 1
    MaxCleans = 1
SPECIFICATION FairSpec
CHECK_DEADLOCK FALSE
INVARIANT TypeOK NoLineLost SummaryExact NeverFlattered ProductsComplete DoneMeansAllClaimed
PROPERTY OpensOnce LoopTerminates RerunAfterClean
