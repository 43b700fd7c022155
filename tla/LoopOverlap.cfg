CONSTANTS
    w1 = w1
    w2 = w2
    fork = fork
    exit = exit
    Worker = {w1, w2}
    OneShot = {}
    File = {fork, exit}
    FileList <- MCFileList
    Report <- MCReport
    Products <- MCProducts
    MaxKills = 0
    MaxRestarts = 0
    MaxCleans = 0
SPECIFICATION Spec
CHECK_DEADLOCK FALSE
PROPERTY OnlyUnreported
