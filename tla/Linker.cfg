CONSTANTS
    kernel = kernel
    mm = mm
    net = net
    fork = fork
    exit = exit
    sys = sys
    slab = slab
    both = both
    smp = smp
    probe = probe
    foodfafe = foodfafe
    Dir = {kernel, mm, net}
    File = {fork, exit, sys, slab}
    FilesIn <- MCFilesIn
    Excluded = {net}
    Selections <- MCSelections
    Symbol = {probe, foodfafe}
    Marker = foodfafe
    Config = {both, smp}
    VM <- MCVM
    Approx <- MCApprox
    Sources <- MCSources
    DirLimit = 2
    MaxRuns = 2
    MaxCrashes = 1
SPECIFICATION FairSpec
CHECK_DEADLOCK FALSE
INVARIANT TypeOK NothingLinkedSilently ReportsReal AllLinked
PROPERTY LinkerEnds Promised
