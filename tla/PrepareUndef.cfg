CONSTANTS
    smp = smp
    usb = usb
    usb_2 = usb_2
    usb_m = usb_m
    main = main
    hub = hub
    Symbol = {smp, usb}
    Extra = {usb_2, usb_m}
    Second <- MCSecond
    Untested = {usb_m}
    Unjudged = {usb_2}
    File = {main, hub}
    Dimacs <- MCDimacs
    Confs <- MCConfs
    Pcrs <- MCPcrs
    Leftovers <- MCLeftovers
    MaxRuns = 4
    MaxCrashes = 1
    MaxEdits = 1
SPECIFICATION Spec
CHECK_DEADLOCK FALSE
INVARIANT UndefinedNotOpen
