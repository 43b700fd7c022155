CONSTANTS
    smp = smp
    up = up
    x = x
    y = y
    Config = {smp, up}
    Atom = {x, y}
    Models <- MCModels
    Lefts <- MCLefts
    Rights <- MCRights
SPECIFICATION FairSpec
CHECK_DEADLOCK FALSE
INVARIANT TypeOK ComparedAgree AcceptsEquivalent
PROPERTY Ends
