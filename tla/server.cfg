SPECIFICATION FairServerSpec
CONSTANTS
    c1 = c1
    c2 = c2
    Procs = {c1, c2}
    Pids = {i1, i2, i3}
    NoPid = NoPid
    RunMode <- MCRunMode
    RunOnStartup = TRUE
    MaxFaults = 2
INVARIANTS
    ServerTypeOK
    OneHolder
    OneAtWork
    OneSweep
PROPERTIES
    SweepsGoOn
    ShutdownEnds
