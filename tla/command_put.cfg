SPECIFICATION CmdSpec
CONSTANTS
    i1 = i1  i2 = i2  n1 = n1  n2 = n2  a1 = a1  all = all
    g1 = g1  g2 = g2  h1 = h1
    Id = {i1, i2}
    Name = {n1}
    Addr = {a1}
    Profile <- MCProfiles
    EmptyProfile <- NoProfile
    Broken = {}
    Goroutine = {g1}
    Main = Main
    Nil = Nil
    NoObject = NoObject
    Seed <- OneSeed
    Offered <- Shrunk
    Ops = {}
    Others = {}
    Faults = FALSE
    NotFoundError = FALSE
    MaxCalls = 0
    MaxChanges = 0
    MaxCrashes = 0
    Word <- MCWord
    Lower <- MCLower
    Handler = {h1}
    Targets = {i1, all}
    Words <- MCWord
    ServiceLocked = FALSE
    MaxCmdOps = 2
    Described <- Described1
    MaxRequests = 1
INVARIANT PutDispatched
