SPECIFICATION PartSpec
CONSTANTS
    Part = {"profiles", "import", "schedules", "results", "compare", "config", "endpoints"}
    d1 = d1
    Dev = {d1}
    Nil = Nil
    NoObject = NoObject
    Word <- MCWord
    Lower <- MCLower
    Profiles <- Every
    Faults = TRUE
    MaxChanges = 2
    Title = {"p", "q", "r"}
    Files <- MCFiles
    NoTitle = "none"
    MaxOthers = 2
    MaxTroubles = 2
    MaxStarts = 2
    Lists = {"schedules", "scheduleEvents"}
    Entries <- MCEntries
    NoEntry = NoEntry
    InConfig <- MCInConfig
    MaxRoom = 1
    MaxListOps = 3
    Byte = 2
    Strings = {"", "text"}
    Times = {0, 5}
    Now = 9
    Compared <- MCCompared
    i1 = i1
    i2 = i2
    Instance = {i1, i2}
    Kind <- MCKind
    Value = {"one", "two"}
    Junk = "junk"
    Absent = "absent"
    Given <- MCGiven
    MaxEdits = 2
    MaxErrors = 1
    md = md
    cd = cd
    ac = ac
    scc = scc
    ec = ec
    Client = {scc, ec}
    Dependency = {md, cd}
    ServiceKey <- MCServiceKey
    Address = {"l1", "l2"}
    NoAddress = "none"
    NoUrl = "nourl"
    Configured <- MCConfigured
    UseRegistry = TRUE
    Local = {md, cd}
    Probed <- MCProbed
    Seeding = {scc}
    MaxMoves = 3
    MaxFailures = 1
CHECK_DEADLOCK FALSE
INVARIANTS
    PartsTypeOK TablesMatch Described Resolvable PanicExplained
    ImportAccounts SnapshotKept ReadingExact CompareAgrees
    ConfigFromStore StoreWins EarlyEndsBlamed
    UrlOfService ProbedReady
PROPERTIES
    ImplementsLists UpdateVisible UrlConverges StartsUp
