SPECIFICATION FairSpec
CONSTANTS
    s1 = s1  e1 = e1  e2 = e2  scheduler = scheduler
    ServiceName = ServiceName
    Host = Host
    Schedules <- OneEach
    Events <- TwoEvents
    UseRegistry = TRUE
    Configured = TRUE
    FailLimit = 2
    ConnectRetries = 2
    Nil = Nil
    MaxFailures = 4
    MaxKills = 1
INVARIANTS StartTypeOK AskedFirst AttemptsPaid Seeded
PROPERTIES Registers EventuallyServes
