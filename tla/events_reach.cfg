SPECIFICATION Spec
CONSTANTS
    s1 = s1  e1 = e1  e2 = e2  scheduler = scheduler
    ServiceName = ServiceName
    Host = Host
    Schedules <- OneEach
    Events <- OneEvent
    UseRegistry = FALSE
    Configured = TRUE
    FailLimit = 2
    ConnectRetries = 2
    Nil = Nil
    MaxFailures = 0
    MaxKills = 0
INVARIANT EventsReachService
