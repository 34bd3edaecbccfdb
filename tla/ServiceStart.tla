----------------------------- MODULE ServiceStart -----------------------------
(***************************************************************************)
(* Service.Start (service.go) from the configuration to ListenAndServe:    *)
(* the registration in Consul (registry/consul.go), the wait for Core Data *)
(* and Core Metadata (clientinitializer.go), the schedules and schedule    *)
(* events the configuration names (schedules.go), the registration in Core *)
(* Metadata with its retries (attemptInit), and Stop.  The services it     *)
(* calls are external.  A step is one call; any call can fail, at most     *)
(* MaxFailures do, and the process can be killed and started again.        *)
(*                                                                         *)
(* The caches newDeviceCache fills are the subject of DeviceCache.         *)
(***************************************************************************)
EXTENDS Naturals, Sequences

CONSTANTS
    ServiceName,     \* svc.Name
    Host,            \* configuration: where the service listens
    Schedules,       \* configuration: the names of the schedules
    Events,          \* configuration: the schedule events
    UseRegistry,     \* argument of Start
    Configured,      \* whether validateClientConfig accepts the configuration
    FailLimit,       \* configuration: attempts to reach Consul
    ConnectRetries,  \* configuration: attempts to register
    Nil,             \* no record, the zero value
    MaxFailures,     \* bound: failed calls
    MaxKills         \* bound: how often the process is killed

Id == Nat \ {0}

\* A record of Core Metadata, as far as the start looks at it.
Record == [id: Id, host: {Host, Nil}]

Dependency == {"Data", "Metadata"}

\* An event without a service is the device service's own.
Owner(e) == IF e.service = Nil THEN ServiceName ELSE e.service
EventName == {Events[k].name : k \in DOMAIN Events}
ScheduleName == {Schedules[k] : k \in DOMAIN Schedules}

ASSUME StartAssumption ==
    /\ ServiceName # Nil /\ Host # Nil
    /\ Nil \notin Id /\ Nil \notin Record
    /\ Schedules \in Seq({Schedules[k] : k \in DOMAIN Schedules})
    /\ Events \in Seq({Events[k] : k \in DOMAIN Events})
    /\ ServiceName \notin EventName
    /\ UseRegistry \in BOOLEAN /\ Configured \in BOOLEAN
    /\ FailLimit \in Nat /\ ConnectRetries \in Nat
    /\ MaxFailures \in Nat /\ MaxKills \in Nat

VARIABLES
    issued,        \* Core Metadata: ids issued so far
    service,       \* Core Metadata: the record under svc.Name
    addressables,  \* Core Metadata: the record of each addressable
    schedules,     \* Core Metadata: names of the schedules
    events,        \* Core Metadata: the owner of each schedule event
    consul,        \* Consul: which of service and health check it has
    stage,         \* the next step of Start
    waiting,       \* dependencies checkServiceAvailable still waits for
    frames,        \* checkClientsInitialSuccessful: unfinished outer calls
    next,          \* the loop variable of addSchedules, addScheduleEvents
    attempts,      \* svc.initAttempts; for Consul, failed attempts
    ds,            \* svc.ds
    addr,          \* attemptInit: its addressable
    stopped,       \* svc.stopped
    answered,      \* history: what answered its latest call in this start
    dropped,       \* history: what a failed call kept from being created
    paid,          \* history: failed registration calls of this start
    failures, kills

metadata == <<issued, service, addressables, schedules, events>>
progress == <<waiting, frames, next, attempts, ds, addr, stopped>>
history == <<answered, dropped, paid>>
svars == <<metadata, consul, stage, progress, history, failures, kills>>

Init ==
    /\ issued = 0 /\ service = Nil /\ consul = {}
    /\ addressables = [n \in EventName \cup {ServiceName} |-> Nil]
    /\ schedules = {} /\ events = [n \in EventName |-> Nil]
    /\ stage = "down" /\ waiting = {} /\ frames = 0 /\ next = 1
    /\ attempts = 0 /\ ds = Nil /\ addr = Nil /\ stopped = FALSE
    /\ answered = {} /\ dropped = {} /\ paid = 0
    /\ failures = 0 /\ kills = 0

-----------------------------------------------------------------------------
(* Calls.  A create call is refused when the name is taken; a failed one    *)
(* may have had its effect, with an error or a malformed id for an answer.  *)

CanFail == failures < MaxFailures
Works == UNCHANGED failures
Fails == CanFail /\ failures' = failures + 1

Outcomes(taken) ==
    {IF taken THEN "refused" ELSE "created"}
    \cup (IF ~CanFail THEN {} ELSE IF taken THEN {"lost"}
          ELSE {"lost", "unanswered", "garbled"})
Takes(r) == r \in {"created", "unanswered", "garbled"}
Count(r) == failures' = IF r \in {"created", "refused"} THEN failures
                        ELSE failures + 1

At(s) == stage = s
Go(s) == stage' = s

-----------------------------------------------------------------------------
(* LoadConfig, GetConsulClient, validateClientConfig.                       *)

Launch ==
    /\ stage \in {"down", "exited"}
    /\ Go(IF UseRegistry THEN "checkConsulUp" ELSE "validate")
    /\ waiting' = Dependency /\ frames' = 0 /\ next' = 1 /\ attempts' = 0
    /\ ds' = Nil /\ addr' = Nil /\ stopped' = FALSE
    /\ answered' = {} /\ dropped' = {} /\ paid' = 0
    /\ UNCHANGED <<metadata, consul, failures, kills>>

CheckConsulUp ==
    /\ At("checkConsulUp")
    /\ \/ attempts >= FailLimit /\ Go("exited") /\ Works /\ UNCHANGED attempts
       \/ attempts < FailLimit /\ Go("serviceRegister") /\ Works
          /\ attempts' = 0
       \/ attempts < FailLimit /\ Fails /\ attempts' = attempts + 1
          /\ UNCHANGED stage                    \* no answer
       \/ attempts < FailLimit /\ Fails /\ Go("exited")
          /\ UNCHANGED attempts                 \* a bad status
    /\ UNCHANGED <<metadata, consul, waiting, frames, next, ds, addr, stopped,
                   history, kills>>

\* ConsulClient.Init: ServiceRegister and CheckRegister replace what is there.
ConsulRegister(s, what, then) ==
    /\ At(s)
    /\ \/ consul' = consul \cup {what} /\ Works /\ Go(then)
       \/ consul' \in {consul, consul \cup {what}} /\ Fails /\ Go("exited")
    /\ UNCHANGED <<metadata, progress, history, kills>>

ServiceRegister == ConsulRegister("serviceRegister", "service", "checkRegister")
CheckRegister == ConsulRegister("checkRegister", "check", "validate")

Validate ==
    /\ At("validate")
    /\ Go(IF Configured THEN "dependencies" ELSE "exited")
    /\ UNCHANGED <<metadata, consul, progress, history, failures, kills>>

-----------------------------------------------------------------------------
(* initDependencyClients.                                                   *)

\* One goroutine per dependency asks until it is told that it is there.
CheckServiceAvailable(d) ==
    /\ At("dependencies") /\ d \in waiting
    /\ \/ Works /\ waiting' = waiting \ {d} /\ answered' = answered \cup {d}
       \/ Fails /\ UNCHANGED <<waiting, answered>>
    /\ UNCHANGED <<metadata, consul, stage, frames, next, attempts, ds, addr,
                   stopped, dropped, paid, kills>>

\* The wait group is done.
DependenciesAvailable ==
    /\ At("dependencies") /\ waiting = {}
    /\ Go("scheduleClient")
    /\ UNCHANGED <<metadata, consul, progress, history, failures, kills>>

\* checkClientsInitialSuccessful calls itself after a failure, and the outer
\* call goes on to ScheduleEvents when the inner one returns.
ScheduleClient ==
    /\ At("scheduleClient")
    /\ \/ Works /\ Go("eventClient") /\ UNCHANGED frames
          /\ answered' = answered \cup {"Schedules"}
       \/ Fails /\ frames' = frames + 1 /\ UNCHANGED stage
          /\ answered' = answered \ {"Schedules"}
    /\ UNCHANGED <<metadata, consul, waiting, next, attempts, ds, addr,
                   stopped, dropped, paid, kills>>

\* Mutant of EventClient: one return too many.
EventClientReturning ==
    /\ At("eventClient") /\ Works
    /\ frames' = frames - 1
    /\ Go(IF frames > 0 THEN "eventClient" ELSE "schedule")
    /\ answered' = answered \cup {"ScheduleEvents"}
    /\ UNCHANGED <<metadata, consul, waiting, next, attempts, ds, addr,
                   stopped, dropped, paid, kills>>

\* Mutant of EventClient: a failure is only logged.
EventClientOnce ==
    /\ At("eventClient")
    /\ \/ Works /\ answered' = answered \cup {"ScheduleEvents"}
       \/ Fails /\ answered' = answered \ {"ScheduleEvents"}
    /\ frames' = IF frames > 0 THEN frames - 1 ELSE 0
    /\ Go(IF frames > 0 THEN "eventClient" ELSE "schedule")
    /\ UNCHANGED <<metadata, consul, waiting, next, attempts, ds, addr,
                   stopped, dropped, paid, kills>>

\* The second failure is followed by a tail call.
EventClient ==
    /\ At("eventClient")
    /\ \/ Works /\ frames = 0 /\ Go("schedule") /\ UNCHANGED frames
          /\ answered' = answered \cup {"ScheduleEvents"}
       \/ Works /\ frames > 0 /\ frames' = frames - 1 /\ UNCHANGED stage
          /\ answered' = answered \cup {"ScheduleEvents"}
       \/ Fails /\ Go("scheduleClient") /\ UNCHANGED frames
          /\ answered' = answered \ {"ScheduleEvents"}
    /\ UNCHANGED <<metadata, consul, waiting, next, attempts, ds, addr,
                   stopped, dropped, paid, kills>>

-----------------------------------------------------------------------------
(* getScheduleCache: addSchedules, then addScheduleEvents.  It runs before  *)
(* attemptInit, when svc.ds is still the zero value.                        *)

NextSchedule == next' = next + 1 /\ Go("schedule")
NextEvent == next' = next + 1 /\ Go("event")

\* bson.ObjectIdHex panics on a malformed id, which ends the process.
Panic == Go("exited") /\ UNCHANGED next

InSeeding == UNCHANGED <<service, consul, waiting, frames, attempts, ds, addr,
                         stopped, answered, paid, kills>>

SchedulesDone ==
    /\ At("schedule") /\ next > Len(Schedules)
    /\ next' = 1 /\ Go("event")
    /\ UNCHANGED <<metadata, dropped, failures>> /\ InSeeding

\* isScheduleExist: a failed lookup says "no".
ScheduleForName ==
    /\ At("schedule") /\ next <= Len(Schedules)
    /\ \/ Schedules[next] \in schedules /\ Works /\ NextSchedule
       \/ Schedules[next] \notin schedules /\ Works /\ Go("addSchedule")
          /\ UNCHANGED next
       \/ Fails /\ Go("addSchedule") /\ UNCHANGED next
    /\ UNCHANGED <<metadata, dropped>> /\ InSeeding

AddSchedule ==
    /\ At("addSchedule")
    /\ LET n == Schedules[next] IN \E r \in Outcomes(n \in schedules) :
         /\ Count(r)
         /\ schedules' = IF Takes(r) THEN schedules \cup {n} ELSE schedules
         /\ issued' = IF Takes(r) THEN issued + 1 ELSE issued
         /\ dropped' = IF r = "lost" THEN dropped \cup {<<"schedule", n>>}
                       ELSE dropped
         /\ IF r = "garbled" THEN Panic ELSE NextSchedule
    /\ UNCHANGED <<addressables, events>> /\ InSeeding

EventsDone ==
    /\ At("event") /\ next > Len(Events)
    /\ next' = 1 /\ Go("register")
    /\ UNCHANGED <<metadata, dropped, failures>> /\ InSeeding

ScheduleEventForName ==
    /\ At("event") /\ next <= Len(Events)
    /\ LET n == Events[next].name IN
         \/ events[n] # Nil /\ Works /\ NextEvent
         \/ events[n] = Nil /\ Works /\ Go("eventAddressable")
            /\ UNCHANGED next
         \/ Fails /\ Go("eventAddressable") /\ UNCHANGED next
    /\ UNCHANGED <<metadata, dropped>> /\ InSeeding

EventAddressableForName ==
    /\ At("eventAddressable")
    /\ LET n == Events[next].name IN
         \/ addressables[n] # Nil /\ Works /\ Go("addEvent")
         \/ addressables[n] = Nil /\ Works /\ Go("addEventAddressable")
         \/ Fails /\ Go("addEventAddressable")
    /\ UNCHANGED <<metadata, next, dropped>> /\ InSeeding

\* Protocol, address and port are those of svc.ds.
Location(d) == IF d = Nil THEN Nil ELSE d.host

\* Mutant of AddEventAddressable: the event is created in any case.
AddEventAddressableUnchecked ==
    /\ At("addEventAddressable")
    /\ LET n == Events[next].name IN
         \E r \in Outcomes(addressables[n] # Nil) :
           /\ Count(r)
           /\ issued' = IF Takes(r) THEN issued + 1 ELSE issued
           /\ addressables' = IF ~Takes(r) THEN addressables ELSE
                [addressables EXCEPT ![n] = [id |-> issued + 1,
                                             host |-> Location(ds)]]
    /\ Go("addEvent")
    /\ UNCHANGED <<next, dropped, schedules, events>> /\ InSeeding

AddEventAddressable ==
    /\ At("addEventAddressable")
    /\ LET n == Events[next].name IN
         \E r \in Outcomes(addressables[n] # Nil) :
           /\ Count(r)
           /\ issued' = IF Takes(r) THEN issued + 1 ELSE issued
           /\ addressables' = IF ~Takes(r) THEN addressables ELSE
                [addressables EXCEPT ![n] = [id |-> issued + 1,
                                             host |-> Location(ds)]]
           /\ CASE r = "created" -> Go("addEvent") /\ UNCHANGED <<next, dropped>>
                [] r = "garbled" -> Panic /\ UNCHANGED dropped
                [] OTHER -> NextEvent
                              /\ dropped' = dropped \cup {<<"event", n>>}
    /\ UNCHANGED <<schedules, events>> /\ InSeeding

AddScheduleEvent ==
    /\ At("addEvent")
    /\ LET e == Events[next] IN \E r \in Outcomes(events[e.name] # Nil) :
         /\ Count(r)
         /\ issued' = IF Takes(r) THEN issued + 1 ELSE issued
         /\ events' = IF Takes(r) THEN [events EXCEPT ![e.name] = Owner(e)]
                      ELSE events
         /\ dropped' = IF r = "lost" THEN dropped \cup {<<"event", e.name>>}
                       ELSE dropped
         /\ IF r = "garbled" THEN Panic ELSE NextEvent
    /\ UNCHANGED <<addressables, schedules>> /\ InSeeding

-----------------------------------------------------------------------------
(* The registration loop of Start, and attemptInit, which it waits for.     *)

Pay == paid' = paid + (failures' - failures)

InAttempt == UNCHANGED <<schedules, events, consul, waiting, frames, next,
                         stopped, answered, dropped, kills>>

AttemptInit ==
    /\ At("register")
    /\ IF ds # Nil THEN Go("load") /\ UNCHANGED attempts
       ELSE IF attempts < ConnectRetries
       THEN attempts' = attempts + 1 /\ Go("findService")
       ELSE Go("exited") /\ UNCHANGED attempts
    /\ addr' = Nil
    /\ UNCHANGED <<issued, service, addressables, ds, failures, paid>>
    /\ InAttempt

\* A failed lookup counts as "not found".
DeviceServiceForName ==
    /\ At("findService")
    /\ \/ service # Nil /\ Works /\ ds' = service /\ Go("register")
       \/ service = Nil /\ Works /\ Go("findAddressable") /\ UNCHANGED ds
       \/ Fails /\ Go("findAddressable") /\ UNCHANGED ds
    /\ Pay /\ UNCHANGED <<issued, service, addressables, attempts, addr>>
    /\ InAttempt

\* Mutant of AddressableForName: it is not looked up before it is created.
AddressableForNameSkipped ==
    /\ At("findAddressable") /\ Works /\ Go("addAddressable")
    /\ Pay /\ UNCHANGED <<issued, service, addressables, attempts, ds, addr>>
    /\ InAttempt

AddressableForName ==
    /\ At("findAddressable")
    /\ LET a == addressables[ServiceName] IN
         \/ a # Nil /\ Works /\ addr' = a /\ Go("addService")
         \/ a = Nil /\ Works /\ Go("addAddressable") /\ UNCHANGED addr
         \/ Fails /\ Go("addAddressable") /\ UNCHANGED addr
    /\ Pay /\ UNCHANGED <<issued, service, addressables, attempts, ds>>
    /\ InAttempt

AddAddressable ==
    /\ At("addAddressable")
    /\ LET a == [id |-> issued + 1, host |-> Host] IN
         \E r \in Outcomes(addressables[ServiceName] # Nil) :
           /\ Count(r)
           /\ issued' = IF Takes(r) THEN issued + 1 ELSE issued
           /\ addressables' = IF Takes(r)
                THEN [addressables EXCEPT ![ServiceName] = a]
                ELSE addressables
           /\ IF r = "created" THEN addr' = a /\ Go("addService")
              ELSE UNCHANGED addr /\ Go("register")
    /\ Pay /\ UNCHANGED <<service, attempts, ds>>
    /\ InAttempt

\* Mutant of AddService: a failed call counts as a registration.
AddServiceUnchecked ==
    /\ At("addService")
    /\ LET s == [id |-> issued + 1, host |-> addr.host] IN
         \E r \in Outcomes(service # Nil) :
           /\ Count(r)
           /\ issued' = IF Takes(r) THEN issued + 1 ELSE issued
           /\ service' = IF Takes(r) THEN s ELSE service
           /\ ds' = s
    /\ Go("register")
    /\ Pay /\ UNCHANGED <<addressables, attempts, addr>>
    /\ InAttempt

AddService ==
    /\ At("addService")
    /\ LET s == [id |-> issued + 1, host |-> addr.host] IN
         \E r \in Outcomes(service # Nil) :
           /\ Count(r)
           /\ issued' = IF Takes(r) THEN issued + 1 ELSE issued
           /\ service' = IF Takes(r) THEN s ELSE service
           /\ ds' = IF r = "created" THEN s ELSE ds
    /\ Go("register")
    /\ Pay /\ UNCHANGED <<addressables, attempts, addr>>
    /\ InAttempt

-----------------------------------------------------------------------------
(* The caches are loaded, the driver initialised, and requests served.      *)

Quiet == UNCHANGED <<metadata, consul, waiting, frames, next, attempts, ds,
                     addr, history, kills>>

Load == At("load") /\ Go("initialize") /\ UNCHANGED <<stopped, failures>> /\ Quiet

Initialize ==
    /\ At("initialize")
    /\ (Works /\ Go("listen")) \/ (Fails /\ Go("exited"))
    /\ UNCHANGED stopped /\ Quiet

ListenAndServe ==
    /\ At("listen")
    /\ (Works /\ Go("serving")) \/ (Fails /\ Go("exited"))
    /\ UNCHANGED stopped /\ Quiet

\* Stop tells the driver and sets a flag; Start goes on.
Stop ==
    /\ At("serving") /\ ~stopped
    /\ stopped' = TRUE
    /\ UNCHANGED <<stage, failures>> /\ Quiet

Kill ==
    /\ stage \notin {"down", "exited"} /\ kills < MaxKills
    /\ kills' = kills + 1
    /\ Go("down") /\ ds' = Nil /\ addr' = Nil
    /\ UNCHANGED <<metadata, consul, waiting, frames, next, attempts, stopped,
                   history, failures>>

\* ListenAndServe does not return.
Serving == At("serving") /\ UNCHANGED svars

Seed == SchedulesDone \/ ScheduleForName \/ AddSchedule \/ EventsDone
        \/ ScheduleEventForName \/ EventAddressableForName
        \/ AddEventAddressable \/ AddScheduleEvent

Register == AttemptInit \/ DeviceServiceForName \/ AddressableForName
            \/ AddAddressable \/ AddService

StartStep ==
    \/ CheckConsulUp \/ ServiceRegister \/ CheckRegister \/ Validate
    \/ (\E d \in Dependency : CheckServiceAvailable(d))
    \/ DependenciesAvailable \/ ScheduleClient \/ EventClient
    \/ Seed \/ Register \/ Load \/ Initialize \/ ListenAndServe

Next == Launch \/ StartStep \/ Stop \/ Kill \/ Serving

Spec == Init /\ [][Next]_svars

\* The main goroutine and those it waits for are scheduled, a call is answered
\* or fails, and whoever runs the service starts it.
FairSpec == Spec /\ WF_svars(Launch) /\ WF_svars(StartStep)

-----------------------------------------------------------------------------
Seeding == {"schedule", "addSchedule", "event", "eventAddressable",
            "addEventAddressable", "addEvent"}
Registering == {"register", "findService", "findAddressable",
                "addAddressable", "addService"}
Running == {"load", "initialize", "listen", "serving"}
Waiting == {"checkConsulUp", "serviceRegister", "checkRegister", "validate",
            "dependencies", "scheduleClient", "eventClient"}
Stages == {"down", "exited"} \cup Waiting \cup Seeding \cup Registering
          \cup Running

\* Type invariant of the start.
StartTypeOK ==
    /\ issued \in Nat /\ service \in Record \cup {Nil}
    /\ addressables \in [EventName \cup {ServiceName} -> Record \cup {Nil}]
    /\ schedules \subseteq ScheduleName
    /\ events \in [EventName -> {Owner(Events[k]) : k \in DOMAIN Events}
                                \cup {Nil}]
    /\ consul \subseteq {"service", "check"} /\ stage \in Stages
    /\ waiting \subseteq Dependency /\ frames \in Nat /\ next \in Nat \ {0}
    /\ attempts \in Nat /\ ds \in Record \cup {Nil}
    /\ addr \in Record \cup {Nil} /\ stopped \in BOOLEAN
    /\ answered \subseteq Dependency \cup {"Schedules", "ScheduleEvents"}
    /\ dropped \subseteq ({"schedule"} \X ScheduleName)
                        \cup ({"event"} \X EventName)
    /\ paid \in Nat /\ failures \in 0 .. MaxFailures /\ kills \in Nat

\* What the proofs need beyond it: the locals a stage relies on, and that the
\* service's knowledge of itself is the record Core Metadata has.
Placed ==
    /\ stage = "addService" => addr # Nil
    /\ stage = "addSchedule" => next <= Len(Schedules)
    /\ stage \in {"eventAddressable", "addEventAddressable", "addEvent"} =>
         next <= Len(Events)
    /\ ds \in {Nil, service}

StartInv == StartTypeOK /\ Placed

\* Through retries, lost answers and rekills, one record is filed under the
\* service's name, and the service never takes another id for its own.
Abstract == INSTANCE Registration WITH
    filed <- IF service = Nil THEN Nil ELSE service.id,
    known <- IF ds = Nil THEN Nil ELSE ds.id
Registers == Abstract!Spec

\* Whatever Start creates in Core Metadata, it creates after Core Data and Core
\* Metadata both answered a check of this start, and after the clients of
\* schedules and schedule events last answered, however deep the recursion of
\* checkClientsInitialSuccessful went.
AskedFirst == stage \in Seeding \cup Registering \cup Running =>
    answered = Dependency \cup {"Schedules", "ScheduleEvents"}

\* Start serves only as the device service Core Metadata knows, and gives up
\* only after ConnectRetries attempts each of which lost a call: what an
\* earlier attempt left behind never makes a later one fail.
AttemptsPaid ==
    /\ stage \in Running => ds # Nil /\ ds = service
    /\ stage \in Registering \cup {"exited"} /\ "Schedules" \in answered =>
         attempts <= paid + (IF stage \in Registering \ {"register"}
                             THEN 1 ELSE IF ds # Nil THEN 1 ELSE 0)

\* Past the seeding every schedule and schedule event of the configuration is
\* in Core Metadata unless one of its own calls failed in this start, and no
\* event refers to an addressable that is not there.
Seeded ==
    /\ stage \in Registering \cup Running =>
         /\ \A n \in ScheduleName \ schedules : <<"schedule", n>> \in dropped
         /\ \A n \in EventName : events[n] = Nil => <<"event", n>> \in dropped
    /\ \A n \in EventName : events[n] # Nil => addressables[n] # Nil

\* When calls stop failing and the process is no longer killed, the service
\* serves in the end: nothing a failed or killed start left in Core Metadata or
\* Consul keeps a later one from getting there.
EventuallyServes == <>(stage = "serving")

\* A schedule event is triggered by a call to the device service: its
\* addressable says where the service listens.
EventsReachService == \A n \in EventName :
    addressables[n] # Nil => addressables[n].host = Host

=============================================================================
