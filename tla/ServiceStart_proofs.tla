------------------------- MODULE ServiceStart_proofs -------------------------
(***************************************************************************)
(* Proofs about ServiceStart.  StartInv, the types together with the places *)
(* of the locals, is inductive; from it follow the type invariant and that  *)
(* the start implements Registration.  AskedInv, SpentInv and SeedInv add   *)
(* what a start has asked, what its attempts cost, and what its loops have  *)
(* passed.                                                                  *)
(***************************************************************************)
EXTENDS ServiceStart, TLAPS

\* The loops of addSchedules and addScheduleEvents stay within the lists of the
\* configuration.
LEMMA InConfiguration ==
    ASSUME NEW k \in Nat \ {0}
    PROVE  /\ k <= Len(Schedules) => Schedules[k] \in ScheduleName
           /\ k <= Len(Events) => /\ k \in DOMAIN Events
                                  /\ Events[k].name \in EventName
<1>1. DOMAIN Schedules = 1 .. Len(Schedules) /\ Len(Schedules) \in Nat
  BY StartAssumption DEF StartAssumption
<1>2. DOMAIN Events = 1 .. Len(Events) /\ Len(Events) \in Nat
  BY StartAssumption DEF StartAssumption
<1> QED
  BY <1>1, <1>2 DEF ScheduleName, EventName

\* A record made for a new id is a record of Core Metadata, and none is Nil.
LEMMA NewRecord ==
    ASSUME issued \in Nat, NEW h \in {Host, Nil}
    PROVE  /\ [id |-> issued + 1, host |-> h] \in Record
           /\ [id |-> issued + 1, host |-> h] # Nil
BY StartAssumption DEF StartAssumption, Record, Id

\* How many calls have failed stays within its bound.
LEMMA Failing ==
    ASSUME failures \in 0 .. MaxFailures
    PROVE  /\ Works \/ Fails => failures' \in 0 .. MaxFailures
           /\ Works \/ Fails => failures' >= failures
           /\ \A taken \in BOOLEAN : \A r \in Outcomes(taken) : Count(r) =>
                failures' \in 0 .. MaxFailures /\ failures' >= failures
BY StartAssumption
   DEF StartAssumption, Works, Fails, CanFail, Outcomes, Count

\* What Start does before the seeding keeps the invariant.
LEMMA PreparingKeeps ==
    ASSUME StartInv, Launch \/ CheckConsulUp \/ ServiceRegister \/ CheckRegister
                     \/ Validate \/ DependenciesAvailable \/ ScheduleClient
                     \/ EventClient
                     \/ \E d \in Dependency : CheckServiceAvailable(d)
    PROVE  StartInv'
<1> USE StartAssumption, Failing
    DEF StartAssumption, StartInv, StartTypeOK, Placed, At, Go, Stages, Waiting,
        Seeding, Registering, Running, Dependency, metadata, progress, history
<1>1. CASE Launch
  <2>3. UNCHANGED <<issued, service, addressables, schedules, events, consul,
                    failures, kills>>
    BY <1>1 DEF Launch
  <2>4. stage' \in Stages
    BY <1>1 DEF Launch
  <2>5. /\ waiting' = Dependency /\ frames' = 0 /\ next' = 1 /\ attempts' = 0
        /\ ds' = Nil /\ addr' = Nil /\ stopped' = FALSE
        /\ answered' = {} /\ dropped' = {} /\ paid' = 0
    BY <1>1 DEF Launch
  <2>6. /\ issued' \in Nat /\ service' \in Record \cup {Nil}
        /\ addressables' \in [EventName \cup {ServiceName} -> Record \cup {Nil}]
        /\ schedules' \subseteq ScheduleName
        /\ events' \in [EventName -> {Owner(Events[k]) : k \in DOMAIN Events}
                                    \cup {Nil}]
        /\ consul' \subseteq {"service", "check"}
        /\ failures' \in 0 .. MaxFailures /\ kills' \in Nat
    BY <2>3
  <2>7. /\ waiting' \subseteq Dependency /\ frames' \in Nat /\ next' \in Nat \ {0}
        /\ attempts' \in Nat /\ ds' \in Record \cup {Nil}
        /\ addr' \in Record \cup {Nil} /\ paid' \in Nat
        /\ answered' \subseteq Dependency \cup {"Schedules", "ScheduleEvents"}
    BY <2>5
  <2>9. stopped' \in BOOLEAN
    BY <2>5, Zenon
  <2>8. dropped' \subseteq ({"schedule"} \X ScheduleName)
                          \cup ({"event"} \X EventName)
    BY <2>5, Zenon
  <2>1. StartTypeOK'
    BY <2>4, <2>6, <2>7, <2>8, <2>9
  <2>2. Placed'
    BY <1>1 DEF Launch
  <2> QED
    BY <2>1, <2>2
<1>2. CASE CheckConsulUp
  BY <1>2 DEF CheckConsulUp
<1>3. CASE ServiceRegister
  BY <1>3 DEF ServiceRegister, ConsulRegister
<1>4. CASE CheckRegister
  BY <1>4 DEF CheckRegister, ConsulRegister
<1>5. CASE Validate
  BY <1>5 DEF Validate
<1>6. CASE DependenciesAvailable
  BY <1>6 DEF DependenciesAvailable
<1>7. CASE ScheduleClient
  <2>1. frames' \in Nat /\ stage' \in {"scheduleClient", "eventClient"}
    BY <1>7 DEF ScheduleClient
  <2>2. failures' \in 0 .. MaxFailures
    BY <1>7 DEF ScheduleClient
  <2>3. answered' \subseteq Dependency \cup {"Schedules", "ScheduleEvents"}
    BY <1>7 DEF ScheduleClient
  <2> QED
    BY <1>7, <2>1, <2>2, <2>3 DEF ScheduleClient
<1>8. CASE EventClient
  <2>1. /\ frames' \in Nat
        /\ stage' \in {"schedule", "eventClient", "scheduleClient"}
    BY <1>8 DEF EventClient
  <2>2. failures' \in 0 .. MaxFailures
    BY <1>8 DEF EventClient
  <2>3. answered' \subseteq Dependency \cup {"Schedules", "ScheduleEvents"}
    BY <1>8 DEF EventClient
  <2> QED
    BY <1>8, <2>1, <2>2, <2>3 DEF EventClient
<1>9. ASSUME NEW d \in Dependency, CheckServiceAvailable(d) PROVE StartInv'
  BY <1>9 DEF CheckServiceAvailable
<1> QED
  BY <1>1, <1>2, <1>3, <1>4, <1>5, <1>6, <1>7, <1>8, <1>9

\* The seeding of the schedules and schedule events keeps the invariant.
LEMMA SeedKeeps == ASSUME StartInv, Seed PROVE StartInv'
<1> USE StartAssumption, Failing, InConfiguration, NewRecord
    DEF StartAssumption, StartInv, StartTypeOK, Placed, At, Go, Stages, Waiting,
        Seeding, Registering, Running, Dependency, metadata, InSeeding,
        NextSchedule, NextEvent, Panic
<1>1. CASE SchedulesDone
  BY SMTT(30), <1>1 DEF SchedulesDone
<1>2. CASE ScheduleForName
  <2>1. /\ next' \in Nat \ {0} /\ stage' \in {"schedule", "addSchedule"}
        /\ stage' = "addSchedule" => next' <= Len(Schedules)
    BY <1>2 DEF ScheduleForName
  <2>2. failures' \in 0 .. MaxFailures
    BY <1>2 DEF ScheduleForName
  <2> QED
    BY <1>2, <2>1, <2>2 DEF ScheduleForName
<1>3. CASE AddSchedule
  <2> DEFINE n == Schedules[next]
  <2>1. n \in ScheduleName
    BY <1>3 DEF AddSchedule
  <2>2. PICK r \in Outcomes(n \in schedules) :
          /\ Count(r)
          /\ schedules' = IF Takes(r) THEN schedules \cup {n} ELSE schedules
          /\ issued' = IF Takes(r) THEN issued + 1 ELSE issued
          /\ dropped' = IF r = "lost" THEN dropped \cup {<<"schedule", n>>}
                        ELSE dropped
          /\ IF r = "garbled" THEN Panic ELSE NextSchedule
    BY <1>3 DEF AddSchedule
  <2>3. failures' \in 0 .. MaxFailures
    <3>1. (n \in schedules) \in BOOLEAN
      OBVIOUS
    <3> QED
      BY <2>2, <3>1, Failing, Zenon
  <2>4. next' \in Nat \ {0} /\ stage' \in {"exited", "schedule"}
    BY <2>2
  <2>5. schedules' \subseteq ScheduleName /\ issued' \in Nat
    BY SMTT(30), <2>1, <2>2
  <2>6. dropped' \subseteq ({"schedule"} \X ScheduleName)
                          \cup ({"event"} \X EventName)
    BY SMTT(30), <2>1, <2>2
  <2> QED
    BY <1>3, <2>3, <2>4, <2>5, <2>6 DEF AddSchedule
<1>4. CASE EventsDone
  BY <1>4 DEF EventsDone
<1>5. CASE ScheduleEventForName
  <2>1. /\ next' \in Nat \ {0} /\ stage' \in {"event", "eventAddressable"}
        /\ stage' = "eventAddressable" => next' <= Len(Events)
    BY SMTT(30), <1>5 DEF ScheduleEventForName
  <2>2. failures' \in 0 .. MaxFailures
    BY <1>5 DEF ScheduleEventForName
  <2> QED
    BY <1>5, <2>1, <2>2 DEF ScheduleEventForName
<1>6. CASE EventAddressableForName
  <2>1. failures' \in 0 .. MaxFailures
    BY <1>6 DEF EventAddressableForName
  <2> QED
    BY <1>6, <2>1 DEF EventAddressableForName
<1>7. CASE AddEventAddressable
  <2> DEFINE n == Events[next].name
             a == [id |-> issued + 1, host |-> Location(ds)]
  <2>1. n \in EventName /\ a \in Record
    BY <1>7 DEF AddEventAddressable, Location, Record
  <2>2. PICK r \in Outcomes(addressables[n] # Nil) :
          /\ Count(r)
          /\ issued' = IF Takes(r) THEN issued + 1 ELSE issued
          /\ addressables' = IF ~Takes(r) THEN addressables
                             ELSE [addressables EXCEPT ![n] = a]
          /\ CASE r = "created" -> Go("addEvent") /\ UNCHANGED <<next, dropped>>
               [] r = "garbled" -> Panic /\ UNCHANGED dropped
               [] OTHER -> NextEvent
                             /\ dropped' = dropped \cup {<<"event", n>>}
    BY <1>7 DEF AddEventAddressable
  <2>3. failures' \in 0 .. MaxFailures
    BY <2>2
  <2>4. /\ next' \in Nat \ {0} /\ stage' \in {"exited", "event", "addEvent"}
        /\ stage' = "addEvent" => next' = next
    BY SMTT(30), <2>2
  <2>5. /\ addressables' \in [EventName \cup {ServiceName} -> Record \cup {Nil}]
        /\ issued' \in Nat
    BY SMTT(30), <2>1, <2>2
  <2>6. dropped' \subseteq ({"schedule"} \X ScheduleName)
                          \cup ({"event"} \X EventName)
    BY SMTT(30), <2>1, <2>2
  <2> QED
    BY <1>7, <2>3, <2>4, <2>5, <2>6 DEF AddEventAddressable
<1>8. CASE AddScheduleEvent
  <2> DEFINE n == Events[next].name
             o == Owner(Events[next])
  <2>1. /\ n \in EventName
        /\ o \in {Owner(Events[k]) : k \in DOMAIN Events}
    BY <1>8 DEF AddScheduleEvent
  <2>2. PICK r \in Outcomes(events[n] # Nil) :
          /\ Count(r)
          /\ issued' = IF Takes(r) THEN issued + 1 ELSE issued
          /\ events' = IF Takes(r) THEN [events EXCEPT ![n] = o]
                       ELSE events
          /\ dropped' = IF r = "lost" THEN dropped \cup {<<"event", n>>}
                        ELSE dropped
          /\ IF r = "garbled" THEN Panic ELSE NextEvent
    BY <1>8 DEF AddScheduleEvent
  <2>3. failures' \in 0 .. MaxFailures
    <3>1. (events[n] # Nil) \in BOOLEAN
      OBVIOUS
    <3> QED
      BY <2>2, <3>1, Failing, Zenon
  <2> HIDE DEF n, o
  <2>4. next' \in Nat \ {0} /\ stage' \in {"exited", "event"}
    BY <2>2
  <2>5. events' \in [EventName -> {Owner(Events[k]) : k \in DOMAIN Events}
                                  \cup {Nil}]
    <3>1. events' = events \/ events' = [events EXCEPT ![n] = o]
      BY <2>2
    <3> QED
      BY <3>1, <2>1
  <2>6. issued' \in Nat
    BY <2>2
  <2>7. dropped' \subseteq ({"schedule"} \X ScheduleName)
                          \cup ({"event"} \X EventName)
    <3>1. dropped' = dropped \/ dropped' = dropped \cup {<<"event", n>>}
      BY <2>2
    <3> QED
      BY SMTT(30), <3>1, <2>1
  <2> QED
    BY <1>8, <2>3, <2>4, <2>5, <2>6, <2>7 DEF AddScheduleEvent
<1> QED
  BY <1>1, <1>2, <1>3, <1>4, <1>5, <1>6, <1>7, <1>8 DEF Seed

\* The registration keeps the invariant.
LEMMA RegisterKeeps == ASSUME StartInv, Register PROVE StartInv'
<1> USE StartAssumption, Failing, NewRecord
    DEF StartAssumption, StartInv, StartTypeOK, Placed, At, Go, Stages, Waiting,
        Seeding, Registering, Running, Dependency, InAttempt, Pay
<1>1. CASE AttemptInit
  BY <1>1 DEF AttemptInit
<1>2. CASE DeviceServiceForName
  <2>1. failures' \in 0 .. MaxFailures /\ paid' \in Nat
    BY <1>2 DEF DeviceServiceForName
  <2>2. ds' \in {ds, service} /\ stage' \in {"register", "findAddressable"}
    BY <1>2 DEF DeviceServiceForName
  <2> QED
    BY <1>2, <2>1, <2>2 DEF DeviceServiceForName
<1>3. CASE AddressableForName
  <2>1. failures' \in 0 .. MaxFailures /\ paid' \in Nat
    BY <1>3 DEF AddressableForName
  <2>2. /\ addr' \in Record \cup {Nil}
        /\ stage' \in {"addService", "addAddressable"}
        /\ stage' = "addService" => addr' # Nil
    BY <1>3 DEF AddressableForName
  <2> QED
    BY <1>3, <2>1, <2>2 DEF AddressableForName
<1>4. CASE AddAddressable
  <2> DEFINE a == [id |-> issued + 1, host |-> Host]
             taken == addressables[ServiceName] # Nil
  <2>1. a \in Record /\ a # Nil
    BY NewRecord
  <2>2. PICK r \in Outcomes(taken) :
          /\ Count(r)
          /\ issued' = IF Takes(r) THEN issued + 1 ELSE issued
          /\ addressables' = IF Takes(r)
               THEN [addressables EXCEPT ![ServiceName] = a]
               ELSE addressables
          /\ IF r = "created" THEN addr' = a /\ Go("addService")
             ELSE UNCHANGED addr /\ Go("register")
    BY <1>4 DEF AddAddressable
  <2>3. failures' \in 0 .. MaxFailures /\ failures' >= failures
    <3>1. taken \in BOOLEAN
      OBVIOUS
    <3> QED
      BY <2>2, <3>1, Failing, Zenon
  <2>4. paid' \in Nat
    BY SMTT(30), <1>4, <2>3 DEF AddAddressable
  <2> HIDE DEF a
  <2>5. /\ issued' \in Nat
        /\ addressables' \in [EventName \cup {ServiceName} -> Record \cup {Nil}]
    BY <2>1, <2>2
  <2>6. /\ addr' \in Record \cup {Nil} /\ stage' \in {"addService", "register"}
        /\ stage' = "addService" => addr' # Nil
    BY <2>1, <2>2
  <2> QED
    BY <1>4, <2>3, <2>4, <2>5, <2>6 DEF AddAddressable
<1>5. CASE AddService
  <2> DEFINE s == [id |-> issued + 1, host |-> addr.host]
             taken == service # Nil
  <2>1. s \in Record
    <3>1. addr \in Record
      BY <1>5 DEF AddService
    <3> QED
      BY <3>1, NewRecord DEF Record
  <2>2. PICK r \in Outcomes(taken) :
          /\ Count(r)
          /\ issued' = IF Takes(r) THEN issued + 1 ELSE issued
          /\ service' = IF Takes(r) THEN s ELSE service
          /\ ds' = IF r = "created" THEN s ELSE ds
    BY <1>5 DEF AddService
  <2>3. failures' \in 0 .. MaxFailures /\ failures' >= failures
    <3>1. taken \in BOOLEAN
      OBVIOUS
    <3> QED
      BY <2>2, <3>1, Failing, Zenon
  <2>4. paid' \in Nat
    BY <1>5, <2>3 DEF AddService
  <2> HIDE DEF s
  <2>5. issued' \in Nat
    BY <2>2
  <2>6. /\ service' \in Record \cup {Nil} /\ ds' \in Record \cup {Nil}
        /\ ds' \in {Nil, service'}
    BY <2>1, <2>2 DEF Takes, Outcomes
  <2> QED
    BY <1>5, <2>3, <2>4, <2>5, <2>6 DEF AddService
<1> QED
  BY <1>1, <1>2, <1>3, <1>4, <1>5 DEF Register

\* What Start does once it is registered, Stop and a kill keep the invariant.
LEMMA RunningKeeps ==
    ASSUME StartInv, Load \/ Initialize \/ ListenAndServe \/ Stop \/ Kill
                     \/ Serving
    PROVE  StartInv'
<1> USE StartAssumption, Failing
    DEF StartAssumption, StartInv, StartTypeOK, Placed, At, Go, Stages, Waiting,
        Seeding, Registering, Running, Dependency, metadata, progress, history,
        Quiet
<1>1. CASE Load
  BY <1>1 DEF Load
<1>2. CASE Initialize
  BY <1>2 DEF Initialize
<1>3. CASE ListenAndServe
  BY <1>3 DEF ListenAndServe
<1>4. CASE Stop
  <2>1. stopped' \in BOOLEAN
    BY <1>4, Zenon DEF Stop
  <2> QED
    BY <1>4, <2>1 DEF Stop
<1>5. CASE Kill
  BY <1>5 DEF Kill
<1>6. CASE Serving
  BY <1>6 DEF Serving, svars
<1> QED
  BY <1>1, <1>2, <1>3, <1>4, <1>5, <1>6

\* StartInv is inductive.
LEMMA StartInductive == StartInv /\ [Next]_svars => StartInv'
<1> SUFFICES ASSUME StartInv, [Next]_svars PROVE StartInv'
  OBVIOUS
<1>1. CASE Next
  BY <1>1, PreparingKeeps, SeedKeeps, RegisterKeeps, RunningKeeps
     DEF Next, StartStep
<1>2. CASE UNCHANGED svars
  BY <1>2 DEF svars, metadata, progress, history, StartInv, StartTypeOK, Placed
<1> QED
  BY <1>1, <1>2

\* The first start finds Core Metadata and Consul empty.
LEMMA StartInitially == Init => StartInv
<1> SUFFICES ASSUME Init PROVE StartInv
  OBVIOUS
<1>1. dropped \subseteq ({"schedule"} \X ScheduleName)
                        \cup ({"event"} \X EventName)
  BY Zenon DEF Init
<1>2. stopped \in BOOLEAN
  BY Zenon DEF Init
<1> QED
  BY <1>1, <1>2, StartAssumption
     DEF Init, StartAssumption, StartInv, StartTypeOK, Placed, Stages

\* StartInv holds in every reachable state.
THEOREM StartCorrect == Spec => []StartInv
BY StartInitially, StartInductive, PTL DEF Spec

\* Whatever calls fail and however often the process is killed, the state of the
\* start, of Core Metadata and of Consul keeps its type.
THEOREM StartTypeCorrect == Spec => []StartTypeOK
<1>1. StartInv => StartTypeOK
  BY DEF StartInv
<1> QED
  BY <1>1, StartCorrect, PTL

\* Steps that touch neither the record nor svc.ds leave the registration alone.
LEMMA Unrelated ==
    ASSUME StartStep \/ Stop \/ Serving, ~DeviceServiceForName, ~AddService
    PROVE  UNCHANGED <<service, ds>>
BY DEF StartStep, CheckConsulUp, ServiceRegister, CheckRegister, ConsulRegister,
       Validate, CheckServiceAvailable, DependenciesAvailable, ScheduleClient,
       EventClient, Seed, SchedulesDone, ScheduleForName, AddSchedule,
       EventsDone, ScheduleEventForName, EventAddressableForName,
       AddEventAddressable, AddScheduleEvent, Register, AttemptInit,
       AddressableForName, AddAddressable, Load, Initialize, ListenAndServe,
       Stop, Serving, InSeeding, Quiet, metadata, progress, svars

\* A step of the start is a step of Registration, or none.
LEMMA StepRegisters ==
    ASSUME StartInv, StartInv', [Next]_svars
    PROVE  [Abstract!Next]_<<IF service = Nil THEN Nil ELSE service.id,
                             IF ds = Nil THEN Nil ELSE ds.id>>
<1> DEFINE filed == IF service = Nil THEN Nil ELSE service.id
           known == IF ds = Nil THEN Nil ELSE ds.id
<1>1. CASE UNCHANGED <<service, ds>>
  BY <1>1
<1>2. CASE Launch \/ Kill
  <2>1. known' = Nil /\ filed' = filed
    BY <1>2 DEF Launch, Kill, metadata
  <2> QED
    BY <2>1 DEF Abstract!Next, Abstract!Forget
<1>3. CASE DeviceServiceForName
  <2>1. service' = service /\ (ds' = ds \/ (service # Nil /\ ds' = service))
    BY <1>3 DEF DeviceServiceForName
  <2>2. ASSUME service # Nil, ds' = service PROVE Abstract!Learn
    <3>1. service.id # Nil
      BY <2>2, StartAssumption DEF StartAssumption, StartInv, StartTypeOK, Record
    <3> QED
      BY <2>1, <2>2, <3>1 DEF Abstract!Learn
  <2> QED
    BY <2>1, <2>2 DEF Abstract!Next
<1>4. CASE AddService
  <2> DEFINE s == [id |-> issued + 1, host |-> addr.host]
  <2>1. s.id \in Id /\ s.id # Nil
    BY StartAssumption DEF StartAssumption, StartInv, StartTypeOK, Id
  <2>2. s # Nil
    BY <1>4, NewRecord, StartAssumption
       DEF AddService, At, StartInv, StartTypeOK, Placed, Record
  <2>3. \/ service' = service /\ ds' = ds
        \/ service = Nil /\ service' = s /\ ds' \in {ds, s}
    <3>1. PICK r \in Outcomes(service # Nil) :
            /\ service' = IF Takes(r) THEN s ELSE service
            /\ ds' = IF r = "created" THEN s ELSE ds
      BY <1>4 DEF AddService
    <3>2. Takes(r) => service = Nil
      BY DEF Outcomes, Takes
    <3> HIDE DEF s
    <3> QED
      BY <3>1, <3>2 DEF Takes
  <2>4. ASSUME service = Nil, service' = s, ds' \in {ds, s}
        PROVE  Abstract!File
    <3>1. ds = Nil
      BY <2>4 DEF StartInv, Placed
    <3>2. filed = Nil /\ filed' = s.id /\ known' \in {known, s.id}
      BY <2>2, <2>4, <3>1
    <3> QED
      BY <2>1, <3>2 DEF Abstract!File
  <2> QED
    BY <2>3, <2>4 DEF Abstract!Next
<1>5. CASE UNCHANGED svars
  BY <1>5, <1>1 DEF svars, metadata, progress
<1> QED
  BY <1>1, <1>2, <1>3, <1>4, <1>5, Unrelated DEF Next

\* Whatever calls fail and however often the process is killed, one record is
\* filed under the service's name, once, and the service takes no other id for
\* its own.
THEOREM StartRegisters == Spec => Registers
<1>1. Init => Abstract!Init
  BY DEF Init, Abstract!Init
<1> QED
  BY <1>1, StartCorrect, StepRegisters, PTL DEF Spec, Registers, Abstract!Spec

-----------------------------------------------------------------------------
\* What the clients answered when a stage is reached; "exited" and "down" are no
\* stages a start goes on from.
Asked ==
    /\ stage \in {"checkConsulUp", "serviceRegister", "checkRegister",
                  "validate"} => answered = {} /\ waiting = Dependency
    /\ stage = "dependencies" => answered = Dependency \ waiting
    /\ stage = "scheduleClient" => Dependency \subseteq answered
    /\ stage = "eventClient" => Dependency \cup {"Schedules"} \subseteq answered

AskedInv == StartInv /\ Asked /\ AskedFirst


\* A start asks before it creates, step by step: only the dependencies and the
\* two clients change what answered, and each moves on when it was answered.
LEMMA AskedKeeps == AskedInv /\ [Next]_svars => AskedInv'
<1> SUFFICES ASSUME AskedInv, [Next]_svars PROVE Asked' /\ AskedFirst'
  BY StartInductive DEF AskedInv
<1> USE DEF AskedInv, Asked, AskedFirst, At, Go, Seeding, Registering, Running,
            Dependency
<1>0. answered \subseteq Dependency \cup {"Schedules", "ScheduleEvents"}
      /\ waiting \subseteq Dependency
  BY DEF StartInv, StartTypeOK
<1>1. CASE Launch
  BY <1>1 DEF Launch
<1>2. CASE CheckConsulUp \/ ServiceRegister \/ CheckRegister \/ Validate
  BY <1>2 DEF CheckConsulUp, ServiceRegister, CheckRegister, ConsulRegister,
              Validate, progress, history
<1>3. ASSUME NEW d \in Dependency, CheckServiceAvailable(d)
      PROVE  Asked' /\ AskedFirst'
  BY <1>0, <1>3 DEF CheckServiceAvailable
<1>4. CASE DependenciesAvailable
  BY <1>4 DEF DependenciesAvailable, progress, history
<1>5. CASE ScheduleClient
  BY <1>5 DEF ScheduleClient
<1>6. CASE EventClient
  BY <1>0, <1>6 DEF EventClient
<1>7. CASE Seed
  <2>1. UNCHANGED answered /\ stage \in Seeding
        /\ stage' \in Seeding \cup {"register", "exited"}
    BY <1>7 DEF Seed, SchedulesDone, ScheduleForName, AddSchedule, EventsDone,
                ScheduleEventForName, EventAddressableForName,
                AddEventAddressable, AddScheduleEvent, InSeeding, NextSchedule,
                NextEvent, Panic
  <2> QED
    BY <2>1
<1>8. CASE Register
  <2>1. UNCHANGED answered /\ stage \in Registering
        /\ stage' \in Registering \cup {"load", "exited"}
    BY <1>8 DEF Register, AttemptInit, DeviceServiceForName, AddressableForName,
                AddAddressable, AddService, InAttempt
  <2> QED
    BY <2>1
<1>9. CASE Load \/ Initialize \/ ListenAndServe \/ Stop
  BY <1>9 DEF Load, Initialize, ListenAndServe, Stop, Quiet, history
<1>10. CASE Kill
  BY <1>10 DEF Kill
<1>11. CASE UNCHANGED svars
  BY <1>11 DEF svars, progress, history
<1> QED
  BY <1>1, <1>2, <1>3, <1>4, <1>5, <1>6, <1>7, <1>8, <1>9, <1>10, <1>11
     DEF Next, StartStep, Serving

\* Of every start, whatever its calls do: nothing is created in Core Metadata
\* before both dependencies and both schedule clients answered.
THEOREM StartAsksFirst == Spec => []AskedFirst
<1>1. Init => AskedInv
  BY StartInitially DEF Init, AskedInv, Asked, AskedFirst, Seeding, Registering,
                        Running
<1>2. AskedInv => AskedFirst
  BY DEF AskedInv
<1> QED
  BY <1>1, <1>2, AskedKeeps, PTL DEF Spec

-----------------------------------------------------------------------------
\* svc.initAttempts counts from the registration on, and each of its attempts
\* is the current one or was paid for.  A name is found taken, or a record
\* already there, only after a lookup of this attempt failed.
Spent ==
    /\ stage \in (Waiting \ {"checkConsulUp"}) \cup Seeding => attempts = 0
    /\ stage \in {"findAddressable", "addAddressable", "addService"} =>
         attempts <= paid \/ service = Nil
    /\ stage = "addAddressable" =>
         attempts <= paid \/ addressables[ServiceName] = Nil
    /\ stage \in Registering \ {"register"} => attempts <= paid + 1 /\ ds = Nil
    /\ stage \in Running => attempts <= paid + 1 /\ ds # Nil
    /\ stage \in {"register", "exited"} /\ "Schedules" \in answered =>
         attempts <= paid \/ (attempts <= paid + 1 /\ ds # Nil)

SpentInv == AskedInv /\ Spent

\* A create call of a registration is answered, refused as the name is taken,
\* or paid for.
LEMMA CallPaid ==
    ASSUME StartInv, NEW taken \in BOOLEAN, NEW r \in Outcomes(taken), Count(r),
           Pay
    PROVE  /\ r \in {"created", "refused"} => paid' = paid
           /\ r \notin {"created", "refused"} => paid' = paid + 1
           /\ r = "refused" => taken
           /\ Takes(r) => ~taken
BY DEF StartInv, StartTypeOK, Outcomes, Count, Pay, Takes

\* A lookup is answered, or failed and paid for.
LEMMA LookupPaid ==
    ASSUME StartInv, Pay
    PROVE  /\ Works => paid' = paid
           /\ Fails => paid' = paid + 1
BY DEF StartInv, StartTypeOK, Pay, Works, Fails

\* The registration: a call that fails is paid for, and what was looked up in
\* vain is not there to be refused.
LEMMA RegisterKeepsSpent == ASSUME SpentInv, Register PROVE Spent'
<1> USE DEF SpentInv, Spent, At, Go, Seeding, Registering, Running, Waiting,
            InAttempt
<1>0. /\ attempts \in Nat /\ paid \in Nat /\ ds \in {Nil, service}
      /\ addressables \in [EventName \cup {ServiceName} -> Record \cup {Nil}]
      /\ StartInv
  BY DEF AskedInv, StartInv, StartTypeOK, Placed
<1>1. stage \in Registering => "Schedules" \in answered
  BY DEF AskedInv, AskedFirst
<1>2. CASE AttemptInit
  <2>1. /\ paid' = paid /\ UNCHANGED <<answered, service, addressables, ds>>
        /\ stage = "register"
        /\ attempts <= paid \/ (attempts <= paid + 1 /\ ds # Nil)
    BY <1>1, <1>2 DEF AttemptInit
  <2>2. CASE ds # Nil
    BY <1>0, <1>2, <2>1, <2>2 DEF AttemptInit
  <2>3. CASE ds = Nil
    <3>1. \/ attempts' = attempts + 1 /\ stage' = "findService"
          \/ attempts' = attempts /\ stage' = "exited"
      BY <1>2, <2>3 DEF AttemptInit
    <3> QED
      BY <1>0, <2>1, <2>3, <3>1
  <2> QED
    BY <2>2, <2>3
<1>3. CASE DeviceServiceForName
  <2>1. attempts <= paid + 1 /\ ds = Nil /\ "Schedules" \in answered
    BY <1>1, <1>3 DEF DeviceServiceForName
  <2>2. \/ service # Nil /\ paid' = paid /\ ds' = service /\ stage' = "register"
        \/ service = Nil /\ paid' = paid /\ stage' = "findAddressable" /\ ds' = ds
        \/ paid' = paid + 1 /\ stage' = "findAddressable" /\ ds' = ds
    BY <1>0, <1>3, LookupPaid DEF DeviceServiceForName
  <2> QED
    BY <1>0, <1>3, <2>1, <2>2 DEF DeviceServiceForName
<1>4. CASE AddressableForName
  <2>1. /\ attempts <= paid + 1 /\ ds = Nil /\ "Schedules" \in answered
        /\ attempts <= paid \/ service = Nil
    BY <1>1, <1>4 DEF AddressableForName
  <2>2. \/ paid' = paid /\ stage' = "addService"
        \/ /\ addressables[ServiceName] = Nil /\ paid' = paid
           /\ stage' = "addAddressable"
        \/ paid' = paid + 1 /\ stage' = "addAddressable"
    BY <1>0, <1>4, LookupPaid DEF AddressableForName
  <2> QED
    BY <1>0, <1>4, <2>1, <2>2 DEF AddressableForName
<1>5. CASE AddAddressable
  <2> DEFINE taken == addressables[ServiceName] # Nil
  <2>1. /\ attempts <= paid + 1 /\ ds = Nil /\ "Schedules" \in answered
        /\ attempts <= paid \/ service = Nil
        /\ attempts <= paid \/ ~taken
    BY <1>1, <1>5 DEF AddAddressable
  <2>2. PICK r \in Outcomes(taken) :
          /\ Count(r)
          /\ IF r = "created" THEN stage' = "addService" ELSE stage' = "register"
    BY <1>5 DEF AddAddressable
  <2>3. taken \in BOOLEAN /\ Pay
    BY <1>5 DEF AddAddressable
  <2>4. \/ stage' = "addService" /\ paid' = paid
        \/ stage' = "register" /\ (paid' = paid + 1 \/ (paid' = paid /\ taken))
    BY <1>0, <2>2, <2>3, CallPaid
  <2>5. UNCHANGED <<attempts, ds, service, answered>>
    BY <1>5 DEF AddAddressable
  <2> HIDE DEF taken
  <2> QED
    BY <1>0, <2>1, <2>4, <2>5
<1>6. CASE AddService
  <2> DEFINE taken == service # Nil
             s == [id |-> issued + 1, host |-> addr.host]
  <2>1. /\ attempts <= paid + 1 /\ ds = Nil /\ "Schedules" \in answered
        /\ attempts <= paid \/ ~taken
    BY <1>1, <1>6 DEF AddService
  <2>2. PICK r \in Outcomes(taken) :
          Count(r) /\ ds' = IF r = "created" THEN s ELSE ds
    BY <1>6 DEF AddService
  <2>3. taken \in BOOLEAN /\ Pay
    BY <1>6 DEF AddService
  <2>4. s # Nil
    <3>1. issued \in Nat /\ addr.host \in {Host, Nil}
      BY <1>0, <1>6 DEF AddService, StartInv, StartTypeOK, Placed, Record
    <3> QED
      BY <3>1, NewRecord
  <2>5. ds' # Nil \/ paid' = paid + 1 \/ (paid' = paid /\ taken)
    BY <1>0, <2>2, <2>3, <2>4, CallPaid
  <2>6. paid' \in {paid, paid + 1}
    BY <1>0, <2>2, <2>3, CallPaid
  <2>7. stage' = "register" /\ UNCHANGED <<attempts, answered>>
    BY <1>6 DEF AddService
  <2> HIDE DEF taken, s
  <2> QED
    BY <1>0, <2>1, <2>5, <2>6, <2>7
<1> QED
  BY <1>2, <1>3, <1>4, <1>5, <1>6 DEF Register

\* The other steps leave the balance of attempts and failures alone.
LEMMA SpentKeeps == SpentInv /\ [Next]_svars => SpentInv'
<1> SUFFICES ASSUME SpentInv, [Next]_svars PROVE Spent'
  BY AskedKeeps DEF SpentInv
<1>0. AskedInv /\ attempts \in Nat /\ paid \in Nat
  BY DEF SpentInv, AskedInv, StartInv, StartTypeOK
<1> USE DEF SpentInv, Spent, At, Go, Seeding, Registering, Running, Waiting,
            metadata, progress, history
<1>1. CASE Launch
  BY <1>1 DEF Launch
<1>2. CASE CheckConsulUp
  BY <1>0, <1>2 DEF CheckConsulUp, AskedInv, Asked
<1>3. CASE ServiceRegister \/ CheckRegister \/ Validate
  BY <1>0, <1>3 DEF ServiceRegister, CheckRegister, ConsulRegister, Validate,
                    AskedInv, Asked
<1>4. ASSUME NEW d \in Dependency, CheckServiceAvailable(d) PROVE Spent'
  BY <1>4 DEF CheckServiceAvailable
<1>5. CASE DependenciesAvailable \/ ScheduleClient \/ EventClient
  <2>1. UNCHANGED attempts /\ stage \in Waiting \ {"checkConsulUp"}
        /\ stage' \in {"scheduleClient", "eventClient", "schedule"}
    BY <1>5 DEF DependenciesAvailable, ScheduleClient, EventClient
  <2> QED
    BY <2>1
<1>6. CASE Seed
  <2>1. UNCHANGED <<attempts, paid, ds, answered>> /\ stage \in Seeding
        /\ stage' \in Seeding \cup {"register", "exited"}
    BY <1>6 DEF Seed, SchedulesDone, ScheduleForName, AddSchedule, EventsDone,
                ScheduleEventForName, EventAddressableForName,
                AddEventAddressable, AddScheduleEvent, InSeeding, NextSchedule,
                NextEvent, Panic
  <2>2. attempts' = 0 /\ paid' \in Nat
    BY <1>0, <2>1
  <2>3. /\ stage' \notin Running \cup (Registering \ {"register"})
        /\ stage' # "addAddressable"
    BY <2>1
  <2> QED
    BY <2>2, <2>3
<1>7. CASE Register
  BY <1>7, RegisterKeepsSpent
<1>8. CASE Load \/ Initialize \/ ListenAndServe \/ Stop
  BY <1>8 DEF Load, Initialize, ListenAndServe, Stop, Quiet
<1>9. CASE Kill
  BY <1>9 DEF Kill
<1>10. CASE UNCHANGED svars
  BY <1>10 DEF svars
<1> QED
  BY <1>1, <1>2, <1>3, <1>4, <1>5, <1>6, <1>7, <1>8, <1>9, <1>10
     DEF Next, StartStep, Serving

\* Of every number of retries: the service runs only as the one Core Metadata
\* knows, and every attempt at the registration that was lost had lost a call
\* of its own; what an earlier attempt or start left never makes one fail.
THEOREM AttemptsArePaid == Spec => []AttemptsPaid
<1>1. Init => SpentInv
  BY StartInitially DEF Init, SpentInv, Spent, AskedInv, Asked, AskedFirst,
                        Seeding, Registering, Running, Waiting
<1>2. SpentInv => AttemptsPaid
  <2> SUFFICES ASSUME SpentInv PROVE AttemptsPaid
    OBVIOUS
  <2>1. attempts \in Nat /\ paid \in Nat /\ ds \in {Nil, service}
    BY DEF SpentInv, AskedInv, StartInv, StartTypeOK, Placed
  <2>2. CASE stage \in Registering \ {"register"}
    BY <2>1, <2>2 DEF SpentInv, Spent, AttemptsPaid, Registering, Running
  <2>3. CASE stage \notin Registering \ {"register"} /\ ds # Nil
    BY <2>1, <2>3 DEF SpentInv, Spent, AttemptsPaid, Registering, Running
  <2>4. CASE stage \notin Registering \ {"register"} /\ ds = Nil
    BY <2>1, <2>4 DEF SpentInv, Spent, AttemptsPaid, Registering, Running
  <2> QED
    BY <2>2, <2>3, <2>4
<1> QED
  BY <1>1, <1>2, SpentKeeps, PTL DEF Spec

-----------------------------------------------------------------------------
\* What the loops have passed is there, or was dropped; an event is created
\* only in front of its addressable.
HasSchedule(n) == n \in schedules \/ <<"schedule", n>> \in dropped
HasEvent(n) == events[n] # Nil \/ <<"event", n>> \in dropped
SchedulesTo(m) == \A k \in DOMAIN Schedules : k < m => HasSchedule(Schedules[k])
EventsTo(m) == \A k \in DOMAIN Events : k < m => HasEvent(Events[k].name)
AllSchedules == \A n \in ScheduleName : HasSchedule(n)
AllEvents == \A n \in EventName : HasEvent(n)

Looking == {"schedule", "addSchedule"}

Filled ==
    /\ stage \in Waiting => next = 1
    /\ stage \in Looking => SchedulesTo(next)
    /\ stage \in Seeding \ Looking => AllSchedules /\ EventsTo(next)
    /\ stage \in Registering \cup Running => AllSchedules /\ AllEvents

Behind ==
    /\ \A n \in EventName : events[n] # Nil => addressables[n] # Nil
    /\ stage = "addEvent" => addressables[Events[next].name] # Nil

SeedInv == StartInv /\ Filled /\ Behind

\* As long as Core Metadata and the list of dropped calls only grow, what the
\* loops have passed stays accounted for.
LEMMA StaysSeeded ==
    ASSUME schedules \subseteq schedules', dropped \subseteq dropped',
           \A n \in EventName : events[n] # Nil => events'[n] # Nil
    PROVE  /\ \A m \in Nat : SchedulesTo(m) => SchedulesTo(m)'
           /\ \A m \in Nat : EventsTo(m) => EventsTo(m)'
           /\ AllSchedules => AllSchedules'
           /\ AllEvents => AllEvents'
<1>1. \A n : HasSchedule(n) => HasSchedule(n)'
  BY DEF HasSchedule
<1>2. \A n \in EventName : HasEvent(n) => HasEvent(n)'
  BY DEF HasEvent
<1>3. \A k \in DOMAIN Events : Events[k].name \in EventName
  BY DEF EventName
<1> QED
  BY <1>1, <1>2, <1>3 DEF SchedulesTo, EventsTo, AllSchedules, AllEvents

\* A loop is past its list when every entry has been accounted for.
LEMMA ListDone ==
    ASSUME NEW m \in Nat
    PROVE  /\ SchedulesTo(m) /\ m > Len(Schedules) => AllSchedules
           /\ EventsTo(m) /\ m > Len(Events) => AllEvents
           /\ EventsTo(1)
           /\ SchedulesTo(1)
<1>1. DOMAIN Schedules = 1 .. Len(Schedules) /\ Len(Schedules) \in Nat
      /\ DOMAIN Events = 1 .. Len(Events) /\ Len(Events) \in Nat
  BY StartAssumption DEF StartAssumption
<1> QED
  BY <1>1 DEF SchedulesTo, EventsTo, AllSchedules, AllEvents, ScheduleName,
              EventName

\* The loops move on by one.
LEMMA OneMore ==
    ASSUME NEW m \in Nat \ {0}
    PROVE  /\ SchedulesTo(m) /\ HasSchedule(Schedules[m]) => SchedulesTo(m + 1)
           /\ EventsTo(m) /\ HasEvent(Events[m].name) => EventsTo(m + 1)
           /\ (SchedulesTo(m) /\ HasSchedule(Schedules[m]))' => SchedulesTo(m + 1)'
           /\ (EventsTo(m) /\ HasEvent(Events[m].name))' => EventsTo(m + 1)'
<1>1. DOMAIN Schedules = 1 .. Len(Schedules) /\ Len(Schedules) \in Nat
      /\ DOMAIN Events = 1 .. Len(Events) /\ Len(Events) \in Nat
  BY StartAssumption DEF StartAssumption
<1>2. \A k \in Nat : k < m + 1 => k < m \/ k = m
  OBVIOUS
<1> QED
  BY <1>1, <1>2 DEF SchedulesTo, EventsTo

\* A create call of the seeding that is not answered with an error has had its
\* effect, by this call or before.
LEMMA CreateSeeds ==
    ASSUME NEW taken \in BOOLEAN
    PROVE  \A r \in Outcomes(taken) : taken \/ Takes(r) \/ r = "lost"
BY DEF Outcomes, Takes

\* The loop over the schedules.
LEMMA SchedulesKeep ==
    ASSUME SeedInv, SchedulesDone \/ ScheduleForName \/ AddSchedule
    PROVE  Filled' /\ Behind'
<1> USE DEF SeedInv, At, Go, Seeding, Looking, Registering, Running, Waiting
<1>0. next \in Nat \ {0} /\ UNCHANGED <<events, addressables>>
      /\ stage \in Looking /\ SchedulesTo(next)
      /\ stage' \in Looking \cup {"event", "exited"}
  BY DEF StartInv, StartTypeOK, Filled, SchedulesDone, ScheduleForName,
         AddSchedule, NextSchedule, Panic, metadata
<1>1. Behind'
  BY <1>0 DEF Behind
<1>2. CASE SchedulesDone
  <2>1. next > Len(Schedules) /\ next' = 1 /\ stage' = "event"
        /\ UNCHANGED <<schedules, dropped>>
    BY <1>2 DEF SchedulesDone, metadata
  <2>2. AllSchedules' /\ EventsTo(1)'
    BY <1>0, <2>1, ListDone, StaysSeeded
  <2> QED
    BY <1>1, <2>1, <2>2 DEF Filled
<1>3. CASE ScheduleForName
  <2>1. UNCHANGED <<schedules, dropped>>
    BY <1>3 DEF ScheduleForName, metadata
  <2>2. \/ stage' = "addSchedule" /\ next' = next
        \/ /\ stage' = "schedule" /\ next' = next + 1
           /\ Schedules[next] \in schedules
    BY <1>3 DEF ScheduleForName, NextSchedule
  <2>3. SchedulesTo(next') => SchedulesTo(next)'
    BY <2>1 DEF SchedulesTo, HasSchedule
  <2>4. SchedulesTo(next')
    BY <1>0, <2>2, OneMore DEF HasSchedule
  <2> QED
    BY <1>1, <2>2, <2>3, <2>4 DEF Filled
<1>4. CASE AddSchedule
  <2>1. PICK n : n = Schedules[next]
    OBVIOUS
  <2>2. PICK r \in Outcomes(n \in schedules) :
          /\ schedules' = IF Takes(r) THEN schedules \cup {n} ELSE schedules
          /\ dropped' = IF r = "lost" THEN dropped \cup {<<"schedule", n>>}
                        ELSE dropped
          /\ IF r = "garbled" THEN Panic ELSE NextSchedule
    BY <1>4, <2>1 DEF AddSchedule
  <2>3. n \in schedules \/ Takes(r) \/ r = "lost"
    <3>1. (n \in schedules) \in BOOLEAN
      OBVIOUS
    <3> QED
      BY <3>1, CreateSeeds, Zenon
  <2>4. schedules \subseteq schedules' /\ dropped \subseteq dropped'
    BY <2>2
  <2>5. n \in schedules' \/ <<"schedule", n>> \in dropped'
    BY <2>2, <2>3
  <2>6. stage' = "exited" \/ (stage' = "schedule" /\ next' = next + 1)
    BY <2>2 DEF Panic, NextSchedule
  <2>7. PICK m \in Nat \ {0} : m = next
    BY <1>0
  <2>8. SchedulesTo(m + 1)'
    <3>1. SchedulesTo(m)'
      BY <1>0, <2>4, <2>7, StaysSeeded
    <3>2. HasSchedule(Schedules[m])'
      BY <2>1, <2>5, <2>7 DEF HasSchedule
    <3> QED
      BY <3>1, <3>2, OneMore
  <2>9. stage' = "schedule" => SchedulesTo(next)'
    BY <2>6, <2>7, <2>8 DEF SchedulesTo
  <2> QED
    BY <1>1, <2>6, <2>9 DEF Filled
<1> QED
  BY <1>2, <1>3, <1>4

\* The loop over the events, up to the addressable of one.
LEMMA EventLookupsKeep ==
    ASSUME SeedInv, EventsDone \/ ScheduleEventForName \/ EventAddressableForName
    PROVE  Filled' /\ Behind'
<1> USE DEF SeedInv, At, Go, Seeding, Looking, Registering, Running, Waiting
<1>0. /\ next \in Nat \ {0}
      /\ UNCHANGED <<events, addressables, schedules, dropped>>
      /\ stage \in Seeding \ Looking /\ AllSchedules /\ EventsTo(next)
      /\ stage' \in (Seeding \ Looking) \cup {"register"}
  BY DEF StartInv, StartTypeOK, Filled, EventsDone, ScheduleEventForName,
         EventAddressableForName, NextEvent, metadata
<1>1. AllSchedules' /\ \A m \in Nat : EventsTo(m) => EventsTo(m)'
  BY <1>0, StaysSeeded
<1>2. CASE EventsDone
  <2>1. next > Len(Events) /\ stage' = "register"
    BY <1>2 DEF EventsDone
  <2>2. AllEvents'
    BY <1>0, <2>1, ListDone, StaysSeeded
  <2> QED
    BY <1>0, <1>1, <2>1, <2>2 DEF Filled, Behind
<1>3. CASE ScheduleEventForName
  <2>1. \/ stage' = "eventAddressable" /\ next' = next
        \/ /\ stage' = "event" /\ next' = next + 1
           /\ events[Events[next].name] # Nil
    BY <1>3 DEF ScheduleEventForName, NextEvent
  <2>2. EventsTo(next')
    BY <1>0, <2>1, OneMore DEF HasEvent
  <2>3. EventsTo(next)'
    BY <1>0, <2>2 DEF EventsTo, HasEvent
  <2> QED
    BY <1>0, <1>1, <2>1, <2>3 DEF Filled, Behind
<1>4. CASE EventAddressableForName
  <2>1. /\ next' = next
        /\ \/ stage' = "addEventAddressable"
           \/ stage' = "addEvent" /\ addressables[Events[next].name] # Nil
    BY <1>4 DEF EventAddressableForName
  <2>2. EventsTo(next)'
    BY <1>0, <2>1 DEF EventsTo, HasEvent
  <2> QED
    BY <1>0, <1>1, <2>1, <2>2 DEF Filled, Behind
<1> QED
  BY <1>2, <1>3, <1>4

\* Whoever creates an event or its addressable stands at an event of the list.
LEMMA AtEvent ==
    ASSUME StartInv, stage \in {"addEventAddressable", "addEvent"}
    PROVE  /\ next \in Nat \ {0} /\ next \in DOMAIN Events
           /\ Events[next].name \in EventName
BY InConfiguration DEF StartInv, StartTypeOK, Placed

\* An addressable is created, or the event is dropped.
LEMMA EventAddressableKeeps ==
    ASSUME SeedInv, AddEventAddressable PROVE Filled' /\ Behind'
<1> USE DEF SeedInv, At, Go, Seeding, Looking, Registering, Running, Waiting
<1>0. /\ next \in Nat \ {0} /\ Events[next].name \in EventName
      /\ AllSchedules /\ EventsTo(next) /\ UNCHANGED <<events, schedules>>
      /\ addressables \in [EventName \cup {ServiceName} -> Record \cup {Nil}]
  BY AtEvent DEF AddEventAddressable, Filled, StartInv, StartTypeOK
<1>1. PICK n \in EventName : n = Events[next].name
  BY <1>0
<1>2. PICK a : a = [id |-> issued + 1, host |-> Location(ds)]
  OBVIOUS
<1>3. a # Nil
  <2>1. Location(ds) \in {Host, Nil} /\ issued \in Nat
    BY DEF StartInv, StartTypeOK, Location, Record
  <2> QED
    BY <1>2, <2>1, NewRecord
<1>4. PICK r \in Outcomes(addressables[n] # Nil) :
        /\ addressables' = IF ~Takes(r) THEN addressables
                           ELSE [addressables EXCEPT ![n] = a]
        /\ CASE r = "created" -> Go("addEvent") /\ UNCHANGED <<next, dropped>>
             [] r = "garbled" -> Panic /\ UNCHANGED dropped
             [] OTHER -> NextEvent
                           /\ dropped' = dropped \cup {<<"event", n>>}
  BY <1>1, <1>2 DEF AddEventAddressable
<1>5. /\ \A m \in EventName : addressables[m] # Nil => addressables'[m] # Nil
      /\ r = "created" => addressables'[n] # Nil
  BY <1>0, <1>3, <1>4 DEF Takes
<1>6. \/ stage' = "exited" /\ dropped' = dropped
      \/ stage' = "addEvent" /\ UNCHANGED <<next, dropped>> /\ addressables'[n] # Nil
      \/ stage' = "event" /\ next' = next + 1 /\ dropped' = dropped \cup {<<"event", n>>}
  BY <1>4, <1>5 DEF Panic, NextEvent
<1>7. Behind'
  BY <1>0, <1>1, <1>5, <1>6 DEF Behind
<1>8. (AllSchedules' /\ EventsTo(next)') \/ stage' = "exited"
  <2>1. PICK m \in Nat \ {0} : m = next
    BY <1>0
  <2>2. AllSchedules' /\ EventsTo(m)'
    BY <1>0, <1>6, <2>1, StaysSeeded
  <2>3. CASE stage' = "event"
    <3>1. HasEvent(Events[m].name)'
      BY <1>1, <1>6, <2>1, <2>3 DEF HasEvent
    <3>2. EventsTo(m + 1)'
      BY <2>2, <3>1, OneMore
    <3> QED
      BY <1>6, <2>1, <2>2, <2>3, <3>2 DEF EventsTo
  <2>4. CASE stage' = "addEvent"
    BY <1>6, <2>1, <2>2, <2>4 DEF EventsTo
  <2> QED
    BY <1>6, <2>3, <2>4
<1> QED
  BY <1>6, <1>7, <1>8 DEF Filled

\* An event is created in front of its addressable, or dropped.
LEMMA EventKeeps == ASSUME SeedInv, AddScheduleEvent PROVE Filled' /\ Behind'
<1> USE DEF SeedInv, At, Go, Seeding, Looking, Registering, Running, Waiting
<1>0. /\ next \in Nat \ {0} /\ Events[next].name \in EventName
      /\ AllSchedules /\ EventsTo(next) /\ UNCHANGED <<addressables, schedules>>
      /\ addressables[Events[next].name] # Nil
      /\ events \in [EventName -> {Owner(Events[k]) : k \in DOMAIN Events}
                                  \cup {Nil}]
  BY AtEvent DEF AddScheduleEvent, Filled, Behind, StartInv, StartTypeOK
<1>1. PICK n \in EventName : n = Events[next].name
  BY <1>0
<1>2. PICK o : o = Owner(Events[next])
  OBVIOUS
<1>3. o # Nil
  BY <1>2, StartAssumption DEF StartAssumption, Owner
<1>4. PICK r \in Outcomes(events[n] # Nil) :
        /\ events' = IF Takes(r) THEN [events EXCEPT ![n] = o] ELSE events
        /\ dropped' = IF r = "lost" THEN dropped \cup {<<"event", n>>} ELSE dropped
        /\ IF r = "garbled" THEN Panic ELSE NextEvent
  BY <1>1, <1>2 DEF AddScheduleEvent
<1>5. events[n] # Nil \/ Takes(r) \/ r = "lost"
  <2>1. (events[n] # Nil) \in BOOLEAN
    OBVIOUS
  <2> QED
    BY <2>1, CreateSeeds, Zenon
<1>6. /\ \A m \in EventName : events[m] # Nil => events'[m] # Nil
      /\ \A m \in EventName \ {n} : events'[m] = events[m]
  BY <1>0, <1>3, <1>4
<1>7. dropped \subseteq dropped'
  BY <1>4
<1>8. stage' = "exited" \/ (stage' = "event" /\ next' = next + 1)
  BY <1>4 DEF Panic, NextEvent
<1>9. Behind'
  BY <1>0, <1>1, <1>6, <1>8 DEF Behind
<1>10. AllSchedules' /\ (stage' = "event" => EventsTo(next)')
  <2>1. PICK m \in Nat \ {0} : m = next
    BY <1>0
  <2>2. AllSchedules' /\ EventsTo(m)'
    BY <1>0, <1>6, <1>7, <2>1, StaysSeeded
  <2>3. HasEvent(Events[m].name)'
    <3>1. events'[n] # Nil \/ <<"event", n>> \in dropped'
      BY <1>0, <1>3, <1>4, <1>5, <1>6
    <3> QED
      BY <1>1, <2>1, <3>1 DEF HasEvent
  <2>4. EventsTo(m + 1)'
    BY <2>2, <2>3, OneMore
  <2> QED
    BY <1>8, <2>1, <2>2, <2>4 DEF EventsTo
<1> QED
  BY <1>8, <1>9, <1>10 DEF Filled

\* Nothing else takes a schedule or an event away, and only a new start, which
\* begins the loops again, forgets what was dropped.
LEMMA SeedInvKeeps == SeedInv /\ [Next]_svars => SeedInv'
<1> SUFFICES ASSUME SeedInv, [Next]_svars PROVE Filled' /\ Behind'
  BY StartInductive DEF SeedInv
<1> USE DEF At, Go, Seeding, Looking, Registering, Running, Waiting, metadata,
            progress, history
<1>0. /\ next \in Nat \ {0} /\ Filled /\ Behind /\ StartInv /\ stage \in Stages
      /\ addressables \in [EventName \cup {ServiceName} -> Record \cup {Nil}]
  BY DEF SeedInv, StartInv, StartTypeOK
<1>1. ASSUME UNCHANGED <<schedules, events, dropped>>,
             \A n \in EventName : addressables'[n] = addressables[n],
             \/ stage \in Waiting /\ stage' \in Waiting \cup {"schedule"}
                /\ next' = next
             \/ stage \in Registering \cup Running
                /\ stage' \in Registering \cup Running
             \/ stage' \in {"down", "exited"}
             \/ UNCHANGED <<stage, next, addressables>>
      PROVE  Filled' /\ Behind'
  <2>1. /\ \A m \in Nat : SchedulesTo(m) => SchedulesTo(m)'
        /\ \A m \in Nat : EventsTo(m) => EventsTo(m)'
        /\ AllSchedules => AllSchedules'
        /\ AllEvents => AllEvents'
    BY <1>1, StaysSeeded
  <2>2. CASE stage \in Waiting /\ stage' \in Waiting \cup {"schedule"}
             /\ next' = next
    <3>1. next = 1 /\ SchedulesTo(1)'
      BY <1>0, <2>1, <2>2, ListDone DEF Filled
    <3>2. SchedulesTo(next)'
      BY <2>2, <3>1 DEF SchedulesTo
    <3> QED
      BY <1>0, <1>1, <2>2, <3>1, <3>2 DEF Filled, Behind
  <2>3. CASE stage \in Registering \cup Running
             /\ stage' \in Registering \cup Running
    <3>1. AllSchedules' /\ AllEvents'
      BY <1>0, <2>1, <2>3 DEF Filled
    <3> QED
      BY <1>0, <1>1, <2>3, <3>1 DEF Filled, Behind
  <2>4. CASE stage' \in {"down", "exited"}
    BY <1>0, <1>1, <2>4 DEF Filled, Behind
  <2>5. CASE UNCHANGED <<stage, next, addressables>>
    BY <1>0, <1>1, <2>5
       DEF Filled, Behind, SchedulesTo, EventsTo, AllSchedules, AllEvents,
           HasSchedule, HasEvent
  <2> QED
    BY <1>1, <2>2, <2>3, <2>4, <2>5
<1>2. CASE Launch
  BY <1>0, <1>2 DEF Launch, Filled, Behind
<1>3. CASE CheckConsulUp \/ ServiceRegister \/ CheckRegister \/ Validate
           \/ DependenciesAvailable \/ ScheduleClient \/ EventClient
           \/ \E d \in Dependency : CheckServiceAvailable(d)
  <2>1. /\ UNCHANGED <<schedules, events, addressables, dropped, next>>
        /\ stage \in Waiting /\ stage' \in Waiting \cup {"schedule", "exited"}
    BY <1>3 DEF CheckConsulUp, ServiceRegister, CheckRegister, ConsulRegister,
                Validate, CheckServiceAvailable, DependenciesAvailable,
                ScheduleClient, EventClient
  <2> QED
    BY <1>1, <2>1
<1>4. CASE Seed
  BY <1>4, SchedulesKeep, EventLookupsKeep, EventAddressableKeeps, EventKeeps
     DEF Seed
<1>5. CASE Register
  <2>1. /\ UNCHANGED <<schedules, events, dropped>> /\ stage \in Registering
        /\ stage' \in Registering \cup {"load", "exited"}
    BY <1>5 DEF Register, AttemptInit, DeviceServiceForName, AddressableForName,
                AddAddressable, AddService, InAttempt
  <2>2. \E a : addressables' \in {addressables,
                                  [addressables EXCEPT ![ServiceName] = a]}
    <3>1. ASSUME AddAddressable
          PROVE  addressables' \in {addressables, [addressables EXCEPT
                   ![ServiceName] = [id |-> issued + 1, host |-> Host]]}
      BY <3>1 DEF AddAddressable
    <3>2. ASSUME ~AddAddressable PROVE UNCHANGED addressables
      BY <1>5, <3>2 DEF Register, AttemptInit, DeviceServiceForName,
                        AddressableForName, AddService
    <3> QED
      BY <3>1, <3>2
  <2>3. \A n \in EventName : addressables'[n] = addressables[n]
    BY <1>0, <2>2, StartAssumption DEF StartAssumption
  <2> QED
    BY <1>1, <2>1, <2>3
<1>6. CASE Load \/ Initialize \/ ListenAndServe \/ Stop
  <2>1. /\ UNCHANGED <<schedules, events, addressables, dropped>>
        /\ stage \in Running /\ stage' \in Running \cup {"exited"}
    BY <1>6 DEF Load, Initialize, ListenAndServe, Stop, Quiet
  <2> QED
    BY <1>1, <2>1
<1>7. CASE Kill
  BY <1>1, <1>7 DEF Kill
<1>8. CASE UNCHANGED svars
  BY <1>1, <1>8 DEF svars
<1> QED
  BY <1>2, <1>3, <1>4, <1>5, <1>6, <1>7, <1>8 DEF Next, StartStep, Serving

\* Of every configuration: past the seeding a schedule or an event is missing
\* only if a call of its own failed in this start, and no event refers to an
\* addressable that is not there.
THEOREM SeedingComplete == Spec => []Seeded
<1>1. Init => SeedInv
  BY StartInitially DEF Init, SeedInv, Filled, Behind, Seeding, Looking,
                        Registering, Running, Waiting
<1>2. SeedInv => Seeded
  BY DEF SeedInv, Filled, Behind, Seeded, AllSchedules, AllEvents, HasSchedule,
         HasEvent
<1> QED
  BY <1>1, <1>2, SeedInvKeeps, PTL DEF Spec

====
