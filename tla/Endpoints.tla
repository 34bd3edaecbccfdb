------------------------------ MODULE Endpoints ------------------------------
(***************************************************************************)
(* How the service's REST clients learn where Core Metadata and Core Data  *)
(* are (clientinitializer.go, registry/consulendpoint.go).  With Consul    *)
(* each client has a monitor goroutine, which asks Consul's agent again    *)
(* and again and hands every answer over through a channel; meanwhile the  *)
(* start goes on and makes calls through the clients.                      *)
(***************************************************************************)
EXTENDS Naturals, Sequences

CONSTANTS
    Client,        \* the clients initializeClients makes
    Dependency,    \* Core Metadata and Core Data
    ServiceKey,    \* client -> the dependency it calls
    Address,       \* where a dependency can run
    NoAddress,     \* the zero ServiceEndpoint: no such service
    NoUrl,         \* a client nothing was handed over to yet
    Configured,    \* dependency -> its address in the configuration
    UseRegistry,   \* svc.useRegistry
    Local,         \* the dependencies registered with the agent that is asked
    Probed,        \* the clients checkClientsInitialSuccessful asks, in order
    Seeding,       \* the clients that create the configured schedules
    MaxMoves,      \* bound: starts and stops of dependencies
    MaxFailures    \* bound: failed lookups

ASSUME EndpointAssumption ==
    /\ ServiceKey \in [Client -> Dependency]
    /\ Configured \in [Dependency -> Address]
    /\ NoAddress \notin Address /\ NoUrl \notin Address \cup {NoAddress}
    /\ UseRegistry \in BOOLEAN /\ Local \subseteq Dependency
    /\ Probed \in Seq(Client) /\ Seeding \subseteq Client
    /\ MaxMoves \in Nat /\ MaxFailures \in Nat

VARIABLES
    listening,  \* dependency -> where it runs
    catalog,    \* dependency -> the address Consul has for it
    past,       \* history: dependency -> the addresses it was registered with
    stage,      \* of the start: "waiting", "probing", "seeding", "up"
    waiting,    \* the dependencies still to be found available
    probe,      \* the index of the probed client asked next
    url,        \* client -> the URL its calls go to
    pending,    \* client -> the URLs on their way from its monitor
    moves, failures

places == <<listening, catalog, past>>
start == <<stage, waiting, probe>>
endpointVars == <<places, start, url, pending, moves, failures>>

EndpointInit ==
    /\ listening = [d \in Dependency |-> NoAddress]
    /\ catalog = [d \in Dependency |-> NoAddress]
    /\ past = [d \in Dependency |-> {}]
    /\ stage = "waiting" /\ waiting = Dependency /\ probe = 1
    /\ url = [c \in Client |-> NoUrl] /\ pending = [c \in Client |-> <<>>]
    /\ moves = 0 /\ failures = 0

-----------------------------------------------------------------------------
(* The dependencies and Consul. *)

\* A dependency starts, or starts again elsewhere, and registers.
Move == \E d \in Dependency, a \in Address :
    /\ moves < MaxMoves /\ listening[d] # a
    /\ listening' = [listening EXCEPT ![d] = a]
    /\ catalog' = [catalog EXCEPT ![d] = a]
    /\ past' = [past EXCEPT ![d] = @ \cup {a}]
    /\ moves' = moves + 1
    /\ UNCHANGED <<start, url, pending, failures>>

\* A dependency ends, with or without deregistering.
Leave == \E d \in Dependency : \E entry \in {catalog[d], NoAddress} :
    /\ moves < MaxMoves /\ listening[d] # NoAddress
    /\ listening' = [listening EXCEPT ![d] = NoAddress]
    /\ catalog' = [catalog EXCEPT ![d] = entry]
    /\ moves' = moves + 1
    /\ UNCHANGED <<past, start, url, pending, failures>>

\* Consul's health check of the dependency passes.
Passing(d) == catalog[d] # NoAddress /\ listening[d] = catalog[d]

\* What the agent the service is connected to lists.
Listed(d) == IF d \in Local THEN catalog[d] ELSE NoAddress

-----------------------------------------------------------------------------
(* A client's endpoint. *)

\* Mutant of GetServiceEndpoint: the key is not compared, some entry is taken.
GetServiceEndpointAny(c) == {Listed(d) : d \in Dependency}

\* The entry of the key, the zero endpoint without an entry or after a failed
\* query; only the latter comes with an error.
GetServiceEndpoint(c) ==
    {Listed(ServiceKey[c])}
      \cup (IF failures < MaxFailures THEN {NoAddress} ELSE {})

\* Mutant of Monitor: a failed lookup ends the loop.
MonitorEnding(c) ==
    /\ stage # "waiting" /\ UseRegistry /\ Len(pending[c]) < 2
    /\ failures = 0
    /\ \E found \in GetServiceEndpoint(c) :
         /\ pending' = [pending EXCEPT ![c] = Append(@, found)]
         /\ failures' = IF found = Listed(ServiceKey[c]) THEN failures
                        ELSE failures + 1
    /\ UNCHANGED <<places, start, url, moves>>

\* The loop of Monitor looks the service up, reports an error on the console
\* only, and sends a URL in any case.  The channel holds one URL; a monitor
\* that has a second one in hand is blocked until the first is received.
Monitor(c) ==
    /\ stage # "waiting" /\ UseRegistry /\ Len(pending[c]) < 2
    /\ \E found \in GetServiceEndpoint(c) :
         /\ pending' = [pending EXCEPT ![c] = Append(@, found)]
         /\ failures' = IF found = Listed(ServiceKey[c]) THEN failures
                        ELSE failures + 1
    /\ UNCHANGED <<places, start, url, moves>>

\* The client's goroutine takes the next URL.
Receive(c) ==
    /\ pending[c] # <<>>
    /\ url' = [url EXCEPT ![c] = Head(pending[c])]
    /\ pending' = [pending EXCEPT ![c] = Tail(@)]
    /\ UNCHANGED <<places, start, moves, failures>>

\* A call through the client reaches its service.
Answers(c) == url[c] \in Address /\ url[c] = listening[ServiceKey[c]]

-----------------------------------------------------------------------------
(* The start. *)

\* Mutant of CheckServiceAvailable: with Consul, too, the configured address is
\* asked.
CheckServiceConfigured(d) ==
    /\ stage = "waiting" /\ d \in waiting
    /\ listening[d] = Configured[d]
    /\ waiting' = waiting \ {d}
    /\ UNCHANGED <<places, stage, probe, url, pending, moves, failures>>

\* One of the goroutines of checkDependencyServices finds its service; what it
\* does before that is to ask and to sleep.
CheckServiceAvailable(d) ==
    /\ stage = "waiting" /\ d \in waiting
    /\ IF UseRegistry THEN Passing(d) ELSE listening[d] = Configured[d]
    /\ waiting' = waiting \ {d}
    /\ UNCHANGED <<places, stage, probe, url, pending, moves, failures>>

\* With Consul a client has no URL until its monitor's first one arrives.
InitializeClients ==
    /\ stage = "waiting" /\ waiting = {}
    /\ stage' = "probing"
    /\ url' = [c \in Client |-> IF UseRegistry THEN NoUrl
                                ELSE Configured[ServiceKey[c]]]
    /\ UNCHANGED <<places, waiting, probe, pending, moves, failures>>

\* Mutant of CheckClientsInitialSuccessful: a failed call is not repeated.
CheckClientsInitialOnce ==
    /\ stage = "probing"
    /\ IF probe > Len(Probed) THEN stage' = "seeding" /\ UNCHANGED probe
       ELSE probe' = probe + 1 /\ UNCHANGED stage
    /\ UNCHANGED <<places, waiting, url, pending, moves, failures>>

\* checkClientsInitialSuccessful asks through the schedule and the schedule
\* event client, from the first again after a failure.  What its outer
\* invocations still ask when an inner one returns is in ServiceStart.
CheckClientsInitialSuccessful ==
    /\ stage = "probing"
    /\ IF probe > Len(Probed) THEN stage' = "seeding" /\ UNCHANGED probe
       ELSE /\ probe' = IF Answers(Probed[probe]) THEN probe + 1 ELSE 1
            /\ UNCHANGED stage
    /\ UNCHANGED <<places, waiting, url, pending, moves, failures>>

\* getScheduleCache creates what is configured, once, whatever fails.
Seed ==
    /\ stage = "seeding" /\ stage' = "up"
    /\ UNCHANGED <<places, waiting, probe, url, pending, moves, failures>>

-----------------------------------------------------------------------------
StartStep ==
    \/ \E d \in Dependency : CheckServiceAvailable(d)
    \/ InitializeClients \/ CheckClientsInitialSuccessful \/ Seed

EndpointNext ==
    \/ Move \/ Leave \/ StartStep
    \/ \E c \in Client : Monitor(c) \/ Receive(c)

EndpointSpec == EndpointInit /\ [][EndpointNext]_endpointVars

\* The goroutines are scheduled and a monitor's sleep ends; each goroutine of
\* checkDependencyServices asks until it is answered.
EndpointFairness ==
    /\ \A d \in Dependency : WF_endpointVars(CheckServiceAvailable(d))
    /\ WF_endpointVars(InitializeClients)
    /\ WF_endpointVars(CheckClientsInitialSuccessful)
    /\ WF_endpointVars(Seed)
    /\ \A c \in Client : /\ WF_endpointVars(Monitor(c))
                         /\ WF_endpointVars(Receive(c))

-----------------------------------------------------------------------------
Place == Address \cup {NoAddress}

EndpointTypeOK ==
    /\ listening \in [Dependency -> Place] /\ catalog \in [Dependency -> Place]
    /\ past \in [Dependency -> SUBSET Address]
    /\ stage \in {"waiting", "probing", "seeding", "up"}
    /\ waiting \subseteq Dependency /\ probe \in 1 .. Len(Probed) + 1
    /\ url \in [Client -> Place \cup {NoUrl}]
    /\ pending \in [Client -> Seq(Place)]
    /\ \A c \in Client : Len(pending[c]) <= 2
    /\ moves \in Nat /\ failures \in Nat

\* A client never calls an address its own service was not registered with,
\* however late a URL arrives: it is never another dependency's.
UrlOfService == UseRegistry =>
    \A c \in Client : url[c] \in past[ServiceKey[c]] \cup {NoUrl, NoAddress}

\* The clients checkClientsInitialSuccessful asks have been given a URL when
\* the seeding begins, although their monitors run on their own.
ProbedReady == stage \in {"seeding", "up"} =>
    \A k \in DOMAIN Probed : url[Probed[k]] # NoUrl

\* So have all clients the seeding uses.
SeedersReady == stage = "seeding" => \A c \in Seeding : url[c] # NoUrl

\* When the dependencies come to rest, every client ends up with what Consul
\* lists for its service, whatever lookups failed and however full the
\* channels were; also with the zero endpoint if it lists nothing.
UrlConverges == UseRegistry =>
    <>[](stage # "waiting" => \A c \in Client : url[c] = Listed(ServiceKey[c]))

Available(d) ==
    IF UseRegistry THEN d \in Local /\ Passing(d)
    ELSE listening[d] = Configured[d]

\* The start gets past all its waiting once both dependencies stay up.
StartsUp == <>[](\A d \in Dependency : Available(d)) => <>(stage = "up")

=============================================================================
