--------------------------- MODULE Registry_proofs ---------------------------
(***************************************************************************)
(* Theorems about the parts that talk to Consul.  Endpoints: a client      *)
(* calls only addresses of its own service, and the clients the start      *)
(* probes have a URL when the seeding begins.  ConfigStore: for any number *)
(* of instances and fields, the fields passed hold values of the store, an *)
(* instance differs from the store only after an edit or two writers, and  *)
(* a check ends early only for a reason.                                   *)
(***************************************************************************)
EXTENDS Endpoints, ConfigStore, TLAPS, SequenceTheorems

-----------------------------------------------------------------------------
(* The endpoints of other services.                                         *)

\* The addresses that may be on their way to a client.
Lookups(c) == past[ServiceKey[c]] \cup {NoAddress}

\* What Consul has for a dependency was registered for it, and so was what its
\* monitors found, however old.
Sourced ==
    /\ \A d \in Dependency : catalog[d] \in past[d] \cup {NoAddress}
    /\ \A c \in Client : \A k \in DOMAIN pending[c] : pending[c][k] \in Lookups(c)

\* A client that was asked with success has a URL, and keeps one.
Asked ==
    /\ stage = "waiting" => probe = 1
    /\ stage = "probing" => \A k \in 1 .. probe - 1 : url[Probed[k]] # NoUrl

EndpointInv == EndpointTypeOK /\ Sourced /\ UrlOfService /\ Asked /\ ProbedReady

-----------------------------------------------------------------------------
(* Facts about the lookup and the queues. *)

\* A lookup finds an address of the client's service or the zero endpoint.
LEMMA LookupSourced ==
    ASSUME EndpointAssumption, EndpointTypeOK, Sourced, NEW c \in Client,
           NEW found \in GetServiceEndpoint(c)
    PROVE  found \in Lookups(c) /\ found \in Place
<1>1. ServiceKey[c] \in Dependency
  BY DEF EndpointAssumption
<1>2. catalog[ServiceKey[c]] \in past[ServiceKey[c]] \cup {NoAddress}
  BY <1>1 DEF Sourced
<1>3. catalog[ServiceKey[c]] \in Place
  BY <1>1 DEF EndpointTypeOK
<1> QED
  BY <1>1, <1>2, <1>3 DEF GetServiceEndpoint, Listed, Lookups, Place

\* Putting a URL at the end of a queue of which all have a property.
LEMMA QueueAppend ==
    ASSUME NEW S, NEW q \in Seq(S), NEW x \in S, NEW P, Len(q) < 2,
           \A k \in DOMAIN q : q[k] \in P, x \in P
    PROVE  /\ Append(q, x) \in Seq(S) /\ Len(Append(q, x)) <= 2
           /\ \A k \in DOMAIN Append(q, x) : Append(q, x)[k] \in P
<1>1. Len(q) \in Nat /\ DOMAIN q = 1 .. Len(q)
  OBVIOUS
<1>2. Len(Append(q, x)) = Len(q) + 1 /\ DOMAIN Append(q, x) = 1 .. Len(q) + 1
  OBVIOUS
<1>3. \A k \in 1 .. Len(q) + 1 :
        Append(q, x)[k] = IF k <= Len(q) THEN q[k] ELSE x
  OBVIOUS
<1>4. Append(q, x) \in Seq(S)
  OBVIOUS
<1> QED
  BY <1>1, <1>2, <1>3, <1>4

\* Taking the first one.
LEMMA QueueTail ==
    ASSUME NEW S, NEW q \in Seq(S), NEW P, q # <<>>, Len(q) <= 2,
           \A k \in DOMAIN q : q[k] \in P
    PROVE  /\ Tail(q) \in Seq(S) /\ Len(Tail(q)) <= 2
           /\ Head(q) \in S /\ Head(q) \in P
           /\ \A k \in DOMAIN Tail(q) : Tail(q)[k] \in P
<1>1. Len(q) \in Nat /\ Len(q) # 0 /\ DOMAIN q = 1 .. Len(q)
  BY EmptySeq
<1>2. Head(q) = q[1] /\ 1 \in DOMAIN q
  BY <1>1
<1>3. /\ Tail(q) \in Seq(S) /\ Len(Tail(q)) = Len(q) - 1
      /\ \A k \in 1 .. Len(q) - 1 : Tail(q)[k] = q[k + 1]
  BY <1>1, HeadTailProperties
<1>4. DOMAIN Tail(q) = 1 .. Len(q) - 1
  BY <1>3
<1>5. Head(q) \in S
  BY <1>1, <1>2
<1> QED
  BY <1>1, <1>2, <1>3, <1>4, <1>5

-----------------------------------------------------------------------------
\* At first nothing runs, nothing is registered and no URL is on its way.
LEMMA EndpointInitInv == EndpointAssumption /\ EndpointInit => EndpointInv
<1> SUFFICES ASSUME EndpointAssumption, EndpointInit PROVE EndpointInv
  OBVIOUS
<1> USE DEF EndpointInit, EndpointAssumption
<1>0. Len(Probed) \in Nat
  BY LenProperties
<1>1. EndpointTypeOK
  <2>1. /\ listening \in [Dependency -> Place] /\ catalog \in [Dependency -> Place]
        /\ past \in [Dependency -> SUBSET Address]
    BY DEF Place
  <2>2. stage \in {"waiting", "probing", "seeding", "up"}
    OBVIOUS
  <2>3. waiting \subseteq Dependency /\ probe \in 1 .. Len(Probed) + 1
    BY <1>0
  <2>4. url \in [Client -> Place \cup {NoUrl}]
    OBVIOUS
  <2>5. pending \in [Client -> Seq(Place)]
    OBVIOUS
  <2>6. \A c \in Client : Len(pending[c]) <= 2
    <3> TAKE c \in Client
    <3>1. pending[c] = <<>>
      OBVIOUS
    <3>2. Len(pending[c]) = 0
      BY <3>1, EmptySeq
    <3> QED
      BY <3>2
  <2> QED
    BY <2>1, <2>2, <2>3, <2>4, <2>5, <2>6 DEF EndpointTypeOK
<1>2. Sourced
  BY DEF Sourced, Lookups
<1>3. UrlOfService
  BY DEF UrlOfService
<1>4. Asked /\ ProbedReady
  BY DEF Asked, ProbedReady
<1> QED
  BY <1>1, <1>2, <1>3, <1>4 DEF EndpointInv

\* The dependencies move: what was registered stays in past.
LEMMA PlacesStep ==
    EndpointAssumption /\ EndpointInv /\ (Move \/ Leave) => EndpointInv'
<1> SUFFICES ASSUME EndpointAssumption, EndpointInv, Move \/ Leave
             PROVE  EndpointInv'
  OBVIOUS
<1> USE DEF EndpointInv
<1>1. /\ stage' = stage /\ waiting' = waiting /\ probe' = probe
      /\ url' = url /\ pending' = pending /\ failures' = failures
  BY DEF Move, Leave, start, places
<1>2. moves' \in Nat
  BY DEF Move, Leave, EndpointTypeOK
<1>3. /\ listening' \in [Dependency -> Place]
      /\ past' \in [Dependency -> SUBSET Address]
  <2>1. CASE Move
    BY <2>1 DEF Move, EndpointTypeOK, Place
  <2>2. CASE Leave
    BY <2>2 DEF Leave, EndpointTypeOK, Place
  <2> QED
    BY <2>1, <2>2
<1>4. catalog' \in [Dependency -> Place]
  <2>1. CASE Move
    BY <2>1 DEF Move, EndpointTypeOK, Place
  <2>2. CASE Leave
    <3>1. PICK d \in Dependency : \E entry \in {catalog[d], NoAddress} :
            catalog' = [catalog EXCEPT ![d] = entry]
      BY <2>2 DEF Leave
    <3>2. catalog[d] \in Place /\ NoAddress \in Place
      BY DEF EndpointTypeOK, Place
    <3> QED
      BY <3>1, <3>2 DEF EndpointTypeOK
  <2> QED
    BY <2>1, <2>2
<1>5. \A d \in Dependency : past[d] \subseteq past'[d]
  <2>1. CASE Move
    BY <2>1 DEF Move, EndpointTypeOK
  <2>2. CASE Leave
    BY <2>2 DEF Leave
  <2> QED
    BY <2>1, <2>2
<1>6. \A d \in Dependency : catalog'[d] \in past'[d] \cup {NoAddress}
  <2>1. CASE Move
    BY <2>1 DEF Move, EndpointTypeOK, Sourced
  <2>2. CASE Leave
    BY <2>2 DEF Leave, EndpointTypeOK, Sourced
  <2> QED
    BY <2>1, <2>2
<1>7. \A c \in Client : Lookups(c) \subseteq Lookups(c)'
  BY <1>5 DEF Lookups, EndpointAssumption
<1>8. EndpointTypeOK'
  BY <1>1, <1>2, <1>3, <1>4 DEF EndpointTypeOK
<1>9. Sourced'
  BY <1>1, <1>6, <1>7 DEF Sourced
<1>10. UrlOfService'
  BY <1>1, <1>5 DEF UrlOfService, EndpointAssumption
<1>11. Asked' /\ ProbedReady'
  BY <1>1 DEF Asked, ProbedReady
<1> QED
  BY <1>8, <1>9, <1>10, <1>11

\* A monitor puts what it looked up behind the URL on its way.
LEMMA MonitorStep ==
    ASSUME EndpointAssumption, EndpointInv, NEW c \in Client, Monitor(c)
    PROVE  EndpointInv'
<1> USE DEF EndpointInv
<1>1. /\ listening' = listening /\ catalog' = catalog /\ past' = past
      /\ stage' = stage /\ waiting' = waiting /\ probe' = probe
      /\ url' = url /\ moves' = moves /\ Len(pending[c]) < 2
  BY DEF Monitor, places, start
<1>2. PICK found \in GetServiceEndpoint(c) :
        /\ pending' = [pending EXCEPT ![c] = Append(@, found)]
        /\ failures' = IF found = Listed(ServiceKey[c]) THEN failures
                       ELSE failures + 1
  BY DEF Monitor
<1>3. found \in Lookups(c) /\ found \in Place
  BY LookupSourced
<1>4. pending[c] \in Seq(Place) /\ \A k \in DOMAIN pending[c] : pending[c][k] \in Lookups(c)
  BY DEF EndpointTypeOK, Sourced
<1> DEFINE q == Append(pending[c], found)
<1>5. /\ q \in Seq(Place) /\ Len(q) <= 2
      /\ \A k \in DOMAIN q : q[k] \in Lookups(c)
  BY <1>1, <1>3, <1>4, QueueAppend
<1> HIDE DEF q
<1>6. /\ pending' \in [Client -> Seq(Place)]
      /\ \A e \in Client : pending'[e] = IF e = c THEN q ELSE pending[e]
  BY <1>2, <1>5 DEF EndpointTypeOK, q
<1>7. failures' \in Nat
  BY <1>2 DEF EndpointTypeOK
<1>8. \A e \in Client : Lookups(e)' = Lookups(e)
  BY <1>1 DEF Lookups
<1>9. EndpointTypeOK'
  BY <1>1, <1>5, <1>6, <1>7 DEF EndpointTypeOK
<1>10. Sourced'
  BY <1>1, <1>5, <1>6, <1>8 DEF Sourced
<1>11. UrlOfService' /\ Asked' /\ ProbedReady'
  BY <1>1 DEF UrlOfService, Asked, ProbedReady
<1> QED
  BY <1>9, <1>10, <1>11

\* A client is given the first URL on its way, which is no longer NoUrl.
LEMMA ReceiveStep ==
    ASSUME EndpointAssumption, EndpointInv, NEW c \in Client, Receive(c)
    PROVE  EndpointInv'
<1> USE DEF EndpointInv
<1>1. /\ listening' = listening /\ catalog' = catalog /\ past' = past
      /\ stage' = stage /\ waiting' = waiting /\ probe' = probe
      /\ moves' = moves /\ failures' = failures /\ pending[c] # <<>>
      /\ url' = [url EXCEPT ![c] = Head(pending[c])]
      /\ pending' = [pending EXCEPT ![c] = Tail(@)]
  BY DEF Receive, places, start
<1>2. /\ pending[c] \in Seq(Place) /\ Len(pending[c]) <= 2
      /\ \A k \in DOMAIN pending[c] : pending[c][k] \in Lookups(c)
  BY DEF EndpointTypeOK, Sourced
<1> DEFINE q == Tail(pending[c])
           u == Head(pending[c])
<1>3. /\ q \in Seq(Place) /\ Len(q) <= 2 /\ u \in Place /\ u \in Lookups(c)
      /\ \A k \in DOMAIN q : q[k] \in Lookups(c)
  BY <1>1, <1>2, QueueTail
<1> HIDE DEF q, u
<1>4. /\ pending' \in [Client -> Seq(Place)]
      /\ \A e \in Client : pending'[e] = IF e = c THEN q ELSE pending[e]
  BY <1>1, <1>3 DEF EndpointTypeOK, q
<1>5. /\ url' \in [Client -> Place \cup {NoUrl}]
      /\ \A e \in Client : url'[e] = IF e = c THEN u ELSE url[e]
  BY <1>1, <1>3 DEF EndpointTypeOK, u
<1>6. \A e \in Client : url[e] # NoUrl => url'[e] # NoUrl
  BY <1>3, <1>5 DEF EndpointAssumption, Place
<1>7. \A e \in Client : Lookups(e)' = Lookups(e)
  BY <1>1 DEF Lookups
<1>8. EndpointTypeOK'
  BY <1>1, <1>3, <1>4, <1>5 DEF EndpointTypeOK
<1>9. Sourced'
  BY <1>1, <1>3, <1>4, <1>7 DEF Sourced
<1>10. UrlOfService'
  BY <1>1, <1>3, <1>5 DEF UrlOfService, Lookups
<1>11. \A k \in DOMAIN Probed : Probed[k] \in Client
  BY ElementOfSeq, LenProperties DEF EndpointAssumption
<1>12. DOMAIN Probed = 1 .. Len(Probed) /\ Len(Probed) \in Nat
  BY LenProperties DEF EndpointAssumption
<1>13. Asked'
  BY <1>1, <1>6, <1>11, <1>12 DEF Asked, EndpointTypeOK
<1>14. ProbedReady'
  BY <1>1, <1>6, <1>11 DEF ProbedReady
<1> QED
  BY <1>8, <1>9, <1>10, <1>13, <1>14

\* The start goes on: a stage begins only after the one before it is complete.
LEMMA StartStepInv ==
    ASSUME EndpointAssumption, EndpointInv, StartStep PROVE EndpointInv'
<1> USE DEF EndpointInv
<1>0. DOMAIN Probed = 1 .. Len(Probed) /\ Len(Probed) \in Nat
  BY LenProperties DEF EndpointAssumption
<1>1. /\ listening' = listening /\ catalog' = catalog /\ past' = past
      /\ pending' = pending /\ moves' = moves /\ failures' = failures
  BY DEF StartStep, CheckServiceAvailable, InitializeClients,
         CheckClientsInitialSuccessful, Seed, places
<1>2. Sourced'
  BY <1>1 DEF Sourced, Lookups
<1>3. CASE \E d \in Dependency : CheckServiceAvailable(d)
  <2>1. stage' = stage /\ stage = "waiting" /\ probe' = probe /\ url' = url
        /\ waiting' \subseteq waiting
    BY <1>3 DEF CheckServiceAvailable
  <2> QED
    BY <1>1, <1>2, <2>1 DEF EndpointTypeOK, UrlOfService, Asked, ProbedReady
<1>4. CASE InitializeClients
  <2>1. /\ stage = "waiting" /\ stage' = "probing" /\ probe' = probe
        /\ waiting' = waiting
        /\ url' = [c \in Client |-> IF UseRegistry THEN NoUrl
                                   ELSE Configured[ServiceKey[c]]]
    BY <1>4 DEF InitializeClients
  <2>2. url' \in [Client -> Place \cup {NoUrl}]
    BY <2>1 DEF EndpointAssumption, Place
  <2>3. EndpointTypeOK'
    BY <1>1, <2>1, <2>2 DEF EndpointTypeOK
  <2>4. UrlOfService'
    BY <1>1, <2>1 DEF UrlOfService
  <2>5. Asked' /\ ProbedReady'
    BY <2>1 DEF Asked, ProbedReady
  <2> QED
    BY <1>2, <2>3, <2>4, <2>5
<1>5. CASE CheckClientsInitialSuccessful
  <2>1. stage = "probing" /\ url' = url /\ waiting' = waiting
    BY <1>5 DEF CheckClientsInitialSuccessful
  <2>2. CASE probe > Len(Probed)
    <3>1. stage' = "seeding" /\ probe' = probe
      BY <1>5, <2>2 DEF CheckClientsInitialSuccessful
    <3>2. probe - 1 = Len(Probed)
      BY <1>0, <2>2 DEF EndpointTypeOK
    <3>3. ProbedReady'
      BY <1>0, <2>1, <3>1, <3>2 DEF Asked, ProbedReady
    <3> QED
      BY <1>1, <1>2, <2>1, <3>1, <3>3 DEF EndpointTypeOK, UrlOfService, Asked
  <2>3. CASE probe <= Len(Probed)
    <3>1. stage' = stage /\ probe' = IF Answers(Probed[probe]) THEN probe + 1 ELSE 1
      BY <1>0, <1>5, <2>3 DEF CheckClientsInitialSuccessful, EndpointTypeOK
    <3>2. probe \in 1 .. Len(Probed)
      BY <1>0, <2>3 DEF EndpointTypeOK
    <3>3. probe' \in 1 .. Len(Probed) + 1
      BY <1>0, <3>1, <3>2
    <3>4. Answers(Probed[probe]) => url[Probed[probe]] # NoUrl
      BY DEF Answers, EndpointAssumption
    <3>5. \A k \in 1 .. probe' - 1 : url[Probed[k]] # NoUrl
      <4>1. CASE Answers(Probed[probe])
        <5>1. \A k \in 1 .. probe' - 1 : k \in 1 .. probe - 1 \/ k = probe
          BY <3>1, <3>2, <4>1
        <5> QED
          BY <2>1, <3>4, <4>1, <5>1 DEF Asked
      <4>2. CASE ~Answers(Probed[probe])
        BY <3>1, <4>2
      <4> QED
        BY <4>1, <4>2
    <3> QED
      BY <1>1, <1>2, <2>1, <3>1, <3>3, <3>5
      DEF EndpointTypeOK, UrlOfService, Asked, ProbedReady
  <2> QED
    BY <1>0, <2>2, <2>3 DEF EndpointTypeOK
<1>6. CASE Seed
  <2>1. /\ stage = "seeding" /\ stage' = "up" /\ probe' = probe /\ url' = url
        /\ waiting' = waiting
    BY <1>6 DEF Seed
  <2> QED
    BY <1>1, <1>2, <2>1 DEF EndpointTypeOK, UrlOfService, Asked, ProbedReady
<1> QED
  BY <1>3, <1>4, <1>5, <1>6 DEF StartStep

\* Every step keeps the invariant, by the lemmas of the actions.
LEMMA EndpointStep ==
    EndpointAssumption /\ EndpointInv /\ [EndpointNext]_endpointVars => EndpointInv'
<1> SUFFICES ASSUME EndpointAssumption, EndpointInv, [EndpointNext]_endpointVars
             PROVE  EndpointInv'
  OBVIOUS
<1>1. CASE Move \/ Leave
  BY <1>1, PlacesStep
<1>2. CASE StartStep
  BY <1>2, StartStepInv
<1>3. ASSUME NEW c \in Client, Monitor(c) PROVE EndpointInv'
  BY <1>3, MonitorStep
<1>4. ASSUME NEW c \in Client, Receive(c) PROVE EndpointInv'
  BY <1>4, ReceiveStep
<1>5. CASE UNCHANGED endpointVars
  BY <1>5 DEF EndpointInv, EndpointTypeOK, Sourced, Lookups, UrlOfService, Asked,
              ProbedReady, endpointVars, places, start
<1> QED
  BY <1>1, <1>2, <1>3, <1>4, <1>5 DEF EndpointNext

\* The invariant holds however dependencies, monitors and the start interleave.
THEOREM EndpointInvariant == EndpointSpec => []EndpointInv
<1>1. EndpointAssumption /\ EndpointInit => EndpointInv
  BY EndpointInitInv
<1>2. EndpointAssumption /\ EndpointInv /\ [EndpointNext]_endpointVars => EndpointInv'
  BY EndpointStep
<1> QED
  BY <1>1, <1>2, EndpointAssumption, PTL DEF EndpointSpec

\* The shape of the state: at most two URLs are on their way to a client.
THEOREM EndpointTypeCorrect == EndpointSpec => []EndpointTypeOK
<1>1. EndpointInv => EndpointTypeOK
  BY DEF EndpointInv
<1> QED
  BY <1>1, EndpointInvariant, PTL

\* A client calls no address its own service was not registered with, in
\* whatever order services move, lookups fail and URLs arrive.
THEOREM UrlsOfService == EndpointSpec => []UrlOfService
<1>1. EndpointInv => UrlOfService
  BY DEF EndpointInv
<1> QED
  BY <1>1, EndpointInvariant, PTL

\* checkClientsInitialSuccessful makes sure of the clients it asks.
THEOREM ProbedAreReady == EndpointSpec => []ProbedReady
<1>1. EndpointInv => ProbedReady
  BY DEF EndpointInv
<1> QED
  BY <1>1, EndpointInvariant, PTL

-----------------------------------------------------------------------------
(* The configuration in Consul.                                             *)

Texts == Value \cup {Junk, Absent}

\* An instance in front of a call is at a field that has a key, and has not
\* ended at another one.
Located == \A i \in Instance :
    at[i] \in {"put", "again", "panic", "error"} => field[i] \in Field

\* The present text of a key is one of those it had.
Recorded == \A i \in Instance, f \in Field : pairs[f] \in had[i][f]

\* A key nobody edited is there once an instance has found it or has gone past.
Kept == \A f \in Field \ edited : \A i \in Instance :
    f \in Passed(i) \/ (field[i] = f /\ at[i] = "again") => pairs[f] # Absent

\* It appears under the hands of an instance about to put it only by a put of
\* another.
Overtaken == \A f \in Field \ edited : \A i \in Instance :
    field[i] = f /\ at[i] = "put" /\ pairs[f] # Absent => puts[f] # {}

\* An instance puts a field once.
PutOnce == \A f \in Field : \A i \in puts[f] :
    f \in Passed(i) \/ (field[i] = f /\ at[i] = "error")

StoreInv ==
    /\ StoreTypeOK /\ Located /\ Recorded
    /\ Kept /\ Overtaken /\ PutOnce
    /\ ConfigFromStore /\ StoreWins /\ EarlyEndsBlamed

-----------------------------------------------------------------------------
(* Facts about the operators the actions are built from. *)

\* A field is a position in the list of kinds.
LEMMA FieldsAreNumbers ==
    ASSUME ConfigAssumption
    PROVE  /\ Len(Kind) \in Nat /\ DOMAIN Kind = 1 .. Len(Kind)
           /\ Field \subseteq DOMAIN Kind /\ Field \subseteq Nat
<1>1. Len(Kind) \in Nat /\ DOMAIN Kind = 1 .. Len(Kind)
  BY LenProperties DEF ConfigAssumption
<1> QED
  BY <1>1 DEF Field

\* Going on to the next field.
LEMMA GoOnShape ==
    ASSUME ConfigAssumption, StoreTypeOK, NEW i \in Instance,
           field[i] \in DOMAIN Kind, GoOn(i)
    PROVE  /\ field' \in [Instance -> 1 .. Len(Kind) + 1]
           /\ at' \in [Instance -> {"get", "put", "again", "nil", "error", "panic"}]
           /\ \A j \in Instance : /\ j = i => at'[j] = "get"
                                  /\ j # i => at'[j] = at[j]
           /\ field'[i] # field[i]
           /\ \A j \in Instance : j # i => field'[j] = field[j]
           /\ \A j \in Instance : \A f \in Field :
                f \in Passed(j)' <=> f \in Passed(j) \/ (j = i /\ f = field[i])
<1>1. /\ Len(Kind) \in Nat /\ DOMAIN Kind = 1 .. Len(Kind) /\ Field \subseteq Nat
  BY FieldsAreNumbers
<1>2. /\ field' = [field EXCEPT ![i] = @ + 1] /\ at' = [at EXCEPT ![i] = "get"]
  BY DEF GoOn
<1>3. field \in [Instance -> 1 .. Len(Kind) + 1]
  BY DEF StoreTypeOK
<1>4. at \in [Instance -> {"get", "put", "again", "nil", "error", "panic"}]
  BY DEF StoreTypeOK
<1>5. /\ field' \in [Instance -> 1 .. Len(Kind) + 1]
      /\ \A j \in Instance : field'[j] = IF j = i THEN field[i] + 1 ELSE field[j]
  BY <1>1, <1>2, <1>3
<1>6. /\ at' \in [Instance -> {"get", "put", "again", "nil", "error", "panic"}]
      /\ \A j \in Instance : at'[j] = IF j = i THEN "get" ELSE at[j]
  BY <1>2, <1>4
<1>7. ASSUME NEW j \in Instance, NEW f \in Field
      PROVE  f \in Passed(j)' <=> f \in Passed(j) \/ (j = i /\ f = field[i])
  <2>1. f \in Nat /\ field[j] \in Nat
    BY <1>1, <1>3
  <2>2. f < field'[j] <=> f < field[j] \/ (j = i /\ f = field[i])
    BY <1>5, <2>1
  <2> QED
    BY <2>2 DEF Passed
<1> QED
  BY <1>1, <1>3, <1>5, <1>6, <1>7

\* Staying at a field: the check goes to another call, or ends.
LEMMA StayShape ==
    ASSUME StoreTypeOK, NEW i \in Instance, UNCHANGED field,
           NEW how \in {"put", "again", "nil", "error", "panic"},
           at' = [at EXCEPT ![i] = how]
    PROVE  /\ field' \in [Instance -> 1 .. Len(Kind) + 1]
           /\ at' \in [Instance -> {"get", "put", "again", "nil", "error", "panic"}]
           /\ \A j \in Instance : at'[j] = IF j = i THEN how ELSE at[j]
           /\ \A j \in Instance : Passed(j)' = Passed(j)
<1>1. field' = field
  OBVIOUS
<1>2. \A j \in Instance : Passed(j)' = Passed(j)
  BY <1>1 DEF Passed
<1>3. at \in [Instance -> {"get", "put", "again", "nil", "error", "panic"}]
  BY DEF StoreTypeOK
<1> QED
  BY <1>1, <1>2, <1>3 DEF StoreTypeOK

\* A key gets a text.
LEMMA StoreShape ==
    ASSUME StoreTypeOK, NEW f \in Field, NEW v \in Texts, Store(f, v)
    PROVE  /\ pairs' \in [Field -> Texts]
           /\ had' \in [Instance -> [Field -> SUBSET Texts]]
           /\ \A g \in Field : pairs'[g] = IF g = f THEN v ELSE pairs[g]
           /\ \A j \in Instance, g \in Field :
                had'[j][g] = IF g = f THEN had[j][g] \cup {v} ELSE had[j][g]
<1>1. /\ pairs' = [pairs EXCEPT ![f] = v]
      /\ had' = [j \in Instance |-> [had[j] EXCEPT ![f] = @ \cup {v}]]
  BY DEF Store
<1>2. pairs \in [Field -> Texts] /\ had \in [Instance -> [Field -> SUBSET Texts]]
  BY DEF StoreTypeOK, Texts
<1>3. \A j \in Instance : had'[j] = [had[j] EXCEPT ![f] = @ \cup {v}]
  BY <1>1
<1>4. \A j \in Instance : had[j] \in [Field -> SUBSET Texts]
  BY <1>2
<1>5. \A j \in Instance, g \in Field :
        had'[j][g] = IF g = f THEN had[j][g] \cup {v} ELSE had[j][g]
  BY <1>3, <1>4
<1>6. ASSUME NEW j \in Instance PROVE had'[j] \in [Field -> SUBSET Texts]
  <2>1. had[j][f] \cup {v} \in SUBSET Texts
    BY <1>4
  <2> QED
    BY ZenonT(60), <1>3, <1>4, <2>1
<1>7. had' \in [Instance -> [Field -> SUBSET Texts]]
  BY <1>1, <1>6
<1> QED
  BY <1>1, <1>2, <1>5, <1>7

-----------------------------------------------------------------------------
\* Before a check nothing was passed, put or edited.
LEMMA StoreInitInv == ConfigAssumption /\ StoreInit => StoreInv
<1> SUFFICES ASSUME ConfigAssumption, StoreInit PROVE StoreInv
  OBVIOUS
<1>0. /\ Len(Kind) \in Nat /\ Field \subseteq Nat /\ DOMAIN Kind = 1 .. Len(Kind)
      /\ Field \subseteq DOMAIN Kind
  BY FieldsAreNumbers
<1>1. StoreTypeOK
  <2>1. pairs \in [Field -> Value \cup {Junk, Absent}]
    BY DEF StoreInit
  <2>2. at \in [Instance -> {"get", "put", "again", "nil", "error", "panic"}]
    BY DEF StoreInit
  <2>3. field \in [Instance -> 1 .. Len(Kind) + 1]
    BY <1>0 DEF StoreInit
  <2>4. config \in [Instance -> [Field -> Value \cup {Junk}]]
    BY DEF StoreInit, ConfigAssumption
  <2>5. had \in [Instance -> [Field -> SUBSET (Value \cup {Junk, Absent})]]
    BY <2>1 DEF StoreInit
  <2>6. puts \in [Field -> SUBSET Instance] /\ edited \subseteq Field
        /\ edits \in Nat /\ errors \in Nat
    BY DEF StoreInit
  <2> QED
    BY <2>1, <2>2, <2>3, <2>4, <2>5, <2>6 DEF StoreTypeOK
<1>2. ASSUME NEW i \in Instance PROVE at[i] = "get" /\ Passed(i) = {}
  <2>1. at[i] = "get" /\ field[i] = 1
    BY DEF StoreInit
  <2>2. \A f \in Field : f \in 1 .. Len(Kind)
    BY <1>0
  <2>3. \A f \in Field : ~(f < 1)
    BY <1>0, <2>2
  <2> QED
    BY <2>1, <2>3 DEF Passed
<1>3. \A f \in Field : puts[f] = {}
  BY DEF StoreInit
<1>4. \A i \in Instance, f \in Field : pairs[f] \in had[i][f]
  BY DEF StoreInit
<1>5. \A i \in Instance : \A f \in Field :
        config[i][f] = Given[i][f] /\ Given[i][f] \in Value
  BY DEF StoreInit, ConfigAssumption
<1>6. Located /\ Recorded /\ Kept /\ Overtaken /\ PutOnce
  BY <1>2, <1>3, <1>4 DEF Located, Recorded, Kept, Overtaken, PutOnce
<1>7. ConfigFromStore /\ StoreWins /\ EarlyEndsBlamed
  BY <1>2, <1>5 DEF ConfigFromStore, StoreWins, EarlyEndsBlamed, ConfigAssumption
<1> QED
  BY <1>1, <1>6, <1>7 DEF StoreInv

-----------------------------------------------------------------------------
(* One lemma per action. *)

\* The store, the configurations and the histories stay; so a step has to show
\* little when it passes no field either.
LEMMA QuietStep ==
    ASSUME ConfigAssumption, StoreInv, NEW i \in Instance,
           UNCHANGED <<pairs, config, had, puts, edited>>,
           edits' \in Nat, errors' \in Nat, errors' >= errors,
           field' \in [Instance -> 1 .. Len(Kind) + 1],
           at' \in [Instance -> {"get", "put", "again", "nil", "error", "panic"}],
           \A j \in Instance : Passed(j)' = Passed(j),
           \A j \in Instance : j # i => at'[j] = at[j] /\ field'[j] = field[j],
           \* what the step has to justify of i
           at'[i] \in {"put", "again", "panic", "error"} =>
             field[i] \in Field /\ field'[i] = field[i] /\ at[i] \notin {"error"},
           at'[i] = "put" => pairs[field[i]] = Absent,
           at'[i] = "again" => pairs[field[i]] # Absent,
           at'[i] = "panic" => at[i] = "again" /\ pairs[field[i]] = Absent,
           at'[i] = "error" => errors' > 0 \/ Junk \in had[i][field[i]],
           at[i] \notin {"error"}
    PROVE  StoreInv'
<1> USE DEF StoreInv
<1>1. /\ pairs' = pairs /\ config' = config /\ had' = had /\ puts' = puts
      /\ edited' = edited
  OBVIOUS
<1>2. StoreTypeOK'
  BY <1>1 DEF StoreTypeOK
<1>3. Located'
  BY <1>1 DEF Located
<1>4. Recorded'
  BY <1>1 DEF Recorded
<1>5. Kept'
  BY ZenonT(60), <1>1 DEF Kept
<1>6. Overtaken'
  BY <1>1 DEF Overtaken
<1>7. PutOnce'
  <2> SUFFICES ASSUME NEW f \in Field, NEW j \in puts[f]
               PROVE  f \in Passed(j) \/ (field'[j] = f /\ at'[j] = "error")
    BY <1>1 DEF PutOnce, StoreTypeOK
  <2>1. j \in Instance
    BY DEF StoreTypeOK
  <2> QED
    BY <2>1 DEF PutOnce
<1>8. ConfigFromStore'
  BY <1>1 DEF ConfigFromStore
<1>9. StoreWins'
  BY SMTT(30), <1>1 DEF StoreWins
<1>10. EarlyEndsBlamed'
  <2> SUFFICES ASSUME NEW j \in Instance
               PROVE  /\ at'[j] = "panic" =>
                          field'[j] \in edited /\ Absent \in had[j][field'[j]]
                      /\ at'[j] = "error" => errors' > 0 \/ Junk \in had[j][field'[j]]
    BY <1>1 DEF EarlyEndsBlamed
  <2>1. errors > 0 => errors' > 0
    BY DEF StoreTypeOK
  <2>2. CASE j # i
    BY <2>1, <2>2 DEF EarlyEndsBlamed
  <2>3. CASE j = i
    <3>1. at'[i] = "panic" => field[i] \in edited /\ Absent \in had[i][field[i]]
      BY DEF Kept, Recorded
    <3> QED
      BY <2>3, <3>1
  <2> QED
    BY <2>2, <2>3
<1> QED
  BY <1>2, <1>3, <1>4, <1>5, <1>6, <1>7, <1>8, <1>9, <1>10

\* The end of the loop passes nothing.
LEMMA FinishStep ==
    ASSUME ConfigAssumption, StoreInv, NEW i \in Instance, Finish(i)
    PROVE  StoreInv'
<1>1. at[i] = "get" /\ at' = [at EXCEPT ![i] = "nil"] /\ field' = field
  BY DEF Finish, End
<1>2. UNCHANGED <<pairs, config, had, puts, edited, edits, errors>>
  BY DEF Finish
<1>3. StoreTypeOK
  BY DEF StoreInv
<1>4. /\ field' \in [Instance -> 1 .. Len(Kind) + 1]
      /\ at' \in [Instance -> {"get", "put", "again", "nil", "error", "panic"}]
      /\ \A j \in Instance : at'[j] = IF j = i THEN "nil" ELSE at[j]
      /\ \A j \in Instance : Passed(j)' = Passed(j)
  BY <1>1, <1>3, StayShape
<1>5. edits' \in Nat /\ errors' \in Nat /\ errors' >= errors
  BY <1>2, <1>3 DEF StoreTypeOK
<1> QED
  BY <1>1, <1>2, <1>4, <1>5, QuietStep

\* A field without a key is passed without a trace.
LEMMA SkipStep ==
    ASSUME ConfigAssumption, StoreInv, NEW i \in Instance, Skip(i)
    PROVE  StoreInv'
<1>1. at[i] = "get" /\ field[i] \in DOMAIN Kind /\ field[i] \notin Field /\ GoOn(i)
  BY DEF Skip
<1>2. UNCHANGED <<pairs, config, had, puts, edited, edits, errors>>
  BY DEF Skip
<1>3. StoreTypeOK
  BY DEF StoreInv
<1>4. /\ field' \in [Instance -> 1 .. Len(Kind) + 1]
      /\ at' \in [Instance -> {"get", "put", "again", "nil", "error", "panic"}]
      /\ at'[i] = "get"
      /\ \A j \in Instance : j # i => at'[j] = at[j] /\ field'[j] = field[j]
      /\ \A j \in Instance : \A f \in Field :
           f \in Passed(j)' <=> f \in Passed(j) \/ (j = i /\ f = field[i])
  BY <1>1, <1>3, GoOnShape
<1>5. \A j \in Instance : Passed(j) \subseteq Field /\ Passed(j)' \subseteq Field
  BY DEF Passed
<1>6. ASSUME NEW j \in Instance PROVE Passed(j)' = Passed(j)
  <2>1. \A f \in Field : f \in Passed(j)' <=> f \in Passed(j)
    BY <1>1, <1>4
  <2> QED
    BY <1>5, <2>1
<1>7. edits' \in Nat /\ errors' \in Nat /\ errors' >= errors
  BY <1>2, <1>3 DEF StoreTypeOK
<1> QED
  BY <1>1, <1>2, <1>4, <1>6, <1>7, QuietStep

\* The first Get decides only what comes next.
LEMMA GetPairStep ==
    ASSUME ConfigAssumption, StoreInv, NEW i \in Instance, GetPair(i)
    PROVE  StoreInv'
<1> DEFINE how == IF pairs[field[i]] = Absent THEN "put" ELSE "again"
<1>1. /\ at[i] = "get" /\ field[i] \in Field /\ field' = field
      /\ at' = [at EXCEPT ![i] = how]
  BY DEF GetPair
<1>2. UNCHANGED <<pairs, config, had, puts, edited, edits, errors>>
  BY DEF GetPair
<1>3. StoreTypeOK
  BY DEF StoreInv
<1>4. how \in {"put", "again", "nil", "error", "panic"}
  OBVIOUS
<1>5. /\ how = "put" => pairs[field[i]] = Absent
      /\ how = "again" => pairs[field[i]] # Absent
      /\ how \in {"put", "again"}
  OBVIOUS
<1> HIDE DEF how
<1>6. /\ field' \in [Instance -> 1 .. Len(Kind) + 1]
      /\ at' \in [Instance -> {"get", "put", "again", "nil", "error", "panic"}]
      /\ \A j \in Instance : at'[j] = IF j = i THEN how ELSE at[j]
      /\ \A j \in Instance : Passed(j)' = Passed(j)
  BY <1>1, <1>3, <1>4, StayShape
<1>7. edits' \in Nat /\ errors' \in Nat /\ errors' >= errors
  BY <1>2, <1>3 DEF StoreTypeOK
<1>8. at'[i] = how /\ at'[i] # "panic" /\ at'[i] # "error"
  BY <1>5, <1>6
<1> QED
  BY <1>1, <1>2, <1>5, <1>6, <1>7, <1>8, QuietStep

\* A put takes effect, whether its call succeeds, and the check goes on, or
\* fails, and the check ends.
LEMMA PutEffect ==
    ASSUME ConfigAssumption, StoreInv, NEW i \in Instance,
           at[i] = "put", Store(field[i], config[i][field[i]]),
           puts' = [puts EXCEPT ![field[i]] = @ \cup {i}],
           UNCHANGED <<config, edited, edits>>, errors' \in Nat, errors' >= errors,
           field' \in [Instance -> 1 .. Len(Kind) + 1],
           at' \in [Instance -> {"get", "put", "again", "nil", "error", "panic"}],
           at'[i] \in {"get", "error"},
           at'[i] = "error" => field'[i] = field[i] /\ errors' > 0,
           \A j \in Instance : j # i => at'[j] = at[j] /\ field'[j] = field[j],
           \A j \in Instance : \A g \in Field : g \in Passed(j)' <=>
             g \in Passed(j) \/ (j = i /\ g = field[i] /\ at'[i] = "get")
    PROVE  StoreInv'
<1> DEFINE f == field[i]
           v == config[i][f]
<1> USE DEF StoreInv
<1>1. f \in Field /\ f \in Nat
  BY FieldsAreNumbers DEF Located
<1>2. f \notin Passed(i)
  BY <1>1 DEF Passed
<1>3. v \in Value /\ v \in Texts /\ v # Absent /\ v # Junk
  BY <1>1, <1>2 DEF ConfigFromStore, ConfigAssumption, Texts
<1> HIDE DEF f, v
<1>4. /\ pairs' \in [Field -> Texts]
      /\ had' \in [Instance -> [Field -> SUBSET Texts]]
      /\ \A g \in Field : pairs'[g] = IF g = f THEN v ELSE pairs[g]
      /\ \A j \in Instance, g \in Field :
           had'[j][g] = IF g = f THEN had[j][g] \cup {v} ELSE had[j][g]
  <2>1. Store(f, v)
    BY DEF f, v
  <2> QED
    BY ZenonT(60), <1>1, <1>3, <2>1, StoreShape
<1>5. /\ puts' \in [Field -> SUBSET Instance]
      /\ \A g \in Field : puts'[g] = IF g = f THEN puts[g] \cup {i} ELSE puts[g]
  BY <1>1 DEF StoreTypeOK, f
<1>6. config' = config /\ edited' = edited /\ edits' = edits
  OBVIOUS
<1>7. StoreTypeOK'
  BY <1>4, <1>5, <1>6 DEF StoreTypeOK, Texts
<1>8. Located'
  BY <1>1 DEF Located, f
<1>9. Recorded'
  BY <1>4 DEF Recorded
<1>10. Kept'
  <2> SUFFICES ASSUME NEW g \in Field \ edited, NEW j \in Instance,
                      g \in Passed(j)' \/ (field'[j] = g /\ at'[j] = "again")
               PROVE  pairs'[g] # Absent
    BY <1>6 DEF Kept
  <2>1. CASE g = f
    BY <1>3, <1>4, <2>1
  <2>2. CASE g # f
    BY <1>4, <2>2 DEF Kept, f
  <2> QED
    BY <2>1, <2>2
<1>11. Overtaken'
  <2> SUFFICES ASSUME NEW g \in Field \ edited, NEW j \in Instance,
                      field'[j] = g, at'[j] = "put", pairs'[g] # Absent
               PROVE  puts'[g] # {}
    BY <1>6 DEF Overtaken
  <2>1. CASE g = f
    BY <1>5, <2>1
  <2>2. CASE g # f
    <3>1. j # i
      OBVIOUS
    <3>2. at[j] = "put" /\ field[j] = g
      BY <3>1
    <3>3. pairs[g] # Absent /\ puts'[g] = puts[g]
      BY <1>4, <1>5, <2>2
    <3> QED
      BY <3>2, <3>3 DEF Overtaken
  <2> QED
    BY <2>1, <2>2
<1>12. PutOnce'
  <2> SUFFICES ASSUME NEW g \in Field, NEW j \in puts'[g]
               PROVE  g \in Passed(j)' \/ (field'[j] = g /\ at'[j] = "error")
    BY DEF PutOnce
  <2>1. j \in Instance
    BY <1>5
  <2>2. CASE j = i
    <3>1. CASE g = f
      BY <2>2, <3>1 DEF f
    <3>2. CASE g # f
      BY <1>5, <2>2, <3>2 DEF PutOnce, f
    <3> QED
      BY <3>1, <3>2
  <2>3. CASE j # i
    <3>1. j \in puts[g]
      BY <1>5, <2>3
    <3> QED
      BY <2>1, <2>3, <3>1 DEF PutOnce
  <2> QED
    BY <2>2, <2>3
<1>13. ConfigFromStore'
  <2> SUFFICES ASSUME NEW j \in Instance, NEW g \in Field
               PROVE  /\ g \in Passed(j)' => config[j][g] \in had'[j][g]
                      /\ g \notin Passed(j)' => config[j][g] = Given[j][g]
                      /\ config[j][g] = Junk => Kind[g] = "string"
    BY <1>6 DEF ConfigFromStore
  <2>1. CASE j = i /\ g = f
    BY ZenonT(60), <1>2, <1>3, <1>4, <2>1 DEF ConfigFromStore, v, f
  <2>2. CASE ~(j = i /\ g = f)
    <3>1. g \in Passed(j)' <=> g \in Passed(j)
      BY <2>2 DEF f
    <3>2. had[j][g] \subseteq had'[j][g]
      BY <1>4
    <3> QED
      BY <3>1, <3>2 DEF ConfigFromStore
  <2> QED
    BY <2>1, <2>2
<1>14. StoreWins'
  <2> SUFFICES ASSUME NEW j \in Instance, NEW g \in Field, g \in Passed(j)',
                      g \notin edited
               PROVE  config[j][g] = pairs'[g] \/ \E a, b \in puts'[g] : a # b
    BY <1>6 DEF StoreWins, Passed
  <2>1. CASE g # f
    <3>1. g \in Passed(j) /\ pairs'[g] = pairs[g] /\ puts'[g] = puts[g]
      BY <1>4, <1>5, <2>1 DEF f
    <3> QED
      BY <3>1 DEF StoreWins
  <2>2. CASE g = f /\ j = i
    BY <1>4, <2>2 DEF v
  <2>3. CASE g = f /\ j # i
    <3>1. f \in Passed(j)
      BY <2>3 DEF f
    <3>2. pairs[f] # Absent
      BY <1>1, <2>3, <3>1 DEF Kept
    <3>3. PICK k : k \in puts[f]
      BY <1>1, <2>3, <3>2 DEF Overtaken, f
    <3>4. k # i
      BY <1>1, <1>2, <3>3 DEF PutOnce
    <3> QED
      BY <1>5, <2>3, <3>3, <3>4
  <2> QED
    BY <2>1, <2>2, <2>3
<1>15. EarlyEndsBlamed'
  <2> SUFFICES ASSUME NEW j \in Instance
               PROVE  /\ at'[j] = "panic" =>
                          field'[j] \in edited /\ Absent \in had'[j][field'[j]]
                      /\ at'[j] = "error" => errors' > 0 \/ Junk \in had'[j][field'[j]]
    BY <1>6 DEF EarlyEndsBlamed
  <2>1. CASE j = i
    BY <2>1
  <2>2. CASE j # i
    <3>1. at'[j] = at[j] /\ field'[j] = field[j]
      BY <2>2
    <3>2. errors > 0 => errors' > 0
      BY DEF StoreTypeOK
    <3>3. at[j] \in {"panic", "error"} => had[j][field[j]] \subseteq had'[j][field[j]]
      BY <1>4 DEF Located
    <3> QED
      BY <3>1, <3>2, <3>3 DEF EarlyEndsBlamed
  <2> QED
    BY <2>1, <2>2
<1> QED
  BY <1>7, <1>8, <1>9, <1>10, <1>11, <1>12, <1>13, <1>14, <1>15

\* A put that succeeds passes its field.
LEMMA PutPairStep ==
    ASSUME ConfigAssumption, StoreInv, NEW i \in Instance, PutPair(i)
    PROVE  StoreInv'
<1>1. /\ at[i] = "put" /\ Store(field[i], config[i][field[i]])
      /\ puts' = [puts EXCEPT ![field[i]] = @ \cup {i}]
      /\ GoOn(i) /\ UNCHANGED <<config, edited, edits, errors>>
  BY DEF PutPair
<1>2. field[i] \in DOMAIN Kind
  BY <1>1, FieldsAreNumbers DEF StoreInv, Located
<1>3. StoreTypeOK
  BY DEF StoreInv
<1>4. /\ field' \in [Instance -> 1 .. Len(Kind) + 1]
      /\ at' \in [Instance -> {"get", "put", "again", "nil", "error", "panic"}]
      /\ at'[i] = "get"
      /\ \A j \in Instance : j # i => at'[j] = at[j] /\ field'[j] = field[j]
      /\ \A j \in Instance : \A f \in Field :
           f \in Passed(j)' <=> f \in Passed(j) \/ (j = i /\ f = field[i])
  BY <1>1, <1>2, <1>3, GoOnShape
<1>5. errors' \in Nat /\ errors' >= errors
  BY <1>1, <1>3 DEF StoreTypeOK
<1> QED
  BY <1>1, <1>4, <1>5, PutEffect

\* A failed call ends the check, at most with the effect of its put.
LEMMA CallFailsStep ==
    ASSUME ConfigAssumption, StoreInv, NEW i \in Instance, CallFails(i)
    PROVE  StoreInv'
<1>1. /\ at[i] \in {"get", "put", "again"} /\ field[i] \in Field
      /\ errors' = errors + 1 /\ at' = [at EXCEPT ![i] = "error"] /\ field' = field
      /\ UNCHANGED <<config, edited, edits>>
  BY DEF CallFails, End
<1>2. StoreTypeOK
  BY DEF StoreInv
<1>3. /\ field' \in [Instance -> 1 .. Len(Kind) + 1]
      /\ at' \in [Instance -> {"get", "put", "again", "nil", "error", "panic"}]
      /\ \A j \in Instance : at'[j] = IF j = i THEN "error" ELSE at[j]
      /\ \A j \in Instance : Passed(j)' = Passed(j)
  BY <1>1, <1>2, StayShape
<1>4. errors' \in Nat /\ errors' >= errors /\ errors' > 0 /\ edits' \in Nat
  BY <1>1, <1>2 DEF StoreTypeOK
<1>5. CASE UNCHANGED <<pairs, had, puts>>
  BY <1>1, <1>3, <1>4, <1>5, QuietStep
<1>6. CASE /\ at[i] = "put" /\ Store(field[i], config[i][field[i]])
           /\ puts' = [puts EXCEPT ![field[i]] = @ \cup {i}]
  <2>1. \A j \in Instance : \A g \in Field : g \in Passed(j)' <=>
          g \in Passed(j) \/ (j = i /\ g = field[i] /\ at'[i] = "get")
    BY <1>3
  <2> QED
    BY <1>1, <1>3, <1>4, <1>6, <2>1, PutEffect
<1> QED
  BY <1>5, <1>6 DEF CallFails

\* The second Get ends the check, or its value is set.
LEMMA GetAgainStep ==
    ASSUME ConfigAssumption, StoreInv, NEW i \in Instance, GetAgain(i)
    PROVE  StoreInv'
<1> DEFINE f == field[i]
<1> USE DEF StoreInv
<1>1. /\ at[i] = "again"
      /\ UNCHANGED <<pairs, had, puts, edited, edits, errors>>
  BY DEF GetAgain
<1>2. f \in Field /\ f \in DOMAIN Kind
  BY <1>1, FieldsAreNumbers DEF Located
<1>3. edits' \in Nat /\ errors' \in Nat /\ errors' >= errors
  BY <1>1 DEF StoreTypeOK
<1>4. CASE pairs[f] = Absent
  <2>1. at' = [at EXCEPT ![i] = "panic"] /\ field' = field /\ config' = config
    BY <1>4 DEF GetAgain, End
  <2>2. /\ field' \in [Instance -> 1 .. Len(Kind) + 1]
        /\ at' \in [Instance -> {"get", "put", "again", "nil", "error", "panic"}]
        /\ \A j \in Instance : at'[j] = IF j = i THEN "panic" ELSE at[j]
        /\ \A j \in Instance : Passed(j)' = Passed(j)
    BY <2>1, StayShape
  <2> QED
    BY <1>1, <1>2, <1>3, <1>4, <2>1, <2>2, QuietStep
<1>5. CASE pairs[f] # Absent /\ pairs[f] = Junk /\ Kind[f] # "string"
  <2>1. at' = [at EXCEPT ![i] = "error"] /\ field' = field /\ config' = config
    BY <1>5 DEF GetAgain, End
  <2>2. /\ field' \in [Instance -> 1 .. Len(Kind) + 1]
        /\ at' \in [Instance -> {"get", "put", "again", "nil", "error", "panic"}]
        /\ \A j \in Instance : at'[j] = IF j = i THEN "error" ELSE at[j]
        /\ \A j \in Instance : Passed(j)' = Passed(j)
    BY <2>1, StayShape
  <2>3. Junk \in had[i][f]
    BY <1>2, <1>5 DEF Recorded
  <2> QED
    BY <1>1, <1>2, <1>3, <2>1, <2>2, <2>3, QuietStep
<1>6. CASE pairs[f] # Absent /\ ~(pairs[f] = Junk /\ Kind[f] # "string")
  <2>1. config' = [config EXCEPT ![i][f] = pairs[f]] /\ GoOn(i)
    BY <1>6 DEF GetAgain
  <2>2. pairs[f] \in Value \cup {Junk} /\ (pairs[f] = Junk => Kind[f] = "string")
    BY <1>2, <1>6 DEF StoreTypeOK
  <2>3. /\ field' \in [Instance -> 1 .. Len(Kind) + 1]
        /\ at' \in [Instance -> {"get", "put", "again", "nil", "error", "panic"}]
        /\ at'[i] = "get"
        /\ \A j \in Instance : j # i => at'[j] = at[j] /\ field'[j] = field[j]
        /\ \A j \in Instance : \A g \in Field :
             g \in Passed(j)' <=> g \in Passed(j) \/ (j = i /\ g = f)
    BY <1>2, <2>1, GoOnShape
  <2> HIDE DEF f
  <2>4. /\ config' \in [Instance -> [Field -> Value \cup {Junk}]]
        /\ \A j \in Instance, g \in Field :
             config'[j][g] = IF j = i /\ g = f THEN pairs[f] ELSE config[j][g]
    BY <1>2, <2>1, <2>2 DEF StoreTypeOK
  <2>5. StoreTypeOK'
    BY <1>1, <2>3, <2>4 DEF StoreTypeOK
  <2>6. Located'
    BY <2>3 DEF Located
  <2>7. Recorded'
    BY <1>1 DEF Recorded
  <2>8. Kept'
    <3> SUFFICES ASSUME NEW g \in Field \ edited, NEW j \in Instance,
                        g \in Passed(j)' \/ (field'[j] = g /\ at'[j] = "again")
                 PROVE  pairs[g] # Absent
      BY <1>1 DEF Kept
    <3>1. CASE j = i /\ g = f
      BY <1>6, <3>1
    <3>2. CASE ~(j = i /\ g = f)
      BY <2>3, <3>2 DEF Kept
    <3> QED
      BY <3>1, <3>2
  <2>9. Overtaken'
    <3> SUFFICES ASSUME NEW g \in Field \ edited, NEW j \in Instance,
                        field'[j] = g, at'[j] = "put", pairs[g] # Absent
                 PROVE  puts[g] # {}
      BY <1>1 DEF Overtaken
    <3>1. j # i
      BY <2>3
    <3> QED
      BY <2>3, <3>1 DEF Overtaken
  <2>10. PutOnce'
    <3> SUFFICES ASSUME NEW g \in Field, NEW j \in puts[g]
                 PROVE  g \in Passed(j)' \/ (field'[j] = g /\ at'[j] = "error")
      BY <1>1 DEF PutOnce
    <3>1. j \in Instance
      BY DEF StoreTypeOK
    <3>2. g \in Passed(j) \/ (j # i /\ field[j] = g /\ at[j] = "error")
      BY <1>1 DEF PutOnce
    <3> QED
      BY <2>3, <3>1, <3>2
  <2>11. ConfigFromStore'
    <3> SUFFICES ASSUME NEW j \in Instance, NEW g \in Field
                 PROVE  /\ g \in Passed(j)' => config'[j][g] \in had[j][g]
                        /\ g \notin Passed(j)' => config'[j][g] = Given[j][g]
                        /\ config'[j][g] = Junk => Kind[g] = "string"
      BY <1>1 DEF ConfigFromStore
    <3>1. CASE j = i /\ g = f
      BY <2>2, <2>3, <2>4, <3>1 DEF Recorded
    <3>2. CASE ~(j = i /\ g = f)
      BY SMTT(30), <2>3, <2>4, <3>2 DEF ConfigFromStore
    <3> QED
      BY <3>1, <3>2
  <2>12. StoreWins'
    <3> SUFFICES ASSUME NEW j \in Instance, NEW g \in Field, g \in Passed(j)',
                        g \notin edited
                 PROVE  config'[j][g] = pairs[g] \/ \E a, b \in puts[g] : a # b
      BY <1>1 DEF StoreWins, Passed
    <3>1. CASE j = i /\ g = f
      BY <2>4, <3>1
    <3>2. CASE ~(j = i /\ g = f)
      BY <2>3, <2>4, <3>2 DEF StoreWins
    <3> QED
      BY <3>1, <3>2
  <2>13. EarlyEndsBlamed'
    <3> SUFFICES ASSUME NEW j \in Instance
                 PROVE  /\ at'[j] = "panic" =>
                            field'[j] \in edited /\ Absent \in had[j][field'[j]]
                        /\ at'[j] = "error" => errors > 0 \/ Junk \in had[j][field'[j]]
      BY <1>1 DEF EarlyEndsBlamed
    <3> QED
      BY <2>3 DEF EarlyEndsBlamed
  <2> QED
    BY <2>5, <2>6, <2>7, <2>8, <2>9, <2>10, <2>11, <2>12, <2>13
<1> QED
  BY <1>4, <1>5, <1>6

\* An edit excuses every difference in its field.
LEMMA EditStep == ConfigAssumption /\ StoreInv /\ Edit => StoreInv'
<1> SUFFICES ASSUME ConfigAssumption, StoreInv, Edit PROVE StoreInv'
  OBVIOUS
<1> USE DEF StoreInv
<1>1. PICK f \in Field : \E v \in Texts :
        Store(f, v) /\ edited' = edited \cup {f}
  BY DEF Edit, Texts
<1>2. PICK v \in Texts : Store(f, v) /\ edited' = edited \cup {f}
  BY <1>1
<1>3. /\ edits' \in Nat /\ at' = at /\ field' = field /\ config' = config
      /\ puts' = puts /\ errors' = errors
  BY DEF Edit, StoreTypeOK
<1>4. /\ pairs' \in [Field -> Texts]
      /\ had' \in [Instance -> [Field -> SUBSET Texts]]
      /\ \A g \in Field : pairs'[g] = IF g = f THEN v ELSE pairs[g]
      /\ \A j \in Instance, g \in Field :
           had'[j][g] = IF g = f THEN had[j][g] \cup {v} ELSE had[j][g]
  BY <1>2, StoreShape
<1>5. \A j \in Instance : Passed(j)' = Passed(j)
  BY <1>3 DEF Passed
<1>6. \A j \in Instance, g \in Field : had[j][g] \subseteq had'[j][g]
  BY <1>4
<1>7. StoreTypeOK'
  BY <1>2, <1>3, <1>4 DEF StoreTypeOK, Texts
<1>8. Located' /\ Recorded'
  BY <1>3, <1>4 DEF Located, Recorded
<1>9. Kept'
  BY <1>2, <1>3, <1>4, <1>5 DEF Kept
<1>10. Overtaken'
  BY <1>2, <1>3, <1>4 DEF Overtaken
<1>11. PutOnce'
  <2> SUFFICES ASSUME NEW g \in Field, NEW j \in puts[g]
               PROVE  g \in Passed(j)' \/ (field[j] = g /\ at[j] = "error")
    BY <1>3 DEF PutOnce
  <2>1. j \in Instance
    BY DEF StoreTypeOK
  <2> QED
    BY <1>5, <2>1 DEF PutOnce
<1>12. ConfigFromStore'
  BY <1>3, <1>5, <1>6 DEF ConfigFromStore
<1>13. StoreWins'
  <2> SUFFICES ASSUME NEW j \in Instance, NEW g \in Field, g \in Passed(j),
                      g \notin edited, g # f
               PROVE  config[j][g] = pairs'[g] \/ \E a, b \in puts[g] : a # b
    BY <1>2, <1>3, <1>5 DEF StoreWins, Passed
  <2> QED
    BY <1>4 DEF StoreWins
<1>14. EarlyEndsBlamed'
  <2> SUFFICES ASSUME NEW j \in Instance
               PROVE  /\ at[j] = "panic" =>
                          field[j] \in edited' /\ Absent \in had'[j][field[j]]
                      /\ at[j] = "error" => errors > 0 \/ Junk \in had'[j][field[j]]
    BY <1>3 DEF EarlyEndsBlamed
  <2>1. at[j] \in {"panic", "error"} => had[j][field[j]] \subseteq had'[j][field[j]]
    BY <1>6 DEF Located
  <2> QED
    BY <1>2, <2>1 DEF EarlyEndsBlamed
<1> QED
  BY <1>7, <1>8, <1>9, <1>10, <1>11, <1>12, <1>13, <1>14

\* Every step keeps the invariant, by the lemmas of the actions.
LEMMA StoreStep ==
    ConfigAssumption /\ StoreInv /\ [StoreNext]_storeVars => StoreInv'
<1> SUFFICES ASSUME ConfigAssumption, StoreInv, [StoreNext]_storeVars
             PROVE  StoreInv'
  OBVIOUS
<1>1. CASE Edit
  BY <1>1, EditStep
<1>2. ASSUME NEW i \in Instance, Finish(i) PROVE StoreInv'
  BY <1>2, FinishStep
<1>3. ASSUME NEW i \in Instance, Skip(i) PROVE StoreInv'
  BY <1>3, SkipStep
<1>4. ASSUME NEW i \in Instance, GetPair(i) PROVE StoreInv'
  BY <1>4, GetPairStep
<1>5. ASSUME NEW i \in Instance, PutPair(i) PROVE StoreInv'
  BY <1>5, PutPairStep
<1>6. ASSUME NEW i \in Instance, GetAgain(i) PROVE StoreInv'
  BY <1>6, GetAgainStep
<1>7. ASSUME NEW i \in Instance, CallFails(i) PROVE StoreInv'
  BY <1>7, CallFailsStep
<1>8. CASE UNCHANGED storeVars
  BY <1>8 DEF StoreInv, StoreTypeOK, Located, Recorded, Kept, Overtaken, PutOnce,
              ConfigFromStore, StoreWins, EarlyEndsBlamed, Passed, storeVars
<1> QED
  BY <1>1, <1>2, <1>3, <1>4, <1>5, <1>6, <1>7, <1>8 DEF StoreNext

\* The invariant holds in every state of every number of checks.
THEOREM StoreInvariant == StoreSpec => []StoreInv
<1>1. ConfigAssumption /\ StoreInit => StoreInv
  BY StoreInitInv
<1>2. ConfigAssumption /\ StoreInv /\ [StoreNext]_storeVars => StoreInv'
  BY StoreStep
<1> QED
  BY <1>1, <1>2, ConfigAssumption, PTL DEF StoreSpec

\* However a check ends, the fields it passed hold values of the store and the
\* others are untouched.
THEOREM ConfigsFromStore == StoreSpec => []ConfigFromStore
<1>1. StoreInv => ConfigFromStore
  BY DEF StoreInv
<1> QED
  BY <1>1, StoreInvariant, PTL

\* Instances differ from the store only after an edit or two writers.
THEOREM StoreWinsAlways == StoreSpec => []StoreWins
<1>1. StoreInv => StoreWins
  BY DEF StoreInv
<1> QED
  BY <1>1, StoreInvariant, PTL

\* A check panics only over a key the operator deleted, and fails otherwise
\* only after a failed call or over a text that does not parse.
THEOREM EarlyEndsAreBlamed == StoreSpec => []EarlyEndsBlamed
<1>1. StoreInv => EarlyEndsBlamed
  BY DEF StoreInv
<1> QED
  BY <1>1, StoreInvariant, PTL
=============================================================================
