------------------------ MODULE DeviceCacheRest_proofs ------------------------
(***************************************************************************)
(* What the four maps of the caches say together: while newDeviceCache     *)
(* fills them, whenever the process rests, and after the last callback.    *)
(***************************************************************************)
EXTENDS DeviceCache_proofs

-----------------------------------------------------------------------------
(* Who is at work.                                                          *)

\* The handlers and the driver work only in a process that serves, newDevice-
\* Cache only in one that is loading.  A process that is down caches nothing.
Quiet ==
    /\ phase # "up" => \A g \in Goroutine : pc[g] = "idle"
    /\ phase # "loading" => pc[Main] = "idle" /\ boot = {}
    /\ phase = "down" => \A n \in Name : devices[n] = Nil

\* Core Metadata keeps names apart.
Apart == \A i, j \in Id :
    meta[i] # Nil /\ meta[j] # Nil /\ meta[i].name = meta[j].name => i = j

-----------------------------------------------------------------------------
(* While newDeviceCache is loading.                                         *)

\* The steps of Add for a device that has its id and is not cached.
LoadLabels == {"Add", "AddressableForName", "AddAddressable", "AddProfile",
               "PutObjects", "PutCommands", "PutDescriptors", "PutDevice",
               "PutName"}

\* The device in the hands of Add is in the maps as far as Add has come, and
\* its profile did not break the descriptors.
Stocked(g) ==
    /\ pc[g] \in {"PutCommands", "PutDescriptors", "PutDevice", "PutName"} =>
         objects[dev[g].name] = dev[g].profile
    /\ pc[g] \in {"PutDescriptors", "PutDevice", "PutName"} =>
         commands[dev[g].name] = dev[g].profile
    /\ pc[g] = "PutName" => devices[dev[g].name] = dev[g]
    /\ pc[g] \in {"PutDevice", "PutName"} => dev[g].profile \notin Broken

\* Add is handed one device of the list after the other, and runs the short
\* way: no device of the list is cached before its turn, and no addressable is
\* created after an error.
OneByOne ==
    /\ boot \subseteq listed
    /\ \A d, e \in listed : d.id = e.id \/ d.name = e.name => d = e
    /\ pc[Main] # "idle" =>
         /\ pc[Main] \in LoadLabels
         /\ dev[Main] \in listed \ boot
    /\ pc[Main] = "AddAddressable" =>
         ~NotFoundError /\ (Faults \/ dev[Main].addr \notin addrs)
    /\ \A n \in Name : devices[n] # Nil =>
         /\ devices[n].name = n
         /\ devices[n] \in listed \ boot
         /\ pc[Main] \in LoadLabels \ {"PutName"} => devices[n] # dev[Main]

Loading == phase = "loading" => OneByOne

LoadInv == Quiet /\ Apart /\ Loading /\ Stocked(Main) /\ LoadedCached

-----------------------------------------------------------------------------
(* When the operations on one device do not overlap.                        *)

\* Unless Update renames a device an id keeps the name it was issued for.
OneName == \A i \in Id, m, n \in Name :
    <<i, m>> \in held /\ <<i, n>> \in held => m = n

\* From the deletes to the store the name of the device in hand is not cached.
Cleared(g) ==
    pc[g] \in {"AddressableForName", "AddAddressable", "DeviceForName",
               "AddToMetadata", "UpdateOpState", "AddProfile", "PutObjects",
               "PutCommands", "PutDescriptors", "PutDevice"} =>
      devices[dev[g].name] = Nil

\* The device in hand is in the maps as far as Add has come, and as long as
\* Update has not dropped it; its admin state may change meanwhile.
Filled(g) ==
    /\ pc[g] \in {"PutCommands", "PutDescriptors", "PutDevice", "PutName",
                  "UpdateInMetadata", "DelOldDevice"} =>
         objects[dev[g].name] = dev[g].profile
    /\ pc[g] \in {"PutDescriptors", "PutDevice", "PutName",
                  "UpdateInMetadata", "DelOldDevice"} =>
         commands[dev[g].name] = dev[g].profile
    /\ pc[g] \in {"PutName", "UpdateInMetadata", "DelOldDevice"} =>
         /\ devices[dev[g].name] # Nil
         /\ devices[dev[g].name].id = dev[g].id
         /\ devices[dev[g].name].profile = dev[g].profile
    /\ pc[g] \in {"UpdateInMetadata", "DelOldDevice"} =>
         names[dev[g].id] = dev[g].name

Coherent == \A n \in Name : devices[n] # Nil =>
    Cached(n) \/ \E g \in Proc : Halfway(g, n)

MapsInv == Coherent /\ \A g \in Proc : Cleared(g) /\ Filled(g)
OrderlyInv == Orderly /\ OneName /\ MapsInv

-----------------------------------------------------------------------------
(* When operations run one at a time.                                       *)

\* There is one goroutine beside Main, and Update is not called.
Serial == (\A g, h \in Goroutine : g = h) /\ "Update" \notin Ops

Alone == \A g, h \in Proc : pc[g] # "idle" /\ pc[h] # "idle" => g = h
NoUpdate == \A g \in Proc : pc[g] \notin {"UpdateInMetadata", "DelOldDevice"}

SerialInv == Quiet /\ Alone /\ NoUpdate

-----------------------------------------------------------------------------
(* When callbacks are handled in turn, no call fails, and nobody adds or       *)
(* renames a device.                                                        *)

Calm == ~Faults /\ Ops \cap {"Add", "Update"} = {}

RemoveLabels == {"DelObjects", "DelCommands", "DelName", "DelDevice"}

\* Add runs in newDeviceCache only, and Remove for a device that is gone from
\* Core Metadata.
NoAdd == \A g \in Goroutine :
    /\ pc[g] \in {"idle", "panicked", "DeleteInMetadata", "FindName",
                  "FetchDevice", "SetAdmin"} \cup RemoveLabels
    /\ pc[g] \in {"DeleteInMetadata"} \cup RemoveLabels => op[g] = "Remove"
    /\ pc[g] \in RemoveLabels => dev[g].id \in Id /\ meta[dev[g].id] = Nil

\* Nothing is created or renamed.
SeedHeld == held = {<<d.id, d.name>> : d \in Seed}

\* A device Core Metadata still has is found by its id.
Found == \A n \in Name : devices[n] # Nil =>
    \/ names[devices[n].id] = n
    \/ meta[devices[n].id] = Nil
    \/ pc[Main] = "PutName" /\ dev[Main] = devices[n]

Current(d) == meta[d.id] # Nil /\ d.id \notin untold => d.admin = meta[d.id].admin

\* A callback on its way will see the admin state Core Metadata has now.
Underway(i) == \E g \in Proc :
    Handles(g, i) /\ (pc[g] = "SetAdmin" => alert[g].admin = meta[i].admin)

Told ==
    /\ \A d \in boot : Current(d)
    /\ pc[Main] \in LoadLabels => Current(dev[Main])
    /\ \A n \in Name : devices[n] # Nil =>
         \/ Current(devices[n])
         \/ alerts[devices[n].id] > 0
         \/ Underway(devices[n].id)

\* The name a callback found is that of its id, and when the admin state it
\* fetched has changed since, another callback has been sent.
Aimed == \A g \in Proc :
    LET i == alert[g].id IN
      /\ pc[g] \in {"FetchDevice", "SetAdmin"} => <<i, alert[g].name>> \in held
      /\ pc[g] = "SetAdmin" /\ meta[i] # Nil =>
           alert[g].admin = meta[i].admin \/ alerts[i] > 0

CalmInv == NoAdd /\ SeedHeld /\ Found /\ Told /\ Aimed

-----------------------------------------------------------------------------
(* Steps.                                                                   *)

\* A step of Add changes the locals of its goroutine only, who was at work,
\* and nothing of the process but the devices that were skipped.
LEMMA AddStepIsOwn ==
    ASSUME NEW g \in Proc, AddStep(g)
    PROVE  /\ pc[g] # "idle"
           /\ \E l : pc' = [pc EXCEPT ![g] = l]
           /\ UNCHANGED <<phase, boot, listed, notice>>
<1> USE DEF Return, Continue, Goto, Done, Fail, process, locals
<1>1. CASE Add(g) \/ DelObjects(g) \/ DelCommands(g) \/ DelName(g)
  BY <1>1 DEF Add, DelObjects, DelCommands, DelName
<1>2. CASE DelDevice(g) \/ AddressableForName(g) \/ AddAddressable(g)
  BY <1>2 DEF DelDevice, AddressableForName, AddAddressable
<1>3. CASE DeviceForName(g)
  BY <1>3 DEF DeviceForName
<1>4. CASE AddToMetadata(g)
  BY <1>4 DEF AddToMetadata
<1>5. CASE UpdateOpState(g) \/ AddProfile(g) \/ PutObjects(g) \/ PutCommands(g)
  BY <1>5 DEF UpdateOpState, AddProfile, PutObjects, PutCommands
<1>6. CASE PutDescriptors(g) \/ PutDevice(g) \/ PutName(g)
  BY <1>6 DEF PutDescriptors, PutDevice, PutName
<1> QED
  BY <1>1, <1>2, <1>3, <1>4, <1>5, <1>6 DEF AddStep

\* So does a step of Remove, Update or UpdateAdminState.
LEMMA HandlerStepIsOwn ==
    ASSUME NEW g \in Proc, HandlerStep(g)
    PROVE  /\ pc[g] # "idle"
           /\ \E l : pc' = [pc EXCEPT ![g] = l]
           /\ UNCHANGED <<process, notice>>
<1> USE DEF Return, Continue, Goto, Done, process, locals
<1>1. CASE DeleteInMetadata(g) \/ UpdateInMetadata(g) \/ DelOldDevice(g)
  BY <1>1 DEF DeleteInMetadata, UpdateInMetadata, DelOldDevice
<1>2. CASE FindName(g) \/ FetchDevice(g)
  BY <1>2 DEF FindName, FetchDevice
<1>3. CASE SetAdmin(g) \/ Recover(g)
  BY <1>3 DEF SetAdmin, Recover
<1> QED
  BY <1>1, <1>2, <1>3 DEF HandlerStep

\* An operation begins on a goroutine beside Main that was idle, and a panic
\* ends one, in a process that serves; neither touches the caches.
LEMMA BeginIsOwn ==
    ASSUME NEW g \in Goroutine, Begin(g) \/ DescriptorPanic(g)
    PROVE  /\ Begin(g) => phase = "up" /\ pc[g] = "idle"
           /\ DescriptorPanic(g) => pc[g] # "idle"
           /\ \E l : pc' = [pc EXCEPT ![g] = l]
           /\ UNCHANGED <<process, store, cache, untold>>
<1> USE DEF Call, Goto, process, notice
<1>1. CASE AddDevice(g) \/ RemoveDevice(g) \/ UpdateDevice(g)
  BY <1>1 DEF AddDevice, RemoveDevice, UpdateDevice, Start, DescriptorPanic,
         CannotDescribe
<1>2. CASE Callback(g)
  BY <1>2 DEF Callback, DescriptorPanic, CannotDescribe
<1>3. CASE DescriptorPanic(g) /\ ~Begin(g)
  BY <1>3 DEF DescriptorPanic, CannotDescribe, Return
<1> QED
  BY <1>1, <1>2, <1>3 DEF Begin

-----------------------------------------------------------------------------
(* Who is at work.                                                          *)

LEMMA QuietKeeps == ASSUME TypeInv, Quiet, [Next]_vars PROVE Quiet'
<1> USE CacheAssumption DEF Quiet, Proc
<1>0. pc \in [Proc -> Labels] /\ Main \in Proc
  BY DEF TypeInv, TypeOK, LocalsOK
<1>1. ASSUME NEW g \in Proc, Step(g) PROVE Quiet'
  <2>1. /\ pc[g] # "idle" /\ \E l : pc' = [pc EXCEPT ![g] = l]
        /\ UNCHANGED <<phase, boot>>
    BY <1>1, AddStepIsOwn, HandlerStepIsOwn DEF Step, process
  <2> QED
    BY <1>0, <2>1
<1>2. ASSUME NEW g \in Goroutine, Begin(g) \/ DescriptorPanic(g) PROVE Quiet'
  BY <1>0, <1>2, BeginIsOwn DEF process, cache
<1>3. CASE BootStep
  BY <1>0, <1>3 DEF BootStep, Boot, LoadNext, Serve, Call, Goto, cache
<1>4. CASE OtherStep
  BY <1>4 DEF OtherStep, ChangeAdmin, Delete, cache, process
<1>5. CASE CrashStep
  BY <1>5 DEF CrashStep, Killed, RaceAbort, Crash, DescriptorCrash, Lose, Idle, Empty
<1>6. CASE Rest \/ UNCHANGED vars
  BY <1>6 DEF Rest, vars, cache, process
<1> QED
  BY <1>1, <1>2, <1>3, <1>4, <1>5, <1>6 DEF Next, CalmStep

\* The steps that reach the devices of Core Metadata keep their names apart.
LEMMA ApartKeeps == ASSUME TypeInv, Apart, [Next]_vars PROVE Apart'
<1> USE DEF Apart
<1>1. ASSUME NEW g \in Proc, AddStep(g) PROVE Apart'
  <2>1. CASE DeviceForName(g) \/ AddToMetadata(g)
    <3>1. CASE UNCHANGED meta
      BY <3>1
    <3>2. ASSUME NEW i \in Id, Create(dev[g], i) PROVE Apart'
      BY <3>2 DEF Create, NameTaken, Stored, TypeInv, TypeOK, StoreOK
    <3> QED
      BY <2>1, <3>1, <3>2 DEF DeviceForName, AddToMetadata, store
  <2>2. CASE UpdateOpState(g)
    BY <2>2 DEF UpdateOpState, TypeInv, TypeOK, StoreOK, KnownDevice, Device
  <2>3. CASE ~UpdateOpState(g) /\ ~DeviceForName(g) /\ ~AddToMetadata(g)
    <3>1. UNCHANGED meta
      BY <1>1, <2>3 DEF AddStep, Add, DelObjects, DelCommands, DelName,
           DelDevice, AddressableForName, AddAddressable, AddProfile,
           PutObjects, PutCommands, PutDescriptors, PutDevice, PutName, store
    <3> QED
      BY <3>1
  <2> QED
    BY <2>1, <2>2, <2>3
<1>2. ASSUME NEW g \in Proc, HandlerStep(g) PROVE Apart'
  <2>1. CASE UpdateInMetadata(g)
    <3>1. CASE UNCHANGED meta
      BY <3>1
    <3>2. CASE /\ Accepts(dev[g])
               /\ meta' = [meta EXCEPT ![dev[g].id] = dev[g]]
      BY <3>2 DEF Accepts, Stored, TypeInv, TypeOK, StoreOK
    <3> QED
      BY <2>1, <3>1, <3>2 DEF UpdateInMetadata
  <2>2. CASE DeleteInMetadata(g)
    BY <2>2 DEF DeleteInMetadata, TypeInv, TypeOK, StoreOK
  <2>3. CASE ~UpdateInMetadata(g) /\ ~DeleteInMetadata(g)
    <3>1. UNCHANGED meta
      BY <1>2, <2>3 DEF HandlerStep, DelOldDevice, FindName, FetchDevice,
           SetAdmin, Recover, store
    <3> QED
      BY <3>1
  <2> QED
    BY <2>1, <2>2, <2>3
<1>3. ASSUME NEW g \in Goroutine, Begin(g) \/ DescriptorPanic(g) PROVE Apart'
  BY <1>3, BeginIsOwn DEF store
<1>4. CASE BootStep
  BY <1>4 DEF BootStep, Boot, LoadNext, Serve, store
<1>5. CASE OtherStep
  BY <1>5 DEF OtherStep, ChangeAdmin, Delete, TypeInv, TypeOK, StoreOK,
       KnownDevice, Device
<1>6. CASE CrashStep
  BY <1>6 DEF CrashStep, Killed, RaceAbort, Crash, DescriptorCrash, Lose, store
<1>7. CASE Rest \/ UNCHANGED vars
  BY <1>7 DEF Rest, vars, store
<1> QED
  BY <1>1, <1>2, <1>3, <1>4, <1>5, <1>6, <1>7 DEF Next, CalmStep, Step

-----------------------------------------------------------------------------
(* The list newDeviceCache works through.                                   *)

\* In the boot the device in hand has its id, and is not cached up to the last
\* store.
LEMMA InHand ==
    ASSUME TypeInv, LoadInv, pc[Main] # "idle"
    PROVE  /\ phase = "loading" /\ OneByOne
           /\ dev[Main] \in KnownDevice /\ dev[Main] \in listed \ boot
           /\ pc[Main] \in LoadLabels
           /\ pc[Main] # "PutName" => devices[dev[Main].name] = Nil
<1>1. phase = "loading" /\ OneByOne
  BY DEF LoadInv, Quiet, Loading
<1>2. /\ dev[Main] \in listed \ boot /\ pc[Main] \in LoadLabels
      /\ dev[Main] \in KnownDevice
  BY <1>1 DEF OneByOne, TypeInv, TypeOK, ProcessOK
<1>3. pc[Main] # "PutName" => devices[dev[Main].name] = Nil
  <2>1. dev[Main].name \in Name
    BY <1>2 DEF KnownDevice, Device
  <2> QED
    BY <1>1, <1>2, <2>1 DEF OneByOne
<1> QED
  BY <1>1, <1>2, <1>3

\* Each step of Add in the boot keeps the account of the list.
LEMMA LoadStepKeeps ==
    ASSUME TypeInv, LoadInv, AddStep(Main)
    PROVE  OneByOne' /\ Stocked(Main)' /\ LoadedCached'
<1> DEFINE d == dev[Main]
<1>1. /\ pc[Main] # "idle" /\ UNCHANGED <<phase, boot, listed>>
  BY AddStepIsOwn DEF Proc
<1>2. /\ phase = "loading" /\ OneByOne /\ d \in KnownDevice
      /\ d \in listed \ boot /\ pc[Main] \in LoadLabels
      /\ pc[Main] # "PutName" => devices[d.name] = Nil
  BY <1>1, InHand
<1>3. /\ d.id \in Id /\ d.id # Nil /\ d.name \in Name /\ d.profile \in Profile
      /\ d.profile # Nil /\ d # Nil
  BY <1>2, CacheAssumption DEF KnownDevice, Device
<1>4. /\ pc \in [Proc -> Labels] /\ Main \in Proc
      /\ devices \in [Name -> KnownDevice \cup {Nil}]
      /\ names \in [Id \cup {Nil} -> Name \cup {Nil}]
      /\ objects \in [Name -> Profile \cup {Nil}]
      /\ commands \in [Name -> Profile \cup {Nil}]
      /\ dev \in [Proc -> Device \cup {Nil}]
      /\ listed \subseteq KnownDevice
  BY DEF TypeInv, TypeOK, LocalsOK, CacheOK, ProcessOK, Proc
<1>5. Stocked(Main) /\ LoadedCached
  BY DEF LoadInv
<1> USE <1>1, <1>2, <1>3, <1>4, <1>5
<1> USE DEF Return, Continue, Goto, Done, Fail, locals, process, LoadLabels
<1>6. ASSUME UNCHANGED <<cache, addrs, dev, process>>,
             NEW l \in LoadLabels \ {"PutName"}, pc' = [pc EXCEPT ![Main] = l],
             pc[Main] # "PutName",
             l = "AddAddressable" => ~NotFoundError /\ d.addr \notin addrs,
             Stocked(Main)'
      PROVE  OneByOne' /\ LoadedCached'
  <2> USE <1>6 DEF cache
  <2>1. OneByOne'
    BY DEF OneByOne
  <2>2. LoadedCached'
    BY DEF LoadedCached, Cached, Excused
  <2> QED
    BY <2>1, <2>2
<1>7. ASSUME UNCHANGED <<cache>>, Fail(Main),
             UNCHANGED addrs \/ ~NotFoundError, Excused(d)
      PROVE  OneByOne' /\ Stocked(Main)' /\ LoadedCached'
  <2> USE <1>7 DEF cache
  <2>1. OneByOne'
    BY DEF OneByOne
  <2>2. LoadedCached'
    BY DEF LoadedCached, Cached, Excused
  <2>3. Stocked(Main)'
    BY DEF Stocked
  <2> QED
    BY <2>1, <2>2, <2>3
<1>8. CASE Add(Main)
  <2>1. pc' = [pc EXCEPT ![Main] = "AddressableForName"]
    BY <1>8 DEF Add
  <2>2. Stocked(Main)'
    BY <2>1 DEF Stocked
  <2> QED
    BY <1>6, <1>8, <2>1, <2>2 DEF Add, store
<1>9. CASE AddressableForName(Main)
  <2>1. CASE pc' = [pc EXCEPT ![Main] = "AddProfile"] /\ UNCHANGED <<dev, process>>
    <3>1. Stocked(Main)'
      BY <2>1 DEF Stocked
    <3> QED
      BY <1>6, <1>9, <2>1, <3>1 DEF AddressableForName, store
  <2>2. CASE /\ pc' = [pc EXCEPT ![Main] = "AddAddressable"]
             /\ ~NotFoundError /\ d.addr \notin addrs
             /\ UNCHANGED <<dev, process>>
    <3>1. Stocked(Main)'
      BY <2>2 DEF Stocked
    <3> QED
      BY <1>6, <1>9, <2>2, <3>1 DEF AddressableForName, store
  <2>3. CASE LookupFails(Main) /\ Fail(Main)
    <3>1. Excused(d)
      BY <2>3 DEF LookupFails, Excused
    <3> QED
      BY <1>7, <1>9, <2>3, <3>1 DEF AddressableForName, store
  <2> QED
    BY <1>9, <2>1, <2>2, <2>3 DEF AddressableForName, WithAddressable
<1>10. CASE AddAddressable(Main)
  <2>1. CASE pc' = [pc EXCEPT ![Main] = "AddProfile"] /\ UNCHANGED <<dev, process>>
    <3>1. Stocked(Main)'
      BY <2>1 DEF Stocked
    <3>2. OneByOne'
      BY <1>10, <2>1 DEF AddAddressable, OneByOne, cache
    <3>3. LoadedCached'
      BY <1>10, <2>1
      DEF AddAddressable, LoadedCached, Cached, Excused, OneByOne, cache
    <3> QED
      BY <3>1, <3>2, <3>3
  <2>2. CASE Fail(Main)
    <3>1. ~NotFoundError /\ Excused(d)
      BY <1>10, <2>2 DEF AddAddressable, OneByOne, WithAddressable, Excused
    <3> QED
      BY <1>7, <1>10, <2>2, <3>1 DEF AddAddressable, store
  <2> QED
    BY <1>10, <2>1, <2>2 DEF AddAddressable, WithAddressable
<1>11. CASE AddProfile(Main)
  <2>1. CASE d.profile = EmptyProfile
    BY <1>7, <1>11, <2>1 DEF AddProfile, store, Excused
  <2>2. CASE d.profile # EmptyProfile
    <3>1. pc' = [pc EXCEPT ![Main] = "PutObjects"] /\ UNCHANGED <<dev, process>>
      BY <1>11, <2>2 DEF AddProfile
    <3>2. Stocked(Main)'
      BY <3>1 DEF Stocked
    <3> QED
      BY <1>6, <1>11, <3>1, <3>2 DEF AddProfile, store
  <2> QED
    BY <2>1, <2>2
<1>12. CASE PutObjects(Main)
  <2> USE <1>12 DEF PutObjects
  <2>1. OneByOne'
    BY DEF OneByOne, store
  <2>2. Stocked(Main)'
    BY DEF Stocked
  <2>3. LoadedCached'
    BY DEF LoadedCached, Cached, Excused, OneByOne, store
  <2> QED
    BY <2>1, <2>2, <2>3
<1>13. CASE PutCommands(Main)
  <2> USE <1>13 DEF PutCommands
  <2>1. OneByOne'
    BY DEF OneByOne, store
  <2>2. Stocked(Main)'
    BY DEF Stocked
  <2>3. LoadedCached'
    BY DEF LoadedCached, Cached, Excused, OneByOne, store
  <2> QED
    BY <2>1, <2>2, <2>3
<1>14. CASE PutDescriptors(Main)
  <2>1. Stocked(Main)'
    BY <1>14 DEF PutDescriptors, Stocked, cache
  <2> QED
    BY <1>6, <1>14, <2>1 DEF PutDescriptors, store
<1>15. CASE PutDevice(Main)
  <2> USE <1>15 DEF PutDevice
  <2>1. OneByOne'
    BY DEF OneByOne, store
  <2>2. Stocked(Main)'
    BY DEF Stocked
  <2>3. LoadedCached'
    BY DEF LoadedCached, Cached, Excused, OneByOne, store
  <2> QED
    BY <2>1, <2>2, <2>3
<1>16. CASE PutName(Main)
  <2> USE <1>16 DEF PutName
  <2>1. OneByOne'
    BY DEF OneByOne, store
  <2>2. Stocked(Main)'
    BY DEF Stocked
  <2>3. LoadedCached'
    BY DEF LoadedCached, Cached, Excused, OneByOne, store, Stocked
  <2> QED
    BY <2>1, <2>2, <2>3
<1> QED
  BY <1>8, <1>9, <1>10, <1>11, <1>12, <1>13, <1>14, <1>15, <1>16
  DEF AddStep, DelObjects, DelCommands, DelName, DelDevice, DeviceForName,
      AddToMetadata, UpdateOpState

\* The list is asked for by an empty cache, its devices are taken one by one.
LEMMA BootStepKeeps ==
    ASSUME TypeInv, LoadInv, BootStep
    PROVE  Loading' /\ Stocked(Main)' /\ LoadedCached'
<1>1. /\ pc \in [Proc -> Labels] /\ Main \in Proc
      /\ dev \in [Proc -> Device \cup {Nil}]
      /\ \A i \in Id : meta[i] # Nil => meta[i].id = i
  BY DEF TypeInv, TypeOK, LocalsOK, StoreOK, Proc
<1>2. Stocked(Main) /\ LoadedCached /\ Quiet /\ Apart /\ Loading
  BY DEF LoadInv
<1>3. CASE Boot
  <2>1. pc[Main] = "idle" /\ pc' = pc
    BY <1>2, <1>3 DEF Boot, Quiet
  <2>2. listed' = boot' /\ boot' \subseteq Stored /\ devices' = devices
    BY <1>3 DEF Boot, cache
  <2>3. \A d, e \in Stored : d.id = e.id \/ d.name = e.name => d = e
    BY <1>1, <1>2 DEF Stored, Apart
  <2>4. \A n \in Name : devices[n] = Nil
    BY <1>2, <1>3 DEF Boot, Quiet
  <2>5. OneByOne'
    BY <2>1, <2>2, <2>3, <2>4 DEF OneByOne
  <2>6. LoadedCached'
    BY <2>2 DEF LoadedCached
  <2> QED
    BY <2>1, <2>5, <2>6 DEF Loading, Stocked
<1>4. CASE LoadNext
  <2>1. PICK d \in boot : /\ boot' = boot \ {d}
                          /\ Call(Main, "Add", d, Nil, "Add")
    BY <1>4 DEF LoadNext
  <2>2. /\ pc[Main] = "idle" /\ phase = "loading"
        /\ UNCHANGED <<phase, listed, skipped, store, cache>>
    BY <1>4 DEF LoadNext
  <2>3. pc'[Main] = "Add" /\ dev'[Main] = d
    BY <1>1, <2>1 DEF Call, Goto
  <2>4. OneByOne'
    BY <1>2, <2>1, <2>2, <2>3 DEF Loading, OneByOne, LoadLabels, cache, store
  <2>5. LoadedCached'
    BY <1>2, <2>1, <2>2, <2>3 DEF LoadedCached, Cached, Excused, cache, store
  <2> QED
    BY <2>3, <2>4, <2>5 DEF Loading, Stocked
<1>5. CASE Serve
  BY <1>2, <1>5 DEF Serve, Loading, LoadedCached, Stocked, cache
<1> QED
  BY <1>3, <1>4, <1>5 DEF BootStep

\* Nobody else reaches the caches while the list is worked through.
LEMMA OthersKeepLoading ==
    ASSUME TypeInv, LoadInv, phase' = phase, UNCHANGED <<boot, listed, skipped>>,
           UNCHANGED <<cache, addrs, pc[Main], dev[Main]>> \/ phase = "up"
    PROVE  Loading' /\ LoadedCached'
BY DEF LoadInv, Loading, LoadedCached, OneByOne, Cached, Excused, cache

LEMMA LoadKeeps == TypeInv /\ LoadInv /\ [Next]_vars => LoadInv'
<1> SUFFICES ASSUME TypeInv, LoadInv, [Next]_vars PROVE LoadInv'
  OBVIOUS
<1>1. Quiet' /\ Apart'
  BY QuietKeeps, ApartKeeps DEF LoadInv
<1>2. /\ pc \in [Proc -> Labels] /\ dev \in [Proc -> Device \cup {Nil}]
      /\ Main \in Proc /\ Main \notin Goroutine
  BY CacheAssumption DEF TypeInv, TypeOK, LocalsOK, Proc
<1>3. Quiet /\ Stocked(Main)
  BY DEF LoadInv
<1> SUFFICES Loading' /\ Stocked(Main)' /\ LoadedCached'
  BY <1>1 DEF LoadInv
<1>4. ASSUME pc'[Main] = "idle" PROVE Stocked(Main)'
  BY <1>4 DEF Stocked
<1>5. ASSUME AddStep(Main) PROVE Loading' /\ Stocked(Main)' /\ LoadedCached'
  BY <1>5, LoadStepKeeps DEF Loading
<1>6. ASSUME HandlerStep(Main) PROVE FALSE
  <2>1. pc[Main] \in LoadLabels
    BY <1>2, <1>6, HandlerStepIsOwn, InHand
  <2> QED
    BY <1>6, <2>1 DEF HandlerStep, DeleteInMetadata, UpdateInMetadata,
         DelOldDevice, FindName, FetchDevice, SetAdmin, Recover, LoadLabels
<1>7. ASSUME NEW g \in Goroutine, Step(g) \/ Begin(g) \/ DescriptorPanic(g)
      PROVE  Loading' /\ Stocked(Main)' /\ LoadedCached'
  <2>1. /\ phase = "up" \/ pc[g] # "idle"
        /\ \E l : pc' = [pc EXCEPT ![g] = l]
        /\ UNCHANGED <<phase, boot, listed>>
    BY <1>2, <1>7, AddStepIsOwn, HandlerStepIsOwn, BeginIsOwn
    DEF Step, Proc, process
  <2>2. phase = "up" /\ phase' = "up" /\ pc'[Main] = "idle"
    BY <1>2, <1>3, <2>1 DEF Quiet
  <2> QED
    BY <1>4, <2>2 DEF Loading, LoadedCached
<1>8. CASE BootStep
  BY <1>8, BootStepKeeps
<1>9. CASE OtherStep
  <2>1. UNCHANGED <<process, cache, addrs, pc, dev>>
    BY <1>9 DEF OtherStep, ChangeAdmin, Delete, locals
  <2>2. Loading' /\ LoadedCached'
    BY <2>1, OthersKeepLoading DEF process
  <2> QED
    BY <1>3, <2>1, <2>2 DEF Stocked, cache
<1>10. CASE CrashStep
  <2>1. pc'[Main] = "idle" /\ phase' = "down"
    BY <1>2, <1>10 DEF CrashStep, Killed, RaceAbort, Crash, DescriptorCrash, Lose, Idle
  <2> QED
    BY <1>4, <2>1 DEF Loading, LoadedCached
<1>11. CASE Rest \/ UNCHANGED vars
  <2>1. UNCHANGED <<process, cache, addrs, pc, dev>>
    BY <1>11 DEF Rest, vars, locals, store
  <2>2. Loading' /\ LoadedCached'
    BY <2>1, OthersKeepLoading DEF process
  <2> QED
    BY <1>3, <2>1, <2>2 DEF Stocked, cache
<1> QED
  BY <1>5, <1>6, <1>7, <1>8, <1>9, <1>10, <1>11 DEF Next, CalmStep, Step, Proc

LEMMA LoadInit == Init => LoadInv
<1> SUFFICES ASSUME Init PROVE LoadInv
  OBVIOUS
<1>1. \A i \in Id : meta[i] # Nil => meta[i] \in Seed /\ meta[i].id = i
  BY CacheAssumption DEF Init
<1>2. Main \in Proc
  BY DEF Proc
<1>3. Quiet
  BY <1>2 DEF Init, Quiet, Idle, Empty, Proc
<1>4. Apart
  BY <1>1, CacheAssumption DEF Apart
<1> QED
  BY <1>2, <1>3, <1>4 DEF Init, LoadInv, Loading, Stocked, LoadedCached, Idle

\* newDeviceCache accounts for every device it was given, for every list of
\* devices, whichever calls fail, whatever other services do meanwhile, and
\* however often the process crashes: the goroutines that could disturb it wait
\* until it is done, and the devices of the list do not get in each other's way.
THEOREM BootAccounts == Spec => []LoadedCached
<1>1. Spec => []TypeInv
  BY InitType, NextKeepsType, PTL DEF Spec
<1>2. Spec => []LoadInv
  BY <1>1, LoadInit, LoadKeeps, PTL DEF Spec
<1>3. LoadInv => LoadedCached
  BY DEF LoadInv
<1> QED
  BY <1>2, <1>3, PTL

\* Nothing the boot does creates an addressable when the client reports what it
\* does not find as an error, whichever other calls fail: every device of the
\* list has an id, so the error ends its Add.
THEOREM BootCreatesNone == Spec => BootFixesNothing
<1>1. Spec => []TypeInv
  BY InitType, NextKeepsType, PTL DEF Spec
<1>2. Spec => []LoadInv
  BY <1>1, LoadInit, LoadKeeps, PTL DEF Spec
<1>3. TypeInv /\ LoadInv /\ [Next]_vars =>
        [NotFoundError /\ phase = "loading" => addrs' = addrs]_vars
  <2> SUFFICES ASSUME TypeInv, LoadInv, [Next]_vars, NotFoundError,
                      phase = "loading"
               PROVE  addrs' = addrs
    OBVIOUS
  <2>1. /\ \A g \in Goroutine : pc[g] = "idle"
        /\ pc[Main] # "AddAddressable"
    BY DEF LoadInv, Quiet, Loading, OneByOne
  <2>2. \A g \in Proc : pc[g] # "AddAddressable"
    BY <2>1 DEF Proc
  <2>3. ASSUME NEW g \in Proc, Step(g) PROVE addrs' = addrs
    BY <2>2, <2>3
    DEF Step, AddStep, HandlerStep, Add, DelObjects, DelCommands, DelName,
        DelDevice, AddressableForName, AddAddressable, DeviceForName,
        AddToMetadata, UpdateOpState, AddProfile, PutObjects, PutCommands,
        PutDescriptors, PutDevice, PutName, DeleteInMetadata,
        UpdateInMetadata, DelOldDevice, FindName, FetchDevice, SetAdmin,
        Recover, store
  <2>4. ASSUME NEW g \in Goroutine, Begin(g) \/ DescriptorPanic(g)
        PROVE  addrs' = addrs
    BY <2>4, BeginIsOwn DEF store
  <2>5. CASE BootStep \/ OtherStep
    BY <2>5 DEF BootStep, Boot, LoadNext, Serve, OtherStep, ChangeAdmin, Delete,
         store
  <2>6. CASE CrashStep
    BY <2>6, CrashLoses DEF Lose, store
  <2>7. CASE Rest \/ UNCHANGED vars
    BY <2>7 DEF Rest, vars, store
  <2> QED
    BY <2>3, <2>4, <2>5, <2>6, <2>7 DEF Next, CalmStep
<1> QED
  BY <1>1, <1>2, <1>3, PTL DEF Spec, BootFixesNothing

-----------------------------------------------------------------------------
(* Operations on one device that do not overlap.                            *)

\* An update that keeps the name stores a pair Core Metadata had stored.
LEMMA OneNameKeeps ==
    ASSUME TypeInv, Orderly, OneName, [Next]_vars
    PROVE  OneName'
<1> USE DEF OneName
<1>1. ASSUME NEW g \in Proc, AddStep(g) PROVE OneName'
  <2>1. CASE AddToMetadata(g)
    <3>1. ASSUME NEW i \in Id, Create(dev[g], i) PROVE OneName'
      BY <3>1 DEF Create, Fresh
    <3> QED
      BY <2>1, <3>1 DEF AddToMetadata
  <2>2. CASE ~AddToMetadata(g)
    <3>1. UNCHANGED held
      BY <1>1, <2>2 DEF AddStep, Add, DelObjects, DelCommands, DelName,
           DelDevice, AddressableForName, AddAddressable, DeviceForName,
           UpdateOpState, AddProfile, PutObjects, PutCommands, PutDescriptors,
           PutDevice, PutName, store
    <3> QED
      BY <3>1
  <2> QED
    BY <2>1, <2>2
<1>2. ASSUME NEW g \in Proc, HandlerStep(g) PROVE OneName'
  <2>1. held' \subseteq held
    BY <1>2 DEF HandlerStep, DeleteInMetadata, UpdateInMetadata, DelOldDevice,
         FindName, FetchDevice, SetAdmin, Recover, store, Orderly
  <2> QED
    BY <2>1
<1>3. ASSUME NEW g \in Goroutine, Begin(g) \/ DescriptorPanic(g) PROVE OneName'
  BY <1>3, BeginIsOwn DEF store
<1>4. CASE BootStep \/ OtherStep
  BY <1>4 DEF BootStep, Boot, LoadNext, Serve, OtherStep, ChangeAdmin, Delete,
       store
<1>5. CASE CrashStep
  BY <1>5 DEF CrashStep, Killed, RaceAbort, Crash, DescriptorCrash, Lose, store
<1>6. CASE Rest \/ UNCHANGED vars
  BY <1>6 DEF Rest, vars, store
<1> QED
  BY <1>1, <1>2, <1>3, <1>4, <1>5, <1>6 DEF Next, CalmStep, Step

\* What the proofs below use of the types.
LEMMA MapsTyped ==
    ASSUME IdentityInv, OrderlyInv
    PROVE  /\ TypeInv /\ OneName /\ MapsInv
           /\ pc \in [Proc -> Labels] /\ dev \in [Proc -> Device \cup {Nil}]
           /\ devices \in [Name -> KnownDevice \cup {Nil}]
           /\ names \in [Id \cup {Nil} -> Name \cup {Nil}]
           /\ objects \in [Name -> Profile \cup {Nil}]
           /\ commands \in [Name -> Profile \cup {Nil}]
           /\ \A g \in Proc : pc[g] \in DevLabels =>
                /\ dev[g] \in Device /\ dev[g].id \in Id \cup {Nil}
                /\ dev[g].name \in Name /\ dev[g].profile \in Profile
           /\ \A g \in Proc : pc[g] \in IdLabels => dev[g].id \in Id
           /\ \A n \in Name : devices[n] # Nil =>
                /\ devices[n].id \in Id /\ devices[n].name = n
                /\ <<devices[n].id, n>> \in held
<1>1. TypeInv /\ KnownIdentity /\ OneName /\ MapsInv
  BY DEF IdentityInv, OrderlyInv
<1>2. /\ pc \in [Proc -> Labels] /\ dev \in [Proc -> Device \cup {Nil}]
      /\ devices \in [Name -> KnownDevice \cup {Nil}]
      /\ names \in [Id \cup {Nil} -> Name \cup {Nil}]
      /\ objects \in [Name -> Profile \cup {Nil}]
      /\ commands \in [Name -> Profile \cup {Nil}]
  BY <1>1 DEF TypeInv, TypeOK, LocalsOK, CacheOK
<1>3. \A g \in Proc : pc[g] \in DevLabels =>
        /\ dev[g] \in Device /\ dev[g].id \in Id \cup {Nil}
        /\ dev[g].name \in Name /\ dev[g].profile \in Profile
  BY <1>1 DEF TypeInv, Ready, Device
<1>4. \A g \in Proc : pc[g] \in IdLabels => dev[g].id \in Id
  BY <1>1, CacheAssumption DEF TypeInv, Ready, KnownDevice, Device
<1>5. \A n \in Name : devices[n] # Nil =>
        /\ devices[n].id \in Id /\ devices[n].name = n
        /\ <<devices[n].id, n>> \in held
  BY <1>1, <1>2, CacheAssumption DEF KnownIdentity, KnownDevice, Device
<1> QED
  BY <1>1, <1>2, <1>3, <1>4, <1>5

\* A device cached under another name than that of the device in hand has
\* another id.
LEMMA OtherName ==
    ASSUME IdentityInv, OrderlyInv, NEW g \in Proc, pc[g] \in DevLabels,
           NEW n \in Name, devices[n] # Nil, n # dev[g].name
    PROVE  devices[n].id # dev[g].id
<1>1. /\ devices[n].id \in Id /\ dev[g].name \in Name /\ OneName
      /\ <<devices[n].id, n>> \in held
  BY MapsTyped
<1>2. dev[g].id # Nil => <<dev[g].id, dev[g].name>> \in held
  BY DEF IdentityInv, Vouched, OrderlyInv, Orderly
<1> QED
  BY <1>1, <1>2, CacheAssumption DEF OneName

\* Two goroutines with two devices have devices of different names, and of
\* different ids once they know them.
LEMMA OtherDevice ==
    ASSUME IdentityInv, OrderlyInv, NEW g \in Proc, NEW h \in Proc, g # h,
           pc[g] \in DevLabels, pc[h] \in DevLabels
    PROVE  /\ dev[g].name # dev[h].name
           /\ pc[h] \in IdLabels => dev[g].id # dev[h].id
<1>1. /\ dev[g].name \in Name /\ dev[h].name \in Name /\ OneName
      /\ pc[h] \in IdLabels => dev[h].id \in Id
  BY MapsTyped
<1>2. dev[g].name # dev[h].name
  BY <1>1 DEF OrderlyInv, Orderly, WorksOn
<1>3. /\ dev[g].id # Nil => <<dev[g].id, dev[g].name>> \in held
      /\ dev[h].id # Nil => <<dev[h].id, dev[h].name>> \in held
  BY DEF IdentityInv, Vouched, OrderlyInv, Orderly
<1> QED
  BY <1>1, <1>2, <1>3, CacheAssumption DEF OneName

\* The account of the maps about the device in hand is the goroutine's own.
LEMMA OwnName ==
    ASSUME IdentityInv, OrderlyInv, NEW g \in Proc, pc[g] \in DevLabels,
           devices[dev[g].name] # Nil
    PROVE  Cached(dev[g].name) \/ Halfway(g, dev[g].name)
<1>1. dev[g].name \in Name /\ Coherent
  BY MapsTyped DEF MapsInv
<1>2. \A h \in Proc : Halfway(h, dev[g].name) => h = g
  BY <1>1 DEF OrderlyInv, Orderly, WorksOn, Halfway, Halves, DevLabels,
     AddrLabels, IdLabels
<1> QED
  BY <1>1, <1>2 DEF Coherent

\* A step that leaves every device where it is, of a goroutine that is not
\* between two deletes or two stores.
LEMMA StillStep ==
    ASSUME IdentityInv, OrderlyInv, NEW g \in Proc, pc[g] \notin Halves,
           UNCHANGED <<names, objects, commands>>,
           \A n \in Name : devices'[n] = Nil <=> devices[n] = Nil,
           \A n \in Name : devices[n] # Nil =>
             /\ devices'[n].id = devices[n].id
             /\ devices'[n].profile = devices[n].profile,
           \A h \in Proc \ {g} : pc'[h] = pc[h] /\ dev'[h] = dev[h],
           Cleared(g)', Filled(g)'
    PROVE  MapsInv'
<1>1. Coherent'
  <2> SUFFICES ASSUME NEW n \in Name, devices'[n] # Nil
               PROVE  Cached(n)' \/ \E h \in Proc : Halfway(h, n)'
    BY DEF Coherent
  <2>1. Cached(n) => Cached(n)'
    BY DEF Cached
  <2>2. \A h \in Proc : Halfway(h, n) => Halfway(h, n)'
    BY DEF Halfway
  <2> QED
    BY <2>1, <2>2 DEF OrderlyInv, MapsInv, Coherent
<1>2. ASSUME NEW h \in Proc \ {g} PROVE Cleared(h)' /\ Filled(h)'
  <2>1. Cleared(h) /\ Filled(h) /\ (pc[h] \in DevLabels => dev[h].name \in Name)
    BY MapsTyped DEF MapsInv
  <2>2. pc'[h] = pc[h] /\ dev'[h] = dev[h]
    OBVIOUS
  <2>3. Cleared(h)'
    BY <2>1, <2>2 DEF Cleared, DevLabels, AddrLabels, IdLabels
  <2>4. Filled(h)'
    BY <2>1, <2>2 DEF Filled, DevLabels, AddrLabels, IdLabels
  <2> QED
    BY <2>3, <2>4
<1> QED
  BY <1>1, <1>2 DEF MapsInv

\* A step that changes the maps for the device in hand only: what the others
\* need of the maps is about their own devices.
LEMMA OwnStep ==
    ASSUME IdentityInv, OrderlyInv, NEW g \in Proc, pc[g] \in DevLabels,
           \A n \in Name \ {dev[g].name} :
             /\ devices'[n] = devices[n]
             /\ objects'[n] = objects[n] /\ commands'[n] = commands[n],
           \A i \in Id \ {dev[g].id} : names'[i] = names[i],
           \A h \in Proc \ {g} : pc'[h] = pc[h] /\ dev'[h] = dev[h],
           Cleared(g)', Filled(g)',
           \A n \in Name : n = dev[g].name /\ devices'[n] # Nil =>
             Cached(n)' \/ Halfway(g, n)'
    PROVE  MapsInv'
<1>1. Coherent'
  <2>1. ASSUME NEW n \in Name, devices'[n] # Nil, n # dev[g].name
        PROVE  Cached(n)' \/ \E h \in Proc : Halfway(h, n)'
    <3>1. devices[n] # Nil /\ devices[n].id # dev[g].id /\ devices[n].id \in Id
      BY <2>1, OtherName, MapsTyped
    <3>2. Cached(n) => Cached(n)'
      BY <2>1, <3>1 DEF Cached
    <3>3. \A h \in Proc : Halfway(h, n) => Halfway(h, n)'
      BY <2>1 DEF Halfway
    <3> QED
      BY <3>1, <3>2, <3>3 DEF OrderlyInv, MapsInv, Coherent
  <2> QED
    BY <2>1 DEF Coherent
<1>2. ASSUME NEW h \in Proc \ {g} PROVE Cleared(h)' /\ Filled(h)'
  <2>1. Cleared(h) /\ Filled(h) /\ pc'[h] = pc[h] /\ dev'[h] = dev[h]
    BY MapsTyped DEF MapsInv
  <2>2. pc[h] \in DevLabels => dev[h].name \in Name \ {dev[g].name}
    BY MapsTyped, OtherDevice
  <2>3. pc[h] \in IdLabels => dev[h].id \in Id \ {dev[g].id}
    BY MapsTyped, OtherDevice DEF DevLabels, AddrLabels
  <2>4. Cleared(h)'
    BY <2>1, <2>2 DEF Cleared, DevLabels, AddrLabels, IdLabels
  <2>5. Filled(h)'
    BY <2>1, <2>2, <2>3 DEF Filled, DevLabels, AddrLabels, IdLabels
  <2> QED
    BY <2>4, <2>5
<1> QED
  BY <1>1, <1>2 DEF MapsInv

LEMMA AddStepKeepsMaps ==
    ASSUME IdentityInv, OrderlyInv, NEW g \in Proc, AddStep(g)
    PROVE  MapsInv'
<1> DEFINE d == dev[g]
<1>1. Cleared(g) /\ Filled(g)
  BY DEF OrderlyInv, MapsInv
<1>2. pc[g] \in DevLabels /\ \E l : pc' = [pc EXCEPT ![g] = l]
  BY AddStepIsOwn DEF AddStep, Add, DelObjects, DelCommands, DelName, DelDevice,
     AddressableForName, AddAddressable, DeviceForName, AddToMetadata,
     UpdateOpState, AddProfile, PutObjects, PutCommands, PutDescriptors,
     PutDevice, PutName, DevLabels, AddrLabels, IdLabels
<1>3. /\ pc \in [Proc -> Labels] /\ dev \in [Proc -> Device \cup {Nil}]
      /\ devices \in [Name -> KnownDevice \cup {Nil}]
      /\ names \in [Id \cup {Nil} -> Name \cup {Nil}]
      /\ objects \in [Name -> Profile \cup {Nil}]
      /\ commands \in [Name -> Profile \cup {Nil}]
  BY MapsTyped
<1>4. /\ d \in Device /\ d.id \in Id \cup {Nil} /\ d.name \in Name
      /\ pc[g] \in IdLabels => d.id \in Id
  BY <1>2, MapsTyped
<1>5. devices[d.name] # Nil => Cached(d.name) \/ Halfway(g, d.name)
  BY <1>2, OwnName
<1> USE DEF Return, Continue, Goto, Done, Fail, locals
<1>6. \A h \in Proc \ {g} : pc'[h] = pc[h] /\ dev'[h] = dev[h]
  BY <1>2, <1>3 DEF AddStep, Add, DelObjects, DelCommands, DelName, DelDevice,
     AddressableForName, AddAddressable, DeviceForName, AddToMetadata,
     UpdateOpState, AddProfile, PutObjects, PutCommands, PutDescriptors,
     PutDevice, PutName
<1>7. CASE Add(g) \/ PutDescriptors(g)
  <2>1. Cleared(g)' /\ Filled(g)'
    BY <1>1, <1>3, <1>7 DEF Add, PutDescriptors, Cleared, Filled, cache
  <2> QED
    BY <1>6, <1>7, <2>1, StillStep DEF Add, PutDescriptors, Halves, cache
<1>8. CASE \/ AddressableForName(g) \/ AddAddressable(g) \/ DeviceForName(g)
           \/ AddToMetadata(g) \/ UpdateOpState(g) \/ AddProfile(g)
  <2> USE DEF AddressableForName, AddAddressable, DeviceForName, AddToMetadata,
              UpdateOpState, AddProfile, WithAddressable
  <2>1. devices[d.name] = Nil /\ UNCHANGED cache /\ pc[g] \notin Halves
    BY <1>1, <1>8 DEF Cleared, Halves
  <2>2. pc'[g] = "idle" \/ dev'[g].name = d.name
    BY <1>3, <1>4, <1>8 DEF Device
  <2>3. pc'[g] \in {"idle", "AddAddressable", "DeviceForName", "AddToMetadata",
                    "UpdateOpState", "AddProfile", "PutObjects"}
    BY <1>3, <1>8
  <2>4. Cleared(g)' /\ Filled(g)'
    BY <2>1, <2>2, <2>3 DEF Cleared, Filled, cache
  <2> QED
    BY <1>6, <2>1, <2>4, StillStep DEF cache
<1>9. CASE DelObjects(g)
  BY <1>3, <1>4, <1>6, <1>2, <1>9, OwnStep DEF DelObjects, Cleared, Filled, Halfway, Halves
<1>10. CASE DelCommands(g)
  BY <1>3, <1>4, <1>6, <1>2, <1>10, OwnStep DEF DelCommands, Cleared, Filled, Halfway, Halves
<1>11. CASE DelName(g)
  BY <1>3, <1>4, <1>6, <1>2, <1>11, OwnStep DEF DelName, Cleared, Filled, Halfway, Halves
<1>12. CASE DelDevice(g)
  BY <1>3, <1>4, <1>6, <1>2, <1>12, OwnStep DEF DelDevice, Cleared, Filled
<1>13. CASE PutObjects(g)
  BY <1>1, <1>3, <1>4, <1>6, <1>2, <1>13, OwnStep DEF PutObjects, Cleared, Filled
<1>14. CASE PutCommands(g)
  BY <1>1, <1>3, <1>4, <1>6, <1>2, <1>14, OwnStep DEF PutCommands, Cleared, Filled
<1>15. CASE PutDevice(g)
  <2>1. d # Nil /\ d.id \in Id
    BY <1>4, <1>15, CacheAssumption DEF PutDevice, IdLabels
  <2> QED
    BY <1>1, <1>3, <1>4, <1>6, <1>2, <1>15, <2>1, OwnStep
    DEF PutDevice, Cleared, Filled, Halfway, Halves
<1>16. CASE PutName(g)
  <2>1. d.id \in Id
    BY <1>4, <1>16 DEF PutName, IdLabels
  <2>2. ASSUME NEW n \in Name, n = d.name PROVE Cached(n)'
    BY <1>1, <1>3, <1>4, <1>16, <2>1, <2>2 DEF PutName, Filled, Cached
  <2>3. Cleared(g)' /\ Filled(g)'
    BY <1>3, <1>16 DEF PutName, Cleared, Filled
  <2> QED
    BY <1>3, <1>4, <1>6, <1>2, <1>16, <2>1, <2>2, <2>3, OwnStep DEF PutName
<1> QED
  BY <1>7, <1>8, <1>9, <1>10, <1>11, <1>12, <1>13, <1>14, <1>15, <1>16 DEF AddStep

\* UpdateAdminState writes through the maps, Remove and Update ask Core Metadata
\* first, and Update finds the device where it will store it.
LEMMA HandlerStepKeepsMaps ==
    ASSUME IdentityInv, OrderlyInv, NEW g \in Proc, HandlerStep(g)
    PROVE  MapsInv'
<1>1. Cleared(g) /\ Filled(g)
  BY DEF OrderlyInv, MapsInv
<1>2. /\ pc \in [Proc -> Labels] /\ dev \in [Proc -> Device \cup {Nil}]
      /\ devices \in [Name -> KnownDevice \cup {Nil}]
      /\ names \in [Id \cup {Nil} -> Name \cup {Nil}]
  BY MapsTyped
<1> USE DEF DeleteInMetadata, UpdateInMetadata, DelOldDevice, FindName,
            FetchDevice, SetAdmin, Recover, Return, Continue, Goto, Done, locals
<1>3. \A h \in Proc \ {g} : pc'[h] = pc[h] /\ dev'[h] = dev[h]
  BY <1>2 DEF HandlerStep
<1>4. CASE DeleteInMetadata(g) \/ FindName(g) \/ FetchDevice(g) \/ Recover(g)
  <2>1. /\ pc'[g] \in {"idle", "DelObjects", "FetchDevice", "SetAdmin"}
        /\ UNCHANGED cache /\ pc[g] \notin Halves
    BY <1>2, <1>4 DEF Halves
  <2>2. Cleared(g)' /\ Filled(g)'
    BY <2>1 DEF Cleared, Filled
  <2> QED
    BY <1>3, <2>1, <2>2, StillStep DEF cache
<1>5. CASE SetAdmin(g)
  <2>1. Cleared(g)' /\ Filled(g)' /\ pc[g] \notin Halves
    BY <1>2, <1>5 DEF Cleared, Filled, Halves
  <2>2. /\ UNCHANGED <<names, objects, commands>>
        /\ \A n \in Name : /\ devices'[n] = Nil <=> devices[n] = Nil
                           /\ devices[n] # Nil =>
                                /\ devices'[n].id = devices[n].id
                                /\ devices'[n].profile = devices[n].profile
    <3>1. CASE UNCHANGED devices
      BY <1>5, <3>1
    <3>2. CASE /\ devices[alert[g].name] # Nil
               /\ devices' = [devices EXCEPT ![alert[g].name].admin = alert[g].admin]
      <4>1. ASSUME NEW e \in KnownDevice
            PROVE  /\ [e EXCEPT !.admin = alert[g].admin] # Nil
                   /\ [e EXCEPT !.admin = alert[g].admin].id = e.id
                   /\ [e EXCEPT !.admin = alert[g].admin].profile = e.profile
        <5>1. alert[g].admin \in AdminState
          BY <1>5, MapsTyped DEF TypeInv, Ready
        <5> QED
          BY <5>1, CacheAssumption DEF KnownDevice, Device
      <4> QED
        BY <1>2, <1>5, <3>2, <4>1
    <3> QED
      BY <1>5, <3>1, <3>2
  <2> QED
    BY <1>3, <2>1, <2>2, StillStep
<1>6. CASE UpdateInMetadata(g)
  <2>1. /\ pc'[g] = "idle" \/ (pc'[g] = "DelOldDevice" /\ dev'[g] = dev[g])
        /\ UNCHANGED cache /\ pc[g] = "UpdateInMetadata"
    BY <1>2, <1>6
  <2>2. Cleared(g)' /\ Filled(g)'
    BY <1>1, <2>1 DEF Cleared, Filled, cache
  <2> QED
    BY <1>3, <2>1, <2>2, StillStep DEF cache, Halves
<1>7. CASE DelOldDevice(g)
  <2>1. /\ pc[g] \in IdLabels /\ pc[g] \in DevLabels
        /\ pc'[g] = "PutDevice" /\ dev' = dev
        /\ UNCHANGED <<names, objects, commands>>
    BY <1>2, <1>7 DEF IdLabels, AddrLabels, DevLabels
  <2>2. names[dev[g].id] = dev[g].name /\ dev[g].name \in Name
    BY <1>1, <1>7, <2>1, MapsTyped DEF Filled
  <2>3. devices' = [devices EXCEPT ![dev[g].name] = Nil]
    BY <1>7, <2>2, CacheAssumption
  <2>4. Cleared(g)' /\ Filled(g)'
    BY <1>1, <1>2, <1>7, <2>1, <2>2, <2>3 DEF Cleared, Filled
  <2> QED
    BY <1>2, <1>3, <2>1, <2>2, <2>3, <2>4, OwnStep
<1> QED
  BY <1>4, <1>5, <1>6, <1>7 DEF HandlerStep

\* An operation begins where no other works; Update, with a device that is
\* cached whole.
LEMMA BeginKeepsMaps ==
    ASSUME IdentityInv, OrderlyInv, Orderly', NEW g \in Goroutine, Begin(g)
    PROVE  MapsInv'
<1>1. /\ pc[g] = "idle" /\ g \in Proc /\ UNCHANGED <<store, cache>>
      /\ pc \in [Proc -> Labels] /\ dev \in [Proc -> Device \cup {Nil}]
  BY BeginIsOwn, MapsTyped DEF Proc
<1>2. /\ \E l \in {"Add", "DeleteInMetadata", "UpdateInMetadata", "FindName"} :
           pc' = [pc EXCEPT ![g] = l]
      /\ \E d : dev' = [dev EXCEPT ![g] = d]
  BY DEF Begin, AddDevice, RemoveDevice, UpdateDevice, Callback, Start, Call, Goto
<1>3. \A h \in Proc \ {g} : pc'[h] = pc[h] /\ dev'[h] = dev[h]
  BY <1>1, <1>2
<1>4. Cleared(g)'
  BY <1>1, <1>2 DEF Cleared
<1>5. Filled(g)'
  <2>1. CASE pc'[g] # "UpdateInMetadata"
    BY <1>1, <1>2, <2>1 DEF Filled
  <2>2. CASE pc'[g] = "UpdateInMetadata"
    <3>1. UpdateDevice(g)
      BY <1>1, <2>2 DEF Begin, AddDevice, RemoveDevice, UpdateDevice, Callback,
         Start, Call, Goto
    <3>2. PICK n \in Name, new \in Name, a \in AdminState :
            /\ devices[n] # Nil
            /\ dev' = [dev EXCEPT ![g] = [devices[n] EXCEPT !.name = new, !.admin = a]]
      BY <3>1 DEF UpdateDevice, Start, Call
    <3>3. /\ devices[n] \in KnownDevice /\ devices[n].id \in Id
          /\ <<devices[n].id, n>> \in held /\ OneName
      BY <3>2, MapsTyped
    <3>4. /\ dev'[g].id = devices[n].id /\ dev'[g].name = new
          /\ dev'[g].profile = devices[n].profile
      BY <1>1, <3>2, <3>3 DEF KnownDevice, Device
    <3>5. new = n
      <4>1. <<devices[n].id, new>> \in held
        BY <1>1, <2>2, <3>4 DEF Orderly, store
      <4> QED
        BY <3>3, <4>1 DEF OneName
    <3>6. Cached(n)
      <4>1. ASSUME NEW h \in Proc, Halfway(h, n) PROVE FALSE
        <5>1. h # g /\ WorksOn(h, n)'
          BY <1>1, <1>3, <4>1 DEF Halfway, Halves, WorksOn, DevLabels, AddrLabels,
             IdLabels
        <5>2. WorksOn(g, n)'
          BY <2>2, <3>4, <3>5 DEF WorksOn, DevLabels, AddrLabels, IdLabels
        <5> QED
          BY <1>1, <5>1, <5>2 DEF Orderly
      <4> QED
        BY <3>2, <4>1 DEF OrderlyInv, MapsInv, Coherent
    <3> QED
      BY <1>1, <2>2, <3>2, <3>4, <3>5, <3>6 DEF Filled, Cached, cache
  <2> QED
    BY <2>1, <2>2
<1> QED
  BY <1>1, <1>3, <1>4, <1>5, StillStep DEF Halves, cache

LEMMA NextKeepsMaps ==
    ASSUME IdentityInv, OrderlyInv, [Next]_vars, Orderly'
    PROVE  MapsInv'
<1>1. pc \in [Proc -> Labels] /\ dev \in [Proc -> Device \cup {Nil}]
  BY MapsTyped
<1>2. ASSUME NEW g \in Proc, Step(g) PROVE MapsInv'
  BY <1>2, AddStepKeepsMaps, HandlerStepKeepsMaps DEF Step
<1>3. ASSUME NEW g \in Goroutine, Begin(g) PROVE MapsInv'
  BY <1>3, BeginKeepsMaps
<1>4. ASSUME NEW g \in Goroutine, DescriptorPanic(g) PROVE MapsInv'
  <2>1. /\ pc[g] = "PutDescriptors" /\ pc' = [pc EXCEPT ![g] = "panicked"]
        /\ UNCHANGED cache /\ g \in Proc /\ dev' = [dev EXCEPT ![g] = Nil]
    BY <1>4 DEF DescriptorPanic, CannotDescribe, Return, Goto, Proc
  <2>2. Cleared(g)' /\ Filled(g)'
    BY <1>1, <2>1 DEF Cleared, Filled
  <2> QED
    BY <1>1, <2>1, <2>2, StillStep DEF Halves, cache
<1>5. CASE LoadNext
  <2>1. /\ pc[Main] = "idle" /\ UNCHANGED cache /\ Main \in Proc
        /\ pc' = [pc EXCEPT ![Main] = "Add"]
        /\ \E d : dev' = [dev EXCEPT ![Main] = d]
    BY <1>5 DEF LoadNext, Call, Goto, Proc
  <2>2. Cleared(Main)' /\ Filled(Main)'
    BY <1>1, <2>1 DEF Cleared, Filled
  <2> QED
    BY <1>1, <2>1, <2>2, StillStep DEF Halves, cache
<1>6. CASE Boot \/ Serve \/ OtherStep \/ Rest \/ UNCHANGED vars
  <2>1. UNCHANGED <<pc, cache, dev>>
    BY <1>6 DEF Boot, Serve, OtherStep, ChangeAdmin, Delete, Rest, vars, locals
  <2> QED
    BY <2>1 DEF OrderlyInv, MapsInv, Coherent, Cached, Halfway, Cleared, Filled, cache
<1>7. CASE CrashStep
  <2>1. devices' = Empty(Name) /\ pc' = Idle("idle")
    BY <1>7 DEF CrashStep, Killed, RaceAbort, Crash, DescriptorCrash, Lose
  <2> QED
    BY <2>1 DEF MapsInv, Coherent, Cleared, Filled, Idle, Empty
<1> QED
  BY <1>2, <1>3, <1>4, <1>5, <1>6, <1>7 DEF Next, CalmStep, BootStep

LEMMA OrderlyInit == Init => OrderlyInv
<1> SUFFICES ASSUME Init PROVE OrderlyInv
  OBVIOUS
<1>1. OneName
  BY CacheAssumption DEF Init, OneName
<1>2. Orderly
  BY DEF Init, Orderly, WorksOn, Idle, DevLabels, AddrLabels, IdLabels
<1>3. MapsInv
  BY DEF Init, MapsInv, Coherent, Cleared, Filled, Idle, Empty
<1> QED
  BY <1>1, <1>2, <1>3 DEF OrderlyInv

LEMMA OrderlyKeeps ==
    IdentityInv /\ OrderlyInv /\ [Next]_vars /\ Orderly' => OrderlyInv'
<1> SUFFICES ASSUME IdentityInv, OrderlyInv, [Next]_vars, Orderly'
             PROVE  OrderlyInv'
  OBVIOUS
<1>1. OneName'
  BY OneNameKeeps DEF IdentityInv, OrderlyInv
<1>2. MapsInv'
  BY NextKeepsMaps
<1> QED
  BY <1>1, <1>2 DEF OrderlyInv

\* A goroutine halfway through a device works on it.
LEMMA OrderlyRests == OrderlyInv => CoherentAtRest
BY DEF OrderlyInv, MapsInv, Coherent, CoherentAtRest, Halfway, Halves, WorksOn,
   DevLabels, AddrLabels, IdLabels

\* As long as the callers keep the operations on one device apart and rename
\* none, a cached device on which nobody works is found by its id and owns the
\* tables of its profile, for any number of goroutines, devices and profiles,
\* whichever calls fail, however often the process crashes and whatever other
\* services do: no early return, no panic and no failed Add leaves the four
\* maps apart, and no operation disturbs them for another's device.
THEOREM OrderlyCoherent == OrderlySpec => []CoherentAtRest
<1>1. Orderly /\ [Next /\ Orderly']_vars => [Next]_vars /\ Orderly'
  BY DEF Orderly, WorksOn, vars, store, locals
<1>2. Init => IdentityInv /\ OrderlyInv
  BY InitIdentity, OrderlyInit
<1>3. IdentityInv /\ OrderlyInv /\ [Next /\ Orderly']_vars
        => IdentityInv' /\ OrderlyInv'
  BY <1>1, NextKeepsIdentity, OrderlyKeeps DEF OrderlyInv
<1>4. IdentityInv /\ OrderlyInv => CoherentAtRest
  BY OrderlyRests
<1> QED
  BY <1>2, <1>3, <1>4, PTL DEF OrderlySpec

-----------------------------------------------------------------------------
(* The four maps are a directory of whole devices.                          *)

\* An entry does not change with a step that leaves its device, its tables and
\* its id alone and takes no goroutine into or out of the middle of it.
LEMMA SameEntry ==
    ASSUME NEW n \in Name,
           devices'[n] = devices[n],
           objects'[n] = objects[n], commands'[n] = commands[n],
           devices[n] # Nil => names'[devices[n].id] = names[devices[n].id],
           \A h \in Proc : Halfway(h, n)' <=> Halfway(h, n)
    PROVE  Entry(n)' = Entry(n)
BY DEF Entry

\* A step that touches no map and no device in the middle of an access.
LEMMA StillEntries ==
    ASSUME UNCHANGED cache, NEW g \in Proc, pc[g] \notin Halves,
           pc'[g] \notin Halves,
           \A h \in Proc \ {g} : pc'[h] = pc[h] /\ dev'[h] = dev[h]
    PROVE  \A n \in Name : Entry(n)' = Entry(n)
<1> SUFFICES ASSUME NEW n \in Name PROVE Entry(n)' = Entry(n)
  OBVIOUS
<1>1. \A h \in Proc : Halfway(h, n)' <=> Halfway(h, n)
  BY DEF Halfway
<1> QED
  BY <1>1, SameEntry DEF cache

\* A step on the device in hand leaves the entries of the others alone.
LEMMA OwnEntry ==
    ASSUME IdentityInv, OrderlyInv, NEW g \in Proc, pc[g] \in DevLabels,
           \A n \in Name \ {dev[g].name} :
             /\ devices'[n] = devices[n]
             /\ objects'[n] = objects[n] /\ commands'[n] = commands[n],
           \A i \in Id \ {dev[g].id} : names'[i] = names[i],
           \A h \in Proc \ {g} : pc'[h] = pc[h] /\ dev'[h] = dev[h],
           pc'[g] \in Halves => dev'[g] = dev[g]
    PROVE  \A n \in Name \ {dev[g].name} : Entry(n)' = Entry(n)
<1> SUFFICES ASSUME NEW n \in Name \ {dev[g].name} PROVE Entry(n)' = Entry(n)
  OBVIOUS
<1>1. devices[n] # Nil => devices[n].id \in Id \ {dev[g].id}
  BY OtherName, MapsTyped
<1>2. \A h \in Proc : Halfway(h, n)' <=> Halfway(h, n)
  BY DEF Halfway
<1> QED
  BY <1>1, <1>2, SameEntry

DirVars == <<[n \in Name |-> Entry(n)], held>>

\* An entry that disappears, if it was there, is withdrawn.
LEMMA EntryLeaves ==
    ASSUME UNCHANGED held, NEW m \in Name, Entry(m)' = {},
           \A n \in Name \ {m} : Entry(n)' = Entry(n)
    PROVE  Directory!Withdraw(m)
BY DEF Directory!Withdraw

\* An entry that appears whole is entered.
LEMMA EntryEnters ==
    ASSUME UNCHANGED held, NEW m \in Name, Entry(m) = {},
           NEW d \in KnownDevice, d.name = m, <<d.id, m>> \in held,
           Entry(m)' = {[device |-> d, found |-> d.name,
                         objects |-> d.profile, commands |-> d.profile]},
           \A n \in Name \ {m} : Entry(n)' = Entry(n)
    PROVE  Directory!Enter(m)
BY DEF Directory!Enter, Directory!Whole

\* An entry that changes in its admin state only is changed in place.
LEMMA EntryAdmin ==
    ASSUME UNCHANGED held, NEW m \in Name, NEW e, NEW a \in AdminState,
           Entry(m) = {e}, Entry(m)' = {[e EXCEPT !.device.admin = a]},
           \A n \in Name \ {m} : Entry(n)' = Entry(n)
    PROVE  Directory!SetAdmin(m)
<1> DEFINE f == [e EXCEPT !.device.admin = a]
<1>1. e \in [n \in Name |-> Entry(n)][m]
  OBVIOUS
<1>2. [n \in Name |-> Entry(n)]' = [[n \in Name |-> Entry(n)] EXCEPT ![m] = {f}]
  <2> HIDE DEF f
  <2>1. Entry(m)' = {f}
    BY DEF f
  <2> QED
    BY <2>1
<1> QED
  BY <1>1, <1>2 DEF Directory!SetAdmin

\* Where no entry changes the directory does not.
LEMMA EntriesStay ==
    ASSUME UNCHANGED held, \A n \in Name : Entry(n)' = Entry(n)
    PROVE  UNCHANGED DirVars
BY DEF DirVars

\* Add takes an entry out with its first delete and puts one in with its last
\* store.
LEMMA AddStepDirects ==
    ASSUME IdentityInv, OrderlyInv, NEW g \in Proc, AddStep(g),
           NEW m \in Name, m = dev[g].name
    PROVE  [Directory!Next]_DirVars
<1>1. Cleared(g) /\ Filled(g)
  BY DEF OrderlyInv, MapsInv
<1>2. pc[g] \in DevLabels
  BY DEF AddStep, Add, DelObjects, DelCommands, DelName, DelDevice,
     AddressableForName, AddAddressable, DeviceForName, AddToMetadata,
     UpdateOpState, AddProfile, PutObjects, PutCommands, PutDescriptors,
     PutDevice, PutName, DevLabels, AddrLabels, IdLabels
<1>3. /\ pc \in [Proc -> Labels] /\ dev \in [Proc -> Device \cup {Nil}]
      /\ devices \in [Name -> KnownDevice \cup {Nil}]
      /\ names \in [Id \cup {Nil} -> Name \cup {Nil}]
      /\ objects \in [Name -> Profile \cup {Nil}]
      /\ commands \in [Name -> Profile \cup {Nil}]
  BY MapsTyped
<1>4. dev[g] \in Device /\ dev[g].id \in Id \cup {Nil}
  BY <1>2, MapsTyped
<1> USE DEF Return, Continue, Goto, Done, Fail, locals
<1>5. \A h \in Proc \ {g} : pc'[h] = pc[h] /\ dev'[h] = dev[h]
  BY <1>2, <1>3 DEF AddStep, Add, DelObjects, DelCommands, DelName, DelDevice,
     AddressableForName, AddAddressable, DeviceForName, AddToMetadata,
     UpdateOpState, AddProfile, PutObjects, PutCommands, PutDescriptors,
     PutDevice, PutName
<1>6. ASSUME UNCHANGED held, Entry(m)' = Entry(m) \/ Entry(m)' = {},
             \A n \in Name \ {m} : Entry(n)' = Entry(n)
      PROVE  [Directory!Next]_DirVars
  BY <1>6, EntriesStay, EntryLeaves DEF Directory!Next
<1>7. CASE AddToMetadata(g)
  <2>1. UNCHANGED cache /\ pc[g] \notin Halves /\ pc'[g] \notin Halves
    BY <1>3, <1>7 DEF AddToMetadata, Halves
  <2>2. \A n \in Name : Entry(n)' = Entry(n)
    BY <1>5, <2>1, StillEntries
  <2>3. CASE UNCHANGED held
    BY <2>2, <2>3, EntriesStay
  <2>4. ASSUME NEW i \in Id, Create(dev[g], i) PROVE Directory!Issue
    BY <2>2, <2>4 DEF Create, Fresh, Directory!Issue
  <2> QED
    BY <1>7, <2>3, <2>4 DEF AddToMetadata, Directory!Next
<1>8. CASE \/ Add(g) \/ PutDescriptors(g) \/ AddressableForName(g)
           \/ AddAddressable(g) \/ DeviceForName(g) \/ UpdateOpState(g)
           \/ AddProfile(g)
  <2> USE DEF Add, PutDescriptors, AddressableForName, AddAddressable,
              DeviceForName, UpdateOpState, AddProfile, WithAddressable
  <2>1. UNCHANGED cache /\ UNCHANGED held /\ pc[g] \notin Halves
    BY <1>8 DEF Halves, store
  <2>2. pc'[g] \notin Halves
    BY <1>3, <1>8 DEF Halves
  <2> QED
    BY <1>5, <2>1, <2>2, StillEntries, EntriesStay
<1>9. CASE DelObjects(g) \/ DelCommands(g) \/ DelName(g) \/ DelDevice(g)
  <2> USE DEF DelObjects, DelCommands, DelName, DelDevice
  <2>1. /\ UNCHANGED held
        /\ \A n \in Name \ {m} : /\ devices'[n] = devices[n]
                                 /\ objects'[n] = objects[n]
                                 /\ commands'[n] = commands[n]
        /\ \A i \in Id \ {dev[g].id} : names'[i] = names[i]
    BY <1>3, <1>9 DEF store
  <2>2. pc'[g] \in Halves => dev'[g] = dev[g]
    BY <1>3, <1>9 DEF Halves
  <2>3. \A n \in Name \ {m} : Entry(n)' = Entry(n)
    BY <1>2, <1>5, <2>1, <2>2, OwnEntry
  <2>4. Entry(m)' = {}
    <3>1. CASE DelDevice(g)
      BY <1>3, <3>1 DEF Entry
    <3>2. CASE ~DelDevice(g)
      <4>1. Halfway(g, m)'
        BY <1>3, <1>9, <3>2 DEF Halfway, Halves
      <4> QED
        BY <4>1 DEF Entry
    <3> QED
      BY <3>1, <3>2
  <2> QED
    BY <1>6, <2>1, <2>3, <2>4
<1>10. CASE PutObjects(g) \/ PutCommands(g) \/ PutDevice(g)
  <2> USE DEF PutObjects, PutCommands, PutDevice
  <2>1. /\ UNCHANGED held /\ UNCHANGED names
        /\ \A n \in Name \ {m} : /\ devices'[n] = devices[n]
                                 /\ objects'[n] = objects[n]
                                 /\ commands'[n] = commands[n]
    BY <1>3, <1>10 DEF store
  <2>2. dev'[g] = dev[g]
    BY <1>3, <1>10
  <2>3. \A n \in Name \ {m} : Entry(n)' = Entry(n)
    BY <1>2, <1>5, <2>1, <2>2, OwnEntry
  <2>4. Entry(m)' = {}
    <3>1. CASE PutDevice(g)
      <4>1. Halfway(g, m)'
        BY <1>3, <2>2, <3>1 DEF Halfway, Halves
      <4> QED
        BY <4>1 DEF Entry
    <3>2. CASE ~PutDevice(g)
      BY <1>1, <1>10, <3>2 DEF Entry, Cleared
    <3> QED
      BY <3>1, <3>2
  <2> QED
    BY <1>6, <2>1, <2>3, <2>4
<1>11. CASE PutName(g)
  <2>1. /\ UNCHANGED <<held, devices, objects, commands>>
        /\ \A i \in Id \ {dev[g].id} : names'[i] = names[i]
        /\ pc[g] = "PutName" /\ pc'[g] = "idle"
    BY <1>3, <1>11 DEF PutName, store
  <2>2. \A n \in Name \ {m} : Entry(n)' = Entry(n)
    BY <1>2, <1>5, <2>1, OwnEntry DEF Halves
  <2>3. Entry(m) = {}
    BY <2>1 DEF Entry, Halfway, Halves
  <2>4. /\ devices[m] \in KnownDevice /\ devices[m].name = m
        /\ <<devices[m].id, m>> \in held
        /\ objects[m] = devices[m].profile /\ commands[m] = devices[m].profile
        /\ devices[m].id = dev[g].id /\ devices[m] # Nil
    BY <1>1, <2>1, MapsTyped DEF Filled
  <2>5. names'[devices[m].id] = m
    BY <1>3, <1>4, <1>11, <2>4 DEF PutName
  <2>6. \A h \in Proc : ~Halfway(h, m)'
    <3>1. ASSUME NEW h \in Proc \ {g}, Halfway(h, m) PROVE FALSE
      BY <1>2, <3>1 DEF OrderlyInv, Orderly, WorksOn, Halfway, Halves, DevLabels,
         AddrLabels, IdLabels
    <3> QED
      BY <1>5, <2>1, <3>1 DEF Halfway, Halves
  <2>7. Entry(m)' = {[device |-> devices[m], found |-> devices[m].name,
                      objects |-> devices[m].profile,
                      commands |-> devices[m].profile]}
    BY <2>1, <2>4, <2>5, <2>6 DEF Entry
  <2>8. Directory!Enter(m)
    BY <2>1, <2>2, <2>3, <2>4, <2>7, EntryEnters
  <2> QED
    BY <2>8 DEF Directory!Next
<1> QED
  BY <1>7, <1>8, <1>9, <1>10, <1>11 DEF AddStep

\* Update takes the entry out before it puts the new one in; UpdateAdminState
\* changes one in place; what Core Metadata is asked for first changes none.
LEMMA HandlerStepDirects ==
    ASSUME IdentityInv, OrderlyInv, NEW g \in Proc, HandlerStep(g)
    PROVE  [Directory!Next]_DirVars
<1>1. Filled(g)
  BY DEF OrderlyInv, MapsInv
<1>2. /\ pc \in [Proc -> Labels] /\ dev \in [Proc -> Device \cup {Nil}]
      /\ devices \in [Name -> KnownDevice \cup {Nil}]
  BY MapsTyped
<1> USE DEF DeleteInMetadata, UpdateInMetadata, DelOldDevice, FindName,
            FetchDevice, SetAdmin, Recover, Return, Continue, Goto, Done, locals
<1>3. \A h \in Proc \ {g} : pc'[h] = pc[h] /\ dev'[h] = dev[h]
  BY <1>2 DEF HandlerStep
<1>4. UNCHANGED held
  <2>1. CASE UpdateInMetadata(g)
    BY <2>1 DEF OrderlyInv, Orderly
  <2>2. CASE ~UpdateInMetadata(g)
    BY <2>2 DEF HandlerStep, store
  <2> QED
    BY <2>1, <2>2
<1>5. CASE \/ DeleteInMetadata(g) \/ UpdateInMetadata(g) \/ FindName(g)
           \/ FetchDevice(g) \/ Recover(g)
  <2>1. UNCHANGED cache /\ pc[g] \notin Halves
    BY <1>5 DEF Halves
  <2>2. pc'[g] \notin Halves
    BY <1>2, <1>5 DEF Halves
  <2> QED
    BY <1>3, <1>4, <2>1, <2>2, StillEntries, EntriesStay
<1>6. CASE DelOldDevice(g)
  <2>1. /\ pc[g] \in DevLabels /\ pc'[g] = "PutDevice" /\ dev' = dev
        /\ UNCHANGED <<names, objects, commands>>
    BY <1>2, <1>6 DEF IdLabels, AddrLabels, DevLabels
  <2>2. PICK m \in Name : m = dev[g].name
    BY <2>1, MapsTyped
  <2>3. devices' = [devices EXCEPT ![m] = Nil]
    BY <1>1, <1>6, <2>2, CacheAssumption DEF Filled
  <2>4. \A n \in Name \ {m} : Entry(n)' = Entry(n)
    BY <1>2, <1>3, <2>1, <2>2, <2>3, OwnEntry
  <2>5. Entry(m)' = {}
    BY <1>2, <2>3 DEF Entry
  <2> QED
    BY <1>4, <2>4, <2>5, EntryLeaves DEF Directory!Next
<1>7. CASE SetAdmin(g)
  <2>1. /\ alert[g].name \in Name /\ alert[g].admin \in AdminState
        /\ pc[g] = "SetAdmin" /\ pc'[g] \in {"idle", "panicked"}
        /\ UNCHANGED <<names, objects, commands>>
    BY <1>2, <1>7, MapsTyped DEF TypeInv, Ready
  <2>2. \A h \in Proc, n \in Name : Halfway(h, n)' <=> Halfway(h, n)
    BY <1>3, <2>1 DEF Halfway, Halves
  <2>3. CASE UNCHANGED devices
    <3>1. \A n \in Name : Entry(n)' = Entry(n)
      BY <2>1, <2>2, <2>3, SameEntry
    <3> QED
      BY <1>4, <3>1, EntriesStay
  <2>4. CASE ~UNCHANGED devices
    <3>1. PICK m \in Name, a \in AdminState :
            devices[m] # Nil /\ devices' = [devices EXCEPT ![m].admin = a]
      BY <1>7, <2>1, <2>4
    <3>2. ASSUME NEW n \in Name \ {m} PROVE Entry(n)' = Entry(n)
      BY <1>2, <2>1, <2>2, <3>1, SameEntry
    <3>3. CASE Entry(m) = {}
      <4>1. \E h \in Proc : Halfway(h, m)
        BY <3>1, <3>3 DEF Entry
      <4>2. Entry(m)' = {}
        BY <2>2, <4>1 DEF Entry
      <4> QED
        BY <1>4, <3>2, <4>2, EntryLeaves DEF Directory!Next
    <3>4. CASE Entry(m) # {}
      <4> DEFINE e == [device |-> devices[m], found |-> names[devices[m].id],
                       objects |-> objects[m], commands |-> commands[m]]
      <4>1. Entry(m) = {e}
        BY <3>4 DEF Entry
      <4>2. Entry(m)' = {[e EXCEPT !.device.admin = a]}
        <5>1. /\ devices[m] \in KnownDevice
              /\ devices'[m] = [devices[m] EXCEPT !.admin = a]
          BY <1>2, <3>1
        <5>2. devices'[m] # Nil /\ devices'[m].id = devices[m].id
          BY <5>1, CacheAssumption DEF KnownDevice, Device
        <5>3. \A h \in Proc : ~Halfway(h, m)'
          BY <2>2, <3>4 DEF Entry
        <5>4. Entry(m)' = {[device |-> devices'[m], found |-> names[devices[m].id],
                            objects |-> objects[m], commands |-> commands[m]]}
          BY <2>1, <5>2, <5>3 DEF Entry
        <5> QED
          BY <5>1, <5>4
      <4>3. PICK f : f = e
        OBVIOUS
      <4>4. Directory!SetAdmin(m)
        BY <1>4, <3>2, <4>1, <4>2, <4>3, EntryAdmin
      <4> QED
        BY <4>4 DEF Directory!Next
    <3> QED
      BY <3>3, <3>4
  <2> QED
    BY <2>3, <2>4
<1> QED
  BY <1>5, <1>6, <1>7 DEF HandlerStep

LEMMA NextDirects ==
    ASSUME IdentityInv, OrderlyInv, [Next]_vars
    PROVE  [Directory!Next]_DirVars
<1>1. pc \in [Proc -> Labels] /\ dev \in [Proc -> Device \cup {Nil}]
  BY MapsTyped
<1>2. ASSUME NEW g \in Proc, Step(g) PROVE [Directory!Next]_DirVars
  <2>1. CASE AddStep(g)
    <3>1. pc[g] \in DevLabels
      BY <2>1 DEF AddStep, Add, DelObjects, DelCommands, DelName, DelDevice,
         AddressableForName, AddAddressable, DeviceForName, AddToMetadata,
         UpdateOpState, AddProfile, PutObjects, PutCommands, PutDescriptors,
         PutDevice, PutName, DevLabels, AddrLabels, IdLabels
    <3>2. PICK m \in Name : m = dev[g].name
      BY <3>1, MapsTyped
    <3> QED
      BY <2>1, <3>2, AddStepDirects
  <2>2. CASE HandlerStep(g)
    BY <2>2, HandlerStepDirects
  <2> QED
    BY <1>2, <2>1, <2>2 DEF Step
<1>3. ASSUME NEW g \in Proc, NEW l, l \notin Halves, pc' = [pc EXCEPT ![g] = l],
             pc[g] \notin Halves, NEW d, dev' = [dev EXCEPT ![g] = d],
             UNCHANGED <<cache, held>>
      PROVE  [Directory!Next]_DirVars
  BY <1>1, <1>3, StillEntries, EntriesStay
<1>4. ASSUME NEW g \in Goroutine, Begin(g) PROVE [Directory!Next]_DirVars
  <2>1. pc[g] = "idle" /\ g \in Proc /\ UNCHANGED <<cache, held>>
    BY <1>4, BeginIsOwn DEF Proc, store
  <2>2. \E l, d : /\ pc' = [pc EXCEPT ![g] = l] /\ dev' = [dev EXCEPT ![g] = d]
                  /\ l \in {"Add", "DeleteInMetadata", "UpdateInMetadata", "FindName"}
    BY <1>4 DEF Begin, AddDevice, RemoveDevice, UpdateDevice, Callback, Start,
       Call, Goto
  <2> QED
    BY <1>3, <2>1, <2>2 DEF Halves
<1>5. ASSUME NEW g \in Goroutine, DescriptorPanic(g) PROVE [Directory!Next]_DirVars
  <2>1. /\ pc[g] = "PutDescriptors" /\ pc' = [pc EXCEPT ![g] = "panicked"]
        /\ UNCHANGED <<cache, held>> /\ g \in Proc /\ dev' = [dev EXCEPT ![g] = Nil]
    BY <1>5 DEF DescriptorPanic, CannotDescribe, Return, Goto, Proc, store
  <2> QED
    BY <1>3, <2>1 DEF Halves
<1>6. CASE LoadNext
  <2>1. /\ pc[Main] = "idle" /\ UNCHANGED <<cache, held>> /\ Main \in Proc
        /\ pc' = [pc EXCEPT ![Main] = "Add"]
        /\ \E d : dev' = [dev EXCEPT ![Main] = d]
    BY <1>6 DEF LoadNext, Call, Goto, Proc, store
  <2> QED
    BY <1>3, <2>1 DEF Halves
<1>7. CASE Boot \/ Serve \/ OtherStep \/ Rest \/ UNCHANGED vars
  <2>1. UNCHANGED <<pc, cache, dev, held>>
    BY <1>7 DEF Boot, Serve, OtherStep, ChangeAdmin, Delete, Rest, vars, locals,
       store
  <2>2. \A n \in Name : Entry(n)' = Entry(n)
    BY <2>1 DEF Entry, Halfway, cache
  <2> QED
    BY <2>1, <2>2, EntriesStay
<1>8. CASE CrashStep
  <2>1. devices' = Empty(Name) /\ UNCHANGED held
    BY <1>8 DEF CrashStep, Killed, RaceAbort, Crash, DescriptorCrash, Lose, store
  <2>2. \A n \in Name : Entry(n)' = {}
    BY <2>1 DEF Entry, Empty
  <2>3. Directory!Clear
    BY <2>1, <2>2 DEF Directory!Clear
  <2> QED
    BY <2>3 DEF Directory!Next
<1> QED
  BY <1>2, <1>4, <1>5, <1>6, <1>7, <1>8 DEF Next, CalmStep, BootStep

\* The four maps and the goroutines that change them access by access implement
\* a directory of whole devices with one step for each change, as long as the
\* callers keep the operations on one device apart and rename none: for any
\* number of goroutines and devices, whichever calls fail and however often the
\* process crashes.
THEOREM OrderlyDirectory == OrderlySpec => ImplementsDirectory
<1>1. Orderly /\ [Next /\ Orderly']_vars => [Next]_vars /\ Orderly'
  BY DEF Orderly, WorksOn, vars, store, locals
<1>2. Init => IdentityInv /\ OrderlyInv
  BY InitIdentity, OrderlyInit
<1>3. IdentityInv /\ OrderlyInv /\ [Next /\ Orderly']_vars
        => IdentityInv' /\ OrderlyInv'
  BY <1>1, NextKeepsIdentity, OrderlyKeeps DEF OrderlyInv
<1>4. Init => Directory!Init
  <2> SUFFICES ASSUME Init PROVE Directory!Init
    OBVIOUS
  <2>1. \A n \in Name : Entry(n) = {}
    BY DEF Init, Entry, Empty
  <2>2. held \subseteq Id \X Name
    BY InitType DEF TypeInv, TypeOK, StoreOK
  <2>3. \A p, q \in held : p[1] = q[1] => p = q
    BY CacheAssumption DEF Init
  <2> QED
    BY <2>1, <2>2, <2>3 DEF Directory!Init, Directory!OneNameEach
<1>5. IdentityInv /\ OrderlyInv /\ [Next /\ Orderly']_vars
        => [Directory!Next]_<<[n \in Name |-> Entry(n)], held>>
  BY <1>1, NextDirects DEF OrderlyInv, DirVars
<1> QED
  BY <1>2, <1>3, <1>4, <1>5, PTL DEF OrderlySpec, ImplementsDirectory, Directory!Spec

-----------------------------------------------------------------------------
(* Operations that run one at a time.                                       *)

\* Update is not begun, so no goroutine is in it.
LEMMA NoUpdateKeeps ==
    ASSUME Serial, TypeInv, NoUpdate, [Next]_vars
    PROVE  NoUpdate'
<1> DEFINE Out(l) == l \notin {"UpdateInMetadata", "DelOldDevice"}
<1> USE DEF NoUpdate
<1>0. pc \in [Proc -> Labels]
  BY DEF TypeInv, TypeOK, LocalsOK
<1>1. ASSUME NEW g \in Proc, NEW l, pc' = [pc EXCEPT ![g] = l], Out(l)
      PROVE  NoUpdate'
  BY <1>0, <1>1
<1>2. ASSUME NEW g \in Proc, Step(g) PROVE NoUpdate'
  <2>1. CASE AddStep(g)
    <3>1. \E l : pc' = [pc EXCEPT ![g] = l] /\ Out(l)
      BY <2>1 DEF AddStep, Add, DelObjects, DelCommands, DelName, DelDevice,
           AddressableForName, AddAddressable, DeviceForName, AddToMetadata,
           UpdateOpState, AddProfile, PutObjects, PutCommands, PutDescriptors,
           PutDevice, PutName, WithAddressable, Return, Continue, Done, Fail,
           Goto
    <3> QED
      BY <1>1, <3>1
  <2>2. CASE HandlerStep(g)
    <3>1. pc[g] \notin {"UpdateInMetadata", "DelOldDevice"}
      OBVIOUS
    <3>2. \E l : pc' = [pc EXCEPT ![g] = l] /\ Out(l)
      BY <2>2, <3>1 DEF HandlerStep, DeleteInMetadata, UpdateInMetadata,
           DelOldDevice, FindName, FetchDevice, SetAdmin, Recover, Return,
           Continue, Done, Goto
    <3> QED
      BY <1>1, <3>2
  <2> QED
    BY <1>2, <2>1, <2>2 DEF Step
<1>3. ASSUME NEW g \in Goroutine, Begin(g) \/ DescriptorPanic(g) PROVE NoUpdate'
  <2>1. \E l : pc' = [pc EXCEPT ![g] = l] /\ Out(l)
    BY ZenonT(60), <1>3 DEF Serial, Begin, AddDevice, RemoveDevice, UpdateDevice, Callback,
         DescriptorPanic, Start, Call, Return, Goto
  <2> QED
    BY <1>1, <2>1 DEF Proc
<1>4. CASE BootStep
  BY <1>1, <1>4 DEF BootStep, Boot, LoadNext, Serve, Call, Goto, Proc
<1>5. CASE OtherStep
  BY <1>5 DEF OtherStep, ChangeAdmin, Delete
<1>6. CASE CrashStep
  BY <1>6 DEF CrashStep, Killed, RaceAbort, Crash, DescriptorCrash, Lose, Idle
<1>7. CASE Rest \/ UNCHANGED vars
  BY <1>7 DEF Rest, vars
<1> QED
  BY <1>2, <1>3, <1>4, <1>5, <1>6, <1>7 DEF Next, CalmStep

LEMMA SerialKeeps ==
    ASSUME Serial
    PROVE  TypeInv /\ SerialInv /\ [Next]_vars => SerialInv'
<1> SUFFICES ASSUME TypeInv, SerialInv, [Next]_vars PROVE SerialInv'
  OBVIOUS
<1>1. Quiet' /\ NoUpdate'
  BY QuietKeeps, NoUpdateKeeps DEF SerialInv
<1>2. Alone'
  BY <1>1, CacheAssumption DEF Serial, Quiet, Alone, Proc
<1> QED
  BY <1>1, <1>2 DEF SerialInv

LEMMA SerialInit == Init => SerialInv
<1> SUFFICES ASSUME Init PROVE SerialInv
  OBVIOUS
<1>1. Quiet
  BY LoadInit DEF LoadInv
<1>2. Alone /\ NoUpdate
  BY DEF Init, Alone, NoUpdate, Idle
<1> QED
  BY <1>1, <1>2 DEF SerialInv

\* One goroutine that does not call Update needs to see to nothing: its own
\* operations and callbacks, and those of newDeviceCache before it, overlap
\* with no other.
THEOREM SerialOrderly == ASSUME Serial PROVE Spec => OrderlySpec /\ InTurnSpec
<1>1. Spec => []TypeInv
  BY InitType, NextKeepsType, PTL DEF Spec
<1>2. TypeInv /\ SerialInv /\ [Next]_vars => SerialInv'
  BY SerialKeeps
<1>3. Spec => []SerialInv
  BY <1>1, <1>2, SerialInit, PTL DEF Spec
<1>4. SerialInv => Orderly
  BY DEF SerialInv, Alone, NoUpdate, Orderly, WorksOn, DevLabels, AddrLabels, IdLabels
<1>5. SerialInv => InTurn
  BY DEF SerialInv, Alone, InTurn, Handles
<1>6. Spec => [][Next /\ Orderly']_vars
  BY <1>3, <1>4, PTL DEF Spec
<1>7. Spec => [][Next /\ InTurn']_vars
  BY <1>3, <1>5, PTL DEF Spec
<1> QED
  BY <1>6, <1>7, PTL DEF Spec, OrderlySpec, InTurnSpec

\* So its cache is coherent, and implements the directory.
THEOREM SerialCoherent ==
    ASSUME Serial PROVE Spec => []CoherentAtRest /\ ImplementsDirectory
BY SerialOrderly, OrderlyCoherent, OrderlyDirectory, PTL

-----------------------------------------------------------------------------
(* Callbacks that are handled in turn.                                      *)

\* What the proofs below start from.
AllInv == IdentityInv /\ LoadInv /\ CalmInv

LEMMA AllTyped ==
    ASSUME AllInv
    PROVE  /\ TypeInv /\ Quiet /\ NoAdd /\ Found /\ Told /\ Aimed
           /\ pc \in [Proc -> Labels] /\ op \in [Proc -> AllOps \cup {"none"}]
           /\ dev \in [Proc -> Device \cup {Nil}]
           /\ alert \in [Proc -> Alert \cup {Nil}]
           /\ meta \in [Id -> KnownDevice \cup {Nil}]
           /\ \A i \in Id : meta[i] # Nil => meta[i].id = i
           /\ devices \in [Name -> KnownDevice \cup {Nil}]
           /\ names \in [Id \cup {Nil} -> Name \cup {Nil}]
           /\ alerts \in [Id -> Nat] /\ boot \subseteq KnownDevice
           /\ \A d \in KnownDevice : d.id \in Id /\ d.name \in Name /\ d # Nil
           /\ Main \in Proc /\ Main \notin Goroutine
           /\ Proc = Goroutine \cup {Main}
BY CacheAssumption DEF AllInv, IdentityInv, LoadInv, CalmInv, TypeInv,
   TypeOK, LocalsOK, StoreOK, CacheOK, NoticeOK, ProcessOK, Proc, KnownDevice, Device

\* The steps a goroutine of a calm service takes.
CalmSteps(g) ==
    \/ DelObjects(g) \/ DelCommands(g) \/ DelName(g) \/ DelDevice(g)
    \/ DeleteInMetadata(g) \/ FindName(g) \/ FetchDevice(g) \/ SetAdmin(g)
    \/ Recover(g)

\* Remove and UpdateAdminState work in a process that serves.
LEMMA CalmStepsOnly ==
    ASSUME AllInv, NEW g \in Goroutine, Step(g)
    PROVE  /\ CalmSteps(g) /\ g \in Proc
           /\ phase = "up" /\ boot = {} /\ pc[Main] = "idle" /\ pc[g] # "idle"
           /\ \E l : pc' = [pc EXCEPT ![g] = l]
           /\ \A h \in Proc \ {g} : pc'[h] = pc[h] /\ alert'[h] = alert[h]
           /\ \A i \in Id : meta'[i] = meta[i] \/ meta'[i] = Nil
           /\ UNCHANGED <<process, notice>>
<1>1. /\ NoAdd /\ Quiet /\ g \in Proc /\ pc \in [Proc -> Labels]
      /\ alert \in [Proc -> Alert \cup {Nil}]
      /\ meta \in [Id -> KnownDevice \cup {Nil}]
  BY AllTyped
<1>2. CalmSteps(g)
  BY <1>1 DEF NoAdd, RemoveLabels, Step, AddStep, HandlerStep, CalmSteps, Add,
     AddressableForName, AddAddressable, DeviceForName, AddToMetadata,
     UpdateOpState, AddProfile, PutObjects, PutCommands, PutDescriptors,
     PutDevice, PutName, UpdateInMetadata, DelOldDevice
<1>3. pc[g] # "idle" /\ \E l : pc' = [pc EXCEPT ![g] = l]
  BY <1>1, AddStepIsOwn, HandlerStepIsOwn DEF Step
<1>4. phase = "up" /\ boot = {} /\ pc[Main] = "idle"
  BY <1>1, <1>3 DEF Quiet
<1>5. UNCHANGED <<process, notice>>
  <2>1. pc[g] = "DelDevice" => op[g] # "Add"
    BY <1>1 DEF NoAdd, RemoveLabels
  <2> QED
    BY <1>2, <2>1 DEF CalmSteps, DelObjects, DelCommands, DelName, DelDevice,
       DeleteInMetadata, FindName, FetchDevice, SetAdmin, Recover, Return,
       Continue, Done, process
<1>6. \A h \in Proc \ {g} : pc'[h] = pc[h] /\ alert'[h] = alert[h]
  BY <1>1, <1>2, <1>3 DEF CalmSteps, DelObjects, DelCommands, DelName, DelDevice,
     DeleteInMetadata, FindName, FetchDevice, SetAdmin, Recover, Return,
     Continue, Done, locals
<1>7. \A i \in Id : meta'[i] = meta[i] \/ meta'[i] = Nil
  BY <1>1, <1>2 DEF CalmSteps, DelObjects, DelCommands, DelName, DelDevice,
     DeleteInMetadata, FindName, FetchDevice, SetAdmin, Recover, store
<1> QED
  BY <1>1, <1>2, <1>3, <1>4, <1>5, <1>6, <1>7

\* The steps of Add in the boot.
LEMMA BootStepsOnly ==
    ASSUME AllInv, Step(Main)
    PROVE  /\ phase = "loading" /\ pc[Main] \in LoadLabels
           /\ \A g \in Goroutine : pc[g] = "idle"
           /\ \E l : pc' = [pc EXCEPT ![Main] = l]
           /\ UNCHANGED <<meta, held, notice, phase, boot>>
           /\ UNCHANGED devices \/ PutDevice(Main)
           /\ pc'[Main] = "idle" \/ dev'[Main] = dev[Main]
<1>1. /\ TypeInv /\ LoadInv /\ Quiet /\ Main \in Proc
      /\ pc \in [Proc -> Labels]
  BY AllTyped DEF AllInv
<1>2. pc[Main] # "idle"
  BY <1>1, AddStepIsOwn, HandlerStepIsOwn DEF Step
<1>3. /\ phase = "loading" /\ pc[Main] \in LoadLabels /\ dev[Main].id # Nil
      /\ \A g \in Goroutine : pc[g] = "idle"
  BY <1>1, <1>2, InHand DEF KnownDevice, Quiet
<1>4. \/ Add(Main) \/ AddressableForName(Main) \/ AddAddressable(Main)
      \/ AddProfile(Main) \/ PutObjects(Main) \/ PutCommands(Main)
      \/ PutDescriptors(Main) \/ PutDevice(Main) \/ PutName(Main)
  BY <1>3 DEF LoadLabels, Step, AddStep, HandlerStep, DelObjects, DelCommands,
     DelName, DelDevice, DeviceForName, AddToMetadata, UpdateOpState,
     DeleteInMetadata, UpdateInMetadata, DelOldDevice, FindName, FetchDevice,
     SetAdmin, Recover
<1>5. /\ UNCHANGED <<phase, boot, notice>>
      /\ \E l : pc' = [pc EXCEPT ![Main] = l]
  BY <1>1, <1>4, AddStepIsOwn DEF AddStep
<1> USE DEF Return, Continue, Goto, Done, Fail, locals, Add, AddressableForName,
        AddAddressable, AddProfile, PutObjects, PutCommands, PutDescriptors,
        PutDevice, PutName, store, cache
<1>6. UNCHANGED <<meta, held>>
  BY <1>4
<1>7. UNCHANGED devices \/ PutDevice(Main)
  BY <1>4
<1>8. pc'[Main] = "idle" \/ dev'[Main] = dev[Main]
  BY <1>1, <1>4
<1> QED
  BY <1>3, <1>5, <1>6, <1>7, <1>8

\* Before the process serves no handler and no driver call is under way.
LEMMA BeforeServing ==
    ASSUME AllInv, phase # "up"
    PROVE  /\ \A g \in Goroutine : pc[g] = "idle"
           /\ \A g \in Proc : pc[g] \in LoadLabels \cup {"idle"}
           /\ \A i : ~Underway(i)
<1>1. Quiet /\ LoadInv /\ Proc = Goroutine \cup {Main}
  BY AllTyped DEF AllInv
<1>2. \A g \in Goroutine : pc[g] = "idle"
  BY <1>1 DEF Quiet
<1>3. pc[Main] \in LoadLabels \cup {"idle"}
  BY <1>1 DEF LoadInv, Quiet, Loading, OneByOne
<1>4. \A g \in Proc : pc[g] \in LoadLabels \cup {"idle"}
  BY <1>1, <1>2, <1>3
<1>5. \A i : ~Underway(i)
  BY <1>4 DEF Underway, Handles, LoadLabels
<1> QED
  BY <1>2, <1>4, <1>5

\* What begins is Remove or a callback, in a process that serves.
LEMMA CalmBegins ==
    ASSUME Calm, AllInv, NEW g \in Goroutine, Begin(g)
    PROVE  /\ phase = "up" /\ boot = {} /\ pc[Main] = "idle" /\ pc[g] = "idle"
           /\ g \in Proc /\ g # Main
           /\ UNCHANGED <<process, store, cache, untold>>
           /\ \/ /\ pc' = [pc EXCEPT ![g] = "DeleteInMetadata"]
                 /\ op' = [op EXCEPT ![g] = "Remove"]
                 /\ \E n \in Name : /\ devices[n] # Nil
                                    /\ dev' = [dev EXCEPT ![g] = devices[n]]
                 /\ alert' = [alert EXCEPT ![g] = Nil]
                 /\ UNCHANGED alerts
              \/ /\ pc' = [pc EXCEPT ![g] = "FindName"]
                 /\ op' = [op EXCEPT ![g] = "UpdateAdminState"]
                 /\ dev' = [dev EXCEPT ![g] = Nil]
                 /\ \E i \in Id :
                      /\ alerts[i] > 0
                      /\ alerts' = [alerts EXCEPT ![i] = @ - 1]
                      /\ alert' = [alert EXCEPT ![g] =
                                     [id |-> i, name |-> Nil, admin |-> Nil]]
<1>1. /\ phase = "up" /\ pc[g] = "idle" /\ UNCHANGED <<process, store, cache, untold>>
      /\ boot = {} /\ pc[Main] = "idle" /\ g \in Proc /\ g # Main
  BY BeginIsOwn, AllTyped DEF Quiet
<1>2. RemoveDevice(g) \/ Callback(g)
  BY DEF Begin, AddDevice, UpdateDevice, Start, Calm
<1>3. CASE RemoveDevice(g)
  BY <1>1, <1>3 DEF RemoveDevice, Start, Call, Goto, notice
<1>4. CASE Callback(g)
  BY <1>1, <1>4 DEF Callback, Call, Goto
<1> QED
  BY <1>1, <1>2, <1>3, <1>4

\* No goroutine but Main gets to the descriptors of a profile.
LEMMA NobodyDescribes ==
    ASSUME AllInv
    PROVE  ~\E g \in Goroutine : DescriptorPanic(g)
BY AllTyped DEF NoAdd, RemoveLabels, DescriptorPanic, CannotDescribe

\* Nobody but newDeviceCache calls Add, and what Core Metadata lost it does not
\* get back.
LEMMA NoAddKeeps ==
    ASSUME Calm, AllInv, LoadInv', [Next]_vars
    PROVE  NoAdd'
<1>1. /\ NoAdd /\ pc \in [Proc -> Labels] /\ op \in [Proc -> AllOps \cup {"none"}]
      /\ dev \in [Proc -> Device \cup {Nil}] /\ TypeInv
      /\ meta \in [Id -> KnownDevice \cup {Nil}]
      /\ Main \notin Goroutine /\ Goroutine \subseteq Proc
  BY AllTyped
<1> USE <1>1 DEF NoAdd, RemoveLabels
<1>2. ASSUME NEW g \in Goroutine, Step(g) PROVE NoAdd'
  <2> USE DEF Return, Continue, Goto, Done, locals, store
  <2>1. CalmSteps(g)
    BY <1>2, CalmStepsOnly
  <2>2. CASE DelObjects(g) \/ DelCommands(g)
    BY <2>2 DEF DelObjects, DelCommands
  <2>3. CASE DelName(g)
    BY <2>3 DEF DelName
  <2>4. CASE DelDevice(g)
    BY <2>4 DEF DelDevice
  <2>5. CASE DeleteInMetadata(g)
    <3>1. dev[g].id \in Id /\ pc[g] = "DeleteInMetadata"
      BY <2>5, CacheAssumption DEF DeleteInMetadata, TypeInv, Ready, IdLabels,
         KnownDevice, Device
    <3>2. /\ UNCHANGED meta \/ meta' = [meta EXCEPT ![dev[g].id] = Nil]
          /\ \/ pc' = [pc EXCEPT ![g] = "idle"]
             \/ /\ pc' = [pc EXCEPT ![g] = "DelObjects"] /\ UNCHANGED <<op, dev>>
                /\ meta'[dev[g].id] = Nil
          /\ \A h \in Goroutine \ {g} : op'[h] = op[h] /\ dev'[h] = dev[h]
      BY <2>5, <3>1 DEF DeleteInMetadata
    <3>3. \A h \in Goroutine \ {g} : pc'[h] = pc[h] /\ op'[h] = op[h] /\ dev'[h] = dev[h]
      BY <3>2
    <3>4. \A i \in Id : meta[i] = Nil => meta'[i] = Nil
      BY <3>1, <3>2
    <3> QED
      BY <3>1, <3>2, <3>3, <3>4
  <2>6. CASE FindName(g) \/ FetchDevice(g)
    BY <2>6 DEF FindName, FetchDevice
  <2>7. CASE SetAdmin(g) \/ Recover(g)
    BY <2>7 DEF SetAdmin, Recover
  <2> QED
    BY <2>1, <2>2, <2>3, <2>4, <2>5, <2>6, <2>7 DEF CalmSteps
<1>3. CASE phase' # "up"
  BY <1>3 DEF LoadInv, Quiet
<1>4. CASE Step(Main)
  BY <1>3, <1>4, BootStepsOnly
<1>5. ASSUME NEW g \in Goroutine, Begin(g) PROVE NoAdd'
  BY <1>5, CalmBegins DEF store
<1>6. ~\E g \in Goroutine : DescriptorPanic(g)
  BY NobodyDescribes
<1>7. CASE Serve \/ Rest \/ UNCHANGED vars
  BY <1>7 DEF Serve, Rest, vars, locals, store
<1>8. CASE OtherStep
  BY <1>8 DEF OtherStep, ChangeAdmin, Delete, locals
<1>9. Boot \/ LoadNext \/ CrashStep => phase' # "up"
  BY DEF Boot, LoadNext, CrashStep, Killed, RaceAbort, Crash, DescriptorCrash, Lose
<1>10. Step(Main) \/ \A g \in Proc : Step(g) => g \in Goroutine
  BY AllTyped
<1> QED
  BY <1>2, <1>3, <1>4, <1>5, <1>6, <1>7, <1>8, <1>9, <1>10 DEF Next, CalmStep, BootStep

\* Nothing the cache does then creates or renames a device.
LEMMA SeedHeldKeeps ==
    ASSUME Calm, AllInv, [Next]_vars
    PROVE  UNCHANGED held
<1>1. ASSUME NEW g \in Goroutine, Step(g) PROVE UNCHANGED held
  BY <1>1, CalmStepsOnly DEF CalmSteps, DelObjects, DelCommands, DelName,
     DelDevice, DeleteInMetadata, FindName, FetchDevice, SetAdmin, Recover, store
<1>2. CASE Step(Main)
  BY <1>2, BootStepsOnly
<1>3. ASSUME NEW g \in Goroutine, Begin(g) \/ DescriptorPanic(g)
      PROVE  UNCHANGED held
  BY <1>3, BeginIsOwn DEF store
<1>4. CASE BootStep \/ OtherStep \/ CrashStep \/ Rest \/ UNCHANGED vars
  BY <1>4 DEF BootStep, Boot, LoadNext, Serve, OtherStep, ChangeAdmin, Delete,
     CrashStep, Killed, RaceAbort, Crash, DescriptorCrash, Lose, Rest, vars, store
<1>5. \A g \in Proc : g \in Goroutine \/ g = Main
  BY DEF Proc
<1> QED
  BY <1>1, <1>2, <1>3, <1>4, <1>5 DEF Next, CalmStep

\* With nothing created or renamed an id and a name belong together.
LEMMA SeedNames ==
    ASSUME SeedHeld, NEW i, NEW j, NEW m, NEW n,
           <<i, m>> \in held, <<j, n>> \in held
    PROVE  i = j <=> m = n
BY CacheAssumption DEF SeedHeld

\* An id leads to its device until Remove, which asks Core Metadata first.
LEMMA FoundKeeps ==
    ASSUME Calm, AllInv, LoadInv', [Next]_vars
    PROVE  Found'
<1>1. /\ Found /\ TypeInv /\ NoAdd /\ Quiet
      /\ pc \in [Proc -> Labels] /\ dev \in [Proc -> Device \cup {Nil}]
      /\ meta \in [Id -> KnownDevice \cup {Nil}]
      /\ devices \in [Name -> KnownDevice \cup {Nil}]
      /\ names \in [Id \cup {Nil} -> Name \cup {Nil}]
      /\ \A d \in KnownDevice : d.id \in Id /\ d.name \in Name /\ d # Nil
      /\ Main \in Proc /\ Main \notin Goroutine /\ Proc = Goroutine \cup {Main}
  BY AllTyped
<1>2. \A n \in Name : devices[n] # Nil => devices[n].id \in Id
  BY <1>1
<1>3. ASSUME NEW g \in Goroutine, Step(g) PROVE Found'
  <2>1. /\ CalmSteps(g) /\ g \in Proc /\ pc[Main] = "idle"
    BY <1>3, CalmStepsOnly
  <2>2. \A n \in Name : devices[n] # Nil =>
          names[devices[n].id] = n \/ meta[devices[n].id] = Nil
    BY <1>1, <2>1 DEF Found
  <2> SUFFICES ASSUME NEW n \in Name, devices'[n] # Nil
               PROVE  names'[devices'[n].id] = n \/ meta'[devices'[n].id] = Nil
    BY DEF Found
  <2> USE DEF store, cache
  <2>3. devices[n] # Nil /\ devices'[n].id = devices[n].id
    BY <1>1, <2>1 DEF CalmSteps, DelObjects, DelCommands, DelName, DelDevice,
       DeleteInMetadata, FindName, FetchDevice, SetAdmin, Recover, KnownDevice,
       Device
  <2>4. CASE DelName(g)
    <3>1. dev[g].id \in Id /\ meta[dev[g].id] = Nil
      BY <1>1, <2>4 DEF DelName, NoAdd, RemoveLabels
    <3>2. meta' = meta /\ names' = [names EXCEPT ![dev[g].id] = Nil]
      BY <2>4 DEF DelName
    <3> QED
      BY <1>1, <1>2, <2>2, <2>3, <3>1, <3>2
  <2>5. CASE DeleteInMetadata(g)
    <3>1. dev[g].id \in Id
      BY <1>1, <2>1, <2>5, CacheAssumption DEF DeleteInMetadata, TypeInv, Ready,
         IdLabels, KnownDevice, Device
    <3>2. /\ names' = names
          /\ UNCHANGED meta \/ meta' = [meta EXCEPT ![dev[g].id] = Nil]
      BY <2>5 DEF DeleteInMetadata
    <3> QED
      BY <1>1, <1>2, <2>2, <2>3, <3>1, <3>2
  <2>6. CASE ~DelName(g) /\ ~DeleteInMetadata(g)
    <3>1. UNCHANGED <<meta, names>>
      BY <2>1, <2>6 DEF CalmSteps, DelObjects, DelCommands, DelDevice, FindName,
         FetchDevice, SetAdmin, Recover
    <3> QED
      BY <2>2, <2>3, <3>1
  <2> QED
    BY <2>4, <2>5, <2>6
<1>4. CASE Step(Main)
  <2>1. /\ phase = "loading" /\ pc[Main] \in LoadLabels /\ UNCHANGED meta
        /\ OneByOne /\ dev[Main] \in listed /\ dev[Main] \in KnownDevice
    <3>1. phase = "loading" /\ pc[Main] \in LoadLabels /\ UNCHANGED meta
      BY <1>4, BootStepsOnly
    <3>2. LoadInv /\ pc[Main] # "idle"
      BY <3>1 DEF AllInv, LoadLabels
    <3>3. OneByOne /\ dev[Main] \in listed
      BY <3>1, <3>2 DEF LoadInv, Loading, OneByOne
    <3> QED
      BY <1>1, <3>1, <3>2, <3>3, InHand
  <2>2. \/ PutDevice(Main) \/ PutName(Main)
        \/ UNCHANGED <<devices, names>> /\ pc[Main] # "PutName"
    BY <1>1, <1>4, <2>1, BootStepsOnly DEF Step, AddStep, HandlerStep, LoadLabels,
       Add, DelObjects, DelCommands, DelName, DelDevice, AddressableForName,
       AddAddressable, DeviceForName, AddToMetadata, UpdateOpState, AddProfile,
       PutObjects, PutCommands, PutDescriptors, DeleteInMetadata,
       UpdateInMetadata, DelOldDevice, FindName, FetchDevice, SetAdmin, Recover,
       cache
  <2>3. CASE PutDevice(Main)
    <3>1. /\ devices' = [devices EXCEPT ![dev[Main].name] = dev[Main]]
          /\ names' = names /\ dev' = dev /\ pc'[Main] = "PutName"
          /\ pc[Main] = "PutDevice"
      BY <1>1, <2>3 DEF PutDevice, Continue, Goto, locals
    <3> QED
      BY <1>1, <2>1, <3>1 DEF Found
  <2>4. CASE PutName(Main)
    <3>1. /\ devices' = devices /\ pc[Main] = "PutName"
          /\ names' = [names EXCEPT ![dev[Main].id] = dev[Main].name]
      BY <2>4 DEF PutName
    <3>2. /\ dev[Main].id \in Id
          /\ \A n \in Name : devices[n] # Nil =>
               /\ devices[n].name = n /\ devices[n] \in listed
               /\ devices[n].id = dev[Main].id => devices[n] = dev[Main]
      BY <1>1, <2>1 DEF OneByOne
    <3> QED
      BY <1>1, <1>2, <2>1, <3>1, <3>2 DEF Found
  <2>5. CASE UNCHANGED <<devices, names>> /\ pc[Main] # "PutName"
    BY <1>1, <2>1, <2>5 DEF Found
  <2> QED
    BY <2>2, <2>3, <2>4, <2>5
<1>5. ASSUME NEW g \in Goroutine, Begin(g) PROVE Found'
  <2>1. pc[Main] = "idle" /\ UNCHANGED <<devices, names, meta>>
    BY <1>5, CalmBegins DEF store, cache
  <2> QED
    BY <1>1, <2>1 DEF Found
<1>6. ~\E g \in Goroutine : DescriptorPanic(g)
  BY NobodyDescribes
<1>7. CASE Boot \/ Serve \/ Rest \/ UNCHANGED vars
  <2>1. UNCHANGED <<devices, names, meta, pc, dev>>
    BY <1>7 DEF Boot, Serve, Rest, vars, locals, store, cache
  <2> QED
    BY <1>1, <2>1 DEF Found
<1>8. CASE LoadNext
  <2>1. /\ pc[Main] = "idle" /\ UNCHANGED <<devices, names, meta>>
    BY <1>8 DEF LoadNext, store, cache
  <2> QED
    BY <1>1, <2>1 DEF Found
<1>9. CASE OtherStep
  <2>1. /\ UNCHANGED <<devices, names, pc, dev>>
        /\ \A i \in Id : meta[i] = Nil => meta'[i] = Nil
    BY <1>1, <1>9 DEF OtherStep, ChangeAdmin, Delete, cache, locals
  <2> QED
    BY <1>1, <1>2, <2>1 DEF Found
<1>10. CASE CrashStep
  BY <1>10 DEF CrashStep, Killed, RaceAbort, Crash, DescriptorCrash, Lose, Found, Empty
<1> QED
  BY <1>1, <1>3, <1>4, <1>5, <1>6, <1>7, <1>8, <1>9, <1>10
  DEF Next, CalmStep, BootStep

\* Names are kept, and every admin change sends another callback, which no
\* goroutine takes up while another handles one about the same device.
LEMMA AimedKeeps ==
    ASSUME Calm, AllInv, LoadInv', InTurn', [Next]_vars
    PROVE  Aimed'
<1>1. /\ Aimed /\ pc \in [Proc -> Labels] /\ alert \in [Proc -> Alert \cup {Nil}]
      /\ alerts \in [Id -> Nat] /\ TypeInv /\ KnownIdentity
      /\ meta \in [Id -> KnownDevice \cup {Nil}]
      /\ Proc = Goroutine \cup {Main}
  BY AllTyped DEF AllInv, IdentityInv
<1>2. UNCHANGED held
  BY SeedHeldKeeps
<1>3. CASE phase' # "up"
  <2>1. \A g \in Proc : pc'[g] \notin {"FetchDevice", "SetAdmin"}
    BY <1>1, <1>3 DEF LoadInv, Quiet, Loading, OneByOne, LoadLabels
  <2> QED
    BY <2>1 DEF Aimed
<1>4. ASSUME NEW g \in Goroutine, Step(g) PROVE Aimed'
  <2>1. /\ CalmSteps(g) /\ g \in Proc /\ UNCHANGED alerts
        /\ \A h \in Proc \ {g} : pc'[h] = pc[h] /\ alert'[h] = alert[h]
        /\ \A i \in Id : meta'[i] = meta[i] \/ meta'[i] = Nil
    BY <1>4, CalmStepsOnly DEF notice
  <2>2. ASSUME NEW h \in Proc \ {g}, pc[h] = "SetAdmin" PROVE alert[h].id \in Id
    BY <1>1, <2>2 DEF TypeInv, Ready, Alert
  <2> SUFFICES LET i == alert'[g].id IN
        /\ pc'[g] \in {"FetchDevice", "SetAdmin"} => <<i, alert'[g].name>> \in held
        /\ pc'[g] = "SetAdmin" /\ meta'[i] # Nil =>
             alert'[g].admin = meta'[i].admin \/ alerts'[i] > 0
    BY <1>1, <1>2, <2>1, <2>2 DEF Aimed
  <2> USE DEF Return, Continue, Goto, Done, store, cache
  <2>3. CASE FindName(g)
    <3>1. alert[g] \in Alert
      BY <1>1, <2>1, <2>3 DEF FindName, TypeInv, Ready
    <3>2. \A i \in Id : names[i] # Nil => <<i, names[i]>> \in held
      BY <1>1 DEF KnownIdentity
    <3> QED
      BY <1>1, <2>1, <2>3, <3>1, <3>2 DEF FindName, Alert
  <2>4. CASE FetchDevice(g)
    <3>1. alert[g] \in Alert
      BY <1>1, <2>1, <2>4 DEF FetchDevice, TypeInv, Ready
    <3>2. <<alert[g].id, alert[g].name>> \in held
      BY <1>1, <2>1, <2>4 DEF FetchDevice, Aimed
    <3> QED
      BY <1>1, <2>1, <2>4, <3>1, <3>2 DEF FetchDevice, Alert
  <2>5. CASE ~FindName(g) /\ ~FetchDevice(g)
    BY <1>1, <2>1, <2>5 DEF CalmSteps, DelObjects, DelCommands, DelName,
       DelDevice, DeleteInMetadata, SetAdmin, Recover
  <2> QED
    BY <2>3, <2>4, <2>5
<1>5. CASE Step(Main)
  BY <1>3, <1>5, BootStepsOnly
<1>6. ASSUME NEW g \in Goroutine, Begin(g) PROVE Aimed'
  <2>1. /\ g \in Proc /\ UNCHANGED meta
        /\ \A h \in Proc \ {g} : pc'[h] = pc[h] /\ alert'[h] = alert[h]
        /\ pc'[g] \notin {"FetchDevice", "SetAdmin"}
    BY <1>1, <1>6, CalmBegins DEF store
  <2>2. ASSUME NEW h \in Proc \ {g}, pc[h] = "SetAdmin"
        PROVE  alert[h].id \in Id /\ alerts'[alert[h].id] = alerts[alert[h].id]
    <3>1. alert[h].id \in Id /\ Handles(h, alert[h].id)'
      BY <1>1, <2>1, <2>2 DEF TypeInv, Ready, Alert, Handles
    <3>2. CASE UNCHANGED alerts
      BY <3>1, <3>2
    <3>3. ASSUME NEW i \in Id, alerts' = [alerts EXCEPT ![i] = @ - 1],
                 pc' = [pc EXCEPT ![g] = "FindName"],
                 alert' = [alert EXCEPT ![g] =
                             [id |-> i, name |-> Nil, admin |-> Nil]]
          PROVE  alerts'[alert[h].id] = alerts[alert[h].id]
      <4>1. Handles(g, i)'
        BY <1>1, <2>1, <3>3 DEF Handles
      <4>2. alert[h].id # i
        BY <2>1, <3>1, <4>1 DEF InTurn
      <4> QED
        BY <1>1, <3>1, <3>3, <4>2
    <3> QED
      BY <1>6, <3>1, <3>2, <3>3, CalmBegins
  <2> QED
    BY <1>1, <1>2, <2>1, <2>2 DEF Aimed
<1>7. ~\E g \in Goroutine : DescriptorPanic(g)
  BY NobodyDescribes
<1>8. CASE Serve \/ Rest \/ UNCHANGED vars
  BY <1>1, <1>8 DEF Serve, Rest, vars, locals, store, notice, cache, Aimed
<1>9. CASE OtherStep /\ phase' = "up"
  <2>1. UNCHANGED <<held, pc, alert>>
    BY <1>9 DEF OtherStep, ChangeAdmin, Delete, locals
  <2>2. ASSUME NEW i \in Id, meta'[i] # Nil
        PROVE  /\ meta[i] # Nil
               /\ \/ alerts'[i] > 0
                  \/ meta'[i].admin = meta[i].admin /\ alerts'[i] = alerts[i]
    BY <1>1, <1>9, <2>2 DEF OtherStep, ChangeAdmin, Delete, process, notice
  <2>3. ASSUME NEW g \in Proc, pc[g] = "SetAdmin" PROVE alert[g].id \in Id
    BY <1>1, <2>3 DEF TypeInv, Ready, Alert
  <2> QED
    BY <1>1, <2>1, <2>2, <2>3 DEF Aimed
<1>10. Boot \/ LoadNext \/ CrashStep => phase' # "up"
  BY DEF Boot, LoadNext, CrashStep, Killed, RaceAbort, Crash, DescriptorCrash, Lose
<1> QED
  BY <1>1, <1>3, <1>4, <1>5, <1>6, <1>7, <1>8, <1>9, <1>10
  DEF Next, CalmStep, BootStep

\* When a callback has found its name, the device cached under it is the one
\* the callback is about, and no other is.
LEMMA AimHits ==
    ASSUME AllInv, NEW g \in Proc, pc[g] = "SetAdmin",
           NEW n \in Name, devices[n] # Nil
    PROVE  devices[n].id = alert[g].id <=> n = alert[g].name
<1>1. Aimed /\ KnownIdentity /\ SeedHeld
  BY AllTyped DEF AllInv, IdentityInv, CalmInv
<1>2. <<alert[g].id, alert[g].name>> \in held /\ <<devices[n].id, n>> \in held
  BY <1>1 DEF Aimed, KnownIdentity
<1> QED
  BY <1>1, <1>2, SeedNames

\* A step of Remove or of a callback leaves every cached device with the admin
\* state of Core Metadata, or with a callback to come.
LEMMA StepTells ==
    ASSUME Calm, AllInv, NEW g \in Goroutine, Step(g)
    PROVE  Told'
<1>1. /\ Told /\ Aimed /\ TypeInv /\ NoAdd /\ Found
      /\ pc \in [Proc -> Labels] /\ alert \in [Proc -> Alert \cup {Nil}]
      /\ alerts \in [Id -> Nat]
      /\ meta \in [Id -> KnownDevice \cup {Nil}]
      /\ devices \in [Name -> KnownDevice \cup {Nil}]
      /\ names \in [Id \cup {Nil} -> Name \cup {Nil}]
      /\ \A d \in KnownDevice : d.id \in Id /\ d.name \in Name /\ d # Nil
      /\ Main \in Proc /\ Main # g
  BY AllTyped
<1>2. /\ CalmSteps(g) /\ g \in Proc /\ UNCHANGED <<alerts, untold>>
      /\ boot' = {} /\ pc[Main] = "idle" /\ pc'[Main] = "idle"
      /\ \A h \in Proc \ {g} : pc'[h] = pc[h] /\ alert'[h] = alert[h]
      /\ \A i \in Id : meta'[i] = meta[i] \/ meta'[i] = Nil
  BY <1>1, CalmStepsOnly DEF notice, process
<1> SUFFICES ASSUME NEW n \in Name, devices'[n] # Nil
             PROVE  \/ Current(devices[n])' \/ alerts'[devices'[n].id] > 0
                    \/ Underway(devices[n].id)'
  BY <1>2 DEF Told, LoadLabels
<1> USE DEF Return, Continue, Goto, Done, store, cache, locals
<1>3. devices[n] # Nil /\ devices'[n].id = devices[n].id /\ devices[n].id \in Id
  BY <1>1, <1>2 DEF CalmSteps, DelObjects, DelCommands, DelName, DelDevice,
     DeleteInMetadata, FindName, FetchDevice, SetAdmin, Recover, KnownDevice,
     Device
<1> DEFINE i == devices[n].id
\* Nothing remains to be told of a device that is gone, and what another
\* goroutine will tell it still will.
<1>4. meta'[i] = Nil => Current(devices[n])'
  BY <1>3 DEF Current
<1>5. ASSUME NEW h \in Proc \ {g}, Handles(h, i),
             pc[h] = "SetAdmin" => alert[h].admin = meta[i].admin, meta'[i] # Nil
      PROVE  Underway(devices[n].id)'
  BY <1>2, <1>3, <1>5 DEF Underway, Handles
<1>6. CASE UNCHANGED devices /\ ~Handles(g, i)
  BY <1>1, <1>2, <1>3, <1>4, <1>5, <1>6 DEF Told, Current, Underway
<1>7. CASE DelObjects(g) \/ DelCommands(g) \/ DelName(g) \/ DelDevice(g)
             \/ DeleteInMetadata(g) \/ Recover(g)
  <2>1. devices'[n] = devices[n] /\ ~Handles(g, i)
    BY <1>1, <1>7 DEF DelObjects, DelCommands, DelName, DelDevice,
       DeleteInMetadata, Recover, Handles
  <2> QED
    BY <1>1, <1>2, <1>3, <1>4, <1>5, <2>1 DEF Told, Current, Underway
<1>8. CASE FindName(g) /\ Handles(g, i)
  <2>1. UNCHANGED <<meta, devices>> /\ alert[g] \in Alert /\ alert[g].id = i
    BY <1>1, <1>2, <1>8 DEF FindName, TypeInv, Ready, Handles
  <2>2. CASE names[i] = Nil
    <3>1. meta[i] = Nil
      BY <1>1, <1>2, <1>3, <2>2, CacheAssumption DEF Found
    <3> QED
      BY <1>4, <2>1, <3>1
  <2>3. CASE names[i] # Nil
    <3>1. pc'[g] = "FetchDevice" /\ alert'[g].id = i
      BY <1>1, <1>2, <1>8, <2>1, <2>3 DEF FindName, Alert
    <3> QED
      BY <1>2, <1>3, <3>1 DEF Underway, Handles
  <2> QED
    BY <2>2, <2>3
<1>9. CASE FetchDevice(g) /\ Handles(g, i)
  <2>1. UNCHANGED <<meta, devices>> /\ alert[g] \in Alert /\ alert[g].id = i
    BY <1>1, <1>2, <1>9 DEF FetchDevice, TypeInv, Ready, Handles
  <2>2. CASE meta[i] # Nil
    <3>1. /\ pc'[g] = "SetAdmin" /\ alert'[g].id = i
          /\ alert'[g].admin = meta'[i].admin
      BY <1>1, <1>2, <1>9, <2>1, <2>2 DEF FetchDevice, Alert, Calm
    <3> QED
      BY <1>2, <1>3, <3>1 DEF Underway, Handles
  <2> QED
    BY <1>4, <2>1, <2>2
<1>10. CASE SetAdmin(g)
  <2>1. UNCHANGED meta /\ pc[g] = "SetAdmin" /\ alert[g].name \in Name
    BY <1>1, <1>2, <1>10 DEF SetAdmin, TypeInv, Ready
  <2>2. i = alert[g].id <=> n = alert[g].name
    BY <1>2, <1>3, <2>1, AimHits
  <2>3. CASE n = alert[g].name
    <3>1. devices'[n].admin = alert[g].admin
      BY <1>1, <1>3, <1>10, <2>3 DEF SetAdmin, KnownDevice, Device
    <3>2. meta[i] = Nil \/ alert[g].admin = meta[i].admin \/ alerts[i] > 0
      BY <1>1, <1>2, <2>1, <2>2, <2>3 DEF Aimed
    <3> QED
      BY <1>2, <1>3, <1>4, <2>1, <3>1, <3>2 DEF Current
  <2>4. CASE n # alert[g].name
    <3>1. devices'[n] = devices[n] /\ ~Handles(g, i)
      BY <1>1, <1>10, <2>2, <2>4 DEF SetAdmin, Handles
    <3> QED
      BY <1>1, <1>2, <1>3, <1>4, <1>5, <3>1 DEF Told, Current, Underway
  <2> QED
    BY <2>3, <2>4
<1>11. FindName(g) \/ FetchDevice(g) => UNCHANGED devices
  BY DEF FindName, FetchDevice
<1> QED
  BY <1>2, <1>6, <1>7, <1>8, <1>9, <1>10, <1>11 DEF CalmSteps

\* The device newDeviceCache adds has its id.
LEMMA BootDevKnown ==
    ASSUME AllInv, pc[Main] \in LoadLabels
    PROVE  dev[Main].id \in Id
<1>1. TypeInv /\ LoadInv
  BY AllTyped DEF AllInv
<1>2. dev[Main] \in KnownDevice
  BY <1>1, InHand DEF LoadLabels
<1> QED
  BY <1>2, AllTyped

\* So does every other step: a change of the admin state sends a callback to a
\* process that serves, and is not told to one that does not.
LEMMA ToldKeeps ==
    ASSUME Calm, AllInv, LoadInv', [Next]_vars
    PROVE  Told'
<1>1. /\ Told /\ Quiet /\ TypeInv
      /\ pc \in [Proc -> Labels] /\ alert \in [Proc -> Alert \cup {Nil}]
      /\ dev \in [Proc -> Device \cup {Nil}]
      /\ alerts \in [Id -> Nat] /\ boot \subseteq KnownDevice
      /\ meta \in [Id -> KnownDevice \cup {Nil}]
      /\ \A i \in Id : meta[i] # Nil => meta[i].id = i
      /\ devices \in [Name -> KnownDevice \cup {Nil}]
      /\ \A d \in KnownDevice : d.id \in Id /\ d.name \in Name /\ d # Nil
      /\ Main \in Proc /\ Main \notin Goroutine
      /\ Proc = Goroutine \cup {Main}
  BY AllTyped
<1>2. ASSUME NEW g \in Goroutine, Step(g) PROVE Told'
  BY <1>2, StepTells
<1>3. CASE Step(Main)
  <2>1. /\ phase = "loading" /\ pc[Main] \in LoadLabels
        /\ UNCHANGED <<meta, notice, boot>>
        /\ UNCHANGED devices \/ PutDevice(Main)
        /\ pc'[Main] = "idle" \/ dev'[Main] = dev[Main]
    BY <1>3, BootStepsOnly
  <2>2. Current(dev[Main]) /\ (\A d \in boot : Current(d))
    BY <1>1, <2>1 DEF Told
  <2>3. \A n \in Name : devices[n] # Nil =>
          Current(devices[n]) \/ alerts[devices[n].id] > 0
    BY <1>1, <2>1, BeforeServing DEF Told
  <2>4. (\A d \in boot' : Current(d)') /\ (pc'[Main] # "idle" => Current(dev[Main])')
    BY <2>1, <2>2 DEF Current, notice
  <2>5. \A n \in Name : devices'[n] # Nil =>
          Current(devices[n])' \/ alerts'[devices'[n].id] > 0
    BY <1>1, <2>1, <2>2, <2>3 DEF Current, notice, PutDevice
  <2> QED
    BY <2>4, <2>5 DEF Told, LoadLabels
<1>4. ASSUME NEW g \in Goroutine, Begin(g) PROVE Told'
  <2>1. /\ g \in Proc /\ pc[g] = "idle" /\ boot' = {} /\ pc'[Main] = "idle"
        /\ UNCHANGED <<meta, untold, devices>>
        /\ \A h \in Proc \ {g} : pc'[h] = pc[h] /\ alert'[h] = alert[h]
    BY <1>1, <1>4, CalmBegins DEF store, process, cache
  <2> SUFFICES ASSUME NEW n \in Name, devices[n] # Nil
               PROVE  \/ Current(devices[n])' \/ alerts'[devices'[n].id] > 0
                      \/ Underway(devices[n].id)'
    BY <2>1 DEF Told, LoadLabels
  <2> DEFINE i == devices[n].id
  <2>2. i \in Id /\ i = devices'[n].id
    BY <1>1, <2>1
  <2>3. Current(devices[n]) => Current(devices[n])'
    BY <2>1 DEF Current
  <2>4. Underway(i) => Underway(devices[n].id)'
    BY <2>1 DEF Underway, Handles
  <2>5. alerts'[i] = alerts[i] \/ Underway(devices[n].id)'
    <3>1. ASSUME NEW k \in Id, alerts' = [alerts EXCEPT ![k] = @ - 1],
                 pc' = [pc EXCEPT ![g] = "FindName"],
                 alert' = [alert EXCEPT ![g] =
                             [id |-> k, name |-> Nil, admin |-> Nil]],
                 k = i
          PROVE  Underway(devices[n].id)'
      BY <1>1, <2>1, <2>2, <3>1 DEF Underway, Handles
    <3>2. ASSUME NEW k \in Id, alerts' = [alerts EXCEPT ![k] = @ - 1], k # i
          PROVE  alerts'[i] = alerts[i]
      BY <1>1, <2>2, <3>2
    <3> QED
      BY <1>4, <2>2, <3>1, <3>2, CalmBegins
  <2> QED
    BY <1>1, <2>2, <2>3, <2>4, <2>5 DEF Told
<1>5. ~\E g \in Goroutine : DescriptorPanic(g)
  BY NobodyDescribes
<1>6. CASE Boot
  <2>1. /\ pc[Main] = "idle" /\ UNCHANGED <<pc, meta, devices>>
        /\ untold' = {} /\ boot' \subseteq Stored
        /\ \A n \in Name : devices[n] = Nil
    BY <1>1, <1>6 DEF Boot, Quiet, store, cache
  <2>2. \A d \in Stored : meta[d.id] = d
    BY <1>1 DEF Stored
  <2> QED
    BY <2>1, <2>2 DEF Told, Current, LoadLabels
<1>7. CASE LoadNext
  <2>1. /\ phase = "loading" /\ UNCHANGED <<meta, notice, devices>>
        /\ boot' \subseteq boot /\ dev'[Main] \in boot
    BY <1>1, <1>7 DEF LoadNext, Call, store, cache
  <2>2. \A i : ~Underway(i)
    BY <2>1, BeforeServing
  <2> QED
    BY <1>1, <2>1, <2>2 DEF Told, Current, notice
<1>8. CASE Serve \/ Rest \/ UNCHANGED vars
  <2>1. UNCHANGED <<meta, notice, devices, boot, pc, dev, alert>>
    BY <1>8 DEF Serve, Rest, vars, store, cache, process, locals
  <2> QED
    BY <1>1, <2>1 DEF Told, Current, Underway, Handles, notice
<1>9. CASE Delete
  <2>1. PICK i \in Id : /\ meta' = [meta EXCEPT ![i] = Nil]
                        /\ UNCHANGED <<notice, devices, boot, pc, dev, alert>>
    BY <1>9 DEF Delete, cache, process, locals
  <2>2. \A d : d.id \in Id /\ Current(d) => Current(d)'
    BY <1>1, <2>1 DEF Current, notice
  <2>3. \A d \in boot' : Current(d)'
    BY <1>1, <2>1, <2>2 DEF Told
  <2>4. pc'[Main] \in LoadLabels => Current(dev[Main])'
    BY <1>1, <2>1, <2>2, BootDevKnown DEF Told
  <2>5. ASSUME NEW n \in Name, devices'[n] # Nil
        PROVE  \/ Current(devices[n])' \/ alerts'[devices'[n].id] > 0
               \/ Underway(devices[n].id)'
    <3>1. CASE devices[n].id = i
      BY <1>1, <2>1, <3>1 DEF Current
    <3>2. CASE devices[n].id # i
      BY <1>1, <2>1, <2>2, <2>5, <3>2 DEF Told, Underway, Handles, notice
    <3> QED
      BY <3>1, <3>2
  <2> QED
    BY <2>3, <2>4, <2>5 DEF Told
<1>10. CASE ChangeAdmin
  <2>1. PICK i \in Id, a \in AdminState :
          /\ meta[i] # Nil /\ meta' = [meta EXCEPT ![i].admin = a]
          /\ IF phase = "up"
             THEN alerts' = [alerts EXCEPT ![i] = @ + 1] /\ untold' = untold \ {i}
             ELSE untold' = untold \cup {i} /\ UNCHANGED alerts
          /\ UNCHANGED <<devices, boot, pc, dev, alert>>
    BY <1>10 DEF ChangeAdmin, cache, process, locals
  <2>2. \A d : /\ d.id \in Id /\ d.id # i /\ Current(d) => Current(d)'
               /\ phase # "up" /\ d.id = i => Current(d)'
    BY <1>1, <2>1 DEF Current
  <2>3. \A d \in boot' : Current(d)'
    BY <1>1, <2>1, <2>2 DEF Told, Quiet
  <2>4. pc'[Main] \in LoadLabels => Current(dev[Main])'
    BY <1>1, <2>1, <2>2, BootDevKnown DEF Told, Quiet, LoadLabels
  <2>5. ASSUME NEW n \in Name, devices'[n] # Nil
        PROVE  \/ Current(devices[n])' \/ alerts'[devices'[n].id] > 0
               \/ Underway(devices[n].id)'
    <3>1. CASE devices[n].id = i
      BY <1>1, <2>1, <2>2, <3>1
    <3>2. CASE devices[n].id # i
      BY <1>1, <2>1, <2>2, <2>5, <3>2 DEF Told, Underway, Handles
    <3> QED
      BY <3>1, <3>2
  <2> QED
    BY <2>3, <2>4, <2>5 DEF Told
<1>11. CASE CrashStep
  BY <1>11 DEF CrashStep, Killed, RaceAbort, Crash, DescriptorCrash, Lose, Told, Empty,
     Idle, Proc, LoadLabels
<1> QED
  BY <1>1, <1>2, <1>3, <1>4, <1>5, <1>6, <1>7, <1>8, <1>9, <1>10, <1>11
  DEF Next, CalmStep, BootStep, OtherStep

LEMMA CalmInit == ASSUME Calm, Init PROVE CalmInv
<1>1. NoAdd /\ SeedHeld
  BY DEF Init, NoAdd, RemoveLabels, SeedHeld, Idle, Proc
<1>2. Told
  BY DEF Init, Told, Idle, Empty, Proc, LoadLabels
<1>3. Aimed /\ Found
  BY DEF Init, Aimed, Found, Idle, Empty
<1> QED
  BY <1>1, <1>2, <1>3 DEF CalmInv

LEMMA CalmKeeps ==
    ASSUME Calm
    PROVE  AllInv /\ LoadInv' /\ InTurn' /\ [Next]_vars => CalmInv'
<1> SUFFICES ASSUME AllInv, LoadInv', InTurn', [Next]_vars PROVE CalmInv'
  OBVIOUS
<1>1. NoAdd' /\ Found' /\ Aimed' /\ Told'
  BY NoAddKeeps, FoundKeeps, AimedKeeps, ToldKeeps
<1>2. SeedHeld'
  BY SeedHeldKeeps DEF AllInv, CalmInv, SeedHeld
<1> QED
  BY <1>1, <1>2 DEF CalmInv

\* Callbacks that are handled in turn for each device, by calls that do not
\* fail, leave every cached device with the admin state of Core Metadata once
\* the last one about it is handled, for any number of goroutines, devices and
\* changes, whatever is removed meanwhile and however often the process
\* crashes; a change made while the process does not serve excepted.
THEOREM CalmAgrees == ASSUME Calm PROVE InTurnSpec => []AdminAgrees
<1>1. Init => InTurn
  BY DEF Init, InTurn, Handles, Idle
<1>2. InTurn /\ [Next /\ InTurn']_vars => InTurn'
  BY DEF InTurn, Handles, vars, locals
<1>3. InTurnSpec => []InTurn
  BY <1>1, <1>2, PTL DEF InTurnSpec
<1>4. InTurnSpec => [][Next]_vars
  BY PTL DEF InTurnSpec
<1>5. InTurnSpec => []IdentityInv
  BY <1>4, InitIdentity, NextKeepsIdentity, PTL DEF InTurnSpec
<1>6. InTurnSpec => []LoadInv
  <2>1. InTurnSpec => []TypeInv
    BY <1>4, InitType, NextKeepsType, PTL DEF InTurnSpec
  <2> QED
    BY <1>4, <2>1, LoadInit, LoadKeeps, PTL DEF InTurnSpec
<1>7. Init => CalmInv
  BY CalmInit
<1>8. IdentityInv /\ LoadInv /\ LoadInv' /\ InTurn' /\ CalmInv /\ [Next]_vars
        => CalmInv'
  BY CalmKeeps DEF AllInv
<1>9. InTurnSpec => []CalmInv
  BY <1>3, <1>4, <1>5, <1>6, <1>7, <1>8, PTL DEF InTurnSpec
<1>10. IdentityInv /\ CalmInv => AdminAgrees
  <2> SUFFICES ASSUME IdentityInv, CalmInv, NEW n \in Name, devices[n] # Nil,
                      alerts[devices[n].id] = 0,
                      \A g \in Proc : ~Handles(g, devices[n].id)
               PROVE  Agrees(n)
    BY DEF AdminAgrees
  <2>1. ~(alerts[devices[n].id] > 0) /\ ~Underway(devices[n].id)
    BY DEF Underway
  <2> QED
    BY <2>1 DEF CalmInv, Told, Agrees, Current
<1> QED
  BY <1>5, <1>9, <1>10, PTL
=============================================================================
