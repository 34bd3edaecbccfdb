----------------------------- MODULE DeviceCache -----------------------------
(***************************************************************************)
(* The device cache of a device service (devices.go), the part of the      *)
(* profile cache each cached device owns (profiles.go), the boot that      *)
(* fills them (newDeviceCache), the two ways they change afterwards        *)
(* (Service.AddDevice called by the protocol driver, and the admin state   *)
(* callback of Core Metadata), and Core Metadata itself, an external       *)
(* store seen through the client calls the code makes.                     *)
(*                                                                         *)
(* The caches are plain Go maps without a lock.  A step of a goroutine is  *)
(* one call to Core Metadata, or one access to one of the maps; goroutines *)
(* interleave between steps.  When two of them stand before conflicting    *)
(* accesses to one map the Go runtime may abort the process instead.       *)
(***************************************************************************)
EXTENDS Naturals, FiniteSets

CONSTANTS
    Id,            \* object ids Core Metadata can issue
    Name,          \* device names
    Addr,          \* names of addressables
    Profile,       \* device profiles, EmptyProfile among them
    EmptyProfile,  \* the profile without device resources
    Broken,        \* the profiles addDevice panics on, see DescriptorPanic
    Goroutine,     \* driver and HTTP handler goroutines
    Main,          \* the goroutine that runs Service.Start
    Nil,           \* an absent map entry, an invalid id, a nil pointer
    Seed,          \* the devices Core Metadata holds initially
    Offered,       \* the devices the driver may pass to AddDevice
    Ops,           \* the cache operations that are called
    Others,        \* what other services do to devices in Core Metadata
    Faults,        \* whether a client call can fail
    NotFoundError, \* whether a missing addressable is reported as an error
    MaxCalls,      \* bound: operations started by goroutines
    MaxChanges,    \* bound: changes other services make in Core Metadata
    MaxCrashes     \* bound: crashes of the process

AdminState == {"LOCKED", "UNLOCKED"}
OpState == {"ENABLED", "DISABLED"}
AllOps == {"Add", "Remove", "Update", "UpdateAdminState"}
AllOthers == {"ChangeAdmin", "Delete"}
Proc == Goroutine \cup {Main}

\* models.Device, as far as the cache looks at it.
Device == [id: Id \cup {Nil}, name: Name, admin: AdminState, opState: OpState,
           addr: Addr, profile: Profile]
KnownDevice == {d \in Device : d.id # Nil}

ASSUME CacheAssumption ==
    /\ Nil \notin Id \cup Name /\ Nil \notin AdminState
    /\ Nil \notin Profile /\ Nil \notin Device
    /\ Main \notin Goroutine
    /\ EmptyProfile \in Profile /\ Broken \subseteq Profile \ {EmptyProfile}
    /\ Seed \subseteq KnownDevice
    /\ \A d, e \in Seed : d.id = e.id \/ d.name = e.name => d = e
    /\ Offered \subseteq Device
    /\ Ops \subseteq AllOps /\ Others \subseteq AllOthers
    /\ Faults \in BOOLEAN /\ NotFoundError \in BOOLEAN
    /\ MaxCalls \in Nat /\ MaxChanges \in Nat /\ MaxCrashes \in Nat

VARIABLES
    meta,      \* Core Metadata: the device stored under each id
    addrs,     \* Core Metadata: the addressables that exist
    held,      \* history: the <<id, name>> pairs Core Metadata ever stored
    alerts,    \* admin state callbacks sent by Core Metadata, per id
    untold,    \* history: ids whose last admin change went without callback
    devices,   \* deviceCache.devices: name -> device
    names,     \* deviceCache.names: id -> name
    objects,   \* profileCache.objects: name -> profile it was built from
    commands,  \* profileCache.commands: name -> profile it was built from
    phase,     \* the process: "down", "loading" (newDeviceCache) or "up"
    boot,      \* newDeviceCache: devices of the list still to be added
    listed,    \* history: the list DevicesForService returned
    skipped,   \* history: the devices of the list whose Add failed
    pc,        \* what each goroutine does next
    op,        \* the operation it is in
    dev,       \* the device argument of Add, Remove and Update
    alert,     \* the locals of UpdateAdminState
    calls, changes, crashes

store == <<meta, addrs, held>>
notice == <<alerts, untold>>
cache == <<devices, names, objects, commands>>
process == <<phase, boot, listed, skipped>>
locals == <<op, dev, alert>>
bounds == <<calls, changes, crashes>>
vars == <<store, notice, cache, process, pc, locals, bounds>>

Empty(S) == [x \in S |-> Nil]
Idle(l) == [g \in Proc |-> l]

Init ==
    /\ meta = [i \in Id |-> IF \E d \in Seed : d.id = i
                            THEN CHOOSE d \in Seed : d.id = i ELSE Nil]
    /\ addrs \in SUBSET Addr
    /\ held = {<<d.id, d.name>> : d \in Seed}
    /\ alerts = [i \in Id |-> 0] /\ untold = {}
    /\ devices = Empty(Name) /\ names = Empty(Id \cup {Nil})
    /\ objects = Empty(Name) /\ commands = Empty(Name)
    /\ phase = "down" /\ boot = {} /\ listed = {} /\ skipped = {}
    /\ pc = Idle("idle") /\ op = Idle("none")
    /\ dev = Idle(Nil) /\ alert = Idle(Nil)
    /\ calls = 0 /\ changes = 0 /\ crashes = 0

Stored == {meta[i] : i \in {j \in Id : meta[j] # Nil}}
NameTaken(n) == \E d \in Stored : d.name = n

-----------------------------------------------------------------------------
(* How a goroutine moves on, returns, or returns an error to its caller.    *)

Goto(g, label) == pc' = [pc EXCEPT ![g] = label]

Return(g, label) ==
    /\ Goto(g, label)
    /\ op' = [op EXCEPT ![g] = "none"]
    /\ dev' = [dev EXCEPT ![g] = Nil]
    /\ alert' = [alert EXCEPT ![g] = Nil]

Done(g) == Return(g, "idle") /\ UNCHANGED process

\* Mutant of Fail: the loop of newDeviceCache ends at the first failure.
FailStopping(g) ==
    /\ Return(g, "idle")
    /\ skipped' = IF g = Main THEN skipped \cup {dev[g]} ELSE skipped
    /\ boot' = IF g = Main THEN {} ELSE boot
    /\ UNCHANGED <<phase, listed>>

\* Mutant of Fail: newDeviceCache tries a failed device again and again.
FailRetrying(g) ==
    IF g = Main THEN Goto(g, "Add") /\ UNCHANGED <<locals, process>> ELSE Done(g)

Fail(g) ==
    /\ Return(g, "idle")
    /\ skipped' = IF g = Main THEN skipped \cup {dev[g]} ELSE skipped
    /\ UNCHANGED <<phase, boot, listed>>

Continue(g, label) == Goto(g, label) /\ UNCHANGED <<locals, process>>

Call(g, name, d, a, label) ==
    /\ op' = [op EXCEPT ![g] = name]
    /\ dev' = [dev EXCEPT ![g] = d]
    /\ alert' = [alert EXCEPT ![g] = a]
    /\ Goto(g, label)

Start(g, name, d, a, label) ==
    /\ phase = "up" /\ pc[g] = "idle" /\ g # Main
    /\ name \in Ops /\ calls < MaxCalls
    /\ calls' = calls + 1
    /\ Call(g, name, d, a, label)
    /\ UNCHANGED <<store, cache, process, changes, crashes>>

(* deviceCache.Add: drop the cached device of that name, make sure Core      *)
(* Metadata has the addressable and the device, then fill the caches.       *)

AddDevice(g) == \E d \in Offered :
    /\ d.id = Nil \/ <<d.id, d.name>> \in held
    /\ Start(g, "Add", d, Nil, "Add")
    /\ UNCHANGED notice

\* Mutant of Add: the device goes over the one cached under its name.
AddOver(g) ==
    /\ pc[g] = "Add"
    /\ Continue(g, "AddressableForName")
    /\ UNCHANGED <<store, notice, cache, bounds>>

Add(g) ==
    /\ pc[g] = "Add"
    /\ Continue(g, IF devices[dev[g].name] # Nil THEN "DelObjects"
                   ELSE "AddressableForName")
    /\ UNCHANGED <<store, notice, cache, bounds>>

\* profileCache.removeDevice and the two deletes that follow it in Add and
\* in Remove.  The names entry is deleted under the id of the argument.
DelObjects(g) ==
    /\ pc[g] = "DelObjects"
    /\ objects' = [objects EXCEPT ![dev[g].name] = Nil]
    /\ Continue(g, "DelCommands")
    /\ UNCHANGED <<store, notice, devices, names, commands, bounds>>

DelCommands(g) ==
    /\ pc[g] = "DelCommands"
    /\ commands' = [commands EXCEPT ![dev[g].name] = Nil]
    /\ Continue(g, "DelName")
    /\ UNCHANGED <<store, notice, devices, names, objects, bounds>>

\* Mutant of DelName: Add leaves the old device in the devices map.
DelNameOnly(g) ==
    /\ pc[g] = "DelName"
    /\ names' = [names EXCEPT ![dev[g].id] = Nil]
    /\ Continue(g, IF op[g] = "Add" THEN "AddressableForName" ELSE "DelDevice")
    /\ UNCHANGED <<store, notice, devices, objects, commands, bounds>>

DelName(g) ==
    /\ pc[g] = "DelName"
    /\ names' = [names EXCEPT ![dev[g].id] = Nil]
    /\ Continue(g, "DelDevice")
    /\ UNCHANGED <<store, notice, devices, objects, commands, bounds>>

DelDevice(g) ==
    /\ pc[g] = "DelDevice"
    /\ devices' = [devices EXCEPT ![dev[g].name] = Nil]
    /\ IF op[g] = "Add" THEN Continue(g, "AddressableForName") ELSE Done(g)
    /\ UNCHANGED <<store, notice, names, objects, commands, bounds>>

\* A device with a valid id exists in Core Metadata already.
WithAddressable(g) == IF dev[g].id = Nil THEN "DeviceForName" ELSE "AddProfile"

\* The lookup reports an error: it failed, or that is how the client says that
\* there is no such addressable.
LookupFails(g) == Faults \/ (NotFoundError /\ dev[g].addr \notin addrs)

\* Mutant of AddressableForName: an addressable that an existing device lacks is
\* created like that of a new one.
AddressableForNameFixing(g) ==
    /\ pc[g] = "AddressableForName"
    /\ \/ dev[g].addr \in addrs /\ Continue(g, WithAddressable(g))
       \/ dev[g].addr \notin addrs /\ Continue(g, "AddAddressable")
       \/ Faults /\ Continue(g, "AddAddressable")
    /\ UNCHANGED <<store, notice, cache, bounds>>

\* The client answers a missing addressable with a zeroed struct, or with an
\* error.  An error ends the Add of a device that has an id, and counts as "not
\* found" for a new one.
AddressableForName(g) ==
    /\ pc[g] = "AddressableForName"
    /\ \/ dev[g].addr \in addrs /\ Continue(g, WithAddressable(g))
       \/ /\ dev[g].addr \notin addrs /\ ~NotFoundError
          /\ Continue(g, "AddAddressable")
       \/ LookupFails(g) /\ dev[g].id = Nil /\ Continue(g, "AddAddressable")
       \/ LookupFails(g) /\ dev[g].id # Nil /\ Fail(g)
    /\ UNCHANGED <<store, notice, cache, bounds>>

\* Mutant of AddAddressable: the error of the call is logged and ignored.
AddAddressableUnchecked(g) ==
    /\ pc[g] = "AddAddressable"
    /\ addrs' \in {addrs \cup {dev[g].addr}} \cup (IF Faults THEN {addrs} ELSE {})
    /\ Continue(g, WithAddressable(g))
    /\ UNCHANGED <<meta, held, notice, cache, bounds>>

\* A create call is refused when the name is taken.  It can take effect and
\* still report an error or an invalid id.
AddAddressable(g) ==
    /\ pc[g] = "AddAddressable"
    /\ \/ /\ dev[g].addr \notin addrs
          /\ addrs' = addrs \cup {dev[g].addr}
          /\ Continue(g, WithAddressable(g))
       \/ dev[g].addr \in addrs /\ Fail(g) /\ UNCHANGED addrs
       \/ /\ Faults
          /\ addrs' \in {addrs, addrs \cup {dev[g].addr}}
          /\ Fail(g)
    /\ UNCHANGED <<meta, held, notice, cache, bounds>>

\* A failed lookup returns a zero device and counts as "not found".
DeviceForName(g) ==
    /\ pc[g] = "DeviceForName"
    /\ \/ \E d \in Stored :
            /\ d.name = dev[g].name
            /\ dev' = [dev EXCEPT ![g].id = d.id]
            /\ Goto(g, IF dev[g].opState = d.opState THEN "AddProfile"
                       ELSE "UpdateOpState")
            /\ UNCHANGED <<op, alert, process>>
       \/ /\ ~NameTaken(dev[g].name) \/ Faults
          /\ Continue(g, "AddToMetadata")
    /\ UNCHANGED <<store, notice, cache, bounds>>

Fresh(i) == \A n \in Name : <<i, n>> \notin held

Create(d, i) ==
    /\ Fresh(i)
    /\ ~NameTaken(d.name)
    /\ meta' = [meta EXCEPT ![i] = [d EXCEPT !.id = i]]
    /\ held' = held \cup {<<i, d.name>>}

\* Mutant of AddToMetadata: the device is cached although it was not created.
AddToMetadataUnchecked(g) ==
    /\ pc[g] = "AddToMetadata"
    /\ \/ \E i \in Id :
            /\ Create(dev[g], i)
            /\ dev' = [dev EXCEPT ![g].id = i]
       \/ Faults /\ UNCHANGED <<meta, held, dev>>
    /\ Goto(g, "AddProfile")
    /\ UNCHANGED <<addrs, notice, cache, bounds, op, alert, process>>

AddToMetadata(g) ==
    /\ pc[g] = "AddToMetadata"
    /\ \/ \E i \in Id :
            /\ Create(dev[g], i)
            /\ \/ /\ dev' = [dev EXCEPT ![g].id = i]
                  /\ Goto(g, "AddProfile")
                  /\ UNCHANGED <<op, alert, process>>
               \/ Faults /\ Fail(g)
       \/ /\ NameTaken(dev[g].name) \/ Faults \/ ~\E i \in Id : Fresh(i)
          /\ Fail(g)
          /\ UNCHANGED <<meta, held>>
    /\ UNCHANGED <<addrs, notice, cache, bounds>>

\* The outcome of the call is logged and otherwise ignored.
UpdateOpState(g) ==
    /\ pc[g] = "UpdateOpState"
    /\ LET i == dev[g].id IN
         \/ /\ meta[i] # Nil
            /\ meta' = [meta EXCEPT ![i].opState = dev[g].opState]
         \/ (meta[i] = Nil \/ Faults) /\ UNCHANGED meta
    /\ Continue(g, "AddProfile")
    /\ UNCHANGED <<addrs, held, notice, cache, bounds>>

\* profileCache.addDevice up to the check that the profile has resources.
AddProfile(g) ==
    /\ pc[g] = "AddProfile"
    /\ IF dev[g].profile = EmptyProfile THEN Fail(g)
       ELSE Continue(g, "PutObjects")
    /\ UNCHANGED <<store, notice, cache, bounds>>

PutObjects(g) ==
    /\ pc[g] = "PutObjects"
    /\ objects' = [objects EXCEPT ![dev[g].name] = dev[g].profile]
    /\ Continue(g, "PutCommands")
    /\ UNCHANGED <<store, notice, devices, names, commands, bounds>>

PutCommands(g) ==
    /\ pc[g] = "PutCommands"
    /\ commands' = [commands EXCEPT ![dev[g].name] = dev[g].profile]
    /\ Continue(g, "PutDescriptors")
    /\ UNCHANGED <<store, notice, devices, names, objects, bounds>>

\* Mutant of PutDescriptors: an operation without its object is passed over.
PutDescriptorsLenient(g) ==
    /\ pc[g] = "PutDescriptors"
    /\ Continue(g, "PutDevice")
    /\ UNCHANGED <<store, notice, cache, bounds>>

\* Every descriptor is found or created; otherwise see DescriptorPanic.
PutDescriptors(g) ==
    /\ pc[g] = "PutDescriptors" /\ dev[g].profile \notin Broken
    /\ Continue(g, "PutDevice")
    /\ UNCHANGED <<store, notice, cache, bounds>>

\* Mutant of PutDevice: the id is not mapped to the name.
PutDeviceOnly(g) ==
    /\ pc[g] = "PutDevice"
    /\ devices' = [devices EXCEPT ![dev[g].name] = dev[g]]
    /\ Done(g)
    /\ UNCHANGED <<store, notice, names, objects, commands, bounds>>

\* The two stores that end addDeviceToMetadata and Update.
PutDevice(g) ==
    /\ pc[g] = "PutDevice"
    /\ devices' = [devices EXCEPT ![dev[g].name] = dev[g]]
    /\ Continue(g, "PutName")
    /\ UNCHANGED <<store, notice, names, objects, commands, bounds>>

PutName(g) ==
    /\ pc[g] = "PutName"
    /\ names' = [names EXCEPT ![dev[g].id] = dev[g].name]
    /\ Done(g)
    /\ UNCHANGED <<store, notice, devices, objects, commands, bounds>>

-----------------------------------------------------------------------------
(* deviceCache.Remove and deviceCache.Update: Core Metadata first, then the *)
(* caches.  The argument is a copy of a device that was in the cache.       *)

RemoveDevice(g) == \E n \in Name :
    /\ devices[n] # Nil
    /\ Start(g, "Remove", devices[n], Nil, "DeleteInMetadata")
    /\ UNCHANGED notice

DeleteInMetadata(g) ==
    /\ pc[g] = "DeleteInMetadata"
    /\ LET i == dev[g].id IN
         \/ /\ meta[i] # Nil
            /\ meta' = [meta EXCEPT ![i] = Nil]
            /\ Continue(g, "DelObjects") \/ (Faults /\ Done(g))
         \/ (meta[i] = Nil \/ Faults) /\ Done(g) /\ UNCHANGED meta
    /\ UNCHANGED <<addrs, held, notice, cache, bounds>>

UpdateDevice(g) == \E n, new \in Name, a \in AdminState :
    /\ devices[n] # Nil
    /\ Start(g, "Update", [devices[n] EXCEPT !.name = new, !.admin = a], Nil,
             "UpdateInMetadata")
    /\ UNCHANGED notice

Accepts(d) ==
    meta[d.id] # Nil /\ \A e \in Stored : e.name = d.name => e.id = d.id

\* Mutant of UpdateInMetadata: a refused update changes the cache all the same.
UpdateInMetadataUnchecked(g) ==
    /\ pc[g] = "UpdateInMetadata"
    /\ LET d == dev[g] IN
         IF Accepts(d) THEN /\ meta' = [meta EXCEPT ![d.id] = d]
                            /\ held' = held \cup {<<d.id, d.name>>}
         ELSE UNCHANGED <<meta, held>>
    /\ Continue(g, "DelOldDevice")
    /\ UNCHANGED <<addrs, notice, cache, bounds>>

UpdateInMetadata(g) ==
    /\ pc[g] = "UpdateInMetadata"
    /\ LET d == dev[g] IN
         \/ /\ Accepts(d)
            /\ meta' = [meta EXCEPT ![d.id] = d]
            /\ held' = held \cup {<<d.id, d.name>>}
            /\ Continue(g, "DelOldDevice") \/ (Faults /\ Done(g))
         \/ (~Accepts(d) \/ Faults) /\ Done(g) /\ UNCHANGED <<meta, held>>
    /\ UNCHANGED <<addrs, notice, cache, bounds>>

\* The name can have changed: drop the device under the name it had.
DelOldDevice(g) ==
    /\ pc[g] = "DelOldDevice"
    /\ LET old == names[dev[g].id] IN
         devices' = IF old # Nil THEN [devices EXCEPT ![old] = Nil]
                    ELSE devices
    /\ Continue(g, "PutDevice")
    /\ UNCHANGED <<store, notice, names, objects, commands, bounds>>

-----------------------------------------------------------------------------
(* The callback: UpdateAdminState looks the name up, fetches the device     *)
(* from Core Metadata, and writes through the name it looked up before.     *)

Callback(g) == \E i \in Id :
    /\ phase = "up" /\ pc[g] = "idle" /\ g # Main
    /\ "UpdateAdminState" \in Ops
    /\ alerts[i] > 0
    /\ alerts' = [alerts EXCEPT ![i] = @ - 1]
    /\ Call(g, "UpdateAdminState", Nil,
            [id |-> i, name |-> Nil, admin |-> Nil], "FindName")
    /\ UNCHANGED <<store, untold, cache, process, bounds>>

FindName(g) ==
    /\ pc[g] = "FindName"
    /\ LET n == names[alert[g].id] IN
         IF n = Nil THEN Done(g)
         ELSE /\ alert' = [alert EXCEPT ![g].name = n]
              /\ Goto(g, "FetchDevice")
              /\ UNCHANGED <<op, dev, process>>
    /\ UNCHANGED <<store, notice, cache, bounds>>

\* Mutant of FetchDevice: the admin state is read from the cache.
FetchDeviceCached(g) ==
    /\ pc[g] = "FetchDevice"
    /\ LET d == devices[alert[g].name] IN
         /\ d # Nil
         /\ alert' = [alert EXCEPT ![g].admin = d.admin]
    /\ Goto(g, "SetAdmin")
    /\ UNCHANGED <<op, dev, process, store, notice, cache, bounds>>

FetchDevice(g) ==
    /\ pc[g] = "FetchDevice"
    /\ LET d == meta[alert[g].id] IN
         \/ /\ d # Nil
            /\ alert' = [alert EXCEPT ![g].admin = d.admin]
            /\ Goto(g, "SetAdmin")
            /\ UNCHANGED <<op, dev, process>>
         \/ (d = Nil \/ Faults) /\ Done(g)
    /\ UNCHANGED <<store, notice, cache, bounds>>

\* Mutant of SetAdmin: only a lock is taken over.
SetAdminLocking(g) ==
    /\ pc[g] = "SetAdmin"
    /\ LET n == alert[g].name IN
         devices' = IF devices[n] # Nil /\ alert[g].admin = "LOCKED"
                    THEN [devices EXCEPT ![n].admin = "LOCKED"] ELSE devices
    /\ Done(g)
    /\ UNCHANGED <<store, notice, names, objects, commands, bounds>>

\* A nil device is dereferenced when the name is gone from the map.
SetAdmin(g) ==
    /\ pc[g] = "SetAdmin"
    /\ LET n == alert[g].name IN
         IF devices[n] = Nil
         THEN Return(g, "panicked") /\ UNCHANGED <<process, devices>>
         ELSE /\ devices' = [devices EXCEPT ![n].admin = alert[g].admin]
              /\ Done(g)
    /\ UNCHANGED <<store, notice, names, objects, commands, bounds>>

\* net/http recovers the panic of a handler: the request gets no answer.
Recover(g) ==
    /\ pc[g] = "panicked"
    /\ Continue(g, "idle")
    /\ UNCHANGED <<store, notice, cache, bounds>>

-----------------------------------------------------------------------------
(* The process: boot, crash, and the steps other services take.             *)

\* newDeviceCache makes empty caches and asks for the service's devices.
\* Start ignores the error of a failed query, which lists no device.
Boot ==
    /\ phase = "down"
    /\ phase' = "loading"
    /\ boot' \in {Stored} \cup (IF Faults THEN {{}} ELSE {})
    /\ listed' = boot' /\ skipped' = {} /\ untold' = {}
    /\ UNCHANGED <<store, alerts, cache, pc, locals, bounds>>

LoadNext == \E d \in boot :
    /\ phase = "loading" /\ pc[Main] = "idle"
    /\ boot' = boot \ {d}
    /\ Call(Main, "Add", d, Nil, "Add")
    /\ UNCHANGED <<store, notice, cache, phase, listed, skipped, bounds>>

Serve ==
    /\ phase = "loading" /\ pc[Main] = "idle" /\ boot = {}
    /\ phase' = "up"
    /\ UNCHANGED <<store, notice, cache, boot, listed, skipped, pc, locals,
                   bounds>>

\* The process ends and its memory with it.
Lose ==
    /\ devices' = Empty(Name) /\ names' = Empty(Id \cup {Nil})
    /\ objects' = Empty(Name) /\ commands' = Empty(Name)
    /\ phase' = "down" /\ boot' = {} /\ listed' = {} /\ skipped' = {}
    /\ alerts' = [i \in Id |-> 0]
    /\ pc' = Idle("idle") /\ op' = Idle("none")
    /\ dev' = Idle(Nil) /\ alert' = Idle(Nil)
    /\ UNCHANGED <<store, untold, calls, changes>>

Crash == crashes < MaxCrashes /\ crashes' = crashes + 1 /\ Lose

Killed == phase # "down" /\ Crash

\* addDevice dereferences a nil pointer: a descriptor is neither found nor
\* created as the call fails; or, each time anew, the profile is a Broken one.
\* It names an object it lacks for a parameter a command uses, whose descriptor
\* Core Data does not have.
CannotDescribe(g) ==
    /\ pc[g] = "PutDescriptors"
    /\ Faults \/ dev[g].profile \in Broken

\* Under an HTTP handler the panic is recovered; on a goroutine of the driver,
\* or in the boot, it ends the process.
DescriptorPanic(g) ==
    /\ CannotDescribe(g)
    /\ Return(g, "panicked")
    /\ UNCHANGED <<store, notice, cache, process, bounds>>

\* Only the crashes a failed call causes are bounded.
DescriptorCrash(g) ==
    /\ CannotDescribe(g)
    /\ IF dev[g].profile \in Broken THEN Lose /\ UNCHANGED crashes ELSE Crash

\* The map accesses goroutines stand before, by label.
WritesOf == [devices  |-> {"DelDevice", "DelOldDevice", "PutDevice"},
             names    |-> {"DelName", "PutName"},
             objects  |-> {"DelObjects", "PutObjects"},
             commands |-> {"DelCommands", "PutCommands"}]
ReadsOf == [devices  |-> {"Add", "SetAdmin"},
            names    |-> {"DelOldDevice", "FindName"},
            objects  |-> {},
            commands |-> {}]

Conflict(k, l) == \E m \in DOMAIN WritesOf :
    k \in WritesOf[m] /\ l \in WritesOf[m] \cup ReadsOf[m]

Racing == \E g, h \in Goroutine : g # h /\ Conflict(pc[g], pc[h])

\* The runtime notices concurrent map accesses and aborts the process.
RaceAbort == Racing /\ Crash

\* Core Metadata calls the service back about a changed admin state; the
\* call is lost when nothing listens.
ChangeAdmin == \E i \in Id, a \in AdminState :
    /\ "ChangeAdmin" \in Others /\ changes < MaxChanges
    /\ meta[i] # Nil /\ meta[i].admin # a
    /\ meta' = [meta EXCEPT ![i].admin = a]
    /\ IF phase = "up"
       THEN alerts' = [alerts EXCEPT ![i] = @ + 1] /\ untold' = untold \ {i}
       ELSE untold' = untold \cup {i} /\ UNCHANGED alerts
    /\ changes' = changes + 1
    /\ UNCHANGED <<addrs, held, cache, process, pc, locals, calls, crashes>>

\* The callback about a deletion is refused by callbackHandler.
Delete == \E i \in Id :
    /\ "Delete" \in Others /\ changes < MaxChanges
    /\ meta[i] # Nil
    /\ meta' = [meta EXCEPT ![i] = Nil]
    /\ changes' = changes + 1
    /\ UNCHANGED <<addrs, held, notice, cache, process, pc, locals, calls,
                   crashes>>

Resting == phase = "up" /\ pc = Idle("idle")
Rest == Resting /\ UNCHANGED vars

-----------------------------------------------------------------------------
AddStep(g) ==
    \/ Add(g) \/ DelObjects(g) \/ DelCommands(g) \/ DelName(g)
    \/ DelDevice(g) \/ AddressableForName(g) \/ AddAddressable(g)
    \/ DeviceForName(g) \/ AddToMetadata(g) \/ UpdateOpState(g)
    \/ AddProfile(g) \/ PutObjects(g) \/ PutCommands(g)
    \/ PutDescriptors(g) \/ PutDevice(g) \/ PutName(g)

HandlerStep(g) ==
    \/ DeleteInMetadata(g) \/ UpdateInMetadata(g) \/ DelOldDevice(g)
    \/ FindName(g) \/ FetchDevice(g) \/ SetAdmin(g) \/ Recover(g)

Begin(g) == AddDevice(g) \/ RemoveDevice(g) \/ UpdateDevice(g) \/ Callback(g)

Step(g) == AddStep(g) \/ HandlerStep(g)

BootStep == Boot \/ LoadNext \/ Serve
OtherStep == ChangeAdmin \/ Delete
CrashStep == Killed \/ RaceAbort \/ \E g \in Proc : DescriptorCrash(g)

CalmStep ==
    \/ \E g \in Proc : Step(g)
    \/ \E g \in Goroutine : Begin(g) \/ DescriptorPanic(g)
    \/ BootStep \/ OtherStep

Next == CalmStep \/ CrashStep \/ Rest

Spec == Init /\ [][Next]_vars

\* A Broken profile leaves the goroutine no step but the panic.
Breaks(g) ==
    /\ dev[g] # Nil /\ dev[g].profile \in Broken
    /\ DescriptorCrash(g) \/ (g # Main /\ DescriptorPanic(g))

\* Goroutines are scheduled, the process is (re)started, and a callback that
\* was sent is delivered to a handler.
Fairness ==
    /\ WF_vars(BootStep)
    /\ \A g \in Proc : WF_vars(Step(g)) /\ WF_vars(Breaks(g))
    /\ WF_vars(\E g \in Goroutine : Callback(g))

-----------------------------------------------------------------------------
\* Labels at which dev holds a device that has its id.
IdLabels == {"UpdateOpState", "AddProfile", "PutObjects", "PutCommands",
             "PutDescriptors", "PutDevice", "PutName", "DeleteInMetadata",
             "UpdateInMetadata", "DelOldDevice"}

\* Labels at which the addressable of dev is known to exist.
AddrLabels == IdLabels \cup {"DeviceForName", "AddToMetadata"}

DevLabels == AddrLabels \cup {"Add", "DelObjects", "DelCommands", "DelName",
             "DelDevice", "AddressableForName", "AddAddressable"}

\* Goroutine g is adding, removing or updating the device named n.
WorksOn(g, n) == pc[g] \in DevLabels /\ dev[g].name = n

\* The operations on one device do not overlap, and Update renames none.
Orderly ==
    /\ \A g, h \in Proc, n \in Name : WorksOn(g, n) /\ WorksOn(h, n) => g = h
    /\ \A g \in Proc : pc[g] = "UpdateInMetadata" =>
         <<dev[g].id, dev[g].name>> \in held

\* The caller keeps to that: the cache has no lock and does not see to it.
OrderlySpec == Init /\ [][Next /\ Orderly']_vars
FairOrderlySpec == OrderlySpec /\ Fairness

\* Goroutine g handles an admin state callback about the device with id i.
Handles(g, i) ==
    pc[g] \in {"FindName", "FetchDevice", "SetAdmin"} /\ alert[g].id = i

\* Callbacks about one device are handled one after the other.  net/http starts
\* a goroutine for each request and does not see to it either.
InTurn == \A g, h \in Proc, i \in Id : Handles(g, i) /\ Handles(h, i) => g = h

InTurnSpec == Init /\ [][Next /\ InTurn']_vars
FairInTurnSpec == InTurnSpec /\ Fairness

Labels == {"idle", "panicked", "Add", "DelObjects", "DelCommands", "DelName",
           "DelDevice", "AddressableForName", "AddAddressable",
           "DeviceForName", "AddToMetadata", "UpdateOpState", "AddProfile",
           "PutObjects", "PutCommands", "PutDescriptors", "PutDevice",
           "PutName", "DeleteInMetadata", "UpdateInMetadata", "DelOldDevice",
           "FindName", "FetchDevice", "SetAdmin"}

Alert == [id: Id, name: Name \cup {Nil}, admin: AdminState \cup {Nil}]

StoreOK ==
    /\ meta \in [Id -> KnownDevice \cup {Nil}]
    /\ \A i \in Id : meta[i] # Nil => meta[i].id = i
    /\ addrs \subseteq Addr /\ held \subseteq Id \X Name
NoticeOK == alerts \in [Id -> Nat] /\ untold \subseteq Id
CacheOK ==
    /\ devices \in [Name -> KnownDevice \cup {Nil}]
    /\ names \in [Id \cup {Nil} -> Name \cup {Nil}]
    /\ objects \in [Name -> Profile \cup {Nil}]
    /\ commands \in [Name -> Profile \cup {Nil}]
ProcessOK ==
    /\ phase \in {"down", "loading", "up"}
    /\ boot \subseteq KnownDevice /\ listed \subseteq KnownDevice
    /\ skipped \subseteq Device \cup {Nil}
LocalsOK ==
    /\ pc \in [Proc -> Labels] /\ op \in [Proc -> AllOps \cup {"none"}]
    /\ dev \in [Proc -> Device \cup {Nil}]
    /\ alert \in [Proc -> Alert \cup {Nil}]
BoundsOK == calls \in Nat /\ changes \in Nat /\ crashes \in Nat

\* Type invariant: every variable keeps its shape, every cached device has an
\* id, and Core Metadata files every device under its own id.
TypeOK == StoreOK /\ NoticeOK /\ CacheOK /\ ProcessOK /\ LocalsOK /\ BoundsOK

\* Whatever the interleaving and whichever calls fail, the cache never pairs
\* an id with a name unless Core Metadata stored that device under that name:
\* addDeviceToMetadata caches a device only under the id it looked up or was
\* issued, and no failed Add leaves a device without an id behind.
KnownIdentity ==
    /\ \A n \in Name : devices[n] # Nil =>
         devices[n].name = n /\ <<devices[n].id, n>> \in held
    /\ \A i \in Id \cup {Nil} : names[i] # Nil => <<i, names[i]>> \in held

SeedIds == {d.id : d \in Seed}

\* addDeviceToMetadata makes sure of the addressable first: every device in
\* the cache, and every device the service created in Core Metadata, refers
\* to an addressable that exists there.
AddressableExists ==
    /\ \A n \in Name : devices[n] # Nil => devices[n].addr \in addrs
    /\ \A i \in Id \ SeedIds : meta[i] # Nil => meta[i].addr \in addrs

\* DeviceById(id), which serves /device/{id}/{command}.
DeviceById(i) == IF names[i] = Nil THEN Nil ELSE devices[names[i]]

\* Core Metadata never stored two devices under one name.  It keeps names apart
\* among the devices it holds, but gives one out again after a deletion.
NamesUnique == \A p, q \in held : p[2] = q[2] => p[1] = q[1]

\* A device found by an id is the device with that id.  It follows from
\* KnownIdentity as long as NamesUnique.
IdentityStable == \A i \in Id : DeviceById(i) # Nil => DeviceById(i).id = i

Cached(n) ==
    /\ names[devices[n].id] = n
    /\ objects[n] = devices[n].profile /\ commands[n] = devices[n].profile

\* As long as the operations on one device do not overlap and Update renames
\* none, a cached device on which no goroutine works is found by its id and
\* owns the tables of its profile, whatever runs on other devices meanwhile:
\* Add, Remove, Update and UpdateAdminState keep the four maps together on
\* every early return.
CoherentAtRest == \A n \in Name :
    devices[n] # Nil /\ (\A g \in Proc : ~WorksOn(g, n)) => Cached(n)

\* Between two deletes or two stores the maps disagree about a name.
Halves == {"DelCommands", "DelName", "DelDevice", "PutName"}
Halfway(g, n) == pc[g] \in Halves /\ dev[g].name = n

\* What the four maps say of a name that no goroutine is halfway through.
Entry(n) ==
    IF devices[n] = Nil \/ \E g \in Proc : Halfway(g, n) THEN {}
    ELSE {[device |-> devices[n], found |-> names[devices[n].id],
           objects |-> objects[n], commands |-> commands[n]]}

Directory == INSTANCE DeviceDirectory WITH
    Device <- KnownDevice,
    directory <- [n \in Name |-> Entry(n)],
    issued <- held

\* As long as the operations on one device do not overlap and Update renames
\* none, the four maps are one directory of whole devices: a device enters and
\* leaves it in one step of the many an operation takes, under an id and a name
\* that belong together for good, and nothing but its admin state changes while
\* it is there, whoever works on the others.
ImplementsDirectory == Directory!Spec

\* What makes Add fail for a device of the list: a failed call, a profile
\* without resources, or an addressable that the client reports as missing.
Excused(d) ==
    Faults \/ d.profile = EmptyProfile \/ (NotFoundError /\ d.addr \notin addrs)

\* newDeviceCache accounts for every device of the list it was given: it is
\* still to come, being added, skipped for a reason Excused names, or cached in
\* all four maps, and then addDevice could digest its profile.  So a crash and
\* restart restores the cache, and no boot gets past a device with a Broken
\* profile unless it skips it.
LoadedCached == phase = "loading" => \A d \in listed :
    \/ d \in boot
    \/ pc[Main] # "idle" /\ dev[Main] = d
    \/ d \in skipped /\ Excused(d)
    \/ devices[d.name] = d /\ Cached(d.name) /\ d.profile \notin Broken

\* "If device exists in metadata, and lacks an Addressable, don't try to fix;
\* skip instead" (devices.go:224): the boot, whose devices all exist there,
\* creates no addressable.  It takes a client that reports what it does not find
\* as an error; after a zeroed struct addDeviceToMetadata does create it.
BootFixesNothing == [][NotFoundError /\ phase = "loading" => addrs' = addrs]_vars

Agrees(n) ==
    LET i == devices[n].id IN
      meta[i] # Nil /\ i \notin untold => devices[n].admin = meta[i].admin

\* Callbacks about one device that are handled one after the other leave it with
\* the admin state of Core Metadata once the last of them is handled, whatever
\* callbacks about other devices do meanwhile.
AdminAgrees == \A n \in Name :
    devices[n] # Nil /\ alerts[devices[n].id] = 0
      /\ (\A g \in Proc : ~Handles(g, devices[n].id)) => Agrees(n)

\* Core Metadata's changes stop, so every admin state reaches the cache and
\* stays.
AdminConverges == <>[](\A n \in Name : devices[n] # Nil => Agrees(n))

\* Core Metadata holds a device that addDevice panics on.
Poisoned == \E d \in Stored : d.profile \in Broken

\* Neither failed calls nor crashes at any point, a panic of the boot included,
\* keep the process from serving again; only a device with a Broken profile
\* does.  addDeviceToMetadata creates it before addDevice panics, every boot
\* lists it and panics again, and no bound ends that loop: the process recovers
\* once Core Metadata no longer holds such a device.
Recovers == <>[]~Poisoned => <>[](phase = "up")

\* A lookup made by FindName is still good when SetAdmin uses it: no callback
\* dereferences a device that left the cache meanwhile.
NoPanic == \A g \in Proc : pc[g] # "panicked"

-----------------------------------------------------------------------------
(* The strengthening the proofs use: what the locals of a goroutine satisfy  *)
(* at each label.                                                            *)

Ready == \A g \in Proc :
    /\ pc[g] \in DevLabels => dev[g] \in Device
    /\ pc[g] \in IdLabels => dev[g] \in KnownDevice
    /\ pc[g] \in {"FindName", "FetchDevice", "SetAdmin"} => alert[g] \in Alert
    /\ pc[g] \in {"FetchDevice", "SetAdmin"} => alert[g].name \in Name
    /\ pc[g] = "SetAdmin" => alert[g].admin \in AdminState

TypeInv == TypeOK /\ Ready

\* Core Metadata stored the device under this id and name.
Vouched ==
    /\ \A g \in Proc :
         pc[g] \in DevLabels \ {"UpdateInMetadata"} /\ dev[g].id # Nil =>
           <<dev[g].id, dev[g].name>> \in held
    /\ \A d \in boot : <<d.id, d.name>> \in held
    /\ \A i \in Id : meta[i] # Nil => <<i, meta[i].name>> \in held

Backed == \A g \in Proc : pc[g] \in AddrLabels => dev[g].addr \in addrs

=============================================================================
