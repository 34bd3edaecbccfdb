# TLA+ models and proofs of the EdgeX device SDK for Go

The SDK is the library a *device service* is built from. A device service keeps
a protocol driver, caches of its devices and their profiles, and an HTTP server
through which other services send commands to the devices. It uses three other
services: Core Metadata (devices, profiles, addressables, schedules), Core Data
(value descriptors, events) and Consul (registration, health). They are external
here: their behaviour is what the client calls in `src/` rely on.

This directory holds TLA+ modules for the parts of the SDK that keep state, TLC
configurations that check them on small instances, and TLAPS proofs of the
properties that matter most for every value of the constants.
`PROJECT.json` lists runs, theorems, mutants, the source lines every definition
stands for, and the hazards the properties are for.

## 1. Inventory

| Part (source) | State | Operations | Talks to |
|---|---|---|---|
| Device cache (`devices.go`) | maps `devices` (name → device) and `names` (id → name), no lock | `newDeviceCache`, `Add`, `AddById`, `Update`, `UpdateAdminState`, `Remove`, `DeviceById`; some stubs | Core Metadata, profile cache |
| Profile cache (`profiles.go`) | maps `objects` and `commands` per device name, list `descriptors`, no lock | `addDevice`, `removeDevice`, `CommandExists`, `GetResourceOperations`, `getDeviceObjectByName`; `loadProfiles` imports files | Core Data, Core Metadata |
| Command endpoint (`command.go`) | locals of each request | `commandFunc`, `executeCommand`, `sendEvent`; `commandAllFunc` | both caches, driver, Core Data |
| Admin state callback (`update.go`) | none | `callbackHandler` → `UpdateAdminState` | device cache |
| Start and registration (`service.go`) | `svc.ds`, `svc.initAttempts`, `svc.stopped` | `Start`, `attemptInit`, `Stop`, `AddDevice` | everything |
| Dependency check (`clientinitializer.go`) | wait group, recursion, a URL per client | `checkServiceAvailable`, `initializeClients`, `checkClientsInitialSuccessful` | Core Data, Core Metadata, Consul |
| Schedules (`schedules.go`) | two slices, no lock, sharing the arrays of the configuration | `addSchedules`, `addScheduleEvents`; operations of `ScheduleCache` (called by tests only) | Core Metadata |
| Consul registry (`registry/`, `utils.go`) | client configuration, a channel per client, the key/value store | `checkConsulUp`, `Init`, `CheckKeyValuePairs`, `GetServiceEndpoint`, `Monitor` | Consul |
| Async readings (`async.go`) | channel | `processAsyncResults` | driver, Core Data |
| Command results (`commandresult.go`) | none | constructors, encoding as bytes, `toString`, `Reading` | – |
| Comparison of devices (`devices.go`) | none | `compareDevices` and its helpers | – |
| Configuration, control, status, watchers, driver interfaces, example, mocks | constants or none | – | – |

How they interact. `Service.Start` runs on the main goroutine: configuration,
Consul, dependencies, schedules, registration, caches, driver, HTTP server. From
then on three kinds of goroutines meet in the caches: the driver's, which call
`Service.AddDevice`; HTTP handlers of the callback, which write admin states; and
HTTP handlers of commands, which read four maps one after the other. Nothing
orders them. Core Metadata changes on its own, and tells the service about admin
state changes by the callback, once. With Consul every client has a monitor goroutine
besides, which looks its service up again and again and hands the URL over through
a channel while the start is already calling.

What is hard. (a) Caches without a lock, spread over four maps, changed by
operations that make up to five remote calls. (b) A device has two identities, a
name and an id, the second of which it gets during `Add`. (c) Lookups before a
remote call whose result is used after it (`UpdateAdminState`, `commandFunc`).
(d) Remote calls that fail, or take effect and lose their answer; most errors are
logged and the code goes on. (e) Boot and registration after a crash at any
point, with whatever was left in Core Metadata. (f) Functions that call
themselves until a dependency answers. (g) Tables keyed by lower-cased names beside tables keyed by exact names.
(h) Slices that share an array, and are changed in place. (i) Check-then-act on
stores others write to: the key/value store, and the list of profiles, which is
fetched once.

What makes each part correct.

* *Device cache*: no id is ever paired with a name that Core Metadata did not
  store; every cached device has its addressable; a cached device is found by its
  id and owns the tables of its profile; a boot accounts for every device, and
  leaves alone what it cannot load; admin states converge to Core Metadata's.
* *Profile cache*: the two tables say what the profile says; every operation they
  can return has its object, and its descriptor when one is used; a nil
  dereference has a reason outside the loops of `addDevice`.
* *Command endpoint*: a locked device gets no command; a request that no change
  overlaps is answered as one look at the maps says; events are complete; every
  request ends.
* *Start*: nothing is created before the dependencies answered; one record under
  the service's name, whichever answers are lost; an attempt that is lost lost a
  call of its own; the seeding is complete but for failed calls; the service
  serves in the end.
* *Endpoints*: a client calls no address its service was never registered with;
  the clients the start asked have a URL when the seeding begins; the URLs follow
  the services; the start gets past its waiting.
* *Configuration store*: a check that ends, however it ends, leaves the fields it
  passed with values of the store and the others alone; instances agree with the
  store but for edits and two writers; a panic or an error has a reason.
* *Import*: an import that ends by itself leaves a profile for every file but those
  whose own read or call failed.
* *Schedule cache*: it behaves as two lists, whatever shares their arrays; slices
  taken before an addition do not see it.
* *Results and comparison*: the text of a reading denotes the driver's value; two
  devices that compare equal share what the comparison is about.

## 2. Modules

| Module | What it is |
|---|---|
| `DeviceCache` | device cache, boot, callback, crash, and Core Metadata as far as they see it; implements `DeviceDirectory` |
| `DeviceDirectory` | abstract specification of the device cache: whole devices that enter and leave in one step |
| `ProfileTables` | the loops of `addDevice` and the lookups as operators (folds over the profile) |
| `ProfileCache` | `addDevice`/`removeDevice` over a family of profiles, with Core Data's descriptors |
| `CommandService` | command handlers; extends `DeviceCache` (composition) and `ProfileTables` |
| `ProfileImport` | `loadProfiles` over a directory, with Core Metadata's profiles and restarts |
| `Registration` | abstract specification of the registration |
| `ServiceStart` | `Service.Start` and what it calls; implements `Registration` |
| `Endpoints` | the dependency check, the clients' URLs and their monitors |
| `ConfigStore` | `CheckKeyValuePairs` by several instances over one store |
| `NamedLists` | abstract specification of the schedule cache |
| `ScheduleCache` | `ScheduleCache` over slices and arrays; implements `NamedLists` |
| `CommandResults` | typed results, their bytes and texts |
| `DeviceCompare` | `compareDevices` and its helpers as operators |
| `MCDeviceCache`, `MCCommandService`, `MCServiceStart` | instances for TLC |
| `MCParts` | one instance for the modules that share no state while they run |
| `DeviceCache_proofs` | theorems about `DeviceCache` whatever runs concurrently: types, identity, addressables |
| `DeviceCacheRest_proofs` | theorems about what its four maps say together: in the boot, where nobody works, as a directory, after the last callback |
| `CommandService_proofs` | theorems about `CommandService` and its relation to `DeviceCache` |
| `ProfileTables_proofs` | lemmas about folds, and what the loops of `ProfileTables` compute |
| `Profiles_proofs` | theorems about `ProfileCache` and `ProfileImport` |
| `ServiceStart_proofs` | theorems about `ServiceStart`, which implements `Registration` |
| `Registry_proofs` | theorems about `Endpoints` and `ConfigStore` |
| `Sequential_proofs` | theorems about `ScheduleCache`, which implements `NamedLists`, `CommandResults` and `DeviceCompare`, and about the instance `MCParts` of all seven parts |

### Correspondence with the code

**DeviceCache.** `devices`, `names`, `objects` and `commands` are the four maps;
a table of the profile cache is represented by the profile it was built from (what
is in it is `ProfileTables`' subject). `pc`, `op`, `dev`, `alert` are a
goroutine's program counter and the arguments and locals of the operation it is
in. One step is one client call or one map access, so every interleaving the Go
scheduler can produce between calls and accesses is there. An access that spans
one statement reading a map and acting on its result is one step; two
goroutines in front of conflicting accesses to one map may instead make the
runtime abort the process (`RaceAbort`), which is what a concurrent map access
does in Go when it is noticed. `Fail` is the error path of `Add`: the boot counts
the device as skipped, a driver gets the error. Client calls have the outcomes the
code distinguishes: success, refusal (the name is taken, or nothing is there),
failure without effect, and, under `Faults`, failure after the effect, which
covers both a lost answer and an id that is no object id. `DescriptorPanic` and
`DescriptorCrash` are the nil dereference of `addDevice` (`profiles.go:414`),
recovered under `net/http`, fatal on any other goroutine. It follows a failed
`createDescriptor`, which happens again only if a call fails again; and it follows
from some profiles at every attempt, those in `Broken`. Such a profile names, for a
parameter one of its commands uses, an object that it does not define, and Core Data has no
descriptor of that name. Where a missing addressable shows
is up to the client: `addDeviceToMetadata` allows for an error and for a zeroed
struct, the repository's mock reports an error. `NotFoundError` chooses: with an error
a device that has an id is skipped, with a zeroed struct its addressable is
created. `Excused` names the reasons for which the boot may skip a device. `Update`
reads `names` and deletes from `devices` in one step (`DelOldDevice`).

The histories `held` (every id/name pair Core Metadata ever stored), `listed`,
`skipped` (the boot's list) and `untold` (admin changes made while nothing
listened) are read by properties only. `WorksOn`, `Halfway` and `Handles` say who is at
work on a device, between two accesses that belong together, or with a callback.
`NamesUnique` says of `held` that Core Metadata
never stored two devices under one name: it keeps names apart among the devices it
has, but gives one out again after a deletion. Under it an id leads to no other
device.

**DeviceDirectory.** The cache as its callers would like to see it: `Enter` puts a
whole device in (its record, the name its id leads to, the profiles of its two tables),
under an id Core Metadata issued for its name; `SetAdmin` changes its admin state,
`Withdraw` takes it out, `Clear` is a crash. `Entry` maps the four maps to it: a name
somebody is halfway through has no entry.

**ProfileTables, ProfileCache.** A profile is the list of its resources with
their get and set operations, the list of its device resources with their
read/write letters, and the descriptors its commands use. `Lower` is
`strings.ToLower`. `DevOps`, `DevObjs` and `OpList` fold the loops of `addDevice`
over the profile, `Put` is the assignment to a map; `Describe` is the descriptor loop; a
creation that fails may have taken effect (`landed`), as with an answer that is no
object id. `ProfileCache` compares the
result with a direct, declarative description (`Expected`).

**CommandService.** A handler reads `names`, then `devices` (with the admin state,
right after), then `commands` (existence of the command), again `commands` (the
operations), `objects` (all operations have an object), calls the driver, and
reads `objects` again for every result. Each is a step; the cache operations of
`DeviceCache` run between them. An event goes to a goroutine of its own.
`LockedNotDispatched` is conditional on `NamesUnique` because the code needs it: when
another device gets the name between the two lookups of `DeviceById`, that device is
checked and sent the command, and the one asked for may have been locked throughout.
The driver is assumed to return one result per request, in their order, which the
interface suggests and nobody checks.

**ServiceStart.** `stage` is the next call `Start` makes. The recursion of
`checkClientsInitialSuccessful` is the counter `frames` of outer calls that go on
when the inner one returns; its second recursive call is in tail position and adds
no frame. The goroutines of `checkServiceAvailable` are the set `waiting`. A create
call has one of the outcomes created, refused, lost, unanswered (created, the
answer lost) or garbled (created, a malformed id): in the seeding the last one panics in `bson.ObjectIdHex`, in `attemptInit` it is an error.

**Endpoints.** `url` is the field the client's goroutine sets, `pending` the URL in
its channel and the one its monitor is blocked with. `Monitor` is one lookup and its
send: a failed lookup is only reported, and a URL made of the zero endpoint is sent
all the same. `Local` separates Consul's catalog, which the health check reads, from
the list of the connected agent, which `GetServiceEndpoint` reads. The order of the
seeding itself and the recursion are `ServiceStart`'s.

**ConfigStore.** An instance walks over the fields; `at` says which client call comes
next, or how the check ended. `GetPair` and `GetAgain` are the two `Get`s of
`CheckKeyValuePairs`, the first one in order to see whether the key is there.
`Junk` is a text `strconv` refuses; a field of a kind without a `case` is skipped.
`had`, `puts` and `edited` are histories. The store may hold `Junk` from the start.
The refusal of a client that was never initialised is left out.

**ProfileImport.** `listed` is the answer to `Profiles()` at the beginning, `file` the
loop variable, `imported` the keys of `pc.profiles`. A file that cannot be read or
parsed is offered with the name the parser had got to: its own or none.

**ScheduleCache, NamedLists.** A slice is an array and a length, `append` and the
removal `append(s[:i], s[i+1:]...)` do to the array what Go does. `held` is a slice
somebody else has: the configuration's, or a copy of the header that the pointer
`GetAllSchedules` returned leads to. Through the pointer itself additions show, so
`SnapshotKept` is about copies. It is about additions only; a removal moves entries
under every slice of the array.

**CommandResults.** A result keeps `bytes`, and `toString` reads `Width` of them back:
`BinaryRead` adds the digits up modulo the values of the type, `Weight` is a digit's.
A text is represented by what it denotes; of a float that is the error of the
read, never its value. `HandleFilled` is a driver that fills in the fields itself,
with the bytes of one type and the name of another.

**DeviceCompare.** Fields compared with `==` are one field `head`. `compareResources`
does what the code does: `Get` of one side against `Set` of the other, and only if
the names differ.

## 3. Runs

`cd tla; tlc -config X.cfg M`. Constants and bounds are in the `.cfg`.

| Run | Module | Asks |
|---|---|---|
| `cache_concurrent` | MCDeviceCache | two goroutines, three operations, callbacks, failing calls, a crash, a change elsewhere: `TypeOK`, `KnownIdentity`, `AddressableExists` |
| `cache_orderly` | MCDeviceCache | two goroutines that never work on one device, all operations (`Update` keeps the name), failing calls, panics, a profile that names a missing object, a change elsewhere, two crashes: `CoherentAtRest`, `LoadedCached`, `ImplementsDirectory`, `Recovers` |
| `cache_calm` | MCDeviceCache | three devices, one without resources, any addressables missing, which the client reports as errors; no other failing calls, two goroutines with callbacks, those about one device in turn, a removal, three changes elsewhere, a crash: `LoadedCached`, `BootFixesNothing`, `AdminAgrees`, `AdminConverges` |
| `parts` | MCParts | seven parts, below |
| `command` | MCCommandService | a request overlapping a re-add or removal, an admin change, a crash: `CmdTypeOK`, `AtomicAnswer`, `EventComplete`, `LockedNotDispatched`, `Answered` |
| `start` | MCServiceStart | Consul, a schedule, two events, four failed calls, a kill: `StartTypeOK`, `AskedFirst`, `AttemptsPaid`, `Seeded`, `Registers`, `EventuallyServes` |

`parts` runs the modules that share no state while they run. A behaviour chooses one
part in `PartInit` and leaves the others as they start, so the numbers of states add
up and are not multiplied; with a smaller `Part` in the `.cfg` one part is checked
alone.

| Part | Instance | Properties |
|---|---|---|
| profiles | 64 profiles with names that differ in case only, two changes, failing descriptor calls | `TablesMatch`, `Described`, `Resolvable`, `PanicExplained` |
| import | four files, two of one name, two starts, two troubles, two changes by others | `ImportAccounts` |
| schedules | two schedules, two events of one name, three calls, arrays with and without room | `ImplementsLists`, `UpdateVisible`, `SnapshotKept` |
| results | every value of every type, with bytes of two values | `ReadingExact` |
| compare | devices that differ in one or two parts, lists that are prefixes of one another | `CompareAgrees` |
| config | two instances with different values, a string, a number and a struct, two edits, a failed call | `ConfigFromStore`, `StoreWins`, `EarlyEndsBlamed` |
| endpoints | two clients of two dependencies, two addresses, three moves, a failed lookup | `UrlOfService`, `ProbedReady`, `UrlConverges`, `StartsUp` |

What the bounds leave in. Two ids and two names are enough for a device to lose
its id and get another and for a name to be taken; in
`cache_calm` a third device has no resources, so the boot skips it, and it skips the others
when their addressable is missing. Two goroutines
suffice for every pair of conflicting steps: no operation waits for two others. In
`cache_concurrent`, three operations allow
add–remove–add of one device by concurrent callers. In `cache_orderly` two goroutines can
be in the middle of two devices at once, or one can start again behind the other; the
devices they add include a known one with another profile, under its id and without one,
one without resources and one with a `Broken` profile. Three changes in `cache_calm` are two about one device with
callbacks under way, and a deletion or a change of another. Two crashes in
`cache_orderly` allow a crash during the recovery from one. The bound counts what a kill, a race or a
failed call ends; the crashes of a `Broken` profile are not counted, and the
process goes through them for as long as Core Metadata has the device. In `start`, four failures exceed the two attempts, so giving up
happens, and reach every nesting of two lost answers in one attempt. Command
requests come one at a time because handlers only read: two of them do not
influence each other except through the maps. In the profiles part two changes (a
build and another, or a removal, or a loss of a descriptor) relate one `addDevice` to
the descriptors an earlier one left. Four files let the one name be offered, listed
or refused twice with a file behind it. Three calls of the schedule cache are a
removal, the addition that reuses its slot, and a look at a slice taken between
them. A byte of two values keeps `Uint64` at 256 values and has every boundary
of sign and width. Two instances suffice for `StoreWins`, which is about pairs;
two edits delete a key and bring it back. Three moves start both dependencies and
move one of them while the start goes on.

`SYMMETRY` is used only in `cache_concurrent`, which checks invariants only, over
the two goroutines. The specifications of `cache_orderly` and `cache_calm`,
`FairOrderlySpec` and `FairInTurnSpec`, are `Spec` with fairness and with the behaviours left out in which two operations on one
device overlap, or two callbacks about one (section 4 says why). `CHECK_DEADLOCK FALSE` is
used only with `MCParts` (`parts`, `seed_ready`), whose parts are algorithms and bounded sequences of calls that end. Elsewhere deadlock is checked: a service
that rests takes the explicit step `Rest` (`Serving`), every other state without a
successor is an error.

Each property of a passing run has a *mutant*: a definition changed the way a bug
would change it (`…Unchecked`, `…Skipped`, `FailStopping`, `DevObjsLower`, …),
for which the property fails in the same run.

### Fairness

* `DeviceCache!Fairness`, in both specifications that have it: every goroutine that is
  in an operation keeps running (the Go scheduler is fair, and client calls return, with an error at
  worst), `newDeviceCache` goes on and the process is started again after a
  crash (that is what runs the service does), and some callback that was sent is
  delivered to a handler. No fairness for driver calls, failures, crashes or
  changes elsewhere. `Breaks` makes a goroutine in front of a `Broken` profile's
  descriptors take its panic, the only step it has. `Recovers` is conditional: Core
  Metadata holds no device with such a profile from some time on. Weak fairness is enough: what is enabled stays so. Where operations
or callbacks wait for one another, it is for steps the conditions never block: only the
beginning of an operation waits, and what it waits for ends.
* `FairCmdSpec`: handlers run and the driver's `HandleCommands` returns. Nothing
  is assumed of the caches, so `Answered` shows a handler never waits for them.
* `ServiceStart!FairSpec`: one condition for all steps of `Start`, which is one
  goroutine (with its wait group), and one for launching it. A failing call is a step
  too, so fairness does not force calls to succeed; the bound on failures does.
* `EndpointFairness`: the start's goroutine, each goroutine of the dependency check,
  and each client's two goroutines (the monitor's sleep ends, the receiver takes
  what is there). Nothing makes a dependency start: `StartsUp` assumes both stay
  available from some time on, and `UrlConverges` compares with what Consul lists.

### Where the code disagrees with its own texts

Six runs end in a counterexample of a property that a text of the repository
states (`findings` in `PROJECT.json` quotes it).

* `callback_panic` – `Add` deletes `names` under the id of its argument, which is
  invalid for a device the driver offers as new. After an `Add` that fails (a
  profile without resources) the old id still leads to a name that is no longer in
  `devices`, and the next callback dereferences nil in `UpdateAdminState`.
* `callback_order` – two callbacks for one device: the older fetch can be written
  last, and no later callback corrects it.
* `wrong_device` – a device deleted elsewhere and re-added keeps its former id in
  `names`: a command to the former id reaches the new device.
* `command_put` – operations are looked up by HTTP method (`put`), the tables are
  keyed `get` and `set`: no PUT reaches the driver.
* `events_reach` – addressables of schedule events copy protocol, address and port from `svc.ds` before the registration sets it.
* `seed_ready` – `checkClientsInitialSuccessful` asks the clients "needed
  immediately" but not the addressable client, which the seeding of events uses; it
  may have no URL yet, and the events are dropped.

Met while reading, without a run of their own: a device whose profile names a missing
object is created in Core Metadata before `addDevice` panics on it
(`profiles.go:414`), so that every boot lists it and panics again until somebody
deletes it (the condition of `Recovers`); when the client answers a missing
addressable with a zeroed struct, the boot creates the one an existing device
lacks, against the comment at `devices.go:224` (the condition of
`BootFixesNothing`); command handlers read Go maps that
other goroutines write (`command.go:21`); `Add` of a known device caches the
caller's admin state rather than Core Metadata's (`devices.go:283`); two events of
one name in the example configuration, of which one is dropped, while `config.go`
asks for unique names; `Stop` does not stop the HTTP server (`service.go:293`); the
async channel is receive-only for the driver (`protocoldriver.go:31`);
`commandAllFunc` is shadowed by the route registered before it; the service is
registered in Consul before its configuration is validated and is never
deregistered; `compareResources` compares one side's `Get` with the other's `Set`;
the text of a float result is that of its error (`commandresult.go:353`, a TODO); an
origin is in seconds when the SDK sets it; a profile file that could not be parsed is
imported under the name read so far, and repairing the file does not change the
profile, because the name is there; removing a schedule from the cache shifts the
entries of the configuration's slice, too; two instances that both find a key absent
both put theirs, and the first keeps a value the store lost; the health check reads
Consul's catalog, the endpoint lookup only the connected agent's services.

## 4. Proofs

`tlapm M.tla` checks a module; every leaf is proved by SMT (Z3), Zenon or, for the
temporal steps, LS4.

### Assumptions

The proofs assume what the modules assume of their constants, which TLC evaluates in
the runs. Most of it says that markers such as `Nil`, `NoUrl`, `NoEntry` or `Junk` are
no values, that configured lists are sequences and that bounds are numbers:
`CacheAssumption` (besides: the seed has distinct ids and names, `Main` is no other
goroutine), `StartAssumption`, `EndpointAssumption`, `ConfigAssumption`,
`ImportAssumption`, `ScheduleAssumption`, `CommandAssumption`. `WordAssumption` says that
`Lower` is idempotent and `NoObject` no word, `ProfileAssumption` that profiles have the
shape of `models.DeviceProfile`, `CompareAssumption` the same of the devices that are
compared. `ResultAssumption` lets a byte have any even number of values; the machine's
256 is one. Nothing is assumed of what a loop computes.

Where the code promises something only to callers that keep to a rule, the rule is in
the specification, or a hypothesis on the constants:

* `Orderly`: operations on one device do not overlap, and `Update` keeps the name.
  Nothing in the cache sees to that. An `Add` and a `Remove` of one device at once leave
  the maps apart (with `Spec` for `OrderlySpec` `CoherentAtRest` fails). `Update`
  stores a device under its new name but leaves its tables under the old one
  (`devices.go:189`); and a device that was renamed and is added again as it was is cached
  under two names, whoever waits for whom. Operations on other devices may overlap in
  any way, and so may every callback.
* `InTurn`: callbacks about one device are handled one after the other; without it
  `callback_order` is the counterexample. Callbacks about others may overlap.
* `Calm`: no call fails, and nobody calls `Add` or `Update`. A failed fetch of a callback
  is logged and never repeated, and `Add` of a known device caches the caller's admin
  state (`devices.go:283`); either leaves a device wrong with no callback to come.
  Removals, deletions elsewhere, restarts and any number of goroutines stay.
* `Serial`: one goroutine beside `newDeviceCache`, and nobody calls `Update`. It implies
  the first two (`SerialOrderly`).

`cache_orderly` and `cache_calm` are instances of the first three; `callback_panic` and
`wrong_device`, which fail for other reasons, have constants that satisfy `Serial`.

`LockedStay` and `IdentityStableUnique` have `NamesUnique` in the formula they prove,
of the state and not of the constants. The attempt to prove `LockedNotDispatched`
without it failed for a reason TLC then showed: a `Remove` and an `Add` between the two
lookups of `DeviceById` give the name to an unlocked device, and the command for the
locked one goes there.

### Theorems

| Theorem | Says | Argument |
|---|---|---|
| `TypeCorrect` | `Spec => []TypeOK` of `DeviceCache` | `TypeInv` |
| `IdentityKnown` | `Spec => []KnownIdentity` | `TypeInv`, `Vouched` |
| `IdentityStableUnique` | `Spec => [](NamesUnique => IdentityStable)` | `IdentityKnown` |
| `AddressableFirst` | `Spec => []AddressableExists` | `TypeInv`, `Backed` |
| `BootAccounts` | `Spec => []LoadedCached` | `LoadInv` |
| `BootCreatesNone` | `Spec => BootFixesNothing` | `LoadInv` |
| `OrderlyCoherent` | `OrderlySpec => []CoherentAtRest` | `OrderlyInv` |
| `OrderlyDirectory` | `OrderlySpec => ImplementsDirectory`: the four maps implement `DeviceDirectory` | `OrderlyInv`, `NextDirects` |
| `SerialOrderly` | `Serial`: `Spec => OrderlySpec /\ InTurnSpec` | `SerialInv` |
| `SerialCoherent` | `Serial`: `Spec => []CoherentAtRest /\ ImplementsDirectory` | from the three above |
| `CalmAgrees` | `Calm`: `InTurnSpec => []AdminAgrees` | `CalmInv`, `LoadInv` |
| `CommandsOnlyRead` | `CmdSpec => Spec`: the composition with the command endpoint implements `DeviceCache` | `BusyServed` |
| `IdentityKnownUnderCommands`, `AddressableFirstUnderCommands` | `KnownIdentity` and `AddressableExists` of the composition | from the theorems above |
| `CommandTypeCorrect` | `CmdSpec => []CmdTypeOK` | `CmdInv` |
| `CommandsAnsweredAtomically` | `CmdSpec => []AtomicAnswer` | `CmdInv` |
| `EventsComplete` | `CmdSpec => []EventComplete` | `CmdInv` |
| `LockedStay` | `CmdSpec => []LockedNotDispatched` | `LockInv`, `CmdInv`, `IdentityKnownUnderCommands` |
| `ProfileCacheTypes` | `Spec => []TypeOK` of `ProfileCache` | `ProfileInv` |
| `TablesAsDescribed` | `Spec => []TablesMatch` | `ProfileInv`, the loops |
| `OperationsDescribed` | `Spec => []Described` | `ProfileInv`, the loops |
| `OperationsResolvable` | `Spec => []Resolvable` | `ProfileInv`, the loops |
| `PanicsExplained` | `Spec => []PanicExplained` | `ProfileInv` |
| `ImportComplete` | `ImportSpec => []ImportAccounts` | `ImportInv` |
| `StartTypeCorrect` | `Spec => []StartTypeOK` of `ServiceStart` | `StartInv` |
| `StartRegisters` | `Spec => Registers`: the start implements `Registration` | `StartInv` |
| `StartAsksFirst` | `Spec => []AskedFirst` | `AskedInv` |
| `AttemptsArePaid` | `Spec => []AttemptsPaid` | `SpentInv` |
| `SeedingComplete` | `Spec => []Seeded` | `SeedInv` |
| `UrlsOfService` | `EndpointSpec => []UrlOfService` | `EndpointInv` |
| `ProbedAreReady` | `EndpointSpec => []ProbedReady` | `EndpointInv` |
| `ConfigsFromStore` | `StoreSpec => []ConfigFromStore` | `StoreInv` |
| `StoreWinsAlways` | `StoreSpec => []StoreWins` | `StoreInv` |
| `EarlyEndsAreBlamed` | `StoreSpec => []EarlyEndsBlamed` | `StoreInv` |
| `ScheduleTypes` | `ScheduleSpec => []ScheduleTypeOK` | `ScheduleInv` |
| `SnapshotsKept` | `ScheduleSpec => []SnapshotKept` | `ScheduleInv` |
| `ListsImplemented` | `ScheduleSpec => ImplementsLists`: the schedule cache implements `NamedLists` | `ScheduleInv`, `ScheduleStep` |
| `UpdatesVisible` | `ScheduleSpec => UpdateVisible` | `ScheduleInv`, `ReplacedFound` |
| `ReadingsExact` | `ResultSpec => []ReadingExact` | `DigitsAddUp`, `ReadWritten` |
| `ReadingsTyped` | `ResultSpec => []ResultTypeOK` | `ReadingTyped` |
| `ComparisonAgrees` | `CompareSpec => []CompareAgrees` | `EqualAgree`, `SelfEqual` |
| `PartsRunAlone` | `PartSpec` of `MCParts` implies the specification of each part | steps of one part leave the others alone |
| `PartsTyped`, `PartsCorrect` | `PartSpec => []PartsTypeOK`, and all else the run `parts` checks but liveness | `PartsRunAlone`, the theorems about the parts |

### The device cache

*`TypeInv`* is `TypeOK /\ Ready`. `TypeOK` is not inductive: `PutDevice` stores
`dev[g]` into `devices`, where a device without an id would break it. `Ready` says
what the locals hold at each label: past the lookup or creation of a device `dev`
has its id, past `FindName` the callback's name is a name. It is proved for the
steps of `Add`, of the handlers, of the beginnings of operations, of the boot, of
other services and of a crash, in one lemma each.

*`Vouched`* says that the device in a goroutine's hands, the devices still to be
booted and those in Core Metadata have been stored under their id and name. It
explains why `PutDevice` and `PutName` keep `KnownIdentity`. The exception is a
goroutine in front of `UpdateInMetadata`, whose new name Core Metadata has not
accepted yet. `IdentityStableUnique` follows: an id and the id of the device it leads
to were both stored under that device's name.

*`Backed`* says that the addressable of the device in hand exists from
`DeviceForName` on. Addressables are never deleted, so it lasts until the device
is stored.

*`LoadInv`* is `LoadedCached` and, of a step, `BootFixesNothing`, with what explains it. `Quiet` says that handlers and
driver work only in a process that serves, so nobody but `newDeviceCache` reaches the
maps while it fills them; `Apart` that Core Metadata keeps the names of its devices
apart; `OneByOne` that no device of the list is cached before its turn, and that
`Add` takes the short way for each; `Stocked` says which of the four maps the device
in hand has been put into at each label. An error leaves `Add` before the first of
these stores and for a reason that `Excused` names; a descriptor panic kills the
loading process, so a device that was not skipped is in all four, and past the
descriptors its profile is not `Broken`. As the devices of the list have ids, an error
of the lookup ends their `Add`; nobody stands in front of `AddAddressable` then.

*`OrderlyInv`* says at which labels the maps may disagree about a name, and about which:
`Coherent` says that every cached name is `Cached` unless some goroutine is `Halfway`
with it, between two deletes or between the last two stores. That an early return of
`Add` finds nothing half deleted is `Cleared` (from the deletes to the store the name is
not cached); that the stores find the tables still there is `Filled`. Both are about the
name in hand only, so a goroutine that works on another name keeps them (`OtherDevice`,
`OwnStep`). The one map that is not keyed by name is `names`: `OneName` says that an id
has one name for good, so two goroutines with two names have two ids. A device whose
id is not yet known takes nothing from anybody: the delete hits the invalid id.

*The refinement.* `NextDirects` goes through the steps once more with the entries in
mind. The first delete of `Add` or `Remove` is a `Withdraw` (the goroutine is halfway from
then on), `DelOldDevice` of `Update` is one, too; `PutName`, the last store, is `Enter`;
`SetAdmin` is `SetAdmin`, or nothing where the entry is not there; `AddToMetadata` and
`UpdateInMetadata` are `Issue`; a crash is `Clear`, everything else stutters. What
`Enter` demands, that the device is whole and its id was issued for its name, is what
`Filled` and `Vouched` say in front of `PutName`. A failed `Add` is a `Withdraw`
without an `Enter`: what it leaves in `names` or in the tables belongs to no entry.

*`SerialInv`*: `Quiet`, `Alone` (one goroutine is not idle) and `NoUpdate`.

*`CalmInv`* is about callbacks under way. `Told` says that a cached device has the admin
state of Core Metadata, or a callback for it is still to be delivered, or is in a
handler and will see the present state. `Aimed` says that a handler's name is that of
its id, and that a state it fetched too early is followed by another callback; that no
other goroutine takes that one up before it has written is `InTurn`. `Found` says that
the id of a cached device leads to its name unless Core Metadata no longer has it: a
callback that finds no name has nothing to tell. `SeedHeld` and `NoAdd` say that devices
come from Core Metadata's list alone, and that `Remove` touches the maps only for a
device Core Metadata has lost. It needs `LoadInv`, for what the boot caches.

### The command endpoint

*`BusyServed`* is all that the caches need to know of the command handlers: one is at
work only in a process that serves. A process the runtime aborts for a handler's
read is then one that could have been killed, and every other step of the
composition is a step of `DeviceCache` or leaves it alone.

*`CmdInv`* (theorem `CommandInvariant`) says for each stage of a handler what it has
found out: `Named`, `Admitted`, `Accepted`, `Equipped`, `Dispatched`. As long as no map
changed under it (`calm`), each of these is what the maps still say; afterwards only
the shape is left, at most `MaxCmdOps` operations and no more readings than
operations. `Reads` says that the readings are those of the operations so far, and
`Whole` says the same of an event. It takes a step of the caches to end `calm` or to
leave every map alone (`CacheMovesWell`), and `TypeOK` of the caches, which
`CommandsOnlyRead` gives the composition. That what a handler finds has the right
type comes from the lemmas about the tables (below).

*`LockInv`* says that past the first lookup the name in hand was stored for the id that
was asked for, that `opened` has noticed every moment the device was unlocked, and that
a handler past the check of the lock has seen one. The last needs `NamesUnique`: the
device checked is the one under the name, and its id is the one asked for only if the
name was never another's. `held` only grows (`RecordGrows`), so `NamesUnique` in a
later state is `NamesUnique` in all before, and what was concluded stays.

### Profiles

`addDevice` is loops over a profile, written as folds of the community modules.
`ProfileTables_proofs` proves what they build for every profile: `ResourceTable`,
`DeviceTable`, `ObjectTable`, `OpListCovers` and `DescribeCovers`. Such proofs go
by induction on the number of rounds, and the library's theorems for that take an
operator as a parameter. They are replaced by an induction over a set of numbers
(`NatSetInduction`, `LoopInduction`): to show P for all n, take the set of the numbers
that have P. `FoldRun` turns a fold over a list into a run, the function from the number
of rounds to the value after them (`IsLoop`, `IsRun`); every loop is then
a run of its own (`ResourceOpsRun`, `DevOpsRun`, …) and a set of rounds for each
fact about it.

*`ProfileInv`* says that a device has both tables of one profile or neither (`Built`),
that the list of descriptors still has what the last `addDevice` of a device put there,
whichever devices came and went (`DescribedSince`: the list never shrinks), and
`PanicExplained`. `Expected`, against which `TablesMatch` compares the tables, is the
least or the greatest index of a name; `DeviceTable` shows the loops find the same.
`Resolvable` rests on `ClosedList`: an operation the second loop makes up for a device
resource names that resource.

*`ImportInv`* says that every file before `file` is excused or its name is among the
profiles now, or was and others deleted it; that what was listed is or was there; and
that an import that was not cut ends behind the last file.

### Start, endpoints, store

*`StartInv`* is `StartTypeOK /\ Placed`. `Placed` says that the loops stand inside
their lists, that `addr` is set in front of `AddService`, and that `svc.ds` is nil
or the record of Core Metadata. The last is what makes the refinement work: when
`AddService` creates a record there was none, so the service knew none. The
mapping takes the ids of `service` and `ds`; `AddService` maps to `File` or a
stutter, `DeviceServiceForName` to `Learn` or a stutter, `Launch` and `Kill` to
`Forget`, all else to a stutter.

*`AskedInv`* adds what has been answered at each stage and at each depth of the
recursion of `checkClientsInitialSuccessful`: an outer call goes on asking after the
inner one returned, and what answered stays answered within one start.

*`SpentInv`* adds `Spent`, which counts: the attempts a start has lost are at most the
calls that failed in it, at every stage of an attempt. An attempt cannot be lost for
the name being taken, because what is taken is found by the next attempt's lookup.

*`SeedInv`* says that what the loops have passed is accounted for (`SchedulesTo`,
`EventsTo`: there, or a call of its own failed) and that an event is stored behind its
addressable.

*`EndpointInv`* says that every URL on its way, in a channel or in a client, is an
address its service was registered with or the zero endpoint (`Sourced`), and that
the clients up to `probe` have one. A client that has been given a URL never loses it
again, which is why a monitor that goes on cannot undo what the probe found.

*`StoreInv`* holds the three properties together with what they rest on. `Kept` says
that the value a check is about to put is still the given one, `Recorded` that every
stored value is in the histories, `Overtaken` that an instance in front of its put
finds the key absent or put by another one, `PutOnce` that an instance puts each key
at most once, before it passes the field. `Overtaken` is what makes `StoreWins` a
matter of two writers.

### Schedules, results, comparison

*`ScheduleInv`* says that the slices of the cache and of others lie within their arrays
(`IsSliceOf`), and that a slice taken since the last removal shows what it showed
(`Undisturbed`), because it reaches no further into a shared array than the cache's. An
append then writes behind both, or moves to an array of its own (`AppendedWell`);
a removal moves entries down inside the array (`RemovedWell`), which disturbs the
other slice but is, for the cache, the removal from its list. `ScheduleStep` says the same
of the lists and gives the refinement: `lists` is mapped to what the cache's slices show.

*Readings.* `binary.Write` takes a value apart into digits, `binary.Read` adds them up.
`DigitsAddUp` says that the sum is the value modulo the values of its type, by eight
rounds of one division (`DivisionTwice`: dividing twice is dividing by the product);
`ReadWritten` that the sign restores a negative value, half the values being
the negative ones (`SizeOf`, the only place where a byte has to have an even number).

*Comparison.* `EqualAgree` expands the helpers down to the lists: two devices the code calls equal
agree in all but attributes, objects and the contents of resources; `SelfEqual` is
the other direction.

### Only model-checked

The liveness properties (`Recovers`, `AdminConverges`, `Answered`, `EventuallyServes`,
`UrlConverges`, `StartsUp`) and anything about `ENABLED`: the prover does not handle
fairness. Every invariant, step property and refinement of the runs that pass is a theorem.

## 5. Not modelled

* Async readings: the channel is receive-only for every user, so its loop never gets
  a value and has no behaviour to model.
* Stubs that return at once (`AddById`, `Device`, `IsDeviceLocked`, `Transform`,
  `TransformResult`, `Discover`), and `String` of a result, which is for the log.
* Logging, the text of answers, malformed callback requests (they are refused
  before anything changes), the choice of the log target.
* Configuration files, control and status endpoints, watchers, the example driver
  and mocks keep no state of the SDK.
* Modelled although the repository does not reach them: `deviceCache.Remove` and
  `Update` and the operations of `ScheduleCache` are called by tests at most,
  `CheckKeyValuePairs` by nothing. Runs that include the first two say so in `Ops`.

## 6. Plan

1. *(done)* `DeviceCache`, `ProfileTables`, `ProfileCache`, `CommandService`,
   `Registration`, `ServiceStart`, with their first theorems.
2. *(done)* `ProfileImport`, `ScheduleCache` and `NamedLists`, `CommandResults`,
   `DeviceCompare`, `ConfigStore`, `Endpoints`; theorems about the import, the store
   and the endpoints, the three properties of the start, the command endpoint as an
   implementation of the device cache, and what its handlers know.
3. *(done)* what the four maps say together (`BootAccounts`, `SerialCoherent`,
   `CalmAgrees`), `LockedStay`, the profile tables and the profile cache, the schedule
   cache as an implementation of `NamedLists`, the readings, the comparison. Every
   invariant of the runs is now a theorem, or a conjunction of theorems.
4. *(done)* an abstract device cache, `DeviceDirectory`, and the four maps as its
   implementation for any number of goroutines that keep their devices apart;
   `CoherentAtRest` and `AdminAgrees` without the restriction to one goroutine; the
   theorems about the parts for their common instance.
5. *Stays with TLC*: liveness, and what depends on `ENABLED`.
