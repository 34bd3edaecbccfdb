----------------------------- MODULE ProfileCache -----------------------------
(***************************************************************************)
(* profileCache (profiles.go): the two tables each device owns, the list   *)
(* of value descriptors, and the value descriptors of Core Data, which     *)
(* addDevice completes.  One call runs at a time here; DeviceCache has the *)
(* interleavings.                                                          *)
(***************************************************************************)
EXTENDS ProfileTables, TLC

CONSTANTS
    Dev,        \* names of devices
    Profiles,   \* the profiles devices come with
    Nil,        \* no entry in a map
    Faults,     \* whether calls to Core Data can fail
    MaxChanges  \* bound: calls of addDevice and removeDevice, other changes

ASSUME ProfileAssumption ==
    /\ Profiles \subseteq DeviceProfile
    /\ \A p \in Profiles : Nil \notin {p, DevOps(p), DevObjs(p)}
    /\ Faults \in BOOLEAN /\ MaxChanges \in Nat

VARIABLES
    objects,      \* device -> table of device objects
    commands,     \* device -> table of resource operations
    descriptors,  \* p.descriptors: a list of descriptor names
    stored,       \* the descriptors Core Data has
    profileOf,    \* history: the profile the tables were built from
    whole,        \* history: the devices whose last addDevice returned
    panicked,     \* the last addDevice dereferenced nil
    blame,        \* history: what in that call could be the reason
    changes

vars == <<objects, commands, descriptors, stored, profileOf, whole, panicked,
          blame, changes>>

\* The resources of the profile name device resources it has.
Closed(p) == \A k \in DOMAIN p.resources :
    \A op \in Range(p.resources[k].get) \cup Range(p.resources[k].set) :
       HasObject(p, op)

Init ==
    /\ objects = [d \in Dev |-> Nil] /\ commands = [d \in Dev |-> Nil]
    /\ descriptors = <<>>
    /\ stored \in SUBSET Word
    /\ profileOf = [d \in Dev |-> Nil] /\ whole = {} /\ panicked = FALSE
    /\ blame = {} /\ changes = 0

\* Mutant of AddDevice: the descriptors Core Data has are not asked for.
AddDeviceBlind(d, p) ==
    /\ p.deviceResources # <<>>
    /\ LET r == Describe(p, {}, descriptors, stored, FALSE) IN
         /\ descriptors' = r.own
         /\ stored' = stored \cup r.stored
         /\ panicked' = r.panic
         /\ whole' = IF r.panic THEN whole \ {d} ELSE whole \cup {d}
    /\ objects' = [objects EXCEPT ![d] = DevObjs(p)]
    /\ commands' = [commands EXCEPT ![d] = DevOps(p)]
    /\ profileOf' = [profileOf EXCEPT ![d] = p]
    /\ blame' = {b \in {"profile"} : ~Closed(p)}

\* A failed query for the descriptors counts as an empty answer; creating one
\* that is there already fails, and so may any creation, whose effect may have
\* landed: createDescriptor refuses an id it cannot read.
AddDevice(d, p) ==
  \E seen \in {stored} \cup (IF Faults THEN {{}} ELSE {}),
     failing \in IF Faults THEN SUBSET p.used ELSE {{}},
     landed \in BOOLEAN :
    /\ p.deviceResources # <<>>
    /\ LET r == Describe(p, seen, descriptors,
                         failing \cup (stored \ seen), landed) IN
         /\ descriptors' = r.own
         /\ stored' = stored \cup r.stored
         /\ panicked' = r.panic
         /\ whole' = IF r.panic THEN whole \ {d} ELSE whole \cup {d}
    /\ objects' = [objects EXCEPT ![d] = DevObjs(p)]
    /\ commands' = [commands EXCEPT ![d] = DevOps(p)]
    /\ profileOf' = [profileOf EXCEPT ![d] = p]
    /\ blame' = {b \in {"call", "profile"} :
                   CASE b = "call" -> seen # stored \/ failing # {}
                     [] b = "profile" -> ~Closed(p)}

\* A profile without device resources is refused before anything changes.
RefuseDevice(p) ==
    /\ p.deviceResources = <<>>
    /\ panicked' = FALSE /\ blame' = {}
    /\ UNCHANGED <<objects, commands, descriptors, stored, profileOf, whole>>

\* Mutant of RemoveDevice: the operations stay.
RemoveDeviceObjects(d) ==
    /\ objects' = [objects EXCEPT ![d] = Nil]
    /\ whole' = whole \ {d} /\ panicked' = FALSE /\ blame' = {}
    /\ UNCHANGED <<commands, profileOf, descriptors, stored>>

RemoveDevice(d) ==
    /\ objects' = [objects EXCEPT ![d] = Nil]
    /\ commands' = [commands EXCEPT ![d] = Nil]
    /\ profileOf' = [profileOf EXCEPT ![d] = Nil]
    /\ whole' = whole \ {d} /\ panicked' = FALSE /\ blame' = {}
    /\ UNCHANGED <<descriptors, stored>>

\* Core Data loses its descriptors to another service.
ForgetDescriptor == \E w \in stored :
    /\ stored' = stored \ {w}
    /\ UNCHANGED <<objects, commands, descriptors, profileOf, whole, panicked,
                   blame>>

Next ==
    /\ changes < MaxChanges
    /\ changes' = changes + 1
    /\ \/ \E d \in Dev, p \in Profiles : AddDevice(d, p)
       \/ \E p \in Profiles : RefuseDevice(p)
       \/ \E d \in Dev : RemoveDevice(d)
       \/ ForgetDescriptor

Spec == Init /\ [][Next]_vars

-----------------------------------------------------------------------------
IsTable(t) ==
    /\ DOMAIN t \subseteq Range(Lower)
    /\ \A k \in DOMAIN t : DOMAIN t[k] \subseteq {"get", "set"}

TypeOK ==
    /\ \A d \in Dev : commands[d] # Nil => IsTable(commands[d])
    /\ \A d \in Dev : objects[d] # Nil => DOMAIN objects[d] \subseteq Word
    /\ \A d \in Dev : (commands[d] = Nil) <=> (objects[d] = Nil)
    /\ Range(descriptors) \subseteq Word /\ stored \subseteq Word
    /\ whole \subseteq Dev /\ panicked \in BOOLEAN

\* What commands[d] should be: under each lowered name the operations of the
\* last resource so named, or else those the ReadWrite letters of the first
\* device resource so named ask for.
Keys(s) == {Lower[s[k].name] : k \in DOMAIN s}
Named(s, w) == {k \in DOMAIN s : Lower[s[k].name] = w}

Expected(p, w) ==
    IF w \in Keys(p.resources)
    THEN LET r == p.resources[Max(Named(p.resources, w))]
         IN  [get |-> r.get, set |-> r.set]
    ELSE LET dr == p.deviceResources[Min(Named(p.deviceResources, w))]
         IN  OwnOps(dr)

\* The loops of addDevice build the table described above: no resource is
\* overridden by a device resource, no device resource goes without commands.
TablesMatch == \A d \in Dev : commands[d] # Nil =>
    LET p == profileOf[d] IN
      commands[d] = [w \in Keys(p.resources) \cup Keys(p.deviceResources) |->
                       Expected(p, w)]

Reachable(d) == UNION {UNION {Range(commands[d][k][m]) :
                                m \in DOMAIN commands[d][k]} :
                         k \in DOMAIN commands[d]}

\* A reading is named after its operation's parameter when a command of the
\* profile uses that parameter: the descriptor list covers every operation
\* the table can return, whichever loop of addDevice put it there.
Described == \A d \in whole : \A op \in Reachable(d) :
    op.parameter \in profileOf[d].used => op.parameter \in Range(descriptors)

\* executeCommand finds the device object of every operation it dispatches
\* when the resources of the profile name device resources it has, although
\* operations are keyed by lowered names and objects by exact ones.
Resolvable == \A d \in Dev : commands[d] # Nil /\ Closed(profileOf[d]) =>
    \A op \in Reachable(d) : op.object \in DOMAIN objects[d]

\* addDevice dereferences nil only for a profile whose operations name objects
\* it lacks, or after one of its calls to Core Data failed: no descriptor is
\* created twice, within a call or across calls.
PanicExplained == panicked => blame # {}

=============================================================================
