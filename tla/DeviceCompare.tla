---------------------------- MODULE DeviceCompare ----------------------------
(***************************************************************************)
(* compareDevices and its helpers (devices.go).  The fields a helper       *)
(* compares with == are one field "head" here.                             *)
(***************************************************************************)
EXTENDS Naturals, Sequences, FiniteSets

CONSTANTS Compared  \* the devices that are compared

\* What is compared has the fields and lists of a device.
IsList(s) == s \in Seq({s[k] : k \in DOMAIN s})
IsService(s) ==
    /\ s = [adminState |-> s.adminState, service |-> s.service]
    /\ s.service = [head |-> s.service.head, labels |-> s.service.labels]
    /\ IsList(s.service.labels)
IsProfile(p) == /\ IsList(p.labels) /\ IsList(p.commands)
                /\ IsList(p.deviceResources) /\ IsList(p.resources)
IsDevice(d) ==
    /\ d = [head |-> d.head, labels |-> d.labels, profile |-> d.profile, service |-> d.service]
    /\ IsList(d.labels) /\ IsProfile(d.profile) /\ IsService(d.service)

ASSUME CompareAssumption == \A d \in Compared : IsDevice(d)

VARIABLES left, right, verdict
compareVars == <<left, right, verdict>>

-----------------------------------------------------------------------------
\* Mutant of compareStrings: the lengths are not compared.
compareStringsPrefix(a, b) ==
    \A i \in DOMAIN a : i <= Len(b) => a[i] = b[i]

compareStrings(a, b) == Len(a) = Len(b) /\ \A i \in DOMAIN a : a[i] = b[i]

compareStrStrMap(a, b) ==
    /\ Cardinality(DOMAIN a) = Cardinality(DOMAIN b)
    /\ \A k \in DOMAIN a : k \in DOMAIN b /\ a[k] = b[k]

compareCommands(a, b) == Len(a) = Len(b) /\ \A i \in DOMAIN a : a[i] = b[i]

compareServices(a, b) == a.head = b.head /\ compareStrings(a.labels, b.labels)

compareDeviceServices(a, b) ==
    a.adminState = b.adminState /\ compareServices(a.service, b.service)

\* Attributes are left out.
compareDeviceResources(a, b) ==
    Len(a) = Len(b) /\ \A i \in DOMAIN a : a[i].head = b[i].head

compareResourceOperations(a, b) ==
    /\ Len(a) = Len(b)
    /\ \A i \in DOMAIN a : /\ a[i].head = b[i].head
                           /\ compareStrings(a[i].secondary, b[i].secondary)
                           /\ compareStrStrMap(a[i].mappings, b[i].mappings)

\* Both the get and the set operations are taken from a's Get and b's Set, and
\* two resources differ only if name and operations do.
compareResources(a, b) ==
    /\ Len(a) = Len(b)
    /\ \A i \in DOMAIN a :
         \/ a[i].name = b[i].name
         \/ compareResourceOperations(a[i].get, b[i].set)

\* Objects are left out.
compareDeviceProfiles(a, b) ==
    /\ a.head = b.head
    /\ compareStrings(a.labels, b.labels)
    /\ compareCommands(a.commands, b.commands)
    /\ compareDeviceResources(a.deviceResources, b.deviceResources)
    /\ compareResources(a.resources, b.resources)

compareDevices(a, b) ==
    /\ a.head = b.head
    /\ compareStrings(a.labels, b.labels)
    /\ compareDeviceProfiles(a.profile, b.profile)
    /\ compareDeviceServices(a.service, b.service)

-----------------------------------------------------------------------------
CompareInit == left = <<>> /\ right = <<>> /\ verdict = "none"

CompareNext == /\ verdict = "none"
               /\ left' \in Compared /\ right' \in Compared
               /\ verdict' = IF compareDevices(left', right') THEN "equal" ELSE "different"

CompareSpec == CompareInit /\ [][CompareNext]_compareVars

\* What two devices that compare equal share: everything but attributes,
\* objects and the contents of resources.
Attributeless(s) == [k \in DOMAIN s |-> s[k].head]
Common(d) ==
    [d EXCEPT !.profile =
       [head |-> @.head, labels |-> @.labels, commands |-> @.commands,
        deviceResources |-> Attributeless(@.deviceResources),
        resources |-> Len(@.resources)]]

\* compareDevices never tells a device from itself, and never takes two for
\* equal that differ outside attributes, objects and resources: no helper lets
\* a list pass for one of its prefixes or a map for a smaller one.
CompareAgrees ==
    /\ verdict = "different" => left # right
    /\ verdict = "equal" => Common(left) = Common(right)
=============================================================================
