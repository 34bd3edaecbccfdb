---------------------------- MODULE ProfileTables ----------------------------
(***************************************************************************)
(* The tables profileCache.addDevice (profiles.go) builds from a device    *)
(* profile, and the lookups commandFunc and executeCommand make in them.   *)
(* Names are compared after strings.ToLower, which Lower stands for.       *)
(***************************************************************************)
EXTENDS Naturals, FiniteSets, SequencesExt

CONSTANTS
    Word,    \* names of resources, device resources and parameters
    Lower,   \* strings.ToLower on them
    NoObject \* a nil or zero device object

ASSUME WordAssumption ==
    /\ Lower \in [Word -> Word] /\ \A w \in Word : Lower[Lower[w]] = Lower[w]
    /\ NoObject \notin Word

\* A resource operation, a resource, a device resource (the letters its
\* ReadWrite property contains), and a profile.  "used" are the descriptors
\* its commands name.
Operation == [object: Word, parameter: Word]
Resource == [name: Word, get: Seq(Operation), set: Seq(Operation)]
DeviceResource == [name: Word, rw: SUBSET {"r", "w"}]
DeviceProfile == [resources: Seq(Resource),
                  deviceResources: Seq(DeviceResource), used: SUBSET Word]

-----------------------------------------------------------------------------
(* addDevice: the maps.                                                     *)

\* t[w] = e, the assignment to a map.
Put(t, w, e) == [k \in DOMAIN t \cup {w} |-> IF k = w THEN e ELSE t[k]]

\* One entry per resource; a later resource replaces an earlier one.
ResourceOps(p) ==
    FoldLeft(LAMBDA t, r : Put(t, Lower[r.name], [get |-> r.get, set |-> r.set]),
             <<>>, p.resources)

\* The operations made up for a device resource no resource stands for.
Letter == [get |-> "r", set |-> "w"]
OwnOps(dr) == [m \in {k \in DOMAIN Letter : Letter[k] \in dr.rw} |->
                 <<[object |-> dr.name, parameter |-> dr.name]>>]

\* Mutant of WithOwn: names are compared as they are written.
WithOwnExact(t, dr) == IF dr.name \in DOMAIN t THEN t
                       ELSE Put(t, Lower[dr.name], OwnOps(dr))

WithOwn(t, dr) == IF Lower[dr.name] \in DOMAIN t THEN t
                  ELSE Put(t, Lower[dr.name], OwnOps(dr))

DevOps(p) == FoldLeft(WithOwn, ResourceOps(p), p.deviceResources)

\* Mutant of DevObjs: objects are keyed like operations.
DevObjsLower(p) ==
    FoldLeft(LAMBDA t, dr : Put(t, Lower[dr.name], dr.name), <<>>,
             p.deviceResources)

DevObjs(p) ==
    FoldLeft(LAMBDA t, dr : Put(t, dr.name, dr.name), <<>>, p.deviceResources)

\* The list "ops": what descriptors are made for.
OpsOf(t, m) == IF m \in DOMAIN t THEN t[m] ELSE <<>>

\* Mutant of OpList: operations made up for device resources are left out.
OpListResources(p) ==
    FoldLeft(LAMBDA s, r : s \o r.get \o r.set, <<>>, p.resources)

OpList(p) ==
    LET listed == FoldLeft(LAMBDA s, r : s \o r.get \o r.set, <<>>, p.resources)
        step(a, dr) ==
            [table |-> WithOwn(a.table, dr),
             ops |-> IF Lower[dr.name] \in DOMAIN a.table THEN a.ops
                     ELSE a.ops \o OpsOf(OwnOps(dr), "get")
                                \o OpsOf(OwnOps(dr), "set")]
    IN  FoldLeft(step, [table |-> ResourceOps(p), ops |-> listed],
                 p.deviceResources).ops

-----------------------------------------------------------------------------
(* addDevice: the value descriptors.  "stored" are those Core Data has,     *)
(* "own" the list p.descriptors, "failing" those a creation fails for; when *)
(* it "landed", it was only the answer that was no good.                    *)

HasObject(p, op) == \E k \in DOMAIN p.deviceResources :
    p.deviceResources[k].name = op.object

Describe(p, stored, own, failing, landed) ==
    LET step(a, op) ==
          LET w == op.parameter
              keep == [a EXCEPT !.own = Append(@, w)]
          IN  IF a.panic THEN a
              ELSE IF w \in a.stored THEN keep
              ELSE IF w \notin p.used THEN a
              ELSE IF ~HasObject(p, op) THEN [a EXCEPT !.panic = TRUE]
              ELSE IF w \in failing
                   THEN [a EXCEPT !.panic = TRUE,
                                  !.stored = @ \cup {x \in {w} : landed}]
              ELSE [keep EXCEPT !.stored = @ \cup {w}]
    IN  FoldLeft(step, [stored |-> stored, own |-> own, panic |-> FALSE],
                 OpList(p))

-----------------------------------------------------------------------------
(* The lookups.                                                             *)

CommandExists(t, cmd) == Lower[cmd] \in DOMAIN t

\* strings.ToLower on the HTTP methods the command routes accept.
MethodKey == [GET |-> "get", PUT |-> "put"]

HasOperations(t, cmd, method) ==
    CommandExists(t, cmd) /\ MethodKey[method] \in DOMAIN t[Lower[cmd]]

GetResourceOperations(t, cmd, method) == t[Lower[cmd]][MethodKey[method]]

\* Mutant of GetDeviceObject: no object is renamed.
GetDeviceObjectByKey(objs, described, op) ==
    IF op.object \in DOMAIN objs THEN objs[op.object] ELSE NoObject

\* getDeviceObjectByName, when the device has objects: nil when the object is
\* missing, renamed when the parameter has a descriptor.
GetDeviceObject(objs, described, op) ==
    IF op.object \notin DOMAIN objs THEN NoObject
    ELSE IF op.parameter \in described THEN op.parameter
    ELSE objs[op.object]

=============================================================================
