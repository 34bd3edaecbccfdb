---------------------------- MODULE CommandService ----------------------------
(***************************************************************************)
(* The command endpoint of a device service (command.go): the handler      *)
(* goroutines of GET and PUT /device/{id}/{command}, reading the caches of *)
(* DeviceCache while other goroutines change them.  A step of a handler is *)
(* one access to one of the maps, or the driver's HandleCommands, which is *)
(* external.  The pointer commandFunc holds keeps the device's name; its   *)
(* admin state is read right after the lookup.                             *)
(***************************************************************************)
EXTENDS DeviceCache, ProfileTables

CONSTANTS
    Handler,        \* handler goroutines of command requests
    Targets,        \* the {id} of the requests
    Words,          \* the {command} of the requests
    ServiceLocked,  \* svc.locked, which nothing in the SDK assigns
    MaxCmdOps,      \* configuration: operations per command
    Described,      \* parameters that have a value descriptor in the cache
    MaxRequests     \* bound: requests

ASSUME CommandAssumption ==
    /\ Words \subseteq Word /\ Described \subseteq Word
    /\ Profile \subseteq DeviceProfile
    /\ ServiceLocked \in BOOLEAN /\ MaxCmdOps \in Nat /\ MaxRequests \in Nat

VARIABLES
    at,        \* what each handler does next
    req,       \* the request it serves
    hold,      \* its locals: name, operations, readings
    answer,    \* the status of its last answer
    opened,    \* history: the device was cached unlocked since the request
    calm,      \* history: no map changed since the request
    expected,  \* history: what one look at the maps says of the request
    pending,   \* events handed to sendEvent goroutines
    pushed,    \* events Core Data has
    requests

cmdVars == <<at, req, hold, answer, opened, calm, expected, pending, pushed,
             requests>>
cvars == <<vars, cmdVars>>

Request == [id: Targets, cmd: Words, method: {"GET", "PUT"}, body: BOOLEAN]
NoLocals == [name |-> Nil, ops |-> <<>>, readings |-> <<>>]

CmdInit ==
    /\ Init
    /\ at = [h \in Handler |-> "idle"] /\ req = [h \in Handler |-> Nil]
    /\ hold = [h \in Handler |-> NoLocals] /\ answer = [h \in Handler |-> 0]
    /\ opened = [h \in Handler |-> FALSE] /\ calm = [h \in Handler |-> TRUE]
    /\ expected = [h \in Handler |-> {}]
    /\ pending = {} /\ pushed = {} /\ requests = 0

\* names[id]; an {id} that is no device id is not a key.
NameOf(t) == IF t \in Id THEN names[t] ELSE Nil

Open(t) == \E n \in Name :
    devices[n] # Nil /\ devices[n].id = t /\ devices[n].admin = "UNLOCKED"

-----------------------------------------------------------------------------
(* What one look at the maps says of a request: the statuses it may get.    *)

ResolvedIn(objs, o) == o.object \in DOMAIN objs

Dispatchable(t, objs, r) ==
    /\ HasOperations(t, r.cmd, r.method)
    /\ LET ops == GetResourceOperations(t, r.cmd, r.method) IN
         /\ Len(ops) <= MaxCmdOps
         /\ \A o \in Range(ops) : ResolvedIn(objs, o)

\* For a device in all four maps: the lock first, then whether the profile
\* has the command, then the body, then the method, then the rest.
Verdict(r) ==
    LET n == NameOf(r.id) IN
      IF ServiceLocked THEN {423}
      ELSE IF n = Nil THEN {404}
      ELSE IF devices[n] = Nil THEN {404}
      ELSE IF devices[n].admin = "LOCKED" THEN {423}
      ELSE IF commands[n] = Nil THEN {500}
      ELSE IF ~CommandExists(DevOps(commands[n]), r.cmd) THEN {404}
      ELSE IF r.method = "PUT" /\ ~r.body THEN {400}
      ELSE IF ~HasOperations(DevOps(commands[n]), r.cmd, r.method) THEN {404}
      ELSE IF objects[n] # Nil
              /\ Dispatchable(DevOps(commands[n]), DevObjs(objects[n]), r)
           THEN {200, 500}
      ELSE {500}

-----------------------------------------------------------------------------
(* commandFunc and executeCommand.                                          *)

Move(h, label) == at' = [at EXCEPT ![h] = label]

Answer(h, status) ==
    /\ Move(h, "idle")
    /\ answer' = [answer EXCEPT ![h] = status]
    /\ hold' = [hold EXCEPT ![h] = NoLocals]

Advance(h, label) == Move(h, label) /\ UNCHANGED <<answer, hold>>

Kept == UNCHANGED <<req, opened, calm, expected, pending, pushed, requests>>

Arrive(h) == \E r \in Request :
    /\ phase = "up" /\ at[h] = "idle" /\ requests < MaxRequests
    /\ requests' = requests + 1
    /\ req' = [req EXCEPT ![h] = r]
    /\ opened' = [opened EXCEPT ![h] = Open(r.id)]
    /\ calm' = [calm EXCEPT ![h] = TRUE]
    /\ expected' = [expected EXCEPT ![h] = Verdict(r)]
    /\ IF ServiceLocked THEN Answer(h, 423) ELSE Advance(h, "ReadNames")
    /\ UNCHANGED <<pending, pushed>>

\* DeviceById, its first lookup.
ReadNames(h) ==
    /\ at[h] = "ReadNames"
    /\ LET n == NameOf(req[h].id) IN
         IF n = Nil THEN Answer(h, 404)
         ELSE /\ Move(h, "ReadDevice")
              /\ hold' = [hold EXCEPT ![h].name = n]
              /\ UNCHANGED answer
    /\ Kept

\* Mutant of ReadDevice: the admin state is not looked at.
ReadDeviceUnlocked(h) ==
    /\ at[h] = "ReadDevice"
    /\ IF devices[hold[h].name] = Nil THEN Answer(h, 404)
       ELSE Advance(h, "CheckCommand")
    /\ Kept

\* DeviceById, its second lookup, and the check of the admin state.
ReadDevice(h) ==
    /\ at[h] = "ReadDevice"
    /\ LET d == devices[hold[h].name] IN
         \/ d = Nil /\ Answer(h, 404)
         \/ d # Nil /\ d.admin = "LOCKED" /\ Answer(h, 423)
         \/ d # Nil /\ d.admin # "LOCKED" /\ Advance(h, "CheckCommand")
    /\ Kept

\* Mutant of CheckCommand: the body is looked at first.
CheckCommandBodyFirst(h) ==
    /\ at[h] = "CheckCommand"
    /\ LET p == commands[hold[h].name] IN
         IF req[h].method = "PUT" /\ ~req[h].body THEN Answer(h, 400)
         ELSE IF p = Nil THEN Answer(h, 500)
         ELSE IF ~CommandExists(DevOps(p), req[h].cmd) THEN Answer(h, 404)
         ELSE Advance(h, "FindOperations")
    /\ Kept

\* CommandExists, then the check for an empty body.
CheckCommand(h) ==
    /\ at[h] = "CheckCommand"
    /\ LET p == commands[hold[h].name] IN
         \/ p = Nil /\ Answer(h, 500)
         \/ p # Nil /\ ~CommandExists(DevOps(p), req[h].cmd) /\ Answer(h, 404)
         \/ /\ p # Nil /\ CommandExists(DevOps(p), req[h].cmd)
            /\ IF req[h].method = "PUT" /\ ~req[h].body THEN Answer(h, 400)
               ELSE Advance(h, "FindOperations")
    /\ Kept

\* Mutant of FindOperations: no limit on the number of operations.
FindOperationsUnbounded(h) ==
    /\ at[h] = "FindOperations"
    /\ LET p == commands[hold[h].name] IN
         IF p # Nil /\ HasOperations(DevOps(p), req[h].cmd, req[h].method)
         THEN /\ Move(h, "FindObjects")
              /\ hold' = [hold EXCEPT ![h].ops = GetResourceOperations(
                            DevOps(p), req[h].cmd, req[h].method)]
              /\ UNCHANGED answer
         ELSE Answer(h, 404)
    /\ Kept

\* GetResourceOperations and the limit on their number.
FindOperations(h) ==
    /\ at[h] = "FindOperations"
    /\ LET p == commands[hold[h].name]
           r == req[h]
       IN  IF p = Nil THEN Answer(h, 404)
           ELSE IF ~HasOperations(DevOps(p), r.cmd, r.method)
                THEN Answer(h, 404)
           ELSE LET ops == GetResourceOperations(DevOps(p), r.cmd, r.method) IN
                  IF Len(ops) > MaxCmdOps THEN Answer(h, 500)
                  ELSE /\ Move(h, "FindObjects")
                       /\ hold' = [hold EXCEPT ![h].ops = ops]
                       /\ UNCHANGED answer
    /\ Kept

\* Mutant of FindObjects: a device without objects is waited for.
FindObjectsWaiting(h) ==
    /\ at[h] = "FindObjects"
    /\ LET p == objects[hold[h].name] IN
         /\ p # Nil
         /\ IF \A o \in Range(hold[h].ops) : ResolvedIn(DevObjs(p), o)
            THEN Advance(h, "HandleCommands") ELSE Answer(h, 500)
    /\ Kept

\* getDeviceObjects, and the device object of every operation.
FindObjects(h) ==
    /\ at[h] = "FindObjects"
    /\ LET p == objects[hold[h].name] IN
         IF p # Nil /\ \A o \in Range(hold[h].ops) : ResolvedIn(DevObjs(p), o)
         THEN Advance(h, "HandleCommands") ELSE Answer(h, 500)
    /\ Kept

\* The driver returns one result per request, in order, or an error.
\* The driver answers with an error, or with results; it is assumed to return
\* one for each request, in their order, which executeCommand does not check.
HandleCommands(h) ==
    /\ at[h] = "HandleCommands"
    /\ Advance(h, "MakeReading") \/ Answer(h, 500)
    /\ Kept

\* getDeviceObject reads the map again for every result.  A nil object is
\* dereferenced; a device whose objects are gone gives the zero object, and
\* the reading an empty name.
MakeReading(h) ==
    /\ at[h] = "MakeReading" /\ Len(hold[h].readings) < Len(hold[h].ops)
    /\ LET p == objects[hold[h].name]
           o == hold[h].ops[Len(hold[h].readings) + 1]
           do == IF p = Nil THEN NoObject
                 ELSE GetDeviceObject(DevObjs(p), Described, o)
       IN  IF p # Nil /\ do = NoObject THEN Advance(h, "panicked")
           ELSE /\ hold' = [hold EXCEPT ![h].readings = Append(@, do)]
                /\ UNCHANGED <<at, answer>>
    /\ Kept

Respond(h) ==
    /\ at[h] = "MakeReading" /\ Len(hold[h].readings) = Len(hold[h].ops)
    /\ pending' = pending \cup
         {[name |-> hold[h].name, ops |-> hold[h].ops,
           readings |-> hold[h].readings, calm |-> calm[h]]}
    /\ Answer(h, 200)
    /\ UNCHANGED <<req, opened, calm, expected, pushed, requests>>

\* The panic of a handler is recovered by net/http: no answer.
Drop(h) ==
    /\ at[h] = "panicked"
    /\ Answer(h, 0)
    /\ Kept

\* sendEvent, in a goroutine of its own; a failed push is only logged.
SendEvent == \E e \in pending :
    /\ pending' = pending \ {e}
    /\ pushed' \in {pushed, pushed \cup {e}}
    /\ UNCHANGED <<at, req, hold, answer, opened, calm, expected, requests>>

HandlerMove(h) ==
    \/ ReadNames(h) \/ ReadDevice(h) \/ CheckCommand(h) \/ FindOperations(h)
    \/ FindObjects(h) \/ HandleCommands(h) \/ MakeReading(h) \/ Respond(h)
    \/ Drop(h)

-----------------------------------------------------------------------------
(* The maps a handler reads, and the composition.                           *)

HandlerReads == [devices  |-> {"ReadDevice"},
                 names    |-> {"ReadNames"},
                 objects  |-> {"FindObjects", "MakeReading"},
                 commands |-> {"CheckCommand", "FindOperations"}]

HandlerRacing == \E h \in Handler, g \in Goroutine, m \in DOMAIN HandlerReads :
    at[h] \in HandlerReads[m] /\ pc[g] \in WritesOf[m]

\* History: what became of the cache while a request was served.
Observe ==
    /\ opened' = [h \in Handler |->
         opened[h] \/ (at[h] # "idle" /\ Open(req[h].id)')]
    /\ calm' = [h \in Handler |-> calm[h] /\ (at[h] = "idle" \/ UNCHANGED cache)]

CacheMoves ==
    /\ CalmStep
    /\ UNCHANGED <<at, req, hold, answer, expected, pending, pushed, requests>>
    /\ Observe

\* A crash drops the connections and the events not pushed yet.
ProcessDies ==
    /\ CrashStep \/ (HandlerRacing /\ Crash)
    /\ at' = [h \in Handler |-> "idle"] /\ req' = [h \in Handler |-> Nil]
    /\ hold' = [h \in Handler |-> NoLocals] /\ answer' = [h \in Handler |-> 0]
    /\ opened' = [h \in Handler |-> FALSE] /\ calm' = [h \in Handler |-> TRUE]
    /\ expected' = [h \in Handler |-> {}]
    /\ pending' = {} /\ UNCHANGED <<pushed, requests>>

CmdStep(h) == (Arrive(h) \/ HandlerMove(h)) /\ UNCHANGED vars

Stay == Rest /\ pending = {} /\ UNCHANGED cmdVars

CmdNext ==
    \/ \E h \in Handler : CmdStep(h)
    \/ SendEvent /\ UNCHANGED vars
    \/ CacheMoves \/ ProcessDies \/ Stay

CmdSpec == CmdInit /\ [][CmdNext]_cvars

\* Handlers are scheduled, and the driver's HandleCommands is assumed to return:
\* nothing in executeCommand limits how long it takes.
FairCmdSpec ==
    /\ CmdSpec
    /\ \A h \in Handler : WF_cvars(HandlerMove(h) /\ UNCHANGED vars)
    /\ WF_cvars(SendEvent /\ UNCHANGED vars)

-----------------------------------------------------------------------------
CmdLabels == {"idle", "ReadNames", "ReadDevice", "CheckCommand",
              "FindOperations", "FindObjects", "HandleCommands",
              "MakeReading", "panicked"}

\* Type invariant of the handlers.
CmdTypeOK ==
    /\ at \in [Handler -> CmdLabels] /\ req \in [Handler -> Request \cup {Nil}]
    /\ \A h \in Handler :
         /\ hold[h].name \in Name \cup {Nil}
         /\ at[h] \notin {"idle", "ReadNames"} => hold[h].name # Nil
         /\ Len(hold[h].readings) <= Len(hold[h].ops)
         /\ Len(hold[h].ops) <= MaxCmdOps
    /\ answer \in [Handler -> {0, 200, 400, 404, 423, 500}]
    /\ requests \in 0 .. MaxRequests

\* A command reaches the driver only if the device was cached unlocked at some
\* moment of the request: the check of commandFunc, several map reads before
\* the dispatch, is not fooled by a device that stays locked meanwhile.  When a
\* name passes to another device between the two lookups of DeviceById, though,
\* it is the other device that is checked, and sent the command.
LockedNotDispatched == NamesUnique =>
    \A h \in Handler : at[h] = "HandleCommands" => opened[h]

\* A request during which no map changed is answered as one look at the maps
\* says: splitting the lookups over commandFunc and executeCommand matters only
\* when a change overlaps, and then alone can a handler panic.
AtomicAnswer == \A h \in Handler : req[h] # Nil /\ calm[h] =>
    /\ at[h] = "idle" => answer[h] \in expected[h]
    /\ at[h] = "HandleCommands" => 200 \in expected[h]
    /\ at[h] # "panicked"

\* What a reading of an operation is called: its parameter, or its object.
ReadingName(o) == IF o.parameter \in Described THEN o.parameter ELSE o.object

\* An event carries one reading per operation dispatched, in their order, each
\* named after its parameter or its object.  A reading has no name only when
\* the maps changed during the request.
EventComplete == \A e \in pending \cup pushed :
    /\ Len(e.readings) = Len(e.ops)
    /\ \A k \in DOMAIN e.ops :
         \/ e.readings[k] = ReadingName(e.ops[k])
         \/ e.readings[k] = NoObject /\ ~e.calm

\* Every request is answered, or its connection dropped, whatever the caches do
\* meanwhile: no lookup waits for anything.
Answered == \A h \in Handler : at[h] # "idle" ~> at[h] = "idle"

\* A PUT with a body reaches the driver (or fails there) when the device is
\* cached, unlocked and has set operations for the command.
PutDispatched == \A h \in Handler :
    req[h] # Nil /\ req[h].method = "PUT" /\ req[h].body /\ calm[h] =>
      \A n \in Name :
        /\ devices[n] # Nil /\ n = NameOf(req[h].id) /\ Cached(n)
        /\ devices[n].admin = "UNLOCKED"
        /\ CommandExists(DevOps(commands[n]), req[h].cmd)
        /\ "set" \in DOMAIN DevOps(commands[n])[Lower[req[h].cmd]]
        => ~(at[h] = "idle" /\ answer[h] = 404)

=============================================================================
