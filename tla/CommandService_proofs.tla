------------------------ MODULE CommandService_proofs ------------------------
(***************************************************************************)
(* Proofs about the composition of the caches and the command endpoint.    *)
(* First: the caches do under requests what they do without, every         *)
(* behaviour of the composition is one of DeviceCache, so that what is     *)
(* proved of the caches holds of the whole service.  Then: what a handler  *)
(* has found out is what the maps still say as long as they did not        *)
(* change, so that its answer is that of one look at them, and its events  *)
(* are whole.                                                              *)
(***************************************************************************)
EXTENDS CommandService, DeviceCache_proofs, ProfileTables_proofs

\* A handler is at work only in a process that serves, the one property of the
\* handlers the caches' steps depend on.
BusyServed ==
    /\ DOMAIN at = Handler
    /\ \A h \in Handler : at[h] # "idle" => phase = "up"

\* A process that serves goes on serving until it dies.
LEMMA ServingLasts == ASSUME CalmStep, phase = "up" PROVE phase' = "up"
<1> USE DEF process, Return, Continue, Done, Fail
<1>1. ASSUME NEW g \in Proc, AddStep(g) PROVE phase' = phase
  BY <1>1 DEF AddStep, Add, DelObjects, DelCommands, DelName, DelDevice,
       AddressableForName, AddAddressable, DeviceForName, AddToMetadata,
       UpdateOpState, AddProfile, PutObjects, PutCommands, PutDescriptors,
       PutDevice, PutName
<1>2. ASSUME NEW g \in Proc, HandlerStep(g) PROVE phase' = phase
  BY <1>2 DEF HandlerStep, DeleteInMetadata, UpdateInMetadata, DelOldDevice,
       FindName, FetchDevice, SetAdmin, Recover
<1>3. ASSUME NEW g \in Goroutine, Begin(g) \/ DescriptorPanic(g)
      PROVE  phase' = phase
  BY <1>3 DEF Begin, AddDevice, RemoveDevice, UpdateDevice, Callback, Start,
              DescriptorPanic
<1>4. ASSUME BootStep PROVE phase' = "up"
  BY <1>4 DEF BootStep, Boot, LoadNext, Serve
<1>5. ASSUME OtherStep PROVE phase' = phase
  BY <1>5 DEF OtherStep, ChangeAdmin, Delete
<1> QED
  BY <1>1, <1>2, <1>3, <1>4, <1>5 DEF CalmStep, Step

\* Requests arrive at a process that serves, and end with it.
LEMMA BusyKeeps == BusyServed /\ [CmdNext]_cvars => BusyServed'
<1> SUFFICES ASSUME BusyServed, [CmdNext]_cvars PROVE BusyServed'
  OBVIOUS
<1> USE DEF BusyServed
<1>1. ASSUME NEW h \in Handler, CmdStep(h) PROVE BusyServed'
  <2>1. UNCHANGED phase
    BY <1>1 DEF CmdStep, vars, process
  <2>2. \E l : at' = [at EXCEPT ![h] = l] \/ at' = at
    BY <1>1 DEF CmdStep, Arrive, HandlerMove, ReadNames, ReadDevice,
       CheckCommand, FindOperations, FindObjects, HandleCommands, MakeReading,
       Respond, Drop, Answer, Advance, Move
  <2>3. at[h] # "idle" \/ phase = "up"
    BY <1>1 DEF CmdStep, Arrive, HandlerMove, ReadNames, ReadDevice,
       CheckCommand, FindOperations, FindObjects, HandleCommands, MakeReading,
       Respond, Drop
  <2> QED
    BY <2>1, <2>2, <2>3
<1>2. CASE SendEvent /\ UNCHANGED vars
  BY <1>2 DEF SendEvent, vars, process
<1>3. CASE CacheMoves
  BY <1>3, ServingLasts DEF CacheMoves
<1>4. CASE ProcessDies
  BY <1>4 DEF ProcessDies
<1>5. CASE Stay \/ UNCHANGED cvars
  BY <1>5 DEF Stay, Rest, cvars, cmdVars, vars, process
<1> QED
  BY <1>1, <1>2, <1>3, <1>4, <1>5 DEF CmdNext

\* A step of the service is one of the caches or leaves them alone.  When the
\* runtime aborts a process for a handler's read of a map, that is a process
\* which could have been killed.
LEMMA StepOfCaches == BusyServed /\ [CmdNext]_cvars => [Next]_vars
<1> SUFFICES ASSUME BusyServed, [CmdNext]_cvars PROVE [Next]_vars
  OBVIOUS
<1>1. CASE \E h \in Handler : CmdStep(h)
  BY <1>1 DEF CmdStep
<1>2. CASE CacheMoves
  BY <1>2 DEF CacheMoves, Next
<1>3. CASE ProcessDies
  <2>1. ASSUME HandlerRacing, Crash PROVE Killed
    <3>1. PICK h \in Handler : at[h] # "idle"
      BY <2>1 DEF HandlerRacing, HandlerReads
    <3> QED
      BY <2>1, <3>1 DEF BusyServed, Killed
  <2> QED
    BY <1>3, <2>1 DEF ProcessDies, Next, CrashStep
<1>4. CASE (SendEvent /\ UNCHANGED vars) \/ Stay \/ UNCHANGED cvars
  BY <1>4 DEF Stay, Rest, cvars
<1> QED
  BY <1>1, <1>2, <1>3, <1>4 DEF CmdNext

\* Whatever requests arrive, the caches and Core Metadata do nothing they would
\* not do without them: the command endpoint only reads.
THEOREM CommandsOnlyRead == CmdSpec => Spec
<1>1. CmdInit => Init /\ BusyServed
  BY DEF CmdInit, BusyServed
<1> QED
  BY <1>1, BusyKeeps, StepOfCaches, PTL DEF CmdSpec, Spec

\* Under commands, too, no cache entry pairs an id with a name Core Metadata
\* never stored.
THEOREM IdentityKnownUnderCommands == CmdSpec => []KnownIdentity
BY CommandsOnlyRead, IdentityKnown, PTL

\* Under commands, too, a cached device's addressable exists.
THEOREM AddressableFirstUnderCommands == CmdSpec => []AddressableExists
BY CommandsOnlyRead, AddressableFirst, PTL

-----------------------------------------------------------------------------
(* What a handler knows, step by step.  The predicates speak of a request r, *)
(* a name n and operations ops, and of the maps as they are.                 *)

Locals == [name: Name \cup {Nil}, ops: Seq(Operation),
           readings: Seq(Word \cup {NoObject})]

Unlocked(n) == devices[n] # Nil /\ devices[n].admin # "LOCKED"

HasCommand(r, n) ==
    /\ commands[n] # Nil /\ CommandExists(DevOps(commands[n]), r.cmd)
    /\ ~(r.method = "PUT" /\ ~r.body)

Finds(r, n, ops) ==
    /\ HasOperations(DevOps(commands[n]), r.cmd, r.method)
    /\ ops = GetResourceOperations(DevOps(commands[n]), r.cmd, r.method)
    /\ Len(ops) <= MaxCmdOps

Resolves(n, ops) ==
    /\ objects[n] # Nil
    /\ \A o \in Range(ops) : ResolvedIn(DevObjs(objects[n]), o)

\* Stages at which a handler knows what the stage before found out.
Named == {"ReadDevice", "CheckCommand", "FindOperations", "FindObjects",
          "HandleCommands", "MakeReading"}
Admitted == Named \ {"ReadDevice"}
Accepted == Admitted \ {"CheckCommand"}
Equipped == Accepted \ {"FindOperations"}
Dispatched == {"HandleCommands", "MakeReading"}

\* At a stage, when the maps are still those of the arrival: everything found
\* out is still so, and what is expected is what they say now.
Knows(stage, r, n, ops, verdict) ==
    /\ stage # "panicked" /\ verdict = Verdict(r) /\ ~ServiceLocked
    /\ stage \in Named => n = NameOf(r.id) /\ n # Nil
    /\ stage \in Admitted => Unlocked(n)
    /\ stage \in Accepted => HasCommand(r, n)
    /\ stage \in Equipped => Finds(r, n, ops)
    /\ stage \in Dispatched => Resolves(n, ops)

\* A handler the maps of which did not change knows that; when it is done, it
\* has answered as expected.
Informed(h) == calm[h] =>
    /\ at[h] # "idle" =>
         Knows(at[h], req[h], hold[h].name, hold[h].ops, expected[h])
    /\ at[h] = "idle" /\ req[h] # Nil => answer[h] \in expected[h]

\* Readings of operations, in their order.
Reads(readings, ops, quiet) ==
    /\ Len(readings) <= Len(ops)
    /\ \A k \in 1 .. Len(readings) :
         \/ readings[k] = ReadingName(ops[k])
         \/ readings[k] = NoObject /\ ~quiet

Shaped(h) ==
    /\ at[h] \in CmdLabels /\ req[h] \in Request \cup {Nil}
    /\ at[h] # "idle" => req[h] \in Request
    /\ hold[h] \in Locals /\ Len(hold[h].ops) <= MaxCmdOps
    /\ at[h] \notin {"idle", "ReadNames"} => hold[h].name # Nil
    /\ at[h] = "idle" => hold[h] = NoLocals
    /\ at[h] \notin {"MakeReading", "panicked"} => hold[h].readings = <<>>
    /\ answer[h] \in {0, 200, 400, 404, 423, 500} /\ calm[h] \in BOOLEAN

HandlerInv(h) ==
    /\ Shaped(h) /\ Informed(h)
    /\ Reads(hold[h].readings, hold[h].ops, calm[h])

Whole(e) ==
    /\ e.ops \in Seq(Operation) /\ e.readings \in Seq(Word \cup {NoObject})
    /\ Len(e.readings) = Len(e.ops) /\ Reads(e.readings, e.ops, e.calm)

Functions ==
    /\ at \in [Handler -> CmdLabels] /\ req \in [Handler -> Request \cup {Nil}]
    /\ hold \in [Handler -> Locals]
    /\ answer \in [Handler -> {0, 200, 400, 404, 423, 500}]
    /\ calm \in [Handler -> BOOLEAN]
    /\ DOMAIN expected = Handler /\ requests \in 0 .. MaxRequests

CmdInv ==
    /\ Functions /\ \A h \in Handler : HandlerInv(h)
    /\ \A e \in pending \cup pushed : Whole(e)

-----------------------------------------------------------------------------
(* Facts about requests, operations and readings.                            *)

\* An empty list of operations and readings.
LEMMA NoLocalsFit ==
    /\ NoLocals \in Locals /\ Len(NoLocals.ops) <= MaxCmdOps
    /\ NoLocals.readings = <<>>
    /\ \A quiet : Reads(NoLocals.readings, NoLocals.ops, quiet)
BY CommandAssumption DEF NoLocals, Locals, Reads

\* The name an id leads to is a name, or none.
LEMMA NameOfType == ASSUME TypeOK, NEW t PROVE NameOf(t) \in Name \cup {Nil}
BY DEF TypeOK, CacheOK, NameOf

\* The operations found in a table are a list of operations.
LEMMA OperationsType ==
    ASSUME NEW p \in Profile, NEW r,
           HasOperations(DevOps(p), r.cmd, r.method)
    PROVE  GetResourceOperations(DevOps(p), r.cmd, r.method) \in Seq(Operation)
<1>1. DevOps(p) \in Tables
  <2>1. p \in DeviceProfile
    BY CommandAssumption
  <2> QED
    BY Zenon, <2>1, DeviceTable
<1>2. /\ Lower[r.cmd] \in DOMAIN DevOps(p)
      /\ MethodKey[r.method] \in DOMAIN DevOps(p)[Lower[r.cmd]]
  BY DEF HasOperations, CommandExists
<1>3. \A c \in DOMAIN DevOps(p) : DevOps(p)[c] \in OpsEntries
  BY <1>1 DEF Tables
<1>4. \A e \in OpsEntries : \A m \in DOMAIN e : e[m] \in Seq(Operation)
  BY DEF OpsEntries
<1> QED
  BY <1>2, <1>3, <1>4 DEF GetResourceOperations

\* What is found out stage by stage adds up to the answer of one look.
LEMMA VerdictUnknown ==
    ASSUME NEW r, ~ServiceLocked, NameOf(r.id) = Nil PROVE Verdict(r) = {404}
BY DEF Verdict

LEMMA VerdictOfDevice ==
    ASSUME NEW r, NEW n, ~ServiceLocked, n = NameOf(r.id), n # Nil
    PROVE  /\ devices[n] = Nil => Verdict(r) = {404}
           /\ devices[n] # Nil /\ devices[n].admin = "LOCKED" =>
                Verdict(r) = {423}
BY DEF Verdict

LEMMA VerdictOfCommand ==
    ASSUME NEW r, NEW n, ~ServiceLocked, n = NameOf(r.id), n # Nil, Unlocked(n)
    PROVE  /\ commands[n] = Nil => Verdict(r) = {500}
           /\ commands[n] # Nil /\ ~CommandExists(DevOps(commands[n]), r.cmd) =>
                Verdict(r) = {404}
           /\ /\ commands[n] # Nil /\ CommandExists(DevOps(commands[n]), r.cmd)
              /\ r.method = "PUT" /\ ~r.body
              => Verdict(r) = {400}
BY DEF Verdict, Unlocked

LEMMA VerdictOfOperations ==
    ASSUME NEW r, NEW n, ~ServiceLocked, n = NameOf(r.id), n # Nil, Unlocked(n),
           HasCommand(r, n)
    PROVE  IF HasOperations(DevOps(commands[n]), r.cmd, r.method)
           THEN Verdict(r) = IF /\ objects[n] # Nil
                                /\ Dispatchable(DevOps(commands[n]),
                                                DevObjs(objects[n]), r)
                             THEN {200, 500} ELSE {500}
           ELSE Verdict(r) = {404}
BY DEF Verdict, Unlocked, HasCommand

-----------------------------------------------------------------------------
(* What the ways of going on do to a handler, and to the others.             *)

Statuses == {0, 200, 400, 404, 423, 500}

LEMMA AnswerEffect ==
    ASSUME Functions, NEW h \in Handler, NEW status \in Statuses,
           Answer(h, status)
    PROVE  /\ at'[h] = "idle" /\ answer'[h] = status /\ hold'[h] = NoLocals
           /\ at' \in [Handler -> CmdLabels] /\ hold' \in [Handler -> Locals]
           /\ answer' \in [Handler -> Statuses]
BY NoLocalsFit DEF Functions, Answer, Move, Statuses, CmdLabels

LEMMA AdvanceEffect ==
    ASSUME Functions, NEW h \in Handler, NEW label \in CmdLabels,
           Advance(h, label)
    PROVE  /\ at'[h] = label /\ answer' = answer /\ hold' = hold
           /\ at' \in [Handler -> CmdLabels]
BY DEF Functions, Advance, Move

\* Nothing of a handler that neither moves nor sees the maps change is
\* disturbed.
LEMMA HandlerKept ==
    ASSUME NEW k \in Handler, HandlerInv(k), UNCHANGED cache,
           UNCHANGED <<at[k], req[k], hold[k], answer[k], calm[k], expected[k]>>
    PROVE  HandlerInv(k)'
<1>1. Shaped(k)' /\ Reads(hold[k].readings, hold[k].ops, calm[k])'
  BY DEF HandlerInv, Shaped, Reads, ReadingName
<1>2. Informed(k)'
  BY DEF HandlerInv, Informed, Knows, Verdict, NameOf, Unlocked, HasCommand,
         Finds, Resolves, cache
<1> QED
  BY <1>1, <1>2 DEF HandlerInv

\* What a handler knows is about the maps, so it lasts as long as they do.
LEMMA InformedNext ==
    ASSUME NEW h \in Handler, UNCHANGED cache,
           calm'[h] /\ at'[h] # "idle" =>
             Knows(at'[h], req'[h], hold'[h].name, hold'[h].ops, expected'[h]),
           calm'[h] /\ at'[h] = "idle" /\ req'[h] # Nil =>
             answer'[h] \in expected'[h]
    PROVE  Informed(h)'
BY DEF Informed, Knows, Verdict, NameOf, Unlocked, HasCommand, Finds, Resolves,
       cache

\* A handler answers what is expected of it.
LEMMA AnswersWell ==
    ASSUME Functions, NEW h \in Handler, HandlerInv(h),
           NEW status \in Statuses, Answer(h, status), UNCHANGED cache,
           UNCHANGED <<req, calm, expected>>, calm[h] => status \in expected[h]
    PROVE  HandlerInv(h)'
<1>1. /\ at'[h] = "idle" /\ answer'[h] = status /\ hold'[h] = NoLocals
      /\ hold'[h] \in Locals
  BY AnswerEffect, NoLocalsFit
<1>2. Shaped(h)'
  BY <1>1, NoLocalsFit DEF HandlerInv, Shaped, Statuses, CmdLabels
<1>3. Reads(hold[h].readings, hold[h].ops, calm[h])'
  BY <1>1 DEF Reads, NoLocals
<1>4. Informed(h)'
  BY <1>1, InformedNext
<1> QED
  BY <1>2, <1>3, <1>4 DEF HandlerInv

\* A handler goes on with what it knows.
LEMMA AdvancesWell ==
    ASSUME Functions, NEW h \in Handler, HandlerInv(h), UNCHANGED cache,
           NEW label \in CmdLabels \ {"idle"}, Advance(h, label),
           UNCHANGED <<req, calm, expected>>, at[h] # "idle",
           hold[h].name # Nil,
           label \notin {"MakeReading", "panicked"} => hold[h].readings = <<>>,
           calm[h] =>
             Knows(label, req[h], hold[h].name, hold[h].ops, expected[h])
    PROVE  HandlerInv(h)'
<1>1. at'[h] = label /\ answer' = answer /\ hold' = hold
  BY AdvanceEffect
<1>2. Shaped(h)'
  BY <1>1 DEF HandlerInv, Shaped
<1>3. Reads(hold[h].readings, hold[h].ops, calm[h])'
  BY <1>1 DEF HandlerInv, Reads
<1>4. Informed(h)'
  BY <1>1, InformedNext
<1> QED
  BY <1>2, <1>3, <1>4 DEF HandlerInv

-----------------------------------------------------------------------------
(* One lemma per step of a handler.                                          *)

\* A request arrives, and is expected to get what one look says.
LEMMA ArriveWell ==
    ASSUME Functions, NEW h \in Handler, HandlerInv(h), UNCHANGED vars, Arrive(h)
    PROVE  HandlerInv(h)'
<1>1. PICK r \in Request :
        /\ at[h] = "idle" /\ req' = [req EXCEPT ![h] = r]
        /\ calm' = [calm EXCEPT ![h] = TRUE]
        /\ expected' = [expected EXCEPT ![h] = Verdict(r)]
        /\ IF ServiceLocked THEN Answer(h, 423) ELSE Advance(h, "ReadNames")
  BY DEF Arrive
<1>2. req'[h] = r /\ calm'[h] = TRUE /\ expected'[h] = Verdict(r)
  BY <1>1 DEF Functions
<1>3. UNCHANGED cache
  BY DEF vars
<1>4. hold[h] = NoLocals
  BY <1>1 DEF HandlerInv, Shaped
<1>5. CASE ServiceLocked
  <2>1. /\ at'[h] = "idle" /\ answer'[h] = 423 /\ hold'[h] = NoLocals
    BY <1>1, <1>5, AnswerEffect DEF Statuses
  <2>2. Shaped(h)' /\ Reads(hold[h].readings, hold[h].ops, calm[h])'
    BY <1>2, <2>1, NoLocalsFit DEF Shaped, CmdLabels, Reads, NoLocals
  <2>3. answer'[h] \in expected'[h]
    BY <1>2, <1>5, <2>1 DEF Verdict
  <2>4. Informed(h)'
    BY <1>3, <2>1, <2>3, InformedNext
  <2> QED
    BY <2>2, <2>4 DEF HandlerInv
<1>6. CASE ~ServiceLocked
  <2>1. at'[h] = "ReadNames" /\ answer' = answer /\ hold' = hold
    BY <1>1, <1>6, AdvanceEffect DEF CmdLabels
  <2>2. Shaped(h)'
    BY <1>2, <1>4, <2>1, NoLocalsFit DEF HandlerInv, Shaped, CmdLabels
  <2>3. Reads(hold[h].readings, hold[h].ops, calm[h])'
    BY <1>4, <2>1 DEF Reads, NoLocals
  <2>4. Knows(at'[h], req'[h], hold'[h].name, hold'[h].ops, expected'[h])
    BY <1>2, <1>6, <2>1 DEF Knows, Named, Admitted, Accepted, Equipped, Dispatched
  <2>5. Informed(h)'
    BY <1>3, <2>1, <2>4, InformedNext
  <2> QED
    BY <2>2, <2>3, <2>5 DEF HandlerInv
<1> QED
  BY <1>5, <1>6

\* The id leads to no name, or to one that is kept.
LEMMA ReadNamesWell ==
    ASSUME TypeOK, Functions, NEW h \in Handler, HandlerInv(h), UNCHANGED vars,
           ReadNames(h)
    PROVE  HandlerInv(h)'
<1> DEFINE n == NameOf(req[h].id)
<1>1. at[h] = "ReadNames" /\ UNCHANGED <<req, calm, expected, cache>>
  BY DEF ReadNames, Kept, vars
<1>2. calm[h] => expected[h] = Verdict(req[h]) /\ ~ServiceLocked
  BY <1>1 DEF HandlerInv, Informed, Knows
<1>3. CASE n = Nil
  <2>1. Answer(h, 404)
    BY <1>3 DEF ReadNames
  <2>2. calm[h] => 404 \in expected[h]
    BY <1>2, <1>3, VerdictUnknown
  <2> QED
    BY <1>1, <2>1, <2>2, AnswersWell DEF Statuses
<1>4. CASE n # Nil
  <2>1. /\ at'[h] = "ReadDevice" /\ answer' = answer
        /\ hold' = [hold EXCEPT ![h].name = n]
    BY <1>4 DEF ReadNames, Move, Functions
  <2>2. hold[h] \in Locals /\ hold[h].readings = <<>>
    BY <1>1 DEF HandlerInv, Shaped
  <2>3. n \in Name \cup {Nil}
    BY NameOfType
  <2>4. /\ hold'[h].name = n /\ hold'[h].ops = hold[h].ops
        /\ hold'[h].readings = <<>> /\ hold'[h] \in Locals
    <3>1. hold'[h] = [hold[h] EXCEPT !.name = n]
      BY <2>1 DEF Functions
    <3> QED
      BY <2>2, <2>3, <3>1 DEF Locals
  <2>5. Shaped(h)' /\ Reads(hold[h].readings, hold[h].ops, calm[h])'
    BY <1>1, <1>4, <2>1, <2>4 DEF HandlerInv, Shaped, CmdLabels, Reads, Locals
  <2>6. calm[h] => Knows(at'[h], req'[h], hold'[h].name, hold'[h].ops,
                         expected'[h])
    BY <1>1, <1>2, <1>4, <2>1, <2>4
       DEF Knows, Named, Admitted, Accepted, Equipped, Dispatched
  <2>7. Informed(h)'
    BY <1>1, <2>1, <2>6, InformedNext
  <2> QED
    BY <2>5, <2>7 DEF HandlerInv
<1> QED
  BY <1>3, <1>4

\* The device is not there, is locked, or is not.
LEMMA ReadDeviceWell ==
    ASSUME TypeOK, Functions, NEW h \in Handler, HandlerInv(h), UNCHANGED vars,
           ReadDevice(h)
    PROVE  HandlerInv(h)'
<1> DEFINE n == hold[h].name
<1>1. at[h] = "ReadDevice" /\ UNCHANGED <<req, calm, expected, cache>>
  BY DEF ReadDevice, Kept, vars
<1>2. n # Nil /\ hold[h].readings = <<>>
  BY <1>1 DEF HandlerInv, Shaped
<1>3. calm[h] => /\ expected[h] = Verdict(req[h]) /\ ~ServiceLocked
                 /\ n = NameOf(req[h].id)
  BY <1>1 DEF HandlerInv, Informed, Knows, Named
<1>4. CASE devices[n] = Nil /\ Answer(h, 404)
  <2>1. calm[h] => 404 \in expected[h]
    BY <1>2, <1>3, <1>4, VerdictOfDevice
  <2> QED
    BY <1>1, <1>4, <2>1, AnswersWell DEF Statuses
<1>5. CASE devices[n] # Nil /\ devices[n].admin = "LOCKED" /\ Answer(h, 423)
  <2>1. calm[h] => 423 \in expected[h]
    BY <1>2, <1>3, <1>5, VerdictOfDevice
  <2> QED
    BY <1>1, <1>5, <2>1, AnswersWell DEF Statuses
<1>6. CASE Unlocked(n) /\ Advance(h, "CheckCommand")
  <2>1. calm[h] => Knows("CheckCommand", req[h], n, hold[h].ops, expected[h])
    BY <1>2, <1>3, <1>6
       DEF Knows, Named, Admitted, Accepted, Equipped, Dispatched
  <2> QED
    BY <1>1, <1>2, <1>6, <2>1, AdvancesWell DEF CmdLabels
<1> QED
  BY <1>4, <1>5, <1>6 DEF ReadDevice, Unlocked

\* The profile has the command or not, and a PUT has a body or not.
LEMMA CheckCommandWell ==
    ASSUME TypeOK, Functions, NEW h \in Handler, HandlerInv(h), UNCHANGED vars,
           CheckCommand(h)
    PROVE  HandlerInv(h)'
<1> DEFINE n == hold[h].name
           r == req[h]
<1>1. at[h] = "CheckCommand" /\ UNCHANGED <<req, calm, expected, cache>>
  BY DEF CheckCommand, Kept, vars
<1>2. n # Nil /\ hold[h].readings = <<>>
  BY <1>1 DEF HandlerInv, Shaped
<1>3. calm[h] => /\ expected[h] = Verdict(r) /\ ~ServiceLocked
                 /\ n = NameOf(r.id) /\ Unlocked(n)
  BY <1>1 DEF HandlerInv, Informed, Knows, Named, Admitted
<1>4. CASE commands[n] = Nil /\ Answer(h, 500)
  <2>1. calm[h] => 500 \in expected[h]
    BY <1>2, <1>3, <1>4, VerdictOfCommand
  <2> QED
    BY <1>1, <1>4, <2>1, AnswersWell DEF Statuses
<1>5. CASE /\ commands[n] # Nil /\ ~CommandExists(DevOps(commands[n]), r.cmd)
           /\ Answer(h, 404)
  <2>1. calm[h] => 404 \in expected[h]
    BY <1>2, <1>3, <1>5, VerdictOfCommand
  <2> QED
    BY <1>1, <1>5, <2>1, AnswersWell DEF Statuses
<1>6. CASE /\ commands[n] # Nil /\ CommandExists(DevOps(commands[n]), r.cmd)
           /\ r.method = "PUT" /\ ~r.body /\ Answer(h, 400)
  <2>1. calm[h] => 400 \in expected[h]
    BY <1>2, <1>3, <1>6, VerdictOfCommand
  <2> QED
    BY <1>1, <1>6, <2>1, AnswersWell DEF Statuses
<1>7. CASE HasCommand(r, n) /\ Advance(h, "FindOperations")
  <2>1. calm[h] => Knows("FindOperations", r, n, hold[h].ops, expected[h])
    BY <1>2, <1>3, <1>7
       DEF Knows, Named, Admitted, Accepted, Equipped, Dispatched
  <2> QED
    BY <1>1, <1>2, <1>7, <2>1, AdvancesWell DEF CmdLabels
<1> QED
  BY <1>4, <1>5, <1>6, <1>7 DEF CheckCommand, HasCommand

\* The command has operations under the method, and not too many, or not.
LEMMA FindOperationsWell ==
    ASSUME TypeOK, Functions, NEW h \in Handler, HandlerInv(h), UNCHANGED vars,
           FindOperations(h)
    PROVE  HandlerInv(h)'
<1> DEFINE n == hold[h].name
           r == req[h]
           t == DevOps(commands[n])
           found == GetResourceOperations(t, r.cmd, r.method)
<1>1. at[h] = "FindOperations" /\ UNCHANGED <<req, calm, expected, cache>>
  BY DEF FindOperations, Kept, vars
<1>2. /\ n # Nil /\ hold[h].readings = <<>> /\ hold[h] \in Locals
      /\ r \in Request
  BY <1>1 DEF HandlerInv, Shaped
<1>3. calm[h] => /\ expected[h] = Verdict(r) /\ ~ServiceLocked
                 /\ n = NameOf(r.id) /\ Unlocked(n) /\ HasCommand(r, n)
  BY <1>1 DEF HandlerInv, Informed, Knows, Named, Admitted, Accepted
<1>4. CASE commands[n] = Nil /\ Answer(h, 404)
  <2>1. ~calm[h]
    BY <1>3, <1>4 DEF HasCommand
  <2> QED
    BY <1>1, <1>4, <2>1, AnswersWell DEF Statuses
<1>5. CASE ~HasOperations(t, r.cmd, r.method) /\ Answer(h, 404)
  <2>1. calm[h] => 404 \in expected[h]
    BY <1>2, <1>3, <1>5, VerdictOfOperations
  <2> QED
    BY <1>1, <1>5, <2>1, AnswersWell DEF Statuses
<1>6. CASE /\ HasOperations(t, r.cmd, r.method) /\ Len(found) > MaxCmdOps
           /\ Answer(h, 500)
  <2>1. calm[h] => 500 \in expected[h]
    BY <1>2, <1>3, <1>6, VerdictOfOperations
  <2> QED
    BY <1>1, <1>6, <2>1, AnswersWell DEF Statuses
<1>7. CASE /\ commands[n] # Nil /\ HasOperations(t, r.cmd, r.method)
           /\ ~(Len(found) > MaxCmdOps) /\ Move(h, "FindObjects")
           /\ hold' = [hold EXCEPT ![h].ops = found] /\ UNCHANGED answer
  <2>1. at'[h] = "FindObjects"
    BY <1>7 DEF Move, Functions
  <2>2. commands[n] \in Profile
    BY <1>2, <1>7 DEF Locals, TypeOK, CacheOK
  <2>3. found \in Seq(Operation)
    BY <1>7, <2>2, OperationsType
  <2>4. hold'[h] = [hold[h] EXCEPT !.ops = found]
    BY <1>7 DEF Functions
  <2>5. /\ hold'[h].name = n /\ hold'[h].ops = found
        /\ hold'[h].readings = <<>> /\ hold'[h] \in Locals
    BY <1>2, <2>3, <2>4 DEF Locals
  <2>6. Len(found) <= MaxCmdOps /\ Len(found) \in Nat
    BY <1>7, <2>3, CommandAssumption
  <2>7. Shaped(h)'
    BY <1>1, <1>2, <1>7, <2>1, <2>5, <2>6 DEF HandlerInv, Shaped, CmdLabels
  <2>8. Reads(hold[h].readings, hold[h].ops, calm[h])'
    BY <2>5, <2>6 DEF Reads
  <2>9. calm[h] => Knows(at'[h], req'[h], hold'[h].name, hold'[h].ops,
                         expected'[h])
    BY <1>1, <1>2, <1>3, <1>7, <2>1, <2>5, <2>6
       DEF Knows, Named, Admitted, Accepted, Equipped, Dispatched, Finds
  <2>10. Informed(h)'
    BY <1>1, <2>1, <2>9, InformedNext
  <2> QED
    BY <2>7, <2>8, <2>10 DEF HandlerInv
<1> QED
  BY <1>4, <1>5, <1>6, <1>7 DEF FindOperations

\* What is expected once the operations are found depends on their objects.
LEMMA VerdictOfObjects ==
    ASSUME NEW r, NEW n, NEW ops, ~ServiceLocked, n = NameOf(r.id), n # Nil,
           Unlocked(n), HasCommand(r, n), Finds(r, n, ops)
    PROVE  /\ 500 \in Verdict(r)
           /\ Resolves(n, ops) => 200 \in Verdict(r)
<1> DEFINE t == DevOps(commands[n])
           objs == DevObjs(objects[n])
<1>1. HasOperations(t, r.cmd, r.method)
  BY DEF Finds
<1>2. Verdict(r) = IF objects[n] # Nil /\ Dispatchable(t, objs, r)
                   THEN {200, 500} ELSE {500}
  BY <1>1, VerdictOfOperations
<1>3. Resolves(n, ops) => objects[n] # Nil /\ Dispatchable(t, objs, r)
  BY DEF Finds, Resolves, Dispatchable
<1> QED
  <2> HIDE DEF t, objs
  <2> QED
    BY <1>2, <1>3

\* All operations have an object, or one of them has none.
LEMMA FindObjectsWell ==
    ASSUME TypeOK, Functions, NEW h \in Handler, HandlerInv(h), UNCHANGED vars,
           FindObjects(h)
    PROVE  HandlerInv(h)'
<1> DEFINE n == hold[h].name
           r == req[h]
           ops == hold[h].ops
<1>1. at[h] = "FindObjects" /\ UNCHANGED <<req, calm, expected, cache>>
  BY DEF FindObjects, Kept, vars
<1>2. n # Nil /\ hold[h].readings = <<>>
  BY <1>1 DEF HandlerInv, Shaped
<1>3. calm[h] => /\ expected[h] = Verdict(r) /\ ~ServiceLocked
                 /\ n = NameOf(r.id) /\ Unlocked(n) /\ HasCommand(r, n)
                 /\ Finds(r, n, ops)
  BY <1>1 DEF HandlerInv, Informed, Knows, Named, Admitted, Accepted, Equipped
<1>4. CASE ~Resolves(n, ops) /\ Answer(h, 500)
  <2>1. calm[h] => 500 \in expected[h]
    <3>1. ASSUME calm[h] PROVE 500 \in Verdict(r)
      BY <1>2, <1>3, <3>1, VerdictOfObjects
    <3> QED
      BY <1>3, <3>1
  <2> QED
    BY <1>1, <1>4, <2>1, AnswersWell DEF Statuses
<1>5. CASE Resolves(n, ops) /\ Advance(h, "HandleCommands")
  <2>1. calm[h] => Knows("HandleCommands", r, n, ops, expected[h])
    BY <1>2, <1>3, <1>5
       DEF Knows, Named, Admitted, Accepted, Equipped, Dispatched
  <2> QED
    BY <1>1, <1>2, <1>5, <2>1, AdvancesWell DEF CmdLabels
<1> QED
  BY <1>4, <1>5 DEF FindObjects, Resolves

\* The driver may fail at any request it is given.
LEMMA HandleCommandsWell ==
    ASSUME TypeOK, Functions, NEW h \in Handler, HandlerInv(h), UNCHANGED vars,
           HandleCommands(h)
    PROVE  HandlerInv(h)'
<1> DEFINE n == hold[h].name
           r == req[h]
           ops == hold[h].ops
<1>1. at[h] = "HandleCommands" /\ UNCHANGED <<req, calm, expected, cache>>
  BY DEF HandleCommands, Kept, vars
<1>2. n # Nil /\ hold[h].readings = <<>>
  BY <1>1 DEF HandlerInv, Shaped
<1>3. calm[h] => /\ expected[h] = Verdict(r) /\ ~ServiceLocked
                 /\ n = NameOf(r.id) /\ Unlocked(n) /\ HasCommand(r, n)
                 /\ Finds(r, n, ops) /\ Resolves(n, ops)
  BY <1>1 DEF HandlerInv, Informed, Knows, Named, Admitted, Accepted, Equipped,
              Dispatched
<1>4. CASE Answer(h, 500)
  <2>1. calm[h] => 500 \in expected[h]
    <3>1. ASSUME calm[h] PROVE 500 \in Verdict(r)
      BY <1>2, <1>3, <3>1, VerdictOfObjects
    <3> QED
      BY <1>3, <3>1
  <2> QED
    BY <1>1, <1>4, <2>1, AnswersWell DEF Statuses
<1>5. CASE Advance(h, "MakeReading")
  <2>1. calm[h] => Knows("MakeReading", r, n, ops, expected[h])
    BY <1>2, <1>3
       DEF Knows, Named, Admitted, Accepted, Equipped, Dispatched
  <2> QED
    BY <1>1, <1>2, <1>5, <2>1, AdvancesWell DEF CmdLabels
<1> QED
  BY <1>4, <1>5 DEF HandleCommands

\* An object found for an operation has its name or that of its parameter; one
\* that is not found is NoObject.
LEMMA ObjectName ==
    ASSUME NEW p \in Profile, NEW o \in Operation
    PROVE  /\ o.object \in DOMAIN DevObjs(p) =>
                /\ GetDeviceObject(DevObjs(p), Described, o) = ReadingName(o)
                /\ GetDeviceObject(DevObjs(p), Described, o) # NoObject
           /\ GetDeviceObject(DevObjs(p), Described, o) \in Word \cup {NoObject}
           /\ o.object \notin DOMAIN DevObjs(p) =>
                GetDeviceObject(DevObjs(p), Described, o) = NoObject
<1>1. o.object \in Word /\ o.parameter \in Word
  BY DEF Operation
<1>2. o.object \in DOMAIN DevObjs(p) => DevObjs(p)[o.object] = o.object
  <2>1. p \in DeviceProfile
    BY CommandAssumption
  <2> QED
    BY Zenon, <2>1, ObjectTable
<1> QED
  BY <1>1, <1>2, WordAssumption DEF GetDeviceObject, ReadingName

\* The object of an operation is looked up again for its reading: only when the
\* maps changed can it be missing.
LEMMA MakeReadingWell ==
    ASSUME TypeOK, Functions, NEW h \in Handler, HandlerInv(h), UNCHANGED vars,
           MakeReading(h)
    PROVE  HandlerInv(h)'
<1> DEFINE n == hold[h].name
           r == req[h]
           ops == hold[h].ops
           readings == hold[h].readings
           next == Len(readings) + 1
           o == ops[next]
           p == objects[n]
           do == IF p = Nil THEN NoObject
                 ELSE GetDeviceObject(DevObjs(p), Described, o)
<1>1. at[h] = "MakeReading" /\ UNCHANGED <<req, calm, expected, cache>>
  BY DEF MakeReading, Kept, vars
<1>2. n \in Name /\ hold[h] \in Locals /\ Len(ops) <= MaxCmdOps
  BY <1>1 DEF HandlerInv, Shaped, Locals
<1>3. ops \in Seq(Operation) /\ readings \in Seq(Word \cup {NoObject})
  BY <1>2 DEF Locals
<1>4. Len(readings) < Len(ops) /\ Len(readings) \in Nat /\ Len(ops) \in Nat
  BY <1>3 DEF MakeReading
<1>5. next \in 1 .. Len(ops) /\ next \in DOMAIN ops
  BY <1>3, <1>4
<1>6. o \in Operation /\ o \in Range(ops)
  BY <1>3, <1>5 DEF Range
<1>7. p \in Profile \cup {Nil}
  BY <1>2 DEF TypeOK, CacheOK
<1>8. calm[h] => /\ expected[h] = Verdict(r) /\ ~ServiceLocked
                 /\ n = NameOf(r.id) /\ Unlocked(n) /\ HasCommand(r, n)
                 /\ Finds(r, n, ops) /\ Resolves(n, ops)
  BY <1>1 DEF HandlerInv, Informed, Knows, Named, Admitted, Accepted, Equipped,
              Dispatched
<1>9. calm[h] => p # Nil /\ do = ReadingName(o) /\ do # NoObject
  <2>1. ASSUME calm[h] PROVE p \in Profile /\ o.object \in DOMAIN DevObjs(p)
    BY <1>6, <1>7, <1>8, <2>1 DEF Resolves, ResolvedIn
  <2>2. ASSUME calm[h] PROVE p # Nil /\ do = GetDeviceObject(DevObjs(p), Described, o)
    BY <1>8, <2>2 DEF Resolves
  <2> QED
    BY <1>6, <2>1, <2>2, ObjectName
<1>10. do \in Word \cup {NoObject} /\ (do = ReadingName(o) \/ do = NoObject)
  <2>1. CASE p = Nil
    BY <2>1
  <2>2. CASE p # Nil
    BY <1>6, <1>7, <2>2, ObjectName
  <2> QED
    BY <2>1, <2>2
<1>11. CASE p # Nil /\ do = NoObject /\ Advance(h, "panicked")
  <2>1. ~calm[h]
    BY <1>9, <1>11
  <2>2. n # Nil
    BY <1>1 DEF HandlerInv, Shaped
  <2> QED
    BY <1>1, <1>11, <2>1, <2>2, AdvancesWell DEF CmdLabels
<1>12. CASE /\ hold' = [hold EXCEPT ![h].readings = Append(readings, do)]
            /\ UNCHANGED <<at, answer>>
  <2> HIDE DEF do
  <2>1. hold'[h] = [hold[h] EXCEPT !.readings = Append(readings, do)]
    BY <1>12 DEF Functions
  <2>2. Append(readings, do) \in Seq(Word \cup {NoObject})
    BY <1>3, <1>10
  <2>3. /\ hold'[h].name = n /\ hold'[h].ops = ops /\ hold'[h] \in Locals
        /\ hold'[h].readings = Append(readings, do)
    BY <1>2, <2>1, <2>2 DEF Locals
  <2>4. Shaped(h)'
    BY <1>1, <1>2, <1>12, <2>3 DEF HandlerInv, Shaped
  <2>5. Reads(Append(readings, do), ops, calm[h])
    <3>1. Reads(readings, ops, calm[h])
      BY DEF HandlerInv
    <3>2. \A k \in 1 .. Len(readings) : Append(readings, do)[k] = readings[k]
      BY <1>3
    <3>3. /\ Append(readings, do)[next] = do
          /\ Len(Append(readings, do)) = next
      BY <1>3
    <3>4. do = ReadingName(o) \/ (do = NoObject /\ ~calm[h])
      BY <1>9, <1>10
    <3>5. ASSUME NEW k \in 1 .. next
          PROVE  \/ Append(readings, do)[k] = ReadingName(ops[k])
                 \/ Append(readings, do)[k] = NoObject /\ ~calm[h]
      <4>1. CASE k \in 1 .. Len(readings)
        BY <3>1, <3>2, <4>1 DEF Reads
      <4>2. CASE k = next
        BY <3>3, <3>4, <4>2
      <4>3. k \in 1 .. Len(readings) \/ k = next
        BY <1>4
      <4> QED
        BY <4>1, <4>2, <4>3
    <3> QED
      BY <1>5, <3>3, <3>5 DEF Reads
  <2>6. Reads(hold[h].readings, hold[h].ops, calm[h])'
    BY <1>1, <2>3, <2>5 DEF Reads, ReadingName
  <2>7. calm[h] => Knows(at'[h], req'[h], hold'[h].name, hold'[h].ops,
                         expected'[h])
    BY <1>1, <1>12, <2>3 DEF HandlerInv, Informed
  <2>8. Informed(h)'
    BY <1>1, <1>12, <2>7, InformedNext
  <2> QED
    BY <2>4, <2>6, <2>8 DEF HandlerInv
<1> QED
  BY <1>11, <1>12 DEF MakeReading

\* The request is answered with all its readings.
LEMMA RespondWell ==
    ASSUME TypeOK, Functions, NEW h \in Handler, HandlerInv(h), UNCHANGED vars,
           Respond(h), \A e \in pending \cup pushed : Whole(e)
    PROVE  HandlerInv(h)' /\ (\A e \in pending \cup pushed : Whole(e))'
<1> DEFINE n == hold[h].name
           r == req[h]
           ops == hold[h].ops
           new == [name |-> n, ops |-> ops, readings |-> hold[h].readings,
                   calm |-> calm[h]]
<1>1. /\ at[h] = "MakeReading" /\ Answer(h, 200) /\ pending' = pending \cup {new}
      /\ UNCHANGED <<req, calm, expected, cache, pushed>>
  BY DEF Respond, vars
<1>2. n # Nil /\ hold[h] \in Locals
  BY <1>1 DEF HandlerInv, Shaped
<1>3. calm[h] => /\ expected[h] = Verdict(r) /\ ~ServiceLocked
                 /\ n = NameOf(r.id) /\ Unlocked(n) /\ HasCommand(r, n)
                 /\ Finds(r, n, ops) /\ Resolves(n, ops)
  BY <1>1 DEF HandlerInv, Informed, Knows, Named, Admitted, Accepted, Equipped,
              Dispatched
<1>4. ASSUME calm[h] PROVE 200 \in Verdict(r)
  BY <1>2, <1>3, <1>4, VerdictOfObjects
<1>5. HandlerInv(h)'
  BY <1>1, <1>3, <1>4, AnswersWell DEF Statuses
<1>6. Whole(new)
  BY <1>2 DEF Respond, Whole, HandlerInv, Locals
<1>7. \A e \in pending' \cup pushed' : Whole(e)
  BY <1>1, <1>6
<1> QED
  BY <1>5, <1>7 DEF Whole, Reads, ReadingName

\* The connection of a handler that panicked is dropped.
LEMMA DropWell ==
    ASSUME Functions, NEW h \in Handler, HandlerInv(h), UNCHANGED vars, Drop(h)
    PROVE  HandlerInv(h)'
<1>1. /\ at[h] = "panicked" /\ Answer(h, 0)
      /\ UNCHANGED <<req, calm, expected, cache>>
  BY DEF Drop, Kept, vars
<1>2. ~calm[h]
  BY <1>1 DEF HandlerInv, Informed, Knows
<1> QED
  BY <1>1, <1>2, AnswersWell DEF Statuses

-----------------------------------------------------------------------------
(* The composition.                                                          *)

\* A step of one handler is none of another.
LEMMA OnlyOwn ==
    ASSUME Functions, NEW h \in Handler, NEW k \in Handler \ {h}, CmdStep(h)
    PROVE  /\ UNCHANGED <<at[k], req[k], hold[k], answer[k], calm[k], expected[k]>>
           /\ UNCHANGED cache
BY DEF Functions, CmdStep, Arrive, HandlerMove, ReadNames, ReadDevice,
       CheckCommand, FindOperations, FindObjects, HandleCommands, MakeReading,
       Respond, Drop, Answer, Advance, Move, Kept, vars

\* A handler's step keeps what it and the events are.
LEMMA HandlerStepWell ==
    ASSUME TypeOK, CmdInv, NEW h \in Handler, CmdStep(h)
    PROVE  HandlerInv(h)' /\ (\A e \in pending \cup pushed : Whole(e))'
<1>1. Functions /\ HandlerInv(h) /\ UNCHANGED vars
  BY DEF CmdInv, CmdStep
<1>2. CASE Respond(h)
  BY <1>1, <1>2, RespondWell DEF CmdInv
<1>3. CASE ~Respond(h)
  <2>1. UNCHANGED <<pending, pushed>>
    BY <1>3 DEF CmdStep, Arrive, HandlerMove, ReadNames, ReadDevice,
       CheckCommand, FindOperations, FindObjects, HandleCommands, MakeReading,
       Drop, Kept
  <2>2. (\A e \in pending \cup pushed : Whole(e))'
    BY <2>1 DEF CmdInv, Whole, Reads, ReadingName
  <2>3. HandlerInv(h)'
    BY <1>1, <1>3, ArriveWell, ReadNamesWell, ReadDeviceWell, CheckCommandWell,
       FindOperationsWell, FindObjectsWell, HandleCommandsWell, MakeReadingWell,
       DropWell DEF CmdStep, HandlerMove
  <2> QED
    BY <2>2, <2>3
<1> QED
  BY <1>2, <1>3

\* The changes of the caches take from a handler only what it knew of them.
LEMMA CacheMovesWell ==
    ASSUME Functions, NEW h \in Handler, HandlerInv(h), CacheMoves
    PROVE  HandlerInv(h)'
<1>1. /\ UNCHANGED <<at, req, hold, answer, expected>>
      /\ calm'[h] = (calm[h] /\ (at[h] = "idle" \/ UNCHANGED cache))
  BY DEF CacheMoves, Observe
<1>2. calm'[h] \in BOOLEAN /\ (calm'[h] => calm[h])
  BY <1>1
<1>3. Shaped(h)'
  BY <1>1, <1>2 DEF HandlerInv, Shaped
<1>4. Reads(hold[h].readings, hold[h].ops, calm[h])'
  BY <1>1, <1>2 DEF HandlerInv, Reads, ReadingName
<1>5. Informed(h)'
  <2>1. CASE ~calm'[h]
    BY <2>1 DEF Informed
  <2>2. CASE calm'[h] /\ at[h] = "idle"
    BY <1>1, <1>2, <2>2 DEF HandlerInv, Informed
  <2>3. CASE calm'[h] /\ at[h] # "idle"
    <3>1. calm[h] /\ UNCHANGED cache
      BY <1>1, <2>3
    <3>2. Knows(at'[h], req'[h], hold'[h].name, hold'[h].ops, expected'[h])
      BY <1>1, <2>3, <3>1 DEF HandlerInv, Informed
    <3> QED
      BY <1>1, <2>3, <3>1, <3>2, InformedNext
  <2> QED
    BY <2>1, <2>2, <2>3
<1> QED
  BY <1>3, <1>4, <1>5 DEF HandlerInv

\* Every step keeps the shape of the handlers' variables.
LEMMA FunctionsKeep ==
    TypeOK /\ CmdInv /\ [CmdNext]_cvars => Functions'
<1> SUFFICES ASSUME TypeOK, CmdInv, [CmdNext]_cvars PROVE Functions'
  OBVIOUS
<1>0. Functions
  BY DEF CmdInv
<1>1. ASSUME NEW h \in Handler, CmdStep(h) PROVE Functions'
  <2>1. HandlerInv(h)'
    BY <1>1, HandlerStepWell
  <2>2. /\ at'[h] \in CmdLabels /\ req'[h] \in Request \cup {Nil}
        /\ hold'[h] \in Locals /\ answer'[h] \in Statuses
        /\ calm'[h] \in BOOLEAN
    BY <2>1 DEF HandlerInv, Shaped, Statuses
  <2>3. ASSUME NEW k \in Handler \ {h}
        PROVE  UNCHANGED <<at[k], req[k], hold[k], answer[k], calm[k]>>
    BY <1>0, <1>1, OnlyOwn
  <2>4. /\ DOMAIN at' = Handler /\ at' = [k \in Handler |-> at'[k]]
        /\ DOMAIN req' = Handler /\ req' = [k \in Handler |-> req'[k]]
        /\ DOMAIN hold' = Handler /\ hold' = [k \in Handler |-> hold'[k]]
        /\ DOMAIN answer' = Handler /\ answer' = [k \in Handler |-> answer'[k]]
        /\ DOMAIN calm' = Handler /\ calm' = [k \in Handler |-> calm'[k]]
        /\ DOMAIN expected' = Handler
    BY <1>0, <1>1 DEF Functions, CmdStep, Arrive, HandlerMove, ReadNames,
       ReadDevice, CheckCommand, FindOperations, FindObjects, HandleCommands,
       MakeReading, Respond, Drop, Answer, Advance, Move, Kept
  <2>5. requests' \in 0 .. MaxRequests
    BY <1>0, <1>1, CommandAssumption DEF Functions, CmdStep, Arrive,
       HandlerMove, ReadNames, ReadDevice, CheckCommand, FindOperations,
       FindObjects, HandleCommands, MakeReading, Respond, Drop, Kept
  <2> QED
    BY <1>0, <2>2, <2>3, <2>4, <2>5 DEF Functions, Statuses
<1>2. CASE SendEvent /\ UNCHANGED vars
  BY <1>0, <1>2 DEF Functions, SendEvent
<1>3. CASE CacheMoves
  BY <1>0, <1>3 DEF Functions, CacheMoves, Observe
<1>4. CASE ProcessDies
  BY <1>0, <1>4, NoLocalsFit DEF Functions, ProcessDies, CmdLabels
<1>5. CASE Stay \/ UNCHANGED cvars
  BY <1>0, <1>5 DEF Functions, Stay, cvars, cmdVars
<1> QED
  BY <1>1, <1>2, <1>3, <1>4, <1>5 DEF CmdNext

\* Every step of the composition keeps what handlers know and what events hold.
LEMMA CmdKeeps == TypeOK /\ CmdInv /\ [CmdNext]_cvars => CmdInv'
<1> SUFFICES ASSUME TypeOK, CmdInv, [CmdNext]_cvars PROVE CmdInv'
  OBVIOUS
<1>0. /\ Functions /\ Functions' /\ \A h \in Handler : HandlerInv(h)
      /\ \A e \in pending \cup pushed : Whole(e)
  BY FunctionsKeep DEF CmdInv
<1> SUFFICES /\ \A h \in Handler : HandlerInv(h)'
             /\ (\A e \in pending \cup pushed : Whole(e))'
  BY <1>0 DEF CmdInv
<1>1. ASSUME NEW h \in Handler, CmdStep(h)
      PROVE  /\ \A k \in Handler : HandlerInv(k)'
             /\ (\A e \in pending \cup pushed : Whole(e))'
  <2>1. ASSUME NEW k \in Handler \ {h} PROVE HandlerInv(k)'
    BY <1>0, <1>1, OnlyOwn, HandlerKept
  <2> QED
    BY <1>1, <2>1, HandlerStepWell
<1>2. CASE pending' \cup pushed' \subseteq pending \cup pushed
  <2>1. (\A e \in pending \cup pushed : Whole(e))'
    BY <1>0, <1>2 DEF Whole, Reads, ReadingName
  <2>2. CASE SendEvent /\ UNCHANGED vars
    <3>1. UNCHANGED <<at, req, hold, answer, calm, expected, cache>>
      BY <2>2 DEF SendEvent, vars
    <3> QED
      BY <1>0, <2>1, <3>1, HandlerKept
  <2>3. CASE CacheMoves
    BY <1>0, <2>1, <2>3, CacheMovesWell
  <2>4. CASE ProcessDies
    <3>1. ASSUME NEW h \in Handler PROVE HandlerInv(h)'
      <4>1. /\ at'[h] = "idle" /\ req'[h] = Nil /\ hold'[h] = NoLocals
            /\ answer'[h] = 0 /\ calm'[h] = TRUE
        BY <2>4 DEF ProcessDies
      <4>2. Shaped(h)' /\ Reads(hold[h].readings, hold[h].ops, calm[h])'
        BY <4>1, NoLocalsFit DEF Shaped, CmdLabels, Reads, NoLocals
      <4>3. Informed(h)'
        BY <4>1 DEF Informed
      <4> QED
        BY <4>2, <4>3 DEF HandlerInv
    <3> QED
      BY <2>1, <3>1
  <2>5. CASE Stay \/ UNCHANGED cvars
    <3>1. UNCHANGED <<at, req, hold, answer, calm, expected, cache>>
      BY <2>5 DEF Stay, Rest, cvars, cmdVars, vars
    <3> QED
      BY <1>0, <2>1, <3>1, HandlerKept
  <2> QED
    BY <1>1, <2>2, <2>3, <2>4, <2>5 DEF CmdNext
<1>3. CASE ~(pending' \cup pushed' \subseteq pending \cup pushed)
  <2>1. \E h \in Handler : CmdStep(h)
    BY <1>3 DEF CmdNext, SendEvent, CacheMoves, ProcessDies, Stay, cvars, cmdVars
  <2> QED
    BY <1>1, <2>1
<1> QED
  BY <1>2, <1>3

\* What the handlers know and the events hold, in every state of the service.
THEOREM CommandInvariant == CmdSpec => []CmdInv
<1>1. CmdInit => CmdInv
  <2> SUFFICES ASSUME CmdInit PROVE CmdInv
    OBVIOUS
  <2>1. Functions
    BY NoLocalsFit, CommandAssumption DEF CmdInit, Functions, CmdLabels
  <2>2. ASSUME NEW h \in Handler PROVE HandlerInv(h)
    <3>1. Shaped(h) /\ Reads(hold[h].readings, hold[h].ops, calm[h])
      BY NoLocalsFit DEF CmdInit, Shaped, CmdLabels, Reads, NoLocals
    <3>2. Informed(h)
      BY DEF CmdInit, Informed
    <3> QED
      BY <3>1, <3>2 DEF HandlerInv
  <2> QED
    BY <2>1, <2>2 DEF CmdInit, CmdInv
<1>2. CmdSpec => []TypeOK
  BY CommandsOnlyRead, TypeCorrect, PTL
<1> QED
  BY <1>1, <1>2, CmdKeeps, PTL DEF CmdSpec

\* Whatever profiles, requests and changes of the caches there are, the state
\* of each handler keeps its shape: past the lookup it has a name, and it never
\* has more readings than operations, or more operations than are configured.
THEOREM CommandTypeCorrect == CmdSpec => []CmdTypeOK
<1>1. CmdInv => CmdTypeOK
  <2> SUFFICES ASSUME CmdInv PROVE CmdTypeOK
    OBVIOUS
  <2>1. ASSUME NEW h \in Handler
        PROVE  /\ hold[h].name \in Name \cup {Nil}
               /\ at[h] \notin {"idle", "ReadNames"} => hold[h].name # Nil
               /\ Len(hold[h].readings) <= Len(hold[h].ops)
               /\ Len(hold[h].ops) <= MaxCmdOps
    BY DEF CmdInv, HandlerInv, Shaped, Locals, Reads
  <2> QED
    BY <2>1 DEF CmdInv, Functions, CmdTypeOK
<1> QED
  BY <1>1, CommandInvariant, PTL

\* A request during which no map changed is answered as one look at the maps
\* says, for every profile and request: the six lookups of commandFunc and
\* executeCommand are then as good as one, and no handler panics.
THEOREM CommandsAnsweredAtomically == CmdSpec => []AtomicAnswer
<1>1. CmdInv => AtomicAnswer
  <2> SUFFICES ASSUME CmdInv, NEW h \in Handler, req[h] # Nil, calm[h]
               PROVE  /\ at[h] = "idle" => answer[h] \in expected[h]
                      /\ at[h] = "HandleCommands" => 200 \in expected[h]
                      /\ at[h] # "panicked"
    BY DEF AtomicAnswer
  <2>1. Informed(h) /\ Shaped(h)
    BY DEF CmdInv, HandlerInv
  <2>2. at[h] # "panicked"
    BY <2>1 DEF Informed, Knows
  <2>3. ASSUME at[h] = "HandleCommands" PROVE 200 \in expected[h]
    <3> DEFINE n == hold[h].name
               r == req[h]
               ops == hold[h].ops
    <3>1. /\ expected[h] = Verdict(r) /\ ~ServiceLocked
          /\ n = NameOf(r.id) /\ n # Nil /\ Unlocked(n) /\ HasCommand(r, n)
          /\ Finds(r, n, ops) /\ Resolves(n, ops)
      BY <2>1, <2>3 DEF Informed, Knows, Named, Admitted, Accepted, Equipped,
                        Dispatched
    <3>2. 200 \in Verdict(r)
      BY <3>1, VerdictOfObjects
    <3> QED
      BY <3>1, <3>2
  <2> QED
    BY <2>1, <2>2, <2>3 DEF Informed
<1> QED
  BY <1>1, CommandInvariant, PTL

\* Every event has one reading per operation, in their order and under their
\* names; one without a name has seen the maps change.
THEOREM EventsComplete == CmdSpec => []EventComplete
<1>1. CmdInv => EventComplete
  <2> SUFFICES ASSUME CmdInv, NEW e \in pending \cup pushed
               PROVE  /\ Len(e.readings) = Len(e.ops)
                      /\ \A k \in DOMAIN e.ops :
                           \/ e.readings[k] = ReadingName(e.ops[k])
                           \/ e.readings[k] = NoObject /\ ~e.calm
    BY DEF EventComplete
  <2>1. Whole(e)
    BY DEF CmdInv
  <2>2. DOMAIN e.ops = 1 .. Len(e.readings)
    BY SMTT(30), <2>1 DEF Whole
  <2> QED
    BY <2>1, <2>2 DEF Whole, Reads
<1> QED
  BY <1>1, CommandInvariant, PTL

-----------------------------------------------------------------------------
(* No command for a device that stays locked: LockedNotDispatched.  The id   *)
(* that was looked up and the name found may belong together only as far as  *)
(* Core Metadata stored them; with NamesUnique the device read under the     *)
(* name is the one of the id.                                                *)

Checked == {"CheckCommand", "FindOperations", "FindObjects", "HandleCommands"}

\* A handler at this stage has found the name of the id, and has seen the device
\* when it is cached unlocked.
Watches(h) ==
    /\ at[h] = "ReadDevice" => <<req[h].id, hold[h].name>> \in held
    /\ at[h] # "idle" /\ Open(req[h].id) => opened[h]

LockInv ==
    /\ DOMAIN opened = Handler /\ \A h \in Handler : Watches(h)
    /\ NamesUnique => \A h \in Handler : at[h] \in Checked => opened[h]

\* What Core Metadata stored under a name stays on record.
LEMMA RecordGrows == ASSUME [Next]_vars PROVE held \subseteq held'
BY DEF Next, CalmStep, CrashStep, Step, AddStep, HandlerStep, Begin, BootStep,
       OtherStep, Boot, LoadNext, Serve, ChangeAdmin, Delete, Lose, Killed,
       RaceAbort, Crash, DescriptorCrash, DescriptorPanic, Rest, vars, store, bounds,
       AddDevice, RemoveDevice, UpdateDevice, Callback, Start, Add, DelObjects,
       DelCommands, DelName, DelDevice, AddressableForName, AddAddressable,
       DeviceForName, AddToMetadata, Create, UpdateOpState, AddProfile,
       PutObjects, PutCommands, PutDescriptors, PutDevice, PutName,
       DeleteInMetadata, UpdateInMetadata, DelOldDevice, FindName, FetchDevice,
       SetAdmin, Recover

\* A record without a name given twice never had one.
LEMMA UniqueBefore == ASSUME held \subseteq held', NamesUnique' PROVE NamesUnique
BY DEF NamesUnique

\* The step of a handler: ReadNames finds a pair Core Metadata stored, and
\* ReadDevice passes only the unlocked device of that pair.
LEMMA HandlerWatches ==
    ASSUME TypeOK, KnownIdentity, CmdInv, LockInv, NEW h \in Handler, CmdStep(h)
    PROVE  LockInv'
<1>1. /\ UNCHANGED vars /\ Functions
      /\ \A k \in Handler : Watches(k) /\ DOMAIN opened = Handler
  BY DEF CmdStep, CmdInv, LockInv
<1>2. \A t : Open(t)' = Open(t)
  BY <1>1 DEF Open, vars, cache
<1>3. held' = held /\ NamesUnique' = NamesUnique
  BY <1>1 DEF vars, store, NamesUnique
<1>4. ASSUME NEW k \in Handler \ {h}
      PROVE  UNCHANGED <<at[k], req[k], hold[k], opened[k]>> /\ DOMAIN opened' = Handler
  BY <1>1 DEF Functions, CmdStep, Arrive, HandlerMove, ReadNames,
       ReadDevice, CheckCommand, FindOperations, FindObjects, HandleCommands,
       MakeReading, Respond, Drop, Answer, Advance, Move, Kept
<1>5. ASSUME Arrive(h)
      PROVE  /\ at'[h] \in {"idle", "ReadNames"} /\ DOMAIN opened' = Handler
             /\ Open(req'[h].id) => opened'[h]
  BY <1>1, <1>5 DEF Functions, Arrive, Answer, Advance, Move
<1>6. ASSUME ReadNames(h)
      PROVE  /\ at'[h] \in {"idle", "ReadDevice"} /\ UNCHANGED <<opened, req>>
             /\ at'[h] = "ReadDevice" => <<req'[h].id, hold'[h].name>> \in held
             /\ at[h] # "idle"
  <2>1. CASE NameOf(req[h].id) = Nil
    BY <1>1, <1>6, <2>1 DEF Functions, ReadNames, Answer, Move, Kept
  <2>2. CASE NameOf(req[h].id) # Nil
    <3>1. /\ at'[h] = "ReadDevice" /\ hold'[h].name = NameOf(req[h].id)
          /\ UNCHANGED <<opened, req>> /\ at[h] # "idle"
      BY <1>1, <1>6, <2>2 DEF Functions, ReadNames, Move, Kept, Locals
    <3>2. req[h].id \in Id /\ names[req[h].id] = NameOf(req[h].id)
      BY <2>2 DEF NameOf
    <3> QED
      BY <2>2, <3>1, <3>2 DEF KnownIdentity
  <2> QED
    BY <2>1, <2>2
<1>7. ASSUME ReadDevice(h)
      PROVE  /\ at'[h] \in {"idle", "CheckCommand"} /\ UNCHANGED <<opened, req>>
             /\ NamesUnique /\ at'[h] # "idle" => opened'[h]
             /\ at[h] # "idle"
  <2> DEFINE n == hold[h].name
             d == devices[n]
  <2>1. n \in Name
    BY <1>7 DEF CmdInv, HandlerInv, Shaped, Locals, ReadDevice
  <2>2. /\ at'[h] \in {"idle", "CheckCommand"} /\ UNCHANGED <<opened, req>>
        /\ at[h] = "ReadDevice"
        /\ at'[h] # "idle" => d # Nil /\ d.admin # "LOCKED"
    BY <1>1, <1>7 DEF Functions, ReadDevice, Answer, Advance, Move, Kept
  <2>3. ASSUME NamesUnique, at'[h] # "idle" PROVE opened[h]
    <3>1. d \in KnownDevice /\ d.admin = "UNLOCKED"
      BY <2>1, <2>2, <2>3
      DEF TypeOK, CacheOK, KnownDevice, Device, AdminState
    <3>2. <<d.id, n>> \in held /\ <<req[h].id, n>> \in held
      BY <1>1, <2>1, <2>2, <2>3 DEF KnownIdentity, Watches
    <3>3. d.id = req[h].id
      BY <2>3, <3>2 DEF NamesUnique
    <3>4. Open(req[h].id)
      BY <2>1, <2>2, <2>3, <3>1, <3>3 DEF Open
    <3> QED
      BY <1>1, <2>2, <3>4 DEF Watches
  <2> QED
    BY <2>2, <2>3
<1>8. ASSUME HandlerMove(h), ~ReadNames(h), ~ReadDevice(h)
      PROVE  /\ at'[h] # "ReadDevice" /\ UNCHANGED <<opened, req>> /\ at[h] # "idle"
             /\ at'[h] \in Checked => at[h] \in Checked
  BY <1>1, <1>8 DEF Functions, HandlerMove, CheckCommand, FindOperations,
     FindObjects, HandleCommands, MakeReading, Respond, Drop, Answer, Advance,
     Move, Kept, Checked
<1>9. Watches(h)' /\ (NamesUnique' /\ at'[h] \in Checked => opened'[h])
      /\ DOMAIN opened' = Handler
  <2>1. CASE Arrive(h)
    BY <1>2, <1>5, <2>1 DEF Watches, Checked
  <2>2. CASE ReadNames(h)
    BY <1>1, <1>2, <1>3, <1>6, <2>2 DEF Watches, Checked
  <2>3. CASE ReadDevice(h)
    BY <1>1, <1>2, <1>3, <1>7, <2>3 DEF Watches, Checked
  <2>4. CASE HandlerMove(h) /\ ~ReadNames(h) /\ ~ReadDevice(h)
    BY <1>1, <1>2, <1>3, <1>8, <2>4 DEF Watches, LockInv
  <2> QED
    BY <2>1, <2>2, <2>3, <2>4 DEF CmdStep, HandlerMove
<1>10. ASSUME NEW k \in Handler \ {h}
       PROVE  Watches(k)' /\ (NamesUnique' /\ at'[k] \in Checked => opened'[k])
  BY <1>1, <1>2, <1>3, <1>4 DEF Watches, LockInv
<1> QED
  BY <1>9, <1>10 DEF LockInv

LEMMA LockKeeps ==
    ASSUME TypeOK, KnownIdentity, CmdInv, LockInv, [CmdNext]_cvars, [Next]_vars
    PROVE  LockInv'
<1>1. held \subseteq held' /\ (NamesUnique' => NamesUnique)
  BY RecordGrows, UniqueBefore
<1>2. CASE \E h \in Handler : CmdStep(h)
  BY <1>2, HandlerWatches
<1>3. CASE CacheMoves
  <2>1. /\ UNCHANGED <<at, req, hold>>
        /\ opened' = [h \in Handler |->
             opened[h] \/ (at[h] # "idle" /\ Open(req[h].id)')]
    BY <1>3 DEF CacheMoves, Observe
  <2>2. \A h \in Handler : /\ opened[h] => opened'[h]
                           /\ at[h] # "idle" /\ Open(req[h].id)' => opened'[h]
    BY <2>1
  <2>3. \A h \in Handler : Watches(h)'
    BY <1>1, <2>1, <2>2 DEF LockInv, Watches
  <2>4. NamesUnique' => \A h \in Handler : at'[h] \in Checked => opened'[h]
    BY <1>1, <2>1, <2>2 DEF LockInv
  <2> QED
    BY <2>1, <2>3, <2>4 DEF LockInv
<1>4. CASE ProcessDies
  BY <1>4 DEF ProcessDies, LockInv, Watches, Checked
<1>5. CASE (SendEvent /\ UNCHANGED vars) \/ Stay \/ UNCHANGED cvars
  <2>1. UNCHANGED <<at, req, hold, opened, vars>>
    BY <1>5 DEF SendEvent, Stay, Rest, cvars, cmdVars
  <2>2. \A t : Open(t)' = Open(t)
    BY <2>1 DEF Open, vars, cache
  <2> QED
    BY <1>1, <2>1, <2>2 DEF LockInv, Watches
<1> QED
  BY <1>2, <1>3, <1>4, <1>5 DEF CmdNext

\* As long as no name passes from one device to another, no command reaches the
\* driver for a device that was locked throughout the request, however the
\* caches change under the handlers.
THEOREM LockedStay == CmdSpec => []LockedNotDispatched
<1>1. CmdInit => LockInv
  BY DEF CmdInit, LockInv, Watches, Checked
<1>2. CmdSpec => []TypeOK /\ []KnownIdentity /\ [][Next]_vars
  BY CommandsOnlyRead, TypeCorrect, IdentityKnown, PTL DEF Spec
<1>3. LockInv => LockedNotDispatched
  BY DEF LockInv, LockedNotDispatched, Checked
<1> QED
  BY <1>1, <1>2, <1>3, CommandInvariant, LockKeeps, PTL DEF CmdSpec
=============================================================================
