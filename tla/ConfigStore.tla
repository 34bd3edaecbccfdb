----------------------------- MODULE ConfigStore -----------------------------
(***************************************************************************)
(* CheckKeyValuePairs (registry/consul.go): the fields of a configuration, *)
(* one by one, take the value the key/value store has for them, or put     *)
(* theirs there.  All instances of a service use the same keys, and an     *)
(* operator edits them.  The check of a client that was not initialised,    *)
(* which ends before it reads anything, is left out.                       *)
(***************************************************************************)
EXTENDS Naturals, Sequences

CONSTANTS
    Instance,  \* processes of the service
    Kind,      \* the kinds of the configuration's fields, in order
    Value,     \* values a field of any kind can hold
    Junk,      \* a stored text that is no number and no truth value
    Absent,    \* no such key
    Given,     \* instance -> field -> its value before the check
    MaxEdits,  \* bound: edits by the operator
    MaxErrors  \* bound: failed calls

\* The fields whose kind the switch has a case for: they have a key.
Field == {f \in DOMAIN Kind : Kind[f] # "struct"}

ASSUME ConfigAssumption ==
    /\ Kind \in Seq({"bool", "string", "int", "struct"})
    /\ Junk \notin Value /\ Absent \notin Value \cup {Junk}
    /\ Given \in [Instance -> [Field -> Value]]
    /\ MaxEdits \in Nat /\ MaxErrors \in Nat

VARIABLES
    pairs,   \* field -> the value stored under its key
    at,      \* instance -> what it does next: "get", "put", "again"; or how
             \* the check ended: "nil", "error", "panic"
    field,   \* instance -> the field it is at
    config,  \* instance -> field -> its value
    had,     \* history: instance -> field -> values stored since it began
    puts,    \* history: field -> the instances that put their value there
    edited,  \* history: the fields the operator edited
    edits, errors

storeVars == <<pairs, at, field, config, had, puts, edited, edits, errors>>

StoreInit ==
    /\ pairs \in [Field -> Value \cup {Junk, Absent}]
    /\ at = [i \in Instance |-> "get"] /\ field = [i \in Instance |-> 1]
    /\ config = Given
    /\ had = [i \in Instance |-> [f \in Field |-> {pairs[f]}]]
    /\ puts = [f \in Field |-> {}] /\ edited = {} /\ edits = 0 /\ errors = 0

-----------------------------------------------------------------------------
Store(f, v) ==
    /\ pairs' = [pairs EXCEPT ![f] = v]
    /\ had' = [i \in Instance |-> [had[i] EXCEPT ![f] = @ \cup {v}]]

GoOn(i) == /\ field' = [field EXCEPT ![i] = @ + 1]
           /\ at' = [at EXCEPT ![i] = "get"]

End(i, how) == at' = [at EXCEPT ![i] = how] /\ UNCHANGED field

\* The loop over the fields is over.
Finish(i) ==
    /\ at[i] = "get" /\ field[i] > Len(Kind)
    /\ End(i, "nil") /\ UNCHANGED <<pairs, config, had, puts, edited, edits, errors>>

\* The other fields are left as they are.
Skip(i) ==
    /\ at[i] = "get" /\ field[i] \in DOMAIN Kind \ Field
    /\ GoOn(i) /\ UNCHANGED <<pairs, config, had, puts, edited, edits, errors>>

\* Mutant of GetPair: the key is taken to be there.
GetPairUnchecked(i) ==
    /\ at[i] = "get" /\ field[i] \in Field
    /\ at' = [at EXCEPT ![i] = "again"]
    /\ UNCHANGED <<pairs, field, config, had, puts, edited, edits, errors>>

\* Is the key there?
GetPair(i) ==
    /\ at[i] = "get" /\ field[i] \in Field
    /\ at' = [at EXCEPT ![i] = IF pairs[field[i]] = Absent THEN "put" ELSE "again"]
    /\ UNCHANGED <<pairs, field, config, had, puts, edited, edits, errors>>

PutPair(i) ==
    /\ at[i] = "put"
    /\ Store(field[i], config[i][field[i]])
    /\ puts' = [puts EXCEPT ![field[i]] = @ \cup {i}]
    /\ GoOn(i) /\ UNCHANGED <<config, edited, edits, errors>>

\* Mutant of GetAgain: a new value is read but not set.
GetAgainIdle(i) ==
    /\ at[i] = "again" /\ pairs[field[i]] # Absent
    /\ GoOn(i) /\ UNCHANGED <<pairs, config, had, puts, edited, edits, errors>>

\* Mutant of GetAgain: a text that cannot be parsed is set all the same.
GetAgainRaw(i) ==
    /\ at[i] = "again" /\ pairs[field[i]] # Absent
    /\ config' = [config EXCEPT ![i][field[i]] = pairs[field[i]]]
    /\ GoOn(i) /\ UNCHANGED <<pairs, had, puts, edited, edits, errors>>

\* The key was there and is read again: by now it may be gone, which
\* dereferences nil, and its text may not parse.
GetAgain(i) ==
    LET f == field[i] IN
    /\ at[i] = "again"
    /\ CASE pairs[f] = Absent -> End(i, "panic") /\ UNCHANGED config
         [] pairs[f] = Junk /\ Kind[f] # "string" ->
              End(i, "error") /\ UNCHANGED config
         [] OTHER -> /\ config' = [config EXCEPT ![i][f] = pairs[f]]
                     /\ GoOn(i)
    /\ UNCHANGED <<pairs, had, puts, edited, edits, errors>>

\* A call fails; a put may have taken effect.
CallFails(i) ==
    /\ at[i] \in {"get", "put", "again"} /\ field[i] \in Field
    /\ errors < MaxErrors
    /\ errors' = errors + 1 /\ End(i, "error")
    /\ \/ UNCHANGED <<pairs, had, puts>>
       \/ /\ at[i] = "put" /\ Store(field[i], config[i][field[i]])
          /\ puts' = [puts EXCEPT ![field[i]] = @ \cup {i}]
    /\ UNCHANGED <<config, edited, edits>>

\* The operator changes or deletes a pair.
Edit == \E f \in Field, v \in Value \cup {Junk, Absent} :
    /\ edits < MaxEdits /\ edits' = edits + 1 /\ pairs[f] # v
    /\ Store(f, v) /\ edited' = edited \cup {f}
    /\ UNCHANGED <<at, field, config, puts, errors>>

StoreNext ==
    \/ Edit
    \/ \E i \in Instance : \/ Finish(i) \/ Skip(i) \/ GetPair(i)
                           \/ PutPair(i) \/ GetAgain(i) \/ CallFails(i)

StoreSpec == StoreInit /\ [][StoreNext]_storeVars

-----------------------------------------------------------------------------
StoreTypeOK ==
    /\ pairs \in [Field -> Value \cup {Junk, Absent}]
    /\ at \in [Instance -> {"get", "put", "again", "nil", "error", "panic"}]
    /\ field \in [Instance -> 1 .. Len(Kind) + 1]
    /\ config \in [Instance -> [Field -> Value \cup {Junk}]]
    /\ had \in [Instance -> [Field -> SUBSET (Value \cup {Junk, Absent})]]
    /\ puts \in [Field -> SUBSET Instance]
    /\ edited \subseteq Field /\ edits \in Nat /\ errors \in Nat

Passed(i) == {f \in Field : f < field[i]}

\* Wherever a check stands or has ended, also with an error or a panic, it has
\* brought the fields it passed to values the store had meanwhile and left the
\* others alone, and only a field of kind string can hold an unparsable text.
ConfigFromStore == \A i \in Instance : \A f \in Field :
    /\ f \in Passed(i) => config[i][f] \in had[i][f]
    /\ f \notin Passed(i) => config[i][f] = Given[i][f]
    /\ config[i][f] = Junk => Kind[f] = "string"

\* An instance differs from the store in a field it has passed only if the
\* operator edited the key or two instances found it absent and both put
\* theirs there; a reader never loses against a single writer.
StoreWins == \A i \in Instance : \A f \in Passed(i) \ edited :
    config[i][f] = pairs[f] \/ \E j, k \in puts[f] : j # k

\* A check panics only after the operator deleted a key under its hands, and
\* ends early otherwise only after a failed call or over a text in the store
\* that does not parse.
EarlyEndsBlamed == \A i \in Instance :
    /\ at[i] = "panic" => field[i] \in edited /\ Absent \in had[i][field[i]]
    /\ at[i] = "error" => errors > 0 \/ Junk \in had[i][field[i]]
=============================================================================
