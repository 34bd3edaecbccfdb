---------------------------- MODULE ScheduleCache ----------------------------
(***************************************************************************)
(* ScheduleCache (schedules.go): a list of schedules and one of schedule   *)
(* events, which start as the slices of the configuration and share their  *)
(* arrays.  A slice is an array and a length; append writes into the array *)
(* as long as it has room, and removing an entry moves the ones after it   *)
(* down in the array, under the eyes of everybody who holds a slice of it. *)
(***************************************************************************)
EXTENDS Integers, Sequences, SequencesExt

CONSTANTS
    Lists,     \* "schedules" and "scheduleEvents"
    Entries,   \* the schedules or events, records with a name
    NoEntry,   \* the zero value of an entry
    InConfig,  \* list -> the entries of the configuration
    MaxRoom,   \* bound: slots of an array beyond those needed at first
    MaxListOps \* bound: calls of the cache

ASSUME ScheduleAssumption ==
    /\ {"schedules", "scheduleEvents"} \subseteq Lists
    /\ InConfig \in [Lists -> Seq(Entries)] /\ NoEntry \notin Entries
    /\ MaxRoom \in Nat /\ MaxListOps \in Nat

VARIABLES
    arrays,   \* list -> the arrays there are
    cache,    \* list -> the slice of the cache: which array, how many slots
    held,     \* list -> the slice somebody else holds: the configuration's, or
              \* the one GetAllSchedules or GetAllScheduleEvents returned
    taken,    \* history: list -> the entries that slice had when it was taken
    shifted,  \* history: lists with a removal since then
    listOps

scheduleVars == <<arrays, cache, held, taken, shifted, listOps>>

View(l, slice) == SubSeq(arrays[l][slice.array], 1, slice.len)
Cache(l) == View(l, cache[l])

Roomy(s, room) == s \o [k \in 1 .. room |-> NoEntry]
Whole(l) == [array |-> 1, len |-> Len(InConfig[l])]

\* getScheduleCache
ScheduleInit ==
    /\ \E room \in [Lists -> 0 .. MaxRoom] :
         arrays = [l \in Lists |-> <<Roomy(InConfig[l], room[l])>>]
    /\ cache = [l \in Lists |-> Whole(l)] /\ held = cache
    /\ taken = InConfig /\ shifted = {} /\ listOps = 0

-----------------------------------------------------------------------------
(* The four operations, for a list.  arrs is the list's arrays, s a slice;   *)
(* the result is what both have become.                                      *)

\* The position of the first entry of that name, 0 if there is none.
Position(arrs, s, n) ==
    SelectInSeq(SubSeq(arrs[s.array], 1, s.len), LAMBDA e : e.name = n)

\* Mutant of Appended: the entry is stored in the array also when it is full,
\* over the last one.
AppendedInPlace(arrs, s, e, room) ==
    LET k == IF s.len < Len(arrs[s.array]) THEN s.len + 1 ELSE s.len
    IN  [arrays |-> [arrs EXCEPT ![s.array][k] = e],
         slice |-> [s EXCEPT !.len = k]]

\* append stores in the array while it has room and in a new one otherwise.
Appended(arrs, s, e, room) ==
    IF s.len < Len(arrs[s.array])
    THEN [arrays |-> [arrs EXCEPT ![s.array][s.len + 1] = e],
          slice |-> [s EXCEPT !.len = @ + 1]]
    ELSE [arrays |-> Append(arrs, Roomy(Append(arrs[s.array], e), room)),
          slice |-> [array |-> Len(arrs) + 1, len |-> s.len + 1]]

\* Mutant of Removed: the slice is cut, the entries are not moved down.
RemovedLast(arrs, s, n) ==
    [arrays |-> arrs, slice |-> [s EXCEPT !.len = @ - 1]]

\* append(s[:i], s[i+1:]...) moves the entries behind down in the same array.
Removed(arrs, s, n) ==
    LET i == Position(arrs, s, n)
        a == arrs[s.array]
    IN  [arrays |-> [arrs EXCEPT ![s.array] =
           SubSeq(a, 1, i - 1) \o SubSeq(a, i + 1, s.len)
             \o SubSeq(a, s.len, Len(a))],
         slice |-> [s EXCEPT !.len = @ - 1]]

Take(l, r) ==
    /\ arrays' = [arrays EXCEPT ![l] = r.arrays]
    /\ cache' = [cache EXCEPT ![l] = r.slice]
    /\ UNCHANGED <<held, taken>>

GetByName(l, n) == LET i == Position(arrays[l], cache[l], n)
                   IN  IF i = 0 THEN NoEntry ELSE Cache(l)[i]

AddEntry(l, e) == \E room \in 0 .. MaxRoom :
    /\ Take(l, Appended(arrays[l], cache[l], e, room))
    /\ UNCHANGED shifted

RemoveEntry(l, e) ==
    /\ Position(arrays[l], cache[l], e.name) # 0
    /\ Take(l, Removed(arrays[l], cache[l], e.name))
    /\ shifted' = shifted \cup {l}

\* Mutant of UpdateEntry: the new entry is added, the old one stays.
UpdateEntryAdding(l, e) ==
    /\ Position(arrays[l], cache[l], e.name) # 0
    /\ Take(l, Appended(arrays[l], cache[l], e, 0))
    /\ shifted' = shifted \cup {l}

\* Remove and then Add, which finds room in the array.
UpdateEntry(l, e) ==
    /\ Position(arrays[l], cache[l], e.name) # 0
    /\ LET r == Removed(arrays[l], cache[l], e.name)
       IN  Take(l, Appended(r.arrays, r.slice, e, 0))
    /\ shifted' = shifted \cup {l}

\* The caller reads the slice header the returned pointer leads to.
GetAll(l) ==
    /\ held' = [held EXCEPT ![l] = cache[l]]
    /\ taken' = [taken EXCEPT ![l] = Cache(l)]
    /\ shifted' = shifted \ {l}
    /\ UNCHANGED <<arrays, cache>>

AddSchedule(e) == AddEntry("schedules", e)
RemoveSchedule(e) == RemoveEntry("schedules", e)
UpdateSchedule(e) == UpdateEntry("schedules", e)
GetAllSchedules == GetAll("schedules")
AddScheduleEvent(e) == AddEntry("scheduleEvents", e)
RemoveScheduleEvent(e) == RemoveEntry("scheduleEvents", e)
UpdateScheduleEvent(e) == UpdateEntry("scheduleEvents", e)
GetAllScheduleEvents == GetAll("scheduleEvents")

ScheduleNext ==
    /\ listOps < MaxListOps /\ listOps' = listOps + 1
    /\ \/ \E e \in Entries :
            \/ AddSchedule(e) \/ RemoveSchedule(e) \/ UpdateSchedule(e)
            \/ AddScheduleEvent(e) \/ RemoveScheduleEvent(e)
            \/ UpdateScheduleEvent(e)
       \/ GetAllSchedules \/ GetAllScheduleEvents

ScheduleSpec == ScheduleInit /\ [][ScheduleNext]_scheduleVars

-----------------------------------------------------------------------------
IsSlice(l, s) == /\ s.array \in DOMAIN arrays[l]
                 /\ s.len \in 0 .. Len(arrays[l][s.array])

ScheduleTypeOK ==
    /\ \A l \in Lists : /\ arrays[l] \in Seq(Seq(Entries \cup {NoEntry}))
                        /\ IsSlice(l, cache[l]) /\ IsSlice(l, held[l])
    /\ shifted \subseteq Lists /\ listOps \in Nat

\* The cache is a list: whatever its array is shared with and however append
\* and the moves of a removal use it, the operations do what NamedLists says.
Promise == INSTANCE NamedLists WITH lists <- [l \in Lists |-> Cache(l)]
ImplementsLists == Promise!ListSpec

\* Additions never show in a slice taken before them, the configuration's or a
\* caller's; only a removal or an update moves entries under its holder.
SnapshotKept == \A l \in Lists \ shifted : View(l, held[l]) = taken[l]

Unique(s) == \A j, k \in DOMAIN s : s[j].name = s[k].name => j = k

\* As schedules_test.go expects, a lookup after an update finds the new entry,
\* provided no two entries had its name; AddSchedule does not see to that.
UpdateVisible == [][\A e \in Entries :
    UpdateSchedule(e) /\ Unique(Cache("schedules")) =>
      GetByName("schedules", e.name)' = e]_scheduleVars
=============================================================================
