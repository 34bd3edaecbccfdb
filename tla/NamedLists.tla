------------------------------ MODULE NamedLists ------------------------------
(***************************************************************************)
(* What ScheduleCache promises: lists of named entries to which entries    *)
(* are added at the end, of which the first of a name is removed, and in   *)
(* which the first of a name is replaced by an entry at the end.           *)
(***************************************************************************)
EXTENDS Sequences, SequencesExt

CONSTANTS Lists, Entries

VARIABLE lists

First(s, n) == SelectInSeq(s, LAMBDA e : e.name = n)

Append1(l, e) == lists' = [lists EXCEPT ![l] = Append(@, e)]

Drop(l, e) ==
    /\ First(lists[l], e.name) # 0
    /\ lists' = [lists EXCEPT ![l] = RemoveAt(@, First(@, e.name))]

Replace(l, e) ==
    /\ First(lists[l], e.name) # 0
    /\ lists' = [lists EXCEPT ![l] =
                   Append(RemoveAt(@, First(@, e.name)), e)]

ListNext == \E l \in Lists, e \in Entries :
    Append1(l, e) \/ Drop(l, e) \/ Replace(l, e)

ListSpec == lists \in [Lists -> Seq(Entries)] /\ [][ListNext]_lists
=============================================================================
