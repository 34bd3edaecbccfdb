--------------------------- MODULE DeviceDirectory ---------------------------
(***************************************************************************)
(* What the device cache promises its callers: a directory in which a      *)
(* device is found whole or not at all.  An entry appears in one step, for *)
(* an id and a name Core Metadata gave together, with the tables of the    *)
(* device's profile; while it is there only its admin state changes; it    *)
(* disappears in one step, alone or with all others when the process ends. *)
(* Core Metadata gives an id out once, under one name.                     *)
(***************************************************************************)
CONSTANTS Id, Name, Device, AdminState

VARIABLES
    directory,  \* name -> the entry under it, if any, as a set
    issued      \* the <<id, name>> pairs Core Metadata gave out

OneNameEach == \A p, q \in issued : p[1] = q[1] => p = q

Init ==
    /\ directory = [n \in Name |-> {}]
    /\ issued \subseteq Id \X Name /\ OneNameEach

\* A device, the name its id leads to, and the profile its resources and its
\* commands come from.
Whole(d) == [device |-> d, found |-> d.name,
             objects |-> d.profile, commands |-> d.profile]

Issue == \E i \in Id, n \in Name :
    /\ \A m \in Name : <<i, m>> \notin issued
    /\ issued' = issued \cup {<<i, n>>}
    /\ UNCHANGED directory

Enter(n) == \E d \in Device :
    /\ directory[n] = {}
    /\ d.name = n /\ <<d.id, n>> \in issued
    /\ directory' = [directory EXCEPT ![n] = {Whole(d)}]
    /\ UNCHANGED issued

SetAdmin(n) == \E e \in directory[n], a \in AdminState :
    /\ directory' = [directory EXCEPT ![n] = {[e EXCEPT !.device.admin = a]}]
    /\ UNCHANGED issued

Withdraw(n) ==
    /\ directory' = [directory EXCEPT ![n] = {}]
    /\ UNCHANGED issued

Clear == directory' = [n \in Name |-> {}] /\ UNCHANGED issued

Next == Issue \/ Clear \/ \E n \in Name : Enter(n) \/ SetAdmin(n) \/ Withdraw(n)

Spec == Init /\ [][Next]_<<directory, issued>>
=============================================================================
