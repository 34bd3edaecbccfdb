----------------------------- MODULE Registration -----------------------------
(***************************************************************************)
(* What the start of a device service promises about its registration:     *)
(* Core Metadata files one record under the service's name, once, and the  *)
(* service knows either nothing of it or exactly that record, whichever    *)
(* calls fail and however often the process is started.                    *)
(***************************************************************************)
CONSTANTS Id, Nil

VARIABLES
    filed,  \* the id of the record under the service's name
    known   \* the id the running service has of itself (svc.ds)

Init == filed = Nil /\ known = Nil

\* The answer of the call that files the record can be lost.
File == filed = Nil /\ filed' \in Id /\ known' \in {known, filed'}

Learn == filed # Nil /\ known' = filed /\ UNCHANGED filed

\* The process ends.
Forget == known' = Nil /\ UNCHANGED filed

Next == File \/ Learn \/ Forget

Spec == Init /\ [][Next]_<<filed, known>>

=============================================================================
