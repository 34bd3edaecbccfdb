---------------------------- MODULE MCServiceStart ----------------------------
(* Instances of ServiceStart for TLC.                                       *)
EXTENDS ServiceStart

CONSTANTS s1, e1, e2, scheduler

Event(n, s) == [name |-> n, service |-> s]

OneEach == <<s1>>
OneEvent == <<Event(e1, Nil)>>
TwoEvents == <<Event(e1, Nil), Event(e2, scheduler)>>
=============================================================================
