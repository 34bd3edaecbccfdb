-------------------------- MODULE MCCommandService --------------------------
(* Instances of CommandService for TLC.                                     *)
EXTENDS CommandService

CONSTANTS i1, i2, n1, n2, a1, all, g1, g2, h1

MCWord == {"Temp", "temp", "both", "many"}
MCLower == [w \in MCWord |-> IF w = "Temp" THEN "temp" ELSE w]

Op(o, p) == [object |-> o, parameter |-> p]

\* A readable and writable device resource, one that is only readable, and
\* resources of two and of three operations.
Full == [resources |-> <<[name |-> "both", set |-> <<>>,
                          get |-> <<Op("Temp", "temp"), Op("temp", "temp")>>],
                         [name |-> "many", set |-> <<>>,
                          get |-> <<Op("Temp", "temp"), Op("temp", "temp"),
                                    Op("Temp", "many")>>]>>,
         deviceResources |-> <<[name |-> "Temp", rw |-> {"r", "w"}],
                               [name |-> "temp", rw |-> {"r"}]>>,
         used |-> {"temp"}]

\* The profile the driver re-adds the device with: one object less.
Small == [Full EXCEPT !.deviceResources = <<[name |-> "Temp", rw |-> {"r"}]>>]
NoProfile == [Full EXCEPT !.deviceResources = <<>>]

D(i, n, p) == [id |-> i, name |-> n, admin |-> "UNLOCKED",
               opState |-> "ENABLED", addr |-> a1, profile |-> p]
MCProfiles == {Full, Small, NoProfile}
OneSeed == {D(i1, n1, Full)}
Shrunk == {D(Nil, n1, Small)}
Described1 == {"temp"}
=============================================================================
