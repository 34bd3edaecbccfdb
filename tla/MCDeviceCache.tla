---------------------------- MODULE MCDeviceCache ----------------------------
(* Instances of DeviceCache for TLC.                                        *)
EXTENDS DeviceCache, TLC

CONSTANTS i1, i2, i3, n1, n2, n3, a1, a2, p1, p2, p0, pb, g1, g2

D(i, n, p, a) == [id |-> i, name |-> n, admin |-> "UNLOCKED",
                  opState |-> "ENABLED", addr |-> a, profile |-> p]

\* One device the service finds at boot.
OneSeed == {D(i1, n1, p1, a1)}

\* The driver re-adds it as a new device, disabled, and adds another one.
Discovered == {[D(Nil, n1, p1, a1) EXCEPT !.opState = "DISABLED"],
               D(Nil, n2, p2, a2)}

\* It re-adds the device with another profile, as a new device or with the id
\* it knows, and adds another one, whose profile it may not have filled in, or
\* whose profile names an object it lacks.
Redefined == {[D(Nil, n1, p2, a1) EXCEPT !.opState = "DISABLED"],
              D(i1, n1, p2, a1), D(Nil, n2, p2, a2), D(Nil, n2, p0, a1),
              D(Nil, n2, pb, a2)}

\* The driver re-adds the device with a profile it has not filled in.
NoResources == {D(Nil, n1, p0, a1)}

\* Three devices it finds at boot, the last one without resources.
ThreeSeeds == {D(i1, n1, p1, a1), D(i2, n2, p2, a2), D(i3, n3, p0, a1)}

Interchangeable == Permutations(Goroutine)
=============================================================================
