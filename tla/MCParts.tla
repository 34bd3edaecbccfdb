------------------------------- MODULE MCParts -------------------------------
(* The parts of the SDK that share no state while they run, in one instance  *)
(* for TLC: a behaviour runs the part chosen at its beginning and leaves the *)
(* others as they start.  Part is the set to choose from, so that one part   *)
(* can also be checked alone.                                                *)
EXTENDS ProfileCache, ProfileImport, ScheduleCache, CommandResults,
        DeviceCompare, ConfigStore, Endpoints

CONSTANTS Part, d1, md, cd, ac, scc, ec, i1, i2

VARIABLE part

PartInit ==
    /\ part \in Part
    /\ Init /\ (part = "profiles" \/ stored = {})
    /\ ImportInit /\ (part = "import" \/ profiles = {})
    /\ ScheduleInit
    /\ part = "schedules" \/ \A l \in Lists : Len(arrays[l][1]) = cache[l].len
    /\ ResultInit /\ CompareInit
    /\ StoreInit /\ (part = "config" \/ \A f \in Field : pairs[f] = Absent)
    /\ EndpointInit

PartNext ==
    /\ UNCHANGED part
    /\ IF part = "profiles" THEN Next ELSE UNCHANGED vars
    /\ IF part = "import" THEN ImportNext ELSE UNCHANGED importVars
    /\ IF part = "schedules" THEN ScheduleNext ELSE UNCHANGED scheduleVars
    /\ IF part = "results" THEN ResultNext ELSE UNCHANGED resultVars
    /\ IF part = "compare" THEN CompareNext ELSE UNCHANGED compareVars
    /\ IF part = "config" THEN StoreNext ELSE UNCHANGED storeVars
    /\ IF part = "endpoints" THEN EndpointNext ELSE UNCHANGED endpointVars

partVars == <<part, vars, importVars, scheduleVars, resultVars, compareVars,
              storeVars, endpointVars>>

PartSpec == PartInit /\ [][PartNext]_partVars /\ EndpointFairness

PartsTypeOK ==
    /\ part \in Part
    /\ TypeOK /\ ImportTypeOK /\ ScheduleTypeOK /\ ResultTypeOK
    /\ verdict \in {"none", "equal", "different"}
    /\ StoreTypeOK /\ EndpointTypeOK

-----------------------------------------------------------------------------
\* Profiles.  "Temp" and "temp" are equal after strings.ToLower.
MCWord == {"Temp", "temp", "all"}
MCLower == [w \in MCWord |-> IF w = "Temp" THEN "temp" ELSE w]

Op(o, p) == [object |-> o, parameter |-> p]
Res(n, g, s) == [name |-> n, get |-> g, set |-> s]
DR(n, rw) == [name |-> n, rw |-> rw]

\* At most one resource of two shapes, at most two device resources.
ResourceLists == {<<>>, <<Res("all", <<Op("temp", "temp"), Op("Temp", "all")>>, <<>>)>>,
                  <<Res("Temp", <<Op("Temp", "temp")>>, <<Op("Temp", "Temp")>>)>>,
                  <<Res("Temp", <<Op("Temp", "temp")>>, <<>>),
                    Res("temp", <<>>, <<Op("temp", "all")>>)>>}
ObjectLists == {<<>>, <<DR("Temp", {"r", "w"})>>,
                <<DR("temp", {"r"}), DR("Temp", {"r", "w"})>>,
                <<DR("temp", {"w"}), DR("all", {"r"})>>}

Every == [resources : ResourceLists, deviceResources : ObjectLists,
          used : {{}, {"temp"}, {"Temp", "all"}, MCWord}]

\* Files: two of one name.
MCFiles == <<"p", "q", "p", "r">>

\* Schedules: two names with two contents, and a configuration in which two
\* events have one name.
E(n, b) == [name |-> n, body |-> b]
MCEntries == [name : {"a", "b"}, body : {"x", "y"}]
MCInConfig == [schedules |-> <<E("a", "x"), E("b", "x")>>,
               scheduleEvents |-> <<E("a", "x"), E("a", "y")>>]

\* Devices to compare: every part takes two values, lists are a prefix of one
\* another and maps share keys.
Ops(s) == [head : {"h"}, secondary : {<<>>, <<s>>},
           mappings : {[k \in {} |-> "v"], [k \in {"m"} |-> s]}]
Service(l) == [adminState |-> "UNLOCKED", service |-> [head |-> "s", labels |-> l]]
Profile(l, c, dr, rs) ==
    [head |-> "p", labels |-> l, commands |-> c, deviceResources |-> dr,
     resources |-> rs]
Labels == {<<>>, <<"x">>, <<"x", "y">>}
MCCompared ==
    {[head |-> "d", labels |-> l, profile |-> Profile(<<>>, <<>>, <<>>, <<>>),
      service |-> Service(<<>>)] : l \in Labels}
    \cup
    {[head |-> "d", labels |-> <<>>, service |-> Service(l),
      profile |-> Profile(m, c, <<>>, <<>>)] :
        l \in Labels, m \in Labels, c \in {<<>>, <<"get">>, <<"put">>}}
    \cup
    {[head |-> "d", labels |-> <<>>, service |-> Service(<<>>),
      profile |-> Profile(<<>>, <<>>, dr,
                    IF r = "" THEN <<>> ELSE <<[name |-> r, get |-> <<g>>, set |-> <<s>>]>>)] :
        dr \in {<<>>, <<[head |-> "o", attributes |-> "1"]>>,
                <<[head |-> "o", attributes |-> "2"]>>,
                <<[head |-> "q", attributes |-> "1"]>>},
        r \in {"", "r1", "r2"}, g \in Ops("x"), s \in Ops("x")}

\* A configuration: a field of each kind that matters, given differently to
\* every instance.
MCKind == <<"string", "struct", "int">>
MCGiven == [i \in Instance |->
              [f \in {1, 3} |-> IF i = i1 THEN "one" ELSE "two"]]

\* Endpoints: three of the clients, of which the start probes one.
MCServiceKey == [c \in Client |-> IF c = ec THEN cd ELSE md]
MCConfigured == [d \in {md, cd} |-> "l1"]
MCProbed == <<scc>>
=============================================================================
