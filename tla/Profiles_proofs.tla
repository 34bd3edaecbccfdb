--------------------------- MODULE Profiles_proofs ---------------------------
(***************************************************************************)
(* Theorems about the profile cache and the import of the profile files:   *)
(* whatever profiles devices come with and however many there are, the     *)
(* tables are those their profiles describe; and every file is accounted   *)
(* for whatever others do to the profiles meanwhile.                       *)
(***************************************************************************)
EXTENDS ProfileCache, ProfileImport, ProfileTables_proofs

-----------------------------------------------------------------------------
(* The tables addDevice leaves.                                             *)

LEMMA Least ==
    ASSUME NEW t \in SUBSET Nat, t # {}
    PROVE  \E x \in t : \A y \in t : x <= y
<1> DEFINE R == OpToRel(<, Nat)
<1>1. PICK x \in t : \A y \in t : ~(<<y, x>> \in R)
  <2>1. IsWellFoundedOn(R, Nat)
    BY NatLessThanWellFounded
  <2> HIDE DEF R
  <2> QED
    BY <2>1, WFMin
<1>2. \A y \in t : ~(y < x)
  <2> SUFFICES ASSUME NEW y \in t, y < x PROVE FALSE
    OBVIOUS
  <2>1. y \in Nat /\ x \in Nat
    OBVIOUS
  <2>2. <<y, x>> \in R
    BY <2>1 DEF OpToRel
  <2> QED
    BY <1>1, <2>2
<1>3. \A y \in t : x <= y
  <2> SUFFICES ASSUME NEW y \in t PROVE x <= y
    OBVIOUS
  <2>1. y \in Nat /\ x \in Nat /\ ~(y < x)
    BY <1>2
  <2> QED
    BY <2>1
<1> QED
  BY <1>3

LEMMA Extremes ==
    ASSUME NEW n \in Nat, NEW t \in SUBSET (1 .. n), t # {}
    PROVE  /\ Max(t) \in t /\ \A y \in t : y <= Max(t)
           /\ Min(t) \in t /\ \A y \in t : Min(t) <= y
<1>1. t \in SUBSET Nat /\ \A y \in t : y \in 1 .. n /\ n - y \in Nat
  OBVIOUS
<1>2. PICK x \in t : \A y \in t : x <= y
  BY <1>1, Least
<1>3. PICK z \in t : \A y \in t : z >= y
  <2> DEFINE d == {n - y : y \in t}
  <2>1. d \in SUBSET Nat /\ d # {}
    <3>1. \A v \in d : v \in Nat
      BY <1>1
    <3>2. n - x \in d
      OBVIOUS
    <3> HIDE DEF d
    <3> QED
      BY <3>1, <3>2
  <2>2. PICK v \in d : \A y \in d : v <= y
    <3> HIDE DEF d
    <3> QED
      BY <2>1, Least
  <2>3. PICK z \in t : v = n - z
    OBVIOUS
  <2>4. \A y \in t : n - z <= n - y
    BY <2>2, <2>3
  <2>5. \A y \in t : z >= y
    <3> SUFFICES ASSUME NEW y \in t PROVE z >= y
      OBVIOUS
    <3>1. n - z <= n - y /\ z \in Nat /\ y \in Nat
      BY <1>1, <2>4
    <3> QED
      BY <3>1
  <2> QED
    BY <2>5
<1>4. Min(t) \in t /\ \A y \in t : Min(t) <= y
  BY <1>2 DEF Min
<1>5. Max(t) \in t /\ \A y \in t : Max(t) >= y
  BY <1>3 DEF Max
<1> QED
  BY <1>1, <1>4, <1>5

\* Keys are lowered names; the least and the greatest index of one has it.
LEMMA KeyOfIndex ==
    ASSUME NEW s, NEW T, s \in Seq(T), NEW w \in Keys(s)
    PROVE  LET N == Named(s, w)
           IN  /\ Max(N) \in DOMAIN s /\ Lower[s[Max(N)].name] = w
               /\ \A i \in DOMAIN s : i > Max(N) => Lower[s[i].name] # w
               /\ Min(N) \in DOMAIN s /\ Lower[s[Min(N)].name] = w
               /\ \A i \in DOMAIN s : i < Min(N) => Lower[s[i].name] # w
<1> DEFINE N == Named(s, w)
<1>1. Len(s) \in Nat /\ DOMAIN s = 1 .. Len(s)
  OBVIOUS
<1>2. N \in SUBSET (1 .. Len(s)) /\ N # {}
  BY <1>1 DEF Keys, Named
<1>3. \A i : i \in N <=> i \in DOMAIN s /\ Lower[s[i].name] = w
  BY DEF Named
<1> HIDE DEF N
<1>4. /\ Max(N) \in N /\ \A y \in N : y <= Max(N)
      /\ Min(N) \in N /\ \A y \in N : Min(N) <= y
  BY <1>1, <1>2, Extremes
<1>5. /\ \A i \in DOMAIN s : i > Max(N) => i \notin N
      /\ \A i \in DOMAIN s : i < Min(N) => i \notin N
  <2>1. \A i \in DOMAIN s : i \in Nat
    BY <1>1
  <2>2. Max(N) \in Nat /\ Min(N) \in Nat
    <3>1. \A y \in N : y \in Nat
      BY <1>1, <1>2
    <3> QED
      BY <1>4, <3>1
  <2> QED
    BY <1>4, <2>1, <2>2
<1> QED
  BY <1>3, <1>4, <1>5 DEF N

\* The loops of addDevice build the table described by Expected.
LEMMA TableOfProfile ==
    ASSUME NEW p \in DeviceProfile
    PROVE  DevOps(p) = [w \in Keys(p.resources) \cup Keys(p.deviceResources) |->
                          Expected(p, w)]
<1> DEFINE r == p.resources
           s == p.deviceResources
           t == DevOps(p)
           R == ResourceOps(p)
<1>1. r \in Seq(Resource) /\ s \in Seq(DeviceResource)
  BY DEF DeviceProfile
<1>2. /\ DOMAIN R = Keys(r)
      /\ \A j \in DOMAIN r :
           (\A i \in DOMAIN r : i > j => Lower[r[i].name] # Lower[r[j].name])
             => R[Lower[r[j].name]] = [get |-> r[j].get, set |-> r[j].set]
  BY Zenon, ResourceTable DEF Keys
<1>3. /\ t \in Tables
      /\ DOMAIN t = DOMAIN R \cup Keys(s)
      /\ \A w \in DOMAIN R : t[w] = R[w]
      /\ \A j \in DOMAIN s :
           /\ Lower[s[j].name] \notin DOMAIN R
           /\ \A i \in DOMAIN s : i < j => Lower[s[i].name] # Lower[s[j].name]
           => t[Lower[s[j].name]] = OwnOps(s[j])
  BY Zenon, DeviceTable DEF Keys
<1> HIDE DEF t, R, r, s
<1>4. ASSUME NEW w \in Keys(r) PROVE t[w] = Expected(p, w)
  <2> DEFINE j == Max(Named(r, w))
  <2>1. /\ j \in DOMAIN r /\ Lower[r[j].name] = w
        /\ \A i \in DOMAIN r : i > j => Lower[r[i].name] # w
    BY <1>1, KeyOfIndex
  <2> HIDE DEF j
  <2>2. R[w] = [get |-> r[j].get, set |-> r[j].set]
    BY <1>2, <2>1
  <2>3. Expected(p, w) = [get |-> r[j].get, set |-> r[j].set]
    BY DEF Expected, j, r
  <2> QED
    BY <1>2, <1>3, <2>2, <2>3
<1>5. ASSUME NEW w \in Keys(s), w \notin Keys(r) PROVE t[w] = Expected(p, w)
  <2> DEFINE j == Min(Named(s, w))
  <2>1. /\ j \in DOMAIN s /\ Lower[s[j].name] = w
        /\ \A i \in DOMAIN s : i < j => Lower[s[i].name] # w
    BY <1>1, KeyOfIndex
  <2> HIDE DEF j
  <2>2. t[w] = OwnOps(s[j])
    BY <1>2, <1>3, <1>5, <2>1
  <2>3. Expected(p, w) = OwnOps(s[j])
    BY <1>5 DEF Expected, j, r, s
  <2> QED
    BY <2>2, <2>3
<1>6. t = [w \in Keys(r) \cup Keys(s) |-> t[w]]
  BY <1>2, <1>3 DEF Tables
<1> QED
  BY <1>4, <1>5, <1>6 DEF t, r, s

-----------------------------------------------------------------------------
(* The profile cache.                                                       *)

ProfileTypes ==
    /\ commands \in [Dev -> {Nil} \cup {DevOps(p) : p \in Profiles}]
    /\ objects \in [Dev -> {Nil} \cup {DevObjs(p) : p \in Profiles}]
    /\ profileOf \in [Dev -> {Nil} \cup Profiles]
    /\ descriptors \in Seq(Word) /\ stored \in SUBSET Word
    /\ whole \in SUBSET Dev /\ panicked \in BOOLEAN

\* A device has both tables of one profile, or neither.
Built == \A d \in Dev :
    \/ commands[d] = Nil /\ objects[d] = Nil
    \/ /\ profileOf[d] \in Profiles
       /\ commands[d] = DevOps(profileOf[d])
       /\ objects[d] = DevObjs(profileOf[d])

\* The list of descriptors has what the last addDevice of a device put there,
\* whichever devices came and went since.
DescribedSince == \A d \in whole :
    /\ commands[d] # Nil
    /\ \A o \in Range(OpList(profileOf[d])) :
         o.parameter \in profileOf[d].used => o.parameter \in Range(descriptors)

ProfileInv == ProfileTypes /\ Built /\ DescribedSince /\ PanicExplained

\* A profile whose resources name only device resources it has lists only
\* operations on those.
LEMMA ClosedList ==
    ASSUME NEW p \in DeviceProfile, Closed(p), NEW o \in Range(OpList(p))
    PROVE  HasObject(p, o)
<1>1. OfResource(p, o) \/ \E j \in DOMAIN p.deviceResources :
                            o.object = p.deviceResources[j].name
  BY OpListCovers DEF Covers
<1>2. ASSUME OfResource(p, o) PROVE HasObject(p, o)
  BY <1>2 DEF OfResource, Closed
<1> QED
  BY <1>1, <1>2 DEF HasObject

\* addDevice, whatever of the descriptors it sees and fails to create.
LEMMA AddDeviceKeeps ==
    ASSUME ProfileInv, NEW d \in Dev, NEW p \in Profiles, AddDevice(d, p)
    PROVE  ProfileInv'
<1> USE ProfileAssumption DEF ProfileInv
<1>1. PICK seen \in {stored} \cup (IF Faults THEN {{}} ELSE {}),
           failing \in IF Faults THEN SUBSET p.used ELSE {{}},
           landed \in BOOLEAN :
        /\ p.deviceResources # <<>>
        /\ LET r == Describe(p, seen, descriptors,
                             failing \cup (stored \ seen), landed) IN
             /\ descriptors' = r.own
             /\ stored' = stored \cup r.stored
             /\ panicked' = r.panic
             /\ whole' = IF r.panic THEN whole \ {d} ELSE whole \cup {d}
        /\ objects' = [objects EXCEPT ![d] = DevObjs(p)]
        /\ commands' = [commands EXCEPT ![d] = DevOps(p)]
        /\ profileOf' = [profileOf EXCEPT ![d] = p]
        /\ blame' = {b \in {"call", "profile"} :
                       CASE b = "call" -> seen # stored \/ failing # {}
                         [] b = "profile" -> ~Closed(p)}
  BY Zenon DEF AddDevice
<1>2. /\ objects' = [objects EXCEPT ![d] = DevObjs(p)]
      /\ commands' = [commands EXCEPT ![d] = DevOps(p)]
      /\ profileOf' = [profileOf EXCEPT ![d] = p]
  BY <1>1
<1> DEFINE F == failing \cup (stored \ seen)
           r == Describe(p, seen, descriptors, F, landed)
<1>3. /\ p \in DeviceProfile /\ p # Nil /\ DevOps(p) # Nil /\ DevObjs(p) # Nil
      /\ seen \in SUBSET Word /\ descriptors \in Seq(Word)
  BY <1>1 DEF ProfileTypes
<1>4. /\ r \in Progress
      /\ Range(descriptors) \subseteq Range(r.own)
      /\ ~r.panic => \A o \in Range(OpList(p)) :
                       o.parameter \in p.used => o.parameter \in Range(r.own)
      /\ r.panic => \E o \in Range(OpList(p)) :
                      ~HasObject(p, o) \/ o.parameter \in F
  <2> HIDE DEF F
  <2> QED
    BY <1>3, DescribeCovers
<1>5. /\ descriptors' = r.own /\ stored' = stored \cup r.stored
      /\ panicked' = r.panic
      /\ whole' = IF r.panic THEN whole \ {d} ELSE whole \cup {d}
  BY <1>1
<1> HIDE DEF r
<1>6. ProfileTypes'
  BY <1>2, <1>3, <1>4, <1>5 DEF ProfileTypes, Progress
<1>7. Built'
  BY <1>2 DEF ProfileTypes, Built
<1>8. DescribedSince'
  <2> SUFFICES ASSUME NEW e \in whole'
               PROVE  /\ commands'[e] # Nil
                      /\ \A o \in Range(OpList(profileOf'[e])) :
                           o.parameter \in profileOf'[e].used =>
                             o.parameter \in Range(descriptors')
    BY Zenon DEF DescribedSince
  <2>1. CASE e = d
    <3>1. commands'[e] = DevOps(p) /\ profileOf'[e] = p /\ ~r.panic
      BY <1>2, <1>5, <2>1 DEF ProfileTypes
    <3> QED
      BY <1>3, <1>4, <1>5, <3>1
  <2>2. CASE e # d
    <3>1. e \in whole /\ commands'[e] = commands[e] /\ profileOf'[e] = profileOf[e]
      BY <1>2, <1>5, <2>2 DEF ProfileTypes
    <3> QED
      BY <1>4, <1>5, <3>1 DEF DescribedSince
  <2> QED
    BY <2>1, <2>2
<1>9. PanicExplained'
  <2> SUFFICES ASSUME r.panic, blame' = {} PROVE FALSE
    BY <1>5 DEF PanicExplained
  <2>1. PICK o \in Range(OpList(p)) : ~HasObject(p, o) \/ o.parameter \in F
    BY <1>4
  <2>2. seen = stored /\ failing = {} /\ Closed(p)
    <3>1. ~(CASE "call" = "call" -> seen # stored \/ failing # {}
              [] "call" = "profile" -> ~Closed(p))
      BY Zenon, <1>1
    <3>2. ~(CASE "profile" = "call" -> seen # stored \/ failing # {}
              [] "profile" = "profile" -> ~Closed(p))
      BY Zenon, <1>1
    <3> QED
      BY <3>1, <3>2
  <2>3. F = {}
    BY <2>2
  <2> QED
    BY <1>3, <2>1, <2>2, <2>3, ClosedList
<1> QED
  BY <1>6, <1>7, <1>8, <1>9

\* The invariant, for any devices and profiles, with failing calls or without.
THEOREM ProfileInvariant == Spec => []ProfileInv
<1> USE ProfileAssumption
<1>1. Init => ProfileInv
  <2>1. <<>> \in Seq(Word)
    OBVIOUS
  <2> SUFFICES ASSUME Init PROVE ProfileInv
    OBVIOUS
  <2>2. ProfileTypes
    BY <2>1 DEF Init, ProfileTypes
  <2>3. Built /\ DescribedSince /\ PanicExplained
    BY DEF Init, Built, DescribedSince, PanicExplained
  <2> QED
    BY <2>2, <2>3 DEF ProfileInv
<1>2. ProfileInv /\ [Next]_vars => ProfileInv'
  <2> SUFFICES ASSUME ProfileInv, [Next]_vars PROVE ProfileInv'
    OBVIOUS
  <2> USE DEF ProfileInv
  <2>1. ASSUME NEW d \in Dev, NEW p \in Profiles, AddDevice(d, p) PROVE ProfileInv'
    BY <2>1, AddDeviceKeeps
  <2>2. ASSUME NEW p \in Profiles, RefuseDevice(p) PROVE ProfileInv'
    BY <2>2 DEF RefuseDevice, ProfileTypes, Built, DescribedSince, PanicExplained
  <2>3. ASSUME NEW d \in Dev, RemoveDevice(d) PROVE ProfileInv'
    <3>1. ProfileTypes' /\ PanicExplained'
      BY <2>3 DEF RemoveDevice, ProfileTypes, PanicExplained
    <3>2. \A e \in Dev : e # d => /\ commands'[e] = commands[e]
                                  /\ objects'[e] = objects[e]
                                  /\ profileOf'[e] = profileOf[e]
      BY <2>3 DEF RemoveDevice, ProfileTypes
    <3>3. Built'
      BY <2>3, <3>2 DEF RemoveDevice, ProfileTypes, Built
    <3>4. DescribedSince'
      BY <2>3, <3>2 DEF RemoveDevice, ProfileTypes, DescribedSince
    <3> QED
      BY <3>1, <3>3, <3>4
  <2>4. CASE ForgetDescriptor
    BY <2>4 DEF ForgetDescriptor, ProfileTypes, Built, DescribedSince, PanicExplained
  <2>5. CASE UNCHANGED vars
    BY <2>5 DEF vars, ProfileTypes, Built, DescribedSince, PanicExplained
  <2> QED
    BY <2>1, <2>2, <2>3, <2>4, <2>5 DEF Next
<1> QED
  BY <1>1, <1>2, PTL DEF Spec

\* What a table can return is on the list its profile gives.
LEMMA ReachableListed ==
    ASSUME ProfileInv, NEW d \in Dev, commands[d] # Nil, NEW o \in Reachable(d)
    PROVE  /\ profileOf[d] \in DeviceProfile
           /\ commands[d] = DevOps(profileOf[d]) /\ objects[d] = DevObjs(profileOf[d])
           /\ o \in Range(OpList(profileOf[d]))
<1>1. /\ profileOf[d] \in DeviceProfile
      /\ commands[d] = DevOps(profileOf[d]) /\ objects[d] = DevObjs(profileOf[d])
  BY ProfileAssumption DEF ProfileInv, Built
<1>2. \E k \in DOMAIN commands[d] : \E m \in DOMAIN commands[d][k] :
        o \in Range(commands[d][k][m])
  <2>1. PICK U \in {UNION {Range(commands[d][k][m]) : m \in DOMAIN commands[d][k]} :
                      k \in DOMAIN commands[d]} : o \in U
    BY DEF Reachable
  <2>2. PICK k \in DOMAIN commands[d] :
          U = UNION {Range(commands[d][k][m]) : m \in DOMAIN commands[d][k]}
    OBVIOUS
  <2>3. \E m \in DOMAIN commands[d][k] : o \in Range(commands[d][k][m])
    BY <2>1, <2>2
  <2> QED
    BY <2>3
<1>3. Covers(profileOf[d], commands[d], OpList(profileOf[d]))
  BY <1>1, OpListCovers
<1> QED
  BY <1>1, <1>2, <1>3 DEF Covers

\* TypeOK, for every profile: tables are keyed by lowered names and hold
\* operations under "get" and "set" only, and a device has both or neither.
THEOREM ProfileCacheTypes == Spec => []TypeOK
<1>1. ProfileInv => TypeOK
  <2> SUFFICES ASSUME ProfileInv PROVE TypeOK
    OBVIOUS
  <2> USE ProfileAssumption, WordAssumption DEF ProfileInv
  <2>1. ASSUME NEW p \in Profiles
        PROVE  IsTable(DevOps(p)) /\ DOMAIN DevObjs(p) \subseteq Word
    <3>1. /\ p \in DeviceProfile
          /\ \A j \in DOMAIN p.resources : p.resources[j].name \in Word
          /\ \A j \in DOMAIN p.deviceResources : p.deviceResources[j].name \in Word
      <4>1. /\ p \in DeviceProfile
            /\ p.resources \in Seq(Resource)
            /\ p.deviceResources \in Seq(DeviceResource)
        BY DEF DeviceProfile
      <4>2. /\ \A j \in DOMAIN p.resources : p.resources[j] \in Resource
            /\ \A j \in DOMAIN p.deviceResources :
                 p.deviceResources[j] \in DeviceResource
        BY <4>1
      <4>3. /\ \A r \in Resource : r.name \in Word
            /\ \A r \in DeviceResource : r.name \in Word
        BY DEF Resource, DeviceResource
      <4> QED
        BY <4>1, <4>2, <4>3
    <3>2. /\ DevOps(p) \in Tables
          /\ DOMAIN DevOps(p) = Keys(p.resources) \cup Keys(p.deviceResources)
      <4>1. DevOps(p) \in Tables
        BY Zenon, <3>1, DeviceTable
      <4>2. DOMAIN DevOps(p) = Keys(p.resources) \cup Keys(p.deviceResources)
        BY Zenon, <3>1, TableOfProfile
      <4> QED
        BY <4>1, <4>2
    <3>3. \A w \in Word : Lower[w] \in Range(Lower)
      BY DEF Range
    <3>4. DOMAIN DevOps(p) \subseteq Range(Lower)
      BY <3>1, <3>2, <3>3 DEF Keys
    <3>5. \A k \in DOMAIN DevOps(p) : DOMAIN DevOps(p)[k] \subseteq {"get", "set"}
      <4>1. \A k \in DOMAIN DevOps(p) : DevOps(p)[k] \in OpsEntries
        BY <3>2 DEF Tables
      <4>2. \A e \in OpsEntries : DOMAIN e \subseteq {"get", "set"}
        BY DEF OpsEntries
      <4> QED
        BY <4>1, <4>2
    <3>6. DOMAIN DevObjs(p) = {p.deviceResources[j].name : j \in DOMAIN p.deviceResources}
      BY Zenon, <3>1, ObjectTable
    <3> QED
      BY <3>1, <3>4, <3>5, <3>6 DEF IsTable
  <2>2. Range(descriptors) \subseteq Word
    BY DEF ProfileTypes, Range
  <2>3. \A d \in Dev : (commands[d] = Nil) <=> (objects[d] = Nil)
    BY DEF Built
  <2>4. /\ \A d \in Dev : commands[d] # Nil => IsTable(commands[d])
        /\ \A d \in Dev : objects[d] # Nil => DOMAIN objects[d] \subseteq Word
    BY <2>1 DEF Built
  <2> QED
    BY <2>2, <2>3, <2>4 DEF TypeOK, ProfileTypes
<1> QED
  BY <1>1, ProfileInvariant, PTL

\* TablesMatch, for every profile: the two loops of addDevice leave under each
\* lowered name the operations of the last resource so named, or else those
\* made up for the first device resource so named, and no other name.
THEOREM TablesAsDescribed == Spec => []TablesMatch
<1>1. ProfileInv => TablesMatch
  <2> SUFFICES ASSUME ProfileInv, NEW d \in Dev, commands[d] # Nil
               PROVE  LET p == profileOf[d] IN
                        commands[d] = [w \in Keys(p.resources) \cup Keys(p.deviceResources)
                                         |-> Expected(p, w)]
    BY DEF TablesMatch
  <2>1. profileOf[d] \in DeviceProfile /\ commands[d] = DevOps(profileOf[d])
    BY ProfileAssumption DEF ProfileInv, Built
  <2> QED
    BY Zenon, <2>1, TableOfProfile
<1> QED
  BY <1>1, ProfileInvariant, PTL

\* Described, for every profile and every order of calls: what a table can
\* return and a command of the profile uses is on the list of descriptors.
THEOREM OperationsDescribed == Spec => []Described
<1>1. ProfileInv => Described
  <2> SUFFICES ASSUME ProfileInv, NEW d \in whole, NEW o \in Reachable(d),
                      o.parameter \in profileOf[d].used
               PROVE  o.parameter \in Range(descriptors)
    BY DEF Described
  <2>1. d \in Dev /\ commands[d] # Nil
    BY DEF ProfileInv, ProfileTypes, DescribedSince
  <2>2. o \in Range(OpList(profileOf[d]))
    BY <2>1, ReachableListed
  <2> QED
    BY <2>2 DEF ProfileInv, DescribedSince
<1> QED
  BY <1>1, ProfileInvariant, PTL

\* Resolvable, for every profile: although operations are keyed by lowered
\* names and objects by exact ones, every operation of a table has its object
\* when the resources name only device resources the profile has.
THEOREM OperationsResolvable == Spec => []Resolvable
<1>1. ProfileInv => Resolvable
  <2> SUFFICES ASSUME ProfileInv, NEW d \in Dev, commands[d] # Nil,
                      Closed(profileOf[d]), NEW o \in Reachable(d)
               PROVE  o.object \in DOMAIN objects[d]
    BY DEF Resolvable
  <2>1. /\ profileOf[d] \in DeviceProfile /\ objects[d] = DevObjs(profileOf[d])
        /\ HasObject(profileOf[d], o)
    BY ReachableListed, ClosedList
  <2>2. DOMAIN objects[d] = {profileOf[d].deviceResources[j].name :
                               j \in DOMAIN profileOf[d].deviceResources}
    BY Zenon, <2>1, ObjectTable
  <2> QED
    BY <2>1, <2>2 DEF HasObject
<1> QED
  BY <1>1, ProfileInvariant, PTL

\* PanicExplained, for every profile: addDevice dereferences nil only for a
\* profile that lacks an object, or after a call to Core Data failed.
THEOREM PanicsExplained == Spec => []PanicExplained
<1>1. ProfileInv => PanicExplained
  BY DEF ProfileInv
<1> QED
  BY <1>1, ProfileInvariant, PTL

-----------------------------------------------------------------------------
(* The import of the profile files.                                         *)

\* What the loop is done with: the file before the current one was offered
\* and either it has its profile, or it is excused.
Offered == \A k \in DOMAIN Files \ excused :
             k < file => Files[k] \in profiles \cup deleted

\* The names the loop skips were those of profiles there were.
ListedThere == listed \subseteq profiles \cup deleted

ImportedThere == imported \subseteq profiles \cup deleted

\* The import ends by itself only behind the last file.
EndsBehind == ended /\ ~cut => file = Len(Files) + 1

ImportInv ==
    /\ ImportTypeOK /\ Offered /\ ListedThere /\ ImportedThere /\ EndsBehind

-----------------------------------------------------------------------------
\* One round of the loop leaves the files before it as they were and, unless
\* this one is excused, has its name among the profiles, now or before; this is
\* about ImportFile alone.
LEMMA FileOffered ==
    ASSUME ImportInv, ImportFile
    PROVE  ImportInv'
<1> USE ImportAssumption DEF ImportInv
<1>1. file \in DOMAIN Files /\ ~ended /\ DOMAIN Files = 1 .. Len(Files)
      /\ Len(Files) \in Nat /\ Files[file] \in Title
  BY DEF ImportFile
<1>2. UNCHANGED <<listed, deleted>>
  BY DEF ImportFile
<1>3. PICK n \in {Files[file], NoTitle} :
        \/ /\ Skipped(n) \/ Created(n) \/ Refused(n)
           /\ n = Files[file] /\ excused' = excused
        \/ /\ \/ Skipped(n) \/ Created(n) \/ Refused(n)
              \/ Failed(n) \/ Garbled(n)
           /\ excused' = excused \cup {file}
  BY DEF ImportFile
<1>4. n \in Title \cup {NoTitle}
  BY <1>1
<1>5. /\ profiles \subseteq profiles' /\ profiles' \subseteq profiles \cup {n}
      /\ imported' \subseteq imported \cup {n}
      /\ imported' \subseteq imported \cup profiles'
      /\ \/ file' = file + 1 /\ UNCHANGED <<ended, cut>>
         \/ file' = file /\ ended' = TRUE /\ cut' = TRUE
  BY <1>3 DEF Skipped, Created, Refused, Failed, Garbled, NextFile, Stop
<1>6. ImportTypeOK'
  BY <1>1, <1>2, <1>3, <1>4, <1>5 DEF ImportTypeOK
<1>7. Offered'
  <2> SUFFICES ASSUME NEW k \in DOMAIN Files, k \notin excused', k < file'
               PROVE  Files[k] \in profiles' \cup deleted'
    BY DEF Offered
  <2>1. CASE k < file
    BY <2>1, <1>2, <1>3, <1>5 DEF Offered
  <2>2. CASE k = file
    <3>1. n = Files[k] /\ (Skipped(n) \/ Created(n) \/ Refused(n))
      BY <2>2, <1>3
    <3> QED
      BY <3>1, <1>2
      DEF Skipped, Created, Refused, ListedThere
  <2> QED
    BY <2>1, <2>2, <1>1, <1>5
<1>8. ListedThere' /\ ImportedThere'
  BY <1>2, <1>5 DEF ListedThere, ImportedThere
<1>9. EndsBehind'
  BY <1>1, <1>5 DEF EndsBehind
<1> QED
  BY <1>6, <1>7, <1>8, <1>9

\* The invariant holds in every state of the import: it takes the other steps,
\* among them those of other services and of a restart, which set nothing that
\* was accounted for back.
THEOREM ImportInvariant == ImportSpec => []ImportInv
<1> USE ImportAssumption
<1>1. ImportInit => ImportInv
  BY DEF ImportInit, ImportInv, ImportTypeOK, Offered, ListedThere,
         ImportedThere, EndsBehind
<1>2. ImportInv /\ [ImportNext]_importVars => ImportInv'
  <2> SUFFICES ASSUME ImportInv, [ImportNext]_importVars PROVE ImportInv'
    OBVIOUS
  <2>0. Len(Files) \in Nat /\ DOMAIN Files = 1 .. Len(Files)
    OBVIOUS
  <2>1. CASE FetchProfiles
    BY <2>0, <2>1 DEF FetchProfiles, Stop, ImportInv, ImportTypeOK, Offered,
                      ListedThere, ImportedThere, EndsBehind
  <2>2. CASE ImportFile
    BY <2>2, FileOffered
  <2>3. CASE ImportDone
    BY <2>0, <2>3 DEF ImportDone, fate, bounds, ImportInv, ImportTypeOK, Offered,
                      ListedThere, ImportedThere, EndsBehind
  <2>4. CASE Restart
    BY <2>0, <2>4 DEF Restart, ImportInv, ImportTypeOK, Offered, ListedThere,
                      ImportedThere, EndsBehind
  <2>5. CASE OtherProfile
    BY <2>0, <2>5 DEF OtherProfile, fate, ImportInv, ImportTypeOK, Offered,
                      ListedThere, ImportedThere, EndsBehind
  <2>6. CASE UNCHANGED importVars
    BY <2>6 DEF importVars, fate, bounds, ImportInv, ImportTypeOK, Offered,
                ListedThere, ImportedThere, EndsBehind
  <2> QED
    BY <2>1, <2>2, <2>3, <2>4, <2>5, <2>6 DEF ImportNext
<1> QED
  BY <1>1, <1>2, PTL DEF ImportSpec

\* ImportAccounts, of every directory and every bound: an import that ends by
\* itself leaves Core Metadata with a profile for every file, but for those
\* whose own read or Add failed and those others deleted.
THEOREM ImportComplete == ImportSpec => []ImportAccounts
<1>1. ImportInv => ImportAccounts
  BY ImportAssumption DEF ImportInv, ImportTypeOK, Offered, ImportedThere,
                          EndsBehind, ImportAccounts
<1> QED
  BY <1>1, ImportInvariant, PTL
=============================================================================
