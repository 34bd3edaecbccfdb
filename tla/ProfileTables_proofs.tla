------------------------- MODULE ProfileTables_proofs -------------------------
(***************************************************************************)
(* Theorems about ProfileTables: what the loops of addDevice build, for    *)
(* every profile.  A loop is a fold of the community modules; the first    *)
(* part turns a fold into the sequence of values the loop runs through.    *)
(***************************************************************************)
EXTENDS ProfileTables, TLAPS, WellFoundedInduction

-----------------------------------------------------------------------------
(* Induction, first-order: over sets of numbers, not over predicates.       *)

LEMMA NatSetInduction ==
    ASSUME NEW S, 0 \in S, \A n \in Nat : n \in S => n + 1 \in S
    PROVE  Nat \subseteq S
<1> SUFFICES ASSUME Nat \ S # {} PROVE FALSE
  OBVIOUS
<1> DEFINE R == OpToRel(<, Nat)
<1>1. PICK x \in Nat \ S : \A y \in Nat \ S : ~(<<y, x>> \in R)
  <2>1. IsWellFoundedOn(R, Nat)
    BY NatLessThanWellFounded
  <2> HIDE DEF R
  <2> QED
    BY <2>1, WFMin
<1>2. x # 0 /\ x - 1 \in Nat /\ x - 1 < x
  OBVIOUS
<1>3. x - 1 \in S
  BY <1>1, <1>2 DEF OpToRel
<1> QED
  BY <1>2, <1>3

\* What holds before a loop and is kept by each of its rounds holds after it.
LEMMA LoopInduction ==
    ASSUME NEW n \in Nat, NEW S, 0 \in S,
           \A k \in 0 .. n - 1 : k \in S => k + 1 \in S
    PROVE  \A k \in 0 .. n : k \in S
<1> DEFINE U == {k \in Nat : k <= n => k \in S}
<1>1. Nat \subseteq U
  <2>1. 0 \in U
    OBVIOUS
  <2>2. \A k \in Nat : k \in U => k + 1 \in U
    OBVIOUS
  <2> HIDE DEF U
  <2> QED
    BY <2>1, <2>2, NatSetInduction
<1> QED
  BY <1>1

-----------------------------------------------------------------------------
(* Folds.                                                                   *)

LEMMA MaxOfPrefix ==
    ASSUME NEW k \in Nat
    PROVE  /\ Max(1 .. k + 1) = k + 1
           /\ (1 .. k + 1) \ {k + 1} = 1 .. k
           /\ \A t \in SUBSET (1 .. k + 1) : k + 1 \in t =>
                Max(t) = k + 1 /\ t \ {Max(t)} \in SUBSET (1 .. k)
           /\ \A t \in SUBSET (1 .. k + 1) : k + 1 \notin t => t \in SUBSET (1 .. k)
<1>1. \A t \in SUBSET (1 .. k + 1) : k + 1 \in t => Max(t) = k + 1
  <2> SUFFICES ASSUME NEW t \in SUBSET (1 .. k + 1), k + 1 \in t PROVE Max(t) = k + 1
    OBVIOUS
  <2>1. \A y \in t : y \in Int /\ y <= k + 1
    OBVIOUS
  <2>2. \E x \in t : \A y \in t : x >= y
    BY <2>1
  <2>3. PICK m : m = Max(t)
    OBVIOUS
  <2>4. m \in t /\ m >= k + 1
    BY <2>2, <2>3 DEF Max
  <2>5. m = k + 1
    BY <2>1, <2>4
  <2> QED
    BY <2>3, <2>5
<1>2. \A x : x \in 1 .. k <=> x \in 1 .. k + 1 /\ x # k + 1
  OBVIOUS
<1>3. (1 .. k + 1) \ {k + 1} = 1 .. k
  BY <1>2
<1>4. \A t \in SUBSET (1 .. k + 1) : k + 1 \notin t => t \in SUBSET (1 .. k)
  BY <1>2
<1>5. \A t \in SUBSET (1 .. k + 1) : t \ {k + 1} \in SUBSET (1 .. k)
  BY <1>2
<1>6. 1 .. k + 1 \in SUBSET (1 .. k + 1) /\ k + 1 \in 1 .. k + 1
  OBVIOUS
<1> QED
  BY <1>1, <1>3, <1>4, <1>5, <1>6

LEMMA MaxIsIn ==
    ASSUME NEW n \in Nat, NEW t \in SUBSET (1 .. n), t # {}
    PROVE  Max(t) \in t
<1> DEFINE P(k) == \A u \in SUBSET (1 .. k) : u # {} => Max(u) \in u
           S == {k \in 0 .. n : P(k)}
<1>1. P(0)
  <2>1. 1 .. 0 = {}
    OBVIOUS
  <2> QED
    BY <2>1
<1>2. ASSUME NEW k \in 0 .. n - 1, P(k) PROVE P(k + 1)
  <2> SUFFICES ASSUME NEW u \in SUBSET (1 .. k + 1), u # {} PROVE Max(u) \in u
    OBVIOUS
  <2>1. k \in Nat
    OBVIOUS
  <2>2. CASE k + 1 \in u
    BY <2>1, <2>2, MaxOfPrefix
  <2>3. CASE k + 1 \notin u
    <3>1. u \in SUBSET (1 .. k)
      BY <2>1, <2>3, MaxOfPrefix
    <3> QED
      BY <1>2, <3>1
  <2> QED
    BY <2>2, <2>3
<1>3. P(n)
  <2> HIDE DEF P
  <2>1. 0 \in S /\ \A k \in 0 .. n - 1 : k \in S => k + 1 \in S
    BY <1>1, <1>2
  <2> HIDE DEF S
  <2>2. n \in S
    BY <2>1, LoopInduction
  <2> QED
    BY <2>2 DEF S
<1> QED
  BY <1>3

\* The function a fold over s recurses on.
IsFold(F, base, s, g) ==
    g = [t \in SUBSET DOMAIN s |->
           IF t = {} THEN base ELSE F[<<g[t \ {Max(t)}], s[Max(t)]>>]]

LEMMA FoldExists ==
    ASSUME NEW T, NEW X, NEW F \in [T \X X -> T], NEW base \in T, NEW s \in Seq(X)
    PROVE  \E g \in [SUBSET DOMAIN s -> T] : IsFold(F, base, s, g)
<1> DEFINE n == Len(s)
           V(g, t) == IF t = {} THEN base ELSE F[<<g[t \ {Max(t)}], s[Max(t)]>>]
           P(k) == \E g \in [SUBSET (1 .. k) -> T] :
                     \A t \in SUBSET (1 .. k) : g[t] = V(g, t)
           S == {k \in 0 .. n : P(k)}
<1>1. n \in Nat /\ DOMAIN s = 1 .. n /\ \A k \in 1 .. n : s[k] \in X
  OBVIOUS
<1>2. P(0)
  <2>1. 1 .. 0 = {}
    OBVIOUS
  <2>2. [t \in SUBSET (1 .. 0) |-> base] \in [SUBSET (1 .. 0) -> T]
    OBVIOUS
  <2>3. \A t \in SUBSET (1 .. 0) : t = {}
    BY <2>1
  <2> QED
    BY <2>2, <2>3
<1>3. ASSUME NEW k \in 0 .. n - 1, P(k) PROVE P(k + 1)
  <2>1. k \in Nat /\ k + 1 \in 0 .. n /\ s[k + 1] \in X
    BY <1>1
  <2>2. PICK g \in [SUBSET (1 .. k) -> T] : \A t \in SUBSET (1 .. k) : g[t] = V(g, t)
    BY <1>3
  <2> DEFINE h == [t \in SUBSET (1 .. k + 1) |->
                     IF k + 1 \in t THEN F[<<g[t \ {k + 1}], s[k + 1]>>] ELSE g[t]]
  <2>3. h \in [SUBSET (1 .. k + 1) -> T]
    <3> SUFFICES ASSUME NEW t \in SUBSET (1 .. k + 1)
                 PROVE  (IF k + 1 \in t THEN F[<<g[t \ {k + 1}], s[k + 1]>>] ELSE g[t]) \in T
      OBVIOUS
    <3>1. CASE k + 1 \in t
      <4>1. t \ {k + 1} \in SUBSET (1 .. k)
        BY <2>1, <3>1, MaxOfPrefix
      <4>2. g[t \ {k + 1}] \in T
        BY <4>1
      <4> QED
        BY <2>1, <3>1, <4>2
    <3>2. CASE k + 1 \notin t
      BY <2>1, <3>2, MaxOfPrefix
    <3> QED
      BY <3>1, <3>2
  <2>4. ASSUME NEW t \in SUBSET (1 .. k + 1) PROVE h[t] = V(h, t)
    <3>1. CASE k + 1 \in t
      <4>1. Max(t) = k + 1 /\ t \ {k + 1} \in SUBSET (1 .. k) /\ t # {}
        BY <2>1, <3>1, MaxOfPrefix
      <4>2. h[t \ {k + 1}] = g[t \ {k + 1}]
        BY <4>1
      <4> QED
        BY <3>1, <4>1, <4>2
    <3>2. CASE k + 1 \notin t
      <4>1. t \in SUBSET (1 .. k) /\ h[t] = g[t]
        BY <2>1, <3>2, MaxOfPrefix
      <4>2. t \ {Max(t)} \in SUBSET (1 .. k) /\ k + 1 \notin t \ {Max(t)}
        BY <3>2, <4>1
      <4>3. h[t \ {Max(t)}] = g[t \ {Max(t)}]
        BY <4>2
      <4> QED
        BY <2>2, <4>1, <4>3
    <3> QED
      BY <3>1, <3>2
  <2> QED
    BY <2>3, <2>4
<1>4. P(n)
  <2> HIDE DEF P, n
  <2>1. 0 \in S /\ \A k \in 0 .. n - 1 : k \in S => k + 1 \in S
    BY <1>1, <1>2, <1>3
  <2> HIDE DEF S
  <2>2. n \in Nat /\ n \in 0 .. n
    BY <1>1
  <2> HIDE DEF n
  <2>3. \A k \in 0 .. n : k \in S
    BY <2>1, <2>2, LoopInduction
  <2> QED
    BY <2>2, <2>3 DEF S
<1> QED
  BY <1>1, <1>4 DEF IsFold


\* F is the body of a loop that goes over the list s, whose elements are in X,
\* and changes a value that is in T.  The lemmas below are cited with these
\* predicates unexpanded.
IsLoop(T, X, F, base, s) == F \in [T \X X -> T] /\ base \in T /\ s \in Seq(X)

\* g is the function the fold recurses on, and its arguments have their types.
IsFoldOf(T, X, F, base, s, g) == \A t \in SUBSET DOMAIN s :
    /\ t = {} => g[t] = base
    /\ t # {} => /\ g[t \ {Max(t)}] \in T /\ s[Max(t)] \in X
                 /\ g[t] = F[<<g[t \ {Max(t)}], s[Max(t)]>>]

\* c recurses like it, as far as its arguments have their types.
Recurses(T, X, F, base, s, c) ==
    /\ c[{}] = base
    /\ \A t \in SUBSET DOMAIN s :
         t # {} /\ c[t \ {Max(t)}] \in T /\ s[Max(t)] \in X =>
           c[t] = F[<<c[t \ {Max(t)}], s[Max(t)]>>]

\* The values a loop runs through.
IsRun(T, X, F, base, s, h) ==
    /\ h \in [0 .. Len(s) -> T] /\ h[0] = base
    /\ \A k \in 0 .. Len(s) - 1 :
         s[k + 1] \in X /\ h[k + 1] = F[<<h[k], s[k + 1]>>]

LEMMA FoldTyped ==
    ASSUME NEW T, NEW X, NEW F, NEW base, NEW s, IsLoop(T, X, F, base, s)
    PROVE  \E g : IsFoldOf(T, X, F, base, s, g)
<1> USE DEF IsLoop, IsFoldOf
<1>1. PICK g \in [SUBSET DOMAIN s -> T] : IsFold(F, base, s, g)
  BY FoldExists
<1>2. Len(s) \in Nat /\ DOMAIN s = 1 .. Len(s) /\ \A k \in DOMAIN s : s[k] \in X
  OBVIOUS
<1>3. ASSUME NEW t \in SUBSET DOMAIN s
      PROVE  /\ t = {} => g[t] = base
             /\ t # {} => /\ g[t \ {Max(t)}] \in T /\ s[Max(t)] \in X
                          /\ g[t] = F[<<g[t \ {Max(t)}], s[Max(t)]>>]
  <2>1. t # {} => Max(t) \in t
    BY <1>2, MaxIsIn
  <2>2. t \ {Max(t)} \in SUBSET DOMAIN s
    OBVIOUS
  <2>3. g[t] = IF t = {} THEN base ELSE F[<<g[t \ {Max(t)}], s[Max(t)]>>]
    BY <1>1 DEF IsFold
  <2> QED
    BY <1>2, <2>1, <2>2, <2>3
<1> QED
  BY <1>3

LEMMA FoldRun ==
    ASSUME NEW T, NEW X, NEW F, NEW base, NEW s, NEW c, IsLoop(T, X, F, base, s),
           Recurses(T, X, F, base, s, c)
    PROVE  \E h : IsRun(T, X, F, base, s, h) /\ c[DOMAIN s] = h[Len(s)]
<1> USE DEF IsLoop, Recurses
<1> DEFINE n == Len(s)
           h == [k \in 0 .. n |-> c[1 .. k]]
           S == {k \in 0 .. n : h[k] \in T}
<1>1. n \in Nat /\ DOMAIN s = 1 .. n /\ \A k \in 1 .. n : s[k] \in X
  OBVIOUS
<1>2. h[0] = base
  <2>1. 1 .. 0 = {} /\ 0 \in 0 .. n
    BY <1>1
  <2> QED
    BY <2>1
<1>3. ASSUME NEW k \in 0 .. n - 1, h[k] \in T
      PROVE  s[k + 1] \in X /\ h[k + 1] = F[<<h[k], s[k + 1]>>]
  <2>1. k \in Nat /\ k + 1 \in 1 .. n /\ k + 1 \in 0 .. n /\ k \in 0 .. n
    BY <1>1
  <2>2. Max(1 .. k + 1) = k + 1 /\ (1 .. k + 1) \ {k + 1} = 1 .. k
    BY <2>1, MaxOfPrefix
  <2>3. 1 .. k + 1 \in SUBSET DOMAIN s /\ 1 .. k + 1 # {}
    <3>1. k + 1 \in 1 .. k + 1
      BY <2>1
    <3>2. 1 .. k + 1 \subseteq 1 .. n
      BY <1>1, <2>1
    <3> QED
      BY <1>1, <3>1, <3>2
  <2>4. c[1 .. k + 1] = F[<<c[1 .. k], s[k + 1]>>]
    BY <1>1, <1>3, <2>1, <2>2, <2>3
  <2> QED
    BY <1>1, <2>1, <2>4
<1>4. \A k \in 0 .. n : h[k] \in T
  <2>1. 0 \in S
    BY <1>1, <1>2
  <2>2. \A k \in 0 .. n - 1 : k \in S => k + 1 \in S
    <3> SUFFICES ASSUME NEW k \in 0 .. n - 1, h[k] \in T PROVE k + 1 \in 0 .. n /\ h[k + 1] \in T
      OBVIOUS
    <3> HIDE DEF h
    <3>1. s[k + 1] \in X /\ h[k + 1] = F[<<h[k], s[k + 1]>>]
      BY <1>3
    <3> QED
      BY <1>1, <3>1
  <2> HIDE DEF S, n
  <2>3. \A k \in 0 .. n : k \in S
    BY <1>1, <2>1, <2>2, LoopInduction
  <2> QED
    BY <2>3 DEF S
<1>5. h[n] = c[DOMAIN s]
  BY <1>1
<1>6. h \in [0 .. n -> T]
  <2>1. h = [k \in 0 .. n |-> h[k]]
    OBVIOUS
  <2> HIDE DEF h
  <2> QED
    BY <1>4, <2>1
<1> HIDE DEF h
<1>7. \A k \in 0 .. n - 1 : k \in 0 .. n
  BY <1>1
<1> QED
  BY <1>2, <1>3, <1>4, <1>5, <1>6, <1>7 DEF IsRun

-----------------------------------------------------------------------------
(* The types of the tables.                                                 *)

OpsEntries == UNION {[M -> Seq(Operation)] : M \in SUBSET {"get", "set"}}
Tables == UNION {[S -> OpsEntries] : S \in SUBSET Word}

LEMMA PutTable ==
    ASSUME NEW t \in Tables, NEW w \in Word, NEW e \in OpsEntries
    PROVE  Put(t, w, e) \in Tables
<1>1. PICK S \in SUBSET Word : t \in [S -> OpsEntries]
  BY DEF Tables
<1>2. Put(t, w, e) \in [{w} \cup S -> OpsEntries]
  BY <1>1 DEF Put
<1>3. {w} \cup S \in SUBSET Word
  BY <1>1
<1> QED
  BY <1>2, <1>3 DEF Tables

LEMMA EmptyTable == <<>> \in Tables /\ DOMAIN <<>> = {}
<1>1. <<>> \in [{} -> OpsEntries]
  OBVIOUS
<1> QED
  BY <1>1 DEF Tables

-----------------------------------------------------------------------------
(* The loop over the resources.                                             *)

PutResource(t, r) == Put(t, Lower[r.name], [get |-> r.get, set |-> r.set])

LEMMA PutResourceTyped ==
    ASSUME NEW t \in Tables, NEW r \in Resource
    PROVE  /\ Lower[r.name] \in Word
           /\ [get |-> r.get, set |-> r.set] \in OpsEntries
           /\ PutResource(t, r) \in Tables
<1>1. Lower[r.name] \in Word
  BY WordAssumption DEF Resource
<1>2. [get |-> r.get, set |-> r.set] \in [{"get", "set"} -> Seq(Operation)]
  BY DEF Resource
<1>3. [get |-> r.get, set |-> r.set] \in OpsEntries
  BY <1>2 DEF OpsEntries
<1> QED
  BY <1>1, <1>3, PutTable DEF PutResource

ResourceLoop == [x \in Tables \X Resource |-> PutResource(x[1], x[2])]

LEMMA ResourceOpsRun ==
    ASSUME NEW p \in DeviceProfile
    PROVE  \E h : /\ IsRun(Tables, Resource, ResourceLoop, <<>>, p.resources, h)
                  /\ ResourceOps(p) = h[Len(p.resources)]
<1> DEFINE s == p.resources
           b == <<>>
           V(g, t) == IF t = {} THEN b ELSE PutResource(g[t \ {Max(t)}], s[Max(t)])
           eq(g) == g = [t \in SUBSET DOMAIN s |-> V(g, t)]
           c == CHOOSE g : eq(g)
<1>1. IsLoop(Tables, Resource, ResourceLoop, b, s)
  BY EmptyTable, PutResourceTyped DEF DeviceProfile, IsLoop, ResourceLoop
<1>2. \A t \in Tables, r \in Resource : ResourceLoop[<<t, r>>] = PutResource(t, r)
  BY DEF ResourceLoop
<1>3. ResourceOps(p) = c[DOMAIN s]
  BY Zenon DEF ResourceOps, FoldLeft, MapThenFoldSet, PutResource
<1> SUFFICES \E h : /\ IsRun(Tables, Resource, ResourceLoop, b, s, h)
                    /\ c[DOMAIN s] = h[Len(s)]
  BY Zenon, <1>3
<1> HIDE DEF s, b
<1>4. \E g : eq(g)
  <2>1. PICK g : IsFoldOf(Tables, Resource, ResourceLoop, b, s, g)
    BY <1>1, FoldTyped
  <2> DEFINE f == [t \in SUBSET DOMAIN s |-> g[t]]
  <2>2. \A t \in SUBSET DOMAIN s : f[t] = V(f, t)
    BY <1>2, <2>1 DEF IsFoldOf
  <2>3. eq(f)
    BY <2>2
  <2> QED
    BY <2>3
<1>5. eq(c)
  BY <1>4
<1> HIDE DEF c
<1>6. Recurses(Tables, Resource, ResourceLoop, b, s, c)
  BY <1>2, <1>5 DEF Recurses
<1> QED
  BY <1>1, <1>6, FoldRun


-----------------------------------------------------------------------------
(* The loops over the device resources.                                     *)

LEMMA OwnOpsTyped ==
    ASSUME NEW dr \in DeviceResource
    PROVE  /\ dr.name \in Word /\ Lower[dr.name] \in Word
           /\ OwnOps(dr) \in OpsEntries
           /\ \A m \in DOMAIN OwnOps(dr) :
                OwnOps(dr)[m] = <<[object |-> dr.name, parameter |-> dr.name]>>
<1> DEFINE o == [object |-> dr.name, parameter |-> dr.name]
           M == {k \in DOMAIN Letter : Letter[k] \in dr.rw}
<1>1. dr.name \in Word /\ Lower[dr.name] \in Word
  BY WordAssumption DEF DeviceResource
<1>2. o \in Operation
  BY <1>1 DEF Operation
<1>3. <<o>> \in Seq(Operation)
  <2> HIDE DEF o
  <2> QED
    BY <1>2
<1>4. OwnOps(dr) = [m \in M |-> <<o>>]
  BY DEF OwnOps
<1>5. M \in SUBSET {"get", "set"}
  BY DEF Letter
<1> HIDE DEF o, M
<1>6. OwnOps(dr) \in [M -> Seq(Operation)]
  BY <1>3, <1>4
<1>7. OwnOps(dr) \in OpsEntries
  BY <1>5, <1>6 DEF OpsEntries
<1> QED
  BY <1>1, <1>4, <1>7 DEF o

LEMMA WithOwnTyped ==
    ASSUME NEW t \in Tables, NEW dr \in DeviceResource
    PROVE  WithOwn(t, dr) \in Tables
BY OwnOpsTyped, PutTable DEF WithOwn

OwnLoop == [x \in Tables \X DeviceResource |-> WithOwn(x[1], x[2])]

LEMMA DevOpsRun ==
    ASSUME NEW p \in DeviceProfile, ResourceOps(p) \in Tables
    PROVE  \E h : /\ IsRun(Tables, DeviceResource, OwnLoop, ResourceOps(p),
                           p.deviceResources, h)
                  /\ DevOps(p) = h[Len(p.deviceResources)]
<1> DEFINE s == p.deviceResources
           b == ResourceOps(p)
           V(g, t) == IF t = {} THEN b ELSE WithOwn(g[t \ {Max(t)}], s[Max(t)])
           eq(g) == g = [t \in SUBSET DOMAIN s |-> V(g, t)]
           c == CHOOSE g : eq(g)
<1>1. IsLoop(Tables, DeviceResource, OwnLoop, b, s)
  BY WithOwnTyped DEF DeviceProfile, IsLoop, OwnLoop
<1>2. \A t \in Tables, r \in DeviceResource : OwnLoop[<<t, r>>] = WithOwn(t, r)
  BY DEF OwnLoop
<1>3. DevOps(p) = c[DOMAIN s]
  BY Zenon DEF DevOps, FoldLeft, MapThenFoldSet
<1> SUFFICES \E h : /\ IsRun(Tables, DeviceResource, OwnLoop, b, s, h)
                    /\ c[DOMAIN s] = h[Len(s)]
  BY Zenon, <1>3
<1> HIDE DEF s, b
<1>4. \E g : eq(g)
  <2>1. PICK g : IsFoldOf(Tables, DeviceResource, OwnLoop, b, s, g)
    BY <1>1, FoldTyped
  <2> DEFINE f == [t \in SUBSET DOMAIN s |-> g[t]]
  <2>2. \A t \in SUBSET DOMAIN s : f[t] = V(f, t)
    BY <1>2, <2>1 DEF IsFoldOf
  <2>3. eq(f)
    BY <2>2
  <2> QED
    BY <2>3
<1>5. eq(c)
  BY <1>4
<1> HIDE DEF c
<1>6. Recurses(Tables, DeviceResource, OwnLoop, b, s, c)
  BY <1>2, <1>5 DEF Recurses
<1> QED
  BY <1>1, <1>6, FoldRun

Objects == UNION {[S -> Word] : S \in SUBSET Word}

LEMMA PutObject ==
    ASSUME NEW t \in Objects, NEW dr \in DeviceResource
    PROVE  Put(t, dr.name, dr.name) \in Objects
<1>1. PICK S \in SUBSET Word : t \in [S -> Word]
  BY DEF Objects
<1>2. dr.name \in Word
  BY DEF DeviceResource
<1>3. Put(t, dr.name, dr.name) \in [{dr.name} \cup S -> Word]
  BY <1>1, <1>2 DEF Put
<1>4. {dr.name} \cup S \in SUBSET Word
  BY <1>2
<1> QED
  BY <1>3, <1>4 DEF Objects

ObjectLoop == [x \in Objects \X DeviceResource |-> Put(x[1], x[2].name, x[2].name)]

LEMMA DevObjsRun ==
    ASSUME NEW p \in DeviceProfile
    PROVE  \E h : /\ IsRun(Objects, DeviceResource, ObjectLoop, <<>>,
                           p.deviceResources, h)
                  /\ DevObjs(p) = h[Len(p.deviceResources)]
<1> DEFINE s == p.deviceResources
           b == <<>>
           V(g, t) == IF t = {} THEN b
                      ELSE Put(g[t \ {Max(t)}], s[Max(t)].name, s[Max(t)].name)
           eq(g) == g = [t \in SUBSET DOMAIN s |-> V(g, t)]
           c == CHOOSE g : eq(g)
<1>1. IsLoop(Objects, DeviceResource, ObjectLoop, b, s)
  <2>1. <<>> \in [{} -> Word]
    OBVIOUS
  <2>2. b \in Objects
    BY <2>1 DEF Objects
  <2> QED
    BY <2>2, PutObject DEF DeviceProfile, IsLoop, ObjectLoop
<1>2. \A t \in Objects, r \in DeviceResource :
        ObjectLoop[<<t, r>>] = Put(t, r.name, r.name)
  BY DEF ObjectLoop
<1>3. DevObjs(p) = c[DOMAIN s]
  BY Zenon DEF DevObjs, FoldLeft, MapThenFoldSet
<1> SUFFICES \E h : /\ IsRun(Objects, DeviceResource, ObjectLoop, b, s, h)
                    /\ c[DOMAIN s] = h[Len(s)]
  BY Zenon, <1>3
<1> HIDE DEF s, b
<1>4. \E g : eq(g)
  <2>1. PICK g : IsFoldOf(Objects, DeviceResource, ObjectLoop, b, s, g)
    BY <1>1, FoldTyped
  <2> DEFINE f == [t \in SUBSET DOMAIN s |-> g[t]]
  <2>2. \A t \in SUBSET DOMAIN s : f[t] = V(f, t)
    BY <1>2, <2>1 DEF IsFoldOf
  <2>3. eq(f)
    BY <2>2
  <2> QED
    BY <2>3
<1>5. eq(c)
  BY <1>4
<1> HIDE DEF c
<1>6. Recurses(Objects, DeviceResource, ObjectLoop, b, s, c)
  BY <1>2, <1>5 DEF Recurses
<1> QED
  BY <1>1, <1>6, FoldRun

-----------------------------------------------------------------------------
(* The loops that make the list of operations to describe.                  *)

Operations == Seq(Operation)

ListLoop == [x \in Operations \X Resource |-> x[1] \o x[2].get \o x[2].set]

ListedOps(p) == FoldLeft(LAMBDA s, r : s \o r.get \o r.set, <<>>, p.resources)

LEMMA ListedRun ==
    ASSUME NEW p \in DeviceProfile
    PROVE  \E h : /\ IsRun(Operations, Resource, ListLoop, <<>>, p.resources, h)
                  /\ ListedOps(p) = h[Len(p.resources)]
<1> DEFINE s == p.resources
           b == <<>>
           step(a, r) == a \o r.get \o r.set
           V(g, t) == IF t = {} THEN b ELSE step(g[t \ {Max(t)}], s[Max(t)])
           eq(g) == g = [t \in SUBSET DOMAIN s |-> V(g, t)]
           c == CHOOSE g : eq(g)
<1>1. IsLoop(Operations, Resource, ListLoop, b, s)
  <2>1. \A a \in Operations, r \in Resource : step(a, r) \in Operations
    BY DEF Operations, Resource
  <2> QED
    BY <2>1 DEF DeviceProfile, IsLoop, ListLoop, Operations
<1>2. \A t \in Operations, r \in Resource : ListLoop[<<t, r>>] = step(t, r)
  BY DEF ListLoop
<1>3. ListedOps(p) = c[DOMAIN s]
  BY Zenon DEF ListedOps, FoldLeft, MapThenFoldSet
<1> SUFFICES \E h : /\ IsRun(Operations, Resource, ListLoop, b, s, h)
                    /\ c[DOMAIN s] = h[Len(s)]
  BY Zenon, <1>3
<1> HIDE DEF s, b, step
<1>4. \E g : eq(g)
  <2>1. PICK g : IsFoldOf(Operations, Resource, ListLoop, b, s, g)
    BY <1>1, FoldTyped
  <2> DEFINE f == [t \in SUBSET DOMAIN s |-> g[t]]
  <2>2. \A t \in SUBSET DOMAIN s : f[t] = V(f, t)
    BY <1>2, <2>1 DEF IsFoldOf
  <2>3. eq(f)
    BY <2>2
  <2> QED
    BY <2>3
<1>5. eq(c)
  BY <1>4
<1> HIDE DEF c
<1>6. Recurses(Operations, Resource, ListLoop, b, s, c)
  BY <1>2, <1>5 DEF Recurses
<1> QED
  BY <1>1, <1>6, FoldRun

\* The table and the list the second loop of addDevice completes together.
TableAndOps == [table: Tables, ops: Operations]

AddOwn(a, dr) ==
    [table |-> WithOwn(a.table, dr),
     ops |-> IF Lower[dr.name] \in DOMAIN a.table THEN a.ops
             ELSE a.ops \o OpsOf(OwnOps(dr), "get") \o OpsOf(OwnOps(dr), "set")]

LEMMA AddOwnTyped ==
    ASSUME NEW a \in TableAndOps, NEW dr \in DeviceResource
    PROVE  AddOwn(a, dr) \in TableAndOps
<1>1. WithOwn(a.table, dr) \in Tables
  BY WithOwnTyped DEF TableAndOps
<1>2. \A m \in {"get", "set"} : OpsOf(OwnOps(dr), m) \in Seq(Operation)
  BY OwnOpsTyped DEF OpsOf, OpsEntries
<1> QED
  BY <1>1, <1>2 DEF AddOwn, TableAndOps, Operations

AddOwnLoop == [x \in TableAndOps \X DeviceResource |-> AddOwn(x[1], x[2])]

LEMMA OpListRun ==
    ASSUME NEW p \in DeviceProfile, ResourceOps(p) \in Tables, ListedOps(p) \in Operations
    PROVE  \E h : /\ IsRun(TableAndOps, DeviceResource, AddOwnLoop,
                           [table |-> ResourceOps(p), ops |-> ListedOps(p)],
                           p.deviceResources, h)
                  /\ OpList(p) = h[Len(p.deviceResources)].ops
<1> DEFINE s == p.deviceResources
           b == [table |-> ResourceOps(p), ops |-> ListedOps(p)]
           V(g, t) == IF t = {} THEN b ELSE AddOwn(g[t \ {Max(t)}], s[Max(t)])
           eq(g) == g = [t \in SUBSET DOMAIN s |-> V(g, t)]
           c == CHOOSE g : eq(g)
<1>1. IsLoop(TableAndOps, DeviceResource, AddOwnLoop, b, s)
  BY AddOwnTyped DEF DeviceProfile, IsLoop, AddOwnLoop, TableAndOps
<1>2. \A t \in TableAndOps, r \in DeviceResource : AddOwnLoop[<<t, r>>] = AddOwn(t, r)
  BY DEF AddOwnLoop
<1>3. OpList(p) = c[DOMAIN s].ops
  BY Zenon DEF OpList, ListedOps, AddOwn, FoldLeft, MapThenFoldSet
<1> SUFFICES \E h : /\ IsRun(TableAndOps, DeviceResource, AddOwnLoop, b, s, h)
                    /\ c[DOMAIN s] = h[Len(s)]
  BY Zenon, <1>3
<1> HIDE DEF s, b
<1>4. \E g : eq(g)
  <2>1. PICK g : IsFoldOf(TableAndOps, DeviceResource, AddOwnLoop, b, s, g)
    BY <1>1, FoldTyped
  <2> DEFINE f == [t \in SUBSET DOMAIN s |-> g[t]]
  <2>2. \A t \in SUBSET DOMAIN s : f[t] = V(f, t)
    BY <1>2, <2>1 DEF IsFoldOf
  <2>3. eq(f)
    BY <2>2
  <2> QED
    BY <2>3
<1>5. eq(c)
  BY <1>4
<1> HIDE DEF c
<1>6. Recurses(TableAndOps, DeviceResource, AddOwnLoop, b, s, c)
  BY <1>2, <1>5 DEF Recurses
<1> QED
  BY <1>1, <1>6, FoldRun

-----------------------------------------------------------------------------
(* The loop that describes the operations.                                  *)

Progress == [stored: SUBSET Word, own: Seq(Word), panic: BOOLEAN]

\* What one operation does to it.
DescribeOne(p, failing, landed, a, op) ==
    LET w == op.parameter
        keep == [a EXCEPT !.own = Append(@, w)]
    IN  IF a.panic THEN a
        ELSE IF w \in a.stored THEN keep
        ELSE IF w \notin p.used THEN a
        ELSE IF ~HasObject(p, op) THEN [a EXCEPT !.panic = TRUE]
        ELSE IF w \in failing
             THEN [a EXCEPT !.panic = TRUE, !.stored = @ \cup {x \in {w} : landed}]
        ELSE [keep EXCEPT !.stored = @ \cup {w}]

LEMMA DescribeOneTyped ==
    ASSUME NEW p, NEW failing, NEW landed, NEW a \in Progress, NEW op \in Operation
    PROVE  DescribeOne(p, failing, landed, a, op) \in Progress
<1>1. op.parameter \in Word
  BY DEF Operation
<1>2. Append(a.own, op.parameter) \in Seq(Word)
  BY <1>1 DEF Progress
<1> QED
  BY <1>1, <1>2 DEF DescribeOne, Progress

DescribeLoop(p, failing, landed) ==
    [x \in Progress \X Operation |-> DescribeOne(p, failing, landed, x[1], x[2])]

LEMMA DescribeRun ==
    ASSUME NEW p, OpList(p) \in Operations, NEW failing, NEW landed,
           NEW stored \in SUBSET Word, NEW own \in Seq(Word)
    PROVE  \E h : /\ IsRun(Progress, Operation, DescribeLoop(p, failing, landed),
                           [stored |-> stored, own |-> own, panic |-> FALSE],
                           OpList(p), h)
                  /\ Describe(p, stored, own, failing, landed) = h[Len(OpList(p))]
<1> DEFINE s == OpList(p)
           b == [stored |-> stored, own |-> own, panic |-> FALSE]
           L == DescribeLoop(p, failing, landed)
           V(g, t) == IF t = {} THEN b
                      ELSE DescribeOne(p, failing, landed, g[t \ {Max(t)}], s[Max(t)])
           eq(g) == g = [t \in SUBSET DOMAIN s |-> V(g, t)]
           c == CHOOSE g : eq(g)
<1>1. IsLoop(Progress, Operation, L, b, s)
  <2>1. b \in Progress
    BY DEF Progress
  <2>2. L \in [Progress \X Operation -> Progress]
    BY DescribeOneTyped DEF DescribeLoop
  <2> QED
    BY <2>1, <2>2 DEF IsLoop, Operations
<1>2. \A t \in Progress, r \in Operation : L[<<t, r>>] = DescribeOne(p, failing, landed, t, r)
  BY DEF DescribeLoop
<1>3. Describe(p, stored, own, failing, landed) = c[DOMAIN s]
  BY Zenon DEF Describe, DescribeOne, FoldLeft, MapThenFoldSet
<1> SUFFICES \E h : /\ IsRun(Progress, Operation, L, b, s, h)
                    /\ c[DOMAIN s] = h[Len(s)]
  BY Zenon, <1>3
<1> HIDE DEF s, b, L
<1>4. \E g : eq(g)
  <2>1. PICK g : IsFoldOf(Progress, Operation, L, b, s, g)
    BY <1>1, FoldTyped
  <2> DEFINE f == [t \in SUBSET DOMAIN s |-> g[t]]
  <2>2. \A t \in SUBSET DOMAIN s : f[t] = V(f, t)
    BY <1>2, <2>1 DEF IsFoldOf
  <2>3. eq(f)
    BY <2>2
  <2> QED
    BY <2>3
<1>5. eq(c)
  BY <1>4
<1> HIDE DEF c
<1>6. Recurses(Progress, Operation, L, b, s, c)
  BY <1>2, <1>5 DEF Recurses
<1> QED
  BY <1>1, <1>6, FoldRun

-----------------------------------------------------------------------------
(* What the tables contain.                                                 *)

\* The table of the resources: one entry per lowered name, that of the last
\* resource so named.
LEMMA ResourceTable ==
    ASSUME NEW p \in DeviceProfile
    PROVE  LET s == p.resources
               t == ResourceOps(p)
           IN  /\ t \in Tables
               /\ DOMAIN t = {Lower[s[j].name] : j \in DOMAIN s}
               /\ \A j \in DOMAIN s :
                    (\A i \in DOMAIN s : i > j => Lower[s[i].name] # Lower[s[j].name])
                      => t[Lower[s[j].name]] = [get |-> s[j].get, set |-> s[j].set]
               /\ \A w \in DOMAIN t : \E j \in DOMAIN s :
                    t[w] = [get |-> s[j].get, set |-> s[j].set]
<1> DEFINE s == p.resources
           n == Len(s)
           key(j) == Lower[s[j].name]
           entry(j) == [get |-> s[j].get, set |-> s[j].set]
<1>1. /\ n \in Nat /\ DOMAIN s = 1 .. n /\ \A j \in 1 .. n : s[j] \in Resource
  BY DEF DeviceProfile
<1>2. PICK h : /\ IsRun(Tables, Resource, ResourceLoop, <<>>, s, h)
               /\ ResourceOps(p) = h[n]
  BY ResourceOpsRun
<1>3. /\ \A k \in 0 .. n : h[k] \in Tables
      /\ h[0] = <<>>
      /\ \A k \in 0 .. n - 1 : k \in 0 .. n /\ k + 1 \in 1 .. n
      /\ \A k \in 0 .. n - 1 : h[k + 1] = Put(h[k], key(k + 1), entry(k + 1))
  <2>1. \A k \in 0 .. n - 1 : k \in 0 .. n /\ k + 1 \in 1 .. n
    BY <1>1
  <2> QED
    BY <1>1, <1>2, <2>1 DEF IsRun, ResourceLoop, PutResource
<1>4. ASSUME NEW j \in 1 .. n PROVE key(j) \in Word /\ entry(j) \in OpsEntries
  <2>1. PICK r \in Resource : r = s[j]
    BY <1>1
  <2>2. Lower[r.name] \in Word /\ [get |-> r.get, set |-> r.set] \in OpsEntries
    BY EmptyTable, PutResourceTyped
  <2> QED
    BY <2>1, <2>2
<1> HIDE DEF key, entry, n
<1> DEFINE P(k) == /\ DOMAIN h[k] = {key(j) : j \in 1 .. k}
                   /\ \A j \in 1 .. k : (\A i \in 1 .. k : i > j => key(i) # key(j))
                        => h[k][key(j)] = entry(j)
                   /\ \A w \in DOMAIN h[k] : \E j \in 1 .. k : h[k][w] = entry(j)
           S == {k \in 0 .. n : P(k)}
<1>5. P(0)
  <2>1. 1 .. 0 = {} /\ DOMAIN <<>> = {}
    BY EmptyTable
  <2> QED
    BY <1>3, <2>1
<1>6. ASSUME NEW k \in 0 .. n - 1, P(k) PROVE P(k + 1)
  <2>1. /\ h[k] \in Tables /\ key(k + 1) \in Word /\ entry(k + 1) \in OpsEntries
        /\ h[k + 1] = Put(h[k], key(k + 1), entry(k + 1))
    BY <1>3, <1>4
  <2>2. /\ DOMAIN h[k + 1] = {key(k + 1)} \cup DOMAIN h[k]
        /\ h[k + 1][key(k + 1)] = entry(k + 1)
        /\ \A v \in DOMAIN h[k] \ {key(k + 1)} : h[k + 1][v] = h[k][v]
    BY <2>1 DEF Put
  <2>3. \A j : j \in 1 .. k + 1 <=> j \in 1 .. k \/ j = k + 1
    BY <1>1
  <2>4. \A j \in 1 .. k : k + 1 > j
    BY <1>1
  <2>5. DOMAIN h[k + 1] = {key(j) : j \in 1 .. k + 1}
    BY <1>6, <2>2, <2>3
  <2>6. ASSUME NEW j \in 1 .. k + 1, \A i \in 1 .. k + 1 : i > j => key(i) # key(j)
        PROVE  h[k + 1][key(j)] = entry(j)
    <3>1. CASE j = k + 1
      BY <2>2, <3>1
    <3>2. CASE j # k + 1
      <4>1. j \in 1 .. k /\ key(j) # key(k + 1)
        BY <2>3, <2>4, <2>6, <3>2
      <4>2. h[k][key(j)] = entry(j) /\ key(j) \in DOMAIN h[k]
        BY <1>6, <2>3, <2>6, <4>1
      <4> QED
        BY <2>2, <4>1, <4>2
    <3> QED
      BY <3>1, <3>2
  <2>7. \A w \in DOMAIN h[k + 1] : \E j \in 1 .. k + 1 : h[k + 1][w] = entry(j)
    BY <1>6, <2>2, <2>3
  <2> QED
    BY <2>5, <2>6, <2>7
<1>7. P(n)
  <2> HIDE DEF P
  <2>1. 0 \in S /\ \A k \in 0 .. n - 1 : k \in S => k + 1 \in S
    BY <1>1, <1>5, <1>6
  <2>2. n \in 0 .. n
    BY <1>1
  <2>3. \A k \in 0 .. n : k \in S
    <3> HIDE DEF S
    <3> QED
      BY <1>1, <2>1, LoopInduction
  <2> QED
    BY <2>2, <2>3
<1>8. h[n] \in Tables
  BY <1>1, <1>3
<1>9. /\ DOMAIN ResourceOps(p) = {key(j) : j \in DOMAIN s}
      /\ \A j \in DOMAIN s : (\A i \in DOMAIN s : i > j => key(i) # key(j))
           => ResourceOps(p)[key(j)] = entry(j)
      /\ \A w \in DOMAIN ResourceOps(p) : \E j \in DOMAIN s :
           ResourceOps(p)[w] = entry(j)
  BY <1>1, <1>2, <1>7
<1>10. ResourceOps(p) \in Tables
  BY <1>2, <1>8
<1> QED
  BY Zenon, <1>9, <1>10 DEF key, entry

\* The table of a profile: the entries of the resources, and for every other
\* lowered name the operations made up for the first device resource so named.
LEMMA DeviceTable ==
    ASSUME NEW p \in DeviceProfile
    PROVE  LET s == p.deviceResources
               r == ResourceOps(p)
               t == DevOps(p)
           IN  /\ t \in Tables
               /\ DOMAIN t = DOMAIN r \cup {Lower[s[j].name] : j \in DOMAIN s}
               /\ \A w \in DOMAIN r : t[w] = r[w]
               /\ \A j \in DOMAIN s :
                    /\ Lower[s[j].name] \notin DOMAIN r
                    /\ \A i \in DOMAIN s : i < j => Lower[s[i].name] # Lower[s[j].name]
                    => t[Lower[s[j].name]] = OwnOps(s[j])
               /\ \A w \in DOMAIN t :
                    w \in DOMAIN r \/ \E j \in DOMAIN s : t[w] = OwnOps(s[j])
<1> DEFINE s == p.deviceResources
           r == ResourceOps(p)
           n == Len(s)
           key(j) == Lower[s[j].name]
           own(j) == OwnOps(s[j])
<1>1. /\ n \in Nat /\ DOMAIN s = 1 .. n /\ \A j \in 1 .. n : s[j] \in DeviceResource
  BY DEF DeviceProfile
<1>2. PICK h : /\ IsRun(Tables, DeviceResource, OwnLoop, r, s, h)
               /\ DevOps(p) = h[n]
  BY ResourceTable, DevOpsRun
<1>3. /\ \A k \in 0 .. n : h[k] \in Tables
      /\ h[0] = r
      /\ \A k \in 0 .. n - 1 : h[k + 1] =
           IF key(k + 1) \in DOMAIN h[k] THEN h[k] ELSE Put(h[k], key(k + 1), own(k + 1))
  <2>1. \A k \in 0 .. n - 1 : k \in 0 .. n /\ k + 1 \in 1 .. n
    BY <1>1
  <2> QED
    BY <1>1, <1>2, <2>1 DEF IsRun, OwnLoop, WithOwn
<1> HIDE DEF key, own, n, r
<1> DEFINE P(k) == /\ DOMAIN h[k] = DOMAIN r \cup {key(j) : j \in 1 .. k}
                   /\ \A w \in DOMAIN r : h[k][w] = r[w]
                   /\ \A j \in 1 .. k :
                        key(j) \notin DOMAIN r /\ (\A i \in 1 .. k : i < j => key(i) # key(j))
                          => h[k][key(j)] = own(j)
                   /\ \A w \in DOMAIN h[k] :
                        w \in DOMAIN r \/ \E j \in 1 .. k : h[k][w] = own(j)
           S == {k \in 0 .. n : P(k)}
<1>4. P(0)
  <2>1. 1 .. 0 = {}
    OBVIOUS
  <2> QED
    BY <1>3, <2>1
<1>5. ASSUME NEW k \in 0 .. n - 1, P(k) PROVE P(k + 1)
  <2>1. \A j : j \in 1 .. k + 1 <=> j \in 1 .. k \/ j = k + 1
    BY <1>1
  <2>2. \A j \in 1 .. k : j < k + 1 /\ ~(k + 1 < j)
    BY <1>1
  <2>3. CASE key(k + 1) \in DOMAIN h[k]
    <3>1. h[k + 1] = h[k]
      BY <1>3, <2>3
    <3>2. DOMAIN h[k + 1] = DOMAIN r \cup {key(j) : j \in 1 .. k + 1}
      BY <1>5, <2>1, <2>3, <3>1
    <3>3. key(k + 1) \notin DOMAIN r => \E i \in 1 .. k : key(i) = key(k + 1)
      BY <1>5, <2>3
    <3>4. ASSUME NEW j \in 1 .. k + 1, key(j) \notin DOMAIN r,
                 \A i \in 1 .. k + 1 : i < j => key(i) # key(j)
          PROVE  h[k + 1][key(j)] = own(j)
      <4>1. j \in 1 .. k
        BY <2>1, <2>2, <3>3, <3>4
      <4> QED
        BY <1>5, <2>1, <3>1, <3>4, <4>1
    <3>5. \A w \in DOMAIN h[k + 1] :
            w \in DOMAIN r \/ \E j \in 1 .. k + 1 : h[k + 1][w] = own(j)
      BY <1>5, <2>1, <3>1
    <3> QED
      BY <1>5, <3>1, <3>2, <3>4, <3>5
  <2>4. CASE key(k + 1) \notin DOMAIN h[k]
    <3>1. h[k + 1] = Put(h[k], key(k + 1), own(k + 1))
      BY <1>3, <2>4
    <3>2. /\ DOMAIN h[k + 1] = {key(k + 1)} \cup DOMAIN h[k]
          /\ h[k + 1][key(k + 1)] = own(k + 1)
          /\ \A v \in DOMAIN h[k] : h[k + 1][v] = h[k][v]
      BY <2>4, <3>1 DEF Put
    <3>3. DOMAIN h[k + 1] = DOMAIN r \cup {key(j) : j \in 1 .. k + 1}
      BY <1>5, <2>1, <3>2
    <3>4. \A w \in DOMAIN r : h[k + 1][w] = r[w]
      BY <1>5, <3>2
    <3>5. ASSUME NEW j \in 1 .. k + 1, key(j) \notin DOMAIN r,
                 \A i \in 1 .. k + 1 : i < j => key(i) # key(j)
          PROVE  h[k + 1][key(j)] = own(j)
      <4>1. CASE j \in 1 .. k
        <5>1. key(j) \in DOMAIN h[k] /\ h[k][key(j)] = own(j)
          BY <1>5, <2>1, <3>5, <4>1
        <5> QED
          BY <3>2, <5>1
      <4>2. CASE j = k + 1
        BY <3>2, <4>2
      <4> QED
        BY <2>1, <4>1, <4>2
    <3>6. \A w \in DOMAIN h[k + 1] :
            w \in DOMAIN r \/ \E j \in 1 .. k + 1 : h[k + 1][w] = own(j)
      BY <1>5, <2>1, <3>2
    <3> QED
      BY <3>3, <3>4, <3>5, <3>6
  <2> QED
    BY <2>3, <2>4
<1>6. P(n)
  <2> HIDE DEF P
  <2>1. 0 \in S /\ \A k \in 0 .. n - 1 : k \in S => k + 1 \in S
    BY <1>1, <1>4, <1>5
  <2>2. n \in 0 .. n
    BY <1>1
  <2>3. \A k \in 0 .. n : k \in S
    <3> HIDE DEF S
    <3> QED
      BY <1>1, <2>1, LoopInduction
  <2> QED
    BY <2>2, <2>3
<1>7. h[n] \in Tables
  BY <1>1, <1>3
<1>8. /\ DOMAIN DevOps(p) = DOMAIN r \cup {key(j) : j \in DOMAIN s}
      /\ \A w \in DOMAIN r : DevOps(p)[w] = r[w]
      /\ \A j \in DOMAIN s :
           key(j) \notin DOMAIN r /\ (\A i \in DOMAIN s : i < j => key(i) # key(j))
             => DevOps(p)[key(j)] = own(j)
      /\ \A w \in DOMAIN DevOps(p) :
           w \in DOMAIN r \/ \E j \in DOMAIN s : DevOps(p)[w] = own(j)
  BY <1>1, <1>2, <1>6
<1>9. DevOps(p) \in Tables
  BY <1>2, <1>7
<1> QED
  BY Zenon, <1>8, <1>9 DEF key, own, r

\* The objects of a profile: every device resource, under its own name.
LEMMA ObjectTable ==
    ASSUME NEW p \in DeviceProfile
    PROVE  LET s == p.deviceResources
           IN  /\ DOMAIN DevObjs(p) = {s[j].name : j \in DOMAIN s}
               /\ \A o \in DOMAIN DevObjs(p) : DevObjs(p)[o] = o
<1> DEFINE s == p.deviceResources
           n == Len(s)
           name(j) == s[j].name
<1>1. /\ n \in Nat /\ DOMAIN s = 1 .. n /\ \A j \in 1 .. n : s[j] \in DeviceResource
  BY DEF DeviceProfile
<1>2. PICK h : /\ IsRun(Objects, DeviceResource, ObjectLoop, <<>>, s, h)
               /\ DevObjs(p) = h[n]
  BY DevObjsRun
<1>3. /\ h[0] = <<>>
      /\ \A k \in 0 .. n - 1 : h[k + 1] = Put(h[k], name(k + 1), name(k + 1))
  <2>1. \A k \in 0 .. n - 1 : k \in 0 .. n /\ k + 1 \in 1 .. n
    BY <1>1
  <2> QED
    BY <1>1, <1>2, <2>1 DEF IsRun, ObjectLoop
<1> HIDE DEF name, n
<1> DEFINE P(k) == /\ DOMAIN h[k] = {name(j) : j \in 1 .. k}
                   /\ \A o \in DOMAIN h[k] : h[k][o] = o
           S == {k \in 0 .. n : P(k)}
<1>4. P(0)
  <2>1. 1 .. 0 = {} /\ DOMAIN <<>> = {}
    BY EmptyTable
  <2> QED
    BY <1>3, <2>1
<1>5. ASSUME NEW k \in 0 .. n - 1, P(k) PROVE P(k + 1)
  <2>1. \A j : j \in 1 .. k + 1 <=> j \in 1 .. k \/ j = k + 1
    BY <1>1
  <2>2. /\ DOMAIN h[k + 1] = DOMAIN h[k] \cup {name(k + 1)}
        /\ \A v \in DOMAIN h[k + 1] :
             h[k + 1][v] = IF v = name(k + 1) THEN name(k + 1) ELSE h[k][v]
    BY <1>3 DEF Put
  <2>3. DOMAIN h[k + 1] = {name(j) : j \in 1 .. k + 1}
    BY <1>5, <2>1, <2>2
  <2>4. \A o \in DOMAIN h[k + 1] : h[k + 1][o] = o
    BY <1>5, <2>2
  <2> QED
    BY <2>3, <2>4
<1>6. P(n)
  <2> HIDE DEF P
  <2>1. 0 \in S /\ \A k \in 0 .. n - 1 : k \in S => k + 1 \in S
    BY <1>1, <1>4, <1>5
  <2>2. n \in 0 .. n
    BY <1>1
  <2>3. \A k \in 0 .. n : k \in S
    <3> HIDE DEF S
    <3> QED
      BY <1>1, <2>1, LoopInduction
  <2> QED
    BY <2>2, <2>3
<1>7. /\ DOMAIN DevObjs(p) = {name(j) : j \in DOMAIN s}
      /\ \A o \in DOMAIN DevObjs(p) : DevObjs(p)[o] = o
  BY <1>1, <1>2, <1>6
<1> QED
  BY Zenon, <1>7 DEF name

-----------------------------------------------------------------------------
(* What the list of operations covers.                                      *)

LEMMA RangeOfConcat ==
    ASSUME NEW T, NEW a \in Seq(T), NEW b \in Seq(T)
    PROVE  Range(a \o b) = Range(a) \cup Range(b)
<1>1. /\ Len(a) \in Nat /\ Len(b) \in Nat /\ DOMAIN a = 1 .. Len(a)
      /\ DOMAIN b = 1 .. Len(b) /\ DOMAIN (a \o b) = 1 .. Len(a) + Len(b)
  OBVIOUS
<1>2. \A x \in Range(a \o b) : x \in Range(a) \cup Range(b)
  BY <1>1 DEF Range
<1>3. \A x \in Range(a) : x \in Range(a \o b)
  <2> SUFFICES ASSUME NEW k \in 1 .. Len(a) PROVE a[k] \in Range(a \o b)
    BY <1>1 DEF Range
  <2>1. k \in 1 .. Len(a) + Len(b) /\ (a \o b)[k] = a[k]
    BY <1>1
  <2> QED
    BY <1>1, <2>1 DEF Range
<1>4. \A x \in Range(b) : x \in Range(a \o b)
  <2> SUFFICES ASSUME NEW k \in 1 .. Len(b) PROVE b[k] \in Range(a \o b)
    BY <1>1 DEF Range
  <2>1. Len(a) + k \in 1 .. Len(a) + Len(b) /\ (a \o b)[Len(a) + k] = b[k]
    BY <1>1
  <2> QED
    BY <1>1, <2>1 DEF Range
<1> QED
  BY <1>2, <1>3, <1>4

\* An operation that some resource lists.
OfResource(p, o) == \E j \in DOMAIN p.resources :
    o \in Range(p.resources[j].get) \cup Range(p.resources[j].set)

LEMMA ListedRange ==
    ASSUME NEW p \in DeviceProfile
    PROVE  /\ ListedOps(p) \in Operations
           /\ \A o : o \in Range(ListedOps(p)) <=> OfResource(p, o)
<1> DEFINE s == p.resources
           n == Len(s)
           of(o, j) == o \in Range(s[j].get) \cup Range(s[j].set)
<1>1. /\ n \in Nat /\ DOMAIN s = 1 .. n /\ \A j \in 1 .. n : s[j] \in Resource
  BY DEF DeviceProfile
<1>2. PICK h : /\ IsRun(Operations, Resource, ListLoop, <<>>, s, h)
               /\ ListedOps(p) = h[n]
  BY ListedRun
<1>3. /\ \A k \in 0 .. n : h[k] \in Operations
      /\ h[0] = <<>>
      /\ \A k \in 0 .. n - 1 : \A o :
           o \in Range(h[k + 1]) <=> o \in Range(h[k]) \/ of(o, k + 1)
  <2>1. /\ \A k \in 0 .. n : h[k] \in Operations
        /\ h[0] = <<>>
    BY <1>1, <1>2 DEF IsRun
  <2>2. ASSUME NEW k \in 0 .. n - 1
        PROVE  \A o : o \in Range(h[k + 1]) <=> o \in Range(h[k]) \/ of(o, k + 1)
    <3>1. k \in 0 .. n /\ k + 1 \in 1 .. n
      BY <1>1
    <3>2. PICK r \in Resource : r = s[k + 1]
      BY <1>1, <3>1
    <3>3. h[k + 1] = h[k] \o r.get \o r.set
      BY <1>2, <2>1, <3>1, <3>2 DEF IsRun, ListLoop
    <3>4. /\ h[k] \in Seq(Operation) /\ r.get \in Seq(Operation)
          /\ r.set \in Seq(Operation) /\ h[k] \o r.get \in Seq(Operation)
      BY <2>1, <3>1 DEF Operations, Resource
    <3>5. Range(h[k] \o r.get) = Range(h[k]) \cup Range(r.get)
      BY <3>4, RangeOfConcat
    <3>6. Range((h[k] \o r.get) \o r.set) = Range(h[k] \o r.get) \cup Range(r.set)
      BY ZenonT(60), <3>4, RangeOfConcat
    <3> QED
      BY <3>2, <3>3, <3>5, <3>6
  <2> QED
    BY <2>1, <2>2
<1> HIDE DEF of, n
<1> DEFINE P(k) == \A o : o \in Range(h[k]) <=> \E j \in 1 .. k : of(o, j)
           S == {k \in 0 .. n : P(k)}
<1>4. P(0)
  <2>1. 1 .. 0 = {} /\ DOMAIN <<>> = {}
    BY EmptyTable
  <2> QED
    BY <1>3, <2>1 DEF Range
<1>5. ASSUME NEW k \in 0 .. n - 1, P(k) PROVE P(k + 1)
  <2>1. \A j : j \in 1 .. k + 1 <=> j \in 1 .. k \/ j = k + 1
    BY <1>1
  <2> QED
    BY <1>3, <1>5, <2>1
<1>6. P(n)
  <2> HIDE DEF P
  <2>1. 0 \in S /\ \A k \in 0 .. n - 1 : k \in S => k + 1 \in S
    BY <1>1, <1>4, <1>5
  <2>2. n \in 0 .. n
    BY <1>1
  <2>3. \A k \in 0 .. n : k \in S
    <3> HIDE DEF S
    <3> QED
      BY <1>1, <2>1, LoopInduction
  <2> QED
    BY <2>2, <2>3
<1>7. ListedOps(p) \in Operations
  BY <1>1, <1>2, <1>3
<1>8. \A o : o \in Range(ListedOps(p)) <=> \E j \in DOMAIN s : of(o, j)
  BY <1>1, <1>2, <1>6
<1> QED
  BY <1>7, <1>8 DEF OfResource, of

\* The list has every operation of the table, and no operations but those of
\* the resources and those made up for device resources.
Covers(p, t, ops) ==
    /\ \A w \in DOMAIN t : \A m \in DOMAIN t[w] : Range(t[w][m]) \subseteq Range(ops)
    /\ \A o \in Range(ops) :
         OfResource(p, o) \/ \E j \in DOMAIN p.deviceResources :
                               o.object = p.deviceResources[j].name

LEMMA AddOwnCovers ==
    ASSUME NEW p \in DeviceProfile, NEW a \in TableAndOps, Covers(p, a.table, a.ops),
           NEW j \in DOMAIN p.deviceResources
    PROVE  LET b == AddOwn(a, p.deviceResources[j]) IN Covers(p, b.table, b.ops)
<1> DEFINE s == p.deviceResources
<1>1. PICK dr \in DeviceResource : dr = s[j]
  BY DEF DeviceProfile
<1>2. CASE Lower[dr.name] \in DOMAIN a.table
  <2>1. AddOwn(a, dr) = [table |-> a.table, ops |-> a.ops]
    BY <1>2 DEF AddOwn, WithOwn
  <2> QED
    BY <1>1, <2>1
<1>3. CASE Lower[dr.name] \notin DOMAIN a.table
  <2> DEFINE own == OwnOps(dr)
             G == OpsOf(own, "get")
             W == OpsOf(own, "set")
             t == Put(a.table, Lower[dr.name], own)
             l == a.ops \o G \o W
  <2>1. AddOwn(a, dr) = [table |-> t, ops |-> l]
    BY <1>3 DEF AddOwn, WithOwn
  <2>2. /\ own \in OpsEntries
        /\ \A m \in DOMAIN own :
             own[m] = <<[object |-> dr.name, parameter |-> dr.name]>>
    BY OwnOpsTyped
  <2>3. PICK M \in SUBSET {"get", "set"} : own \in [M -> Seq(Operation)]
    BY <2>2 DEF OpsEntries
  <2>4. G \in Seq(Operation) /\ W \in Seq(Operation) /\ a.ops \in Seq(Operation)
    BY <2>3 DEF OpsOf, TableAndOps, Operations
  <2>5. Range(l) = Range(a.ops) \cup Range(G) \cup Range(W)
    <3> DEFINE x == a.ops \o G
    <3> HIDE DEF own, t, G, W
    <3>1. Range(x) = Range(a.ops) \cup Range(G) /\ x \in Seq(Operation)
      BY <2>4, RangeOfConcat
    <3>2. l = x \o W
      OBVIOUS
    <3> HIDE DEF x, l
    <3>3. Range(x \o W) = Range(x) \cup Range(W)
      BY <2>4, <3>1, RangeOfConcat
    <3> QED
      BY <3>1, <3>2, <3>3
  <2>6. \A m \in DOMAIN own : Range(own[m]) \subseteq Range(G) \cup Range(W)
    BY <2>3 DEF OpsOf
  <2>7. \A o \in Range(G) \cup Range(W) : o.object = dr.name
    <3>1. Range(<<>>) = {}
      BY EmptyTable DEF Range
    <3>2. \A m \in DOMAIN own : \A o \in Range(own[m]) : o.object = dr.name
      BY <2>2 DEF Range
    <3>3. \A m : \/ OpsOf(own, m) = <<>>
                 \/ m \in DOMAIN own /\ OpsOf(own, m) = own[m]
      BY DEF OpsOf
    <3> QED
      BY <3>1, <3>2, <3>3
  <2>8. /\ DOMAIN t = DOMAIN a.table \cup {Lower[dr.name]}
        /\ t[Lower[dr.name]] = own
        /\ \A w \in DOMAIN a.table : t[w] = a.table[w]
    BY <1>3 DEF Put
  <2> HIDE DEF own, t, l, G, W
  <2>9. \A w \in DOMAIN t : \A m \in DOMAIN t[w] : Range(t[w][m]) \subseteq Range(l)
    BY <2>5, <2>6, <2>8 DEF Covers
  <2>10. \A o \in Range(l) : OfResource(p, o) \/ \E i \in DOMAIN s : o.object = s[i].name
    BY <1>1, <2>5, <2>7 DEF Covers
  <2>11. Covers(p, t, l)
    BY <2>9, <2>10 DEF Covers
  <2> QED
    BY <1>1, <2>1, <2>11
<1> QED
  BY <1>2, <1>3

LEMMA ResourcesCovered ==
    ASSUME NEW p \in DeviceProfile
    PROVE  Covers(p, ResourceOps(p), ListedOps(p))
<1> DEFINE s == p.resources
           t == ResourceOps(p)
<1>1. \A w \in DOMAIN t : \E j \in DOMAIN s :
        t[w] = [get |-> s[j].get, set |-> s[j].set]
  BY Zenon, ResourceTable
<1>2. \A o : o \in Range(ListedOps(p)) <=> OfResource(p, o)
  BY ListedRange
<1> HIDE DEF t
<1>3. ASSUME NEW w \in DOMAIN t, NEW m \in DOMAIN t[w], NEW o \in Range(t[w][m])
      PROVE  o \in Range(ListedOps(p))
  <2>1. PICK j \in DOMAIN s : t[w] = [get |-> s[j].get, set |-> s[j].set]
    BY <1>1
  <2>2. t[w][m] \in {s[j].get, s[j].set}
    BY <2>1
  <2>3. OfResource(p, o)
    BY <1>3, <2>2 DEF OfResource
  <2> QED
    BY <1>2, <2>3
<1> QED
  BY <1>2, <1>3 DEF Covers, t

LEMMA OpListCovers ==
    ASSUME NEW p \in DeviceProfile
    PROVE  OpList(p) \in Operations /\ Covers(p, DevOps(p), OpList(p))
<1> DEFINE s == p.deviceResources
           n == Len(s)
<1>1. /\ n \in Nat /\ DOMAIN s = 1 .. n /\ \A j \in 1 .. n : s[j] \in DeviceResource
  BY DEF DeviceProfile
<1>2. ResourceOps(p) \in Tables /\ ListedOps(p) \in Operations
  BY Zenon, ResourceTable, ListedRange
<1>3. PICK h : /\ IsRun(TableAndOps, DeviceResource, AddOwnLoop,
                        [table |-> ResourceOps(p), ops |-> ListedOps(p)], s, h)
               /\ OpList(p) = h[n].ops
  BY <1>2, OpListRun
<1>4. PICK g : /\ IsRun(Tables, DeviceResource, OwnLoop, ResourceOps(p), s, g)
               /\ DevOps(p) = g[n]
  BY <1>2, DevOpsRun
<1> HIDE DEF n
<1>5. /\ \A k \in 0 .. n : h[k] \in TableAndOps
      /\ h[0] = [table |-> ResourceOps(p), ops |-> ListedOps(p)]
      /\ \A k \in 0 .. n - 1 : h[k + 1] = AddOwn(h[k], s[k + 1])
      /\ g[0] = ResourceOps(p)
      /\ \A k \in 0 .. n - 1 : g[k + 1] = WithOwn(g[k], s[k + 1])
  <2>1. \A k \in 0 .. n - 1 : k \in 0 .. n
    BY <1>1
  <2> QED
    BY <1>3, <1>4, <2>1 DEF IsRun, AddOwnLoop, OwnLoop, n
<1> DEFINE P(k) == h[k].table = g[k] /\ Covers(p, h[k].table, h[k].ops)
           S == {k \in 0 .. n : P(k)}
<1>6. P(0)
  BY <1>5, ResourcesCovered
<1>7. ASSUME NEW k \in 0 .. n - 1, P(k) PROVE P(k + 1)
  <2>1. k \in 0 .. n /\ k + 1 \in DOMAIN s
    BY <1>1
  <2>2. h[k + 1].table = WithOwn(h[k].table, s[k + 1])
    <3>1. \A a, dr : AddOwn(a, dr).table = WithOwn(a.table, dr)
      BY DEF AddOwn
    <3>2. h[k + 1] = AddOwn(h[k], s[k + 1])
      BY <1>5
    <3> QED
      BY <3>1, <3>2
  <2>3. h[k + 1].table = g[k + 1]
    BY <1>5, <1>7, <2>2
  <2>4. Covers(p, AddOwn(h[k], s[k + 1]).table, AddOwn(h[k], s[k + 1]).ops)
    <3>1. h[k] \in TableAndOps /\ Covers(p, h[k].table, h[k].ops)
      BY <1>5, <1>7, <2>1
    <3>2. \A a \in TableAndOps : Covers(p, a.table, a.ops) =>
            \A j \in DOMAIN s : Covers(p, AddOwn(a, s[j]).table, AddOwn(a, s[j]).ops)
      BY Zenon, AddOwnCovers
    <3> QED
      BY Zenon, <2>1, <3>1, <3>2
  <2> QED
    BY <1>5, <2>3, <2>4
<1>8. P(n)
  <2> HIDE DEF P
  <2>1. 0 \in S /\ \A k \in 0 .. n - 1 : k \in S => k + 1 \in S
    BY <1>1, <1>6, <1>7
  <2>2. n \in 0 .. n
    BY <1>1
  <2>3. \A k \in 0 .. n : k \in S
    <3> HIDE DEF S
    <3> QED
      BY <1>1, <2>1, LoopInduction
  <2> QED
    BY <2>2, <2>3
<1>9. h[n].ops \in Operations
  BY <1>1, <1>5 DEF TableAndOps
<1> QED
  BY <1>3, <1>4, <1>8, <1>9 DEF n

-----------------------------------------------------------------------------
(* What the descriptors cover.                                              *)

\* How describing one operation moves the progress from a to b.
Advances(p, failing, a, op, b) ==
    /\ Range(a.own) \subseteq Range(b.own)
    /\ a.panic => b.panic
    /\ ~b.panic /\ op.parameter \in p.used => op.parameter \in Range(b.own)
    /\ b.panic => a.panic \/ ~HasObject(p, op) \/ op.parameter \in failing

LEMMA DescribeOneAdvances ==
    ASSUME NEW p, NEW failing, NEW landed, NEW a \in Progress, NEW op \in Operation
    PROVE  Advances(p, failing, a, op, DescribeOne(p, failing, landed, a, op))
<1> DEFINE w == op.parameter
           x == Append(a.own, w)
           b == DescribeOne(p, failing, landed, a, op)
<1>1. w \in Word /\ a.own \in Seq(Word) /\ a.panic \in BOOLEAN
  BY DEF Operation, Progress
<1>2. Range(x) = Range(a.own) \cup {w}
  <2>1. /\ Len(a.own) \in Nat /\ DOMAIN a.own = 1 .. Len(a.own)
        /\ DOMAIN x = 1 .. Len(a.own) + 1 /\ x[Len(a.own) + 1] = w
        /\ \A k \in 1 .. Len(a.own) : x[k] = a.own[k]
    BY <1>1
  <2>2. \A k : k \in 1 .. Len(a.own) + 1 <=> k \in 1 .. Len(a.own) \/ k = Len(a.own) + 1
    BY <2>1
  <2> HIDE DEF x, w
  <2> QED
    BY <2>1, <2>2 DEF Range
<1> HIDE DEF x
<1>3. \/ a.panic /\ b = a
      \/ ~a.panic /\ w \in a.stored /\ b = [a EXCEPT !.own = x]
      \/ ~a.panic /\ w \notin p.used /\ b = a
      \/ /\ ~a.panic /\ (~HasObject(p, op) \/ w \in failing)
         /\ \/ b = [a EXCEPT !.panic = TRUE]
            \/ \E z : b = [a EXCEPT !.panic = TRUE, !.stored = z]
      \/ ~a.panic /\ \E z : b = [a EXCEPT !.own = x, !.stored = z]
  <2>1. ASSUME ~a.panic, HasObject(p, op), w \in failing, w \notin a.stored,
               w \in p.used
        PROVE  \E z : b = [a EXCEPT !.panic = TRUE, !.stored = z]
    <3> WITNESS a.stored \cup {y \in {w} : landed}
    <3> QED
      BY <2>1 DEF DescribeOne
  <2>2. ASSUME ~(/\ ~a.panic /\ HasObject(p, op) /\ w \in failing
                 /\ w \notin a.stored /\ w \in p.used)
        PROVE  \/ a.panic /\ b = a
               \/ ~a.panic /\ w \in a.stored /\ b = [a EXCEPT !.own = x]
               \/ ~a.panic /\ w \notin p.used /\ b = a
               \/ ~a.panic /\ ~HasObject(p, op) /\ b = [a EXCEPT !.panic = TRUE]
               \/ ~a.panic /\ \E z : b = [a EXCEPT !.own = x, !.stored = z]
    BY <2>2 DEF DescribeOne, x
  <2> HIDE DEF b, w
  <2> QED
    BY <2>1, <2>2
<1>4. /\ [a EXCEPT !.own = x].own = x /\ [a EXCEPT !.own = x].panic = a.panic
      /\ \A z : /\ [a EXCEPT !.own = x, !.stored = z].own = x
                /\ [a EXCEPT !.own = x, !.stored = z].panic = a.panic
      /\ [a EXCEPT !.panic = TRUE].own = a.own
      /\ [a EXCEPT !.panic = TRUE].panic
  BY DEF Progress
<1> HIDE DEF b
<1>5. Advances(p, failing, a, op, b)
  <2>1. \/ b = a /\ (a.panic \/ w \notin p.used)
        \/ b.own = x /\ b.panic = a.panic
        \/ b.own = a.own /\ b.panic /\ (~HasObject(p, op) \/ w \in failing)
    <3>1. ASSUME NEW z, b = [a EXCEPT !.panic = TRUE, !.stored = z],
                 ~HasObject(p, op) \/ w \in failing
          PROVE  b.own = a.own /\ b.panic
      <4>1. /\ [a EXCEPT !.panic = TRUE, !.stored = z].own = a.own
            /\ [a EXCEPT !.panic = TRUE, !.stored = z].panic
        BY DEF Progress
      <4> QED
        BY <3>1, <4>1
    <3>2. CASE b = [a EXCEPT !.panic = TRUE] /\ (~HasObject(p, op) \/ w \in failing)
      BY <1>4, <3>2
    <3>3. CASE b = [a EXCEPT !.own = x]
      BY <1>4, <3>3
    <3>4. CASE \E z : b = [a EXCEPT !.own = x, !.stored = z]
      BY <1>4, <3>4
    <3> HIDE DEF w
    <3> QED
      BY Zenon, <1>3, <3>1, <3>2, <3>3, <3>4
  <2> HIDE DEF w
  <2> QED
    BY <1>1, <1>2, <2>1 DEF Advances, w
<1> QED
  BY <1>5 DEF b

\* A call that returns has put the parameter of every operation some command
\* uses on the list; one that panics met an operation without an object, or
\* one whose descriptor could not be created.
LEMMA DescribeCovers ==
    ASSUME NEW p \in DeviceProfile, NEW failing, NEW landed,
           NEW stored \in SUBSET Word, NEW own \in Seq(Word),
           NEW r, r = Describe(p, stored, own, failing, landed)
    PROVE  /\ r \in Progress
           /\ Range(own) \subseteq Range(r.own)
           /\ ~r.panic => \A o \in Range(OpList(p)) :
                            o.parameter \in p.used => o.parameter \in Range(r.own)
           /\ r.panic => \E o \in Range(OpList(p)) :
                           ~HasObject(p, o) \/ o.parameter \in failing
<1> DEFINE s == OpList(p)
           n == Len(s)
           L == DescribeLoop(p, failing, landed)
<1>1. /\ s \in Operations /\ n \in Nat /\ DOMAIN s = 1 .. n
      /\ \A j \in 1 .. n : s[j] \in Operation
  BY OpListCovers DEF Operations
<1>2. PICK h : /\ IsRun(Progress, Operation, L,
                        [stored |-> stored, own |-> own, panic |-> FALSE], s, h)
               /\ r = h[n]
  BY <1>1, DescribeRun
<1> HIDE DEF n, s
<1>3. /\ \A k \in 0 .. n : h[k] \in Progress
      /\ h[0] = [stored |-> stored, own |-> own, panic |-> FALSE]
      /\ \A k \in 0 .. n - 1 : h[k + 1] = DescribeOne(p, failing, landed, h[k], s[k + 1])
      /\ \A k \in 0 .. n - 1 : k \in 0 .. n /\ k + 1 \in 1 .. n
  <2>1. \A k \in 0 .. n - 1 : k \in 0 .. n /\ k + 1 \in 1 .. n
    BY <1>1
  <2> HIDE DEF L
  <2>2. /\ \A k \in 0 .. n : h[k] \in Progress
        /\ h[0] = [stored |-> stored, own |-> own, panic |-> FALSE]
        /\ \A k \in 0 .. n - 1 : h[k + 1] = L[<<h[k], s[k + 1]>>]
    BY <1>2 DEF IsRun, n
  <2>3. \A x \in Progress, o \in Operation : L[<<x, o>>] = DescribeOne(p, failing, landed, x, o)
    BY DEF L, DescribeLoop
  <2> QED
    BY <1>1, <2>1, <2>2, <2>3
<1> DEFINE P(k) ==
      /\ Range(own) \subseteq Range(h[k].own)
      /\ ~h[k].panic => \A j \in 1 .. k :
           s[j].parameter \in p.used => s[j].parameter \in Range(h[k].own)
      /\ h[k].panic => \E j \in 1 .. k :
           ~HasObject(p, s[j]) \/ s[j].parameter \in failing
<1> DEFINE S == {k \in 0 .. n : P(k)}
<1>4. P(0)
  <2>1. 1 .. 0 = {}
    OBVIOUS
  <2> QED
    BY <1>3, <2>1
<1>5. ASSUME NEW k \in 0 .. n - 1, P(k) PROVE P(k + 1)
  <2>1. \A j : j \in 1 .. k + 1 <=> j \in 1 .. k \/ j = k + 1
    BY <1>1
  <2>2. /\ Range(h[k].own) \subseteq Range(h[k + 1].own)
        /\ h[k].panic => h[k + 1].panic
        /\ ~h[k + 1].panic /\ s[k + 1].parameter \in p.used
             => s[k + 1].parameter \in Range(h[k + 1].own)
        /\ h[k + 1].panic =>
             h[k].panic \/ ~HasObject(p, s[k + 1]) \/ s[k + 1].parameter \in failing
    <3>1. h[k] \in Progress /\ s[k + 1] \in Operation
      BY <1>1, <1>3
    <3>2. h[k + 1] = DescribeOne(p, failing, landed, h[k], s[k + 1])
      BY <1>3
    <3>3. Advances(p, failing, h[k], s[k + 1], h[k + 1])
      BY <3>1, <3>2, DescribeOneAdvances
    <3> QED
      BY <3>3 DEF Advances
  <2> QED
    BY <1>5, <2>1, <2>2
<1>6. P(n)
  <2> HIDE DEF P
  <2>1. 0 \in S /\ \A k \in 0 .. n - 1 : k \in S => k + 1 \in S
    BY <1>1, <1>3, <1>4, <1>5
  <2>2. n \in 0 .. n
    BY <1>1
  <2>3. \A k \in 0 .. n : k \in S
    <3> HIDE DEF S
    <3> QED
      BY <1>1, <2>1, LoopInduction
  <2> QED
    BY <2>2, <2>3
<1>7. h[n] \in Progress
  BY <1>1, <1>3
<1>8. Range(s) = {s[j] : j \in 1 .. n}
  BY <1>1 DEF Range
<1> QED
  BY <1>2, <1>6, <1>7, <1>8 DEF s
=============================================================================
