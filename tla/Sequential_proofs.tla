-------------------------- MODULE Sequential_proofs --------------------------
(***************************************************************************)
(* Theorems about the parts that one goroutine runs by itself.             *)
(* ScheduleCache: whatever arrays its slices share with the configuration  *)
(* and with callers, the cache is a list of named entries, and additions   *)
(* show in no slice taken before them.  CommandResults: what a driver puts *)
(* into a result is what its reading says.  DeviceCompare: devices that    *)
(* compare equal agree.  At the end, MCParts: each part of the common      *)
(* instance runs as if it were alone, and keeps the theorems about it.     *)
(***************************************************************************)
EXTENDS MCParts, Profiles_proofs, Registry_proofs

Slot == Entries \cup {NoEntry}
Slice == [array : Nat, len : Nat]

\* A slice of one of the arrays, and the entries it shows.
IsSliceOf(arrs, s) == /\ s \in Slice /\ s.array \in DOMAIN arrs
                      /\ s.len <= Len(arrs[s.array])
ViewOf(arrs, s) == SubSeq(arrs[s.array], 1, s.len)

-----------------------------------------------------------------------------
(* Parts of a list.                                                         *)

IsPart(T, a, m, n, p) ==
    /\ p \in Seq(T) /\ Len(p) = n - m + 1
    /\ \A k \in 1 .. n - m + 1 : p[k] = a[m + k - 1]

LEMMA PartOf ==
    ASSUME NEW T, NEW a \in Seq(T), NEW m \in Nat, NEW n \in Nat,
           1 <= m, m <= n + 1, n <= Len(a)
    PROVE  IsPart(T, a, m, n, SubSeq(a, m, n))
<1>1. \A k \in m .. n : a[k] \in T
  OBVIOUS
<1>2. /\ SubSeq(a, m, n) \in Seq(T)
      /\ Len(SubSeq(a, m, n)) = IF m <= n THEN n - m + 1 ELSE 0
      /\ \A k \in 1 .. n - m + 1 : SubSeq(a, m, n)[k] = a[m + k - 1]
  BY <1>1, SubSeqProperties
<1>3. n - m + 1 = IF m <= n THEN n - m + 1 ELSE 0
  OBVIOUS
<1> QED
  BY <1>2, <1>3 DEF IsPart

\* The entries from i + 1 to n of a list, moved down by one.
IsShift(T, a, i, n, b) ==
    /\ b \in Seq(T) /\ Len(b) = Len(a)
    /\ \A k \in 1 .. Len(a) : b[k] = IF k < i \/ k >= n THEN a[k] ELSE a[k + 1]

\* The same list without the entry at i.
IsWithout(T, a, i, b) ==
    /\ b \in Seq(T) /\ Len(b) = Len(a) - 1
    /\ \A k \in 1 .. Len(a) - 1 : b[k] = IF k < i THEN a[k] ELSE a[k + 1]

LEMMA Shifted ==
    ASSUME NEW T, NEW a \in Seq(T), NEW i \in Nat, NEW n \in Nat,
           1 <= i, i <= n, n <= Len(a)
    PROVE  IsShift(T, a, i, n, SubSeq(a, 1, i - 1) \o SubSeq(a, i + 1, n)
                                 \o SubSeq(a, n, Len(a)))
<1> DEFINE x == SubSeq(a, 1, i - 1)
           y == SubSeq(a, i + 1, n)
           z == SubSeq(a, n, Len(a))
           N == Len(a)
<1>1. N \in Nat /\ i - 1 \in Nat /\ i + 1 \in Nat
  OBVIOUS
<1>2. /\ IsPart(T, a, 1, i - 1, x) /\ IsPart(T, a, i + 1, n, y)
      /\ IsPart(T, a, n, N, z)
  BY <1>1, PartOf
<1> HIDE DEF x, y, z
<1>3. /\ x \in Seq(T) /\ Len(x) = i - 1 /\ \A k \in 1 .. i - 1 : x[k] = a[k]
      /\ y \in Seq(T) /\ Len(y) = n - i /\ \A k \in 1 .. n - i : y[k] = a[i + k]
      /\ z \in Seq(T) /\ Len(z) = N - n + 1
      /\ \A k \in 1 .. N - n + 1 : z[k] = a[n + k - 1]
  BY <1>1, <1>2 DEF IsPart
<1> DEFINE v == x \o y
           w == v \o z
<1>4. /\ v \in Seq(T) /\ Len(v) = n - 1
      /\ \A k \in 1 .. n - 1 : v[k] = IF k <= i - 1 THEN x[k] ELSE y[k - (i - 1)]
  <2>1. Len(x) + Len(y) = n - 1
    BY <1>3
  <2>2. /\ v \in Seq(T) /\ Len(v) = Len(x) + Len(y)
        /\ \A k \in 1 .. Len(x) + Len(y) :
             v[k] = IF k <= Len(x) THEN x[k] ELSE y[k - Len(x)]
    BY <1>3, ConcatProperties
  <2> QED
    BY <1>3, <2>1, <2>2
<1> HIDE DEF v
<1>5. /\ w \in Seq(T) /\ Len(w) = N
      /\ \A k \in 1 .. N : w[k] = IF k <= n - 1 THEN v[k] ELSE z[k - (n - 1)]
  BY <1>1, <1>3, <1>4, ConcatProperties
<1> HIDE DEF w
<1>6. ASSUME NEW k \in 1 .. N
      PROVE  w[k] = IF k < i \/ k >= n THEN a[k] ELSE a[k + 1]
  <2>1. CASE k >= n
    <3>1. k - (n - 1) \in 1 .. N - n + 1 /\ n + (k - (n - 1)) - 1 = k /\ ~(k <= n - 1)
      BY <1>1, <2>1
    <3> QED
      BY <1>3, <1>5, <2>1, <3>1
  <2>2. CASE k < i
    <3>1. k \in 1 .. i - 1 /\ k <= n - 1 /\ k \in 1 .. n - 1 /\ k <= i - 1
      BY <1>1, <2>2
    <3> QED
      BY <1>3, <1>4, <1>5, <2>2, <3>1
  <2>3. CASE i <= k /\ k < n
    <3>1. /\ k - (i - 1) \in 1 .. n - i /\ i + (k - (i - 1)) = k + 1
          /\ ~(k <= i - 1) /\ k \in 1 .. n - 1 /\ k <= n - 1 /\ ~(k < i) /\ ~(k >= n)
      BY <1>1, <2>3
    <3> QED
      BY <1>3, <1>4, <1>5, <3>1
  <2> QED
    BY <1>1, <2>1, <2>2, <2>3
<1> QED
  BY <1>5, <1>6 DEF IsShift, w, v, x, y, z

LEMMA Without ==
    ASSUME NEW T, NEW a \in Seq(T), NEW i \in 1 .. Len(a)
    PROVE  IsWithout(T, a, i, RemoveAt(a, i))
<1> DEFINE x == SubSeq(a, 1, i - 1)
           y == SubSeq(a, i + 1, Len(a))
           N == Len(a)
           w == x \o y
<1>1. N \in Nat /\ i - 1 \in Nat /\ i + 1 \in Nat /\ i \in Nat /\ 1 <= i /\ i <= N
  OBVIOUS
<1>2. IsPart(T, a, 1, i - 1, x) /\ IsPart(T, a, i + 1, N, y)
  BY <1>1, PartOf
<1> HIDE DEF x, y
<1>3. /\ x \in Seq(T) /\ Len(x) = i - 1 /\ \A k \in 1 .. i - 1 : x[k] = a[k]
      /\ y \in Seq(T) /\ Len(y) = N - i /\ \A k \in 1 .. N - i : y[k] = a[i + k]
  <2>1. /\ (i - 1) - 1 + 1 = i - 1 /\ N - (i + 1) + 1 = N - i
        /\ \A k \in Int : 1 + k - 1 = k /\ i + 1 + k - 1 = i + k
    BY <1>1
  <2>2. x \in Seq(T) /\ Len(x) = i - 1 /\ \A k \in 1 .. i - 1 : x[k] = a[k]
    BY <1>2, <2>1 DEF IsPart
  <2>3. y \in Seq(T) /\ Len(y) = N - i /\ \A k \in 1 .. N - i : y[k] = a[i + k]
    BY <1>2, <2>1 DEF IsPart
  <2> QED
    BY <2>2, <2>3
<1>4. /\ w \in Seq(T) /\ Len(w) = N - 1
      /\ \A k \in 1 .. N - 1 : w[k] = IF k <= i - 1 THEN x[k] ELSE y[k - (i - 1)]
  <2>1. Len(x) + Len(y) = N - 1
    BY <1>1, <1>3
  <2>2. /\ w \in Seq(T) /\ Len(w) = Len(x) + Len(y)
        /\ \A k \in 1 .. Len(x) + Len(y) :
             w[k] = IF k <= Len(x) THEN x[k] ELSE y[k - Len(x)]
    BY <1>3, ConcatProperties
  <2> QED
    BY <1>3, <2>1, <2>2
<1>5. w = RemoveAt(a, i)
  BY DEF RemoveAt, x, y
<1> HIDE DEF w
<1>6. ASSUME NEW k \in 1 .. N - 1 PROVE w[k] = IF k < i THEN a[k] ELSE a[k + 1]
  <2>1. CASE k < i
    <3>1. k \in 1 .. i - 1 /\ k <= i - 1
      BY <1>1, <2>1
    <3> QED
      BY <1>3, <1>4, <2>1, <3>1
  <2>2. CASE i <= k
    <3>1. /\ k - (i - 1) \in 1 .. N - i /\ i + (k - (i - 1)) = k + 1
          /\ ~(k <= i - 1) /\ ~(k < i)
      BY <1>1, <2>2
    <3> QED
      BY <1>3, <1>4, <3>1
  <2> QED
    BY <1>1, <2>1, <2>2
<1> QED
  BY <1>4, <1>5, <1>6 DEF IsWithout

\* Moving the entries behind one down in its array removes it from the slice.
LEMMA ShiftRemoves ==
    ASSUME NEW T, NEW a \in Seq(T), NEW n \in Nat, n <= Len(a),
           NEW i \in Nat, 1 <= i, i <= n,
           NEW b, IsShift(T, a, i, n, b)
    PROVE  SubSeq(b, 1, n - 1) = RemoveAt(SubSeq(a, 1, n), i)
<1> DEFINE u == SubSeq(b, 1, n - 1)
           v == SubSeq(a, 1, n)
           w == RemoveAt(v, i)
<1>1. /\ b \in Seq(T) /\ Len(b) = Len(a) /\ Len(a) \in Nat /\ n - 1 \in Nat
      /\ \A k \in 1 .. Len(a) : b[k] = IF k < i \/ k >= n THEN a[k] ELSE a[k + 1]
  BY DEF IsShift
<1>2. IsPart(T, b, 1, n - 1, u) /\ IsPart(T, a, 1, n, v)
  <2>1. 1 \in Nat /\ 1 <= 1 /\ 1 <= n - 1 + 1 /\ 1 <= n + 1 /\ n - 1 <= Len(b)
    BY <1>1
  <2> QED
    BY <1>1, <2>1, PartOf
<1> HIDE DEF u, v
<1>3. /\ u \in Seq(T) /\ Len(u) = n - 1 /\ \A k \in 1 .. n - 1 : u[k] = b[k]
      /\ v \in Seq(T) /\ Len(v) = n /\ \A k \in 1 .. n : v[k] = a[k]
  BY <1>1, <1>2 DEF IsPart
<1>4. IsWithout(T, v, i, w)
  BY <1>3, Without
<1> HIDE DEF w
<1>5. /\ w \in Seq(T) /\ Len(w) = n - 1
      /\ \A k \in 1 .. n - 1 : w[k] = IF k < i THEN v[k] ELSE v[k + 1]
  BY <1>3, <1>4 DEF IsWithout
<1>6. \A k \in 1 .. n - 1 : u[k] = w[k]
  <2> SUFFICES ASSUME NEW k \in 1 .. n - 1 PROVE u[k] = w[k]
    OBVIOUS
  <2>1. /\ k \in 1 .. Len(a) /\ ~(k >= n) /\ k \in 1 .. n /\ k + 1 \in 1 .. n
    BY <1>1
  <2> QED
    BY <1>1, <1>3, <1>5, <2>1
<1>7. u = w
  BY <1>3, <1>5, <1>6, SeqEqual
<1> QED
  BY <1>7 DEF u, v, w

LEMMA SameStart ==
    ASSUME NEW T, NEW a \in Seq(T), NEW b \in Seq(T), NEW m \in Nat,
           m <= Len(a), m <= Len(b), \A k \in 1 .. m : a[k] = b[k]
    PROVE  SubSeq(a, 1, m) = SubSeq(b, 1, m)
<1> DEFINE u == SubSeq(a, 1, m)
           v == SubSeq(b, 1, m)
<1>1. IsPart(T, a, 1, m, u) /\ IsPart(T, b, 1, m, v)
  BY PartOf
<1> HIDE DEF u, v
<1>2. /\ u \in Seq(T) /\ Len(u) = m /\ \A k \in 1 .. m : u[k] = a[k]
      /\ v \in Seq(T) /\ Len(v) = m /\ \A k \in 1 .. m : v[k] = b[k]
  BY <1>1 DEF IsPart
<1>3. u = v
  BY <1>2, SeqEqual
<1> QED
  BY <1>3 DEF u, v

\* b starts with the first n entries of a and then e.
LEMMA StartAppended ==
    ASSUME NEW T, NEW a \in Seq(T), NEW b \in Seq(T), NEW n \in Nat, NEW e \in T,
           n <= Len(a), n + 1 <= Len(b), \A k \in 1 .. n : b[k] = a[k],
           b[n + 1] = e
    PROVE  SubSeq(b, 1, n + 1) = Append(SubSeq(a, 1, n), e)
<1> DEFINE u == SubSeq(b, 1, n + 1)
           v == SubSeq(a, 1, n)
           w == Append(v, e)
<1>1. IsPart(T, b, 1, n + 1, u) /\ IsPart(T, a, 1, n, v)
  BY PartOf
<1> HIDE DEF u, v
<1>2. /\ u \in Seq(T) /\ Len(u) = n + 1 /\ \A k \in 1 .. n + 1 : u[k] = b[k]
      /\ v \in Seq(T) /\ Len(v) = n /\ \A k \in 1 .. n : v[k] = a[k]
  BY <1>1 DEF IsPart
<1>3. /\ w \in Seq(T) /\ Len(w) = n + 1 /\ \A k \in 1 .. n : w[k] = v[k]
      /\ w[n + 1] = e
  BY <1>2, AppendProperties
<1> HIDE DEF w
<1>4. \A k \in 1 .. n + 1 : u[k] = w[k]
  <2>1. \A k : k \in 1 .. n + 1 <=> k \in 1 .. n \/ k = n + 1
    OBVIOUS
  <2> QED
    BY <1>2, <1>3, <2>1
<1>5. u = w
  BY <1>2, <1>3, <1>4, SeqEqual
<1> QED
  BY <1>5 DEF u, v, w

LEMMA RoomyStarts ==
    ASSUME NEW a \in Seq(Slot), NEW room \in Nat, NEW b, b = Roomy(a, room)
    PROVE  /\ b \in Seq(Slot) /\ Len(b) = Len(a) + room
           /\ \A k \in 1 .. Len(a) : b[k] = a[k]
<1> DEFINE z == [k \in 1 .. room |-> NoEntry]
<1>1. z \in Seq(Slot) /\ Len(z) = room
  <2>1. z \in [1 .. room -> Slot]
    BY DEF Slot
  <2> QED
    BY <2>1
<1> HIDE DEF z
<1>2. /\ a \o z \in Seq(Slot) /\ Len(a \o z) = Len(a) + Len(z)
      /\ \A k \in 1 .. Len(a) + Len(z) : (a \o z)[k] =
           IF k <= Len(a) THEN a[k] ELSE z[k - Len(a)]
  BY <1>1, ConcatProperties
<1>3. b = a \o z
  BY DEF Roomy, z
<1>4. \A k \in 1 .. Len(a) : k \in 1 .. Len(a) + room /\ k <= Len(a)
  OBVIOUS
<1> QED
  BY <1>1, <1>2, <1>3, <1>4

-----------------------------------------------------------------------------
(* The operations on the arrays of a list.                                  *)

LEMMA Recut ==
    ASSUME NEW s \in Slice, NEW m
    PROVE  [s EXCEPT !.len = m] = [array |-> s.array, len |-> m]
BY DEF Slice

\* From arrs to a every slice shows what it showed.
Keeps(arrs, a, h) == IsSliceOf(a, h) /\ ViewOf(a, h) = ViewOf(arrs, h)

\* r shows the list of s with one more entry, and what it changed shows in no
\* slice but those that reach beyond s in its array.
IsAppended(arrs, s, e, r) ==
    /\ r.arrays \in Seq(Seq(Slot)) /\ IsSliceOf(r.arrays, r.slice)
    /\ ViewOf(r.arrays, r.slice) = Append(ViewOf(arrs, s), e)
    /\ \A h : IsSliceOf(arrs, h) /\ (h.array = s.array => h.len <= s.len)
         => /\ Keeps(arrs, r.arrays, h)
            /\ h.array = r.slice.array => h.len <= r.slice.len
    /\ \A h : IsSliceOf(arrs, h) => IsSliceOf(r.arrays, h)

\* append returns that.
LEMMA AppendedWell ==
    ASSUME NEW arrs \in Seq(Seq(Slot)), NEW s, IsSliceOf(arrs, s),
           NEW e \in Entries, NEW room \in Nat,
           NEW r, r = Appended(arrs, s, e, room)
    PROVE  IsAppended(arrs, s, e, r)
<1> SUFFICES /\ r.arrays \in Seq(Seq(Slot)) /\ IsSliceOf(r.arrays, r.slice)
             /\ ViewOf(r.arrays, r.slice) = Append(ViewOf(arrs, s), e)
             /\ \A h : IsSliceOf(arrs, h) /\ (h.array = s.array => h.len <= s.len)
                  => /\ Keeps(arrs, r.arrays, h)
                     /\ h.array = r.slice.array => h.len <= r.slice.len
             /\ \A h : IsSliceOf(arrs, h) => IsSliceOf(r.arrays, h)
  BY DEF IsAppended
<1> DEFINE a == arrs[s.array]
           n == s.len
<1>1. /\ a \in Seq(Slot) /\ Len(a) \in Nat /\ n \in Nat /\ n <= Len(a)
      /\ s.array \in 1 .. Len(arrs) /\ Len(arrs) \in Nat /\ s.array \in Nat
      /\ s = [array |-> s.array, len |-> n]
  BY DEF IsSliceOf, Slice
<1>2. e \in Slot
  BY DEF Slot
<1>3. CASE n < Len(a)
  <2> DEFINE b == [a EXCEPT ![n + 1] = e]
             x == [arrs EXCEPT ![s.array] = b]
             t == [array |-> s.array, len |-> n + 1]
  <2>1. r = [arrays |-> x, slice |-> t]
    <3>1. r = [arrays |-> [arrs EXCEPT ![s.array][s.len + 1] = e],
               slice |-> [s EXCEPT !.len = @ + 1]]
      BY <1>3 DEF Appended
    <3>2. [s EXCEPT !.len = @ + 1] = t
      BY Zenon, Recut DEF IsSliceOf
    <3> QED
      BY <3>1, <3>2
  <2>2. /\ b \in Seq(Slot) /\ Len(b) = Len(a) /\ b[n + 1] = e
        /\ \A k \in 1 .. n : b[k] = a[k]
    BY <1>1, <1>2, <1>3
  <2> HIDE DEF b
  <2>3. /\ x \in Seq(Seq(Slot)) /\ Len(x) = Len(arrs) /\ x[s.array] = b
        /\ \A k \in 1 .. Len(arrs) : k # s.array => x[k] = arrs[k]
    BY <1>1, <2>2
  <2> HIDE DEF x, a
  <2>4. IsSliceOf(x, t)
    BY <1>1, <1>3, <2>2, <2>3 DEF IsSliceOf, Slice
  <2>5. SubSeq(b, 1, n + 1) = Append(SubSeq(a, 1, n), e)
    BY SMTT(30), <1>1, <1>2, <1>3, <2>2, StartAppended
  <2>6. ViewOf(x, t) = Append(ViewOf(arrs, s), e)
    BY <2>3, <2>5 DEF ViewOf, a
  <2>7. ASSUME NEW h, IsSliceOf(arrs, h), h.array = s.array => h.len <= n
        PROVE  Keeps(arrs, x, h) /\ (h.array = s.array => h.len <= n + 1)
    <3>1. h \in Slice /\ h.array \in 1 .. Len(arrs) /\ h.len <= Len(arrs[h.array])
          /\ h.len \in Nat
      BY <2>7 DEF IsSliceOf, Slice
    <3>2. CASE h.array # s.array
      <4>1. x[h.array] = arrs[h.array] /\ h.array \in DOMAIN x
        BY SMTT(30), <1>1, <2>3, <3>1, <3>2
      <4> QED
        BY <3>1, <3>2, <4>1 DEF Keeps, IsSliceOf, ViewOf
    <3>3. CASE h.array = s.array
      <4>1. /\ h.len <= n /\ h.len <= Len(a) /\ h.len <= Len(b)
            /\ \A k \in 1 .. h.len : a[k] = b[k]
        BY <1>1, <1>3, <2>2, <2>7, <3>1, <3>3
      <4>2. SubSeq(a, 1, h.len) = SubSeq(b, 1, h.len)
        BY <1>1, <2>2, <3>1, <4>1, SameStart
      <4>3. h.len <= n + 1
        BY <1>1, <3>1, <4>1
      <4> QED
        <5>1. x[h.array] = b /\ arrs[h.array] = a /\ h.array \in DOMAIN x
          BY <1>1, <2>3, <3>1, <3>3 DEF a
        <5> QED
          BY <3>1, <4>1, <4>2, <4>3, <5>1 DEF Keeps, IsSliceOf, ViewOf
    <3> QED
      BY <3>2, <3>3
  <2>8. \A h : IsSliceOf(arrs, h) => IsSliceOf(x, h)
    <3>1. /\ DOMAIN x = DOMAIN arrs
          /\ \A k \in DOMAIN arrs : Len(x[k]) = Len(arrs[k])
      <4>1. DOMAIN x = 1 .. Len(arrs) /\ DOMAIN arrs = 1 .. Len(arrs)
        BY <2>3
      <4>2. Len(x[s.array]) = Len(arrs[s.array])
        BY <2>2, <2>3 DEF a
      <4> QED
        BY <2>3, <4>1, <4>2
    <3> QED
      BY <3>1 DEF IsSliceOf
  <2> QED
    BY <2>1, <2>3, <2>4, <2>6, <2>7, <2>8
<1>4. CASE ~(n < Len(a))
  <2> DEFINE f == Append(a, e)
             b == Roomy(f, room)
             x == Append(arrs, b)
             t == [array |-> Len(arrs) + 1, len |-> n + 1]
  <2>1. r = [arrays |-> x, slice |-> t]
    BY <1>4 DEF Appended
  <2>2. n = Len(a)
    BY <1>1, <1>4
  <2>3. /\ f \in Seq(Slot) /\ Len(f) = n + 1 /\ f[n + 1] = e
        /\ \A k \in 1 .. n : f[k] = a[k]
    BY <1>1, <1>2, <2>2, AppendProperties
  <2> HIDE DEF f
  <2>4. /\ b \in Seq(Slot) /\ Len(b) = n + 1 + room
        /\ \A k \in 1 .. n + 1 : b[k] = f[k]
    <3>1. /\ b \in Seq(Slot) /\ Len(b) = Len(f) + room
          /\ \A k \in 1 .. Len(f) : b[k] = f[k]
      BY <2>3, RoomyStarts
    <3> HIDE DEF b
    <3> QED
      BY <2>3, <3>1
  <2> HIDE DEF b
  <2>5. /\ b[n + 1] = e /\ n + 1 <= Len(b) /\ \A k \in 1 .. n : b[k] = a[k]
        /\ b \in Seq(Slot)
    <3>1. n + 1 \in 1 .. n + 1 /\ \A k \in 1 .. n : k \in 1 .. n + 1
      BY <1>1
    <3> QED
      BY <1>1, <2>3, <2>4, <3>1
  <2>6. /\ x \in Seq(Seq(Slot)) /\ Len(x) = Len(arrs) + 1 /\ x[Len(arrs) + 1] = b
        /\ \A k \in 1 .. Len(arrs) : x[k] = arrs[k]
    BY <2>4, AppendProperties
  <2> HIDE DEF x, a
  <2>7. IsSliceOf(x, t)
    BY <1>1, <2>5, <2>6 DEF IsSliceOf, Slice
  <2>8. SubSeq(b, 1, n + 1) = Append(SubSeq(a, 1, n), e)
    <3>1. a \in Seq(Slot) /\ n \in Nat /\ n <= Len(a) /\ e \in Slot
      BY <1>1, <1>2
    <3>2. \A k \in 1 .. n : b[k] = a[k]
      BY <2>5
    <3>3. b \in Seq(Slot) /\ n + 1 <= Len(b) /\ b[n + 1] = e
      BY <2>5
    <3> HIDE DEF n
    <3> QED
      BY <3>1, <3>2, <3>3, StartAppended
  <2>9. ViewOf(x, t) = Append(ViewOf(arrs, s), e)
    BY <2>6, <2>8 DEF ViewOf, a
  <2>10. ASSUME NEW h, IsSliceOf(arrs, h)
         PROVE  Keeps(arrs, x, h) /\ h.array # Len(arrs) + 1
    <3>1. h \in Slice /\ h.array \in 1 .. Len(arrs) /\ h.len <= Len(arrs[h.array])
      BY <2>10 DEF IsSliceOf, Slice
    <3>2. /\ h.array \in DOMAIN x /\ h.array # Len(arrs) + 1
          /\ x[h.array] = arrs[h.array]
      BY SMTT(30), <1>1, <2>6, <3>1
    <3> QED
      BY <3>1, <3>2 DEF Keeps, IsSliceOf, ViewOf
  <2>11. \A h : IsSliceOf(arrs, h) => IsSliceOf(x, h)
    BY <2>10 DEF Keeps
  <2> QED
    BY <2>1, <2>6, <2>7, <2>9, <2>10, <2>11
<1> QED
  BY <1>3, <1>4

\* The first entry of a name.
IsFirst(v, n, i) ==
    /\ i \in 0 .. Len(v)
    /\ i # 0 => v[i].name = n /\ \A j \in 1 .. Len(v) : j < i => v[j].name # n
    /\ i = 0 => \A j \in 1 .. Len(v) : v[j].name # n

FirstOf(v, n) == SelectInSeq(v, LAMBDA e : e.name = n)

LEMMA FirstFound ==
    ASSUME NEW T, NEW v \in Seq(T), NEW n
    PROVE  IsFirst(v, n, FirstOf(v, n))
<1> DEFINE I == {i \in 1 .. Len(v) : v[i].name = n}
           f == IF I # {} THEN Min(I) ELSE 0
<1>1. FirstOf(v, n) = f
  BY Zenon DEF FirstOf, SelectInSeq
<1>2. Len(v) \in Nat /\ I \in SUBSET Nat
  OBVIOUS
<1>3. \A i : i \in I <=> i \in 1 .. Len(v) /\ v[i].name = n
  OBVIOUS
<1> HIDE DEF I
<1>4. IsFirst(v, n, f)
  <2>1. CASE I = {}
    <3>1. f = 0 /\ 0 \in 0 .. Len(v)
      BY <1>2, <2>1
    <3> HIDE DEF f
    <3> QED
      BY <1>3, <2>1, <3>1 DEF IsFirst
  <2>2. CASE I # {}
    <3>1. PICK x \in I : \A y \in I : x <= y
      BY <1>2, <2>2, Least
    <3>2. f \in I /\ \A y \in I : f <= y
      BY <2>2, <3>1 DEF Min
    <3> HIDE DEF f
    <3>3. f \in 1 .. Len(v) /\ v[f].name = n
      BY <1>3, <3>2
    <3>4. ASSUME NEW j \in 1 .. Len(v), j < f PROVE v[j].name # n
      <4>1. ~(f <= j)
        BY <3>3, <3>4
      <4> QED
        BY <1>3, <3>2, <4>1
    <3>5. f \in 0 .. Len(v) /\ f # 0
      BY <3>3
    <3> QED
      BY <3>3, <3>4, <3>5 DEF IsFirst
  <2> QED
    BY <2>1, <2>2
<1> QED
  BY <1>1, <1>4

\* Removing the first entry of a name moves those behind it down in the same
\* array, whose other slots stay as they are.
LEMMA RemovedWell ==
    ASSUME NEW arrs \in Seq(Seq(Slot)), NEW s, IsSliceOf(arrs, s),
           NEW n, NEW i, i = Position(arrs, s, n), i # 0,
           NEW r, r = Removed(arrs, s, n)
    PROVE  /\ r.arrays \in Seq(Seq(Slot)) /\ IsSliceOf(r.arrays, r.slice)
           /\ ViewOf(r.arrays, r.slice) = RemoveAt(ViewOf(arrs, s), i)
           /\ \A h : IsSliceOf(arrs, h) => IsSliceOf(r.arrays, h)
           /\ r.slice.array = s.array
           /\ r.slice.len < Len(r.arrays[s.array])
<1> DEFINE a == arrs[s.array]
           m == s.len
           b == SubSeq(a, 1, i - 1) \o SubSeq(a, i + 1, m) \o SubSeq(a, m, Len(a))
           x == [arrs EXCEPT ![s.array] = b]
           t == [array |-> s.array, len |-> m - 1]
<1>1. /\ a \in Seq(Slot) /\ Len(a) \in Nat /\ m \in Nat /\ m <= Len(a)
      /\ s.array \in 1 .. Len(arrs) /\ Len(arrs) \in Nat /\ s.array \in Nat
      /\ s \in Slice
  BY DEF IsSliceOf, Slice
<1>2. i \in Nat /\ 1 <= i /\ i <= m
  <2>1. IsPart(Slot, a, 1, m, SubSeq(a, 1, m))
    BY <1>1, PartOf
  <2>2. SubSeq(a, 1, m) \in Seq(Slot) /\ Len(SubSeq(a, 1, m)) = m
    BY <1>1, <2>1 DEF IsPart
  <2>3. IsFirst(SubSeq(a, 1, m), n, i)
    <3>1. i = FirstOf(SubSeq(a, 1, m), n)
      BY Zenon DEF Position, FirstOf
    <3> QED
      BY Zenon, <2>2, <3>1, FirstFound
  <2> QED
    BY <1>1, <2>2, <2>3 DEF IsFirst
<1>3. r = [arrays |-> x, slice |-> t]
  <2>1. r = [arrays |-> x, slice |-> [s EXCEPT !.len = @ - 1]]
    BY Zenon DEF Removed
  <2>2. [s EXCEPT !.len = @ - 1] = t
    BY Zenon, <1>1, Recut
  <2> QED
    BY <2>1, <2>2
<1>4. IsShift(Slot, a, i, m, b)
  BY <1>1, <1>2, Shifted
<1> HIDE DEF b
<1>5. b \in Seq(Slot) /\ Len(b) = Len(a)
  BY <1>4 DEF IsShift
<1>6. SubSeq(b, 1, m - 1) = RemoveAt(SubSeq(a, 1, m), i)
  BY <1>1, <1>2, <1>4, ShiftRemoves
<1>7. /\ x \in Seq(Seq(Slot)) /\ Len(x) = Len(arrs) /\ x[s.array] = b
      /\ \A k \in 1 .. Len(arrs) : Len(x[k]) = Len(arrs[k])
      /\ DOMAIN x = DOMAIN arrs
  BY <1>1, <1>5
<1> HIDE DEF x, a
<1>8. IsSliceOf(x, t) /\ m - 1 < Len(x[s.array])
  <2>1. /\ m - 1 \in Nat /\ m - 1 < Len(b) /\ m - 1 <= Len(b)
        /\ s.array \in DOMAIN x /\ x[s.array] = b
    BY SMTT(30), <1>1, <1>2, <1>5, <1>7
  <2> QED
    BY <1>1, <2>1 DEF IsSliceOf, Slice
<1>9. ViewOf(x, t) = RemoveAt(ViewOf(arrs, s), i)
  BY <1>6, <1>7 DEF ViewOf, a
<1>10. \A h : IsSliceOf(arrs, h) => IsSliceOf(x, h)
  <2>1. DOMAIN arrs = 1 .. Len(arrs)
    OBVIOUS
  <2> QED
    BY <1>7, <2>1 DEF IsSliceOf
<1> QED
  BY <1>3, <1>7, <1>8, <1>9, <1>10

LEMMA AppendsInPlace ==
    ASSUME NEW arrs, NEW s \in Slice, NEW e, s.len < Len(arrs[s.array])
    PROVE  Appended(arrs, s, e, 0).slice = [array |-> s.array, len |-> s.len + 1]
<1>1. Appended(arrs, s, e, 0).slice = [s EXCEPT !.len = @ + 1]
  BY DEF Appended
<1> QED
  BY Zenon, <1>1, Recut

\* An update removes and appends in the same array.
LEMMA UpdatedWell ==
    ASSUME NEW arrs \in Seq(Seq(Slot)), NEW s, IsSliceOf(arrs, s),
           NEW e \in Entries, NEW i, i = Position(arrs, s, e.name), i # 0,
           NEW r, r = Removed(arrs, s, e.name),
           NEW q, q = Appended(r.arrays, r.slice, e, 0)
    PROVE  /\ q.arrays \in Seq(Seq(Slot)) /\ IsSliceOf(q.arrays, q.slice)
           /\ ViewOf(q.arrays, q.slice) = Append(RemoveAt(ViewOf(arrs, s), i), e)
           /\ \A h : IsSliceOf(arrs, h) => IsSliceOf(q.arrays, h)
<1>1. /\ r.arrays \in Seq(Seq(Slot)) /\ IsSliceOf(r.arrays, r.slice)
      /\ ViewOf(r.arrays, r.slice) = RemoveAt(ViewOf(arrs, s), i)
      /\ \A h : IsSliceOf(arrs, h) => IsSliceOf(r.arrays, h)
  BY RemovedWell
<1>2. /\ q.arrays \in Seq(Seq(Slot)) /\ IsSliceOf(q.arrays, q.slice)
      /\ ViewOf(q.arrays, q.slice) = Append(ViewOf(r.arrays, r.slice), e)
      /\ \A h : IsSliceOf(r.arrays, h) => IsSliceOf(q.arrays, h)
  <2> DEFINE R == r.arrays
             S == r.slice
  <2>1. R \in Seq(Seq(Slot)) /\ IsSliceOf(R, S) /\ q = Appended(R, S, e, 0) /\ 0 \in Nat
    BY <1>1
  <2> HIDE DEF R, S
  <2>2. /\ q.arrays \in Seq(Seq(Slot)) /\ IsSliceOf(q.arrays, q.slice)
        /\ ViewOf(q.arrays, q.slice) = Append(ViewOf(R, S), e)
        /\ \A h : IsSliceOf(R, h) => IsSliceOf(q.arrays, h)
    <3>1. IsAppended(R, S, e, q)
      BY <2>1, AppendedWell
    <3> QED
      BY <3>1 DEF IsAppended
  <2> QED
    BY <2>2 DEF R, S
<1> QED
  BY <1>1, <1>2

-----------------------------------------------------------------------------
(* The steps.                                                               *)

\* What a slice taken from a list without a removal since reaches.
Undisturbed(l) ==
    /\ View(l, held[l]) = taken[l]
    /\ held[l].array = cache[l].array => held[l].len <= cache[l].len

ScheduleInv ==
    /\ arrays \in [Lists -> Seq(Seq(Slot))]
    /\ cache \in [Lists -> Slice] /\ held \in [Lists -> Slice]
    /\ taken \in [Lists -> Seq(Slot)]
    /\ shifted \subseteq Lists /\ listOps \in Nat
    /\ \A l \in Lists : /\ IsSliceOf(arrays[l], cache[l])
                        /\ IsSliceOf(arrays[l], held[l])
    /\ \A l \in Lists \ shifted : Undisturbed(l)

\* The lists as the slices of the cache show them.
Views == [l \in Lists |-> Cache(l)]

LEMMA ViewIsViewOf == \A l, s : View(l, s) = ViewOf(arrays[l], s)
BY DEF View, ViewOf

\* A call that takes an operation's result for one list keeps the invariant,
\* if the slice held of that list is undisturbed or no longer counts.
LEMMA TakeWell ==
    ASSUME ScheduleInv, NEW l \in Lists, NEW r, Take(l, r),
           r.arrays \in Seq(Seq(Slot)), IsSliceOf(r.arrays, r.slice),
           \A h : IsSliceOf(arrays[l], h) => IsSliceOf(r.arrays, h),
           listOps' \in Nat, shifted' \subseteq Lists,
           \A k \in Lists : k # l => (k \in shifted' <=> k \in shifted),
           l \notin shifted' => /\ ViewOf(r.arrays, held[l]) = taken[l]
                                /\ held[l].array = r.slice.array =>
                                     held[l].len <= r.slice.len
    PROVE  /\ ScheduleInv'
           /\ Views' = [Views EXCEPT ![l] = ViewOf(r.arrays, r.slice)]
<1> USE DEF ScheduleInv
<1>1. /\ arrays' = [arrays EXCEPT ![l] = r.arrays]
      /\ cache' = [cache EXCEPT ![l] = r.slice]
      /\ held' = held /\ taken' = taken
  BY DEF Take
<1>2. /\ arrays' \in [Lists -> Seq(Seq(Slot))] /\ cache' \in [Lists -> Slice]
      /\ arrays'[l] = r.arrays /\ cache'[l] = r.slice
      /\ \A k \in Lists : k # l => arrays'[k] = arrays[k] /\ cache'[k] = cache[k]
  BY <1>1 DEF IsSliceOf
<1>3. ASSUME NEW k \in Lists
      PROVE  IsSliceOf(arrays'[k], cache'[k]) /\ IsSliceOf(arrays'[k], held'[k])
  <2>1. IsSliceOf(arrays[k], cache[k]) /\ IsSliceOf(arrays[k], held[k])
    OBVIOUS
  <2> QED
    BY <1>1, <1>2, <2>1
<1>4. ASSUME NEW k \in Lists \ shifted' PROVE Undisturbed(k)'
  <2>1. CASE k = l
    <3>1. View(k, held[k])' = ViewOf(r.arrays, held[l])
      BY <1>1, <1>2, <2>1 DEF View, ViewOf
    <3> QED
      BY <1>1, <1>2, <1>4, <2>1, <3>1 DEF Undisturbed
  <2>2. CASE k # l
    <3>1. View(k, held[k])' = View(k, held[k]) /\ Undisturbed(k)
      BY <1>1, <1>2, <1>4, <2>2 DEF View
    <3> QED
      BY <1>1, <1>2, <2>2, <3>1 DEF Undisturbed
  <2> QED
    BY <2>1, <2>2
<1>5. ScheduleInv'
  BY <1>1, <1>2, <1>3, <1>4
<1>6. \A k \in Lists : Cache(k)' = IF k = l THEN ViewOf(r.arrays, r.slice) ELSE Cache(k)
  BY <1>2 DEF Cache, View, ViewOf
<1>7. Views' = [Views EXCEPT ![l] = ViewOf(r.arrays, r.slice)]
  BY <1>6 DEF Views
<1> QED
  BY <1>5, <1>7

LEMMA AddWell ==
    ASSUME ScheduleInv, NEW l \in Lists, NEW e \in Entries, AddEntry(l, e),
           listOps' \in Nat
    PROVE  ScheduleInv' /\ Views' = [Views EXCEPT ![l] = Append(@, e)]
<1> USE DEF ScheduleInv
<1>1. PICK room \in 0 .. MaxRoom :
        Take(l, Appended(arrays[l], cache[l], e, room)) /\ shifted' = shifted
  BY DEF AddEntry
<1> DEFINE r == Appended(arrays[l], cache[l], e, room)
           A == arrays[l]
           s == cache[l]
           h == held[l]
<1>2. room \in Nat /\ A \in Seq(Seq(Slot)) /\ IsSliceOf(A, s) /\ IsSliceOf(A, h)
  BY ScheduleAssumption
<1>3. /\ r.arrays \in Seq(Seq(Slot)) /\ IsSliceOf(r.arrays, r.slice)
      /\ ViewOf(r.arrays, r.slice) = Append(ViewOf(A, s), e)
      /\ (h.array = s.array => h.len <= s.len)
           => /\ Keeps(A, r.arrays, h)
              /\ h.array = r.slice.array => h.len <= r.slice.len
      /\ \A g : IsSliceOf(A, g) => IsSliceOf(r.arrays, g)
  <2> HIDE DEF A, s, h
  <2>2. r = Appended(A, s, e, room)
    BY DEF A, s
  <2> HIDE DEF r, ScheduleInv
  <2>3. IsAppended(A, s, e, r)
    BY <1>2, <2>2, AppendedWell
  <2> QED
    BY <1>2, <2>3 DEF IsAppended
<1>4. l \notin shifted' => /\ ViewOf(r.arrays, h) = taken[l]
                           /\ h.array = r.slice.array => h.len <= r.slice.len
  <2> SUFFICES ASSUME l \notin shifted
               PROVE  /\ ViewOf(r.arrays, h) = taken[l]
                      /\ h.array = r.slice.array => h.len <= r.slice.len
    BY <1>1
  <2>1. ViewOf(A, h) = taken[l] /\ (h.array = s.array => h.len <= s.len)
    BY DEF Undisturbed, View, ViewOf
  <2> HIDE DEF r, A, s, h
  <2> QED
    BY <1>3, <2>1 DEF Keeps
<1>5. Views[l] = ViewOf(A, s)
  BY DEF Views, Cache, View, ViewOf
<1> HIDE DEF r
<1>6. ScheduleInv' /\ Views' = [Views EXCEPT ![l] = ViewOf(r.arrays, r.slice)]
  <2>1. Take(l, r)
    BY <1>1 DEF r
  <2> HIDE DEF ScheduleInv
  <2> QED
    BY <1>1, <1>3, <1>4, <2>1, TakeWell DEF ScheduleInv
<1>7. [Views EXCEPT ![l] = ViewOf(r.arrays, r.slice)] = [Views EXCEPT ![l] = Append(@, e)]
  BY <1>3, <1>5
<1> QED
  BY <1>6, <1>7

LEMMA RemoveWell ==
    ASSUME ScheduleInv, NEW l \in Lists, NEW e \in Entries, RemoveEntry(l, e),
           listOps' \in Nat
    PROVE  LET i == Position(arrays[l], cache[l], e.name)
           IN  /\ ScheduleInv' /\ i # 0
               /\ Views' = [Views EXCEPT ![l] = RemoveAt(@, i)]
<1> USE DEF ScheduleInv
<1> DEFINE A == arrays[l]
           s == cache[l]
           i == Position(A, s, e.name)
           r == Removed(A, s, e.name)
<1>1. i # 0 /\ Take(l, r) /\ shifted' = shifted \cup {l}
  BY DEF RemoveEntry
<1>2. A \in Seq(Seq(Slot)) /\ IsSliceOf(A, s)
  OBVIOUS
<1>3. Views[l] = ViewOf(A, s)
  BY DEF Views, Cache, View, ViewOf
<1> HIDE DEF i, r
<1>4. /\ r.arrays \in Seq(Seq(Slot)) /\ IsSliceOf(r.arrays, r.slice)
      /\ ViewOf(r.arrays, r.slice) = RemoveAt(ViewOf(A, s), i)
      /\ \A h : IsSliceOf(A, h) => IsSliceOf(r.arrays, h)
  <2> HIDE DEF A, s, ScheduleInv
  <2>1. i = Position(A, s, e.name) /\ r = Removed(A, s, e.name)
    BY DEF i, r
  <2> QED
    BY <1>1, <1>2, <2>1, RemovedWell
<1>5. ScheduleInv' /\ Views' = [Views EXCEPT ![l] = ViewOf(r.arrays, r.slice)]
  <2>1. /\ shifted' \subseteq Lists /\ l \in shifted'
        /\ \A k \in Lists : k # l => (k \in shifted' <=> k \in shifted)
    BY <1>1
  <2> HIDE DEF ScheduleInv
  <2> QED
    BY <1>1, <1>4, <2>1, TakeWell
<1>6. [Views EXCEPT ![l] = ViewOf(r.arrays, r.slice)] = [Views EXCEPT ![l] = RemoveAt(@, i)]
  BY <1>3, <1>4
<1> QED
  BY <1>1, <1>5, <1>6 DEF i

LEMMA UpdateWell ==
    ASSUME ScheduleInv, NEW l \in Lists, NEW e \in Entries, UpdateEntry(l, e),
           listOps' \in Nat
    PROVE  LET i == Position(arrays[l], cache[l], e.name)
           IN  /\ ScheduleInv' /\ i # 0
               /\ Views' = [Views EXCEPT ![l] = Append(RemoveAt(@, i), e)]
<1> USE DEF ScheduleInv
<1> DEFINE A == arrays[l]
           s == cache[l]
           i == Position(A, s, e.name)
           r == Removed(A, s, e.name)
           q == Appended(r.arrays, r.slice, e, 0)
<1>1. i # 0 /\ Take(l, q) /\ shifted' = shifted \cup {l}
  BY DEF UpdateEntry
<1>2. A \in Seq(Seq(Slot)) /\ IsSliceOf(A, s)
  OBVIOUS
<1>3. Views[l] = ViewOf(A, s)
  BY DEF Views, Cache, View, ViewOf
<1> HIDE DEF i, r, q
<1>4. /\ q.arrays \in Seq(Seq(Slot)) /\ IsSliceOf(q.arrays, q.slice)
      /\ ViewOf(q.arrays, q.slice) = Append(RemoveAt(ViewOf(A, s), i), e)
      /\ \A h : IsSliceOf(A, h) => IsSliceOf(q.arrays, h)
  <2> HIDE DEF A, s, ScheduleInv
  <2>1. /\ i = Position(A, s, e.name) /\ r = Removed(A, s, e.name)
        /\ q = Appended(r.arrays, r.slice, e, 0)
    BY DEF i, r, q
  <2> QED
    BY <1>1, <1>2, <2>1, UpdatedWell
<1>5. ScheduleInv' /\ Views' = [Views EXCEPT ![l] = ViewOf(q.arrays, q.slice)]
  <2>1. /\ shifted' \subseteq Lists /\ l \in shifted'
        /\ \A k \in Lists : k # l => (k \in shifted' <=> k \in shifted)
    BY <1>1
  <2> HIDE DEF ScheduleInv
  <2> QED
    BY <1>1, <1>4, <2>1, TakeWell
<1>6. [Views EXCEPT ![l] = ViewOf(q.arrays, q.slice)]
        = [Views EXCEPT ![l] = Append(RemoveAt(@, i), e)]
  BY <1>3, <1>4
<1> QED
  BY <1>1, <1>5, <1>6 DEF i

LEMMA GetAllWell ==
    ASSUME ScheduleInv, NEW l \in Lists, GetAll(l), listOps' \in Nat
    PROVE  ScheduleInv' /\ Views' = Views
<1> USE DEF ScheduleInv
<1>1. /\ held' = [held EXCEPT ![l] = cache[l]]
      /\ taken' = [taken EXCEPT ![l] = Cache(l)]
      /\ shifted' = shifted \ {l} /\ arrays' = arrays /\ cache' = cache
  BY DEF GetAll
<1>2. Cache(l) \in Seq(Slot)
  <2> DEFINE a == arrays[l][cache[l].array]
             n == cache[l].len
  <2>1. a \in Seq(Slot) /\ n \in Nat /\ n <= Len(a)
    BY DEF IsSliceOf, Slice
  <2> HIDE DEF a, n
  <2>2. 1 <= n + 1
    BY <2>1
  <2>3. IsPart(Slot, a, 1, n, SubSeq(a, 1, n))
    BY <2>1, <2>2, PartOf
  <2>4. SubSeq(a, 1, n) \in Seq(Slot)
    BY <2>3 DEF IsPart
  <2> QED
    BY <2>4 DEF Cache, View, a, n
<1>3. /\ held' \in [Lists -> Slice] /\ taken' \in [Lists -> Seq(Slot)]
      /\ held'[l] = cache[l] /\ taken'[l] = Cache(l)
      /\ \A k \in Lists : k # l => held'[k] = held[k] /\ taken'[k] = taken[k]
  BY <1>1, <1>2
<1>4. \A k \in Lists : IsSliceOf(arrays'[k], cache'[k]) /\ IsSliceOf(arrays'[k], held'[k])
  BY <1>1, <1>3
<1>5. ASSUME NEW k \in Lists \ shifted' PROVE Undisturbed(k)'
  <2>1. CASE k = l
    <3>1. cache[l].len \in Nat
      BY DEF Slice
    <3> QED
      BY <1>1, <1>3, <2>1, <3>1 DEF Undisturbed, Cache, View
  <2>2. CASE k # l
    <3>1. Undisturbed(k)
      BY <1>1, <1>5, <2>2
    <3> QED
      BY <1>1, <1>3, <2>2, <3>1 DEF Undisturbed, View
  <2> QED
    BY <2>1, <2>2
<1>6. Views' = Views
  BY <1>1 DEF Views, Cache, View
<1> QED
  BY <1>1, <1>3, <1>4, <1>5, <1>6

LEMMA InitWell ==
    ASSUME ScheduleInit
    PROVE  ScheduleInv /\ Views = InConfig
<1>1. PICK room \in [Lists -> 0 .. MaxRoom] :
        arrays = [l \in Lists |-> <<Roomy(InConfig[l], room[l])>>]
  BY DEF ScheduleInit
<1>2. /\ cache = [l \in Lists |-> Whole(l)] /\ held = cache /\ taken = InConfig
      /\ shifted = {} /\ listOps = 0
  BY DEF ScheduleInit
<1>3. ASSUME NEW l \in Lists
      PROVE  LET c == InConfig[l]
                 b == arrays[l][1]
             IN  /\ c \in Seq(Slot) /\ b \in Seq(Slot) /\ arrays[l] = <<b>>
                 /\ cache[l] = [array |-> 1, len |-> Len(c)]
                 /\ Len(c) <= Len(b) /\ SubSeq(b, 1, Len(c)) = c
  <2> DEFINE c == InConfig[l]
             b == Roomy(c, room[l])
  <2>1. c \in Seq(Entries) /\ room[l] \in Nat
    BY ScheduleAssumption
  <2>2. c \in Seq(Slot)
    BY <2>1 DEF Slot
  <2>3. arrays[l] = <<b>> /\ arrays[l][1] = b
    BY <1>1
  <2>4. cache[l] = [array |-> 1, len |-> Len(c)]
    BY <1>2 DEF Whole
  <2> HIDE DEF c
  <2>5. b \in Seq(Slot) /\ Len(b) = Len(c) + room[l] /\ \A k \in 1 .. Len(c) : b[k] = c[k]
    BY <2>1, <2>2, RoomyStarts
  <2> HIDE DEF b
  <2>6. Len(c) \in Nat /\ Len(c) <= Len(b)
    BY <2>1, <2>2, <2>5
  <2>7. SubSeq(b, 1, Len(c)) = SubSeq(c, 1, Len(c))
    BY <2>2, <2>5, <2>6, SameStart
  <2>8. SubSeq(c, 1, Len(c)) = c
    BY <2>2, SubSeqFull
  <2>9. SubSeq(b, 1, Len(c)) = c
    BY <2>7, <2>8
  <2> QED
    BY <2>2, <2>3, <2>4, <2>5, <2>6, <2>9 DEF c
<1>4. ASSUME NEW l \in Lists
      PROVE  /\ arrays[l] \in Seq(Seq(Slot)) /\ IsSliceOf(arrays[l], cache[l])
             /\ cache[l] \in Slice /\ InConfig[l] \in Seq(Slot)
             /\ Cache(l) = InConfig[l]
  <2> DEFINE c == InConfig[l]
             b == arrays[l][1]
  <2>1. /\ c \in Seq(Slot) /\ b \in Seq(Slot) /\ arrays[l] = <<b>>
        /\ cache[l] = [array |-> 1, len |-> Len(c)]
        /\ Len(c) <= Len(b) /\ SubSeq(b, 1, Len(c)) = c
    BY <1>3
  <2>2. Len(c) \in Nat
    BY <2>1
  <2>3. cache[l] \in Slice /\ cache[l].array = 1 /\ cache[l].len = Len(c)
    BY <2>1, <2>2 DEF Slice
  <2>4. Cache(l) = c
    BY <2>1, <2>3 DEF Cache, View
  <2> HIDE DEF b, c
  <2>5. arrays[l] \in Seq(Seq(Slot)) /\ 1 \in DOMAIN arrays[l] /\ arrays[l][1] = b
    BY <2>1
  <2>6. IsSliceOf(arrays[l], cache[l])
    BY <2>1, <2>3, <2>5 DEF IsSliceOf
  <2> QED
    BY <2>1, <2>3, <2>4, <2>5, <2>6 DEF c
<1>5. InConfig = [l \in Lists |-> InConfig[l]]
  BY ScheduleAssumption
<1>6. Views = InConfig
  BY <1>4, <1>5 DEF Views
<1>7. \A l \in Lists : Undisturbed(l)
  <2> SUFFICES ASSUME NEW l \in Lists PROVE Undisturbed(l)
    OBVIOUS
  <2>1. cache[l].len \in Nat /\ View(l, held[l]) = taken[l]
    BY <1>2, <1>4 DEF Slice, Cache
  <2> QED
    BY <1>2, <2>1 DEF Undisturbed
<1>8. /\ arrays \in [Lists -> Seq(Seq(Slot))] /\ cache \in [Lists -> Slice]
      /\ taken \in [Lists -> Seq(Slot)]
  BY <1>1, <1>2, <1>4, <1>5
<1> QED
  BY <1>2, <1>4, <1>6, <1>7, <1>8 DEF ScheduleInv

\* The steps, seen from the invariant and from the lists.
LEMMA ScheduleStep ==
    ASSUME ScheduleInv, [ScheduleNext]_scheduleVars
    PROVE  /\ ScheduleInv'
           /\ \/ Views' = Views
              \/ \E l \in Lists, e \in Entries :
                   LET i == Position(arrays[l], cache[l], e.name)
                   IN  \/ Views' = [Views EXCEPT ![l] = Append(@, e)]
                       \/ i # 0 /\ Views' = [Views EXCEPT ![l] = RemoveAt(@, i)]
                       \/ i # 0 /\ Views' = [Views EXCEPT ![l] = Append(RemoveAt(@, i), e)]
<1>1. CASE UNCHANGED scheduleVars
  BY <1>1 DEF scheduleVars, ScheduleInv, Undisturbed, View, Views, Cache
<1>2. CASE ScheduleNext
  <2>1. /\ listOps' \in Nat
        /\ "schedules" \in Lists /\ "scheduleEvents" \in Lists
    BY <1>2, ScheduleAssumption DEF ScheduleNext, ScheduleInv
  <2>2. PICK l \in Lists : \/ \E e \in Entries : \/ AddEntry(l, e) \/ RemoveEntry(l, e)
                                                  \/ UpdateEntry(l, e)
                           \/ GetAll(l)
    BY <1>2, <2>1 DEF ScheduleNext, AddSchedule, RemoveSchedule, UpdateSchedule,
         AddScheduleEvent, RemoveScheduleEvent, UpdateScheduleEvent,
         GetAllSchedules, GetAllScheduleEvents
  <2>3. CASE GetAll(l)
    BY <2>1, <2>3, GetAllWell
  <2>4. ASSUME NEW e \in Entries, AddEntry(l, e)
        PROVE  ScheduleInv' /\ Views' = [Views EXCEPT ![l] = Append(@, e)]
    BY <2>1, <2>4, AddWell
  <2>5. ASSUME NEW e \in Entries, RemoveEntry(l, e)
        PROVE  LET i == Position(arrays[l], cache[l], e.name)
               IN  ScheduleInv' /\ i # 0 /\ Views' = [Views EXCEPT ![l] = RemoveAt(@, i)]
    BY <2>1, <2>5, RemoveWell
  <2>6. ASSUME NEW e \in Entries, UpdateEntry(l, e)
        PROVE  LET i == Position(arrays[l], cache[l], e.name)
               IN  /\ ScheduleInv' /\ i # 0
                   /\ Views' = [Views EXCEPT ![l] = Append(RemoveAt(@, i), e)]
    BY <2>1, <2>6, UpdateWell
  <2> QED
    BY Zenon, <2>2, <2>3, <2>4, <2>5, <2>6
<1> QED
  BY <1>1, <1>2

\* The invariant, for any configuration, any entries and any number of calls.
THEOREM ScheduleInvariant == ScheduleSpec => []ScheduleInv
<1>1. ScheduleInit => ScheduleInv
  BY InitWell
<1>2. ScheduleInv /\ [ScheduleNext]_scheduleVars => ScheduleInv'
  BY ScheduleStep
<1> QED
  BY <1>1, <1>2, PTL DEF ScheduleSpec

\* ScheduleTypeOK: every slice lies in an array there is.
THEOREM ScheduleTypes == ScheduleSpec => []ScheduleTypeOK
<1>1. ScheduleInv => ScheduleTypeOK
  BY DEF ScheduleInv, ScheduleTypeOK, IsSliceOf, IsSlice, Slice, Slot
<1> QED
  BY <1>1, ScheduleInvariant, PTL

\* SnapshotKept: however much is added, to whatever arrays, a slice shows what
\* it showed when it was taken until an entry of its list is removed.
THEOREM SnapshotsKept == ScheduleSpec => []SnapshotKept
<1>1. ScheduleInv => SnapshotKept
  BY DEF ScheduleInv, SnapshotKept, Undisturbed
<1> QED
  BY <1>1, ScheduleInvariant, PTL

LEMMA PositionIsFirst ==
    ASSUME NEW l \in Lists, NEW n
    PROVE  /\ Position(arrays[l], cache[l], n) = FirstOf(Views[l], n)
           /\ Position(arrays[l], cache[l], n) = Promise!First(Views[l], n)
<1>1. Views[l] = SubSeq(arrays[l][cache[l].array], 1, cache[l].len)
  BY DEF Views, Cache, View
<1>2. Position(arrays[l], cache[l], n) =
        FirstOf(SubSeq(arrays[l][cache[l].array], 1, cache[l].len), n)
  BY Zenon DEF Position, FirstOf
<1>3. \A v : Promise!First(v, n) = FirstOf(v, n)
  BY Zenon DEF Promise!First, Promise!SelectInSeq, Promise!Min, FirstOf, SelectInSeq, Min
<1> QED
  BY <1>1, <1>2, <1>3

\* ImplementsLists: the cache implements NamedLists. It starts as the lists of
\* the configuration, and every call does to the lists what its abstract
\* counterpart does or leaves them alone.
THEOREM ListsImplemented == ScheduleSpec => ImplementsLists
<1>1. ScheduleInit => Views \in [Lists -> Seq(Entries)]
  BY InitWell, ScheduleAssumption
<1>2. ScheduleInv /\ [ScheduleNext]_scheduleVars => [Promise!ListNext]_Views
  <2> SUFFICES ASSUME ScheduleInv, [ScheduleNext]_scheduleVars, Views' # Views
               PROVE  Promise!ListNext
    OBVIOUS
  <2>1. PICK l \in Lists, e \in Entries :
          LET i == Position(arrays[l], cache[l], e.name)
          IN  \/ Views' = [Views EXCEPT ![l] = Append(@, e)]
              \/ i # 0 /\ Views' = [Views EXCEPT ![l] = RemoveAt(@, i)]
              \/ i # 0 /\ Views' = [Views EXCEPT ![l] = Append(RemoveAt(@, i), e)]
    BY ScheduleStep
  <2> DEFINE i == Position(arrays[l], cache[l], e.name)
  <2>2. i = Promise!First(Views[l], e.name)
    BY PositionIsFirst
  <2> HIDE DEF i
  <2>3. CASE Views' = [Views EXCEPT ![l] = Append(@, e)]
    <3>1. Promise!Append1(l, e)
      BY <2>3 DEF Promise!Append1, Views
    <3> QED
      BY <3>1 DEF Promise!ListNext
  <2>4. CASE i # 0 /\ Views' = [Views EXCEPT ![l] = RemoveAt(@, i)]
    <3>1. Promise!Drop(l, e)
      BY <2>2, <2>4 DEF Promise!Drop, Promise!RemoveAt, RemoveAt, Views
    <3> QED
      BY <3>1 DEF Promise!ListNext
  <2>5. CASE i # 0 /\ Views' = [Views EXCEPT ![l] = Append(RemoveAt(@, i), e)]
    <3>1. Promise!Replace(l, e)
      BY <2>2, <2>5 DEF Promise!Replace, Promise!RemoveAt, RemoveAt, Views
    <3> QED
      BY <3>1 DEF Promise!ListNext
  <2> QED
    BY <2>1, <2>3, <2>4, <2>5 DEF i
<1> QED
  BY <1>1, <1>2, ScheduleInvariant, PTL
  DEF ScheduleSpec, ImplementsLists, Promise!ListSpec, Views

\* In a list of unique names, the entry appended for the removed one of its
\* name is the only one of that name.
IsFound(w, e) == FirstOf(w, e.name) # 0 /\ w[FirstOf(w, e.name)] = e

LEMMA ReplacedFound ==
    ASSUME NEW T, NEW v \in Seq(T), NEW e \in T, NEW i \in 1 .. Len(v),
           v[i].name = e.name, Unique(v)
    PROVE  IsFound(Append(RemoveAt(v, i), e), e)
<1> DEFINE u == RemoveAt(v, i)
           m == Len(v)
           w == Append(u, e)
           f == FirstOf(w, e.name)
<1>1. /\ u \in Seq(T) /\ Len(u) = m - 1 /\ m \in Nat /\ DOMAIN v = 1 .. m
      /\ \A k \in 1 .. m - 1 : u[k] = IF k < i THEN v[k] ELSE v[k + 1]
  <2>1. IsWithout(T, v, i, u)
    BY Without
  <2> QED
    BY <2>1 DEF IsWithout
<1> HIDE DEF u, m
<1>2. /\ w \in Seq(T) /\ Len(w) = m /\ w[m] = e
      /\ \A k \in 1 .. m - 1 : w[k] = u[k]
  <2>1. /\ w \in Seq(T) /\ Len(w) = Len(u) + 1 /\ w[Len(u) + 1] = e
        /\ \A k \in 1 .. Len(u) : w[k] = u[k]
    BY <1>1, AppendProperties DEF u
  <2>2. Len(u) + 1 = m
    BY <1>1
  <2> QED
    BY <1>1, <2>1, <2>2
<1>3. ASSUME NEW k \in 1 .. m - 1 PROVE w[k].name # e.name
  <2>1. PICK j \in 1 .. m : j # i /\ w[k] = v[j]
    <3>1. i \in 1 .. m /\ k \in 1 .. m /\ k + 1 \in 1 .. m /\ (k < i => k # i)
          /\ (~(k < i) => k + 1 # i)
      BY <1>1 DEF m
    <3> QED
      BY <1>1, <1>2, <3>1
  <2>2. i \in DOMAIN v /\ j \in DOMAIN v
    BY <1>1 DEF m
  <2> QED
    BY <2>1, <2>2 DEF Unique
<1> HIDE DEF w
<1>4. IsFirst(w, e.name, f)
  BY <1>2, FirstFound
<1> HIDE DEF f
<1>5. m \in 1 .. Len(w) /\ w[m].name = e.name
  BY <1>1, <1>2 DEF m
<1>6. f \in 1 .. m /\ w[f].name = e.name
  BY <1>1, <1>2, <1>4, <1>5 DEF IsFirst
<1>7. f = m
  <2>1. f \in 1 .. m - 1 \/ f = m
    BY <1>1, <1>6
  <2> QED
    BY <1>3, <1>6, <2>1
<1>8. f # 0 /\ w[f] = e
  BY <1>1, <1>2, <1>6, <1>7
<1> QED
  BY <1>8 DEF IsFound, f, w, u

LEMMA PositionInView ==
    ASSUME NEW arrs, NEW s, NEW n
    PROVE  Position(arrs, s, n) = FirstOf(ViewOf(arrs, s), n)
BY Zenon DEF Position, FirstOf, ViewOf

\* UpdateVisible: after an update the lookup of that name finds the new entry,
\* if no two entries had the name before.
THEOREM UpdatesVisible == ScheduleSpec => UpdateVisible
<1> DEFINE l == "schedules"
           Visible == \A e \in Entries :
             UpdateSchedule(e) /\ Unique(Cache("schedules")) =>
               GetByName("schedules", e.name)' = e
<1>1. ScheduleInv /\ [ScheduleNext]_scheduleVars => [Visible]_scheduleVars
  <2> SUFFICES ASSUME ScheduleInv, ScheduleNext, NEW e \in Entries,
                      UpdateSchedule(e), Unique(Cache(l))
               PROVE  GetByName(l, e.name)' = e
    OBVIOUS
  <2>1. l \in Lists /\ listOps' \in Nat /\ UpdateEntry(l, e)
    BY ScheduleAssumption DEF ScheduleNext, ScheduleInv, UpdateSchedule
  <2> DEFINE i == Position(arrays[l], cache[l], e.name)
             v == Cache(l)
             w == Append(RemoveAt(v, i), e)
  <2>2. ScheduleInv' /\ i # 0 /\ Views' = [Views EXCEPT ![l] = Append(RemoveAt(@, i), e)]
    BY <2>1, UpdateWell
  <2>3. Cache(l)' = w
    <3> DEFINE V == Views
               W == Views'
    <3>1. V[l] = v /\ W[l] = Cache(l)' /\ l \in DOMAIN V
      BY <2>1 DEF Views
    <3> HIDE DEF V, W, v, i
    <3>2. W = [V EXCEPT ![l] = Append(RemoveAt(@, i), e)]
      BY <2>2 DEF V, W
    <3> QED
      BY <3>1, <3>2
  <2>4. v \in Seq(Slot) /\ v = ViewOf(arrays[l], cache[l])
    <3> DEFINE a == arrays[l][cache[l].array]
               n == cache[l].len
    <3>1. a \in Seq(Slot) /\ n \in Nat /\ n <= Len(a)
      BY <2>1 DEF ScheduleInv, IsSliceOf, Slice
    <3>2. v = SubSeq(a, 1, n) /\ v = ViewOf(arrays[l], cache[l])
      BY DEF Cache, View, ViewOf
    <3> HIDE DEF a, n, v
    <3>3. 1 <= n + 1
      BY <3>1
    <3>4. IsPart(Slot, a, 1, n, SubSeq(a, 1, n))
      BY <3>1, <3>3, PartOf
    <3> QED
      BY <3>2, <3>4 DEF IsPart
  <2>5. i \in 1 .. Len(v) /\ v[i].name = e.name
    <3>1. i = FirstOf(v, e.name)
      BY <2>4, PositionInView
    <3> HIDE DEF i, v
    <3>2. IsFirst(v, e.name, i)
      BY <2>4, <3>1, FirstFound
    <3> QED
      BY <2>2, <2>4, <3>2 DEF IsFirst
  <2> DEFINE f == FirstOf(w, e.name)
  <2>6. f # 0 /\ w[f] = e
    <3>1. e \in Slot /\ Unique(v)
      BY DEF Slot
    <3> HIDE DEF i, v
    <3>2. IsFound(Append(RemoveAt(v, i), e), e)
      BY <2>4, <2>5, <3>1, ReplacedFound
    <3> QED
      BY <3>2 DEF IsFound
  <2>7. Position(arrays'[l], cache'[l], e.name) = f
    <3>1. Position(arrays'[l], cache'[l], e.name)
            = FirstOf(ViewOf(arrays'[l], cache'[l]), e.name)
      BY PositionInView
    <3>2. ViewOf(arrays'[l], cache'[l]) = Cache(l)'
      BY DEF Cache, View, ViewOf
    <3> HIDE DEF w
    <3> QED
      BY <2>3, <3>1, <3>2
  <2> HIDE DEF f, w, v, i
  <2> QED
    BY <2>3, <2>6, <2>7 DEF GetByName
<1> QED
  BY <1>1, ScheduleInvariant, PTL DEF ScheduleSpec, UpdateVisible

-----------------------------------------------------------------------------
(* Command results: bytes and numbers.                                      *)

LEMMA Multiple ==
    ASSUME NEW D \in Nat \ {0}, NEW m \in Int, m >= 1
    PROVE  D * m >= D
OBVIOUS

\* Quotient and remainder are the only ones.
LEMMA Division ==
    ASSUME NEW D \in Nat \ {0}, NEW y \in Int, NEW z \in Int, 0 <= z, z < D
    PROVE  (D * y + z) \div D = y /\ (D * y + z) % D = z
<1> DEFINE x == D * y + z
           q == x \div D
           r == x % D
<1>1. x \in Int /\ q \in Int /\ r \in Int
  OBVIOUS
<1>2. x = D * q + r /\ 0 <= r /\ r < D
  OBVIOUS
<1>3. D * (y - q) = r - z
  BY <1>1, <1>2
<1> HIDE DEF x, q, r
<1>4. ~ (y - q >= 1)
  BY <1>1, <1>2, <1>3, Multiple
<1>5. ~ (q - y >= 1)
  <2>1. D * (q - y) = z - r
    BY <1>1, <1>3
  <2> QED
    BY <1>1, <1>2, <2>1, Multiple
<1>6. q = y
  BY <1>1, <1>4, <1>5
<1> QED
  BY <1>1, <1>2, <1>6 DEF x, q, r

LEMMA Remainder ==
    ASSUME NEW v \in Int, NEW D \in Nat \ {0}
    PROVE  /\ v \div D \in Int /\ v = D * (v \div D) + (v % D)
           /\ 0 <= v /\ v < D => v % D = v
           /\ -D <= v /\ v < 0 => v % D = v + D
<1>1. v \div D \in Int /\ v = D * (v \div D) + (v % D)
  OBVIOUS
<1>2. 0 <= v /\ v < D => v % D = v
  <2>1. v = D * 0 + v
    OBVIOUS
  <2> QED
    BY <2>1, Division
<1>3. -D <= v /\ v < 0 => v % D = v + D
  <2>1. v = D * (-1) + (v + D) /\ -1 \in Int /\ v + D \in Int
    OBVIOUS
  <2> QED
    BY <2>1, Division
<1> QED
  BY <1>1, <1>2, <1>3

LEMMA DivisionTwice ==
    ASSUME NEW v \in Int, NEW P \in Nat \ {0}, NEW B \in Nat \ {0}
    PROVE  v \div (B * P) = (v \div P) \div B
<1> DEFINE q == v \div P
           r == v % P
           s == q \div B
           u == q % B
<1>1. q \in Int /\ r \in Int /\ v = P * q + r /\ 0 <= r /\ r < P
  OBVIOUS
<1> HIDE DEF q, r
<1>2. s \in Int /\ u \in Int /\ q = B * s + u /\ 0 <= u /\ u < B
  BY <1>1
<1> HIDE DEF s, u
<1>3. v = (B * P) * s + (P * u + r)
  BY <1>1, <1>2
<1>4. B * P \in Nat \ {0} /\ P * u + r \in Int /\ 0 <= P * u + r
  BY <1>1, <1>2
<1>5. P * u + r < B * P
  <2>1. B - u \in Int /\ B - u >= 1
    BY <1>2
  <2>2. P * (B - u) >= P
    BY <2>1, Multiple
  <2> QED
    BY <1>1, <1>2, <2>2
<1> QED
  BY SMTT(30), <1>2, <1>3, <1>4, <1>5, Division DEF q, s

\* What holds at 0 and passes from each number to the next holds up to w.
LEMMA EightRounds ==
    ASSUME NEW w \in 0 .. 8, NEW S, 0 \in S, \A k \in 1 .. w : k - 1 \in S => k \in S
    PROVE  \A k \in 0 .. w : k \in S
<1>1. /\ w >= 1 => 1 \in S
      /\ w >= 2 => 2 \in S
  OBVIOUS
<1>2. /\ w >= 3 => 3 \in S
      /\ w >= 4 => 4 \in S
  BY <1>1
<1>3. /\ w >= 5 => 5 \in S
      /\ w >= 6 => 6 \in S
  BY <1>2
<1>4. /\ w >= 7 => 7 \in S
      /\ w >= 8 => 8 \in S
  BY <1>3
<1> QED
  BY <1>1, <1>2, <1>3, <1>4

LEMMA WeightGrows ==
    /\ Weight[0] = 1
    /\ \A k \in 1 .. 8 : Weight[k] = Byte * Weight[k - 1]
    /\ \A k \in 0 .. 8 : Weight[k] \in Nat \ {0}
<1> DEFINE eq(f) == f = [k \in 0 .. 8 |-> IF k = 0 THEN 1 ELSE Byte * f[k - 1]]
           p1 == Byte * 1
           p2 == Byte * p1
           p3 == Byte * p2
           p4 == Byte * p3
           p5 == Byte * p4
           p6 == Byte * p5
           p7 == Byte * p6
           p8 == Byte * p7
           e == [k \in 0 .. 8 |->
                  CASE k = 0 -> 1 [] k = 1 -> p1 [] k = 2 -> p2 [] k = 3 -> p3
                    [] k = 4 -> p4 [] k = 5 -> p5 [] k = 6 -> p6 [] k = 7 -> p7
                    [] k = 8 -> p8]
<1>1. \E f : eq(f)
  <2>1. /\ e[1] = Byte * e[0] /\ e[2] = Byte * e[1] /\ e[3] = Byte * e[2]
        /\ e[4] = Byte * e[3] /\ e[5] = Byte * e[4] /\ e[6] = Byte * e[5]
        /\ e[7] = Byte * e[6] /\ e[8] = Byte * e[7] /\ e[0] = 1
    <3> HIDE DEF p1, p2, p3, p4, p5, p6, p7, p8
    <3>1. /\ e[0] = 1 /\ e[1] = p1 /\ e[2] = p2 /\ e[3] = p3 /\ e[4] = p4
          /\ e[5] = p5 /\ e[6] = p6 /\ e[7] = p7 /\ e[8] = p8
      OBVIOUS
    <3> HIDE DEF e
    <3> QED
      BY <3>1 DEF p1, p2, p3, p4, p5, p6, p7, p8
  <2>2. e = [k \in 0 .. 8 |-> e[k]]
    OBVIOUS
  <2> HIDE DEF e
  <2>3. \A k \in 0 .. 8 : e[k] = IF k = 0 THEN 1 ELSE Byte * e[k - 1]
    <3> SUFFICES ASSUME NEW k \in 0 .. 8 PROVE e[k] = IF k = 0 THEN 1 ELSE Byte * e[k - 1]
      OBVIOUS
    <3>1. \/ k = 0 \/ k = 1 \/ k = 2 \/ k = 3 \/ k = 4 \/ k = 5 \/ k = 6 \/ k = 7 \/ k = 8
      OBVIOUS
    <3> QED
      BY <2>1, <3>1
  <2> QED
    BY <2>2, <2>3
<1>2. eq(Weight)
  <2>1. Weight = CHOOSE f : eq(f)
    BY Zenon DEF Weight
  <2> QED
    BY <1>1, <2>1
<1> HIDE DEF e
<1>3. Weight[0] = 1 /\ \A k \in 1 .. 8 : Weight[k] = Byte * Weight[k - 1]
  BY <1>2
<1> DEFINE S == {k \in 0 .. 8 : Weight[k] \in Nat \ {0}}
<1>4. 0 \in S /\ \A k \in 1 .. 8 : k - 1 \in S => k \in S
  <2>1. 0 \in S
    BY <1>3
  <2>2. ASSUME NEW k \in 1 .. 8, k - 1 \in S PROVE k \in S
    <3>1. Weight[k] = Byte * Weight[k - 1] /\ Weight[k - 1] \in Nat \ {0}
      BY <1>3, <2>2
    <3>2. Byte \in Nat \ {0} /\ Weight[k - 1] >= 1
      BY <3>1, ResultAssumption
    <3>3. Byte * Weight[k - 1] >= Byte
      BY <3>1, <3>2, Multiple
    <3> QED
      BY <3>1, <3>2, <3>3
  <2> QED
    BY <2>1, <2>2
<1>5. \A k \in 0 .. 8 : k \in S
  <2> HIDE DEF S
  <2> QED
    BY <1>4, EightRounds
<1> QED
  BY <1>3, <1>5

\* n adds up the bytes as binary.Read does.
IsNumber(w, bytes, n) ==
    n = [k \in 0 .. w |-> IF k = 0 THEN 0 ELSE n[k - 1] * Byte + bytes[k]]

\* The bytes of a number add up to it, modulo the values of its type.
LEMMA DigitsAddUp ==
    ASSUME NEW w \in 1 .. 8, NEW v \in Int
    PROVE  /\ \E n : IsNumber(w, BigEndian(w, v), n)
           /\ \A n : IsNumber(w, BigEndian(w, v), n) => n[w] = v % Weight[w]
<1> DEFINE Q == v \div Weight[w]
           h(k) == (v \div Weight[w - k]) - Q * Weight[k]
           d == BigEndian(w, v)
<1>1. \A k \in 0 .. w : /\ Weight[k] \in Nat \ {0} /\ Weight[w - k] \in Nat \ {0}
                        /\ v \div Weight[w - k] \in Int /\ h(k) \in Int
  <2> SUFFICES ASSUME NEW k \in 0 .. w
               PROVE  /\ Weight[k] \in Nat \ {0} /\ Weight[w - k] \in Nat \ {0}
                      /\ v \div Weight[w - k] \in Int /\ h(k) \in Int
    OBVIOUS
  <2>1. k \in 0 .. 8 /\ w - k \in 0 .. 8 /\ w \in 0 .. 8
    OBVIOUS
  <2>2. Weight[k] \in Nat \ {0} /\ Weight[w - k] \in Nat \ {0} /\ Weight[w] \in Nat \ {0}
    BY <2>1, WeightGrows
  <2>3. v \div Weight[w - k] \in Int /\ Q \in Int
    BY <2>2
  <2> QED
    BY <2>2, <2>3
<1>2. Q \in Int /\ w \in 0 .. w /\ 0 \in 0 .. w
  BY <1>1
<1>3. h(0) = 0
  <2>1. w - 0 = w /\ Weight[0] = 1
    BY WeightGrows
  <2> QED
    BY <1>2, <2>1
<1>4. ASSUME NEW k \in 1 .. w PROVE h(k) = h(k - 1) * Byte + d[k]
  <2> DEFINE P == Weight[w - k]
             R == Weight[w - (k - 1)]
             a == v \div P
             b == v \div R
  <2>1. /\ w - (k - 1) \in 1 .. 8 /\ w - (k - 1) - 1 = w - k /\ k \in 1 .. 8
        /\ k \in 0 .. w /\ k - 1 \in 0 .. w
    OBVIOUS
  <2>2. R = Byte * P /\ Weight[k] = Byte * Weight[k - 1]
    BY <2>1, WeightGrows
  <2>3. P \in Nat \ {0} /\ Byte \in Nat \ {0} /\ a \in Int /\ b \in Int
        /\ Weight[k - 1] \in Int
    BY <1>1, <2>1, ResultAssumption
  <2>4. d[k] = a % Byte
    BY <2>1 DEF BigEndian
  <2> HIDE DEF P, R
  <2>5. b = a \div Byte
    BY <2>2, <2>3, DivisionTwice
  <2> HIDE DEF a, b
  <2>6. a = Byte * b + d[k] /\ d[k] \in Int
    BY <2>3, <2>4, <2>5
  <2> HIDE DEF Q, d
  <2>7. h(k) = a - Q * Weight[k] /\ h(k - 1) = b - Q * Weight[k - 1]
    BY DEF a, b, P, R
  <2>8. (b - Q * Weight[k - 1]) * Byte = Byte * b - Q * (Byte * Weight[k - 1])
    BY <1>2, <2>3
  <2> QED
    BY <1>2, <2>2, <2>3, <2>6, <2>7, <2>8
<1>5. h(w) = v % Weight[w]
  <2>1. w - w = 0 /\ Weight[0] = 1 /\ Weight[w] \in Nat \ {0}
    BY <1>1, <1>2, WeightGrows
  <2>2. v \div 1 = v
    OBVIOUS
  <2>3. v = Weight[w] * Q + (v % Weight[w])
    BY <2>1, Remainder
  <2> QED
    BY <1>2, <2>1, <2>2, <2>3
<1> HIDE DEF h, d
<1>6. \E n : IsNumber(w, d, n)
  <2> DEFINE e == [k \in 0 .. w |-> h(k)]
  <2>1. \A k \in 0 .. w : e[k] = IF k = 0 THEN 0 ELSE e[k - 1] * Byte + d[k]
    <3> SUFFICES ASSUME NEW k \in 0 .. w
                 PROVE  e[k] = IF k = 0 THEN 0 ELSE e[k - 1] * Byte + d[k]
      OBVIOUS
    <3>1. CASE k = 0
      BY <1>2, <1>3, <3>1
    <3>2. CASE k # 0
      <4>1. k \in 1 .. w /\ k - 1 \in 0 .. w
        BY <3>2
      <4> QED
        BY <1>4, <3>2, <4>1
    <3> QED
      BY <3>1, <3>2
  <2>2. e = [k \in 0 .. w |-> e[k]]
    OBVIOUS
  <2> HIDE DEF e
  <2>3. IsNumber(w, d, e)
    BY <2>1, <2>2 DEF IsNumber
  <2> QED
    BY <2>3
<1>7. ASSUME NEW n, IsNumber(w, d, n) PROVE n[w] = v % Weight[w]
  <2> DEFINE S == {k \in 0 .. w : n[k] = h(k)}
  <2>1. \A k \in 0 .. w : n[k] = IF k = 0 THEN 0 ELSE n[k - 1] * Byte + d[k]
    BY <1>7 DEF IsNumber
  <2>2. 0 \in S
    BY <1>2, <1>3, <2>1
  <2>3. \A k \in 1 .. w : k - 1 \in S => k \in S
    <3> SUFFICES ASSUME NEW k \in 1 .. w, n[k - 1] = h(k - 1) PROVE k \in 0 .. w /\ n[k] = h(k)
      OBVIOUS
    <3>1. k \in 0 .. w /\ k # 0
      OBVIOUS
    <3> QED
      BY <1>4, <2>1, <3>1
  <2>4. w \in 0 .. 8
    OBVIOUS
  <2> HIDE DEF S
  <2>5. w \in S
    BY <1>2, <2>2, <2>3, <2>4, EightRounds
  <2> QED
    BY <1>5, <2>5 DEF S
<1> QED
  BY <1>6, <1>7 DEF d

LEMMA WidthsOf ==
    /\ \A t \in Numeric : Width[t] \in {1, 2, 4, 8}
    /\ Numeric \cap {"Bool", "String"} = {}
    /\ Signed \cap (Unsigned \cup Floats \cup {"Bool", "String"}) = {}
BY DEF Width, Numeric, Unsigned, Signed, Floats

\* Half the values of a type are the negative ones.
LEMMA SizeOf ==
    ASSUME NEW t \in Numeric
    PROVE  /\ Size(t) \in Nat \ {0} /\ Size(t) \div 2 \in Nat
           /\ Size(t) = 2 * (Size(t) \div 2)
<1>1. Width[t] \in 1 .. 8 /\ Width[t] \in 0 .. 8 /\ Width[t] - 1 \in 0 .. 8
  BY WidthsOf
<1>2. /\ Size(t) = Byte * Weight[Width[t] - 1]
      /\ Size(t) \in Nat \ {0} /\ Weight[Width[t] - 1] \in Nat
  BY <1>1, WeightGrows DEF Size
<1>3. PICK b \in Nat : Byte = 2 * b
  <2>1. Byte \div 2 \in Nat /\ Byte = 2 * (Byte \div 2)
    BY ResultAssumption
  <2> QED
    BY <2>1
<1>4. Size(t) = 2 * (b * Weight[Width[t] - 1]) /\ b * Weight[Width[t] - 1] \in Nat
  BY <1>2, <1>3
<1> HIDE DEF Size
<1> QED
  BY <1>2, <1>4

\* What is written in the bytes of a type is read back.
LEMMA ReadWritten ==
    ASSUME NEW t \in Numeric, NEW v \in ValuesOf(t)
    PROVE  BinaryRead(BigEndian(Width[t], v), t) = v
<1> DEFINE w == Width[t]
           d == BigEndian(w, v)
           m == CHOOSE n : IsNumber(w, d, n)
<1>1. /\ t \in Signed => v \in -(Size(t) \div 2) .. Size(t) \div 2 - 1
      /\ t \notin Signed => v \in 0 .. Size(t) - 1
  BY WidthsOf DEF ValuesOf, Numeric
<1>2. v \in Int /\ w \in 1 .. 8
  BY <1>1, SizeOf, WidthsOf
<1> HIDE DEF w, d
<1>3. m[w] = v % Size(t)
  <2>1. IsNumber(w, d, m)
    BY <1>2, DigitsAddUp DEF d
  <2> HIDE DEF m
  <2> QED
    BY <1>2, <2>1, DigitsAddUp DEF d, Size, w
<1>4. BinaryRead(d, t) = IF t \in Signed /\ m[w] >= Size(t) \div 2 THEN m[w] - Size(t) ELSE m[w]
  BY Zenon DEF BinaryRead, IsNumber, w
<1> HIDE DEF m
<1>5. Size(t) \in Nat \ {0} /\ Size(t) = 2 * (Size(t) \div 2) /\ Size(t) \div 2 \in Nat
  BY SizeOf
<1>6. CASE v >= 0
  <2>1. v < Size(t)
    BY <1>1, <1>5
  <2>2. v % Size(t) = v
    BY <1>2, <1>5, <1>6, <2>1
  <2> QED
    BY <1>1, <1>3, <1>4, <1>5, <2>2 DEF d, w
<1>7. CASE v < 0
  <2>1. t \in Signed /\ v + Size(t) >= Size(t) \div 2 /\ -Size(t) <= v
    BY <1>1, <1>2, <1>5, <1>7
  <2>3. v % Size(t) = v + Size(t)
    BY <1>2, <1>5, <1>7, <2>1, Remainder
  <2> QED
    BY <1>2, <1>3, <1>4, <1>5, <2>1, <2>3 DEF d, w
<1> QED
  BY <1>2, <1>6, <1>7

\* ReadingExact, for bytes of any even number of values, and so for those of
\* the machine: no type loses a value, and none takes a sign for a digit.
THEOREM ReadingsExact == ResultSpec => []ReadingExact
<1>1. ResultInit => ReadingExact
  BY DEF ResultInit, ReadingExact
<1>2. ReadingExact /\ [ResultNext]_resultVars => ReadingExact'
  <2>1. CASE UNCHANGED resultVars
    BY <2>1 DEF resultVars, ReadingExact
  <2>2. ASSUME HandleFilled PROVE ReadingExact'
    BY <2>2 DEF HandleFilled, ReadingExact
  <2>3. ASSUME HandleConstructed PROVE ReadingExact'
    <3>1. PICK t \in Numeric \cup {"Bool", "String"}, o \in Times :
            \E v \in ValuesOf(t) : /\ meant' = [type |-> t, value |-> v]
                                   /\ reading' = Reading(NewResult(t, o, v))
      BY <2>3 DEF HandleConstructed
    <3>4. PICK v \in ValuesOf(t) : /\ meant' = [type |-> t, value |-> v]
                                   /\ reading' = Reading(NewResult(t, o, v))
      BY <3>1
    <3>2. CASE t \in {"Bool", "String"}
      BY <3>4, <3>2, WidthsOf
      DEF ReadingExact, Reading, NewResult, NewBoolResult, NewStringResult, toString
    <3>3. CASE t \in Numeric
      <4> DEFINE cr == NewNumericResult(t, o, v)
      <4>1. t \notin {"Bool", "String"} /\ NewResult(t, o, v) = cr
        BY <3>3, WidthsOf DEF NewResult
      <4>2. cr.type = t /\ cr.bytes = BigEndian(Width[t], v)
        BY DEF NewNumericResult
      <4>3. ~ Short(cr)
        <5>1. Len(BigEndian(Width[t], v)) = Width[t]
          BY <3>3, WidthsOf DEF BigEndian
        <5> QED
          BY <3>3, <4>2, <5>1, WidthsOf DEF Short
      <4>4. BinaryRead(cr.bytes, cr.type) = v
        BY <3>3, <4>2, ReadWritten
      <4> HIDE DEF cr
      <4>5. t \notin Floats => toString(cr) = [kind |-> "number", of |-> v]
        BY <4>1, <4>2, <4>3, <4>4 DEF toString
      <4>6. reading'.value = toString(cr)
        BY <3>4, <4>1 DEF Reading
      <4> QED
        BY <3>4, <4>1, <4>5, <4>6 DEF ReadingExact
    <3> QED
      BY <3>1, <3>2, <3>3
  <2> QED
    BY <2>1, <2>2, <2>3 DEF ResultNext
<1> QED
  BY <1>1, <1>2, PTL DEF ResultSpec

\* A reading has a kind of text and the time of its result, or the present.
LEMMA ReadingTyped ==
    ASSUME NEW cr, cr.origin \in Times \cup {0}
    PROVE  /\ Reading(cr).value.kind \in {"bool", "string", "number", "error"}
           /\ Reading(cr).origin \in Times \cup {Now}
<1>1. toString(cr).kind \in {"bool", "string", "number", "error"}
  BY DEF toString
<1>2. cr.origin > 0 => cr.origin \in Times
  OBVIOUS
<1> QED
  BY <1>1, <1>2 DEF Reading

THEOREM ReadingsTyped == ResultSpec => []ResultTypeOK
<1>1. ResultInit => ResultTypeOK
  BY DEF ResultInit, ResultTypeOK
<1>2. ResultTypeOK /\ [ResultNext]_resultVars => ResultTypeOK'
  <2>1. CASE UNCHANGED resultVars
    BY <2>1 DEF resultVars, ResultTypeOK
  <2>2. ASSUME HandleFilled PROVE ResultTypeOK'
    <3>1. PICK t \in Unsigned \cup Signed, u \in Unsigned \cup Signed :
            \E v \in ValuesOf(u) :
              reading' = Reading([NewNumericResult(u, 0, v) EXCEPT !.type = t])
      BY <2>2 DEF HandleFilled
    <3>2. PICK v \in ValuesOf(u) :
            reading' = Reading([NewNumericResult(u, 0, v) EXCEPT !.type = t])
      BY <3>1
    <3>3. [NewNumericResult(u, 0, v) EXCEPT !.type = t].origin = 0
      BY DEF NewNumericResult
    <3> QED
      BY <3>2, <3>3, ReadingTyped DEF ResultTypeOK
  <2>3. ASSUME HandleConstructed PROVE ResultTypeOK'
    <3>1. PICK t \in Numeric \cup {"Bool", "String"}, o \in Times :
            \E v \in ValuesOf(t) : reading' = Reading(NewResult(t, o, v))
      BY <2>3 DEF HandleConstructed
    <3>2. PICK v \in ValuesOf(t) : reading' = Reading(NewResult(t, o, v))
      BY <3>1
    <3>3. NewResult(t, o, v).origin = o
      BY WidthsOf DEF NewResult, NewBoolResult, NewStringResult, NewNumericResult
    <3> QED
      BY <3>2, <3>3, ReadingTyped DEF ResultTypeOK
  <2> QED
    BY <2>1, <2>2, <2>3 DEF ResultNext
<1> QED
  BY <1>1, <1>2, PTL DEF ResultSpec

-----------------------------------------------------------------------------
(* The comparison of devices.                                               *)

LEMMA SameList ==
    ASSUME NEW a, NEW b, IsList(a), IsList(b), compareStrings(a, b)
    PROVE  a = b
<1>1. /\ Len(a) = Len(b) /\ \A i \in DOMAIN a : a[i] = b[i]
      /\ a \in Seq({a[k] : k \in DOMAIN a}) /\ b \in Seq({b[k] : k \in DOMAIN b})
  BY DEF IsList, compareStrings
<1>2. /\ DOMAIN a = 1 .. Len(a) /\ DOMAIN b = 1 .. Len(b)
      /\ a = [i \in DOMAIN a |-> a[i]] /\ b = [i \in DOMAIN b |-> b[i]]
  BY <1>1
<1> QED
  BY <1>1, <1>2

LEMMA SameHeads ==
    ASSUME NEW a, NEW b, IsList(a), IsList(b), compareDeviceResources(a, b)
    PROVE  Attributeless(a) = Attributeless(b)
<1>1. /\ Len(a) = Len(b) /\ \A i \in DOMAIN a : a[i].head = b[i].head
      /\ a \in Seq({a[k] : k \in DOMAIN a}) /\ b \in Seq({b[k] : k \in DOMAIN b})
  BY DEF IsList, compareDeviceResources
<1>2. DOMAIN a = DOMAIN b
  BY <1>1
<1> QED
  BY <1>1, <1>2 DEF Attributeless

LEMMA SameService ==
    ASSUME NEW a, NEW b, IsService(a), IsService(b), compareDeviceServices(a, b)
    PROVE  a = b
<1>1. /\ a.adminState = b.adminState /\ a.service.head = b.service.head
      /\ a.service.labels = b.service.labels
  BY SameList DEF IsService, compareDeviceServices, compareServices
<1>2. /\ a.service = [head |-> a.service.head, labels |-> a.service.labels]
      /\ b.service = [head |-> b.service.head, labels |-> b.service.labels]
  BY DEF IsService
<1>3. a.service = b.service
  BY <1>1, <1>2
<1>4. /\ a = [adminState |-> a.adminState, service |-> a.service]
      /\ b = [adminState |-> b.adminState, service |-> b.service]
  BY DEF IsService
<1> QED
  BY <1>1, <1>3, <1>4

\* Two devices that compare equal agree but for attributes, objects and the
\* contents of resources.
LEMMA EqualAgree ==
    ASSUME NEW a, NEW b, IsDevice(a), IsDevice(b), compareDevices(a, b)
    PROVE  Common(a) = Common(b)
<1> DEFINE p == a.profile
           q == b.profile
<1>1. /\ a.head = b.head /\ a.labels = b.labels /\ a.service = b.service
      /\ compareDeviceProfiles(p, q) /\ IsProfile(p) /\ IsProfile(q)
  BY SameList, SameService DEF IsDevice, compareDevices
<1>2. /\ p.head = q.head /\ p.labels = q.labels /\ Len(p.resources) = Len(q.resources)
      /\ Attributeless(p.deviceResources) = Attributeless(q.deviceResources)
  BY <1>1, SameList, SameHeads DEF IsProfile, compareDeviceProfiles, compareResources
<1>3. p.commands = q.commands
  BY <1>1, SameList
  DEF IsProfile, compareDeviceProfiles, compareCommands, compareStrings
<1> DEFINE Shared(d) ==
             [head |-> d.profile.head, labels |-> d.profile.labels,
              commands |-> d.profile.commands,
              deviceResources |-> Attributeless(d.profile.deviceResources),
              resources |-> Len(d.profile.resources)]
<1>4. Shared(a) = Shared(b)
  BY <1>2, <1>3
<1> HIDE DEF Shared
<1>5. ASSUME NEW d, IsDevice(d)
      PROVE  Common(d) = [head |-> d.head, labels |-> d.labels, profile |-> Shared(d),
                          service |-> d.service]
  <2>1. d = [head |-> d.head, labels |-> d.labels, profile |-> d.profile,
             service |-> d.service]
    BY <1>5 DEF IsDevice
  <2>2. Common(d) = [d EXCEPT !.profile = Shared(d)]
    BY DEF Common, Shared
  <2> QED
    BY <2>1, <2>2
<1> QED
  BY <1>1, <1>4, <1>5

LEMMA SelfEqual ==
    ASSUME NEW d
    PROVE  compareDevices(d, d)
BY DEF compareDevices, compareStrings, compareDeviceProfiles, compareCommands,
       compareDeviceResources, compareResources, compareDeviceServices, compareServices

\* CompareAgrees, for devices of any content: a device never differs from
\* itself, and no helper lets a list pass for one of its prefixes.
THEOREM ComparisonAgrees == CompareSpec => []CompareAgrees
<1>1. CompareInit => CompareAgrees
  BY DEF CompareInit, CompareAgrees
<1>2. CompareAgrees /\ [CompareNext]_compareVars => CompareAgrees'
  <2>1. ASSUME CompareNext PROVE CompareAgrees'
    <3>1. left' \in Compared /\ right' \in Compared
      BY <2>1 DEF CompareNext
    <3>2. verdict' = IF compareDevices(left', right') THEN "equal" ELSE "different"
      BY <2>1 DEF CompareNext
    <3>3. IsDevice(left') /\ IsDevice(right')
      BY <3>1, CompareAssumption
    <3>4. compareDevices(left', right') => Common(left') = Common(right')
      BY <3>3, EqualAgree
    <3>5. left' = right' => compareDevices(left', right')
      BY SelfEqual
    <3> QED
      BY <3>2, <3>4, <3>5 DEF CompareAgrees
  <2> QED
    BY <2>1 DEF CompareAgrees, compareVars
<1> QED
  BY <1>1, <1>2, PTL DEF CompareSpec
-----------------------------------------------------------------------------
(* The parts in one instance, as the run checks them.                       *)

\* A behaviour of the instance is a behaviour of every part: the parts share no
\* variable, and a step of one leaves the others as they are.
THEOREM PartsRunAlone ==
    PartSpec => /\ Spec /\ ImportSpec /\ ScheduleSpec /\ ResultSpec
                /\ CompareSpec /\ StoreSpec /\ EndpointSpec
<1>1. PartInit => /\ Init /\ ImportInit /\ ScheduleInit /\ ResultInit
                  /\ CompareInit /\ StoreInit /\ EndpointInit
  BY DEF PartInit
<1>2. [PartNext]_partVars =>
        /\ [Next]_vars /\ [ImportNext]_importVars
        /\ [ScheduleNext]_scheduleVars /\ [ResultNext]_resultVars
        /\ [CompareNext]_compareVars /\ [StoreNext]_storeVars
        /\ [EndpointNext]_endpointVars
  BY DEF PartNext, partVars
<1> QED
  BY <1>1, <1>2, PTL DEF PartSpec, Spec, ImportSpec, ScheduleSpec, ResultSpec,
     CompareSpec, StoreSpec, EndpointSpec

\* So every type invariant holds in the instance.
THEOREM PartsTyped == PartSpec => []PartsTypeOK
<1>1. PartSpec => [](part \in Part)
  <2>1. PartInit => part \in Part
    BY DEF PartInit
  <2>2. part \in Part /\ [PartNext]_partVars => (part \in Part)'
    BY DEF PartNext, partVars
  <2> QED
    BY <2>1, <2>2, PTL DEF PartSpec
<1>2. CompareSpec => [](verdict \in {"none", "equal", "different"})
  <2>1. CompareInit => verdict \in {"none", "equal", "different"}
    BY DEF CompareInit
  <2>2. verdict \in {"none", "equal", "different"} /\ [CompareNext]_compareVars
          => (verdict \in {"none", "equal", "different"})'
    BY DEF CompareNext, compareVars
  <2> QED
    BY <2>1, <2>2, PTL DEF CompareSpec
<1>3. ImportSpec => []ImportTypeOK
  <2>1. ImportInv => ImportTypeOK
    BY DEF ImportInv
  <2> QED
    BY <2>1, ImportInvariant, PTL
<1>4. StoreSpec => []StoreTypeOK
  <2>1. StoreInv => StoreTypeOK
    BY DEF StoreInv
  <2> QED
    BY <2>1, StoreInvariant, PTL
<1> QED
  BY <1>1, <1>2, <1>3, <1>4, PartsRunAlone, ProfileCacheTypes, ScheduleTypes,
     ReadingsTyped, EndpointTypeCorrect, PTL DEF PartsTypeOK

\* And so does all else that is proved of a part by itself.
THEOREM PartsCorrect ==
    PartSpec => /\ [](TablesMatch /\ Described /\ Resolvable /\ PanicExplained)
                /\ [](ImportAccounts /\ SnapshotKept /\ ReadingExact /\ CompareAgrees)
                /\ [](ConfigFromStore /\ StoreWins /\ EarlyEndsBlamed)
                /\ [](UrlOfService /\ ProbedReady)
                /\ ImplementsLists /\ UpdateVisible
<1>1. PartSpec => [](TablesMatch /\ Described /\ Resolvable /\ PanicExplained)
  BY PartsRunAlone, TablesAsDescribed, OperationsDescribed,
     OperationsResolvable, PanicsExplained, PTL
<1>2. PartSpec => [](ImportAccounts /\ SnapshotKept /\ ReadingExact /\ CompareAgrees)
  BY PartsRunAlone, ImportComplete, SnapshotsKept, ReadingsExact,
     ComparisonAgrees, PTL
<1>3. PartSpec => [](ConfigFromStore /\ StoreWins /\ EarlyEndsBlamed)
  BY PartsRunAlone, ConfigsFromStore, StoreWinsAlways, EarlyEndsAreBlamed, PTL
<1>4. PartSpec => [](UrlOfService /\ ProbedReady)
  BY PartsRunAlone, UrlsOfService, ProbedAreReady, PTL
<1>5. PartSpec => ImplementsLists /\ UpdateVisible
  BY PartsRunAlone, ListsImplemented, UpdatesVisible, PTL
<1> QED
  BY <1>1, <1>2, <1>3, <1>4, <1>5
=============================================================================
