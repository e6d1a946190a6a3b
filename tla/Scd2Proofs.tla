----------------------------- MODULE Scd2Proofs -----------------------------
(***************************************************************************)
(* The merge and the lookup of Scd2 on frames of any length: what the      *)
(* positions, the rows and the surrogate keys of a result are, and what    *)
(* the merge makes of the set of versions of a frame in which copies of a  *)
(* version may be several times.                                           *)
(***************************************************************************)
EXTENDS Scd2, SequencesExt, FiniteSetTheorems, SequenceTheorems, TLAPS

-----------------------------------------------------------------------------
(* Sorting *)

(* Sets up to a member grow with the member and tell the members apart. *)
Orders(S, upTo) ==
    /\ \A x \in S : upTo[x] \subseteq S /\ x \in upTo[x]
    /\ \A x, y \in S : upTo[x] \subseteq upTo[y] \/ upTo[y] \subseteq upTo[x]
    /\ \A x, y \in S : upTo[x] = upTo[y] => x = y

(* InOrder lists every member of the set, once. *)
LEMMA Ordered ==
    ASSUME NEW S, IsFiniteSet(S), NEW upTo, Orders(S, upTo)
    PROVE  /\ InOrder(S, upTo) \in [1 .. Cardinality(S) -> S]
           /\ \A m, n \in 1 .. Cardinality(S) :
                 InOrder(S, upTo)[m] = InOrder(S, upTo)[n] => m = n
           /\ \A x \in S : \E n \in 1 .. Cardinality(S) :
                 InOrder(S, upTo)[n] = x /\ Cardinality(upTo[x]) = n
<1> DEFINE N == 1 .. Cardinality(S)
           rank == [x \in S |-> Cardinality(upTo[x])]
<1>1. Cardinality(S) \in Nat
  BY FS_CardinalityType
<1>2. ASSUME NEW x \in S
      PROVE  /\ IsFiniteSet(upTo[x]) /\ Cardinality(upTo[x]) \in N
  <2>1. upTo[x] \in SUBSET S /\ x \in upTo[x]
    BY DEF Orders
  <2>2. IsFiniteSet(upTo[x]) /\ Cardinality(upTo[x]) <= Cardinality(S)
    BY <2>1, FS_Subset
  <2>3. Cardinality(upTo[x]) \in Nat /\ Cardinality(upTo[x]) # 0
    BY <2>1, <2>2, FS_CardinalityType, FS_EmptySet
  <2>4. QED
    BY <1>1, <2>2, <2>3
<1>3. ASSUME NEW x \in S, NEW y \in S, Cardinality(upTo[x]) = Cardinality(upTo[y])
      PROVE  x = y
  <2>1. upTo[x] \in SUBSET upTo[y] \/ upTo[y] \in SUBSET upTo[x]
    BY DEF Orders
  <2>2. upTo[x] = upTo[y]
    BY <1>2, <1>3, <2>1, FS_Subset
  <2>3. QED
    BY <2>2 DEF Orders
<1>4. rank \in Injection(S, N)
  BY <1>2, <1>3 DEF Injection, IsInjective
<1>5. rank \in Surjection(S, N)
  <2>1. IsFiniteSet(N) /\ Cardinality(N) = Cardinality(S)
    BY <1>1, FS_Interval
  <2>2. QED
    BY <1>4, <2>1, FS_Injection
<1>6. ASSUME NEW n \in N
      PROVE  InOrder(S, upTo)[n] \in S /\ Cardinality(upTo[InOrder(S, upTo)[n]]) = n
  <2>1. \E x \in S : Cardinality(upTo[x]) = n
    BY <1>5 DEF Surjection
  <2>2. InOrder(S, upTo)[n] = CHOOSE x \in S : Cardinality(upTo[x]) = n
    BY DEF InOrder
  <2>3. QED
    BY <2>1, <2>2
<1>7. InOrder(S, upTo) \in [N -> S]
  BY <1>6 DEF InOrder
<1>8. \A m, n \in N : InOrder(S, upTo)[m] = InOrder(S, upTo)[n] => m = n
  BY <1>6
<1>9. ASSUME NEW x \in S
      PROVE  \E n \in N : InOrder(S, upTo)[n] = x /\ Cardinality(upTo[x]) = n
  BY <1>2, <1>3, <1>6
<1>10. QED
  BY <1>7, <1>8, <1>9

LEMMA Sorted ==
    ASSUME NEW S, S \subseteq Nat, IsFiniteSet(S)
    PROVE  /\ Ascending(S) \in [1 .. Cardinality(S) -> S]
           /\ \A m, n \in 1 .. Cardinality(S) : Ascending(S)[m] = Ascending(S)[n] => m = n
           /\ \A x \in S : \E n \in 1 .. Cardinality(S) :
                 Ascending(S)[n] = x /\ Cardinality({y \in S : y <= x}) = n
<1> DEFINE upTo == [x \in S |-> {y \in S : y <= x}]
<1>1. Orders(S, upTo)
  <2>1. \A x \in S : upTo[x] \subseteq S /\ x \in upTo[x]
    OBVIOUS
  <2>2. ASSUME NEW x \in S, NEW y \in S
        PROVE  upTo[x] \subseteq upTo[y] \/ upTo[y] \subseteq upTo[x]
    <3>1. x \in Nat /\ y \in Nat
      OBVIOUS
    <3>2. CASE x <= y
      <4>1. \A z \in S : z \in Nat /\ z <= x => z <= y
        BY <3>1, <3>2
      <4>2. QED
        BY <4>1
    <3>3. CASE y <= x
      <4>1. \A z \in S : z \in Nat /\ z <= y => z <= x
        BY <3>1, <3>3
      <4>2. QED
        BY <4>1
    <3>4. QED
      BY <3>1, <3>2, <3>3
  <2>3. ASSUME NEW x \in S, NEW y \in S, upTo[x] = upTo[y]
        PROVE  x = y
    <3>1. x \in upTo[y] /\ y \in upTo[x]
      BY <2>1, <2>3
    <3>2. QED
      BY <3>1
  <2> HIDE DEF upTo
  <2>4. QED
    BY <2>1, <2>2, <2>3 DEF Orders
<1>2. Ascending(S) = InOrder(S, upTo)
  BY DEF Ascending
<1>3. \A x \in S : upTo[x] = {y \in S : y <= x}
  OBVIOUS
<1> HIDE DEF upTo
<1>4. /\ Ascending(S) \in [1 .. Cardinality(S) -> S]
      /\ \A m, n \in 1 .. Cardinality(S) : Ascending(S)[m] = Ascending(S)[n] => m = n
  BY <1>1, <1>2, Ordered
<1>5. ASSUME NEW x \in S
      PROVE  \E n \in 1 .. Cardinality(S) :
                Ascending(S)[n] = x /\ Cardinality({y \in S : y <= x}) = n
  <2>1. \E n \in 1 .. Cardinality(S) : InOrder(S, upTo)[n] = x /\ Cardinality(upTo[x]) = n
    BY <1>1, Ordered
  <2>2. Cardinality(upTo[x]) = Cardinality({y \in S : y <= x})
    BY <1>3
  <2>3. QED
    BY <1>2, <2>1, <2>2
<1>6. QED
  BY <1>4, <1>5

(* A finite set of numbers that is not empty has a largest. *)
LEMMA Largest ==
    ASSUME NEW S, S \subseteq Nat, IsFiniteSet(S), S # {}
    PROVE  MaxOf(S) \in S /\ \A m \in S : m <= MaxOf(S)
<1> DEFINE c == Cardinality(S)
           x == Ascending(S)[c]
<1>1. c \in 1 .. c
  BY FS_CardinalityType, FS_EmptySet
<1>2. x \in S
  BY <1>1, Sorted
<1>3. Cardinality({y \in S : y <= x}) = c
  <2>1. \A z \in S : \E n \in 1 .. c : Ascending(S)[n] = z /\ Cardinality({y \in S : y <= z}) = n
    BY Sorted
  <2>2. PICK n \in 1 .. c : Ascending(S)[n] = x /\ Cardinality({y \in S : y <= x}) = n
    <3> HIDE DEF x
    <3>1. QED
      BY <1>2, <2>1
  <2>3. QED
    BY <1>1, <2>2, Sorted
<1>4. {y \in S : y <= x} = S
  <2>1. {y \in S : y <= x} \in SUBSET S
    OBVIOUS
  <2>2. QED
    BY <1>3, <2>1, FS_Subset
<1>5. \E n \in S : \A m \in S : m <= n
  <2> HIDE DEF x
  <2>1. QED
    BY <1>2, <1>4
<1>6. QED
  BY <1>5 DEF MaxOf

-----------------------------------------------------------------------------
(* Frames *)

(* A surrogate key is one row. *)
Keyed(frame) ==
    \A i, j \in DOMAIN frame : frame[i].player_sk = frame[j].player_sk => i = j

LEMMA Positions ==
    ASSUME NEW T, NEW frame \in Seq(T)
    PROVE  /\ Len(frame) \in Nat /\ DOMAIN frame = 1 .. Len(frame)
           /\ IsFiniteSet(DOMAIN frame) /\ Cardinality(DOMAIN frame) = Len(frame)
           /\ DOMAIN frame \subseteq Nat
           /\ \A i \in DOMAIN frame : frame[i] \in T
           /\ \A I : I \subseteq DOMAIN frame => IsFiniteSet(I) /\ I \subseteq Nat
<1>1. /\ Len(frame) \in Nat /\ DOMAIN frame = 1 .. Len(frame)
      /\ \A i \in DOMAIN frame : frame[i] \in T
  OBVIOUS
<1>2. IsFiniteSet(DOMAIN frame) /\ Cardinality(DOMAIN frame) = Len(frame)
  BY <1>1, FS_Interval
<1>3. \A I \in SUBSET DOMAIN frame : IsFiniteSet(I)
  BY <1>2, FS_Subset
<1>4. QED
  BY <1>1, <1>2, <1>3

(* A selection of rows. *)
LEMMA Selected ==
    ASSUME NEW T, NEW frame \in Seq(T), NEW I, I \subseteq DOMAIN frame
    PROVE  /\ Where(frame, I) \in Seq(T)
           /\ Range(Where(frame, I)) = {frame[i] : i \in I}
           /\ Keyed(frame) => Keyed(Where(frame, I))
<1> DEFINE N  == 1 .. Cardinality(I)
           at == Ascending(I)
           w  == Where(frame, I)
<1>1. /\ IsFiniteSet(I) /\ I \subseteq Nat /\ Cardinality(I) \in Nat
      /\ \A i \in I : frame[i] \in T
  BY Positions, FS_CardinalityType
<1>2. /\ at \in [N -> I]
      /\ \A m, n \in N : at[m] = at[n] => m = n
      /\ \A i \in I : \E n \in N : at[n] = i
  BY <1>1, Sorted
<1>3. w = [n \in N |-> frame[at[n]]]
  BY DEF Where
<1> HIDE DEF at, w
<1>4. DOMAIN w = N /\ \A n \in N : w[n] = frame[at[n]]
  BY <1>3
<1>5. w \in Seq(T)
  BY <1>1, <1>2, <1>3
<1>6. Range(w) = {frame[i] : i \in I}
  BY <1>2, <1>4 DEF Range
<1>7. ASSUME Keyed(frame)
      PROVE  Keyed(w)
  BY <1>2, <1>4, <1>7 DEF Keyed
<1>8. QED
  BY <1>5, <1>6, <1>7 DEF w

(* One frame after the other. *)
LEMMA Joined ==
    ASSUME NEW T, NEW s \in Seq(T), NEW t \in Seq(T)
    PROVE  /\ s \o t \in Seq(T)
           /\ Range(s \o t) = Range(s) \cup Range(t)
           /\ s \o t = << >> <=> s = << >> /\ t = << >>
           /\ /\ Keyed(s) /\ Keyed(t)
              /\ \A v \in Range(s), w \in Range(t) : v.player_sk # w.player_sk
              => Keyed(s \o t)
<1> DEFINE u == s \o t
           m == Len(s)
           n == Len(t)
<1>1. /\ m \in Nat /\ n \in Nat /\ DOMAIN s = 1 .. m /\ DOMAIN t = 1 .. n
      /\ u \in Seq(T) /\ DOMAIN u = 1 .. m + n
      /\ \A i \in 1 .. m : u[i] = s[i]
      /\ \A i \in (m + 1) .. (m + n) : u[i] = t[i - m]
  BY ConcatProperties, Positions
<1>2. s \o t = << >> <=> s = << >> /\ t = << >>
  BY ConcatEqualIffEmpty
<1> HIDE DEF u, m, n
<1>3. \A i \in 1 .. n : i + m \in (m + 1) .. (m + n) /\ u[i + m] = t[i]
  BY <1>1
<1>4. Range(u) = Range(s) \cup Range(t)
  <2>1. ASSUME NEW i \in DOMAIN u PROVE u[i] \in Range(s) \cup Range(t)
    <3>1. CASE i \in 1 .. m
      BY <1>1, <3>1 DEF Range
    <3>2. CASE i \in (m + 1) .. (m + n)
      <4>1. i - m \in DOMAIN t
        BY <1>1, <3>2
      <4>2. QED
        BY <1>1, <3>2, <4>1 DEF Range
    <3>3. QED
      BY <1>1, <2>1, <3>1, <3>2
  <2>2. ASSUME NEW i \in DOMAIN s PROVE s[i] \in Range(u)
    BY <1>1, <2>2 DEF Range
  <2>3. ASSUME NEW i \in DOMAIN t PROVE t[i] \in Range(u)
    <3>1. i + m \in DOMAIN u /\ u[i + m] = t[i]
      BY <1>1, <1>3, <2>3
    <3>2. QED
      BY <3>1 DEF Range
  <2>4. QED
    BY <2>1, <2>2, <2>3 DEF Range
<1>5. ASSUME Keyed(s), Keyed(t),
             \A v \in Range(s), w \in Range(t) : v.player_sk # w.player_sk,
             NEW i \in DOMAIN u, NEW j \in DOMAIN u, u[i].player_sk = u[j].player_sk
      PROVE  i = j
  <2>1. \A x \in 1 .. m, y \in 1 .. n : s[x].player_sk # t[y].player_sk
    BY <1>1, <1>5 DEF Range
  <2>2. CASE i \in 1 .. m /\ j \in 1 .. m
    BY <1>1, <1>5, <2>2 DEF Keyed
  <2>3. CASE i \notin 1 .. m /\ j \notin 1 .. m
    <3>1. i - m \in 1 .. n /\ j - m \in 1 .. n /\ u[i] = t[i - m] /\ u[j] = t[j - m]
      BY <1>1, <1>5, <2>3
    <3>2. i - m = j - m
      BY <1>1, <1>5, <3>1 DEF Keyed
    <3>3. QED
      BY <1>1, <1>5, <3>2
  <2>4. ASSUME NEW x \in 1 .. m, NEW y \in DOMAIN u, y \notin 1 .. m
        PROVE  u[x].player_sk # u[y].player_sk
    <3>1. y - m \in 1 .. n /\ u[y] = t[y - m] /\ u[x] = s[x]
      BY <1>1, <2>4
    <3>2. QED
      BY <2>1, <3>1
  <2>5. QED
    BY <1>5, <2>2, <2>3, <2>4
<1>6. QED
  BY <1>1, <1>2, <1>4, <1>5 DEF Keyed, u

(* A version that is closed, in place. *)
Shut(v, ts) == [v EXCEPT !.end_date = ts, !.is_current = FALSE]

LEMMA ShutVersion ==
    ASSUME NEW v \in Version, NEW ts \in Nat
    PROVE  /\ Shut(v, ts) \in Version
           /\ Shut(v, ts).player = v.player /\ Shut(v, ts).attr = v.attr
           /\ Shut(v, ts).player_sk = v.player_sk
           /\ Shut(v, ts).effective_date = v.effective_date
           /\ Shut(v, ts).end_date = ts /\ Shut(v, ts).is_current = FALSE
BY DEF Shut, Version

LEMMA Closings ==
    ASSUME NEW frame \in Seq(Version), NEW ts \in Nat
    PROVE  /\ CloseOut(frame, ts) \in Seq(Version)
           /\ Range(CloseOut(frame, ts)) = {Shut(v, ts) : v \in Range(frame)}
           /\ Keyed(frame) => Keyed(CloseOut(frame, ts))
<1> DEFINE c == CloseOut(frame, ts)
<1>1. /\ DOMAIN frame = 1 .. Len(frame) /\ Len(frame) \in Nat
      /\ \A i \in DOMAIN frame : frame[i] \in Version
  BY Positions
<1>2. /\ DOMAIN c = DOMAIN frame
      /\ \A i \in DOMAIN frame : c[i] = Shut(frame[i], ts)
      /\ c = [i \in 1 .. Len(frame) |-> Shut(frame[i], ts)]
  BY <1>1 DEF CloseOut, Shut
<1> HIDE DEF c
<1>3. ASSUME NEW i \in DOMAIN frame
      PROVE  c[i] \in Version /\ c[i].player_sk = frame[i].player_sk
  <2>1. c[i] = Shut(frame[i], ts) /\ frame[i] \in Version
    BY <1>1, <1>2
  <2>2. Shut(frame[i], ts) \in Version /\ Shut(frame[i], ts).player_sk = frame[i].player_sk
    BY <2>1, ShutVersion
  <2>3. QED
    BY <2>1, <2>2
<1>4. c \in Seq(Version)
  BY <1>1, <1>2, <1>3
<1>5. Range(c) = {Shut(v, ts) : v \in Range(frame)}
  BY <1>2 DEF Range
<1>6. ASSUME Keyed(frame)
      PROVE  Keyed(c)
  <2> SUFFICES ASSUME NEW i \in DOMAIN frame, NEW j \in DOMAIN frame,
                      c[i].player_sk = c[j].player_sk
               PROVE  i = j
    BY <1>2 DEF Keyed
  <2>1. frame[i].player_sk = frame[j].player_sk
    BY <1>3
  <2>2. QED
    BY <1>6, <2>1 DEF Keyed
<1>7. QED
  BY <1>4, <1>5, <1>6 DEF c

LEMMA FrameOf ==
    ASSUME NEW T, NEW n \in Nat, NEW f \in [1 .. n -> T]
    PROVE  f \in Seq(T) /\ Len(f) = n /\ DOMAIN f = 1 .. n
OBVIOUS

(* The versions that are opened. *)
LEMMA IncomingRows ==
    ASSUME NEW incoming \in Incoming
    PROVE  /\ DOMAIN incoming \subseteq Player /\ DOMAIN incoming \subseteq Nat
           /\ IsFiniteSet(DOMAIN incoming)
           /\ \A p \in DOMAIN incoming : incoming[p] \in Attr
<1>1. DOMAIN incoming \in SUBSET Player /\ \A p \in DOMAIN incoming : incoming[p] \in Attr
  BY DEF Incoming
<1>2. IsFiniteSet(DOMAIN incoming)
  BY <1>1, PlayerAssumption, FS_Subset
<1>3. QED
  BY <1>1, <1>2, PlayerAssumption

LEMMA Openings ==
    ASSUME NEW incoming \in Incoming, NEW keys \in Seq(DOMAIN incoming),
           NEW ts \in Nat, NEW start \in Nat \ {0},
           NEW f, f = NewVersions(keys, incoming, ts, start)
    PROVE  /\ f \in Seq(Version) /\ Keyed(f) /\ DOMAIN f = DOMAIN keys
           /\ \A i \in DOMAIN keys :
                 /\ f[i].player = keys[i] /\ f[i].attr = incoming[keys[i]]
                 /\ f[i].player_sk = start + i - 1
                 /\ f[i].effective_date = ts /\ f[i].end_date = FAR_FUTURE_DATE
                 /\ f[i].is_current = TRUE
<1>1. /\ DOMAIN keys = 1 .. Len(keys) /\ Len(keys) \in Nat
      /\ \A i \in DOMAIN keys : keys[i] \in DOMAIN incoming
  BY Positions
<1>2. ASSUME NEW i \in DOMAIN keys
      PROVE  /\ f[i] \in Version
             /\ f[i].player = keys[i] /\ f[i].attr = incoming[keys[i]]
             /\ f[i].player_sk = start + i - 1
             /\ f[i].effective_date = ts /\ f[i].end_date = FAR_FUTURE_DATE
             /\ f[i].is_current = TRUE
  <2>1. keys[i] \in Player /\ incoming[keys[i]] \in Attr
    BY <1>1, IncomingRows
  <2>2. start + i - 1 \in Nat \ {0}
    BY <1>1
  <2>3. f[i] = [ player |-> keys[i], attr |-> incoming[keys[i]], player_sk |-> start + i - 1,
                 effective_date |-> ts, end_date |-> FAR_FUTURE_DATE, is_current |-> TRUE ]
    BY DEF NewVersions
  <2>4. QED
    BY <2>1, <2>2, <2>3 DEF Version, FAR_FUTURE_DATE
<1>3. DOMAIN f = 1 .. Len(keys) /\ f = [i \in 1 .. Len(keys) |-> f[i]]
  BY <1>1 DEF NewVersions
<1>4. f \in Seq(Version)
  <2>1. f \in [1 .. Len(keys) -> Version]
    BY <1>1, <1>2, <1>3
  <2>2. QED
    BY <1>1, <2>1, FrameOf
<1>5. Keyed(f)
  <2>1. ASSUME NEW i \in DOMAIN keys, NEW j \in DOMAIN keys, f[i].player_sk = f[j].player_sk
        PROVE  i = j
    <3>1. f[i].player_sk = start + i - 1 /\ f[j].player_sk = start + j - 1
      BY <1>2
    <3>2. start + i - 1 = start + j - 1
      BY <2>1, <3>1, Zenon
    <3>3. i \in Nat /\ j \in Nat
      BY <1>1
    <3>4. QED
      BY <3>2, <3>3
  <2>2. QED
    BY <1>1, <1>3, <2>1 DEF Keyed
<1>6. QED
  BY <1>1, <1>2, <1>3, <1>4, <1>5

(* The keys of the new versions: one for every current row that differs, and
   one for every player in the batch without a current row.                *)
LEMMA ChangedKeyList ==
    ASSUME NEW existing \in Seq(Version), NEW incoming \in Incoming,
           NEW changed, changed = ChangedRows(existing, incoming),
           NEW keys, keys = ChangedKeys(existing, incoming)
    PROVE  /\ changed \subseteq DOMAIN existing /\ IsFiniteSet(changed)
           /\ keys \in Seq(DOMAIN incoming) /\ Len(keys) = Cardinality(changed)
           /\ Range(keys) = {existing[i].player : i \in changed}
           /\ (\A i, j \in changed : existing[i].player = existing[j].player => i = j) =>
                 \A m, n \in DOMAIN keys : keys[m] = keys[n] => m = n
<1> DEFINE UpTo(i) == {j \in changed : \/ existing[j].player < existing[i].player
                                       \/ existing[j].player = existing[i].player /\ j <= i}
           upTo == [i \in changed |-> UpTo(i)]
           at   == InOrder(changed, upTo)
           N    == 1 .. Cardinality(changed)
<1>1. /\ changed \subseteq DOMAIN existing /\ IsFiniteSet(changed) /\ changed \subseteq Nat
      /\ \A i \in changed : existing[i] \in Version /\ existing[i].player \in DOMAIN incoming
  BY Positions DEF ChangedRows, Overlap, CurrentRows
<1>2. /\ \A i \in changed : i \in Nat /\ existing[i].player \in Nat
      /\ Cardinality(changed) \in Nat
  BY <1>1, IncomingRows, FS_CardinalityType
<1>3. keys = [n \in N |-> existing[at[n]].player]
  BY DEF ChangedKeys
<1>4. Orders(changed, upTo)
  <2>1. \A i \in changed : upTo[i] \subseteq changed /\ i \in upTo[i]
    BY <1>2
  <2>2. ASSUME NEW i \in changed, NEW j \in changed
        PROVE  upTo[i] \subseteq upTo[j] \/ upTo[j] \subseteq upTo[i]
    <3> DEFINE Before(x, y) == \/ existing[x].player < existing[y].player
                               \/ existing[x].player = existing[y].player /\ x <= y
    <3>1. \A x \in changed : x \in Nat /\ existing[x].player \in Nat
      BY <1>2
    <3>2. \A x \in changed, y \in changed, z \in changed :
             Before(x, y) /\ Before(y, z) => Before(x, z)
      BY <3>1
    <3>3. \A x \in changed, y \in changed : Before(x, y) \/ Before(y, x)
      BY <3>1
    <3>4. \A y \in changed : upTo[y] = {x \in changed : Before(x, y)}
      OBVIOUS
    <3> HIDE DEF Before, upTo
    <3>5. ASSUME NEW x \in changed, NEW y \in changed, Before(x, y)
          PROVE  upTo[x] \subseteq upTo[y]
      BY <3>2, <3>4, <3>5
    <3>6. QED
      BY <3>3, <3>5
  <2>3. ASSUME NEW i \in changed, NEW j \in changed, upTo[i] = upTo[j]
        PROVE  i = j
    <3>1. i \in upTo[j] /\ j \in upTo[i]
      BY <2>1, <2>3
    <3>2. QED
      BY <1>2, <3>1
  <2> HIDE DEF upTo
  <2>4. QED
    BY <2>1, <2>2, <2>3 DEF Orders
<1> HIDE DEF upTo
<1>5. /\ at \in [N -> changed]
      /\ \A m, n \in N : at[m] = at[n] => m = n
      /\ \A i \in changed : \E n \in N : at[n] = i
  BY <1>1, <1>4, Ordered
<1> HIDE DEF at
<1>6. DOMAIN keys = N /\ \A n \in N : keys[n] = existing[at[n]].player
  BY <1>3
<1>7. keys \in Seq(DOMAIN incoming) /\ Len(keys) = Cardinality(changed)
  <2>1. keys \in [N -> DOMAIN incoming]
    BY <1>1, <1>3, <1>5
  <2>2. QED
    BY <1>2, <2>1, FrameOf
<1>8. Range(keys) = {existing[i].player : i \in changed}
  BY <1>5, <1>6 DEF Range
<1>9. ASSUME \A i, j \in changed : existing[i].player = existing[j].player => i = j,
             NEW m \in DOMAIN keys, NEW n \in DOMAIN keys, keys[m] = keys[n]
      PROVE  m = n
  BY <1>5, <1>6, <1>9
<1>10. QED
  BY <1>1, <1>7, <1>8, <1>9

LEMMA NewKeyList ==
    ASSUME NEW existing \in Seq(Version), NEW incoming \in Incoming,
           NEW keys, keys = NewKeys(existing, incoming)
    PROVE  /\ keys \in Seq(DOMAIN incoming)
           /\ Range(keys) = DOMAIN incoming \ {existing[i].player : i \in Overlap(existing, incoming)}
           /\ \A m, n \in DOMAIN keys : keys[m] = keys[n] => m = n
<1> DEFINE S == DOMAIN incoming \ {existing[i].player : i \in Overlap(existing, incoming)}
<1>1. S \subseteq Nat /\ IsFiniteSet(S) /\ Cardinality(S) \in Nat
  <2>1. IsFiniteSet(DOMAIN incoming) /\ DOMAIN incoming \subseteq Nat
    BY IncomingRows
  <2>2. S \in SUBSET DOMAIN incoming
    OBVIOUS
  <2>3. QED
    BY <2>1, <2>2, FS_Subset, FS_CardinalityType
<1>2. S \subseteq DOMAIN incoming /\ keys = Ascending(S)
  BY DEF NewKeys
<1> HIDE DEF S
<1>3. /\ keys \in [1 .. Cardinality(S) -> S]
      /\ \A m, n \in 1 .. Cardinality(S) : keys[m] = keys[n] => m = n
      /\ \A x \in S : \E n \in 1 .. Cardinality(S) : keys[n] = x
  <2>1. /\ Ascending(S) \in [1 .. Cardinality(S) -> S]
        /\ \A m, n \in 1 .. Cardinality(S) : Ascending(S)[m] = Ascending(S)[n] => m = n
        /\ \A x \in S : \E n \in 1 .. Cardinality(S) : Ascending(S)[n] = x
    BY <1>1, Sorted
  <2>2. QED
    BY <1>2, <2>1
<1>4. keys \in Seq(DOMAIN incoming)
  <2>1. keys \in [1 .. Cardinality(S) -> DOMAIN incoming]
    BY <1>2, <1>3
  <2>2. QED
    BY <1>1, <2>1, FrameOf
<1>5. Range(keys) = S
  BY <1>3 DEF Range
<1>6. \A m, n \in DOMAIN keys : keys[m] = keys[n] => m = n
  BY <1>3
<1>7. QED
  BY <1>4, <1>5, <1>6 DEF S

-----------------------------------------------------------------------------
(* The merge *)

(* The next key is larger than every key there is. *)
LEMMA NextKeyIsNew ==
    ASSUME NEW existing \in Seq(Version), existing # << >>
    PROVE  /\ NextSurrogateKey(existing) \in Nat \ {0}
           /\ \A i \in DOMAIN existing : existing[i].player_sk < NextSurrogateKey(existing)
<1> DEFINE S == {existing[i].player_sk : i \in DOMAIN existing}
           f == [i \in DOMAIN existing |-> existing[i].player_sk]
<1>1. /\ IsFiniteSet(DOMAIN existing)
      /\ \A i \in DOMAIN existing : existing[i] \in Version
  BY Positions
<1>2. S \subseteq Nat
  BY <1>1 DEF Version
<1>3. IsFiniteSet(S)
  <2>1. f \in Surjection(DOMAIN existing, S)
    BY DEF Surjection
  <2>2. QED
    BY <1>1, <2>1, FS_Surjection
<1>4. S # {}
  <2>1. 1 \in DOMAIN existing
    BY Positions
  <2>2. existing[1].player_sk \in S
    BY <2>1
  <2>3. QED
    BY <2>2
<1>5. NextSurrogateKey(existing) = 1 + MaxOf(S)
  BY DEF NextSurrogateKey
<1>6. \A i \in DOMAIN existing : existing[i].player_sk \in S
  OBVIOUS
<1> HIDE DEF S
<1>7. MaxOf(S) \in Nat /\ \A m \in S : m \in Nat /\ m <= MaxOf(S)
  BY <1>2, <1>3, <1>4, Largest
<1>8. QED
  BY <1>5, <1>6, <1>7

(* The rows a merge opens: the new versions of those that differ, and the
   first ones of those without a current row.                              *)
OpenedFrame(existing, incoming, ts) ==
    LET next == NextSurrogateKey(existing) IN
    NewVersions(ChangedKeys(existing, incoming), incoming, ts, next)
      \o NewVersions(NewKeys(existing, incoming), incoming, ts,
                     next + Cardinality(ChangedRows(existing, incoming)))

AreOpened(f, existing, incoming, ts) ==
    /\ f \in Seq(Version) /\ Keyed(f)
    /\ \A v \in Range(f) :
          /\ v.player \in DOMAIN incoming /\ v.attr = incoming[v.player]
          /\ v.effective_date = ts /\ v.end_date = FAR_FUTURE_DATE /\ v.is_current = TRUE
          /\ \A i \in DOMAIN existing : existing[i].player_sk < v.player_sk
          /\ \/ \E i \in ChangedRows(existing, incoming) : existing[i].player = v.player
             \/ \A i \in Overlap(existing, incoming) : existing[i].player # v.player
    /\ \A p \in DOMAIN incoming :
          \/ \E i \in UnchangedRows(existing, incoming) : existing[i].player = p
          \/ \E v \in Range(f) : v.player = p
    /\ \A i \in ChangedRows(existing, incoming) :
          \E v \in Range(f) : v.player = existing[i].player
    /\ (\A i, j \in CurrentRows(existing) : existing[i].player = existing[j].player => i = j)
          => \A v, w \in Range(f) : v.player = w.player => v = w

LEMMA OpenedRows ==
    ASSUME NEW existing \in Seq(Version), existing # << >>, NEW incoming \in Incoming,
           NEW ts \in Nat
    PROVE  AreOpened(OpenedFrame(existing, incoming, ts), existing, incoming, ts)
<1> DEFINE changed == ChangedRows(existing, incoming)
           keys  == ChangedKeys(existing, incoming)
           fresh == NewKeys(existing, incoming)
           next  == NextSurrogateKey(existing)
           a == NewVersions(keys, incoming, ts, next)
           b == NewVersions(fresh, incoming, ts, next + Cardinality(changed))
           f == OpenedFrame(existing, incoming, ts)
<1>1. /\ next \in Nat \ {0}
      /\ \A i \in DOMAIN existing : existing[i].player_sk < next /\ existing[i].player_sk \in Nat
  <2>1. \A i \in DOMAIN existing : existing[i] \in Version
    BY Positions
  <2>2. \A i \in DOMAIN existing : existing[i].player_sk \in Nat
    BY <2>1 DEF Version
  <2>3. QED
    BY <2>2, NextKeyIsNew
<1>2. /\ changed \subseteq DOMAIN existing /\ IsFiniteSet(changed)
      /\ keys \in Seq(DOMAIN incoming) /\ Len(keys) = Cardinality(changed)
      /\ Range(keys) = {existing[i].player : i \in changed}
      /\ (\A i, j \in changed : existing[i].player = existing[j].player => i = j) =>
            \A m, n \in DOMAIN keys : keys[m] = keys[n] => m = n
  BY ChangedKeyList
<1>3. /\ fresh \in Seq(DOMAIN incoming)
      /\ Range(fresh) = DOMAIN incoming \ {existing[i].player : i \in Overlap(existing, incoming)}
      /\ \A m, n \in DOMAIN fresh : fresh[m] = fresh[n] => m = n
  BY NewKeyList
<1>4. f = a \o b
  BY DEF OpenedFrame
<1>5. Overlap(existing, incoming) = changed \cup UnchangedRows(existing, incoming)
  BY DEF ChangedRows, UnchangedRows
<1>6. changed \subseteq CurrentRows(existing) /\ changed \subseteq Overlap(existing, incoming)
  BY DEF ChangedRows, Overlap
<1> HIDE DEF changed, keys, fresh, next, f
<1>7. Cardinality(changed) \in Nat /\ next + Cardinality(changed) \in Nat \ {0}
  BY <1>1, <1>2, FS_CardinalityType
<1> DEFINE N(g, ks, start) ==
      /\ g \in Seq(Version) /\ Keyed(g) /\ DOMAIN g = DOMAIN ks
      /\ \A i \in DOMAIN ks :
            /\ g[i].player = ks[i] /\ g[i].attr = incoming[ks[i]]
            /\ g[i].player_sk = start + i - 1
            /\ g[i].effective_date = ts /\ g[i].end_date = FAR_FUTURE_DATE
            /\ g[i].is_current = TRUE
<1>8. N(a, keys, next)
  BY <1>1, <1>2, Openings
<1>9. N(b, fresh, next + Cardinality(changed))
  BY <1>3, <1>7, Openings
<1>10. /\ DOMAIN keys = 1 .. Cardinality(changed) /\ \A i \in DOMAIN keys : keys[i] \in DOMAIN incoming
       /\ DOMAIN fresh = 1 .. Len(fresh) /\ Len(fresh) \in Nat
       /\ \A i \in DOMAIN fresh : fresh[i] \in DOMAIN incoming
  BY <1>2, <1>3, Positions
<1> HIDE DEF a, b
<1>11. ASSUME NEW i \in DOMAIN keys
       PROVE  /\ i \in 1 .. Cardinality(changed) /\ a[i].player_sk = next + i - 1
              /\ a[i].player_sk >= next /\ a[i].player_sk < next + Cardinality(changed)
  <2>1. i \in 1 .. Cardinality(changed) /\ a[i].player_sk = next + i - 1
    BY <1>8, <1>10
  <2>2. QED
    BY <1>1, <1>7, <2>1
<1>12. ASSUME NEW i \in DOMAIN fresh
       PROVE  b[i].player_sk >= next + Cardinality(changed) /\ b[i].player_sk \in Nat
  <2>1. i \in Nat \ {0} /\ b[i].player_sk = next + Cardinality(changed) + i - 1
    BY <1>9, <1>10
  <2>2. QED
    BY <1>1, <1>7, <2>1
<1>13. /\ \A v \in Range(a) : \E i \in DOMAIN keys : v = a[i]
       /\ \A v \in Range(b) : \E i \in DOMAIN fresh : v = b[i]
       /\ \A i \in DOMAIN keys : a[i] \in Range(a)
       /\ \A i \in DOMAIN fresh : b[i] \in Range(b)
  BY <1>8, <1>9 DEF Range
<1>14. /\ f \in Seq(Version) /\ Range(f) = Range(a) \cup Range(b)
       /\ /\ Keyed(a) /\ Keyed(b)
          /\ \A v \in Range(a), w \in Range(b) : v.player_sk # w.player_sk
          => Keyed(f)
  BY <1>4, <1>8, <1>9, Joined
<1>15. Keyed(f)
  <2>1. ASSUME NEW v \in Range(a), NEW w \in Range(b)
        PROVE  v.player_sk # w.player_sk
    <3>1. PICK i \in DOMAIN keys : v = a[i]
      BY <1>13
    <3>2. PICK j \in DOMAIN fresh : w = b[j]
      BY <1>13
    <3>3. v.player_sk < next + Cardinality(changed) /\ w.player_sk >= next + Cardinality(changed)
          /\ v.player_sk \in Nat /\ w.player_sk \in Nat
      <4>1. v.player_sk = next + i - 1 /\ i \in 1 .. Cardinality(changed)
        BY <1>11, <3>1
      <4>2. QED
        BY <1>1, <1>7, <1>12, <3>2, <4>1
    <3>4. QED
      BY <1>7, <3>3
  <2>2. QED
    BY <1>8, <1>9, <1>14, <2>1
<1>16. ASSUME NEW v \in Range(f)
       PROVE  /\ v.player \in DOMAIN incoming /\ v.attr = incoming[v.player]
              /\ v.effective_date = ts /\ v.end_date = FAR_FUTURE_DATE /\ v.is_current = TRUE
              /\ \A i \in DOMAIN existing : existing[i].player_sk < v.player_sk
              /\ \/ \E i \in changed : existing[i].player = v.player
                 \/ \A i \in Overlap(existing, incoming) : existing[i].player # v.player
  <2>1. ASSUME NEW n \in DOMAIN keys, v = a[n]
        PROVE  /\ v.player \in DOMAIN incoming /\ v.attr = incoming[v.player]
               /\ v.effective_date = ts /\ v.end_date = FAR_FUTURE_DATE /\ v.is_current = TRUE
               /\ \A i \in DOMAIN existing : existing[i].player_sk < v.player_sk
               /\ \E i \in changed : existing[i].player = v.player
    <3>1. /\ v.player = keys[n] /\ v.player \in DOMAIN incoming /\ v.attr = incoming[v.player]
          /\ v.effective_date = ts /\ v.end_date = FAR_FUTURE_DATE /\ v.is_current = TRUE
      BY <1>8, <1>10, <2>1
    <3>2. v.player_sk = next + n - 1 /\ n \in 1 .. Cardinality(changed)
      BY <1>11, <2>1
    <3>3. \A i \in DOMAIN existing : existing[i].player_sk < v.player_sk
      BY <1>1, <1>7, <3>2
    <3>4. v.player \in {existing[i].player : i \in changed}
      BY <1>2, <3>1 DEF Range
    <3>5. QED
      BY <3>1, <3>3, <3>4
  <2>2. ASSUME NEW n \in DOMAIN fresh, v = b[n]
        PROVE  /\ v.player \in DOMAIN incoming /\ v.attr = incoming[v.player]
               /\ v.effective_date = ts /\ v.end_date = FAR_FUTURE_DATE /\ v.is_current = TRUE
               /\ \A i \in DOMAIN existing : existing[i].player_sk < v.player_sk
               /\ \A i \in Overlap(existing, incoming) : existing[i].player # v.player
    <3>1. /\ v.player = fresh[n] /\ v.player \in DOMAIN incoming /\ v.attr = incoming[v.player]
          /\ v.effective_date = ts /\ v.end_date = FAR_FUTURE_DATE /\ v.is_current = TRUE
      BY <1>9, <1>10, <2>2
    <3>2. v.player_sk >= next + Cardinality(changed) /\ v.player_sk \in Nat
      BY <1>12, <2>2
    <3>3. \A i \in DOMAIN existing : existing[i].player_sk < v.player_sk
      BY <1>1, <1>7, <3>2
    <3>4. v.player \notin {existing[i].player : i \in Overlap(existing, incoming)}
      BY <1>3, <3>1 DEF Range
    <3>5. QED
      BY <3>1, <3>3, <3>4
  <2>3. QED
    BY <1>13, <1>14, <2>1, <2>2
<1>a. ASSUME NEW i \in changed
      PROVE  \E v \in Range(f) : v.player = existing[i].player
  <2>1. PICK n \in DOMAIN keys : keys[n] = existing[i].player
    BY <1>2 DEF Range
  <2>2. a[n] \in Range(f) /\ a[n].player = existing[i].player
    BY <1>8, <1>13, <1>14, <2>1
  <2>3. QED
    BY <2>2
<1>17. ASSUME NEW p \in DOMAIN incoming
       PROVE  \/ \E i \in UnchangedRows(existing, incoming) : existing[i].player = p
              \/ \E v \in Range(f) : v.player = p
  <2>1. CASE p \in {existing[i].player : i \in changed}
    BY <1>a, <2>1
  <2>2. CASE p \notin {existing[i].player : i \in Overlap(existing, incoming)}
    <3>1. PICK n \in DOMAIN fresh : fresh[n] = p
      BY <1>3, <2>2 DEF Range
    <3>2. b[n] \in Range(f) /\ b[n].player = p
      BY <1>9, <1>13, <1>14, <3>1
    <3>3. QED
      BY <3>2
  <2>3. QED
    BY <1>5, <2>1, <2>2
<1>18. ASSUME \A i, j \in CurrentRows(existing) : existing[i].player = existing[j].player => i = j,
              NEW v \in Range(f), NEW w \in Range(f), v.player = w.player
       PROVE  v = w
  <2>1. \A m, n \in DOMAIN keys : keys[m] = keys[n] => m = n
    BY <1>2, <1>6, <1>18
  <2>2. \A m \in DOMAIN keys, n \in DOMAIN fresh : keys[m] # fresh[n]
    <3>1. ASSUME NEW m \in DOMAIN keys, NEW n \in DOMAIN fresh, keys[m] = fresh[n]
          PROVE  FALSE
      <4>1. keys[m] \in {existing[i].player : i \in changed}
        BY <1>2 DEF Range
      <4>2. fresh[n] \notin {existing[i].player : i \in Overlap(existing, incoming)}
        BY <1>3 DEF Range
      <4>3. QED
        BY <1>6, <3>1, <4>1, <4>2
    <3>2. QED
      BY <3>1
  <2>3. /\ \A i \in DOMAIN keys : a[i].player = keys[i]
        /\ \A i \in DOMAIN fresh : b[i].player = fresh[i]
    BY <1>8, <1>9
  <2>4. QED
    BY <1>3, <1>13, <1>14, <1>18, <2>1, <2>2, <2>3
<1>19. QED
  BY <1>14, <1>15, <1>16, <1>a, <1>17, <1>18 DEF changed, f, AreOpened

(* The parts of a merge, as positions of the frame that is merged into. *)
PassedOn(existing) ==
    {i \in DOMAIN existing : existing[i].player_sk \notin SksAt(existing, CurrentRows(existing))}

WithKeyOf(existing, I) ==
    {i \in CurrentRows(existing) : existing[i].player_sk \in SksAt(existing, I)}

LEMMA MergedRows ==
    ASSUME NEW existing \in Seq(Version), existing # << >>, NEW incoming \in Incoming,
           NEW ts \in Nat, NEW r, r = Merged(existing, incoming, ts)
    PROVE  /\ r \in Seq(Version)
           /\ Range(r) = {existing[i] : i \in PassedOn(existing)}
                 \cup {existing[i] : i \in WithKeyOf(existing, UnchangedRows(existing, incoming))}
                 \cup {Shut(existing[i], ts) : i \in WithKeyOf(existing, ChangedRows(existing, incoming))}
                 \cup Range(OpenedFrame(existing, incoming, ts))
           /\ Keyed(existing) => Keyed(r)
<1> DEFINE current   == CurrentRows(existing)
           unchanged == UnchangedRows(existing, incoming)
           changed   == ChangedRows(existing, incoming)
           I == PassedOn(existing)
           J == WithKeyOf(existing, unchanged)
           K == WithKeyOf(existing, changed)
           h == Historical(existing, current)
           k == CurrentWith(existing, unchanged)
           g == CurrentWith(existing, changed)
           c == CloseOut(g, ts)
           next == NextSurrogateKey(existing)
           a == NewVersions(ChangedKeys(existing, incoming), incoming, ts, next)
           b == NewVersions(NewKeys(existing, incoming), incoming, ts, next + Cardinality(changed))
           o == OpenedFrame(existing, incoming, ts)
<1>1. /\ h = Where(existing, I) /\ k = Where(existing, J) /\ g = Where(existing, K)
      /\ o = a \o b /\ r = h \o k \o c \o a \o b
      /\ I \subseteq DOMAIN existing /\ J \subseteq DOMAIN existing /\ K \subseteq DOMAIN existing
  BY DEF Historical, CurrentWith, PassedOn, WithKeyOf, OpenedFrame, Merged, CurrentRows
<1>2. a \in Seq(Version) /\ b \in Seq(Version)
  <2>1. next \in Nat \ {0} /\ next + Cardinality(changed) \in Nat \ {0}
    <3>1. next \in Nat \ {0}
      BY NextKeyIsNew
    <3>2. IsFiniteSet(changed)
      BY ChangedKeyList
    <3>3. QED
      BY <3>1, <3>2, FS_CardinalityType
  <2>2. /\ ChangedKeys(existing, incoming) \in Seq(DOMAIN incoming)
        /\ NewKeys(existing, incoming) \in Seq(DOMAIN incoming)
    BY ChangedKeyList, NewKeyList
  <2>3. \A keys \in Seq(DOMAIN incoming), start \in Nat \ {0} :
           NewVersions(keys, incoming, ts, start) \in Seq(Version)
    BY Openings
  <2>4. QED
    BY <2>1, <2>2, <2>3
<1>3. /\ o \in Seq(Version) /\ Keyed(o)
      /\ \A v \in Range(o), i \in DOMAIN existing : existing[i].player_sk < v.player_sk
  BY OpenedRows DEF AreOpened
<1> HIDE DEF o, a, b
<1>4. /\ h \in Seq(Version) /\ Range(h) = {existing[i] : i \in I} /\ (Keyed(existing) => Keyed(h))
      /\ k \in Seq(Version) /\ Range(k) = {existing[i] : i \in J} /\ (Keyed(existing) => Keyed(k))
      /\ g \in Seq(Version) /\ Range(g) = {existing[i] : i \in K} /\ (Keyed(existing) => Keyed(g))
  BY <1>1, Selected
<1> HIDE DEF h, k, g
<1>5. /\ c \in Seq(Version) /\ Range(c) = {Shut(v, ts) : v \in Range(g)} /\ (Keyed(g) => Keyed(c))
  BY <1>4, Closings
<1>6. Range(c) = {Shut(existing[i], ts) : i \in K}
  BY <1>4, <1>5
<1> HIDE DEF c
<1>7. /\ h \o k \in Seq(Version) /\ Range(h \o k) = Range(h) \cup Range(k)
      /\ (h \o k) \o c \in Seq(Version) /\ Range((h \o k) \o c) = Range(h) \cup Range(k) \cup Range(c)
      /\ ((h \o k) \o c) \o o \in Seq(Version)
      /\ Range(((h \o k) \o c) \o o) = Range(h) \cup Range(k) \cup Range(c) \cup Range(o)
  <2>0. \A s, t \in Seq(Version) : s \o t \in Seq(Version) /\ Range(s \o t) = Range(s) \cup Range(t)
    BY Joined
  <2>1. h \o k \in Seq(Version) /\ Range(h \o k) = Range(h) \cup Range(k)
    BY <1>4, <2>0
  <2>2. /\ (h \o k) \o c \in Seq(Version)
        /\ Range((h \o k) \o c) = Range(h \o k) \cup Range(c)
    BY <1>5, <2>0, <2>1
  <2>3. /\ ((h \o k) \o c) \o o \in Seq(Version)
        /\ Range(((h \o k) \o c) \o o) = Range((h \o k) \o c) \cup Range(o)
    BY <1>3, <2>0, <2>2
  <2>4. QED
    BY <2>1, <2>2, <2>3
<1>8. r = ((h \o k) \o c) \o o
  <2>1. \A u \in Seq(Version) : (u \o a) \o b = u \o (a \o b)
    BY <1>2, ConcatAssociative
  <2>2. (((h \o k) \o c) \o a) \o b = ((h \o k) \o c) \o (a \o b)
    BY <1>7, <2>1
  <2>3. QED
    BY <1>1, <2>2
<1>9. ASSUME Keyed(existing)
      PROVE  Keyed(r)
  <2>1. \A i \in DOMAIN existing : existing[i] \in Version
    BY Positions
  <2>2. \A i \in K : Shut(existing[i], ts).player_sk = existing[i].player_sk
    BY <1>1, <2>1, ShutVersion
  <2>3. I \cap J = {} /\ I \cap K = {} /\ J \cap K = {}
    <3>1. unchanged \cap changed = {} /\ unchanged \subseteq current /\ changed \subseteq current
          /\ current \subseteq DOMAIN existing
      BY DEF UnchangedRows, ChangedRows, Overlap, CurrentRows
    <3>2. I \cap current = {} /\ J = unchanged /\ K = changed
      BY <1>9, <3>1 DEF PassedOn, WithKeyOf, SksAt, Keyed
    <3>3. QED
      BY <3>1, <3>2
  <2> HIDE DEF I, J, K
  <2>4. /\ \A v \in Range(h) : \E i \in I : v.player_sk = existing[i].player_sk
        /\ \A v \in Range(k) : \E i \in J : v.player_sk = existing[i].player_sk
        /\ \A v \in Range(c) : \E i \in K : v.player_sk = existing[i].player_sk
    BY <1>4, <1>6, <2>2
  <2>5. \A i, j \in DOMAIN existing : existing[i].player_sk = existing[j].player_sk => i = j
    BY <1>9 DEF Keyed
  <2>6. \A v \in Range(h), w \in Range(k) : v.player_sk # w.player_sk
    BY <1>1, <2>3, <2>4, <2>5
  <2>7. \A v \in Range(h) \cup Range(k), w \in Range(c) : v.player_sk # w.player_sk
    BY <1>1, <2>3, <2>4, <2>5
  <2>8. \A v \in Range(h) \cup Range(k) \cup Range(c), w \in Range(o) : v.player_sk # w.player_sk
    <3>1. ASSUME NEW v \in Range(h) \cup Range(k) \cup Range(c), NEW w \in Range(o)
          PROVE  v.player_sk # w.player_sk
      <4>1. PICK i \in DOMAIN existing : v.player_sk = existing[i].player_sk
        BY <1>1, <2>4
      <4>2. existing[i].player_sk < w.player_sk /\ existing[i].player_sk \in Nat
        BY <1>3, <2>1 DEF Version
      <4>3. QED
        BY <4>1, <4>2
    <3>2. QED
      BY <3>1
  <2>9. Keyed(h \o k)
    BY <1>4, <1>9, <2>6, Joined
  <2>10. Keyed((h \o k) \o c)
    BY <1>4, <1>5, <1>7, <1>9, <2>7, <2>9, Joined
  <2>11. Keyed(((h \o k) \o c) \o o)
    BY <1>3, <1>7, <2>8, <2>10, Joined
  <2>12. QED
    BY <1>8, <2>11
<1>10. QED
  BY <1>4, <1>6, <1>7, <1>8, <1>9 DEF o

(* The first load opens a version of every player. *)
AreLoaded(r, incoming, ts) ==
    /\ r \in Seq(Version) /\ Keyed(r)
    /\ \A v \in Range(r) :
          /\ v.player \in DOMAIN incoming /\ v.attr = incoming[v.player]
          /\ v.effective_date = ts /\ v.end_date = FAR_FUTURE_DATE /\ v.is_current = TRUE
    /\ \A p \in DOMAIN incoming : \E v \in Range(r) : v.player = p
    /\ \A v, w \in Range(r) : v.player = w.player => v = w

LEMMA LoadedRows ==
    ASSUME NEW incoming \in Incoming, NEW ts \in Nat
    PROVE  AreLoaded(InitialLoad(incoming, ts), incoming, ts)
<1> DEFINE S    == DOMAIN incoming
           keys == Ascending(S)
           N    == 1 .. Cardinality(S)
           r    == InitialLoad(incoming, ts)
<1>1. S \subseteq Nat /\ IsFiniteSet(S) /\ Cardinality(S) \in Nat
  BY IncomingRows, FS_CardinalityType
<1>2. r = NewVersions(keys, incoming, ts, 1)
  BY DEF InitialLoad
<1>3. /\ keys \in [N -> S]
      /\ \A m, n \in N : keys[m] = keys[n] => m = n
      /\ \A x \in S : \E n \in N : keys[n] = x
  BY <1>1, Sorted
<1> HIDE DEF keys, r
<1>4. keys \in Seq(S) /\ DOMAIN keys = N
  BY <1>1, <1>3, FrameOf
<1>5. /\ r \in Seq(Version) /\ Keyed(r) /\ DOMAIN r = DOMAIN keys
      /\ \A i \in DOMAIN keys :
            /\ r[i].player = keys[i] /\ r[i].attr = incoming[keys[i]]
            /\ r[i].effective_date = ts /\ r[i].end_date = FAR_FUTURE_DATE
            /\ r[i].is_current = TRUE
  <2> DEFINE f == NewVersions(keys, incoming, ts, 1)
  <2>1. 1 \in Nat \ {0} /\ keys \in Seq(DOMAIN incoming)
    BY <1>4
  <2>2. /\ f \in Seq(Version) /\ Keyed(f) /\ DOMAIN f = DOMAIN keys
        /\ \A i \in DOMAIN keys :
              /\ f[i].player = keys[i] /\ f[i].attr = incoming[keys[i]]
              /\ f[i].player_sk = 1 + i - 1
              /\ f[i].effective_date = ts /\ f[i].end_date = FAR_FUTURE_DATE
              /\ f[i].is_current = TRUE
    BY <2>1, Openings
  <2> HIDE DEF f
  <2>3. r = f
    BY <1>2 DEF f
  <2>4. QED
    BY <2>2, <2>3
<1>6. (\A v \in Range(r) : \E i \in N : v = r[i]) /\ \A i \in N : r[i] \in Range(r)
  BY <1>4, <1>5 DEF Range
<1>7. ASSUME NEW v \in Range(r)
      PROVE  /\ v.player \in DOMAIN incoming /\ v.attr = incoming[v.player]
             /\ v.effective_date = ts /\ v.end_date = FAR_FUTURE_DATE /\ v.is_current = TRUE
  <2>1. PICK i \in N : v = r[i]
    BY <1>6
  <2>2. keys[i] \in S /\ i \in DOMAIN keys
    BY <1>3, <1>4
  <2>3. QED
    BY <1>5, <2>1, <2>2
<1>8. ASSUME NEW p \in DOMAIN incoming
      PROVE  \E v \in Range(r) : v.player = p
  <2>1. PICK n \in N : keys[n] = p
    BY <1>3
  <2>2. r[n] \in Range(r) /\ r[n].player = p
    BY <1>4, <1>5, <1>6, <2>1
  <2>3. QED
    BY <2>2
<1>9. ASSUME NEW v \in Range(r), NEW w \in Range(r), v.player = w.player
      PROVE  v = w
  <2>1. PICK i \in N : v = r[i]
    BY <1>6
  <2>2. PICK j \in N : w = r[j]
    BY <1>6
  <2>3. keys[i] = keys[j]
    BY <1>4, <1>5, <1>9, <2>1, <2>2
  <2>4. QED
    BY <1>3, <2>1, <2>2, <2>3
<1>10. QED
  BY <1>5, <1>7, <1>8, <1>9 DEF r, AreLoaded

-----------------------------------------------------------------------------
(* Frames made of several *)

(* What holds of 0, and of the next number, holds up to N. *)
LEMMA Climbs ==
    ASSUME NEW N \in Nat, NEW S, S \subseteq 0 .. N, 0 \in S,
           \A n \in S : n < N => n + 1 \in S
    PROVE  N \in S
<1>1. S \subseteq Nat /\ IsFiniteSet(S)
  <2>1. IsFiniteSet(0 .. N)
    BY FS_Interval
  <2>2. IsFiniteSet(S)
    BY <2>1, FS_Subset
  <2>3. QED
    BY <2>2
<1>2. MaxOf(S) \in S /\ \A m \in S : m <= MaxOf(S)
  BY <1>1, Largest
<1>3. MaxOf(S) \in 0 .. N /\ ~(MaxOf(S) < N)
  <2>1. MaxOf(S) + 1 \in S => MaxOf(S) + 1 <= MaxOf(S)
    BY <1>2
  <2>2. MaxOf(S) \in Nat
    BY <1>1, <1>2
  <2>3. QED
    BY <1>2, <2>1, <2>2
<1>4. QED
  BY <1>2, <1>3

(* The union of partitions has the rows of all of them. *)
LEMMA Flattened ==
    ASSUME NEW N \in Nat, NEW T, NEW s \in [1 .. N -> Seq(T)]
    PROVE  /\ FlattenSeq(s) \in Seq(T)
           /\ Range(FlattenSeq(s)) = UNION {Range(s[i]) : i \in 1 .. N}
<1> DEFINE Is(f, n) == f = [i \in 1 .. n |-> IF i = 1 THEN s[i] ELSE f[i - 1] \o s[i]]
           S == {n \in 0 .. N : \E f : Is(f, n)}
<1>1. Len(s) = N
  BY FrameOf
<1>2. 0 \in S
  <2>1. Is(<< >>, 0)
    OBVIOUS
  <2> HIDE DEF Is
  <2>2. QED
    BY <2>1
<1>3. ASSUME NEW n \in S, n < N
      PROVE  n + 1 \in S
  <2>1. PICK f : Is(f, n)
    OBVIOUS
  <2> DEFINE last == IF n = 0 THEN s[1] ELSE f[n] \o s[n + 1]
             g == [i \in 1 .. n + 1 |-> IF i <= n THEN f[i] ELSE last]
  <2>2. ASSUME NEW i \in 1 .. n
        PROVE  g[i] = IF i = 1 THEN s[i] ELSE g[i - 1] \o s[i]
    <3>1. f[i] = IF i = 1 THEN s[i] ELSE f[i - 1] \o s[i]
      BY <2>1
    <3>2. g[i] = f[i] /\ (i # 1 => g[i - 1] = f[i - 1])
      OBVIOUS
    <3>3. QED
      BY <3>1, <3>2
  <2>3. g[n + 1] = IF n + 1 = 1 THEN s[n + 1] ELSE g[n] \o s[n + 1]
    OBVIOUS
  <2>4. DOMAIN g = 1 .. n + 1 /\ g = [i \in 1 .. n + 1 |-> g[i]]
    OBVIOUS
  <2> HIDE DEF g
  <2>5. \A i \in 1 .. n + 1 : g[i] = IF i = 1 THEN s[i] ELSE g[i - 1] \o s[i]
    <3>1. \A i \in 1 .. n + 1 : i \in 1 .. n \/ i = n + 1
      OBVIOUS
    <3>2. n + 1 - 1 = n
      OBVIOUS
    <3>3. QED
      BY <2>2, <2>3, <3>1, <3>2
  <2>6. Is(g, n + 1)
    BY <2>4, <2>5
  <2> HIDE DEF Is
  <2>7. QED
    BY <1>3, <2>6
<1>4. \E f : Is(f, N)
  <2>1. S \subseteq 0 .. N
    OBVIOUS
  <2>2. N \in S
    <3> HIDE DEF S
    <3>1. QED
      BY <1>2, <1>3, <2>1, Climbs
  <2>3. QED
    BY <2>2
<1> DEFINE flat == CHOOSE f : Is(f, N)
           R(i) == UNION {Range(s[j]) : j \in 1 .. i}
           Holds(i) == flat[i] \in Seq(T) /\ Range(flat[i]) = R(i)
           G == {n \in 0 .. N : \A i \in 1 .. n : Holds(i)}
<1>5. Is(flat, N)
  <2> HIDE DEF Is
  <2>1. QED
    BY <1>4
<1>6. \A i \in 1 .. N : flat[i] = IF i = 1 THEN s[i] ELSE flat[i - 1] \o s[i]
  <2> HIDE DEF flat
  <2>1. QED
    BY <1>5
<1>7. N # 0 => FlattenSeq(s) = flat[N]
  BY <1>1 DEF FlattenSeq
<1> HIDE DEF flat
<1>8. ASSUME NEW n \in G, n < N
      PROVE  n + 1 \in G
  <2>1. s[n + 1] \in Seq(T) /\ n + 1 \in 1 .. N
    BY <1>8
  <2>2. CASE n = 0
    <3>1. flat[1] = s[1]
      BY <1>6, <2>2, <1>8
    <3>2. R(1) = Range(s[1])
      OBVIOUS
    <3>3. QED
      BY <2>1, <2>2, <3>1, <3>2
  <2>3. CASE n # 0
    <3>1. n \in 1 .. n /\ n + 1 # 1 /\ n + 1 - 1 = n
      BY <2>3
    <3>2. flat[n + 1] = flat[n] \o s[n + 1]
      <4> DEFINE k == n + 1
      <4>1. k \in 1 .. N /\ k # 1 /\ k - 1 = n
        BY <2>1, <3>1
      <4> HIDE DEF k
      <4>2. flat[k] = flat[k - 1] \o s[k]
        BY <1>6, <4>1
      <4>3. QED
        BY <4>1, <4>2 DEF k
    <3>3. flat[n] \in Seq(T) /\ Range(flat[n]) = R(n)
      <4>1. Holds(n)
        <5> HIDE DEF Holds
        <5>1. QED
          BY <3>1
      <4>2. QED
        BY <4>1
    <3>4. flat[n + 1] \in Seq(T) /\ Range(flat[n + 1]) = R(n) \cup Range(s[n + 1])
      BY <2>1, <3>2, <3>3, Joined
    <3>5. R(n + 1) = R(n) \cup Range(s[n + 1])
      <4>1. 1 .. n + 1 = (1 .. n) \cup {n + 1}
        OBVIOUS
      <4>2. QED
        BY <4>1
    <3>6. Holds(n + 1)
      BY <3>4, <3>5
    <3>7. \A i \in 1 .. n + 1 : i \in 1 .. n \/ i = n + 1
      OBVIOUS
    <3> HIDE DEF Holds
    <3>8. QED
      BY <2>1, <3>6, <3>7
  <2>4. QED
    BY <2>2, <2>3
<1>9. N \in G
  <2>1. 0 \in G
    OBVIOUS
  <2>2. G \subseteq 0 .. N
    OBVIOUS
  <2> HIDE DEF G
  <2>3. QED
    BY <1>8, <2>1, <2>2, Climbs
<1>10. CASE N = 0
  <2>1. FlattenSeq(s) = s /\ s = << >>
    BY <1>1, <1>10 DEF FlattenSeq
  <2>2. QED
    BY <2>1, <1>10 DEF Range
<1>11. CASE N # 0
  <2>1. N \in 1 .. N
    BY <1>11
  <2>2. QED
    BY <1>7, <1>9, <1>11, <2>1
<1>12. QED
  BY <1>10, <1>11

-----------------------------------------------------------------------------
(* The merge as a step between sets of versions *)

(* The merge as it acts on the set of versions of a frame, which may have a
   version several times and closed and open: what is shut already, what is
   kept, what is outdated, and what is new.                                *)
AlreadyShut(X) == {v \in X : \A w \in X : w.is_current => w.player_sk # v.player_sk}

KeptOf(X, incoming) ==
    {v \in X : v.is_current /\ v.player \in DOMAIN incoming /\ v.attr = incoming[v.player]}

OutdatedOf(X, incoming) ==
    {v \in X : v.is_current /\ v.player \in DOMAIN incoming /\ v.attr # incoming[v.player]}

CarriedOver(X, incoming, ts) ==
    AlreadyShut(X) \cup KeptOf(X, incoming) \cup {Shut(v, ts) : v \in OutdatedOf(X, incoming)}

AreNew(O, X, incoming, ts) ==
    /\ \A v \in O :
          /\ v.player \in DOMAIN incoming /\ v.attr = incoming[v.player]
          /\ v.effective_date = ts /\ v.end_date = FAR_FUTURE_DATE /\ v.is_current = TRUE
          /\ \A w \in X : w.player_sk < v.player_sk
    /\ \A v, w \in O : v.player_sk = w.player_sk => v = w
    /\ \A p \in DOMAIN incoming : \E v \in KeptOf(X, incoming) \cup O : v.player = p
    /\ \A v \in OutdatedOf(X, incoming) : \E w \in O : w.player = v.player

MergesTo(X, R, incoming, ts) ==
    \/ DOMAIN incoming = {} /\ R = X
    \/ \E O \in SUBSET R : R = CarriedOver(X, incoming, ts) \cup O /\ AreNew(O, X, incoming, ts)

(* A surrogate key names a version: its player, attributes and first day. *)
NamesAgree(X) ==
    \A v, w \in X : v.player_sk = w.player_sk =>
        v.player = w.player /\ v.attr = w.attr /\ v.effective_date = w.effective_date

LEMMA KeyedRange ==
    ASSUME NEW frame, Keyed(frame)
    PROVE  \A v, w \in Range(frame) : v.player_sk = w.player_sk => v = w
BY DEF Keyed, Range

LEMMA MergedVersions ==
    ASSUME NEW existing \in Seq(Version), existing # << >>, NamesAgree(Range(existing)),
           NEW incoming \in Incoming, NEW ts \in Nat
    PROVE  LET r == Merged(existing, incoming, ts)
               O == Range(OpenedFrame(existing, incoming, ts))
           IN  /\ r \in Seq(Version)
               /\ Range(r) = CarriedOver(Range(existing), incoming, ts) \cup O
               /\ AreNew(O, Range(existing), incoming, ts)
<1> DEFINE X == Range(existing)
           r == Merged(existing, incoming, ts)
           f == OpenedFrame(existing, incoming, ts)
           O == Range(f)
           unchanged == UnchangedRows(existing, incoming)
           changed   == ChangedRows(existing, incoming)
<1>1. /\ \A i \in DOMAIN existing : existing[i] \in Version /\ existing[i] \in X
      /\ \A v \in X : \E i \in DOMAIN existing : v = existing[i]
  BY Positions DEF Range
<1>2. /\ r \in Seq(Version)
      /\ Range(r) = {existing[i] : i \in PassedOn(existing)}
            \cup {existing[i] : i \in WithKeyOf(existing, unchanged)}
            \cup {Shut(existing[i], ts) : i \in WithKeyOf(existing, changed)}
            \cup O
  BY MergedRows
<1> HIDE DEF X
<1>3. /\ unchanged \subseteq DOMAIN existing
      /\ \A i \in DOMAIN existing : i \in unchanged <=> existing[i] \in KeptOf(X, incoming)
  BY <1>1 DEF UnchangedRows, ChangedRows, Overlap, CurrentRows, KeptOf
<1>4. /\ changed \subseteq DOMAIN existing
      /\ \A i \in DOMAIN existing : i \in changed <=> existing[i] \in OutdatedOf(X, incoming)
  BY <1>1 DEF ChangedRows, Overlap, CurrentRows, OutdatedOf
<1>5. NamesAgree(X)
  BY DEF X
<1>6. {existing[i] : i \in PassedOn(existing)} = AlreadyShut(X)
  <2>1. ASSUME NEW i \in DOMAIN existing
        PROVE  i \in PassedOn(existing) <=> existing[i] \in AlreadyShut(X)
    BY <1>1 DEF PassedOn, SksAt, CurrentRows, AlreadyShut
  <2>2. AlreadyShut(X) \subseteq X /\ PassedOn(existing) \subseteq DOMAIN existing
    BY DEF AlreadyShut, PassedOn
  <2>3. QED
    BY <1>1, <2>1, <2>2
<1>7. WithKeyOf(existing, unchanged) = unchanged
  <2>1. ASSUME NEW i \in DOMAIN existing, existing[i].is_current,
               NEW j \in unchanged, existing[i].player_sk = existing[j].player_sk
        PROVE  i \in unchanged
    <3>1. existing[j] \in KeptOf(X, incoming) /\ existing[i] \in X
      BY <1>1, <1>3
    <3>2. existing[i] \in KeptOf(X, incoming)
      BY <1>5, <2>1, <3>1 DEF KeptOf, NamesAgree
    <3>3. QED
      BY <1>3, <3>2
  <2>2. \A i \in unchanged : existing[i].is_current
    BY <1>3 DEF KeptOf
  <2>3. QED
    BY <1>3, <2>1, <2>2 DEF WithKeyOf, SksAt, CurrentRows
<1>8. WithKeyOf(existing, changed) = changed
  <2>1. ASSUME NEW i \in DOMAIN existing, existing[i].is_current,
               NEW j \in changed, existing[i].player_sk = existing[j].player_sk
        PROVE  i \in changed
    <3>1. existing[j] \in OutdatedOf(X, incoming) /\ existing[i] \in X
      BY <1>1, <1>4
    <3>2. existing[i] \in OutdatedOf(X, incoming)
      BY <1>5, <2>1, <3>1 DEF OutdatedOf, NamesAgree
    <3>3. QED
      BY <1>4, <3>2
  <2>2. \A i \in changed : existing[i].is_current
    BY <1>4 DEF OutdatedOf
  <2>3. QED
    BY <1>4, <2>1, <2>2 DEF WithKeyOf, SksAt, CurrentRows
<1>9. /\ {existing[i] : i \in unchanged} = KeptOf(X, incoming)
      /\ {Shut(existing[i], ts) : i \in changed} = {Shut(v, ts) : v \in OutdatedOf(X, incoming)}
  <2>1. KeptOf(X, incoming) \subseteq X /\ OutdatedOf(X, incoming) \subseteq X
    BY DEF KeptOf, OutdatedOf
  <2>2. {existing[i] : i \in unchanged} = KeptOf(X, incoming)
    BY <1>1, <1>3, <2>1
  <2>3. {existing[i] : i \in changed} = OutdatedOf(X, incoming)
    BY <1>1, <1>4, <2>1
  <2>4. QED
    BY <2>2, <2>3
<1>10. AreOpened(f, existing, incoming, ts)
  BY OpenedRows
<1>11. \A v, w \in O : v.player_sk = w.player_sk => v = w
  BY <1>10, KeyedRange DEF AreOpened
<1>12. AreNew(O, X, incoming, ts)
  <2> HIDE DEF f
  <2>1. \A v \in O : \A w \in X : w.player_sk < v.player_sk
    BY <1>1, <1>10 DEF AreOpened
  <2>2. ASSUME NEW p \in DOMAIN incoming
        PROVE  \E v \in KeptOf(X, incoming) \cup O : v.player = p
    BY <1>3, <1>10 DEF AreOpened
  <2>3. ASSUME NEW v \in OutdatedOf(X, incoming)
        PROVE  \E w \in O : w.player = v.player
    <3>1. PICK i \in DOMAIN existing : v = existing[i]
      BY <1>1 DEF OutdatedOf
    <3>2. i \in changed
      BY <1>4, <3>1
    <3>3. QED
      BY <1>10, <3>1, <3>2 DEF AreOpened
  <2>4. QED
    BY <1>10, <1>11, <2>1, <2>2, <2>3 DEF AreNew, AreOpened
<1>13. QED
  BY <1>2, <1>6, <1>7, <1>8, <1>9, <1>12 DEF CarriedOver, X

(* What scd2_merge makes of a frame whose keys name a version each. *)
IsMergeOf(r, X, incoming, ts) ==
    /\ r \in Seq(Version) /\ MergesTo(X, Range(r), incoming, ts)
    /\ r = << >> => X = {}

LEMMA EmptyFrame ==
    ASSUME NEW T, NEW s \in Seq(T)
    PROVE  s = << >> <=> Range(s) = {}
<1>1. CASE s = << >>
  BY <1>1 DEF Range
<1>2. CASE s # << >>
  <2>1. 1 \in DOMAIN s
    BY <1>2, Positions
  <2>2. s[1] \in Range(s)
    BY <2>1 DEF Range
  <2>3. QED
    BY <1>2, <2>2
<1>3. QED
  BY <1>1, <1>2

LEMMA MergeOfVersions ==
    ASSUME NEW existing \in Seq(Version), NamesAgree(Range(existing)),
           NEW incoming \in Incoming, NEW ts \in Nat
    PROVE  IsMergeOf(scd2_merge(existing, incoming, ts), Range(existing), incoming, ts)
<1> DEFINE X == Range(existing)
           r == scd2_merge(existing, incoming, ts)
<1>1. CASE existing = << >>
  <2> DEFINE load == InitialLoad(incoming, ts)
             O == Range(load)
  <2>1. r = load
    BY <1>1 DEF scd2_merge
  <2>2. AreLoaded(load, incoming, ts)
    BY LoadedRows
  <2>3. X = {}
    BY <1>1, EmptyFrame
  <2> HIDE DEF load, r, X
  <2>4. \A v, w \in O : v.player_sk = w.player_sk => v = w
    BY <2>2, KeyedRange DEF AreLoaded
  <2>5. KeptOf(X, incoming) = {} /\ OutdatedOf(X, incoming) = {} /\ AlreadyShut(X) = {}
    BY <2>3 DEF KeptOf, OutdatedOf, AlreadyShut
  <2>6. AreNew(O, X, incoming, ts)
    BY <2>2, <2>3, <2>4, <2>5 DEF AreNew, AreLoaded
  <2>7. CarriedOver(X, incoming, ts) = {}
    BY <2>5 DEF CarriedOver
  <2>8. MergesTo(X, O, incoming, ts)
    BY <2>6, <2>7 DEF MergesTo
  <2>9. QED
    BY <2>1, <2>2, <2>3, <2>8 DEF IsMergeOf, AreLoaded, r, X
<1>2. CASE existing # << >>
  <2> DEFINE m == Merged(existing, incoming, ts)
             O == Range(OpenedFrame(existing, incoming, ts))
  <2>1. r = IF m = << >> THEN existing ELSE m
    BY <1>2 DEF scd2_merge
  <2>2. /\ m \in Seq(Version) /\ Range(m) = CarriedOver(X, incoming, ts) \cup O
        /\ AreNew(O, X, incoming, ts)
    BY <1>2, MergedVersions
  <2>3. X # {}
    BY <1>2, EmptyFrame
  <2> HIDE DEF m, O, X, r
  <2>4. CASE m = << >>
    <3>1. CarriedOver(X, incoming, ts) = {} /\ O = {}
      BY <2>2, <2>4, EmptyFrame
    <3>2. DOMAIN incoming = {}
      BY <2>2, <3>1 DEF AreNew, CarriedOver
    <3>3. QED
      BY <1>2, <2>1, <2>3, <2>4, <3>2 DEF IsMergeOf, MergesTo, r, X
  <2>5. CASE m # << >>
    <3>1. MergesTo(X, Range(m), incoming, ts)
      BY <2>2 DEF MergesTo
    <3>2. QED
      BY <2>1, <2>2, <2>5, <3>1 DEF IsMergeOf, r, X
  <2>6. QED
    BY <2>4, <2>5
<1>3. QED
  BY <1>1, <1>2

LEMMA NamesCarried ==
    ASSUME NEW X, X \subseteq Version, NEW incoming, NEW ts \in Nat,
           NEW v \in CarriedOver(X, incoming, ts)
    PROVE  \E w \in X : /\ v.player_sk = w.player_sk /\ v.player = w.player
                        /\ v.attr = w.attr /\ v.effective_date = w.effective_date
<1>1. CASE v \in AlreadyShut(X) \cup KeptOf(X, incoming)
  BY <1>1 DEF AlreadyShut, KeptOf
<1>2. ASSUME NEW w \in OutdatedOf(X, incoming), v = Shut(w, ts)
      PROVE  w \in X /\ v.player_sk = w.player_sk /\ v.player = w.player
             /\ v.attr = w.attr /\ v.effective_date = w.effective_date
  <2>1. w \in Version /\ w \in X
    BY DEF OutdatedOf
  <2>2. QED
    BY <1>2, <2>1, ShutVersion
<1>3. QED
  BY <1>1, <1>2 DEF CarriedOver

(* Every version of the result has the name of one there was, or a new key. *)
LEMMA NamesOfMerge ==
    ASSUME NEW X, X \subseteq Version, NamesAgree(X), NEW incoming, NEW ts \in Nat,
           NEW R, MergesTo(X, R, incoming, ts)
    PROVE  NamesAgree(X \cup R)
<1>1. CASE DOMAIN incoming = {} /\ R = X
  BY <1>1
<1>2. ASSUME NEW O \in SUBSET R, R = CarriedOver(X, incoming, ts) \cup O,
             AreNew(O, X, incoming, ts)
      PROVE  NamesAgree(X \cup R)
  <2>1. \A v \in X : v.player_sk \in Nat
    BY DEF Version
  <2>2. \A v \in X \cup CarriedOver(X, incoming, ts) : \E w \in X :
           /\ v.player_sk = w.player_sk /\ v.player = w.player
           /\ v.attr = w.attr /\ v.effective_date = w.effective_date
    BY NamesCarried
  <2>3. \A v \in O, w \in X : w.player_sk < v.player_sk
    BY <1>2 DEF AreNew
  <2>4. \A v \in O, w \in X \cup CarriedOver(X, incoming, ts) : v.player_sk # w.player_sk
    <3>1. ASSUME NEW v \in O, NEW w \in X \cup CarriedOver(X, incoming, ts),
                 v.player_sk = w.player_sk
          PROVE  FALSE
      <4>1. PICK u \in X : u.player_sk = w.player_sk
        BY <2>2
      <4>2. u.player_sk < v.player_sk /\ u.player_sk \in Nat
        BY <2>1, <2>3
      <4>3. QED
        BY <3>1, <4>1, <4>2
    <3>2. QED
      BY <3>1
  <2>5. \A v, w \in O : v.player_sk = w.player_sk => v = w
    BY <1>2 DEF AreNew
  <2>6. ASSUME NEW v \in X \cup R, NEW w \in X \cup R, v.player_sk = w.player_sk
        PROVE  v.player = w.player /\ v.attr = w.attr /\ v.effective_date = w.effective_date
    <3>1. CASE v \in O \/ w \in O
      BY <1>2, <2>4, <2>5, <2>6, <3>1
    <3>2. CASE v \notin O /\ w \notin O
      <4>1. v \in X \cup CarriedOver(X, incoming, ts) /\ w \in X \cup CarriedOver(X, incoming, ts)
        BY <1>2, <3>2
      <4>2. PICK s \in X : /\ v.player_sk = s.player_sk /\ v.player = s.player
                           /\ v.attr = s.attr /\ v.effective_date = s.effective_date
        BY <2>2, <4>1
      <4>3. PICK t \in X : /\ w.player_sk = t.player_sk /\ w.player = t.player
                           /\ w.attr = t.attr /\ w.effective_date = t.effective_date
        BY <2>2, <4>1
      <4>4. QED
        BY <2>6, <4>2, <4>3 DEF NamesAgree
    <3>3. QED
      BY <3>1, <3>2
  <2>7. QED
    BY <2>6 DEF NamesAgree
<1>3. QED
  BY <1>1, <1>2 DEF MergesTo

(* The current versions of the result are those the batch delivers. *)
AsDelivered(R, incoming) ==
    /\ \A p \in DOMAIN incoming : \E v \in R : v.player = p /\ v.is_current
    /\ \A v \in R : v.is_current /\ v.player \in DOMAIN incoming => v.attr = incoming[v.player]

LEMMA MergeDelivers ==
    ASSUME NEW X, X \subseteq Version, NEW incoming, NEW ts \in Nat,
           NEW R, MergesTo(X, R, incoming, ts)
    PROVE  AsDelivered(R, incoming)
<1>1. CASE DOMAIN incoming = {} /\ R = X
  BY <1>1 DEF AsDelivered
<1>2. ASSUME NEW O \in SUBSET R, R = CarriedOver(X, incoming, ts) \cup O,
             AreNew(O, X, incoming, ts)
      PROVE  AsDelivered(R, incoming)
  <2>1. KeptOf(X, incoming) \subseteq R
    BY <1>2 DEF CarriedOver
  <2>2. \A p \in DOMAIN incoming : \E v \in R : v.player = p /\ v.is_current
    BY <1>2, <2>1 DEF AreNew, KeptOf
  <2>3. \A v \in R : v.is_current => v \in KeptOf(X, incoming) \cup O
    <3>1. \A v \in AlreadyShut(X) : ~v.is_current
      BY DEF AlreadyShut
    <3>2. \A v \in OutdatedOf(X, incoming) : ~Shut(v, ts).is_current
      BY ShutVersion DEF OutdatedOf
    <3>3. QED
      BY <1>2, <3>1, <3>2 DEF CarriedOver
  <2>4. \A v \in KeptOf(X, incoming) \cup O : v.attr = incoming[v.player]
    BY <1>2 DEF AreNew, KeptOf
  <2>5. QED
    BY <2>2, <2>3, <2>4 DEF AsDelivered
<1>3. QED
  BY <1>1, <1>2 DEF MergesTo

-----------------------------------------------------------------------------
(* The lookup, in any frame *)

LEMMA Smallest ==
    ASSUME NEW S, S \subseteq Nat, S # {}
    PROVE  \E n \in S : \A m \in S : n <= m
<1> SUFFICES ASSUME \A n \in S : \E m \in S : m < n
             PROVE  FALSE
  OBVIOUS
<1>1. PICK top \in S : TRUE
  OBVIOUS
<1> DEFINE T == {n \in 0 .. top + 1 : \A m \in S : n <= m}
<1>2. T \subseteq 0 .. top + 1 /\ 0 \in T
  BY <1>1
<1>3. ASSUME NEW n \in T, n < top + 1
      PROVE  n + 1 \in T
  <2>1. n \notin S
    OBVIOUS
  <2>2. \A m \in S : n + 1 <= m
    BY <2>1
  <2>3. QED
    BY <1>1, <1>3, <2>2
<1>4. top + 1 \in T
  <2> HIDE DEF T
  <2>1. top + 1 \in Nat
    BY <1>1
  <2>2. QED
    BY <1>2, <1>3, <2>1, Climbs
<1>5. QED
  BY <1>1, <1>4

(* The lookup finds a version of the player that covers the date, and none
   of those began later.                                                   *)
Covering(X, p, date) == {v \in X : v.player = p /\ Covers(v, date)}

LatestIn(X) == {v \in X : \A w \in X : w.effective_date <= v.effective_date}

Finds(sk, hits) ==
    /\ sk = 0 <=> hits = {}
    /\ sk # 0 => \E v \in LatestIn(hits) : v.player_sk = sk

LEMMA LookupFinds ==
    ASSUME NEW frame \in Seq(Version), NEW p, NEW date
    PROVE  Finds(LookupPlayerSkAt(frame, p, date), Covering(Range(frame), p, date))
<1> DEFINE hits == Covering(Range(frame), p, date)
           sk == LookupPlayerSkAt(frame, p, date)
           I == {i \in DOMAIN frame : frame[i].player = p /\ Covers(frame[i], date)}
           first(i) == \A j \in I : \/ frame[j].effective_date < frame[i].effective_date
                                    \/ frame[j].effective_date = frame[i].effective_date /\ i <= j
           E == {frame[i].effective_date : i \in I}
<1>1. /\ IsFiniteSet(DOMAIN frame) /\ DOMAIN frame \subseteq Nat
      /\ \A i \in DOMAIN frame : frame[i] \in Version
  BY Positions
<1>2. \A i \in I : frame[i].effective_date \in Nat /\ frame[i].player_sk \in Nat \ {0} /\ i \in Nat
  BY <1>1 DEF Version
<1>3. /\ \A i \in I : frame[i] \in hits
      /\ \A v \in hits : \E i \in I : v = frame[i]
  <2>1. ASSUME NEW i \in I PROVE frame[i] \in hits
    BY DEF Covering, Range
  <2>2. ASSUME NEW v \in hits PROVE \E i \in I : v = frame[i]
    <3>1. v \in Range(frame) /\ v.player = p /\ Covers(v, date)
      BY DEF Covering
    <3>2. PICK i \in DOMAIN frame : v = frame[i]
      BY <3>1 DEF Range
    <3>3. QED
      BY <3>1, <3>2
  <2>3. QED
    BY <2>1, <2>2
<1>4. sk = IF I = {} THEN 0 ELSE frame[CHOOSE i \in I : first(i)].player_sk
  BY DEF LookupPlayerSkAt
<1> HIDE DEF hits, sk
<1>5. CASE I = {}
  <2>1. hits = {}
    BY <1>3, <1>5
  <2>2. sk = 0
    BY <1>4, <1>5
  <2>3. QED
    BY <2>1, <2>2 DEF Finds, hits, sk
<1>6. CASE I # {}
  <2>1. E \subseteq Nat /\ E # {} /\ IsFiniteSet(E)
    <3>1. IsFiniteSet(I)
      <4>1. I \in SUBSET DOMAIN frame
        OBVIOUS
      <4>2. QED
        BY <1>1, <4>1, FS_Subset
    <3>2. [i \in I |-> frame[i].effective_date] \in Surjection(I, E)
      BY DEF Surjection
    <3>3. IsFiniteSet(E)
      BY <3>1, <3>2, FS_Surjection
    <3>4. QED
      BY <1>2, <1>6, <3>3
  <2>2. MaxOf(E) \in E /\ \A e \in E : e <= MaxOf(E)
    <3> HIDE DEF E
    <3>1. QED
      BY <2>1, Largest
  <2> DEFINE J == {i \in I : frame[i].effective_date = MaxOf(E)}
  <2>3. J \subseteq Nat /\ J # {}
    BY <1>2, <2>2
  <2>4. PICK i \in J : \A j \in J : i <= j
    <3> HIDE DEF J
    <3>1. QED
      BY <2>3, Smallest
  <2>5. first(i)
    <3>1. ASSUME NEW j \in I
          PROVE  \/ frame[j].effective_date < frame[i].effective_date
                 \/ frame[j].effective_date = frame[i].effective_date /\ i <= j
      <4>1. frame[j].effective_date \in E
        OBVIOUS
      <4>2. frame[j].effective_date <= MaxOf(E) /\ frame[i].effective_date = MaxOf(E)
        BY <2>2, <4>1
      <4>3. QED
        BY <1>2, <2>1, <2>2, <2>4, <4>2
    <3>2. QED
      BY <3>1
  <2> HIDE DEF I, first
  <2>6. PICK k \in I : first(k) /\ sk = frame[k].player_sk
    <3>1. i \in I
      OBVIOUS
    <3>2. (CHOOSE n \in I : first(n)) \in I /\ first(CHOOSE n \in I : first(n))
      BY <2>5, <3>1
    <3>3. QED
      BY <1>4, <1>6, <3>2
  <2>7. sk # 0
    BY <1>2, <2>6
  <2>8. \A j \in I : frame[j].effective_date <= frame[k].effective_date
    BY <1>2, <2>6 DEF first
  <2>9. frame[k] \in LatestIn(hits)
    BY <1>3, <2>8 DEF LatestIn
  <2>10. frame[k] \in hits
    BY <1>3
  <2>11. \E v \in LatestIn(hits) : v.player_sk = sk
    BY <2>6, <2>9
  <2>12. QED
    BY <2>7, <2>10, <2>11 DEF Finds, hits, sk
<1>7. QED
  BY <1>5, <1>6 DEF hits, sk
=============================================================================
