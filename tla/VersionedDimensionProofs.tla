----------------------- MODULE VersionedDimensionProofs -----------------------
(***************************************************************************)
(* What every dimension that is merged as VersionedDimension says keeps,   *)
(* for all players, attributes and dates: keys, current versions, windows  *)
(* and history.                                                            *)
(***************************************************************************)
EXTENDS VersionedDimension, TLAPS

TypeOK == versions \subseteq Version

(* A surrogate key names one version, so that a fact with the key joins to
   one row (scd2.py, _next_surrogate_key).                                 *)
KeysAreUnique == \A v, w \in versions : v.player_sk = w.player_sk => v = w

(* A player has at most one current version. *)
OneCurrent == \A v, w \in versions :
    v.is_current /\ w.is_current /\ v.player = w.player => v = w

(* Only a current version is open-ended, and no window ends before it
   begins.                                                                 *)
WindowsAreProper == \A v \in versions :
    /\ v.is_current => v.end_date = FarFuture
    /\ ~v.is_current => v.end_date \in Date
    /\ v.effective_date <= v.end_date

(* Two windows of a player share at most the day on which one ends and the
   other begins: a match date has one version (facts.py:20).               *)
WindowsDoNotOverlap == \A v, w \in versions :
    v # w /\ v.player = w.player =>
        v.end_date <= w.effective_date \/ w.end_date <= v.effective_date

(* A version that has been closed is in every later state as it was closed. *)
HistoryIsNeverMutated == [][History \subseteq versions']_versions

Inv == TypeOK /\ KeysAreUnique /\ OneCurrent /\ WindowsAreProper /\ WindowsDoNotOverlap

-----------------------------------------------------------------------------

(* The fields of a version. *)
LEMMA Fields ==
    ASSUME NEW v \in Version
    PROVE  /\ v.player \in Player /\ v.attr \in Attr /\ v.player_sk \in Nat \ {0}
           /\ v.effective_date \in Date /\ v.end_date \in Date \cup {FarFuture}
           /\ v.is_current \in BOOLEAN
BY DEF Version

(* What a merge leaves comes from one version each: it is a version of
   before, an unchanged one if it is current, or the closed form of one that
   was current and has changed.                                            *)
From(v, u, incoming, date) ==
    \/ v = u /\ (u.is_current => u \in Unchanged(incoming))
    \/ v = Closed(u, date) /\ u \in Changed(incoming)

LEMMA Origin ==
    ASSUME NEW incoming, NEW date, NEW c \in Carried(incoming, date)
    PROVE  \E u \in versions : From(c, u, incoming, date)
BY DEF Carried, History, Unchanged, Changed, Current, From

(* One version is the origin of one version. *)
LEMMA OriginIsUsedOnce ==
    ASSUME NEW incoming, NEW date, NEW u,
           NEW v, From(v, u, incoming, date),
           NEW w, From(w, u, incoming, date)
    PROVE  v = w
BY DEF From, Unchanged, Changed, Current

(* The versions of after the merge: those that came from one of before, and
   those that were opened.                                                 *)
New(v, incoming, date) ==
    /\ v.player \in Without(incoming)
    /\ v.player_sk \in Nat \ {0} /\ \A w \in versions : w.player_sk # v.player_sk
    /\ v = Opened(v.player, incoming[v.player], v.player_sk, date)

LEMMA Classes ==
    ASSUME NEW incoming, NEW date, Merge(incoming, date), NEW v \in versions'
    PROVE  \/ \E u \in versions : From(v, u, incoming, date)
           \/ New(v, incoming, date)
<1>1. CASE v \in Carried(incoming, date)
  BY <1>1, Origin
<1>2. CASE v \notin Carried(incoming, date)
  BY <1>2 DEF Merge, New
<1>3. QED
  BY <1>1, <1>2

LEMMA NewOnes ==
    ASSUME NEW incoming, NEW date, Merge(incoming, date),
           NEW v \in versions', NEW w \in versions',
           New(v, incoming, date), New(w, incoming, date),
           v.player = w.player \/ v.player_sk = w.player_sk
    PROVE  v = w
<1>1. ASSUME NEW x \in versions', New(x, incoming, date), x \in Carried(incoming, date)
      PROVE  FALSE
  <2>1. PICK u \in versions : From(x, u, incoming, date)
    BY <1>1, Origin
  <2>2. x.player_sk = u.player_sk
    BY <2>1 DEF From, Closed
  <2>3. QED
    BY <1>1, <2>1, <2>2 DEF New
<1>2. QED
  BY <1>1 DEF Merge

(* What is known of a version that came from another one. *)
LEMMA FromFields ==
    ASSUME TypeOK, NEW incoming, NEW date \in Date, NEW u \in versions,
           NEW v, From(v, u, incoming, date)
    PROVE  /\ v \in Version
           /\ v.player = u.player /\ v.player_sk = u.player_sk
           /\ v.effective_date = u.effective_date
           /\ \/ v = u
              \/ u.is_current /\ v.end_date = date /\ ~v.is_current
           /\ v.is_current => v = u /\ v \in Unchanged(incoming)
<1>1. u \in Version
  BY DEF TypeOK
<1>2. CASE v = u /\ (u.is_current => u \in Unchanged(incoming))
  BY <1>1, <1>2
<1>3. CASE v = Closed(u, date) /\ u \in Changed(incoming)
  <2>1. /\ v \in Version /\ v.player = u.player /\ v.player_sk = u.player_sk
        /\ v.effective_date = u.effective_date
        /\ v.end_date = date /\ v.is_current = FALSE
    BY <1>1, <1>3 DEF Closed, Version
  <2>2. u.is_current
    BY <1>3, Zenon DEF Changed, Current
  <2>3. QED
    BY <2>1, <2>2
<1>4. QED
  BY <1>2, <1>3 DEF From

LEMMA NewFields ==
    ASSUME NEW incoming \in Incoming, NEW date \in Date, NEW v, New(v, incoming, date)
    PROVE  /\ v \in Version
           /\ v.player \in Without(incoming)
           /\ v.effective_date = date /\ v.end_date = FarFuture /\ v.is_current
<1>1. v.player \in Player /\ incoming[v.player] \in Attr
  BY DEF New, Without, Incoming
<1>2. v.player_sk \in Nat \ {0} /\ v = Opened(v.player, incoming[v.player], v.player_sk, date)
  BY DEF New
<1>3. /\ v \in Version /\ v.effective_date = date /\ v.end_date = FarFuture
      /\ v.is_current = TRUE
  <2>1. ASSUME NEW player \in Player, NEW attr \in Attr, NEW sk \in Nat \ {0}
        PROVE  /\ Opened(player, attr, sk, date) \in Version
               /\ Opened(player, attr, sk, date).effective_date = date
               /\ Opened(player, attr, sk, date).end_date = FarFuture
               /\ Opened(player, attr, sk, date).is_current = TRUE
    BY DEF Opened, Version
  <2> DEFINE o == Opened(v.player, incoming[v.player], v.player_sk, date)
  <2>2. /\ o \in Version /\ o.effective_date = date /\ o.end_date = FarFuture
        /\ o.is_current = TRUE
    BY <1>1, <1>2, <2>1
  <2>3. v = o
    BY <1>2
  <2> HIDE DEF o
  <2>4. QED
    BY <2>2, <2>3
<1>4. QED
  BY <1>3 DEF New

-----------------------------------------------------------------------------

LEMMA InitInv ==
    Init => Inv
BY DEF Init, Inv, TypeOK, KeysAreUnique, OneCurrent, WindowsAreProper, WindowsDoNotOverlap

LEMMA MergeInv ==
    ASSUME DatesAreOrdered, Inv, NEW incoming \in Incoming, NEW date \in Date,
           Merge(incoming, date)
    PROVE  Inv'
<1> USE DEF Inv
<1> DEFINE F(v, u) == From(v, u, incoming, date)
           N(v)    == New(v, incoming, date)
<1>0. \A v \in versions' : (\E u \in versions : F(v, u)) \/ N(v)
  BY Classes
<1>f. ASSUME NEW u \in versions, NEW v, F(v, u)
      PROVE  /\ v \in Version
             /\ v.player = u.player /\ v.player_sk = u.player_sk
             /\ v.effective_date = u.effective_date
             /\ \/ v = u
                \/ u.is_current /\ v.end_date = date /\ ~v.is_current
             /\ v.is_current => v = u /\ v \in Unchanged(incoming)
  BY <1>f, FromFields
<1>n. ASSUME NEW v, N(v)
      PROVE  /\ v \in Version
             /\ v.player \in Without(incoming)
             /\ \A w \in versions : w.player_sk # v.player_sk
             /\ v.effective_date = date /\ v.end_date = FarFuture /\ v.is_current
  BY <1>n, NewFields DEF New
<1> HIDE DEF F, N
<1>1. TypeOK'
  <2>1. ASSUME NEW v \in versions' PROVE v \in Version
    BY <1>0, <1>f, <1>n
  <2>2. QED
    BY <2>1 DEF TypeOK
<1>2. KeysAreUnique'
  <2> SUFFICES ASSUME NEW v \in versions', NEW w \in versions', v.player_sk = w.player_sk
               PROVE  v = w
    BY DEF KeysAreUnique
  <2>1. CASE N(v) /\ N(w)
    BY <2>1, NewOnes DEF N
  <2>2. ASSUME NEW x \in versions, NEW a, NEW b, F(a, x), N(b)
        PROVE  a.player_sk # b.player_sk
    BY <2>2, <1>f, <1>n
  <2>3. ASSUME NEW x \in versions, NEW y \in versions, F(v, x), F(w, y)
        PROVE  v = w
    <3>1. x.player_sk = y.player_sk
      BY <2>3, <1>f
    <3>2. x = y
      BY <3>1 DEF KeysAreUnique
    <3>3. QED
      BY <2>3, <3>2, OriginIsUsedOnce DEF F
  <2>4. QED
    BY <1>0, <2>1, <2>2, <2>3
<1>3. OneCurrent'
  <2> SUFFICES ASSUME NEW v \in versions', NEW w \in versions',
                      v.is_current, w.is_current, v.player = w.player
               PROVE  v = w
    BY DEF OneCurrent
  <2>1. CASE N(v) /\ N(w)
    BY <2>1, NewOnes DEF N
  <2>2. ASSUME NEW x \in versions, NEW a, NEW b, F(a, x), N(b), a.is_current
        PROVE  a.player # b.player
    BY <2>2, <1>f, <1>n DEF Without
  <2>3. ASSUME NEW x \in versions, NEW y \in versions, F(v, x), F(w, y)
        PROVE  v = w
    <3>1. v = x /\ w = y
      BY <2>3, <1>f
    <3>2. QED
      BY <3>1 DEF OneCurrent
  <2>4. QED
    BY <1>0, <2>1, <2>2, <2>3
<1>4. WindowsAreProper'
  <2> SUFFICES ASSUME NEW v \in versions'
               PROVE  /\ v.is_current => v.end_date = FarFuture
                      /\ ~v.is_current => v.end_date \in Date
                      /\ v.effective_date <= v.end_date
    BY DEF WindowsAreProper
  <2>1. CASE N(v)
    BY <2>1, <1>n DEF DatesAreOrdered
  <2>2. ASSUME NEW u \in versions, F(v, u)
        PROVE  /\ v.is_current => v.end_date = FarFuture
               /\ ~v.is_current => v.end_date \in Date
               /\ v.effective_date <= v.end_date
    BY <2>2, <1>f DEF WindowsAreProper, Merge, NotBefore
  <2>3. QED
    BY <1>0, <2>1, <2>2
<1>5. WindowsDoNotOverlap'
  <2> DEFINE Apart(v, w) == v.end_date <= w.effective_date \/ w.end_date <= v.effective_date
  <2> SUFFICES ASSUME NEW v \in versions', NEW w \in versions', v # w, v.player = w.player
               PROVE  Apart(v, w)
    BY DEF WindowsDoNotOverlap
  <2>1. CASE N(v) /\ N(w)
    BY <2>1, NewOnes DEF N
  <2>2. ASSUME NEW x \in versions, NEW a \in versions', NEW b \in versions', F(a, x), N(b),
               a.player = b.player
        PROVE  a.end_date <= b.effective_date
    <3>1. ~a.is_current
      BY <2>2, <1>f, <1>n DEF Without
    <3>2. \/ a = x
          \/ a.end_date = date
      BY <2>2, <1>f
    <3>3. a.end_date <= date
      BY <3>1, <3>2 DEF Merge, NotBefore, DatesAreOrdered
    <3>4. QED
      BY <2>2, <3>3, <1>n
  <2>3. ASSUME NEW x \in versions, NEW y \in versions, F(v, x), F(w, y)
        PROVE  Apart(v, w)
    <3>1. x # y
      BY <2>3, OriginIsUsedOnce DEF F
    <3>2. /\ v.effective_date = x.effective_date /\ w.effective_date = y.effective_date
          /\ x.player = y.player
      BY <2>3, <1>f
    <3>3. Apart(x, y) /\ ~(x.is_current /\ y.is_current)
      BY <3>1, <3>2 DEF WindowsDoNotOverlap, OneCurrent
    <3>4. /\ x.effective_date \in Nat /\ x.end_date \in Nat /\ x.effective_date < FarFuture
          /\ y.effective_date \in Nat /\ y.end_date \in Nat /\ y.effective_date < FarFuture
          /\ FarFuture \in Nat
      BY Fields DEF TypeOK, DatesAreOrdered
    <3>5. /\ v = x \/ (x.is_current /\ v.end_date = date)
          /\ w = y \/ (y.is_current /\ w.end_date = date)
      BY <2>3, <1>f
    <3>6. /\ x.is_current => x.end_date = FarFuture
          /\ y.is_current => y.end_date = FarFuture
      BY DEF WindowsAreProper
    <3>7. QED
      BY <3>2, <3>3, <3>4, <3>5, <3>6
  <2>4. QED
    BY <1>0, <2>1, <2>2, <2>3
<1>6. QED
  BY <1>1, <1>2, <1>3, <1>4, <1>5

LEMMA StutterInv ==
    Inv /\ UNCHANGED versions => Inv'
BY DEF Inv, TypeOK, KeysAreUnique, OneCurrent, WindowsAreProper, WindowsDoNotOverlap

(* Keys, current versions and windows of a dimension, whatever the batches
   bring.                                                                  *)
THEOREM DimensionIsSound ==
    ASSUME DatesAreOrdered
    PROVE  Spec => []Inv
<1>1. Inv /\ [Next]_versions => Inv'
  BY MergeInv, StutterInv DEF Next
<1>2. QED
  BY InitInv, <1>1, PTL DEF Spec

(* No merge touches a closed version. *)
THEOREM HistoryIsFinal ==
    Spec => HistoryIsNeverMutated
<1>1. Next => History \subseteq versions'
  BY DEF Next, Merge, Carried
<1>2. QED
  BY <1>1, PTL DEF Spec, HistoryIsNeverMutated
=============================================================================
