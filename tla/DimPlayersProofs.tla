--------------------------- MODULE DimPlayersProofs ---------------------------
(***************************************************************************)
(* What chains of merges keep: for all players, attributes and numbers of  *)
(* batches, PlayerMerges implements VersionedDimension.  Then what the     *)
(* Silver runner keeps of the partitions and facts it makes with the merge *)
(* (PlayerHistory), for all batches, appearances and numbers of attempts   *)
(* and failures.                                                           *)
(***************************************************************************)
EXTENDS PlayerMerges, PlayerHistory, Scd2Proofs

-----------------------------------------------------------------------------
(* Chains of merges *)

(* The abstract dimension, of the rows of the table. *)
Sound == INSTANCE VersionedDimensionProofs
            WITH versions <- {dim[i] : i \in Rows},
                 Date <- FAR_PAST_DATE .. MaxBatches, FarFuture <- FAR_FUTURE_DATE

LEMMA Dates == Sound!DatesAreOrdered
BY MergesAssumption DEF Sound!DatesAreOrdered, FAR_PAST_DATE, FAR_FUTURE_DATE

(* A version is its fields. *)
LEMMA SameVersion ==
    ASSUME NEW v \in Version, NEW w \in Version,
           v.player = w.player, v.attr = w.attr, v.player_sk = w.player_sk,
           v.effective_date = w.effective_date, v.end_date = w.end_date,
           v.is_current = w.is_current
    PROVE  v = w
<1>1. \A u \in Version :
         u = [ player |-> u.player, attr |-> u.attr, player_sk |-> u.player_sk,
               effective_date |-> u.effective_date, end_date |-> u.end_date,
               is_current |-> u.is_current ]
  BY DEF Version
<1>2. QED
  BY <1>1

(* What a merge leaves of the versions there were, row by row. *)
LEMMA CarriedRows ==
    ASSUME dim \in Seq(Version), Keyed(dim), NEW incoming, NEW ts \in Nat
    PROVE  Sound!Carried(incoming, ts) =
              {dim[i] : i \in PassedOn(dim)}
                 \cup {dim[i] : i \in WithKeyOf(dim, UnchangedRows(dim, incoming))}
                 \cup {Shut(dim[i], ts) : i \in WithKeyOf(dim, ChangedRows(dim, incoming))}
<1>1. PassedOn(dim) = Rows \ CurrentRows(dim)
  BY DEF PassedOn, SksAt, Keyed, CurrentRows, Rows
<1>2. /\ UnchangedRows(dim, incoming) \subseteq CurrentRows(dim)
      /\ ChangedRows(dim, incoming) \subseteq CurrentRows(dim)
      /\ CurrentRows(dim) \subseteq Rows
  BY DEF UnchangedRows, ChangedRows, Overlap, CurrentRows, Rows
<1>3. /\ WithKeyOf(dim, UnchangedRows(dim, incoming)) = UnchangedRows(dim, incoming)
      /\ WithKeyOf(dim, ChangedRows(dim, incoming)) = ChangedRows(dim, incoming)
  BY <1>2 DEF WithKeyOf, SksAt, Keyed, Rows
<1>4. Sound!History = {dim[i] : i \in Rows \ CurrentRows(dim)}
  BY DEF Sound!History, Sound!Current, CurrentRows, Rows
<1>5. Sound!Unchanged(incoming) = {dim[i] : i \in UnchangedRows(dim, incoming)}
  BY DEF Sound!Unchanged, Sound!Current, UnchangedRows, ChangedRows, Overlap, CurrentRows, Rows
<1>6. Sound!Changed(incoming) = {dim[i] : i \in ChangedRows(dim, incoming)}
  BY DEF Sound!Changed, Sound!Current, ChangedRows, Overlap, CurrentRows, Rows
<1>7. \A i \in Rows : Sound!Closed(dim[i], ts) = Shut(dim[i], ts)
  <2>1. ASSUME NEW v \in Version PROVE Sound!Closed(v, ts) = Shut(v, ts)
    <3>1. Sound!Closed(v, ts) \in Version
      BY DEF Sound!Closed, Version
    <3>2. QED
      BY <3>1, ShutVersion, SameVersion DEF Sound!Closed
  <2>2. \A i \in Rows : dim[i] \in Version
    BY Positions DEF Rows
  <2>3. QED
    BY <2>1, <2>2
<1>8. {Sound!Closed(v, ts) : v \in Sound!Changed(incoming)} = {Shut(dim[i], ts) : i \in ChangedRows(dim, incoming)}
  BY <1>2, <1>6, <1>7
<1>9. QED
  BY <1>1, <1>3, <1>4, <1>5, <1>8 DEF Sound!Carried

(* A table that holds what is carried and new versions of those without is
   the result of a merge.                                                  *)
Opens(opened, incoming, ts) ==
    /\ Range(dim') = Sound!Carried(incoming, ts) \cup opened
    /\ \A v \in opened :
          /\ v.player \in Sound!Without(incoming) /\ v.attr = incoming[v.player]
          /\ v.effective_date = ts /\ v.end_date = FAR_FUTURE_DATE /\ v.is_current = TRUE
          /\ \A i \in Rows : dim[i].player_sk # v.player_sk
    /\ \A v, w \in opened : v.player = w.player \/ v.player_sk = w.player_sk => v = w
    /\ \A p \in Sound!Without(incoming) : \E v \in opened : v.player = p

LEMMA IsMerge ==
    ASSUME dim \in Seq(Version), dim' \in Seq(Version), dim' # << >>,
           NEW incoming, NEW ts, Sound!NotBefore(ts), NEW opened, Opens(opened, incoming, ts)
    PROVE  Sound!Merge(incoming, ts)
<1> USE DEF Opens
<1> DEFINE after == {dim'[i] : i \in DOMAIN dim'}
<1>1. after = Sound!Carried(incoming, ts) \cup opened
  BY DEF Range
<1>2. after # {} /\ \A v \in after : v \in Version
  <2>1. 1 \in DOMAIN dim' /\ \A i \in DOMAIN dim' : dim'[i] \in Version
    BY Positions
  <2>2. QED
    BY <2>1
<1>3. \A c \in Sound!Carried(incoming, ts) : \E i \in Rows : c.player_sk = dim[i].player_sk
  BY DEF Sound!Carried, Sound!History, Sound!Unchanged, Sound!Changed, Sound!Current,
         Sound!Closed
<1>4. after \ Sound!Carried(incoming, ts) = opened
  BY <1>1, <1>3
<1> HIDE DEF after
<1>5. ASSUME NEW v \in opened
      PROVE  /\ v.player_sk \in Nat \ {0}
             /\ v = Sound!Opened(v.player, incoming[v.player], v.player_sk, ts)
  <2>1. v \in Version
    BY <1>1, <1>2
  <2>2. v.player_sk \in Nat \ {0}
    BY <2>1 DEF Version
  <2>3. v = [ player |-> v.player, attr |-> v.attr, player_sk |-> v.player_sk,
              effective_date |-> v.effective_date, end_date |-> v.end_date,
              is_current |-> v.is_current ]
    BY <2>1 DEF Version
  <2>4. QED
    BY <2>2, <2>3 DEF Sound!Opened
<1>6. \A w \in {dim[i] : i \in Rows} : \A v \in opened : w.player_sk # v.player_sk
  OBVIOUS
<1>7. QED
  BY <1>1, <1>2, <1>4, <1>5, <1>6 DEF Sound!Merge, after, Rows

(* What is kept along a chain of merges: the dimension is sound, its keys are
   one row each, nothing in it is younger than the last batch, and the
   players of that batch are current.                                      *)
TypeInv == dim \in Seq(Version) /\ latest \in Incoming /\ day \in FAR_PAST_DATE .. MaxBatches

NotYounger == \A i \in Rows :
    dim[i].effective_date <= day /\ (Current(i) \/ dim[i].end_date <= day)

Delivered == \A p \in DOMAIN latest :
    \E i \in Rows : Current(i) /\ dim[i].player = p /\ dim[i].attr = latest[p]

ChainInv == TypeInv /\ Keyed(dim) /\ Sound!Inv /\ NotYounger /\ Delivered

LEMMA OneRowIsCurrent ==
    ASSUME Keyed(dim), Sound!Inv
    PROVE  \A i, j \in CurrentRows(dim) : dim[i].player = dim[j].player => i = j
<1>1. ASSUME NEW i \in CurrentRows(dim), NEW j \in CurrentRows(dim), dim[i].player = dim[j].player
      PROVE  i = j
  <2>1. i \in Rows /\ j \in Rows /\ dim[i].is_current /\ dim[j].is_current
    BY DEF CurrentRows, Rows
  <2>2. dim[i] = dim[j]
    BY <1>1, <2>1 DEF Sound!Inv, Sound!OneCurrent
  <2>3. QED
    BY <2>1, <2>2 DEF Keyed, Rows
<1>2. QED
  BY <1>1

LEMMA AtAndIn ==
    ASSUME NEW s
    PROVE  /\ \A i \in DOMAIN s : s[i] \in Range(s)
           /\ \A v \in Range(s) : \E i \in DOMAIN s : v = s[i]
BY DEF Range

(* The first load is a merge into nothing. *)
LEMMA LoadStep ==
    ASSUME ChainInv, dim = << >>, NEW incoming \in Incoming,
           dim' = InitialLoad(incoming, FAR_PAST_DATE), latest' = incoming
    PROVE  /\ dim' \in Seq(Version) /\ Keyed(dim') /\ Delivered'
           /\ dim' = dim \/ Sound!Merge(incoming, FAR_PAST_DATE)
<1>1. /\ dim' \in Seq(Version) /\ Keyed(dim')
      /\ \A v \in Range(dim') :
            /\ v.player \in DOMAIN incoming /\ v.attr = incoming[v.player]
            /\ v.effective_date = FAR_PAST_DATE /\ v.end_date = FAR_FUTURE_DATE
            /\ v.is_current = TRUE
      /\ \A p \in DOMAIN incoming : \E v \in Range(dim') : v.player = p
      /\ \A v, w \in Range(dim') : v.player = w.player => v = w
  <2>1. FAR_PAST_DATE \in Nat
    BY DEF FAR_PAST_DATE
  <2>2. AreLoaded(dim', incoming, FAR_PAST_DATE)
    BY <2>1, LoadedRows
  <2>3. QED
    BY <2>2 DEF AreLoaded
<1>2. Delivered'
  <2>1. ASSUME NEW p \in DOMAIN incoming
        PROVE  \E i \in DOMAIN dim' :
                  dim'[i].is_current /\ dim'[i].player = p /\ dim'[i].attr = incoming[p]
    <3>1. PICK v \in Range(dim') : v.player = p
      BY <1>1
    <3>2. PICK i \in DOMAIN dim' : v = dim'[i]
      BY AtAndIn
    <3>3. dim'[i].is_current /\ dim'[i].player = p /\ dim'[i].attr = incoming[p]
      BY <1>1, <3>1, <3>2
    <3>4. QED
      BY <3>3
  <2>2. QED
    BY <2>1 DEF Delivered, Rows, Current
<1>3. Rows = {} /\ {dim[i] : i \in Rows} = {}
  BY DEF Rows
<1>4. /\ Sound!Carried(incoming, FAR_PAST_DATE) = {}
      /\ Sound!Without(incoming) = DOMAIN incoming
      /\ Sound!NotBefore(FAR_PAST_DATE)
  BY <1>3 DEF Sound!Carried, Sound!History, Sound!Unchanged, Sound!Changed, Sound!Current,
              Sound!Without, Sound!NotBefore
<1>5. ASSUME dim' # << >>
      PROVE  Sound!Merge(incoming, FAR_PAST_DATE)
  <2>1. Range(dim') = Sound!Carried(incoming, FAR_PAST_DATE) \cup Range(dim')
    BY <1>4
  <2>2. \A v, w \in Range(dim') : v.player = w.player \/ v.player_sk = w.player_sk => v = w
    BY <1>1, AtAndIn DEF Keyed
  <2>3. dim \in Seq(Version)
    BY DEF ChainInv, TypeInv
  <2>4. Opens(Range(dim'), incoming, FAR_PAST_DATE)
    BY <1>1, <1>3, <1>4, <2>1, <2>2 DEF Opens
  <2>5. QED
    BY <1>1, <1>4, <1>5, <2>3, <2>4, IsMerge
<1>6. QED
  BY <1>1, <1>2, <1>5

(* So is a later one, unless there is nothing to write. *)
LEMMA LaterStep ==
    ASSUME ChainInv, dim # << >>, NEW incoming \in Incoming,
           NEW ts \in Nat, Sound!NotBefore(ts),
           dim' = (IF Merged(dim, incoming, ts) = << >> THEN dim ELSE Merged(dim, incoming, ts)),
           latest' = incoming
    PROVE  /\ dim' \in Seq(Version) /\ Keyed(dim') /\ Delivered'
           /\ dim' = dim \/ Sound!Merge(incoming, ts)
<1> DEFINE r == Merged(dim, incoming, ts)
           o == OpenedFrame(dim, incoming, ts)
           kept == WithKeyOf(dim, UnchangedRows(dim, incoming))
<1>0. dim \in Seq(Version) /\ Keyed(dim) /\ Sound!Inv
  BY DEF ChainInv, TypeInv
<1>1. /\ r \in Seq(Version) /\ Keyed(r)
      /\ Range(r) = Sound!Carried(incoming, ts) \cup Range(o)
      /\ \A i \in kept : dim[i] \in Range(r)
  <2>1. Keyed(r) /\ r \in Seq(Version)
    BY <1>0, MergedRows
  <2>2. /\ Range(r) = {dim[i] : i \in PassedOn(dim)}
                 \cup {dim[i] : i \in kept}
                 \cup {Shut(dim[i], ts) : i \in WithKeyOf(dim, ChangedRows(dim, incoming))}
                 \cup Range(o)
    BY <1>0, MergedRows
  <2> HIDE DEF o
  <2>3. QED
    BY <1>0, <2>1, <2>2, CarriedRows
<1>2. \A i, j \in CurrentRows(dim) : dim[i].player = dim[j].player => i = j
  BY <1>0, OneRowIsCurrent
<1>a. AreOpened(o, dim, incoming, ts)
  BY <1>0, OpenedRows
<1> HIDE DEF o
<1>3. /\ o \in Seq(Version) /\ Keyed(o)
      /\ \A v \in Range(o) :
            /\ v.player \in DOMAIN incoming /\ v.attr = incoming[v.player]
            /\ v.effective_date = ts /\ v.end_date = FAR_FUTURE_DATE /\ v.is_current = TRUE
            /\ \A i \in DOMAIN dim : dim[i].player_sk < v.player_sk
            /\ \/ \E i \in ChangedRows(dim, incoming) : dim[i].player = v.player
               \/ \A i \in Overlap(dim, incoming) : dim[i].player # v.player
      /\ \A p \in DOMAIN incoming :
            \/ \E i \in UnchangedRows(dim, incoming) : dim[i].player = p
            \/ \E v \in Range(o) : v.player = p
  BY <1>a DEF AreOpened
<1>4. \A v, w \in Range(o) : v.player = w.player => v = w
  BY <1>a, <1>2 DEF AreOpened
<1>5. /\ UnchangedRows(dim, incoming) \subseteq Overlap(dim, incoming)
      /\ UnchangedRows(dim, incoming) \cap ChangedRows(dim, incoming) = {}
      /\ ChangedRows(dim, incoming) \subseteq CurrentRows(dim)
      /\ UnchangedRows(dim, incoming) \subseteq CurrentRows(dim)
      /\ CurrentRows(dim) \subseteq Rows
      /\ \A i \in UnchangedRows(dim, incoming) :
            dim[i].is_current /\ dim[i].attr = incoming[dim[i].player]
      /\ UnchangedRows(dim, incoming) \subseteq kept
  BY DEF UnchangedRows, ChangedRows, Overlap, CurrentRows, WithKeyOf, SksAt, Rows
<1> HIDE DEF kept
<1>6. Delivered'
  <2>1. ASSUME NEW p \in DOMAIN incoming
        PROVE  \E v \in Range(dim') : v.is_current /\ v.player = p /\ v.attr = incoming[p]
    <3>1. CASE \E v \in Range(o) : v.player = p
      <4>1. PICK v \in Range(o) : v.player = p
        BY <3>1
      <4>2. v \in Range(r) /\ v.is_current /\ v.attr = incoming[p]
        BY <1>1, <1>3, <4>1
      <4>3. Range(r) # {} => r # << >>
        BY DEF Range
      <4>4. QED
        BY <4>1, <4>2, <4>3
    <3>2. CASE \E i \in UnchangedRows(dim, incoming) : dim[i].player = p
      <4>1. PICK i \in UnchangedRows(dim, incoming) : dim[i].player = p
        BY <3>2
      <4>2. dim[i] \in Range(r) /\ dim[i] \in Range(dim)
        BY <1>1, <1>5, <4>1, AtAndIn DEF Rows
      <4>3. dim[i].is_current /\ dim[i].attr = incoming[p]
        BY <1>5, <4>1
      <4>4. QED
        BY <4>1, <4>2, <4>3
    <3>3. QED
      BY <1>3, <3>1, <3>2
  <2>2. ASSUME NEW p \in DOMAIN incoming
        PROVE  \E i \in DOMAIN dim' :
                  dim'[i].is_current /\ dim'[i].player = p /\ dim'[i].attr = incoming[p]
    BY <2>1, AtAndIn
  <2>3. QED
    BY <2>2 DEF Delivered, Rows, Current
<1>7. ASSUME r # << >>
      PROVE  Sound!Merge(incoming, ts)
  <2>1. dim' = r
    BY <1>7
  <2>2. ASSUME NEW v \in Range(o)
        PROVE  /\ v.player \in Sound!Without(incoming)
               /\ \A i \in Rows : dim[i].player_sk # v.player_sk
    <3>1. \A i \in UnchangedRows(dim, incoming) : dim[i].player # v.player
      BY <1>2, <1>3, <1>5
    <3>2. \A w \in Sound!Unchanged(incoming) : \E i \in UnchangedRows(dim, incoming) : w = dim[i]
      BY DEF Sound!Unchanged, Sound!Current, UnchangedRows, ChangedRows, Overlap, CurrentRows, Rows
    <3>3. v.player \in Sound!Without(incoming)
      BY <1>3, <3>1, <3>2 DEF Sound!Without
    <3>4. \A i \in Rows : dim[i].player_sk < v.player_sk /\ dim[i].player_sk \in Nat
      <4>1. \A i \in Rows : dim[i] \in Version
        BY <1>0, Positions DEF Rows
      <4>2. \A i \in Rows : dim[i].player_sk \in Nat
        BY <4>1 DEF Version
      <4>3. QED
        BY <1>3, <4>2 DEF Rows
    <3>5. \A i \in Rows : dim[i].player_sk # v.player_sk
      BY <3>4
    <3>6. QED
      BY <3>3, <3>5
  <2>3. \A v, w \in Range(o) : v.player = w.player \/ v.player_sk = w.player_sk => v = w
    BY <1>3, <1>4, AtAndIn DEF Keyed
  <2>4. ASSUME NEW p \in Sound!Without(incoming)
        PROVE  \E v \in Range(o) : v.player = p
    <3>1. p \in DOMAIN incoming /\ \A w \in Sound!Unchanged(incoming) : w.player # p
      BY DEF Sound!Without
    <3>2. \A i \in UnchangedRows(dim, incoming) : dim[i] \in Sound!Unchanged(incoming)
      BY DEF Sound!Unchanged, Sound!Current, UnchangedRows, ChangedRows, Overlap, CurrentRows, Rows
    <3>3. QED
      BY <1>3, <3>1, <3>2
  <2>5. Opens(Range(o), incoming, ts)
    BY <1>1, <1>3, <2>1, <2>2, <2>3, <2>4 DEF Opens
  <2>6. QED
    BY <1>0, <1>1, <1>7, <2>1, <2>5, IsMerge
<1>8. QED
  BY <1>0, <1>1, <1>6, <1>7

LEMMA InitChain ==
    MergesInit => ChainInv
<1> SUFFICES ASSUME MergesInit PROVE ChainInv
  OBVIOUS
<1>1. dim = << >> /\ latest = << >> /\ day = FAR_PAST_DATE
  BY DEF MergesInit
<1>2. Rows = {} /\ {dim[i] : i \in Rows} = {} /\ DOMAIN latest = {}
  BY <1>1 DEF Rows
<1>3. latest \in Incoming
  <2>1. latest \in [{} -> Attr]
    BY <1>1
  <2>2. {} \in SUBSET Player
    OBVIOUS
  <2>3. QED
    BY <2>1, <2>2 DEF Incoming
<1>4. TypeInv
  BY <1>1, <1>3, MergesAssumption DEF TypeInv, FAR_PAST_DATE, FAR_FUTURE_DATE
<1>5. Keyed(dim) /\ NotYounger /\ Delivered
  BY <1>2 DEF Keyed, NotYounger, Delivered, Rows
<1>6. Sound!Inv
  <2>1. Sound!Init
    BY <1>2 DEF Sound!Init
  <2>2. QED
    BY <2>1, Sound!InitInv
<1>7. QED
  BY <1>4, <1>5, <1>6 DEF ChainInv

(* Every batch is a merge of the abstract dimension, on a date that nothing
   in the dimension is younger than, or leaves the table as it is.         *)
DateOfMerge(date) == IF dim = << >> THEN FAR_PAST_DATE ELSE date

LEMMA BatchStep ==
    ASSUME ChainInv, NEW incoming \in Incoming, NEW date \in 1 .. MaxBatches,
           MergeBatch(incoming, date)
    PROVE  /\ ChainInv'
           /\ \/ dim' = dim
              \/ \E ts \in FAR_PAST_DATE .. MaxBatches : Sound!Merge(incoming, ts)
<1>0. PICK ts \in FAR_PAST_DATE .. MaxBatches : ts = DateOfMerge(date)
  <2>1. date \in Nat /\ MaxBatches \in Nat
    BY MergesAssumption DEF FAR_FUTURE_DATE
  <2>2. DateOfMerge(date) \in FAR_PAST_DATE .. MaxBatches
    BY <2>1 DEF DateOfMerge, FAR_PAST_DATE
  <2>3. QED
    BY <2>2
<1>1. /\ dim \in Seq(Version) /\ latest' = incoming /\ day' = date /\ day <= date
      /\ dim' = scd2_merge(dim, incoming, ts)
      /\ day \in Nat /\ date \in Nat /\ MaxBatches \in Nat
  BY <1>0, MergesAssumption DEF ChainInv, TypeInv, MergeBatch, DateOfMerge, FAR_PAST_DATE, FAR_FUTURE_DATE
<1>2. ts \in Nat /\ ts <= date
  BY <1>0, <1>1 DEF DateOfMerge, FAR_PAST_DATE
<1>3. Sound!NotBefore(ts)
  <2>1. ASSUME NEW i \in Rows
        PROVE  dim[i].effective_date <= ts /\ (dim[i].is_current \/ dim[i].end_date <= ts)
    <3>1. ts = date
      BY <1>0 DEF Rows, DateOfMerge
    <3>2. /\ dim[i].effective_date \in Nat /\ dim[i].end_date \in Nat
      <4>1. dim[i] \in Version
        BY <1>1, Positions DEF Rows
      <4>2. QED
        BY <4>1 DEF Version
    <3>3. QED
      BY <1>1, <3>1, <3>2 DEF ChainInv, NotYounger, Current
  <2>2. QED
    BY <2>1 DEF Sound!NotBefore
<1>4. /\ dim' \in Seq(Version) /\ Keyed(dim') /\ Delivered'
      /\ dim' = dim \/ Sound!Merge(incoming, ts)
  <2>1. CASE dim = << >>
    <3>1. dim' = InitialLoad(incoming, FAR_PAST_DATE) /\ ts = FAR_PAST_DATE
      BY <1>0, <1>1, <2>1 DEF scd2_merge, DateOfMerge
    <3>2. QED
      BY <1>1, <2>1, <3>1, LoadStep
  <2>2. CASE dim # << >>
    <3>1. dim' = (IF Merged(dim, incoming, ts) = << >> THEN dim ELSE Merged(dim, incoming, ts))
      BY <1>1, <2>2 DEF scd2_merge
    <3>2. QED
      BY <1>1, <1>2, <1>3, <2>2, <3>1, LaterStep
  <2>3. QED
    BY <2>1, <2>2
<1>5. TypeInv'
  BY <1>1, <1>4 DEF TypeInv, FAR_PAST_DATE
<1>6. CASE dim' = dim
  <2>1. Sound!Inv'
    <3>1. UNCHANGED {dim[i] : i \in Rows}
      BY <1>6 DEF Rows
    <3>2. QED
      BY <3>1, Sound!StutterInv DEF ChainInv
  <2>2. NotYounger'
    <3>1. \A i \in Rows : dim[i].effective_date \in Nat /\ dim[i].end_date \in Nat
      <4>1. \A i \in Rows : dim[i] \in Version
        BY <1>1, Positions DEF Rows
      <4>2. QED
        BY <4>1 DEF Version
    <3>2. \A i \in Rows : dim[i].effective_date <= date /\ (Current(i) \/ dim[i].end_date <= date)
      BY <1>1, <3>1 DEF ChainInv, NotYounger
    <3>3. QED
      BY <1>1, <1>6, <3>2 DEF NotYounger, Rows, Current
  <2>3. QED
    BY <1>4, <1>5, <1>6, <2>1, <2>2 DEF ChainInv
<1>7. CASE Sound!Merge(incoming, ts)
  <2>1. Sound!Inv /\ Sound!TypeOK /\ incoming \in Sound!Incoming
    BY DEF ChainInv, Sound!Inv, Sound!Incoming, Incoming
  <2>2. Sound!Inv'
    BY <1>2, <1>7, <2>1, Dates, Sound!MergeInv
  <2>3. ASSUME NEW i \in DOMAIN dim'
        PROVE  dim'[i].effective_date <= date /\ (dim'[i].is_current \/ dim'[i].end_date <= date)
    <3> DEFINE v == dim'[i]
    <3>1. v \in {dim[j] : j \in Rows}'
      BY DEF Rows
    <3> HIDE DEF v
    <3>2. CASE \E u \in {dim[j] : j \in Rows} : Sound!From(v, u, incoming, ts)
      <4>1. PICK u \in {dim[j] : j \in Rows} : Sound!From(v, u, incoming, ts)
        BY <3>2
      <4>2. /\ v.effective_date = u.effective_date
            /\ v = u \/ v.end_date = ts
        <5>1. /\ v.effective_date = u.effective_date
              /\ \/ v = u
                 \/ u.is_current /\ v.end_date = ts /\ ~v.is_current
          BY <1>0, <2>1, <4>1, Sound!FromFields
        <5>2. QED
          BY <5>1
      <4>3. PICK j \in Rows : u = dim[j]
        BY <4>1
      <4>4. /\ u.effective_date <= day /\ (u.is_current \/ u.end_date <= day)
            /\ u.effective_date \in Nat /\ u.end_date \in Nat
        <5>1. u \in Version
          BY <1>1, <4>3, Positions DEF Rows
        <5>2. QED
          BY <4>3, <5>1 DEF ChainInv, NotYounger, Current, Version
      <4>5. QED
        BY <1>1, <1>2, <4>2, <4>4 DEF v
    <3>3. CASE Sound!New(v, incoming, ts)
      <4>1. v.effective_date = ts /\ v.is_current
        BY <1>2, <2>1, <3>3, Sound!NewFields
      <4>2. QED
        BY <1>1, <1>2, <4>1 DEF v
    <3>4. QED
      BY <1>7, <3>1, <3>2, <3>3, Sound!Classes
  <2>4. NotYounger'
    BY <1>1, <2>3 DEF NotYounger, Rows, Current
  <2>5. QED
    BY <1>4, <1>5, <2>2, <2>4 DEF ChainInv
<1>8. QED
  BY <1>4, <1>6, <1>7

LEMMA ChainStep ==
    ChainInv /\ [MergesNext]_merges_vars => ChainInv'
<1> SUFFICES ASSUME ChainInv, [MergesNext]_merges_vars PROVE ChainInv'
  OBVIOUS
<1>1. ASSUME NEW incoming \in Incoming, NEW date \in 1 .. MaxBatches,
             MergeBatch(incoming, date)
      PROVE  ChainInv'
  BY <1>1, BatchStep
<1>2. CASE UNCHANGED merges_vars
  <2>1. dim' = dim /\ latest' = latest /\ day' = day
    BY <1>2 DEF merges_vars
  <2>2. UNCHANGED {dim[i] : i \in Rows}
    BY <2>1 DEF Rows
  <2>3. Sound!Inv'
    BY <2>2, Sound!StutterInv DEF ChainInv
  <2>4. TypeInv' /\ Keyed(dim') /\ NotYounger' /\ Delivered'
    BY <2>1 DEF ChainInv, TypeInv, NotYounger, Delivered, Rows, Current
  <2>5. QED
    BY <2>3, <2>4 DEF ChainInv
<1>3. QED
  BY <1>1, <1>2 DEF MergesNext

(* Every chain of merges keeps the inductive invariant: with it, windows are
   proper and those of one player do not overlap.                          *)
THEOREM ChainIsSound == MergesSpec => []ChainInv
BY InitChain, ChainStep, PTL DEF MergesSpec

-----------------------------------------------------------------------------

(* A surrogate key is one row of the dimension after any number of merges of
   any batches: new keys are larger than every key that is carried over.   *)
THEOREM KeysAreUnique == MergesSpec => []SurrogateKeysAreUnique
<1>1. ChainInv => SurrogateKeysAreUnique
  BY DEF ChainInv, Keyed, SurrogateKeysAreUnique, Rows
<1>2. QED
  BY <1>1, ChainIsSound, PTL

(* A player has at most one current version, and the players of the last
   batch have one, with the attributes they came with.                     *)
THEOREM OneIsCurrent == MergesSpec => []OneCurrentVersion
<1>1. ASSUME ChainInv PROVE OneCurrentVersion
  <2>1. \A i, j \in CurrentRows(dim) : dim[i].player = dim[j].player => i = j
    BY <1>1, OneRowIsCurrent DEF ChainInv
  <2>2. \A i, j \in Rows : Current(i) /\ Current(j) /\ dim[i].player = dim[j].player => i = j
    BY <2>1 DEF CurrentRows, Rows, Current
  <2>3. QED
    BY <1>1, <2>2 DEF ChainInv, Delivered, OneCurrentVersion
<1>2. QED
  BY <1>1, ChainIsSound, PTL

(* Two instances of the abstract dimension, that of its theorems and that of
   the property, have the same merges.                                     *)
LEMMA AbstractMerge ==
    ASSUME NEW incoming, NEW date, Sound!Merge(incoming, date)
    PROVE  Dimension!Merge(incoming, date)
BY DEF Sound!Merge, Dimension!Merge, Sound!Carried, Dimension!Carried,
       Sound!History, Dimension!History, Sound!Current, Dimension!Current,
       Sound!Unchanged, Dimension!Unchanged, Sound!Changed, Dimension!Changed,
       Sound!Closed, Dimension!Closed, Sound!Opened, Dimension!Opened,
       Sound!Without, Dimension!Without, Sound!NotBefore, Dimension!NotBefore

(* Every merge of frames is a step of the abstract dimension, or leaves its
   versions as they are.                                                   *)
THEOREM ImplementsDimension == MergesSpec => DimensionSpec
<1>1. MergesInit => Dimension!Init
  BY DEF MergesInit, Dimension!Init, Rows
<1>2. ChainInv /\ [MergesNext]_merges_vars => [Dimension!Next]_{dim[i] : i \in Rows}
  <2> SUFFICES ASSUME ChainInv, [MergesNext]_merges_vars
               PROVE  Dimension!Next \/ UNCHANGED {dim[i] : i \in Rows}
    OBVIOUS
  <2>1. CASE dim' = dim
    BY <2>1 DEF Rows
  <2>2. ASSUME NEW incoming \in Incoming, NEW date \in 1 .. MaxBatches,
               MergeBatch(incoming, date), dim' # dim
        PROVE  Dimension!Next
    <3>1. PICK ts \in FAR_PAST_DATE .. MaxBatches : Sound!Merge(incoming, ts)
      BY <2>2, BatchStep
    <3>2. Dimension!Merge(incoming, ts) /\ incoming \in Dimension!Incoming
      BY <3>1, AbstractMerge DEF Dimension!Incoming, Incoming
    <3>3. QED
      BY <3>2 DEF Dimension!Next
  <2>3. QED
    BY <2>1, <2>2 DEF MergesNext, merges_vars
<1>3. QED
  BY <1>1, <1>2, ChainIsSound, PTL DEF MergesSpec, DimensionSpec, Dimension!Spec

(* A version that was closed stays in the dimension as it was closed, through
   every later merge.                                                      *)
THEOREM ClosedVersionsAreFinal == MergesSpec => Sound!HistoryIsNeverMutated
<1>1. ChainInv /\ [MergesNext]_merges_vars =>
         [Sound!History \subseteq {dim[i] : i \in Rows}']_{dim[i] : i \in Rows}
  <2> SUFFICES ASSUME ChainInv, [MergesNext]_merges_vars
               PROVE  \/ Sound!History \subseteq {dim[i] : i \in Rows}'
                      \/ UNCHANGED {dim[i] : i \in Rows}
    OBVIOUS
  <2>1. CASE dim' = dim
    BY <2>1 DEF Rows
  <2>2. ASSUME NEW incoming \in Incoming, NEW date \in 1 .. MaxBatches,
               MergeBatch(incoming, date), dim' # dim
        PROVE  Sound!History \subseteq {dim[i] : i \in Rows}'
    <3>1. PICK ts \in FAR_PAST_DATE .. MaxBatches : Sound!Merge(incoming, ts)
      BY <2>2, BatchStep
    <3>2. QED
      BY <3>1 DEF Sound!Merge, Sound!Carried, Rows
  <2>3. QED
    BY <2>1, <2>2 DEF MergesNext, merges_vars
<1>2. QED
  BY <1>1, ChainIsSound, PTL DEF MergesSpec, Sound!HistoryIsNeverMutated

(* The lookup with both ends included finds the version whose half-open
   window has the date: the only other version that covers the date ends on
   it, so that it began before.                                            *)
LEMMA LookupStep ==
    ASSUME ChainInv, NEW date \in Nat, NEW p, NEW i \in Rows,
           dim[i].player = p, InWindow(dim[i], date),
           ~ \E j \in Rows : /\ dim[j].player = p
                             /\ dim[j].effective_date = date /\ dim[j].end_date = date
    PROVE  LookupPlayerSkAt(dim, p, date) = dim[i].player_sk
<1> DEFINE hits == {j \in DOMAIN dim : dim[j].player = p /\ Covers(dim[j], date)}
           first(k) == \A j \in hits : \/ dim[j].effective_date < dim[k].effective_date
                                       \/ dim[j].effective_date = dim[k].effective_date /\ k <= j
<1>1. \A j \in Rows : /\ dim[j] \in Version /\ j \in Nat
                      /\ dim[j].effective_date \in Nat /\ dim[j].end_date \in Nat
                      /\ dim[j].effective_date <= dim[j].end_date
  <2>1. \A j \in Rows : dim[j] \in Version /\ j \in Nat
    BY Positions DEF ChainInv, TypeInv, Rows
  <2>2. \A j \in Rows : dim[j].effective_date \in Nat /\ dim[j].end_date \in Nat
    BY <2>1 DEF Version
  <2>3. \A j \in Rows : dim[j].effective_date <= dim[j].end_date
    BY DEF ChainInv, Sound!Inv, Sound!WindowsAreProper
  <2>4. QED
    BY <2>1, <2>2, <2>3
<1>2. i \in hits
  BY <1>1 DEF InWindow, Covers, Rows
<1>3. ASSUME NEW j \in hits, j # i
      PROVE  dim[j].effective_date < dim[i].effective_date
  <2>1. j \in Rows /\ dim[j].player = p /\ dim[j].effective_date <= date /\ date <= dim[j].end_date
    BY DEF Covers, Rows
  <2>2. dim[j] # dim[i]
    BY <1>3, <2>1 DEF ChainInv, Keyed, Rows
  <2>3. \/ dim[j].end_date <= dim[i].effective_date
        \/ dim[i].end_date <= dim[j].effective_date
    BY <2>1, <2>2 DEF ChainInv, Sound!Inv, Sound!WindowsDoNotOverlap
  <2>4. ~(dim[j].effective_date = date /\ dim[j].end_date = date)
    BY <2>1
  <2>5. QED
    BY <1>1, <2>1, <2>3, <2>4 DEF InWindow
<1>4. first(i) /\ \A k \in hits : first(k) => k = i
  BY <1>1, <1>2, <1>3 DEF Rows
<1>5. LookupPlayerSkAt(dim, p, date)
         = IF hits = {} THEN 0 ELSE dim[CHOOSE k \in hits : first(k)].player_sk
  BY DEF LookupPlayerSkAt
<1> HIDE DEF hits, first
<1>6. (CHOOSE k \in hits : first(k)) = i
  BY <1>2, <1>4
<1>7. QED
  BY <1>2, <1>5, <1>6

(* The lookup of facts, with both ends of a window included, agrees with the
   documented half-open windows, on every date on which no version of the
   player was both opened and closed.                                      *)
THEOREM LookupFindsTheWindow == MergesSpec => []LookupIsHalfOpen
<1>1. ASSUME ChainInv PROVE LookupIsHalfOpen
  <2>1. \A date \in 0 .. MaxBatches + 1 : date \in Nat
    BY MergesAssumption DEF FAR_FUTURE_DATE
  <2>2. QED
    BY <1>1, <2>1, LookupStep DEF LookupIsHalfOpen
<1>2. QED
  BY <1>1, ChainIsSound, PTL

-----------------------------------------------------------------------------
(* What a run of the Silver layer keeps true *)

(* The versions on disk, of one batch and of all, and those that a run is
   about to write.                                                         *)
Snapshot(b) == Range(dim_players[b])
Stored == UNION {Snapshot(b) : b \in Batch}
Held == IF pc \in {"clear", "write"} THEN Range(dim_players_df) ELSE {}

RunTypeInv ==
    /\ received \in [Batch -> Incoming \cup {NULL}]
    /\ dim_players \in [Batch -> Seq(Version)]
    /\ DOMAIN facts = Batch
    /\ done \subseteq Batch
    /\ attempts \in [Batch -> Nat]
    /\ ok \in BOOLEAN
    /\ pc \in {"idle", "build", "clear", "write", "facts", "verdict"}
    /\ pc # "idle" => batch \in Batch \ done /\ received[batch] \in Incoming
    /\ pc \in {"clear", "write"} => dim_players_df \in Seq(Version)

NamesInv == NamesAgree(Stored \cup Held)

DeliveredInv ==
    /\ \A b \in Batch : dim_players[b] # << >> =>
          received[b] \in Incoming /\ AsDelivered(Snapshot(b), received[b])
    /\ pc \in {"clear", "write"} => AsDelivered(Held, received[batch])

(* Facts are resolved in the snapshot that is on disk with them. *)
Resolved(b) ==
    facts[b] = [a \in Appearance |-> LookupPlayerSkAt(dim_players[b], a[1], a[2])]

FactsInv ==
    /\ \A b \in done : Resolved(b)
    /\ pc = "facts" /\ ok => dim_players[batch] = dim_players_df
    /\ pc = "verdict" /\ ok => Resolved(batch)

RunnerInv == RunTypeInv /\ NamesInv /\ DeliveredInv /\ FactsInv

LEMMA Batches ==
    ASSUME HistoryAssumption
    PROVE  \E N \in Nat : Batch = 1 .. N
BY FS_CardinalityType DEF HistoryAssumption

LEMMA ExistingVersions ==
    ASSUME HistoryAssumption, RunTypeInv
    PROVE  ExistingDim \in Seq(Version) /\ Range(ExistingDim) = Stored
<1>1. PICK N \in Nat : Batch = 1 .. N
  BY Batches
<1>2. dim_players \in [1 .. N -> Seq(Version)]
  BY <1>1 DEF RunTypeInv
<1>3. QED
  BY <1>1, <1>2, Flattened DEF ExistingDim, Stored, Snapshot

LEMMA StoredVersions ==
    ASSUME RunTypeInv
    PROVE  Stored \subseteq Version /\ \A b \in Batch : Snapshot(b) \subseteq Version
<1>1. ASSUME NEW b \in Batch PROVE Snapshot(b) \subseteq Version
  <2>1. dim_players[b] \in Seq(Version)
    BY DEF RunTypeInv
  <2>2. QED
    BY <2>1, Positions DEF Snapshot, Range
<1>2. QED
  BY <1>1 DEF Stored

LEMMA DateRange ==
    ASSUME HistoryAssumption, NEW b \in Batch
    PROVE  DateOf[b] \in Nat /\ DateOf[b] > FAR_PAST_DATE /\ FAR_FUTURE_DATE > DateOf[b]
<1>1. DateOf \in [Batch -> 1 .. 98]
  <2>1. DateOf \in [Batch -> 1 .. FAR_FUTURE_DATE - 1]
    BY DEF HistoryAssumption
  <2>2. FAR_FUTURE_DATE = 99
    BY DEF FAR_FUTURE_DATE
  <2>3. QED
    BY <2>1, <2>2
<1>2. DateOf[b] \in 1 .. 98
  BY <1>1
<1>3. \A d \in 1 .. 98 : d \in Nat /\ 0 < d /\ d < 99
  OBVIOUS
<1>4. QED
  BY <1>2, <1>3 DEF FAR_PAST_DATE, FAR_FUTURE_DATE

(* The date of a merge: that of the batch, but the first load is of old. *)
MergeDate(X, b) == IF X = {} THEN FAR_PAST_DATE ELSE DateOf[b]

(* What the build of the dimension comes to. *)
LEMMA Built ==
    ASSUME HistoryAssumption, RunTypeInv, NamesInv, BuildDimPlayers
    PROVE  /\ MergeDate(Stored, batch) \in Nat
           /\ IsMergeOf(dim_players_df', Stored, received[batch], MergeDate(Stored, batch))
           /\ pc' = IF dim_players_df' = << >> THEN "facts" ELSE "clear"
<1> DEFINE e == ExistingDim
           ts == IF e = << >> THEN FAR_PAST_DATE ELSE DateOf[batch]
<1>1. e \in Seq(Version) /\ Range(e) = Stored
  BY ExistingVersions
<1>2. e = << >> <=> Stored = {}
  BY <1>1, EmptyFrame
<1>3. ts = MergeDate(Stored, batch)
  BY <1>2 DEF MergeDate
<1>4. pc = "build" /\ batch \in Batch /\ received[batch] \in Incoming
  BY DEF BuildDimPlayers, RunTypeInv
<1>5. ts \in Nat
  <2>1. DateOf[batch] \in Nat
    BY <1>4, DateRange
  <2>2. QED
    BY <2>1 DEF FAR_PAST_DATE
<1>6. /\ dim_players_df' = scd2_merge(e, received[batch], ts)
      /\ pc' = IF dim_players_df' = << >> THEN "facts" ELSE "clear"
  BY DEF BuildDimPlayers
<1>7. NamesAgree(Range(e))
  BY <1>1 DEF NamesInv, NamesAgree
<1> HIDE DEF e, ts
<1>8. IsMergeOf(scd2_merge(e, received[batch], ts), Range(e), received[batch], ts)
  BY <1>1, <1>4, <1>5, <1>7, MergeOfVersions
<1>9. QED
  BY <1>1, <1>3, <1>5, <1>6, <1>8

LEMMA RunnerInit ==
    ASSUME HistoryAssumption, Init
    PROVE  RunnerInv
<1>1. /\ received = [b \in Batch |-> NULL] /\ dim_players = [b \in Batch |-> << >>]
      /\ facts = [b \in Batch |-> NULL] /\ done = {} /\ pc = "idle" /\ ok = TRUE
      /\ attempts = [b \in Batch |-> 0]
  BY DEF Init
<1>2. RunTypeInv
  BY <1>1 DEF RunTypeInv
<1>3. Stored = {} /\ Held = {}
  <2>1. \A b \in Batch : Snapshot(b) = {}
    BY <1>1 DEF Snapshot, Range
  <2>2. QED
    BY <1>1, <2>1 DEF Stored, Held
<1>4. NamesInv /\ DeliveredInv /\ FactsInv
  BY <1>1, <1>3 DEF NamesInv, NamesAgree, DeliveredInv, FactsInv
<1>5. QED
  BY <1>2, <1>4 DEF RunnerInv

(* Steps that leave the partitions alone, and hold no more than before. *)
LEMMA SamePartitions ==
    ASSUME RunnerInv, dim_players' = dim_players, Held' \subseteq Held
    PROVE  NamesInv' /\ Stored' = Stored /\ \A b \in Batch : Snapshot(b)' = Snapshot(b)
<1>1. \A b \in Batch : Snapshot(b)' = Snapshot(b)
  BY DEF Snapshot
<1>2. Stored' = Stored
  BY <1>1 DEF Stored
<1>3. NamesInv'
  BY <1>2 DEF RunnerInv, NamesInv, NamesAgree
<1>4. QED
  BY <1>1, <1>2, <1>3

LEMMA StartKeeps ==
    ASSUME HistoryAssumption, RunnerInv, NEW b \in Batch, StartRun(b)
    PROVE  RunnerInv'
<1>1. /\ pc = "idle" /\ b \notin done /\ pc' = "build" /\ batch' = b
      /\ attempts' = [attempts EXCEPT ![b] = @ + 1]
      /\ dim_players' = dim_players /\ facts' = facts /\ done' = done
      /\ ok' = ok /\ dim_players_df' = dim_players_df
  BY DEF StartRun
<1>2. /\ received' \in [Batch -> Incoming \cup {NULL}] /\ received'[b] \in Incoming
      /\ \A c \in Batch : received[c] \in Incoming => received'[c] = received[c]
  <2>1. CASE received[b] # NULL
    BY <2>1 DEF StartRun, RunnerInv, RunTypeInv
  <2>2. CASE received[b] = NULL
    <3>1. PICK incoming \in Incoming : received' = [received EXCEPT ![b] = incoming]
      BY <2>2 DEF StartRun
    <3>2. NULL \notin Incoming
      BY DEF HistoryAssumption
    <3>3. QED
      BY <2>2, <3>1, <3>2 DEF RunnerInv, RunTypeInv
  <2>3. QED
    BY <2>1, <2>2
<1>3. RunTypeInv'
  <2>1. attempts' \in [Batch -> Nat]
    BY <1>1 DEF RunnerInv, RunTypeInv
  <2>2. QED
    BY <1>1, <1>2, <2>1 DEF RunnerInv, RunTypeInv
<1>4. Held' = {} /\ NamesInv' /\ \A c \in Batch : Snapshot(c)' = Snapshot(c)
  <2>1. Held' = {}
    BY <1>1 DEF Held
  <2>2. QED
    BY <1>1, <2>1, SamePartitions
<1>5. DeliveredInv'
  <2>1. \A c \in Batch : dim_players[c] # << >> =>
           received[c] \in Incoming /\ AsDelivered(Snapshot(c), received[c])
    BY DEF RunnerInv, DeliveredInv
  <2>2. QED
    BY <1>1, <1>2, <2>1 DEF DeliveredInv, Snapshot
<1>6. FactsInv'
  BY <1>1 DEF RunnerInv, FactsInv, Resolved
<1>7. QED
  BY <1>3, <1>4, <1>5, <1>6 DEF RunnerInv

LEMMA BuildKeeps ==
    ASSUME HistoryAssumption, RunnerInv, BuildDimPlayers
    PROVE  RunnerInv'
<1> DEFINE df == dim_players_df'
           ts == MergeDate(Stored, batch)
<1>1. /\ pc = "build" /\ received' = received /\ dim_players' = dim_players
      /\ facts' = facts /\ done' = done /\ batch' = batch /\ ok' = ok /\ attempts' = attempts
  BY DEF BuildDimPlayers, lake
<1>2. ts \in Nat /\ IsMergeOf(df, Stored, received[batch], ts)
  BY Built DEF RunnerInv
<1>3. pc' = IF df = << >> THEN "facts" ELSE "clear"
  BY Built DEF RunnerInv
<1>4. Stored \subseteq Version /\ batch \in Batch /\ received[batch] \in Incoming
  BY <1>1, StoredVersions DEF RunnerInv, RunTypeInv
<1>5. df \in Seq(Version) /\ MergesTo(Stored, Range(df), received[batch], ts)
  BY <1>2 DEF IsMergeOf
<1>6. RunTypeInv'
  BY <1>1, <1>3, <1>5 DEF RunnerInv, RunTypeInv
<1>7. Stored' = Stored /\ \A b \in Batch : Snapshot(b)' = Snapshot(b)
  BY <1>1 DEF Stored, Snapshot
<1>8. Held' \subseteq Range(df) /\ (pc' = "clear" => Held' = Range(df))
  BY DEF Held
<1>9. NamesInv'
  <2>1. NamesAgree(Stored)
    BY DEF RunnerInv, NamesInv, NamesAgree
  <2>2. NamesAgree(Stored \cup Range(df))
    BY <1>2, <1>4, <1>5, <2>1, NamesOfMerge
  <2>3. QED
    BY <1>7, <1>8, <2>2 DEF NamesInv, NamesAgree
<1>10. DeliveredInv'
  <2>1. AsDelivered(Range(df), received[batch])
    BY <1>2, <1>4, <1>5, MergeDelivers
  <2>2. QED
    BY <1>1, <1>3, <1>7, <1>8, <2>1 DEF RunnerInv, DeliveredInv
<1>11. FactsInv'
  <2>1. df = << >> => dim_players[batch] = << >>
    <3>1. df = << >> => Snapshot(batch) = {}
      BY <1>2, <1>4 DEF IsMergeOf, Stored
    <3>2. dim_players[batch] \in Seq(Version)
      BY <1>4 DEF RunnerInv, RunTypeInv
    <3>3. QED
      BY <3>1, <3>2, EmptyFrame DEF Snapshot
  <2>2. QED
    BY <1>1, <1>3, <2>1 DEF RunnerInv, FactsInv, Resolved
<1>12. QED
  BY <1>6, <1>9, <1>10, <1>11 DEF RunnerInv

LEMMA ClearKeeps ==
    ASSUME RunnerInv, ClearDimPlayers
    PROVE  RunnerInv'
<1>1. /\ pc = "clear" /\ pc' = "write" /\ received' = received
      /\ dim_players' = [dim_players EXCEPT ![batch] = << >>]
      /\ facts' = facts /\ done' = done /\ batch' = batch /\ ok' = ok /\ attempts' = attempts
      /\ dim_players_df' = dim_players_df
  BY DEF ClearDimPlayers
<1>2. batch \in Batch \ done /\ DOMAIN dim_players = Batch
  BY <1>1 DEF RunnerInv, RunTypeInv
<1>3. RunTypeInv'
  BY <1>1, <1>2 DEF RunnerInv, RunTypeInv
<1>4. /\ \A b \in Batch : b # batch => dim_players'[b] = dim_players[b] /\ Snapshot(b)' = Snapshot(b)
      /\ dim_players'[batch] = << >> /\ Snapshot(batch)' = {}
  BY <1>1, <1>2 DEF Snapshot, Range
<1>5. Held' = Held
  BY <1>1 DEF Held
<1>6. NamesInv'
  <2>1. ASSUME NEW v \in Stored' PROVE v \in Stored
    <3>1. PICK b \in Batch : v \in Snapshot(b)'
      BY DEF Stored
    <3>2. v \in Snapshot(b)
      BY <1>1, <1>4, <3>1 DEF Snapshot
    <3>3. QED
      BY <3>2 DEF Stored
  <2>2. QED
    BY <1>5, <2>1 DEF RunnerInv, NamesInv, NamesAgree
<1>7. DeliveredInv'
  BY <1>1, <1>4, <1>5 DEF RunnerInv, DeliveredInv
<1>8. FactsInv'
  BY <1>1, <1>2, <1>4 DEF RunnerInv, RunTypeInv, FactsInv, Resolved
<1>9. QED
  BY <1>3, <1>6, <1>7, <1>8 DEF RunnerInv

LEMMA WriteKeeps ==
    ASSUME RunnerInv, WriteDimPlayers
    PROVE  RunnerInv'
<1>1. /\ pc = "write" /\ pc' = "facts" /\ received' = received
      /\ dim_players' = [dim_players EXCEPT ![batch] = dim_players_df]
      /\ facts' = facts /\ done' = done /\ batch' = batch /\ ok' = ok /\ attempts' = attempts
      /\ dim_players_df' = dim_players_df
  BY DEF WriteDimPlayers
<1>2. batch \in Batch \ done /\ DOMAIN dim_players = Batch /\ received[batch] \in Incoming
  BY <1>1 DEF RunnerInv, RunTypeInv
<1>3. RunTypeInv'
  BY <1>1, <1>2 DEF RunnerInv, RunTypeInv
<1>4. /\ \A b \in Batch : b # batch => dim_players'[b] = dim_players[b] /\ Snapshot(b)' = Snapshot(b)
      /\ dim_players'[batch] = dim_players_df /\ Snapshot(batch)' = Held
  BY <1>1, <1>2 DEF Snapshot, Held
<1>5. Held' = {}
  BY <1>1 DEF Held
<1>6. NamesInv'
  <2>1. ASSUME NEW v \in Stored' PROVE v \in Stored \cup Held
    <3>1. PICK b \in Batch : v \in Snapshot(b)'
      BY DEF Stored
    <3>2. b # batch => v \in Snapshot(b)
      BY <1>4, <3>1
    <3>3. b = batch => v \in Held
      BY <1>1, <1>4, <3>1 DEF Snapshot
    <3>4. QED
      BY <3>2, <3>3 DEF Stored
  <2>2. QED
    BY <1>5, <2>1 DEF RunnerInv, NamesInv, NamesAgree
<1>7. DeliveredInv'
  BY <1>1, <1>2, <1>4, <1>5 DEF RunnerInv, DeliveredInv
<1>8. FactsInv'
  <2>1. \A c \in done : c \in Batch /\ c # batch
    BY <1>2 DEF RunnerInv, RunTypeInv
  <2>2. \A c \in done : Resolved(c)
    BY DEF RunnerInv, FactsInv
  <2>3. QED
    BY <1>1, <1>4, <2>1, <2>2 DEF FactsInv, Resolved
<1>9. QED
  BY <1>3, <1>6, <1>7, <1>8 DEF RunnerInv

LEMMA FailKeeps ==
    ASSUME RunnerInv, DimPlayersFails
    PROVE  RunnerInv'
<1>1. /\ pc' = "facts" /\ ok' = FALSE /\ received' = received /\ dim_players' = dim_players
      /\ facts' = facts /\ done' = done /\ batch' = batch /\ attempts' = attempts
      /\ dim_players_df' = dim_players_df /\ pc # "idle"
  BY DEF DimPlayersFails, lake
<1>2. RunTypeInv'
  BY <1>1 DEF RunnerInv, RunTypeInv
<1>3. Held' \subseteq Held
  BY <1>1 DEF Held
<1>4. NamesInv'
  BY <1>1, <1>3, SamePartitions
<1>5. DeliveredInv'
  BY <1>1 DEF RunnerInv, DeliveredInv, Snapshot
<1>6. FactsInv'
  BY <1>1 DEF RunnerInv, FactsInv, Resolved
<1>7. QED
  BY <1>2, <1>4, <1>5, <1>6 DEF RunnerInv

LEMMA FactsKeeps ==
    ASSUME RunnerInv, BuildFactAppearances
    PROVE  RunnerInv'
<1>1. /\ pc = "facts" /\ pc' = "verdict" /\ received' = received /\ dim_players' = dim_players
      /\ done' = done /\ batch' = batch /\ attempts' = attempts
      /\ dim_players_df' = dim_players_df
  BY DEF BuildFactAppearances
<1>2. batch \in Batch \ done /\ done \subseteq Batch /\ DOMAIN facts = Batch
  BY <1>1 DEF RunnerInv, RunTypeInv
<1>3. /\ DOMAIN facts' = Batch /\ \A b \in done : facts'[b] = facts[b]
      /\ ok' \in BOOLEAN
      /\ ok' => ok /\ facts'[batch] =
            [a \in Appearance |-> LookupPlayerSkAt(dim_players_df, a[1], a[2])]
  <2>1. CASE dim_players_df = NULL
    BY <1>2, <2>1 DEF BuildFactAppearances
  <2>2. CASE dim_players_df # NULL
    <3>1. /\ facts' = [facts EXCEPT ![batch] =
               [a \in Appearance |-> LookupPlayerSkAt(dim_players_df, a[1], a[2])]]
          /\ ok' = ok
      BY <2>2 DEF BuildFactAppearances
    <3>2. QED
      BY <1>2, <3>1 DEF RunnerInv, RunTypeInv
  <2>3. QED
    BY <2>1, <2>2
<1>4. RunTypeInv'
  BY <1>1, <1>3 DEF RunnerInv, RunTypeInv
<1>5. Held' \subseteq Held
  BY <1>1 DEF Held
<1>6. NamesInv'
  BY <1>1, <1>5, SamePartitions
<1>7. DeliveredInv'
  BY <1>1 DEF RunnerInv, DeliveredInv, Snapshot
<1>8. FactsInv'
  <2>1. \A b \in done : Resolved(b)
    BY DEF RunnerInv, FactsInv
  <2>2. ok => dim_players[batch] = dim_players_df
    BY <1>1 DEF RunnerInv, FactsInv
  <2>3. QED
    BY <1>1, <1>3, <2>1, <2>2 DEF FactsInv, Resolved
<1>9. QED
  BY <1>4, <1>6, <1>7, <1>8 DEF RunnerInv

LEMMA VerdictKeeps ==
    ASSUME RunnerInv, Verdict
    PROVE  RunnerInv'
<1>1. /\ pc = "verdict" /\ pc' = "idle" /\ received' = received /\ dim_players' = dim_players
      /\ facts' = facts /\ attempts' = attempts /\ ok' = TRUE
      /\ (done' = done) \/ (ok /\ done' = done \cup {batch})
  BY DEF Verdict, Exit
<1>2. batch \in Batch
  BY <1>1 DEF RunnerInv, RunTypeInv
<1>3. RunTypeInv'
  BY <1>1, <1>2 DEF RunnerInv, RunTypeInv
<1>4. Held' \subseteq Held
  BY <1>1 DEF Held
<1>5. NamesInv'
  BY <1>1, <1>4, SamePartitions
<1>6. DeliveredInv'
  BY <1>1 DEF RunnerInv, DeliveredInv, Snapshot
<1>7. FactsInv'
  BY <1>1 DEF RunnerInv, FactsInv, Resolved
<1>8. QED
  BY <1>3, <1>5, <1>6, <1>7 DEF RunnerInv

LEMMA CrashKeeps ==
    ASSUME RunnerInv, Crash
    PROVE  RunnerInv'
<1>1. /\ pc' = "idle" /\ received' = received /\ dim_players' = dim_players
      /\ facts' = facts /\ attempts' = attempts /\ ok' = TRUE /\ done' = done
  BY DEF Crash, Exit, lake
<1>2. RunTypeInv'
  BY <1>1 DEF RunnerInv, RunTypeInv
<1>3. Held' \subseteq Held
  BY <1>1 DEF Held
<1>4. NamesInv'
  BY <1>1, <1>3, SamePartitions
<1>5. DeliveredInv'
  BY <1>1 DEF RunnerInv, DeliveredInv, Snapshot
<1>6. FactsInv'
  BY <1>1 DEF RunnerInv, FactsInv, Resolved
<1>7. QED
  BY <1>2, <1>4, <1>5, <1>6 DEF RunnerInv

LEMMA RunnerRests ==
    ASSUME RunnerInv, UNCHANGED vars
    PROVE  RunnerInv'
<1>1. /\ pc' = pc /\ received' = received /\ dim_players' = dim_players /\ batch' = batch
      /\ facts' = facts /\ attempts' = attempts /\ ok' = ok /\ done' = done
      /\ dim_players_df' = dim_players_df
  BY DEF vars, lake
<1>2. RunTypeInv'
  BY <1>1 DEF RunnerInv, RunTypeInv
<1>3. Held' \subseteq Held
  BY <1>1 DEF Held
<1>4. NamesInv'
  BY <1>1, <1>3, SamePartitions
<1>5. DeliveredInv'
  BY <1>1 DEF RunnerInv, DeliveredInv, Snapshot, Held
<1>6. FactsInv'
  BY <1>1 DEF RunnerInv, FactsInv, Resolved
<1>7. QED
  BY <1>2, <1>4, <1>5, <1>6 DEF RunnerInv

LEMMA RunnerStep ==
    ASSUME HistoryAssumption, RunnerInv, [Next]_(vars)
    PROVE  RunnerInv'
<1>1. CASE \E b \in Batch : StartRun(b)
  BY <1>1, StartKeeps
<1>2. CASE BuildDimPlayers
  BY <1>2, BuildKeeps
<1>3. CASE ClearDimPlayers \/ WriteDimPlayers \/ DimPlayersFails
  BY <1>3, ClearKeeps, WriteKeeps, FailKeeps
<1>4. CASE BuildFactAppearances \/ Verdict \/ Crash
  BY <1>4, FactsKeeps, VerdictKeeps, CrashKeeps
<1>5. CASE UNCHANGED vars
  BY <1>5, RunnerRests
<1>6. QED
  BY <1>1, <1>2, <1>3, <1>4, <1>5 DEF Next

LEMMA RunnerIsInvariant ==
    ASSUME HistoryAssumption
    PROVE  Spec => []RunnerInv
<1>1. Init => RunnerInv
  BY RunnerInit
<1>2. RunnerInv /\ [Next]_(vars) => RunnerInv'
  BY RunnerStep
<1>3. QED
  BY <1>1, <1>2, PTL DEF Spec

(* A surrogate key names one version for good, whatever partition it turns
   up in and however often a batch is built, fails half-way or is killed:
   scd2_merge numbers its new versions above all keys on disk, and closing
   a version leaves its name.                                              *)
THEOREM NamesAreForGood ==
    ASSUME HistoryAssumption
    PROVE  Spec => []SurrogateKeyNamesOneVersion
<1>1. RunnerInv => SurrogateKeyNamesOneVersion
  <2>1. AllVersions = Stored
    <3>1. \A b \in Batch : Versions(b) = Snapshot(b)
      BY DEF Versions, Snapshot, Range
    <3>2. QED
      BY <3>1 DEF AllVersions, Stored
  <2>2. QED
    BY <2>1 DEF RunnerInv, NamesInv, NamesAgree, SurrogateKeyNamesOneVersion
<1>2. QED
  BY <1>1, RunnerIsInvariant, PTL

(* In the snapshot of a batch, which a run replaces as a whole, the current
   versions of the players of the batch have the attributes it delivered,
   and each of its players has one, after any repeated or broken run.      *)
THEOREM SnapshotsAreDelivered ==
    ASSUME HistoryAssumption
    PROVE  Spec => []CurrentVersionsAreDelivered
<1>1. RunnerInv => CurrentVersionsAreDelivered
  <2>1. \A b \in Batch : Versions(b) = Snapshot(b)
    BY DEF Versions, Snapshot, Range
  <2>2. QED
    BY <2>1 DEF RunnerInv, DeliveredInv, AsDelivered, CurrentVersionsAreDelivered
<1>2. QED
  BY <1>1, RunnerIsInvariant, PTL

-----------------------------------------------------------------------------
(* The facts, in time *)

(* The facts of a batch, when every batch until then was built at the first
   try.  What is on disk before a batch: every version has an open row of
   its name, an open row has no end, a version begins with a batch that had
   the player, and the latest versions of the player until that day have
   what the batch delivered.                                               *)
HasCurrent(X) == \A v \in X : \E w \in X : w.is_current /\ w.player_sk = v.player_sk

OpenEnded(X) == \A v \in X : v.is_current => v.end_date = FAR_FUTURE_DATE

Dated(X, n) == \A v \in X :
    \/ v.effective_date = FAR_PAST_DATE
    \/ \E c \in 1 .. n : v.player \in DOMAIN received[c] /\ v.effective_date = DateOf[c]

Until(X, p, date) == {v \in X : v.player = p /\ v.effective_date <= date}

Says(X, attr) == X # {} /\ \A v \in X : v.attr = attr

Told(X, n) == \A e \in 1 .. n : \A p \in DOMAIN received[e] :
    Says(LatestIn(Until(X, p, DateOf[e])), received[e][p])

ChainedTo(X, n) == HasCurrent(X) /\ OpenEnded(X) /\ Dated(X, n) /\ Told(X, n)

(* A lookup in the snapshot of a batch finds what was delivered last. *)
BatchesWith(p, date, n) == {e \in 1 .. n : p \in DOMAIN received[e] /\ DateOf[e] <= date}

FoundIn(R, n) == \A p \in DOMAIN received[n], date \in 0 .. FAR_FUTURE_DATE :
    \A m \in BatchesWith(p, date, n) :
        (\A e \in BatchesWith(p, date, n) : e <= m) =>
            /\ Covering(R, p, date) # {}
            /\ \A v \in LatestIn(Covering(R, p, date)) : v.attr = received[m][p]

(* Every batch has a day of its own, later than those before. *)
OneADay == \A b, c \in Batch : b < c => DateOf[b] < DateOf[c]

(* Sets with versions of the same names have the same latest ones. *)
SameName(v, w) ==
    /\ v.player_sk = w.player_sk /\ v.player = w.player
    /\ v.attr = w.attr /\ v.effective_date = w.effective_date

LEMMA LatestByName ==
    ASSUME NEW Y, NEW Z, NEW attr,
           \A v \in Y : \E w \in Z : SameName(v, w),
           \A w \in Z : \E v \in Y : SameName(v, w),
           Says(LatestIn(Z), attr)
    PROVE  Says(LatestIn(Y), attr)
<1>1. LatestIn(Y) # {}
  <2>1. PICK w \in Z : \A u \in Z : u.effective_date <= w.effective_date
    BY DEF Says, LatestIn
  <2>2. PICK v \in Y : SameName(v, w)
    BY <2>1
  <2>3. \A u \in Y : u.effective_date <= v.effective_date
    BY <2>1, <2>2 DEF SameName
  <2>4. QED
    BY <2>3 DEF LatestIn
<1>2. ASSUME NEW v \in LatestIn(Y)
      PROVE  v.attr = attr
  <2>1. v \in Y /\ \A u \in Y : u.effective_date <= v.effective_date
    BY DEF LatestIn
  <2>2. PICK w \in Z : SameName(v, w)
    BY <2>1
  <2>3. \A u \in Z : u.effective_date <= w.effective_date
    BY <2>1, <2>2 DEF SameName
  <2>4. w \in LatestIn(Z)
    BY <2>3 DEF LatestIn
  <2>5. QED
    BY <2>2, <2>4 DEF Says, SameName
<1>3. QED
  BY <1>1, <1>2 DEF Says

LEMMA SomeIsLatest ==
    ASSUME NEW Y, Y # {}, NEW n \in Nat, \A v \in Y : v.effective_date \in 0 .. n
    PROVE  LatestIn(Y) # {}
<1> DEFINE E == {v.effective_date : v \in Y}
<1>1. E \subseteq Nat /\ E # {} /\ IsFiniteSet(E)
  <2>1. E \in SUBSET (0 .. n) /\ IsFiniteSet(0 .. n)
    BY FS_Interval
  <2>2. IsFiniteSet(E)
    BY <2>1, FS_Subset
  <2>3. QED
    BY <2>2
<1>2. MaxOf(E) \in E /\ \A e \in E : e <= MaxOf(E)
  <2> HIDE DEF E
  <2>1. QED
    BY <1>1, Largest
<1>3. PICK v \in Y : v.effective_date = MaxOf(E)
  BY <1>2
<1>4. \A w \in Y : w.effective_date <= v.effective_date
  BY <1>2, <1>3
<1>5. QED
  BY <1>4 DEF LatestIn

(* The rows of a merge: those that were current, by name, and new ones. *)
RowsAre(R, O, X, incoming, ts) ==
    /\ \A v \in R \ O : \E w \in X : SameName(v, w)
    /\ \A v \in R \ O : \/ v.is_current /\ v \in X /\ v.end_date = FAR_FUTURE_DATE
                        \/ ~v.is_current /\ v.end_date = ts
    /\ \A w \in X : w.player \in DOMAIN incoming => \E v \in R \ O : SameName(v, w)
    /\ \A p \in DOMAIN incoming : \/ \E v \in O : v.player = p
                                  \/ \A w \in X : w.player = p => w.attr = incoming[p]

LEMMA RowsOfMerge ==
    ASSUME NEW X, X \subseteq Version, HasCurrent(X), NamesAgree(X), OpenEnded(X),
           NEW incoming, NEW ts \in Nat, NEW R, NEW O,
           R = CarriedOver(X, incoming, ts) \cup O, AreNew(O, X, incoming, ts)
    PROVE  RowsAre(R, O, X, incoming, ts)
<1>1. AlreadyShut(X) = {}
  BY DEF AlreadyShut, HasCurrent
<1>2. \A v \in KeptOf(X, incoming) \cup OutdatedOf(X, incoming) : v \in X /\ v \in Version /\ v.is_current
  BY DEF KeptOf, OutdatedOf
<1>3. ASSUME NEW v \in R \ O
      PROVE  /\ \E w \in X : SameName(v, w)
             /\ \/ v.is_current /\ v \in X /\ v.end_date = FAR_FUTURE_DATE
                \/ ~v.is_current /\ v.end_date = ts
  <2>1. v \in KeptOf(X, incoming) \/ \E w \in OutdatedOf(X, incoming) : v = Shut(w, ts)
    BY <1>1 DEF CarriedOver
  <2>2. CASE v \in KeptOf(X, incoming)
    BY <1>2, <2>2 DEF SameName, OpenEnded
  <2>3. ASSUME NEW w \in OutdatedOf(X, incoming), v = Shut(w, ts)
        PROVE  w \in X /\ SameName(v, w) /\ ~v.is_current /\ v.end_date = ts
    <3>1. w \in X /\ w \in Version
      BY <1>2
    <3>2. QED
      BY <2>3, <3>1, ShutVersion DEF SameName
  <2>4. QED
    BY <2>1, <2>2, <2>3
<1>4. \A v \in O, w \in X : w.player_sk < v.player_sk /\ w.player_sk \in Nat
  BY DEF AreNew, Version
<1>5. \A v \in O, w \in X : w.player_sk # v.player_sk
  <2>1. \A v \in O, w \in X : w.player_sk = v.player_sk => w.player_sk < w.player_sk /\ w.player_sk \in Nat
    BY <1>4
  <2>2. QED
    BY <2>1
<1>6. ASSUME NEW w \in X, w.player \in DOMAIN incoming
      PROVE  \E v \in R \ O : SameName(v, w)
  <2>1. PICK c \in X : c.is_current /\ SameName(c, w)
    BY DEF HasCurrent, NamesAgree, SameName
  <2>2. CASE c \in KeptOf(X, incoming)
    <3>1. c \in R /\ c \notin O
      BY <1>5, <2>2 DEF CarriedOver
    <3>2. QED
      BY <2>1, <3>1
  <2>3. CASE c \in OutdatedOf(X, incoming)
    <3>1. Shut(c, ts) \in R
      BY <2>3 DEF CarriedOver
    <3>2. SameName(Shut(c, ts), c)
      BY <1>2, <2>3, ShutVersion DEF SameName
    <3>3. Shut(c, ts) \notin O
      BY <1>5, <3>2 DEF SameName
    <3>4. SameName(Shut(c, ts), w)
      BY <2>1, <3>2 DEF SameName
    <3>5. QED
      BY <3>1, <3>3, <3>4
  <2>4. c.player \in DOMAIN incoming
    BY <1>6, <2>1 DEF SameName
  <2>5. QED
    BY <2>1, <2>2, <2>3, <2>4 DEF KeptOf, OutdatedOf
<1>7. ASSUME NEW p \in DOMAIN incoming, \A v \in O : v.player # p,
             NEW w \in X, w.player = p
      PROVE  w.attr = incoming[p]
  <2>1. PICK c \in X : c.is_current /\ SameName(c, w)
    BY DEF HasCurrent, NamesAgree, SameName
  <2>2. c \notin OutdatedOf(X, incoming)
    <3>1. c.player = p
      BY <1>7, <2>1 DEF SameName
    <3>2. \A u \in OutdatedOf(X, incoming) : \E v \in O : v.player = u.player
      BY DEF AreNew
    <3>3. QED
      BY <1>7, <3>1, <3>2
  <2>3. QED
    BY <1>7, <2>1, <2>2 DEF OutdatedOf, SameName
<1>8. QED
  BY <1>3, <1>6, <1>7 DEF RowsAre

LEMMA BatchNumbers ==
    ASSUME HistoryAssumption, NEW b \in Batch
    PROVE  /\ b \in Nat \ {0} /\ b - 1 \in Nat
           /\ 1 .. b = (1 .. b - 1) \cup {b} /\ 1 .. b \subseteq Batch
           /\ \A e \in 1 .. b - 1 : e \in Batch /\ e < b
<1>1. PICK N \in Nat : Batch = 1 .. N
  BY Batches
<1>2. QED
  BY <1>1

(* The days of the versions there are lie before the day of the batch, and
   that is the day of the merge, but for the first load.                   *)
LEMMA DaysBefore ==
    ASSUME HistoryAssumption, OneADay, NEW b \in Batch,
           NEW X, X \subseteq Version, Dated(X, b - 1)
    PROVE  /\ \A v \in X : v.effective_date \in Nat /\ v.effective_date < DateOf[b]
           /\ MergeDate(X, b) \in Nat /\ MergeDate(X, b) <= DateOf[b]
           /\ X # {} => MergeDate(X, b) = DateOf[b]
<1>1. \A e \in Batch : DateOf[e] \in Nat /\ FAR_PAST_DATE < DateOf[e]
  BY DateRange DEF FAR_PAST_DATE
<1>2. \A e \in 1 .. b - 1 : DateOf[e] < DateOf[b]
  BY BatchNumbers DEF OneADay
<1>3. ASSUME NEW v \in X
      PROVE  v.effective_date \in Nat /\ v.effective_date < DateOf[b]
  <2>1. v.effective_date \in Nat
    BY DEF Version
  <2>2. QED
    BY <1>1, <1>2, <2>1 DEF Dated
<1>4. MergeDate(X, b) \in Nat /\ MergeDate(X, b) <= DateOf[b]
  <2>1. FAR_PAST_DATE <= DateOf[b] /\ FAR_PAST_DATE \in Nat /\ DateOf[b] <= DateOf[b]
    BY <1>1 DEF FAR_PAST_DATE
  <2>2. QED
    BY <1>1, <2>1 DEF MergeDate
<1>5. QED
  BY <1>3, <1>4 DEF MergeDate

(* Of the versions of a player of the batch, its own or those of before, the
   latest have what the batch delivers.                                    *)
LEMMA LatestIsDelivered ==
    ASSUME NEW X, X \subseteq Version, NEW incoming, NEW ts \in Nat,
           X # {} => \A w \in X : w.effective_date < ts,
           NEW R, NEW O, AreNew(O, X, incoming, ts),
           RowsAre(R, O, X, incoming, ts),
           NEW p \in DOMAIN incoming,
           NEW Y \in SUBSET (X \cup R), \A v \in Y : v.player = p,
           \A v \in O : v.player = p => v \in Y,
           NEW v \in LatestIn(Y)
    PROVE  v.attr = incoming[p]
<1>1. v \in Y /\ v.player = p /\ \A w \in Y : w.effective_date <= v.effective_date
  BY DEF LatestIn
<1>2. v \in O \/ \E w \in X : SameName(v, w)
  BY <1>1 DEF SameName, RowsAre
<1>3. \A o \in O : o.attr = incoming[o.player] /\ o.effective_date = ts
  BY DEF AreNew
<1>4. CASE v \in O
  BY <1>1, <1>3, <1>4
<1>5. ASSUME NEW w \in X, SameName(v, w), NEW o \in O, o.player = p
      PROVE  FALSE
  <2>1. ts <= v.effective_date
    BY <1>1, <1>3, <1>5
  <2>2. v.effective_date < ts /\ v.effective_date \in Nat
    BY <1>5 DEF SameName, Version
  <2>3. QED
    BY <2>1, <2>2
<1>6. ASSUME NEW w \in X, SameName(v, w), \A u \in X : u.player = p => u.attr = incoming[p]
      PROVE  v.attr = incoming[p]
  BY <1>1, <1>6 DEF SameName
<1>7. QED
  BY <1>2, <1>4, <1>5, <1>6 DEF RowsAre

LEMMA ChainGrows ==
    ASSUME HistoryAssumption, OneADay, NEW b \in Batch,
           NEW X, NEW R, X \cup R \subseteq Version, NamesAgree(X), ChainedTo(X, b - 1),
           NEW O \in SUBSET R, R = CarriedOver(X, received[b], MergeDate(X, b)) \cup O,
           AreNew(O, X, received[b], MergeDate(X, b))
    PROVE  ChainedTo(X \cup R, b)
<1> DEFINE incoming == received[b]
           ts == MergeDate(X, b)
           Z == X \cup R
<1>1. HasCurrent(X) /\ OpenEnded(X) /\ Dated(X, b - 1) /\ Told(X, b - 1)
  BY DEF ChainedTo
<1>2. /\ \A v \in X : v.effective_date \in Nat /\ v.effective_date < DateOf[b]
      /\ ts \in Nat /\ ts <= DateOf[b]
      /\ X # {} => ts = DateOf[b]
  BY <1>1, DaysBefore
<1>3. RowsAre(R, O, X, incoming, ts) /\ AreNew(O, X, incoming, ts)
  <2>1. /\ R = CarriedOver(X, incoming, ts) \cup O /\ AreNew(O, X, incoming, ts)
        /\ X \subseteq Version
    OBVIOUS
  <2> HIDE DEF incoming, ts
  <2>2. QED
    BY <1>1, <1>2, <2>1, RowsOfMerge
<1>4. \A v \in O : /\ v.player \in DOMAIN incoming /\ v.effective_date = ts
                   /\ v.end_date = FAR_FUTURE_DATE /\ v.is_current
  BY DEF AreNew
<1>5. \A v \in R \ O : \E w \in X : SameName(v, w)
  BY <1>3 DEF RowsAre
<1>6. 1 .. b = (1 .. b - 1) \cup {b} /\ \A e \in 1 .. b - 1 : e \in Batch /\ e < b
  BY BatchNumbers
<1>7. DateOf[b] \in Nat /\ \A e \in 1 .. b - 1 : DateOf[e] \in Nat /\ DateOf[e] < DateOf[b]
  BY <1>6, DateRange DEF OneADay
<1> HIDE DEF incoming, ts
<1>8. HasCurrent(Z)
  <2>1. ASSUME NEW v \in Z
        PROVE  \E w \in Z : w.is_current /\ w.player_sk = v.player_sk
    <3>1. v \in O \/ \E u \in X : u.player_sk = v.player_sk
      BY <1>5 DEF SameName
    <3>2. QED
      BY <1>1, <1>4, <3>1 DEF HasCurrent
  <2>2. QED
    BY <2>1 DEF HasCurrent
<1>9. OpenEnded(Z)
  BY <1>1, <1>3, <1>4 DEF OpenEnded, RowsAre
<1>10. Dated(Z, b)
  <2>1. ASSUME NEW v \in X
        PROVE  \/ v.effective_date = FAR_PAST_DATE
               \/ \E c \in 1 .. b : v.player \in DOMAIN received[c] /\ v.effective_date = DateOf[c]
    BY <1>1, <1>6 DEF Dated
  <2>2. ASSUME NEW v \in O
        PROVE  \/ v.effective_date = FAR_PAST_DATE
               \/ \E c \in 1 .. b : v.player \in DOMAIN received[c] /\ v.effective_date = DateOf[c]
    BY <1>4, <1>6 DEF ts, incoming, MergeDate
  <2>3. \A v \in R \ O : \E w \in X : v.player = w.player /\ v.effective_date = w.effective_date
    BY <1>5 DEF SameName
  <2>4. QED
    BY <2>1, <2>2, <2>3 DEF Dated
<1>11. ASSUME NEW e \in 1 .. b - 1, NEW p \in DOMAIN received[e]
       PROVE  Says(LatestIn(Until(Z, p, DateOf[e])), received[e][p])
  <2>1. Says(LatestIn(Until(X, p, DateOf[e])), received[e][p])
    BY <1>1 DEF Told
  <2>2. X # {}
    BY <2>1 DEF Says, LatestIn, Until
  <2>3. \A v \in O : ~(v.effective_date <= DateOf[e])
    BY <1>2, <1>4, <1>7, <2>2
  <2>4. ASSUME NEW v \in Until(Z, p, DateOf[e])
        PROVE  \E w \in Until(X, p, DateOf[e]) : SameName(v, w)
    <3>1. v \in X \/ \E w \in X : SameName(v, w)
      BY <1>5, <2>3 DEF Until
    <3>2. QED
      BY <3>1 DEF Until, SameName
  <2>5. \A w \in Until(X, p, DateOf[e]) : w \in Until(Z, p, DateOf[e]) /\ SameName(w, w)
    BY DEF Until, SameName
  <2>6. \A w \in Until(X, p, DateOf[e]) : \E v \in Until(Z, p, DateOf[e]) : SameName(v, w)
    BY <2>5
  <2> HIDE DEF Z
  <2>7. QED
    BY <2>1, <2>4, <2>6, LatestByName
<1>12. ASSUME NEW p \in DOMAIN incoming
       PROVE  Says(LatestIn(Until(Z, p, DateOf[b])), incoming[p])
  <2> DEFINE Y == Until(Z, p, DateOf[b])
  <2>1. \A v \in Z : v.effective_date \in Nat /\ v.effective_date <= DateOf[b]
    BY <1>2, <1>4, <1>5, <1>7 DEF SameName
  <2>2. Y \in SUBSET (X \cup R) /\ \A v \in Y : v.player = p
    BY DEF Until
  <2>3. \A v \in O : v.player = p => v \in Y
    BY <2>1 DEF Until
  <2>4. Y # {}
    <3>1. \E v \in KeptOf(X, incoming) \cup O : v.player = p
      BY <1>3 DEF AreNew
    <3>2. PICK v \in Z : v.player = p
      BY <3>1 DEF KeptOf
    <3>3. v \in Y
      BY <2>1, <3>2 DEF Until
    <3>4. QED
      BY <3>3
  <2>5. \A v \in Y : v.effective_date \in 0 .. DateOf[b]
    BY <1>7, <2>1 DEF Until
  <2> HIDE DEF Y
  <2>6. LatestIn(Y) # {}
    BY <1>7, <2>4, <2>5, SomeIsLatest
  <2>7. X # {} => \A w \in X : w.effective_date < ts
    BY <1>2
  <2>8. X \subseteq Version
    OBVIOUS
  <2>9. ASSUME NEW v \in LatestIn(Y) PROVE v.attr = incoming[p]
    BY <1>2, <1>3, <2>2, <2>3, <2>7, <2>8, LatestIsDelivered
  <2>10. QED
    BY <2>6, <2>9 DEF Says, Y
<1>13. Told(Z, b)
  <2> HIDE DEF Z
  <2>1. QED
    BY <1>6, <1>11, <1>12 DEF Told, incoming
<1>14. QED
  BY <1>8, <1>9, <1>10, <1>13 DEF ChainedTo

LEMMA LookupFindsDelivered ==
    ASSUME HistoryAssumption, OneADay, NEW b \in Batch,
           NEW X, NEW R, X \cup R \subseteq Version, NamesAgree(X), ChainedTo(X, b - 1),
           NEW O \in SUBSET R, R = CarriedOver(X, received[b], MergeDate(X, b)) \cup O,
           AreNew(O, X, received[b], MergeDate(X, b))
    PROVE  FoundIn(R, b)
<1> DEFINE incoming == received[b]
           ts == MergeDate(X, b)
<1>1. HasCurrent(X) /\ OpenEnded(X) /\ Dated(X, b - 1) /\ Told(X, b - 1)
  BY DEF ChainedTo
<1>2. /\ \A v \in X : v.effective_date \in Nat /\ v.effective_date < DateOf[b]
      /\ ts \in Nat /\ ts <= DateOf[b]
      /\ X # {} => ts = DateOf[b]
  BY <1>1, DaysBefore
<1>3. RowsAre(R, O, X, incoming, ts) /\ AreNew(O, X, incoming, ts)
  <2>1. /\ R = CarriedOver(X, incoming, ts) \cup O /\ AreNew(O, X, incoming, ts)
        /\ X \subseteq Version
    OBVIOUS
  <2> HIDE DEF incoming, ts
  <2>2. QED
    BY <1>1, <1>2, <2>1, RowsOfMerge
<1>4. \A v \in O : v.effective_date = ts /\ v.end_date = FAR_FUTURE_DATE
  BY DEF AreNew
<1>5. \A v \in R \ O : \E w \in X : SameName(v, w)
  BY <1>3 DEF RowsAre
<1>6. \A v \in R \ O : v.end_date = FAR_FUTURE_DATE \/ v.end_date = DateOf[b]
  BY <1>2, <1>3, <1>5 DEF RowsAre
<1>7. 1 .. b = (1 .. b - 1) \cup {b} /\ (\A e \in 1 .. b - 1 : e \in Batch /\ e < b) /\ b \in Nat
  BY BatchNumbers
<1>8. /\ DateOf[b] \in Nat /\ DateOf[b] < FAR_FUTURE_DATE
      /\ \A e \in 1 .. b - 1 : DateOf[e] \in Nat
  BY <1>7, DateRange
<1>9. /\ KeptOf(X, incoming) \subseteq R
      /\ \A v \in KeptOf(X, incoming) : v \in X /\ v.end_date = FAR_FUTURE_DATE
  BY <1>1 DEF CarriedOver, KeptOf, OpenEnded
<1>10. \A p \in DOMAIN incoming : \E v \in KeptOf(X, incoming) \cup O : v.player = p
  BY DEF AreNew
<1> HIDE DEF incoming, ts
<1>11. SUFFICES ASSUME NEW p \in DOMAIN incoming, NEW date \in 0 .. FAR_FUTURE_DATE,
                       NEW m \in BatchesWith(p, date, b),
                       \A e \in BatchesWith(p, date, b) : e <= m
                PROVE  /\ Covering(R, p, date) # {}
                       /\ \A v \in LatestIn(Covering(R, p, date)) : v.attr = received[m][p]
  BY DEF FoundIn, incoming
<1> DEFINE D == BatchesWith(p, date, b)
           Y == Covering(R, p, date)
<1>12. date \in Nat /\ date <= FAR_FUTURE_DATE
  BY DEF FAR_FUTURE_DATE
<1>13. m \in D /\ \A e \in D : e <= m
  BY <1>11
<1>14. CASE DateOf[b] <= date
  <2>1. b \in D
    BY <1>7, <1>14 DEF BatchesWith, incoming
  <2>2. m = b
    <3>1. m \in 1 .. b /\ b <= m
      BY <1>13, <2>1 DEF BatchesWith
    <3>2. QED
      BY <1>7, <3>1
  <2>3. ASSUME NEW v \in KeptOf(X, incoming) \cup O, v.player = p
        PROVE  v \in Y
    <3>1. v \in R /\ v.end_date = FAR_FUTURE_DATE
      BY <1>4, <1>9
    <3>2. v.effective_date \in Nat /\ v.effective_date <= DateOf[b]
      BY <1>2, <1>4, <1>8, <1>9
    <3>3. Covers(v, date)
      BY <1>8, <1>12, <1>14, <3>1, <3>2 DEF Covers
    <3>4. QED
      BY <2>3, <3>1, <3>3 DEF Covering
  <2>4. Y # {}
    BY <1>10, <2>3
  <2>5. Y \in SUBSET (X \cup R) /\ (\A v \in Y : v.player = p) /\ (\A v \in O : v.player = p => v \in Y)
    BY <2>3 DEF Covering
  <2>6. (X # {} => \A w \in X : w.effective_date < ts) /\ X \subseteq Version
    BY <1>2
  <2> HIDE DEF Y
  <2>7. ASSUME NEW v \in LatestIn(Y) PROVE v.attr = incoming[p]
    BY <1>2, <1>3, <2>5, <2>6, LatestIsDelivered
  <2>8. QED
    BY <2>2, <2>4, <2>7 DEF Y, incoming
<1>15. CASE ~(DateOf[b] <= date)
  <2> DEFINE U == Until(X, p, DateOf[m])
  <2>1. b \notin D
    BY <1>15 DEF BatchesWith
  <2>2. m \in 1 .. b - 1 /\ p \in DOMAIN received[m] /\ DateOf[m] <= date
    <3>1. m \in 1 .. b /\ m # b /\ p \in DOMAIN received[m] /\ DateOf[m] <= date
      BY <1>13, <2>1 DEF BatchesWith
    <3>2. QED
      BY <1>7, <3>1
  <2>3. Says(LatestIn(U), received[m][p])
    BY <1>1, <2>2 DEF Told
  <2>4. X # {}
    BY <2>3 DEF Says, LatestIn, Until
  <2>5. \A v \in O : ~(v.effective_date <= date)
    BY <1>2, <1>4, <1>15, <2>4
  <2>6. \A e \in D : e = m \/ DateOf[e] <= DateOf[m]
    <3>1. \A e \in D : e \in 1 .. b - 1 /\ e <= m
      BY <1>7, <1>13, <2>1 DEF BatchesWith
    <3>2. \A e \in D : e = m \/ e < m
      BY <2>2, <3>1
    <3>3. \A e \in D : e < m => DateOf[e] < DateOf[m]
      BY <1>7, <2>2, <3>1 DEF OneADay
    <3>4. QED
      BY <1>8, <2>2, <3>1, <3>2, <3>3
  <2>7. ASSUME NEW w \in X, w.player = p, w.effective_date <= date
        PROVE  w \in U
    <3>1. CASE w.effective_date = FAR_PAST_DATE
      BY <1>8, <2>2, <2>7, <3>1 DEF Until, FAR_PAST_DATE
    <3>2. ASSUME NEW c \in 1 .. b - 1, p \in DOMAIN received[c], w.effective_date = DateOf[c]
          PROVE  w \in U
      <4>1. c \in D
        BY <1>7, <2>7, <3>2 DEF BatchesWith
      <4>2. DateOf[c] <= DateOf[m]
        BY <1>8, <2>2, <2>6, <4>1
      <4>3. QED
        BY <2>7, <3>2, <4>2 DEF Until
    <3>3. QED
      BY <1>1, <2>7, <3>1, <3>2 DEF Dated
  <2>8. ASSUME NEW v \in Y
        PROVE  \E w \in U : SameName(v, w)
    <3>1. v \in R /\ v.player = p /\ v.effective_date <= date
      BY DEF Covering, Covers
    <3>2. PICK w \in X : SameName(v, w)
      BY <1>5, <2>5, <3>1
    <3>3. w \in U
      BY <2>7, <3>1, <3>2 DEF SameName
    <3>4. QED
      BY <3>2, <3>3
  <2>9. ASSUME NEW w \in U
        PROVE  \E v \in Y : SameName(v, w)
    <3>1. w \in X /\ w.player = p /\ w.effective_date <= DateOf[m] /\ w.effective_date \in Nat
      BY <1>2 DEF Until
    <3>2. PICK v \in R \ O : SameName(v, w)
      BY <1>3, <1>11, <3>1 DEF RowsAre
    <3>3. v.effective_date <= date
      BY <1>8, <1>12, <2>2, <3>1, <3>2 DEF SameName
    <3>4. date <= v.end_date
      BY <1>6, <1>8, <1>12, <1>15
    <3>5. v \in Y
      BY <3>1, <3>2, <3>3, <3>4 DEF Covering, Covers, SameName
    <3>6. QED
      BY <3>2, <3>5
  <2> HIDE DEF U, Y
  <2>10. Says(LatestIn(Y), received[m][p])
    BY <2>3, <2>8, <2>9, LatestByName
  <2>11. QED
    BY <2>10 DEF Says, LatestIn, Y
<1>16. QED
  BY <1>14, <1>15

LEMMA MergeChains ==
    ASSUME HistoryAssumption, OneADay, NEW b \in Batch,
           NEW X, NEW R, X \cup R \subseteq Version, NamesAgree(X), ChainedTo(X, b - 1),
           MergesTo(X, R, received[b], MergeDate(X, b))
    PROVE  ChainedTo(X \cup R, b) /\ FoundIn(R, b)
<1>1. CASE DOMAIN received[b] = {} /\ R = X
  <2>1. 1 .. b = (1 .. b - 1) \cup {b}
    BY BatchNumbers
  <2>2. Dated(X, b) /\ Told(X, b)
    BY <1>1, <2>1 DEF ChainedTo, Dated, Told
  <2>3. X \cup R = X
    BY <1>1
  <2>4. FoundIn(R, b)
    BY <1>1 DEF FoundIn
  <2>5. QED
    BY <2>2, <2>3, <2>4 DEF ChainedTo
<1>2. ASSUME NEW O \in SUBSET R, R = CarriedOver(X, received[b], MergeDate(X, b)) \cup O,
             AreNew(O, X, received[b], MergeDate(X, b))
      PROVE  ChainedTo(X \cup R, b) /\ FoundIn(R, b)
  <2>1. ChainedTo(X \cup R, b)
    BY <1>2, ChainGrows
  <2>2. FoundIn(R, b)
    BY <1>2, LookupFindsDelivered
  <2>3. QED
    BY <2>1, <2>2
<1>3. QED
  BY <1>1, <1>2 DEF MergesTo

-----------------------------------------------------------------------------
(* What a run keeps true of batches that are done at once *)

(* Batches are begun in their order, and a batch that was not begun has left
   nothing on disk.                                                        *)
OrderInv ==
    /\ \A b, c \in Batch : b < c /\ attempts[c] > 0 => attempts[b] > 0
    /\ \A b \in Batch : attempts[b] = 0 => dim_players[b] = << >> /\ b \notin done
    /\ pc # "idle" =>
          /\ attempts[batch] > 0
          /\ attempts[batch] = 1 =>
                /\ \A e \in Batch : e > batch => attempts[e] = 0
                /\ pc = "build" => dim_players[batch] = << >>

(* Every batch until b was done at the first try. *)
AtOnce(b) == \A e \in 1 .. b : e \in done /\ attempts[e] = 1

Upto(b) == UNION {Snapshot(e) : e \in 1 .. b}

(* The first try of the next batch merges into what those have left. *)
BuildsOn(R, b) == MergesTo(Upto(b - 1), R, received[b], MergeDate(Upto(b - 1), b))

BuiltInv ==
    pc # "idle" /\ attempts[batch] = 1 /\ AtOnce(batch - 1) =>
        /\ pc \in {"clear", "write"} => BuildsOn(Held, batch)
        /\ pc \in {"facts", "verdict"} /\ ok => BuildsOn(Snapshot(batch), batch)

ChronicleInv == \A b \in Batch : AtOnce(b) => ChainedTo(Upto(b), b) /\ FoundIn(Snapshot(b), b)

TimesInv == OrderInv /\ BuiltInv /\ ChronicleInv

LEMMA OrderInit ==
    ASSUME HistoryAssumption, Init
    PROVE  TimesInv
<1>1. /\ dim_players = [b \in Batch |-> << >>] /\ attempts = [b \in Batch |-> 0]
      /\ done = {} /\ pc = "idle"
  BY DEF Init
<1>2. OrderInv
  BY <1>1 DEF OrderInv
<1>3. BuiltInv
  BY <1>1 DEF BuiltInv
<1>4. \A b \in Batch : ~AtOnce(b)
  <2>1. \A b \in Batch : b \in 1 .. b
    BY BatchNumbers
  <2>2. QED
    BY <1>1, <2>1 DEF AtOnce
<1>5. QED
  BY <1>2, <1>3, <1>4 DEF TimesInv, ChronicleInv

LEMMA OrderStep ==
    ASSUME HistoryAssumption, RunTypeInv, OrderInv, [Next]_(vars)
    PROVE  OrderInv'
<1>1. CASE \E b \in Batch : StartRun(b)
  <2>1. PICK b \in Batch : StartRun(b)
    BY <1>1
  <2>2. /\ pc = "idle" /\ b \notin done /\ pc' = "build" /\ batch' = b
        /\ attempts' = [attempts EXCEPT ![b] = @ + 1]
        /\ dim_players' = dim_players /\ done' = done
        /\ b > 1 => attempts[b - 1] > 0
    BY <2>1 DEF StartRun
  <2>3. attempts \in [Batch -> Nat]
    BY DEF RunTypeInv
  <2>4. attempts'[b] = attempts[b] + 1 /\ \A c \in Batch : c # b => attempts'[c] = attempts[c]
    BY <2>2, <2>3
  <2>5. \A c \in Batch : attempts[c] \in Nat
    BY <2>3
  <2>6. \A c \in Batch : c < b => attempts[c] > 0
    <3>1. ASSUME NEW c \in Batch, c < b
          PROVE  attempts[c] > 0
      <4>1. b - 1 \in Batch /\ b > 1 /\ (c = b - 1 \/ c < b - 1)
        <5>1. PICK N \in Nat : Batch = 1 .. N
          BY Batches
        <5>2. QED
          BY <3>1, <5>1
      <4>2. attempts[b - 1] > 0
        BY <2>2, <4>1
      <4>3. QED
        BY <4>1, <4>2 DEF OrderInv
    <3>2. QED
      BY <3>1
  <2>7. \A c, d \in Batch : c < d /\ attempts'[d] > 0 => attempts'[c] > 0
    <3>1. \A c \in Batch : attempts[c] > 0 => attempts'[c] > 0
      BY <2>4, <2>5
    <3>2. QED
      BY <2>4, <2>6, <3>1 DEF OrderInv
  <2>8. \A c \in Batch : attempts'[c] = 0 => dim_players[c] = << >> /\ c \notin done
    BY <2>4, <2>5 DEF OrderInv
  <2>9. attempts'[b] > 0
    BY <2>4, <2>5
  <2>10. ASSUME attempts'[b] = 1
         PROVE  (\A e \in Batch : e > b => attempts'[e] = 0) /\ dim_players[b] = << >>
    <3>1. attempts[b] = 0
      BY <2>4, <2>5, <2>10
    <3>2. \A e \in Batch : b < e => ~(attempts[e] > 0)
      BY <3>1 DEF OrderInv
    <3>3. \A e \in Batch : e > b => b < e /\ e # b
      <4>1. PICK N \in Nat : Batch = 1 .. N
        BY Batches
      <4>2. QED
        BY <4>1
    <3>4. \A e \in Batch : e > b => attempts'[e] = 0
      BY <2>4, <2>5, <3>2, <3>3
    <3>5. QED
      BY <3>1, <3>4 DEF OrderInv
  <2>11. QED
    BY <2>2, <2>7, <2>8, <2>9, <2>10 DEF OrderInv
<1>2. CASE BuildDimPlayers \/ DimPlayersFails \/ BuildFactAppearances
           \/ UNCHANGED vars
  <2>1. /\ attempts' = attempts /\ dim_players' = dim_players /\ done' = done /\ batch' = batch
        /\ pc' # "idle" => pc # "idle"
        /\ pc' = "build" => pc = "build"
    BY <1>2 DEF BuildDimPlayers, DimPlayersFails, BuildFactAppearances,
                vars, lake
  <2>2. QED
    BY <2>1 DEF OrderInv
<1>3. CASE ClearDimPlayers \/ WriteDimPlayers
  <2>1. /\ attempts' = attempts /\ done' = done /\ batch' = batch
        /\ pc # "idle" /\ pc' \in {"write", "facts"}
        /\ \A b \in Batch : b # batch => dim_players'[b] = dim_players[b]
    BY <1>3 DEF ClearDimPlayers, WriteDimPlayers, RunTypeInv
  <2>2. QED
    BY <2>1 DEF OrderInv
<1>4. CASE Verdict \/ Crash
  <2>1. /\ attempts' = attempts /\ dim_players' = dim_players /\ pc' = "idle" /\ pc # "idle"
        /\ done' \subseteq done \cup {batch}
    BY <1>4 DEF Verdict, Crash, Exit, lake
  <2>2. QED
    BY <2>1 DEF OrderInv
<1>5. QED
  BY <1>1, <1>2, <1>3, <1>4 DEF Next

(* Which batches were done at once, and what those left, stays. *)
LEMMA DoneStays ==
    ASSUME \A e \in done : /\ received'[e] = received[e] /\ dim_players'[e] = dim_players[e]
                           /\ attempts'[e] = attempts[e],
           done' = done, NEW n
    PROVE  /\ AtOnce(n)' <=> AtOnce(n)
           /\ AtOnce(n) => /\ Upto(n)' = Upto(n)
                           /\ ChainedTo(Upto(n), n) => ChainedTo(Upto(n), n)'
                           /\ n \in 1 .. n /\ FoundIn(Snapshot(n), n) => FoundIn(Snapshot(n), n)'
<1>1. AtOnce(n)' <=> AtOnce(n)
  BY DEF AtOnce
<1>2. SUFFICES ASSUME AtOnce(n)
               PROVE  /\ Upto(n)' = Upto(n)
                      /\ ChainedTo(Upto(n), n) => ChainedTo(Upto(n), n)'
                      /\ n \in 1 .. n /\ FoundIn(Snapshot(n), n) => FoundIn(Snapshot(n), n)'
  BY <1>1
<1>3. \A e \in 1 .. n : received'[e] = received[e] /\ dim_players'[e] = dim_players[e]
  BY <1>2 DEF AtOnce
<1>4. Upto(n)' = Upto(n)
  BY <1>3 DEF Upto, Snapshot
<1>5. ASSUME ChainedTo(Upto(n), n)
      PROVE  ChainedTo(Upto(n), n)'
  <2>1. HasCurrent(Upto(n))' /\ OpenEnded(Upto(n))'
    BY <1>4, <1>5 DEF ChainedTo, HasCurrent, OpenEnded
  <2>2. Dated(Upto(n), n)'
    BY <1>3, <1>4, <1>5 DEF ChainedTo, Dated
  <2>3. Told(Upto(n), n)'
    BY <1>3, <1>4, <1>5 DEF ChainedTo, Told
  <2>4. QED
    BY <2>1, <2>2, <2>3 DEF ChainedTo
<1>6. ASSUME n \in 1 .. n, FoundIn(Snapshot(n), n)
      PROVE  FoundIn(Snapshot(n), n)'
  <2>1. received'[n] = received[n] /\ dim_players'[n] = dim_players[n]
    BY <1>3, <1>6
  <2>2. QED
    BY <1>3, <1>6, <2>1 DEF FoundIn, Snapshot, BatchesWith
<1>7. QED
  BY <1>4, <1>5, <1>6

LEMMA BuiltByBuild ==
    ASSUME HistoryAssumption, RunnerInv, OrderInv, BuildDimPlayers
    PROVE  BuiltInv'
<1>1. /\ pc = "build" /\ received' = received /\ dim_players' = dim_players
      /\ done' = done /\ batch' = batch /\ attempts' = attempts
  BY DEF BuildDimPlayers, lake
<1>2. /\ IsMergeOf(dim_players_df', Stored, received[batch], MergeDate(Stored, batch))
      /\ pc' = IF dim_players_df' = << >> THEN "facts" ELSE "clear"
  BY Built DEF RunnerInv
<1>3. batch \in Batch
  BY <1>1 DEF RunnerInv, RunTypeInv
<1>4. SUFFICES ASSUME attempts[batch] = 1
               PROVE  /\ pc' = "clear" => BuildsOn(Held, batch)'
                      /\ pc' = "facts" => BuildsOn(Snapshot(batch), batch)'
  BY <1>1, <1>2 DEF BuiltInv
<1>5. dim_players[batch] = << >> /\ \A e \in Batch : e > batch => dim_players[e] = << >>
  BY <1>1, <1>3, <1>4 DEF OrderInv
<1>6. Stored = Upto(batch - 1)
  <2>1. \A e \in Batch : e \in 1 .. batch - 1 \/ Snapshot(e) = {}
    <3>1. \A e \in Batch : e \in 1 .. batch - 1 \/ e = batch \/ e > batch
      <4>1. PICK N \in Nat : Batch = 1 .. N
        BY Batches
      <4>2. QED
        BY <1>3, <4>1
    <3>2. \A e \in Batch : dim_players[e] = << >> => Snapshot(e) = {}
      BY DEF Snapshot, Range
    <3>3. QED
      BY <1>5, <3>1, <3>2
  <2>2. \A e \in 1 .. batch - 1 : e \in Batch
    BY <1>3, BatchNumbers
  <2>3. QED
    BY <2>1, <2>2 DEF Stored, Upto
<1>7. Upto(batch - 1)' = Upto(batch - 1)
  BY <1>1 DEF Upto, Snapshot
<1>8. MergesTo(Upto(batch - 1), Range(dim_players_df'), received[batch], MergeDate(Upto(batch - 1), batch))
  BY <1>2, <1>6 DEF IsMergeOf
<1>9. CASE pc' = "clear"
  <2>1. Held' = Range(dim_players_df')
    BY <1>9 DEF Held
  <2>2. QED
    BY <1>1, <1>7, <1>8, <1>9, <2>1 DEF BuildsOn, MergeDate
<1>10. CASE pc' = "facts"
  <2>1. dim_players_df' = << >>
    BY <1>2, <1>10
  <2>2. Snapshot(batch)' = Range(dim_players_df')
    BY <1>1, <1>5, <2>1 DEF Snapshot
  <2>3. QED
    BY <1>1, <1>7, <1>8, <1>10, <2>2 DEF BuildsOn, MergeDate
<1>11. QED
  BY <1>9, <1>10

LEMMA BuiltStep ==
    ASSUME HistoryAssumption, RunnerInv, OrderInv, BuiltInv,
           [Next]_(vars)
    PROVE  BuiltInv'
<1>1. CASE \E b \in Batch : StartRun(b)
  BY <1>1 DEF StartRun, BuiltInv
<1>2. CASE BuildDimPlayers
  BY <1>2, BuiltByBuild
<1>3. CASE ClearDimPlayers \/ WriteDimPlayers
  <2>1. /\ attempts' = attempts /\ done' = done /\ batch' = batch /\ received' = received
        /\ dim_players_df' = dim_players_df
        /\ \/ pc = "clear" /\ pc' = "write"
           \/ pc = "write" /\ pc' = "facts"
    BY <1>3 DEF ClearDimPlayers, WriteDimPlayers
  <2>2. batch \in Batch \ done /\ dim_players \in [Batch -> Seq(Version)]
    BY <2>1 DEF RunnerInv, RunTypeInv
  <2>3. /\ \A e \in Batch : e # batch => dim_players'[e] = dim_players[e]
        /\ pc = "write" => dim_players'[batch] = dim_players_df
    BY <1>3, <2>2 DEF ClearDimPlayers, WriteDimPlayers
  <2>4. Upto(batch - 1)' = Upto(batch - 1)
    <3>1. \A e \in 1 .. batch - 1 : e \in Batch /\ e # batch
      BY <2>2, BatchNumbers
    <3>2. QED
      BY <2>1, <2>3, <3>1 DEF Upto, Snapshot
  <2>5. AtOnce(batch - 1)' <=> AtOnce(batch - 1)
    BY <2>1 DEF AtOnce
  <2>6. /\ pc = "clear" => Held' = Held
        /\ pc = "write" => Snapshot(batch)' = Held
    BY <2>1, <2>3 DEF Held, Snapshot
  <2>7. QED
    BY <2>1, <2>4, <2>5, <2>6 DEF BuiltInv, BuildsOn, MergeDate
<1>4. CASE DimPlayersFails
  BY <1>4 DEF DimPlayersFails, BuiltInv
<1>5. CASE BuildFactAppearances \/ UNCHANGED vars
  <2>1. /\ attempts' = attempts /\ done' = done /\ batch' = batch /\ received' = received
        /\ dim_players' = dim_players /\ dim_players_df' = dim_players_df
        /\ ok' => ok
        /\ \/ pc' = pc
           \/ pc = "facts" /\ pc' = "verdict"
    BY <1>5 DEF BuildFactAppearances, vars, lake
  <2>2. /\ Upto(batch - 1)' = Upto(batch - 1) /\ Snapshot(batch)' = Snapshot(batch)
        /\ AtOnce(batch - 1)' <=> AtOnce(batch - 1)
    BY <2>1 DEF Upto, Snapshot, AtOnce
  <2>3. pc' \in {"clear", "write"} => pc \in {"clear", "write"} /\ Held' = Held
    BY <2>1 DEF Held
  <2>4. QED
    BY <2>1, <2>2, <2>3 DEF BuiltInv, BuildsOn, MergeDate
<1>6. CASE Verdict \/ Crash
  BY <1>6 DEF Verdict, Crash, Exit, BuiltInv
<1>7. QED
  BY <1>1, <1>2, <1>3, <1>4, <1>5, <1>6 DEF Next

LEMMA ChronicleStep ==
    ASSUME HistoryAssumption, OneADay, RunnerInv, TimesInv,
           [Next]_(vars)
    PROVE  ChronicleInv'
<1>1. OrderInv /\ BuiltInv /\ ChronicleInv /\ RunTypeInv
  BY DEF TimesInv, RunnerInv
<1>2. CASE done' = done
  <2>1. \A e \in done : /\ received'[e] = received[e] /\ dim_players'[e] = dim_players[e]
                        /\ attempts'[e] = attempts[e]
    <3>1. CASE \E b \in Batch : StartRun(b)
      <4>1. PICK b \in Batch : StartRun(b)
        BY <3>1
      <4>2. b \notin done /\ done \subseteq Batch /\ DOMAIN attempts = Batch /\ DOMAIN received = Batch
        BY <1>1, <4>1 DEF StartRun, RunTypeInv
      <4>3. /\ attempts' = [attempts EXCEPT ![b] = @ + 1] /\ dim_players' = dim_players
            /\ received' = received \/ \E i : received' = [received EXCEPT ![b] = i]
        BY <4>1 DEF StartRun
      <4>4. QED
        BY <4>2, <4>3
    <3>2. CASE ClearDimPlayers \/ WriteDimPlayers
      <4>1. batch \notin done /\ done \subseteq Batch /\ DOMAIN dim_players = Batch
        BY <1>1, <3>2 DEF ClearDimPlayers, WriteDimPlayers, RunTypeInv
      <4>2. /\ attempts' = attempts /\ received' = received
            /\ \E f : dim_players' = [dim_players EXCEPT ![batch] = f]
        BY <3>2 DEF ClearDimPlayers, WriteDimPlayers
      <4>3. QED
        BY <4>1, <4>2
    <3>3. CASE \/ BuildDimPlayers \/ DimPlayersFails
               \/ BuildFactAppearances \/ Verdict \/ Crash
               \/ UNCHANGED vars
      BY <3>3 DEF BuildDimPlayers, DimPlayersFails, BuildFactAppearances,
                  Verdict, Crash, vars, lake
    <3>4. QED
      BY <3>1, <3>2, <3>3 DEF Next
  <2>2. ASSUME NEW b \in Batch, AtOnce(b)'
        PROVE  ChainedTo(Upto(b), b)' /\ FoundIn(Snapshot(b), b)'
    <3>1. AtOnce(b)
      BY <1>2, <2>1, <2>2, DoneStays
    <3>2. ChainedTo(Upto(b), b) /\ FoundIn(Snapshot(b), b) /\ b \in 1 .. b
      BY <1>1, <3>1, BatchNumbers DEF ChronicleInv
    <3>3. QED
      BY <1>2, <2>1, <3>1, <3>2, DoneStays
  <2>3. QED
    BY <2>2 DEF ChronicleInv
<1>3. CASE done' # done
  <2>1. Verdict /\ ok /\ done' = done \cup {batch}
    BY <1>3 DEF Next, StartRun, BuildDimPlayers, ClearDimPlayers,
       WriteDimPlayers, DimPlayersFails, BuildFactAppearances,
       Verdict, Crash, vars, lake
  <2>2. /\ pc = "verdict" /\ attempts' = attempts /\ received' = received
        /\ dim_players' = dim_players
    BY <2>1 DEF Verdict
  <2>3. batch \in Batch \ done /\ received[batch] \in Incoming
    BY <1>1, <2>2 DEF RunTypeInv
  <2>4. \A n : /\ Upto(n)' = Upto(n) /\ Snapshot(n)' = Snapshot(n)
               /\ ChainedTo(Upto(n), n)' <=> ChainedTo(Upto(n), n)
               /\ FoundIn(Snapshot(n), n)' <=> FoundIn(Snapshot(n), n)
    BY <2>2 DEF Upto, Snapshot, ChainedTo, HasCurrent, OpenEnded, Dated, Told, FoundIn, BatchesWith
  <2>5. ASSUME NEW b \in Batch, \A e \in 1 .. b : e \in done \cup {batch} /\ attempts[e] = 1
        PROVE  ChainedTo(Upto(b), b) /\ FoundIn(Snapshot(b), b)
    <3>1. CASE b # batch
      <4>1. batch \notin 1 .. b
        <5>1. b \in 1 .. b /\ b \in Nat /\ (batch \in 1 .. b => b > batch)
          BY <2>3, <3>1, BatchNumbers
        <5>2. attempts[b] = 1
          BY <2>5, <5>1
        <5>3. ASSUME batch \in 1 .. b PROVE FALSE
          <6>1. attempts[batch] = 1 /\ b > batch
            BY <2>5, <5>1, <5>3
          <6>2. attempts[b] = 0
            BY <1>1, <2>2, <6>1 DEF OrderInv
          <6>3. QED
            BY <5>2, <6>2
        <5>4. QED
          BY <5>3
      <4>2. AtOnce(b)
        BY <2>5, <4>1 DEF AtOnce
      <4>3. QED
        BY <1>1, <4>2 DEF ChronicleInv
    <3>2. CASE b = batch
      <4> DEFINE X == Upto(batch - 1)
                 R == Snapshot(batch)
      <4>1. /\ 1 .. batch = (1 .. batch - 1) \cup {batch} /\ batch - 1 \in Nat
            /\ batch \in Nat \ {0}
            /\ \A e \in 1 .. batch - 1 : e \in Batch /\ e < batch
        BY <2>3, BatchNumbers
      <4>2. AtOnce(batch - 1)
        BY <2>5, <3>2, <4>1 DEF AtOnce
      <4>3. attempts[batch] = 1
        BY <2>5, <3>2, <4>1
      <4>4. MergesTo(X, R, received[batch], MergeDate(X, batch))
        BY <1>1, <2>1, <2>2, <4>2, <4>3 DEF BuiltInv, BuildsOn
      <4>5. ChainedTo(X, batch - 1)
        <5>1. CASE batch - 1 \in Batch
          BY <1>1, <4>2, <5>1 DEF ChronicleInv
        <5>2. CASE batch - 1 \notin Batch
          <6>1. 1 .. batch - 1 = {}
            <7>1. batch - 1 \notin 1 .. batch - 1
              BY <4>1, <5>2
            <7>2. QED
              BY <4>1, <7>1
          <6>2. X = {}
            BY <6>1 DEF Upto
          <6>3. QED
            BY <6>1, <6>2 DEF ChainedTo, HasCurrent, OpenEnded, Dated, Told
        <5>3. QED
          BY <5>1, <5>2
      <4>6. X \cup R = Upto(batch) /\ Upto(batch) \subseteq Stored
        BY <2>3, <4>1 DEF Upto, Stored
      <4>7. X \cup R \subseteq Version /\ NamesAgree(X)
        <5>1. Stored \subseteq Version
          BY <1>1, StoredVersions
        <5>2. X \subseteq Stored
          BY <4>6
        <5> HIDE DEF X, R
        <5>3. NamesAgree(X)
          BY <5>2 DEF RunnerInv, NamesInv, NamesAgree
        <5>4. QED
          BY <4>6, <5>1, <5>3
      <4> HIDE DEF X, R
      <4>8. ChainedTo(X \cup R, batch) /\ FoundIn(R, batch)
        BY <2>3, <4>4, <4>5, <4>7, MergeChains
      <4>9. QED
        BY <3>2, <4>6, <4>8 DEF R
    <3>3. QED
      BY <3>1, <3>2
  <2>6. ASSUME NEW b \in Batch, AtOnce(b)'
        PROVE  ChainedTo(Upto(b), b)' /\ FoundIn(Snapshot(b), b)'
    <3>1. \A e \in 1 .. b : e \in done \cup {batch} /\ attempts[e] = 1
      BY <2>1, <2>2, <2>6 DEF AtOnce
    <3>2. QED
      BY <2>4, <2>5, <3>1
  <2>7. QED
    BY <2>6 DEF ChronicleInv
<1>4. QED
  BY <1>2, <1>3

LEMMA TimesAreInvariant ==
    ASSUME HistoryAssumption, OneADay
    PROVE  Spec => []TimesInv
<1>1. Init => TimesInv
  BY OrderInit
<1>2. RunnerInv /\ TimesInv /\ [Next]_(vars) => TimesInv'
  <2>1. SUFFICES ASSUME RunnerInv, TimesInv, [Next]_(vars)
                 PROVE  TimesInv'
    OBVIOUS
  <2>2. OrderInv'
    BY <2>1, OrderStep DEF RunnerInv, TimesInv
  <2>3. BuiltInv'
    BY <2>1, BuiltStep DEF TimesInv
  <2>4. ChronicleInv'
    BY <2>1, ChronicleStep
  <2>5. QED
    BY <2>2, <2>3, <2>4 DEF TimesInv
<1>3. QED
  BY <1>1, <1>2, RunnerIsInvariant, PTL DEF Spec

(* A resolved fact points to a version, in the snapshot of its batch, of its
   player and whose window has the date of the match: whatever was repeated,
   failed or killed before the batch was done.                             *)
ResolvedFactsAreCovered ==
    \A b \in done, a \in Appearance : facts[b][a] # 0 =>
        \E v \in Snapshot(b) : v.player_sk = facts[b][a] /\ v.player = a[1] /\ Covers(v, a[2])

LEMMA FactsFound ==
    ASSUME RunTypeInv, FactsInv, NEW b \in done, NEW a \in Appearance
    PROVE  Finds(facts[b][a], Covering(Snapshot(b), a[1], a[2]))
<1>1. b \in Batch /\ Resolved(b)
  BY DEF RunTypeInv, FactsInv
<1>2. dim_players[b] \in Seq(Version)
  BY <1>1 DEF RunTypeInv
<1>3. facts[b][a] = LookupPlayerSkAt(dim_players[b], a[1], a[2])
  BY <1>1 DEF Resolved
<1>4. QED
  BY <1>2, <1>3, LookupFinds DEF Snapshot

LEMMA CoveredFacts ==
    ASSUME RunnerInv
    PROVE  ResolvedFactsAreCovered
<1>1. SUFFICES ASSUME NEW b \in done, NEW a \in Appearance, facts[b][a] # 0
               PROVE  \E v \in Snapshot(b) : /\ v.player_sk = facts[b][a]
                                             /\ v.player = a[1] /\ Covers(v, a[2])
  BY DEF ResolvedFactsAreCovered
<1>2. Finds(facts[b][a], Covering(Snapshot(b), a[1], a[2]))
  BY FactsFound DEF RunnerInv
<1>3. QED
  BY <1>1, <1>2 DEF Finds, LatestIn, Covering

THEOREM FactsAreCovered ==
    ASSUME HistoryAssumption
    PROVE  Spec => []ResolvedFactsAreCovered
BY CoveredFacts, RunnerIsInvariant, PTL

(* And as long as no run had to be repeated, and every batch has its own
   day, it is the version with what the last batch until the date delivered,
   though the snapshots hold the player's versions several times and with
   other windows.                                                          *)
THEOREM FactsAreAsOfTheEvent ==
    ASSUME HistoryAssumption, OneADay
    PROVE  Spec => []FactsPointIntoTheSnapshot
<1>1. ASSUME RunnerInv, TimesInv
      PROVE  FactsPointIntoTheSnapshot
  <2>1. SUFFICES ASSUME NEW b \in done, NEW a \in Appearance
                 PROVE  LET found     == {v \in Versions(b) : v.player_sk = facts[b][a]}
                            delivered == BatchesWith(a[1], a[2], b)
                        IN  /\ facts[b][a] # 0 => \E v \in found : v.player = a[1] /\ Covers(v, a[2])
                            /\ AtOnce(b) /\ a[1] \in DOMAIN received[b] /\ delivered # {} =>
                                  /\ facts[b][a] # 0
                                  /\ \A v \in found : v.attr = received[MaxOf(delivered)][a[1]]
    BY DEF FactsPointIntoTheSnapshot, BatchesWith, AtOnce, MaxOf, Covers
  <2>2. Versions(b) = Snapshot(b) /\ b \in Batch
    BY <1>1 DEF Versions, Snapshot, Range, RunnerInv, RunTypeInv
  <2>3. facts[b][a] # 0 => \E v \in Snapshot(b) : /\ v.player_sk = facts[b][a]
                                                  /\ v.player = a[1] /\ Covers(v, a[2])
    BY <1>1, CoveredFacts DEF ResolvedFactsAreCovered
  <2>4. ASSUME AtOnce(b), a[1] \in DOMAIN received[b], BatchesWith(a[1], a[2], b) # {}
        PROVE  /\ facts[b][a] # 0
               /\ \A v \in Snapshot(b) : v.player_sk = facts[b][a] =>
                     v.attr = received[MaxOf(BatchesWith(a[1], a[2], b))][a[1]]
    <3> DEFINE D == BatchesWith(a[1], a[2], b)
               Y == Covering(Snapshot(b), a[1], a[2])
    <3>1. MaxOf(D) \in D /\ \A e \in D : e <= MaxOf(D)
      <4>1. D \in SUBSET (1 .. b) /\ IsFiniteSet(1 .. b) /\ 1 .. b \subseteq Nat
        <5>1. b \in Nat
          BY <2>2, BatchNumbers
        <5>2. IsFiniteSet(1 .. b)
          BY <5>1, FS_Interval
        <5>3. QED
          BY <5>1, <5>2 DEF BatchesWith
      <4>2. IsFiniteSet(D)
        BY <4>1, FS_Subset
      <4>3. D \subseteq Nat /\ D # {}
        BY <2>4, <4>1
      <4> HIDE DEF D
      <4>4. QED
        BY <4>2, <4>3, Largest
    <3>2. a[2] \in 0 .. FAR_FUTURE_DATE
      BY DEF HistoryAssumption
    <3>3. FoundIn(Snapshot(b), b)
      BY <1>1, <2>2, <2>4 DEF TimesInv, ChronicleInv
    <3>4. Y # {} /\ \A v \in LatestIn(Y) : v.attr = received[MaxOf(D)][a[1]]
      <4>1. FoundIn(Snapshot(b), b) /\ a[1] \in DOMAIN received[b]
        BY <2>4, <3>3
      <4> HIDE DEF D
      <4>2. QED
        BY <3>1, <3>2, <4>1 DEF FoundIn, D, Y
    <3>5. Finds(facts[b][a], Y)
      BY <1>1, FactsFound DEF RunnerInv
    <3> HIDE DEF D, Y
    <3>6. facts[b][a] # 0 /\ \E w \in LatestIn(Y) : w.player_sk = facts[b][a]
      BY <3>4, <3>5 DEF Finds
    <3>7. PICK w \in LatestIn(Y) : w.player_sk = facts[b][a]
      BY <3>6
    <3>8. w \in Stored /\ Snapshot(b) \subseteq Stored
      BY <2>2 DEF Stored, LatestIn, Y, Covering
    <3>9. \A v \in Snapshot(b) : v.player_sk = facts[b][a] => v.attr = w.attr
      BY <1>1, <3>7, <3>8 DEF RunnerInv, NamesInv, NamesAgree
    <3>10. QED
      BY <3>4, <3>6, <3>7, <3>9 DEF D
  <2>5. QED
    BY <2>2, <2>3, <2>4
<1>2. RunnerInv /\ TimesInv => FactsPointIntoTheSnapshot
  BY <1>1
<1>3. QED
  BY <1>2, RunnerIsInvariant, TimesAreInvariant, PTL
=============================================================================
