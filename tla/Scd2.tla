-------------------------------- MODULE Scd2 --------------------------------
(***************************************************************************)
(* The SCD Type 2 merge (src/src/silver/scd2.py) and the as-of-event       *)
(* lookup that facts make in its result (src/src/silver/facts.py).         *)
(*                                                                         *)
(* A dimension is a sequence of versions, one per row of the frame: the    *)
(* frames are not sets, and the merge can be handed the same row twice.    *)
(* The row hash stands for the tracked columns, so a version has one       *)
(* attribute, which is what the hash tells apart.                          *)
(***************************************************************************)
EXTENDS Integers, Sequences, FiniteSets

CONSTANTS
    Player,     \* natural keys, ordered as numbers
    Attr        \* values of the tracked columns

ASSUME PlayerAssumption == Player \subseteq Nat /\ IsFiniteSet(Player)

FAR_PAST_DATE   == 0
FAR_FUTURE_DATE == 99

Version == [ player : Player, attr : Attr, player_sk : Nat \ {0},
             effective_date : Nat, end_date : Nat, is_current : BOOLEAN ]

(* What a batch brings: the attributes of the players in it.  Uniqueness of
   the key is a data quality rule of the source.                           *)
Incoming == UNION { [players -> Attr] : players \in SUBSET Player }

(* The members of S one after the other, where upTo[x] has those up to x and
   x itself.                                                               *)
InOrder(S, upTo) ==
    [ n \in 1 .. Cardinality(S) |-> CHOOSE x \in S : Cardinality(upTo[x]) = n ]

Ascending(S) == InOrder(S, [x \in S |-> {y \in S : y <= x}])

(* A filter or a semi join: the rows at the positions I, in the order of the
   frame.                                                                  *)
Where(frame, I) ==
    LET at == Ascending(I) IN [ n \in 1 .. Cardinality(I) |-> frame[at[n]] ]

MaxOf(S) == CHOOSE n \in S : \A m \in S : m <= n

(* _build_new_versions: rows in the order of their keys take the next
   surrogate keys.                                                         *)
NewVersions(keys, incoming, ts, start) ==
    [ i \in DOMAIN keys |->
        [ player |-> keys[i], attr |-> incoming[keys[i]], player_sk |-> start + i - 1,
          effective_date |-> ts, end_date |-> FAR_FUTURE_DATE, is_current |-> TRUE ] ]

InitialLoad(incoming, ts) == NewVersions(Ascending(DOMAIN incoming), incoming, ts, 1)

(* Mutant: the largest key is handed out again. *)
NextSurrogateKeyReused(existing) == MaxOf({existing[i].player_sk : i \in DOMAIN existing})

NextSurrogateKey(existing) == 1 + MaxOf({existing[i].player_sk : i \in DOMAIN existing})

SksAt(dim, I) == {dim[i].player_sk : i \in I}

(* Mutant: the closed version stays in the dimension as it was. *)
CloseOutNothing(dim, ts) == dim

(* Mutant: the flag is not cleared. *)
CloseOutCurrent(dim, ts) == [ i \in DOMAIN dim |-> [dim[i] EXCEPT !.end_date = ts] ]

CloseOut(dim, ts) ==
    [ i \in DOMAIN dim |-> [dim[i] EXCEPT !.end_date = ts, !.is_current = FALSE] ]

(* Mutant: the anti join goes by natural key. *)
HistoricalByPlayer(existing, current) ==
    Where(existing, {i \in DOMAIN existing :
        existing[i].player \notin {existing[j].player : j \in current}})

(* The anti join that carries the closed rows over. *)
Historical(existing, current) ==
    Where(existing, {i \in DOMAIN existing : existing[i].player_sk \notin SksAt(existing, current)})

(* The rows that are compared with what comes in, and those that differ. *)
CurrentRows(existing) == {i \in DOMAIN existing : existing[i].is_current}

Overlap(existing, incoming) ==
    {i \in CurrentRows(existing) : existing[i].player \in DOMAIN incoming}

ChangedRows(existing, incoming) ==
    {i \in Overlap(existing, incoming) : existing[i].attr # incoming[existing[i].player]}

UnchangedRows(existing, incoming) == Overlap(existing, incoming) \ ChangedRows(existing, incoming)

(* The semi joins go by surrogate key. *)
CurrentWith(existing, I) ==
    Where(existing, {i \in CurrentRows(existing) : existing[i].player_sk \in SksAt(existing, I)})

(* The keys of the new versions: one for each current row that differs, and
   one for each player without a current row.                              *)
ChangedKeys(existing, incoming) ==
    LET changed == ChangedRows(existing, incoming)
        UpTo(i) == {j \in changed : \/ existing[j].player < existing[i].player
                                    \/ existing[j].player = existing[i].player /\ j <= i}
        at      == InOrder(changed, [i \in changed |-> UpTo(i)])
    IN  [ n \in 1 .. Cardinality(changed) |-> existing[at[n]].player ]

NewKeys(existing, incoming) ==
    Ascending(DOMAIN incoming \ {existing[i].player : i \in Overlap(existing, incoming)})

(* The parts of the result.  The anti and semi joins go by surrogate key, so
   they carry over, or leave out, every row with the key.                  *)
Merged(existing, incoming, ts) ==
    LET changed == ChangedRows(existing, incoming)
        next_sk == NextSurrogateKey(existing)
    IN  Historical(existing, CurrentRows(existing))
          \o CurrentWith(existing, UnchangedRows(existing, incoming))
          \o CloseOut(CurrentWith(existing, changed), ts)
          \o NewVersions(ChangedKeys(existing, incoming), incoming, ts, next_sk)
          \o NewVersions(NewKeys(existing, incoming), incoming, ts, next_sk + Cardinality(changed))

scd2_merge(existing, incoming, ts) ==
    LET result == Merged(existing, incoming, ts)
    IN  IF existing = << >> THEN InitialLoad(incoming, ts)
        ELSE IF result = << >> THEN existing ELSE result

-----------------------------------------------------------------------------
(* Facts *)

(* _lookup_player_sk_at: the versions of the player, latest effective_date
   first and otherwise in the order of the rows, are searched for a window,
   both ends included, that contains the date.  0 stands for None.         *)
Covers(v, date) == v.effective_date <= date /\ date <= v.end_date

(* Mutant: the earliest version that covers the date wins. *)
LookupEarliest(dim, player, date) ==
    LET hits == {i \in DOMAIN dim : dim[i].player = player /\ Covers(dim[i], date)}
        first(i) == \A j \in hits : dim[i].effective_date <= dim[j].effective_date
    IN  IF hits = {} THEN 0 ELSE dim[CHOOSE i \in hits : first(i)].player_sk

(* Mutant: the current version, whatever the date. *)
LookupCurrent(dim, player, date) ==
    LET hits == {i \in DOMAIN dim : dim[i].player = player /\ dim[i].is_current}
    IN  IF hits = {} THEN 0 ELSE dim[CHOOSE i \in hits : TRUE].player_sk

LookupPlayerSkAt(dim, player, date) ==
    LET hits == {i \in DOMAIN dim : dim[i].player = player /\ Covers(dim[i], date)}
        first(i) == \A j \in hits : \/ dim[j].effective_date < dim[i].effective_date
                                    \/ dim[j].effective_date = dim[i].effective_date /\ i <= j
    IN  IF hits = {} THEN 0 ELSE dim[CHOOSE i \in hits : first(i)].player_sk
=============================================================================
