------------------------- MODULE VersionedDimension -------------------------
(***************************************************************************)
(* What a slowly changing dimension of type 2 promises (the docstring of   *)
(* src/src/silver/scd2.py, without how the merge goes about it): a set of  *)
(* versions, of which a batch closes those of players that have changed,   *)
(* keeps those of players that have not, and opens one, under a key nobody *)
(* has, for every player that is left without.                             *)
(*                                                                         *)
(* In one point it has what the code does and the docstring does not say:  *)
(* the current version of a player who is not in the batch is gone.        *)
(***************************************************************************)
EXTENDS Integers

CONSTANTS
    Player,         \* natural keys
    Attr,           \* values of the tracked columns
    Date,           \* dates of batches
    FarFuture       \* the end date of a current version

(* What the theorems about the dimension need of the dates. *)
DatesAreOrdered == FarFuture \in Nat /\ \A date \in Date : date \in Nat /\ date < FarFuture

Version == [ player : Player, attr : Attr, player_sk : Nat \ {0},
             effective_date : Date, end_date : Date \cup {FarFuture}, is_current : BOOLEAN ]

Incoming == UNION { [players -> Attr] : players \in SUBSET Player }

VARIABLE versions

Init == versions = {}

Current == {v \in versions : v.is_current}
History == versions \ Current

Unchanged(incoming) ==
    {v \in Current : v.player \in DOMAIN incoming /\ v.attr = incoming[v.player]}

Changed(incoming) ==
    {v \in Current : v.player \in DOMAIN incoming /\ v.attr # incoming[v.player]}

Closed(v, date) ==
    [ player |-> v.player, attr |-> v.attr, player_sk |-> v.player_sk,
      effective_date |-> v.effective_date, end_date |-> date, is_current |-> FALSE ]

(* What a merge leaves of the versions there were. *)
Carried(incoming, date) ==
    History \cup Unchanged(incoming) \cup {Closed(v, date) : v \in Changed(incoming)}

(* The players of the batch who have no version that is kept. *)
Without(incoming) ==
    {player \in DOMAIN incoming : \A v \in Unchanged(incoming) : v.player # player}

Opened(player, attr, sk, date) ==
    [ player |-> player, attr |-> attr, player_sk |-> sk,
      effective_date |-> date, end_date |-> FarFuture, is_current |-> TRUE ]

(* A batch is not older than anything in the dimension. *)
NotBefore(date) ==
    \A v \in versions : v.effective_date <= date /\ (v.is_current \/ v.end_date <= date)

Merge(incoming, date) ==
    LET opened == versions' \ Carried(incoming, date) IN
    /\ NotBefore(date)
    /\ versions' # {}
    /\ Carried(incoming, date) \subseteq versions'
    /\ \A v \in opened :
          /\ v.player \in Without(incoming)
          /\ v.player_sk \in Nat \ {0} /\ \A w \in versions : w.player_sk # v.player_sk
          /\ v = Opened(v.player, incoming[v.player], v.player_sk, date)
    /\ \A v, w \in opened : v.player = w.player \/ v.player_sk = w.player_sk => v = w
    /\ \A player \in Without(incoming) : \E v \in opened : v.player = player

Next == \E incoming \in Incoming, date \in Date : Merge(incoming, date)

Spec == Init /\ [][Next]_versions
=============================================================================
