--------------------------- MODULE MCPlayerHistory ---------------------------
(***************************************************************************)
(* PlayerHistory for TLC: batch n is of day n, and every player plays on   *)
(* the days before, of and after the batches.                              *)
(***************************************************************************)
EXTENDS PlayerHistory

CONSTANT NBatches

Batches     == 1 .. NBatches
Dates       == [b \in Batches |-> b]
Appearances == Player \X (1 .. NBatches + 1)
=============================================================================
