------------------------------ MODULE MCCache ------------------------------
(***************************************************************************)
(* An instance of Cache for TLC: two workers and the copies they may hold. *)
(***************************************************************************)
EXTENDS Cache, TLC

CONSTANTS w1, w2

Symmetry == Permutations(Workers)

=============================================================================
