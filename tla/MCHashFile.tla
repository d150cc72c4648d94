----------------------------- MODULE MCHashFile -----------------------------
(***************************************************************************)
(* Instances of HashFile for TLC.  The least modulus is one and a group    *)
(* holds one record, so that three records reach a modulus of four and     *)
(* both growth (1, 2, 4) and the shrink to a quarter (4 to 1) happen.  The *)
(* third key leaves group one for group three when the modulus grows.      *)
(***************************************************************************)
EXTENDS HashFile

CONSTANTS k1, k2, k3

HashOf == [k \in Keys |-> IF k = k1 THEN 0 ELSE IF k = k2 THEN 1 ELSE 3]

=============================================================================
