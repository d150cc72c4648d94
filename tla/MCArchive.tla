----------------------------- MODULE MCArchive -----------------------------
(***************************************************************************)
(* An instance of Archive for TLC: a directory file, a table, and the      *)
(* table's dead-letter file.                                               *)
(***************************************************************************)
EXTENDS Archive

MCOrder == <<"D", "F", "F.DEAD">>

=============================================================================
