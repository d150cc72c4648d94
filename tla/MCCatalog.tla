----------------------------- MODULE MCCatalog -----------------------------
(***************************************************************************)
(* An instance of Catalog for TLC: one account and two files, so that the  *)
(* listing is rebuilt around a file and names come round again, with       *)
(* records in one of them.                                                 *)
(***************************************************************************)
EXTENDS Catalog, TLC

Nothing == [flag \in Flags |-> Absent]
MCAsked ==
    "F" :> {Nothing,
            [Nothing EXCEPT !.durable = TRUE, !.autokey = TRUE],
            [Nothing EXCEPT !.queue = TRUE, !.autokey = FALSE]}
    @@ "G" :> {Nothing, [Nothing EXCEPT !.directory = TRUE]}

\* What later steps depend on.
View == <<registry, diskVars, table, dir, cache, ghosts>>

=============================================================================
