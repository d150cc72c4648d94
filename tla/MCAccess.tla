------------------------------ MODULE MCAccess ------------------------------
(***************************************************************************)
(* An instance of Access for TLC: an administrator's connection and an     *)
(* ordinary one, two accounts, one select list, and the grants that differ *)
(* in what they reach: one account, a queue and the making of accounts, or *)
(* everything.                                                             *)
(***************************************************************************)
EXTENDS Access, TLC

CONSTANTS c1, c2, a1, a2, n1, n2, m1, m2

MCMigratedName == c1 :> m1 @@ c2 :> m2
Nothing == [accounts |-> {}, admin |-> FALSE, caps |-> {}, enqueue |-> {}]
OneAccount == [Nothing EXCEPT !.accounts = {a1}]
MCFirst == n1 :> [thumb |-> c1, grant |-> Admin] @@ n2 :> [thumb |-> c2, grant |-> OneAccount]
             @@ m1 :> None @@ m2 :> None
MCRecords == a1 :> {1, 2} @@ a2 :> {}
MCGrants == {Admin, [Nothing EXCEPT !.enqueue = {a2}, !.caps = {"accounts:manage"}]}

\* What later steps depend on: what the last one sent is not part of it.
View == <<conn, regVars, lists, records, held>>

\* $CLIENTS changes once more only while there is no select list.
Bounds == (\E l \in ListNames : lists[l] # None) => changes < MaxChanges

=============================================================================
