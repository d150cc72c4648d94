------------------------------ MODULE MCIndex ------------------------------
(***************************************************************************)
(* An instance of Index for TLC.  Two long texts share an entry; the two   *)
(* records trade texts between the attributes, so that both a rewrite of a *)
(* record and a move of the field change what the index has to hold, and   *)
(* one attribute is multivalued.                                           *)
(***************************************************************************)
EXTENDS Index, TLC

CONSTANTS k1, k2, long1, long2, short, cut, whole

EntryOf == [v \in Values |-> IF v = short THEN whole ELSE cut]

TwoRecords ==
    {[a \in Attrs |-> IF a = 0 THEN {long1} ELSE {short}],
     [a \in Attrs |-> IF a = 0 THEN {long2, short} ELSE {long1}]}

\* A full file, one record under each key.
BothKeys == {c \in Contents : c[k1] # c[k2] /\ \A k \in Keys : c[k] # Absent}

Dominant == {{}, {cut}}

Symmetry == Permutations(Keys)

=============================================================================
