------------------------------ MODULE MCQueue ------------------------------
(***************************************************************************)
(* Instances of Queue for TLC: workers are interchangeable, and a run says *)
(* which commands clients send to which file.                              *)
(***************************************************************************)
EXTENDS Queue, TLC

CONSTANTS w1, w2

Symmetry == Permutations(Workers)

AllCommands == {"ENQUEUE", "DEQUEUE", "ACK", "NACK", "PEEK"}

OnBoth == AllCommands \X {"Q", "D"}

\* Until the clock moves there are two keys and any command, a fault and a
\* hand edit where there is a single record and one of them where there are
\* two; after that clients leave D alone and nobody edits by hand.
Bounds ==
    LET recs == table["Q"].recs \cup table["D"].recs
    IN IF now = 0
       THEN MaxKey \notin recs /\ (faults + handEdits <= 1 \/ Cardinality(recs) <= 1)
       ELSE /\ handEdits = 0
            /\ \A w \in Workers : cmd[w].file = "Q"
            /\ \A k \in Keys : table["D"].dels[k] \in {0, MaxDeliveries}
=============================================================================
