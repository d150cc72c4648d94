--------------------------- MODULE MCTransaction ----------------------------
(***************************************************************************)
(* Two files: a and b in the first, c in the second.  The first file is    *)
(* not durable: its own flushes do not fsync.                              *)
(***************************************************************************)
EXTENDS Transaction

CONSTANTS a, b, c, w1, w2

TwoFiles == [k \in {a, b, c} |-> IF k = c THEN 2 ELSE 1]
AcrossFiles == {{a, c}, {b, c}}

\* Two deaths of the process, or two losses of power, so that a replay is
\* itself cut short; or an I/O error, and a loss of power after it.
FaultPlans ==
    {[sets |-> 3, fails |-> 0, kills |-> 2, cuts |-> 0],
     [sets |-> 3, fails |-> 0, kills |-> 0, cuts |-> 2],
     [sets |-> 2, fails |-> 1, kills |-> 0, cuts |-> 1]}
=============================================================================
