------------------------------ MODULE MCServer ------------------------------
(***************************************************************************)
(* An instance of Server for TLC: two connections and as many slots.  One  *)
(* client moves bodies, lets its lines go wrong and feeds the queue; the   *)
(* other waits for what is in it, and may be deauthorized meanwhile.       *)
(***************************************************************************)
EXTENDS Server, TLC

CONSTANTS c1, c2

MCLines ==
    c1 :> {Request("not JSON", NoLength, TRUE), Request("endless", NoLength, TRUE),
           Request("ENQUEUE", NoLength, TRUE),
           Request("PUT.BYTES", 2, TRUE), Request("PUT.BYTES", 1, FALSE),
           Request("PUT.BYTES", NoLength, TRUE),
           Request("IMPORT.BYTES", 1, TRUE), Request("IMPORT.BYTES", 3, TRUE),
           Request("EXPORT.BYTES", NoLength, TRUE), Request("GET.BYTES", NoLength, FALSE)}
    @@ c2 :> {Request("DEQUEUE", NoLength, TRUE)}

=============================================================================
