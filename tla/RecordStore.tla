---------------------------- MODULE RecordStore ----------------------------
(***************************************************************************)
(* What the clients of one file are promised: a request to change a record *)
(* takes effect at one instant between being asked and being answered, and *)
(* its condition is judged by the file as everybody sees it at that        *)
(* instant.  Nothing else changes the file, until something outside the    *)
(* requests has disturbed it.                                              *)
(*                                                                         *)
(* There are no copies, loads, flushes or evictions here: the cache over   *)
(* the file's sections implements this.                                    *)
(***************************************************************************)
CONSTANTS
    Workers,   \* connections
    Keys,      \* the record keys
    Records,   \* what may be under one, no record included
    Requests,  \* a key, the record to put there, and the condition on the old one
    Allows(_, _)  \* whether a condition allows a change to what is there

VARIABLES
    file,     \* the record under each key
    asked,    \* what each worker was last asked for
    phase,    \* how far it is with that
    sound     \* whether nothing has disturbed the file

storeVars == <<file, asked, phase, sound>>

StoreInit ==
    /\ file \in [Keys -> Records]
    /\ asked \in [Workers -> Requests]
    /\ phase = [w \in Workers |-> "answered"]
    /\ sound = TRUE

Ask(w) ==
    /\ phase[w] = "answered"
    /\ phase' = [phase EXCEPT ![w] = "asked"]
    /\ \E r \in Requests : asked' = [asked EXCEPT ![w] = r]
    /\ UNCHANGED <<file, sound>>

TakeEffect(w) == LET r == asked[w] IN
    /\ phase[w] = "asked"
    /\ Allows(r.condition, file[r.key])
    /\ file' = [file EXCEPT ![r.key] = r.record]
    /\ phase' = [phase EXCEPT ![w] = "applied"]
    /\ UNCHANGED <<asked, sound>>

Confirm(w) ==
    /\ phase[w] = "applied"
    /\ phase' = [phase EXCEPT ![w] = "answered"]
    /\ UNCHANGED <<file, asked, sound>>

PreconditionFailed(w) == LET r == asked[w] IN
    /\ phase[w] = "asked"
    /\ ~Allows(r.condition, file[r.key])
    /\ phase' = [phase EXCEPT ![w] = "answered"]
    /\ UNCHANGED <<file, asked, sound>>

\* Another process writes the file, or one of its records is lost or reread.
Disturbed ==
    /\ sound' = FALSE
    /\ file' \in [Keys -> Records]
    /\ UNCHANGED <<asked, phase>>

StoreNext ==
    \/ \E w \in Workers : Ask(w) \/ TakeEffect(w) \/ Confirm(w) \/ PreconditionFailed(w)
    \/ Disturbed

StoreSpec == StoreInit /\ [][StoreNext]_storeVars
=============================================================================
