---------------------------- MODULE Transaction -----------------------------
(***************************************************************************)
(* TRANSACT: sets of changes to the records of several files, applied      *)
(* under every file's lock, written through an intent that the next open   *)
(* replays.                                                                *)
(*                                                                         *)
(* What a record holds is the number of the change set that left it so: a  *)
(* write and a delete are alike.  A set that stage refuses changes nothing *)
(* and is not a behaviour here; a set is a set of keys, so none of its     *)
(* targets is changed twice.  A file is one group per record.  A name of   *)
(* an intent is its number: they sort in the order they were given.        *)
(***************************************************************************)
EXTENDS Integers, FiniteSets

CONSTANTS
    Workers,     \* connections that run transactions
    Files,       \* the files, as their places in name order
    Keys,        \* the records
    FileOf,      \* the file of each record
    Durable,     \* the files whose own flush fsyncs
    ChangeSets,  \* the sets of records transactions change
    MaxSets,     \* bound: transactions and plain writes in a behaviour
    MaxWrites,   \* bound: plain writes in a behaviour
    Plans        \* bounds: how many change sets, I/O errors, deaths of the
                 \* process and losses of power a behaviour has, one of these

Opener == "open"  \* the thread that opens the database

ASSUME FilesAssumption ==
    /\ Files \subseteq Nat /\ IsFiniteSet(Files)
    /\ FileOf \in [Keys -> Files]
    /\ Durable \subseteq Files
ASSUME ChangeSetsAssumption == ChangeSets \subseteq (SUBSET Keys) \ {{}}
ASSUME OpenerAssumption == Opener \notin Workers
ASSUME BoundsAssumption ==
    /\ MaxSets \in Nat /\ MaxWrites \in Nat
    /\ Plans \subseteq [sets : 0..MaxSets, fails : Nat, kills : Nat, cuts : Nat]

VARIABLES
    mem,     \* each record in the cached tables
    dirty,   \* the records changed since their file was written
    disk,    \* each record in the files as a process sees them
    synced,  \* each record in the files as a power cut leaves them
    log,     \* where each intent is on its way to the log and out of it
    up,      \* whether the database is open
    pc,      \* where each thread's transaction is
    cur,     \* the number of the change set it applies
    held,    \* the files whose guards it holds
    todo,    \* the files it has still to flush
    last,    \* the number of the latest change set
    changes, \* history: the records each change set names
    applied, \* history: the change sets applied
    later,   \* history: the change sets applied since each one was
    acked,   \* history: the transactions that have returned
    writes,  \* history: the plain writes so far
    plan     \* the change sets there may be, and the faults still to come

dataVars == <<mem, dirty, disk, synced>>
threadVars == <<pc, cur, held, todo>>
setVars == <<last, changes, applied, later, acked>>
vars == <<dataVars, log, up, threadVars, setVars, writes, plan>>

Threads == Workers \cup {Opener}
Sets == 1..MaxSets
Labels == {"idle", "create", "sync", "lock", "flush", "remove", "settle"}

\* An intent that has a name in the log, and one that may have one after a
\* power cut: its rename or its removal is not yet in the directory on disk.
Pending == {t \in Sets : log[t] \in {"named", "fsynced"}}
Unsure == {t \in Sets : log[t] \in {"named", "removed"}}

FilesOf(S) == {FileOf[k] : k \in S}
Least(S) == CHOOSE x \in S : \A y \in S : x <= y
Free(f) == \A p \in Threads : f \notin held[p]

Init ==
    /\ mem = [k \in Keys |-> 0] /\ disk = mem /\ synced = mem
    /\ dirty = {}
    /\ log = [t \in Sets |-> "none"]
    /\ up = TRUE
    /\ pc = [p \in Threads |-> "idle"]
    /\ cur = [p \in Threads |-> 0]
    /\ held = [p \in Threads |-> {}]
    /\ todo = [p \in Threads |-> {}]
    /\ last = 0
    /\ changes = [t \in Sets |-> {}]
    /\ applied = {}
    /\ later = [t \in Sets |-> {}]
    /\ acked = {}
    /\ writes = 0
    /\ plan \in Plans

-----------------------------------------------------------------------------

\* Change set t, of the records S, is in memory.
Applied(t, S) ==
    /\ mem' = [k \in Keys |-> IF k \in S THEN t ELSE mem[k]]
    /\ dirty' = dirty \cup S
    /\ applied' = applied \cup {t}
    /\ later' = [s \in Sets |-> IF s = t THEN {}
                                ELSE IF s \in applied THEN later[s] \cup {t} ELSE later[s]]

Numbered(S) ==
    /\ last < plan.sets
    /\ last' = last + 1
    /\ changes' = [changes EXCEPT ![last + 1] = S]

\* A WRITE or DELETE of one record, under its file's guard.
Write(k) ==
    /\ up /\ Free(FileOf[k])
    /\ writes < MaxWrites
    /\ writes' = writes + 1
    /\ Numbered({k})
    /\ Applied(last + 1, {k})
    /\ UNCHANGED <<disk, synced, log, up, threadVars, acked, plan>>

\* flush_locked: the dirty records of f are written, and fsynced or not.
Written(f, fsync) ==
    LET ks == {k \in dirty : FileOf[k] = f}
    IN /\ disk' = [k \in Keys |-> IF k \in ks THEN mem[k] ELSE disk[k]]
       /\ synced' = [k \in Keys |-> IF k \in ks /\ fsync THEN mem[k] ELSE synced[k]]
       /\ dirty' = dirty \ ks

\* A flush of one file by the ticker or another command's note_write_for.
flush_handle(f) ==
    /\ up /\ Free(f)
    /\ \E k \in dirty : FileOf[k] = f
    /\ Written(f, f \in Durable)
    /\ UNCHANGED <<mem, log, up, threadVars, setVars, writes, plan>>

-----------------------------------------------------------------------------

Goto(p, label) == pc' = [pc EXCEPT ![p] = label]

\* apply_transaction: staged, and its intent given a name.
apply_transaction(p, S) ==
    /\ up /\ p \in Workers
    /\ pc[p] = "idle"
    /\ Numbered(S)
    /\ cur' = [cur EXCEPT ![p] = last + 1]
    /\ Goto(p, "create")
    /\ UNCHANGED <<dataVars, log, up, held, todo, applied, later, acked, writes, plan>>

\* write_intent up to the rename: the bytes are fsynced under another name.
rename_intent(p) ==
    /\ pc[p] = "create"
    /\ log' = [log EXCEPT ![cur[p]] = "named"]
    /\ Goto(p, "sync")
    /\ UNCHANGED <<dataVars, up, cur, held, todo, setVars, writes, plan>>

\* Mutant of write_intent: the log directory is not fsynced.
WriteIntentUnsynced(p) ==
    /\ pc[p] = "sync"
    /\ Goto(p, "lock")
    /\ UNCHANGED <<dataVars, log, up, cur, held, todo, setVars, writes, plan>>

\* The rest of write_intent: the log directory is fsynced.
write_intent(p) ==
    /\ pc[p] = "sync"
    /\ log' = [log EXCEPT ![cur[p]] = "fsynced"]
    /\ Goto(p, "lock")
    /\ UNCHANGED <<dataVars, up, cur, held, todo, setVars, writes, plan>>

\* Mutant of Lock: the guards are taken in no particular order.
LockAnyOrder(p) ==
    /\ pc[p] = "lock"
    /\ \E f \in FilesOf(changes[cur[p]]) \ held[p] :
          /\ Free(f)
          /\ held' = [held EXCEPT ![p] = @ \cup {f}]
    /\ UNCHANGED <<dataVars, log, up, pc, cur, todo, setVars, writes, plan>>

\* apply_staged takes the guards one at a time, in name order.
Lock(p) ==
    LET wanted == FilesOf(changes[cur[p]]) \ held[p]
        f == Least(wanted)
    IN /\ pc[p] = "lock"
       /\ wanted # {}
       /\ Free(f)
       /\ held' = [held EXCEPT ![p] = @ \cup {f}]
       /\ UNCHANGED <<dataVars, log, up, pc, cur, todo, setVars, writes, plan>>

\* With every guard held, the whole set is applied.
apply_staged(p) ==
    LET S == changes[cur[p]]
    IN /\ pc[p] = "lock"
       /\ FilesOf(S) \subseteq held[p]
       /\ Applied(cur[p], S)
       /\ todo' = [todo EXCEPT ![p] = FilesOf(S)]
       /\ Goto(p, "flush")
       /\ UNCHANGED <<disk, synced, log, up, cur, held, last, changes, acked, writes, plan>>

\* Mutant of flush_locked: each file is flushed under its own policy.
FlushOwnPolicy(p) ==
    LET f == Least(todo[p])
        end == todo[p] = {f}
    IN /\ pc[p] = "flush"
       /\ Written(f, f \in Durable)
       /\ todo' = [todo EXCEPT ![p] = @ \ {f}]
       /\ held' = [held EXCEPT ![p] = IF end THEN {} ELSE @]
       /\ IF end THEN Goto(p, "remove") ELSE UNCHANGED pc
       /\ UNCHANGED <<mem, log, up, cur, setVars, writes, plan>>

\* Its files are flushed with FsyncPolicy::Always; the guards go with the last.
flush_locked(p) ==
    LET f == Least(todo[p])
        end == todo[p] = {f}
    IN /\ pc[p] = "flush"
       /\ Written(f, TRUE)
       /\ todo' = [todo EXCEPT ![p] = @ \ {f}]
       /\ held' = [held EXCEPT ![p] = IF end THEN {} ELSE @]
       /\ IF end THEN Goto(p, "remove") ELSE UNCHANGED pc
       /\ UNCHANGED <<mem, log, up, cur, setVars, writes, plan>>

\* remove_intent up to the unlink.
unlink_intent(p) ==
    /\ pc[p] = "remove"
    /\ log' = [log EXCEPT ![cur[p]] = "removed"]
    /\ Goto(p, "settle")
    /\ UNCHANGED <<dataVars, up, cur, held, todo, setVars, writes, plan>>

\* The rest of remove_intent, and the answer.
remove_intent(p) ==
    /\ pc[p] = "settle"
    /\ log' = [log EXCEPT ![cur[p]] = "none"]
    /\ acked' = acked \cup {cur[p]}
    /\ cur' = [cur EXCEPT ![p] = 0]
    /\ Goto(p, "idle")
    /\ UNCHANGED <<dataVars, up, held, todo, last, changes, applied, later, writes, plan>>

\* replay: the oldest intent of the log is applied the way a transaction is.
replay(p) ==
    /\ p = Opener /\ ~up
    /\ pc[p] = "idle"
    /\ Pending # {}
    /\ cur' = [cur EXCEPT ![p] = Least(Pending)]
    /\ Goto(p, "lock")
    /\ UNCHANGED <<dataVars, log, up, held, todo, setVars, writes, plan>>

\* replay_transaction_log has found no more intents.
replay_transaction_log ==
    /\ ~up
    /\ pc[Opener] = "idle"
    /\ Pending = {}
    /\ up' = TRUE
    /\ UNCHANGED <<dataVars, log, threadVars, setVars, writes, plan>>

-----------------------------------------------------------------------------

\* The records a flush that does not finish may have written.
Torn(p) ==
    IF pc[p] # "flush" THEN {}
    ELSE {k \in dirty : FileOf[k] = Least(todo[p])}

\* An I/O error ends the transaction where it stands.  Its guards are released
\* and what it has done, in memory and in the log, is left.  (At open an error
\* refuses to start: a death of the process.)
Fail(p, torn) ==
    /\ p \in Workers
    /\ plan.fails > 0
    /\ plan' = [plan EXCEPT !.fails = @ - 1]
    /\ pc[p] \in {"create", "sync", "flush", "remove", "settle"}
    /\ torn \subseteq Torn(p)
    /\ disk' = [k \in Keys |-> IF k \in torn THEN mem[k] ELSE disk[k]]
    /\ Goto(p, "idle")
    /\ cur' = [cur EXCEPT ![p] = 0]
    /\ held' = [held EXCEPT ![p] = {}]
    /\ todo' = [todo EXCEPT ![p] = {}]
    /\ UNCHANGED <<mem, dirty, synced, log, up, setVars, writes>>

\* The next process starts from the records of a disk and a log.
Restart(d) ==
    /\ mem' = d
    /\ disk' = d
    /\ dirty' = {}
    /\ up' = FALSE
    /\ pc' = [p \in Threads |-> "idle"]
    /\ cur' = [p \in Threads |-> 0]
    /\ held' = [p \in Threads |-> {}]
    /\ todo' = [p \in Threads |-> {}]
    /\ UNCHANGED <<setVars, writes>>

Kill(torn) ==
    /\ plan.kills > 0
    /\ plan' = [plan EXCEPT !.kills = @ - 1]
    /\ torn \subseteq UNION {Torn(p) : p \in Threads}
    /\ Restart([k \in Keys |-> IF k \in torn THEN mem[k] ELSE disk[k]])
    /\ UNCHANGED <<synced, log>>

\* What was not fsynced may have been written out or not, record by record and
\* intent by intent.
PowerCut(torn, lost, names) ==
    LET d == [k \in Keys |-> IF k \in torn THEN mem[k]
                             ELSE IF k \in lost THEN synced[k] ELSE disk[k]]
    IN /\ plan.cuts > 0
       /\ plan' = [plan EXCEPT !.cuts = @ - 1]
       /\ torn \subseteq UNION {Torn(p) : p \in Threads}
       /\ lost \subseteq {k \in Keys : disk[k] # synced[k]}
       /\ names \subseteq Unsure
       /\ Restart(d)
       /\ synced' = d
       /\ log' = [t \in Sets |-> IF t \in names THEN "fsynced"
                                 ELSE IF t \in Unsure THEN "none" ELSE log[t]]

Step(p) ==
    \/ rename_intent(p) \/ write_intent(p) \/ Lock(p) \/ apply_staged(p)
    \/ flush_locked(p) \/ unlink_intent(p) \/ remove_intent(p) \/ replay(p)

\* Every bound is reached and every thread is done.
Finished ==
    /\ up /\ last = plan.sets /\ dirty = {}
    /\ \A p \in Threads : pc[p] = "idle"
    /\ UNCHANGED vars

Next ==
    \/ \E k \in Keys : Write(k)
    \/ \E f \in Files : flush_handle(f)
    \/ \E p \in Workers, S \in ChangeSets : apply_transaction(p, S)
    \/ \E p \in Threads : Step(p)
    \/ replay_transaction_log
    \/ \E p \in Workers, torn \in SUBSET Keys : Fail(p, torn)
    \/ \E torn \in SUBSET Keys : Kill(torn)
    \/ \E torn, lost \in SUBSET Keys, names \in SUBSET Sets : PowerCut(torn, lost, names)
    \/ Finished

Spec == Init /\ [][Next]_vars

\* A thread that can take a step of its transaction takes one: the locks are
\* the only thing it waits for.
FairSpec ==
    /\ Spec
    /\ \A p \in Threads : WF_vars(Step(p))
    /\ WF_vars(replay_transaction_log)

-----------------------------------------------------------------------------

\* Every variable holds a value of its kind.
TypeOK ==
    /\ {mem, disk, synced} \subseteq [Keys -> 0..MaxSets]
    /\ dirty \subseteq Keys
    /\ log \in [Sets -> {"none", "named", "fsynced", "removed"}]
    /\ up \in BOOLEAN
    /\ pc \in [Threads -> Labels]
    /\ cur \in [Threads -> 0..MaxSets]
    /\ held \in [Threads -> SUBSET Files]
    /\ todo \in [Threads -> SUBSET Files]
    /\ last \in 0..MaxSets
    /\ changes \in [Sets -> SUBSET Keys]
    /\ applied \subseteq Sets /\ acked \subseteq Sets
    /\ later \in [Sets -> SUBSET Sets]
    /\ writes \in 0..MaxWrites
    /\ plan \in [sets : 0..MaxSets, fails : Nat, kills : Nat, cuts : Nat]

\* Record k holds transaction t's change or a later one; a replay is later
\* than everything before it.
Stands(t, k) == mem[k] \in {t} \cup later[t]

\* However the process has died, the database that is open has all of a
\* transaction or nothing of it.
AllOrNothing ==
    up => \A t \in applied : (\E j \in changes[t] : mem[j] = t) =>
                                  \A k \in changes[t] : Stands(t, k)

\* A transaction that has returned is there, whatever the crashes since.
Committed ==
    up => \A t \in acked : \A k \in changes[t] : Stands(t, k)

\* Every transaction ends, whatever files the others lock, and every open does.
Finishes ==
    /\ \A p \in Threads : []<>(pc[p] = "idle")
    /\ []<>up
=============================================================================
