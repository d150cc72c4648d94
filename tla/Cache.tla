------------------------------- MODULE Cache -------------------------------
(***************************************************************************)
(* The table cache over one file: the map that holds at most one copy of   *)
(* it, the handles workers hold to copies, the load that fills the map     *)
(* from disk without its lock, the stamps that tell a copy from the files  *)
(* beneath it, and the eviction that writes a copy out and drops it.  On   *)
(* top of it the record write path: a condition checked and a record put   *)
(* in one critical section of the copy the worker was handed.              *)
(*                                                                         *)
(* Other files of the database are present only as the pressure that makes *)
(* a worker loading one of them evict this file.  A flush is one step: how *)
(* it fails half way is HashFile's subject.                                *)
(***************************************************************************)
EXTENDS Integers, FiniteSets

CONSTANTS
    Workers,       \* connections, each serving one request at a time
    Keys,          \* the record keys
    Values,        \* the record contents; a version token is a content's digest
    Absent,        \* no record under a key
    Copies,        \* names for Table objects in memory
    None,          \* no copy, no handle
    MaxFlushes,    \* bound: writes of the section, by any process
    MaxRequests,   \* bound: requests in a behaviour
    MaxEvictions,  \* bound: evictions of this file
    MaxFails,      \* bound: flushes that meet an I/O error
    MaxForeign     \* bound: writes by another process

Contents == [Keys -> Values \cup {Absent}]
\* Condition, with the version an IfMatch names.
Conditions == [kind : {"Always", "IfAbsent"}, match : {Absent}] \cup [kind : {"IfMatch"}, match : Values]
Stamps == [version : 0..MaxFlushes, time : 0..MaxFlushes]
Requests == [key : Keys, record : Values \cup {Absent}, condition : Conditions]

\* Where a request may be.
Stages == {"idle", "look", "stale", "lookup", "load", "publish", "held", "note", "done"}

ASSUME KeysAssumption == Keys # {}
ASSUME WorkersAssumption == IsFiniteSet(Workers)
ASSUME CopiesAssumption ==
    IsFiniteSet(Copies) /\ Cardinality(Copies) > Cardinality(Workers) /\ None \notin Copies
ASSUME AbsentAssumption == Absent \notin Values
ASSUME BoundsAssumption ==
    /\ MaxFlushes \in Nat /\ MaxRequests \in Nat /\ MaxEvictions \in Nat
    /\ MaxFails \in Nat /\ MaxForeign \in Nat

\* A Table: its records, its dirty keys, the version its data_meta carries and
\* the stamp of the files it was read from or last written to.
Tables == [records : Contents, dirty : SUBSET Keys, version : 0..MaxFlushes, stamp : Stamps]

VARIABLES
    disk,      \* the section: its records, and meta's version and mtime
    map,       \* Database.tables at this file's key
    table,     \* the Table behind each copy; a blank one for a copy not in use
    pc,        \* where each worker's request is
    request,   \* what it asks for
    handle,    \* the TableHandle it holds
    loading,   \* the Table it is reading
    requests, evictions, fails, foreign,  \* history: how often each has happened
    truth,     \* history: what each key last got from a write that was applied
    overwrote, \* history: a condition held of the copy and not of truth
    crossed,   \* history: a copy was published that the disk had moved on from
    dropped    \* history: unwritten records left the cache

historyVars == <<truth, overwrote, crossed, dropped>>
boundVars == <<requests, evictions, fails, foreign>>
workerVars == <<pc, request, handle, loading>>
vars == <<disk, map, table, workerVars, boundVars, historyVars>>

-----------------------------------------------------------------------------

Blank == [records |-> [k \in Keys |-> Absent], dirty |-> {}, version |-> 0,
          stamp |-> [version |-> 0, time |-> 0]]

\* disk_stamp: the version and the modification time of meta.
disk_stamp == [version |-> disk.version, time |-> disk.time]

Dirty(c) == table[c].dirty # {}

\* Neither ours to keep nor what the files now say.
Stale(c) == ~Dirty(c) /\ table[c].stamp # disk_stamp

\* Handles to a copy, the map's own included.
refs(c) == Cardinality({w \in Workers : handle[w] = c}) + (IF map = c THEN 1 ELSE 0)

\* A copy is freed with its last handle.
Kept(t, m, h) == [c \in Copies |-> IF c = m \/ \E w \in Workers : h[w] = c THEN t[c] ELSE Blank]

\* Condition::check against what is stored under the key.
check(condition, existing) ==
    \/ condition.kind = "Always"
    \/ condition.kind = "IfAbsent" /\ existing = Absent
    \/ condition.kind = "IfMatch" /\ existing = condition.match

\* What a reader of the file finds now.
Current(k) == IF map # None THEN table[map].records[k] ELSE disk.records[k]

Init ==
    /\ disk = [records |-> [k \in Keys |-> Absent], version |-> 0, time |-> 0]
    /\ map = None
    /\ table = [c \in Copies |-> Blank]
    /\ pc = [w \in Workers |-> "idle"]
    /\ request \in [Workers -> {CHOOSE r \in Requests : TRUE}]
    /\ handle = [w \in Workers |-> None]
    /\ loading = [w \in Workers |-> Blank]
    /\ requests = 0 /\ evictions = 0 /\ fails = 0 /\ foreign = 0
    /\ truth = [k \in Keys |-> Absent]
    /\ overwrote = FALSE /\ crossed = FALSE /\ dropped = FALSE

Goto(w, next) == pc' = [pc EXCEPT ![w] = next]

-----------------------------------------------------------------------------
(***************************************************************************)
(* resolve_table.                                                          *)
(***************************************************************************)

\* A worker lets go of its handle; a copy is freed with its last one.
Release(w) ==
    /\ handle' = [handle EXCEPT ![w] = None]
    /\ table' = Kept(table, map, handle')

\* A request arrives and looks the file up; the look is itself a handle.
Begin(w, r) ==
    /\ pc[w] = "idle"
    /\ requests < MaxRequests
    /\ requests' = requests + 1
    /\ request' = [request EXCEPT ![w] = r]
    /\ handle' = [handle EXCEPT ![w] = map]
    /\ Goto(w, IF map = None THEN "lookup" ELSE "look")
    /\ UNCHANGED <<disk, map, table, loading, evictions, fails, foreign, historyVars>>

\* The first look at the copy, under its own guard, and the handle dropped.
Look(w) ==
    /\ pc[w] = "look"
    /\ Goto(w, IF Stale(handle[w]) THEN "stale" ELSE "lookup")
    /\ Release(w)
    /\ UNCHANGED <<disk, map, request, loading, boundVars, historyVars>>

\* Mutant of invalidate_if_stale: a copy somebody holds is dropped too.
InvalidateHeld(w) ==
    /\ pc[w] = "stale"
    /\ map' = IF map # None /\ Stale(map) THEN None ELSE map
    /\ table' = Kept(table, map', handle)
    /\ Goto(w, "lookup")
    /\ UNCHANGED <<disk, request, handle, loading, boundVars, historyVars>>

\* The second look, under the map's lock: a copy that others hold stays.
invalidate_if_stale(w) ==
    /\ pc[w] = "stale"
    /\ map' = IF map # None /\ refs(map) = 1 /\ Stale(map) THEN None ELSE map
    /\ table' = Kept(table, map', handle)
    /\ Goto(w, "lookup")
    /\ UNCHANGED <<disk, request, handle, loading, boundVars, historyVars>>

\* A hit takes a handle; a miss takes the stamp and goes to read the files.
Lookup(w) ==
    /\ pc[w] = "lookup"
    /\ IF map # None
       THEN /\ handle' = [handle EXCEPT ![w] = map]
            /\ Goto(w, "held")
            /\ UNCHANGED loading
       ELSE /\ loading' = [loading EXCEPT ![w].stamp = disk_stamp]
            /\ Goto(w, "load")
            /\ UNCHANGED handle
    /\ UNCHANGED <<disk, map, table, request, boundVars, historyVars>>

\* Only then are the files read.
load_table_for_account(w) ==
    /\ pc[w] = "load"
    /\ loading' = [loading EXCEPT ![w].records = disk.records, ![w].version = disk.version]
    /\ Goto(w, "publish")
    /\ UNCHANGED <<disk, map, table, request, handle, boundVars, historyVars>>

\* Mutant of publish: the loader that finishes last replaces the first one's.
PublishOver(w) ==
    /\ pc[w] = "publish"
    /\ \E c \in Copies :
          /\ refs(c) = 0
          /\ map' = c
          /\ handle' = [handle EXCEPT ![w] = c]
          /\ table' = Kept([table EXCEPT ![c] = loading[w]], c, handle')
    /\ loading' = [loading EXCEPT ![w] = Blank]
    /\ crossed' = (crossed \/ loading[w].stamp # disk_stamp)
    /\ Goto(w, "held")
    /\ UNCHANGED <<disk, request, boundVars, truth, overwrote, dropped>>

\* The entry API: a copy already in the map wins, and this one is discarded.
publish(w) ==
    /\ pc[w] = "publish"
    /\ IF map # None
       THEN /\ handle' = [handle EXCEPT ![w] = map]
            /\ UNCHANGED <<map, table, crossed>>
       ELSE LET c == CHOOSE c \in Copies : refs(c) = 0
            IN /\ map' = c
               /\ handle' = [handle EXCEPT ![w] = c]
               /\ table' = [table EXCEPT ![c] = loading[w]]
               /\ crossed' = (crossed \/ loading[w].stamp # disk_stamp)
    /\ loading' = [loading EXCEPT ![w] = Blank]
    /\ Goto(w, "held")
    /\ UNCHANGED <<disk, request, boundVars, truth, overwrote, dropped>>

-----------------------------------------------------------------------------
(***************************************************************************)
(* write_record_in and delete_record_in: the condition and the change in   *)
(* one guard.                                                              *)
(***************************************************************************)

\* insert_record, or remove_record when what is put is Absent.
Put(t, k, record) == [t EXCEPT !.records = [@ EXCEPT ![k] = record], !.dirty = @ \cup {k}]

\* Mutant of apply: an absent record meets any condition.
ApplyToAbsent(w) ==
    LET r == request[w]
        c == handle[w]
    IN /\ pc[w] = "held"
       /\ check(r.condition, table[c].records[r.key]) \/ table[c].records[r.key] = Absent
       /\ table' = [table EXCEPT ![c] = Put(@, r.key, r.record)]
       /\ truth' = [truth EXCEPT ![r.key] = r.record]
       /\ overwrote' = (overwrote \/ ~check(r.condition, truth[r.key]))
       /\ Goto(w, "note")
       /\ UNCHANGED <<disk, map, request, handle, loading, boundVars, crossed, dropped>>

\* The condition holds of the copy, and the record goes under the key.
apply(w) ==
    LET r == request[w]
        c == handle[w]
    IN /\ pc[w] = "held"
       /\ check(r.condition, table[c].records[r.key])
       /\ table' = [table EXCEPT ![c] = Put(@, r.key, r.record)]
       /\ truth' = [truth EXCEPT ![r.key] = r.record]
       /\ overwrote' = (overwrote \/ ~check(r.condition, truth[r.key]))
       /\ Goto(w, "note")
       /\ UNCHANGED <<disk, map, request, handle, loading, boundVars, crossed, dropped>>

write_record_in(w) == request[w].record # Absent /\ apply(w)

delete_record_in(w) == request[w].record = Absent /\ apply(w)

\* The condition does not hold: PreconditionFailed, and nothing else.
Refuse(w) ==
    /\ pc[w] = "held"
    /\ ~check(request[w].condition, table[handle[w]].records[request[w].key])
    /\ Release(w)
    /\ Goto(w, "idle")
    /\ UNCHANGED <<disk, map, request, loading, boundVars, historyVars>>

\* What a flush of a copy leaves on disk: its dirty keys merged into the
\* groups, or every group when the modulus changes.
Written(c, full) ==
    [records |-> [k \in Keys |-> IF full \/ k \in table[c].dirty THEN table[c].records[k]
                                                                 ELSE disk.records[k]],
     version |-> table[c].version + 1, time |-> disk.time + 1]

\* The Table after it.
Flushed(t, now) ==
    [t EXCEPT !.dirty = {}, !.version = @ + 1, !.stamp = [version |-> t.version + 1, time |-> now]]

\* flush_handle, and the stamp taken under the guard that did the writing.
Flush(c, full) ==
    /\ Dirty(c)
    /\ disk.time < MaxFlushes
    /\ table[c].version < MaxFlushes
    /\ disk' = Written(c, full)
    /\ table' = [table EXCEPT ![c] = Flushed(@, disk.time + 1)]

\* note_write_for when the file's batch is full, or the file durable: the file
\* is found in the map again and flushed.
FlushNow(w, full) ==
    /\ pc[w] = "note"
    /\ map # None
    /\ Flush(map, full)
    /\ Goto(w, "done")
    /\ UNCHANGED <<map, request, handle, loading, boundVars, historyVars>>

\* The flush that fails leaves the write in memory, dirty, and is reported.
FlushFails(w) ==
    /\ pc[w] = "note"
    /\ fails < MaxFails
    /\ fails' = fails + 1
    /\ Goto(w, "done")
    /\ UNCHANGED <<disk, map, table, request, handle, loading, requests, evictions, foreign, historyVars>>

\* The write is not due for a flush, or another's flush took it along.
NoFlush(w) ==
    /\ pc[w] = "note"
    /\ Goto(w, "done")
    /\ UNCHANGED <<disk, map, table, request, handle, loading, boundVars, historyVars>>

Done(w) ==
    /\ pc[w] = "done"
    /\ Release(w)
    /\ Goto(w, "idle")
    /\ UNCHANGED <<disk, map, request, loading, boundVars, historyVars>>

\* The ticker, and any other command's save(): every dirty copy of the map.
save(full) ==
    /\ map # None
    /\ Flush(map, full)
    /\ UNCHANGED <<map, workerVars, boundVars, historyVars>>

-----------------------------------------------------------------------------

\* Mutant of evict_if_over_budget: the coldest copy is dropped unwritten.
EvictUnflushed(full) ==
    /\ map # None
    /\ refs(map) = 1
    /\ evictions < MaxEvictions
    /\ evictions' = evictions + 1
    /\ map' = None
    /\ table' = Kept(table, None, handle)
    /\ UNCHANGED <<disk, workerVars, requests, fails, foreign, historyVars>>

\* A worker that has loaded another file finds the cache over budget and this
\* file the coldest nobody holds: it is written out, under the map's lock, and
\* dropped.
evict_if_over_budget(full) ==
    /\ map # None
    /\ refs(map) = 1
    /\ evictions < MaxEvictions
    /\ evictions' = evictions + 1
    /\ IF Dirty(map)
       THEN /\ disk.time < MaxFlushes
            /\ table[map].version < MaxFlushes
            /\ disk' = Written(map, full)
       ELSE disk' = disk
    /\ map' = None
    /\ table' = Kept(table, None, handle)
    /\ UNCHANGED <<workerVars, requests, fails, foreign, historyVars>>

\* The result of that flush is not looked at.
EvictUnwritten ==
    /\ map # None
    /\ refs(map) = 1
    /\ Dirty(map)
    /\ evictions < MaxEvictions
    /\ evictions' = evictions + 1
    /\ fails < MaxFails
    /\ fails' = fails + 1
    /\ map' = None
    /\ table' = Kept(table, None, handle)
    /\ dropped' = TRUE
    /\ UNCHANGED <<disk, workerVars, requests, foreign, truth, overwrote, crossed>>

\* Another process, a local CLI beside the server, writes the same file.
ForeignWrite(k, v) ==
    /\ foreign < MaxForeign
    /\ foreign' = foreign + 1
    /\ disk.time < MaxFlushes
    /\ disk.version < MaxFlushes
    /\ disk' = [records |-> [disk.records EXCEPT ![k] = v],
                version |-> disk.version + 1, time |-> disk.time + 1]
    /\ UNCHANGED <<map, table, workerVars, requests, evictions, fails, historyVars>>

Next ==
    \/ \E w \in Workers :
          \/ \E r \in Requests : Begin(w, r)
          \/ Look(w)
          \/ invalidate_if_stale(w)
          \/ Lookup(w)
          \/ load_table_for_account(w)
          \/ publish(w)
          \/ write_record_in(w)
          \/ delete_record_in(w)
          \/ Refuse(w)
          \/ \E full \in BOOLEAN : FlushNow(w, full)
          \/ FlushFails(w)
          \/ NoFlush(w)
          \/ Done(w)
    \/ \E full \in BOOLEAN : save(full) \/ evict_if_over_budget(full)
    \/ EvictUnwritten
    \/ \E k \in Keys, v \in Values : ForeignWrite(k, v)

Spec == Init /\ [][Next]_vars

-----------------------------------------------------------------------------

\* Every variable holds a value of its kind.
TypeOK ==
    /\ disk \in [records : Contents, version : 0..MaxFlushes, time : 0..MaxFlushes]
    /\ map \in Copies \cup {None}
    /\ table \in [Copies -> Tables]
    /\ pc \in [Workers -> Stages]
    /\ request \in [Workers -> Requests]
    /\ handle \in [Workers -> Copies \cup {None}]
    /\ loading \in [Workers -> Tables]
    /\ requests \in 0..MaxRequests /\ evictions \in 0..MaxEvictions
    /\ fails \in 0..MaxFails /\ foreign \in 0..MaxForeign
    /\ truth \in Contents
    /\ overwrote \in BOOLEAN /\ crossed \in BOOLEAN /\ dropped \in BOOLEAN

\* There is never a second copy of a file for two workers to write over each
\* other through: every handle in use is to the copy in the map, whatever
\* loads, evictions, invalidations and foreign writes have crossed
\* (invalidate_if_stale's and evict_if_over_budget's reference counts).
OneCopy == \A w \in Workers : handle[w] # None => handle[w] = map

\* Nothing unusual has happened to the file.
Undisturbed == ~crossed /\ ~dropped /\ foreign = 0

\* The file is what the writes applied to it say, and what is not yet on disk
\* is dirty in the cache: no eviction, reload or flush between requests loses
\* an applied write or brings an older record back.
NothingForgotten ==
    Undisturbed =>
        \A k \in Keys :
            /\ Current(k) = truth[k]
            /\ disk.records[k] = truth[k] \/ (map # None /\ k \in table[map].dirty)

\* A conditional write is applied only to the record its condition names: no
\* write applied before it is overwritten unseen, while no copy is published
\* that the disk had moved on from, and no failed eviction has thrown unwritten
\* records away.
ConditionsHold == Undisturbed => ~overwrote

-----------------------------------------------------------------------------

\* The cache as its clients see it.
Phase == [w \in Workers |-> IF pc[w] = "idle" THEN "answered"
                            ELSE IF pc[w] \in {"note", "done"} THEN "applied" ELSE "asked"]

Store == INSTANCE RecordStore WITH
    Records <- Values \cup {Absent},
    Allows <- check,
    file <- [k \in Keys |-> Current(k)],
    asked <- request,
    phase <- Phase,
    sound <- Undisturbed

\* Whatever copies come and go beneath them, the workers' requests take effect
\* one at a time on a single file: look, load, flush, eviction and invalidation
\* are invisible, unless the file is written from outside, a copy is published
\* that the disk had moved on from or an eviction fails.
ActsAsOneFile == Store!StoreSpec

=============================================================================
