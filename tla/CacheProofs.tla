---------------------------- MODULE CacheProofs ----------------------------
(***************************************************************************)
(* Proofs, for any number of workers, keys and copies, that a file has one *)
(* copy in use at a time, and that a file no stale load or failed eviction *)
(* has touched holds every applied write and refuses every stale one; and  *)
(* that the cache implements RecordStore.                                  *)
(***************************************************************************)
EXTENDS Cache, FiniteSetTheorems, TLAPS

\* A worker past its lookup has a handle.
HandleInv == \A w \in Workers : pc[w] \in {"look", "held", "note", "done"} => handle[w] # None

\* A stamp is never ahead of the disk, and a copy read under a stamp that is
\* still the disk's holds what the disk holds: what makes a publish harmless.
LoadInv ==
    \A w \in Workers :
        /\ pc[w] \in {"load", "publish"} => loading[w].stamp.time <= disk.time
        /\ pc[w] = "publish" /\ loading[w].stamp = disk_stamp => loading[w].records = disk.records

IInv == TypeOK /\ OneCopy /\ HandleInv /\ LoadInv /\ NothingForgotten /\ ConditionsHold

-----------------------------------------------------------------------------

\* A copy with no handle but the map's is held by no worker.
LEMMA UnheldFacts ==
    ASSUME map # None, refs(map) = 1
    PROVE  \A w \in Workers : handle[w] # map
<1> DEFINE H == {w \in Workers : handle[w] = map}
<1>1. IsFiniteSet(H)
    BY WorkersAssumption, FS_Subset, H \subseteq Workers
<1>2. Cardinality(H) \in Nat
    BY <1>1, FS_CardinalityType
<1>3. Cardinality(H) + 1 = 1
    BY DEF refs
<1>4. Cardinality(H) = 0
    BY <1>2, <1>3
<1>5. H = {}
    BY <1>1, <1>4, FS_EmptySet
<1> QED
    BY <1>5

\* A name for a new copy can be found when the map is empty.
LEMMA FreshFacts ==
    ASSUME OneCopy, map = None
    PROVE  /\ (CHOOSE c \in Copies : refs(c) = 0) \in Copies
           /\ (CHOOSE c \in Copies : refs(c) = 0) # None
<1>1. Cardinality(Workers) \in Nat
    BY WorkersAssumption, FS_CardinalityType
<1>2. Copies # {}
    <2>1. CASE Copies = {}
        <3>1. Cardinality(Copies) = 0
            BY <2>1, FS_EmptySet
        <3> QED
            BY <3>1, <1>1, CopiesAssumption
    <2> QED
        BY <2>1
<1>3. PICK c \in Copies : TRUE
    BY <1>2
<1>4. c # None
    BY CopiesAssumption
<1>5. {w \in Workers : handle[w] = c} = {}
    BY <1>4 DEF OneCopy
<1>6. Cardinality({w \in Workers : handle[w] = c}) = 0
    BY <1>5, FS_EmptySet
<1>7. refs(c) = 0
    BY <1>4, <1>6 DEF refs
<1> QED
    BY <1>7, CopiesAssumption

\* Putting a record makes its key dirty and leaves the other keys alone.
LEMMA PutFacts ==
    ASSUME NEW t \in Tables, NEW k \in Keys, NEW v \in Values \cup {Absent}
    PROVE  /\ Put(t, k, v) \in Tables
           /\ Put(t, k, v).records = [t.records EXCEPT ![k] = v]
           /\ Put(t, k, v).dirty = t.dirty \cup {k}
BY DEF Put, Tables, Contents

\* A copy may be given any stamp.
LEMMA StampedFacts ==
    ASSUME NEW t \in Tables, NEW d \in Stamps
    PROVE  [t EXCEPT !.stamp = d] \in Tables /\ [t EXCEPT !.stamp = d].stamp = d
BY DEF Tables

\* A flushed copy keeps its records, is clean, and bears the stamp of the write.
LEMMA FlushedFacts ==
    ASSUME NEW t \in Tables, t.version < MaxFlushes, NEW now \in 0..MaxFlushes
    PROVE  /\ Flushed(t, now) \in Tables
           /\ Flushed(t, now).records = t.records
           /\ Flushed(t, now).dirty = {}
<1> DEFINE st == [version |-> t.version + 1, time |-> now]
<1>1. t.version + 1 \in 0..MaxFlushes
    BY BoundsAssumption DEF Tables
<1>2. st \in Stamps
    BY <1>1 DEF Stamps
<1>3. Flushed(t, now) = [t EXCEPT !.dirty = {}, !.version = t.version + 1, !.stamp = st]
    BY DEF Flushed
<1> HIDE DEF st
<1> QED
    BY <1>1, <1>2, <1>3 DEF Tables

\* What a flush leaves on disk is a section, one version and one instant on.
LEMMA WrittenFacts ==
    ASSUME TypeOK, NEW c \in Copies, NEW full \in BOOLEAN,
           disk.time < MaxFlushes, table[c].version < MaxFlushes
    PROVE  /\ Written(c, full) \in [records : Contents, version : 0..MaxFlushes, time : 0..MaxFlushes]
           /\ Written(c, full).time = disk.time + 1
           /\ \A k \in Keys : Written(c, full).records[k] =
                 IF full \/ k \in table[c].dirty THEN table[c].records[k] ELSE disk.records[k]
BY BoundsAssumption DEF Written, TypeOK, Tables, Contents

\* Freeing copies leaves the ones in use.
LEMMA KeptFacts ==
    ASSUME TypeOK, NEW m, NEW h
    PROVE  /\ Kept(table, m, h) \in [Copies -> Tables]
           /\ m \in Copies => Kept(table, m, h)[m] = table[m]
<1>1. Blank \in Tables
    BY BoundsAssumption DEF Blank, Tables, Contents, Stamps
<1> QED
    BY <1>1 DEF Kept, TypeOK

-----------------------------------------------------------------------------
(***************************************************************************)
(* Induction.                                                              *)
(***************************************************************************)

\* The file starts empty and unread.
LEMMA InitInv == Init => IInv
<1> SUFFICES ASSUME Init PROVE IInv
    OBVIOUS
<1> USE DEF Init
<1>1. Blank \in Tables /\ Blank.records = [k \in Keys |-> Absent]
    BY BoundsAssumption DEF Blank, Tables, Contents, Stamps
<1>2. Requests # {}
    <2>1. PICK k \in Keys : TRUE
        BY KeysAssumption
    <2>2. [key |-> k, record |-> Absent, condition |-> [kind |-> "Always", match |-> Absent]] \in Requests
        BY DEF Requests, Conditions
    <2> QED
        BY <2>2
<1>3. (CHOOSE r \in Requests : TRUE) \in Requests
    BY <1>2
<1>4. disk \in [records : Contents, version : 0..MaxFlushes, time : 0..MaxFlushes]
    BY BoundsAssumption DEF Contents
<1>5. TypeOK
    <2>1. request \in [Workers -> Requests]
        BY <1>3
    <2>2. table \in [Copies -> Tables] /\ loading \in [Workers -> Tables]
        BY <1>1
    <2>3. pc \in [Workers -> Stages]
        BY DEF Stages
    <2>4. truth \in Contents
        BY DEF Contents
    <2>5. handle \in [Workers -> Copies \cup {None}]
        OBVIOUS
    <2>6. /\ requests \in 0..MaxRequests /\ evictions \in 0..MaxEvictions
          /\ fails \in 0..MaxFails /\ foreign \in 0..MaxForeign
        BY BoundsAssumption
    <2>7. map \in Copies \cup {None} /\ overwrote \in BOOLEAN /\ crossed \in BOOLEAN /\ dropped \in BOOLEAN
        OBVIOUS
    <2> HIDE DEF Init
    <2> QED
        BY <1>4, <2>1, <2>2, <2>3, <2>4, <2>5, <2>6, <2>7 DEF TypeOK
<1>6. OneCopy /\ HandleInv /\ LoadInv
    BY DEF OneCopy, HandleInv, LoadInv
<1>7. NothingForgotten /\ ConditionsHold
    BY DEF NothingForgotten, ConditionsHold, Current
<1> QED
    BY <1>5, <1>6, <1>7 DEF IInv

\* Steps that touch neither disk, copies nor truth, and give no worker a handle
\* but the map's.
LEMMA QuietStep ==
    ASSUME IInv, TypeOK', LoadInv', HandleInv',
           UNCHANGED <<disk, map, truth, overwrote, crossed, dropped, foreign>>,
           map # None => table'[map] = table[map],
           \A w \in Workers : handle'[w] \in {None, map, handle[w]}
    PROVE  IInv'
<1>1. OneCopy'
    BY DEF IInv, OneCopy
<1>2. NothingForgotten'
    BY DEF IInv, NothingForgotten, Current, Undisturbed
<1>3. ConditionsHold'
    BY DEF IInv, ConditionsHold, Undisturbed
<1> QED
    BY <1>1, <1>2, <1>3 DEF IInv

\* A flush of the map's copy writes what the applied writes say.
LEMMA FlushStep ==
    ASSUME IInv, NEW full \in BOOLEAN, map # None, Flush(map, full),
           UNCHANGED <<map, request, handle, loading, boundVars, historyVars>>,
           pc' \in [Workers -> Stages],
           \A w \in Workers : pc'[w] = pc[w] \/ (pc[w] = "note" /\ pc'[w] = "done")
    PROVE  IInv'
<1> USE DEF Flush, IInv, boundVars, historyVars
<1>0. map \in Copies
    BY DEF TypeOK
<1>1. /\ disk' \in [records : Contents, version : 0..MaxFlushes, time : 0..MaxFlushes]
      /\ disk'.time = disk.time + 1
      /\ \A k \in Keys : disk'.records[k] =
            IF full \/ k \in table[map].dirty THEN table[map].records[k] ELSE disk.records[k]
    BY <1>0, WrittenFacts
<1>2. disk.time \in Nat /\ disk.time + 1 \in 0..MaxFlushes
    BY BoundsAssumption DEF TypeOK
<1>3. table[map] \in Tables
    BY <1>0 DEF TypeOK
<1>4. /\ Flushed(table[map], disk.time + 1) \in Tables
      /\ Flushed(table[map], disk.time + 1).records = table[map].records
      /\ Flushed(table[map], disk.time + 1).dirty = {}
    BY <1>2, <1>3, FlushedFacts
<1>5. /\ table' \in [Copies -> Tables]
      /\ table'[map].records = table[map].records
      /\ table'[map].dirty = {}
    BY <1>0, <1>4 DEF TypeOK
<1>6. TypeOK'
    BY <1>1, <1>5 DEF TypeOK
<1>7. OneCopy' /\ HandleInv'
    BY DEF OneCopy, HandleInv
<1>8. LoadInv'
    <2>1. \A w \in Workers : loading[w].stamp.time \in Nat
        BY BoundsAssumption DEF TypeOK, Tables, Stamps
    <2> QED
        BY <1>1, <1>2, <2>1 DEF LoadInv, disk_stamp
<1>9. NothingForgotten'
    BY <1>1, <1>5 DEF NothingForgotten, Current, Undisturbed
<1>10. ConditionsHold'
    BY DEF ConditionsHold, Undisturbed
<1> QED
    BY <1>6, <1>7, <1>8, <1>9, <1>10

\* A copy leaves the map: every handle was the map's own, and what it held is
\* on disk, or it is known to be dropped.
LEMMA DropStep ==
    ASSUME IInv, TypeOK', LoadInv', HandleInv', map # None, refs(map) = 1, map' = None,
           UNCHANGED <<handle, truth, overwrote, crossed, foreign>>, dropped => dropped',
           ~dropped' => \A k \in Keys : Undisturbed => disk'.records[k] = truth[k]
    PROVE  IInv'
<1>1. OneCopy'
    BY UnheldFacts DEF IInv, OneCopy
<1>2. NothingForgotten'
    BY DEF IInv, TypeOK, NothingForgotten, Current, Undisturbed
<1>3. ConditionsHold'
    BY DEF IInv, TypeOK, ConditionsHold, Undisturbed
<1> QED
    BY <1>1, <1>2, <1>3 DEF IInv

\* A new copy under a handle of the map's: nothing was crossed, so it is truth.
LEMMA PublishInv ==
    ASSUME IInv, NEW w \in Workers, publish(w)
    PROVE  IInv'
<1> USE DEF IInv, publish, Goto, boundVars
<1>1. CASE map # None
    <2>1. TypeOK'
        <3>1. Blank \in Tables
            BY BoundsAssumption DEF Blank, Tables, Contents, Stamps
        <3> QED
            BY <1>1, <3>1 DEF TypeOK, Stages
    <2>2. LoadInv' /\ HandleInv'
        BY <1>1 DEF TypeOK, LoadInv, HandleInv, disk_stamp
    <2> QED
        BY <1>1, <2>1, <2>2, QuietStep DEF TypeOK
<1>2. CASE map = None
    <2> DEFINE c == CHOOSE c \in Copies : refs(c) = 0
    <2>1. c \in Copies /\ c # None
        BY <1>2, FreshFacts
    <2>2. /\ map' = c
          /\ handle' = [handle EXCEPT ![w] = c]
          /\ table' = [table EXCEPT ![c] = loading[w]]
          /\ crossed' = (crossed \/ loading[w].stamp # disk_stamp)
        BY <1>2
    <2> HIDE DEF c
    <2>3. TypeOK'
        <3>1. Blank \in Tables
            BY BoundsAssumption DEF Blank, Tables, Contents, Stamps
        <3>2. crossed' \in BOOLEAN
            BY <2>2 DEF TypeOK
        <3>3. table' \in [Copies -> Tables]
            BY <2>1, <2>2 DEF TypeOK
        <3>4. loading' \in [Workers -> Tables]
            BY <3>1 DEF TypeOK
        <3> QED
            BY <2>1, <2>2, <3>2, <3>3, <3>4 DEF TypeOK, Stages
    <2>4. OneCopy' /\ HandleInv' /\ LoadInv'
        BY <1>2, <2>1, <2>2 DEF TypeOK, OneCopy, HandleInv, LoadInv, disk_stamp
    <2>5. table'[c] = loading[w]
        BY <2>1, <2>2 DEF TypeOK
    <2>6. NothingForgotten'
        <3> SUFFICES ASSUME Undisturbed', NEW k \in Keys
                     PROVE  Current(k)' = truth[k] /\ disk.records[k] = truth[k]
            BY DEF NothingForgotten
        <3>1. Undisturbed /\ loading[w].stamp = disk_stamp
            BY <2>2 DEF Undisturbed
        <3>2. loading[w].records = disk.records
            BY <3>1 DEF LoadInv
        <3>3. disk.records[k] = truth[k]
            BY <1>2, <3>1 DEF NothingForgotten
        <3> QED
            BY <2>1, <2>2, <2>5, <3>2, <3>3 DEF Current
    <2>7. ConditionsHold'
        BY <2>2 DEF ConditionsHold, Undisturbed
    <2> QED
        BY <2>3, <2>4, <2>6, <2>7
<1> QED
    BY <1>1, <1>2

\* The condition is checked against the one copy, which is what was applied.
LEMMA ApplyInv ==
    ASSUME IInv, NEW w \in Workers, apply(w)
    PROVE  IInv'
<1> USE DEF IInv
<1> DEFINE r == request[w]
           new == Put(table[map], r.key, r.record)
<1>1. handle[w] = map /\ map \in Copies /\ map # None
    BY CopiesAssumption DEF apply, TypeOK, OneCopy, HandleInv
<1>2. r.key \in Keys /\ r.record \in Values \cup {Absent}
    BY DEF TypeOK, Requests
<1>3. table[map] \in Tables
    BY <1>1 DEF TypeOK
<1>4. /\ new \in Tables
      /\ new.records = [table[map].records EXCEPT ![r.key] = r.record]
      /\ new.dirty = table[map].dirty \cup {r.key}
    BY <1>2, <1>3, PutFacts
<1>5. /\ pc[w] = "held" /\ pc' = [pc EXCEPT ![w] = "note"]
      /\ check(r.condition, table[map].records[r.key])
      /\ table' = [table EXCEPT ![map] = new]
      /\ truth' = [truth EXCEPT ![r.key] = r.record]
      /\ overwrote' = (overwrote \/ ~check(r.condition, truth[r.key]))
      /\ UNCHANGED <<disk, map, request, handle, loading, boundVars, crossed, dropped>>
    BY <1>1 DEF apply, Goto
<1> HIDE DEF new, r
<1>6. table'[map] = new
    BY <1>1, <1>5 DEF TypeOK
<1>7. TypeOK'
    <2>1. table' \in [Copies -> Tables]
        BY <1>1, <1>4, <1>5 DEF TypeOK
    <2>2. truth' \in Contents
        BY <1>2, <1>5 DEF TypeOK, Contents
    <2>3. overwrote' \in BOOLEAN
        BY <1>5 DEF TypeOK, check
    <2> QED
        BY <1>5, <2>1, <2>2, <2>3 DEF TypeOK, Stages, boundVars
<1>8. OneCopy' /\ HandleInv' /\ LoadInv'
    BY <1>5 DEF TypeOK, OneCopy, HandleInv, LoadInv, disk_stamp
<1>9. NothingForgotten'
    <2> SUFFICES ASSUME Undisturbed', NEW k \in Keys
                 PROVE  /\ Current(k)' = truth'[k]
                        /\ disk'.records[k] = truth'[k] \/ (map' # None /\ k \in table'[map'].dirty)
        BY DEF NothingForgotten
    <2>1. Undisturbed
        BY <1>5 DEF Undisturbed, boundVars
    <2>2. /\ table[map].records[k] = truth[k]
          /\ disk.records[k] = truth[k] \/ k \in table[map].dirty
        BY <1>1, <2>1 DEF NothingForgotten, Current
    <2>3. table[map].records \in Contents /\ truth \in Contents
        BY <1>3 DEF TypeOK, Tables
    <2> QED
        BY <1>1, <1>2, <1>4, <1>5, <1>6, <2>2, <2>3 DEF Current, Contents
<1>10. ConditionsHold'
    BY <1>1, <1>2, <1>5 DEF ConditionsHold, Undisturbed, NothingForgotten, Current, boundVars
<1> QED
    BY <1>7, <1>8, <1>9, <1>10

\* Every step keeps the invariant.
LEMMA NextInv == IInv /\ [Next]_vars => IInv'
<1> SUFFICES ASSUME IInv, [Next]_vars PROVE IInv'
    OBVIOUS
<1> USE DEF IInv, boundVars, historyVars, workerVars
<1>1. ASSUME NEW w \in Workers, NEW r \in Requests, Begin(w, r)
      PROVE  IInv'
    <2> USE <1>1 DEF Begin, Goto
    <2>1. TypeOK'
        BY BoundsAssumption DEF TypeOK, Stages
    <2>2. LoadInv' /\ HandleInv'
        BY DEF TypeOK, LoadInv, HandleInv, disk_stamp
    <2> QED
        BY <2>1, <2>2, QuietStep DEF TypeOK
<1>2. ASSUME NEW w \in Workers, Look(w)
      PROVE  IInv'
    <2> USE <1>2 DEF Look, Goto, Release
    <2>1. TypeOK'
        BY KeptFacts DEF TypeOK, Stages
    <2>2. LoadInv' /\ HandleInv'
        BY DEF TypeOK, LoadInv, HandleInv, disk_stamp
    <2>3. map # None => table'[map] = table[map]
        BY KeptFacts DEF TypeOK
    <2> QED
        BY <2>1, <2>2, <2>3, QuietStep DEF TypeOK
<1>3. ASSUME NEW w \in Workers, invalidate_if_stale(w)
      PROVE  IInv'
    <2> USE <1>3 DEF invalidate_if_stale, Goto
    <2>1. TypeOK'
        BY KeptFacts DEF TypeOK, Stages
    <2>2. LoadInv' /\ HandleInv'
        BY DEF TypeOK, LoadInv, HandleInv, disk_stamp
    <2>3. CASE map # None /\ refs(map) = 1 /\ Stale(map)
        <3>1. \A k \in Keys : Undisturbed => disk'.records[k] = truth[k]
            BY <2>3 DEF Stale, Dirty, NothingForgotten
        <3> QED
            BY <2>1, <2>2, <2>3, <3>1, DropStep
    <2>4. CASE ~(map # None /\ refs(map) = 1 /\ Stale(map))
        <3>1. map # None => table'[map] = table[map]
            BY <2>4, KeptFacts DEF TypeOK
        <3> QED
            BY <2>1, <2>2, <2>4, <3>1, QuietStep
    <2> QED
        BY <2>3, <2>4
<1>4. ASSUME NEW w \in Workers, Lookup(w)
      PROVE  IInv'
    <2> USE <1>4 DEF Lookup, Goto
    <2>1. disk_stamp \in Stamps /\ disk_stamp.time = disk.time /\ disk.time \in Nat
        BY BoundsAssumption DEF TypeOK, Stamps, disk_stamp
    <2>2. /\ loading' \in [Workers -> Tables]
          /\ \A v \in Workers \ {w} : loading'[v] = loading[v]
          /\ map = None => loading'[w].stamp = disk_stamp
        <3>1. CASE map # None
            BY <3>1 DEF TypeOK
        <3>2. CASE map = None
            <4> DEFINE d == disk_stamp
                       t == [loading[w] EXCEPT !.stamp = d]
            <4>1. loading' = [loading EXCEPT ![w] = t]
                BY <3>2
            <4>2. t \in Tables /\ t.stamp = d
                <5>1. loading[w] \in Tables
                    BY DEF TypeOK
                <5> QED
                    BY <2>1, <5>1, StampedFacts
            <4> HIDE DEF t
            <4> QED
                BY <4>1, <4>2 DEF TypeOK
        <3> QED
            BY <3>1, <3>2
    <2>3. TypeOK'
        BY <2>2 DEF TypeOK, Stages
    <2>4. LoadInv'
        BY <2>1, <2>2 DEF TypeOK, LoadInv, disk_stamp
    <2>5. HandleInv'
        BY DEF TypeOK, HandleInv
    <2> QED
        BY <2>3, <2>4, <2>5, QuietStep DEF TypeOK
<1>5. ASSUME NEW w \in Workers, load_table_for_account(w)
      PROVE  IInv'
    <2> USE <1>5 DEF load_table_for_account, Goto
    <2>1. /\ loading' \in [Workers -> Tables]
          /\ \A v \in Workers \ {w} : loading'[v] = loading[v]
          /\ loading'[w].stamp = loading[w].stamp
          /\ loading'[w].records = disk.records
        BY DEF TypeOK, Tables
    <2>2. TypeOK'
        BY <2>1 DEF TypeOK, Stages
    <2>3. LoadInv' /\ HandleInv'
        BY <2>1 DEF TypeOK, LoadInv, HandleInv, disk_stamp
    <2> QED
        BY <2>2, <2>3, QuietStep DEF TypeOK
<1>6. ASSUME NEW w \in Workers, publish(w)
      PROVE  IInv'
    BY <1>6, PublishInv
<1>7. ASSUME NEW w \in Workers, write_record_in(w) \/ delete_record_in(w)
      PROVE  IInv'
    BY <1>7, ApplyInv DEF write_record_in, delete_record_in
<1>8. ASSUME NEW w \in Workers, Refuse(w) \/ Done(w)
      PROVE  IInv'
    <2> USE <1>8 DEF Refuse, Done, Goto, Release
    <2>1. TypeOK'
        BY KeptFacts DEF TypeOK, Stages
    <2>2. LoadInv' /\ HandleInv'
        BY DEF TypeOK, LoadInv, HandleInv, disk_stamp
    <2>3. map # None => table'[map] = table[map]
        BY KeptFacts DEF TypeOK
    <2> QED
        BY <2>1, <2>2, <2>3, QuietStep DEF TypeOK
<1>9. ASSUME NEW w \in Workers, NEW full \in BOOLEAN, FlushNow(w, full)
      PROVE  IInv'
    <2>1. pc' \in [Workers -> Stages]
        BY <1>9 DEF FlushNow, Goto, TypeOK, Stages
    <2> QED
        BY <1>9, <2>1, FlushStep DEF FlushNow, Goto, TypeOK
<1>10. ASSUME NEW w \in Workers, FlushFails(w) \/ NoFlush(w)
       PROVE  IInv'
    <2> USE <1>10 DEF FlushFails, NoFlush, Goto
    <2>1. TypeOK'
        BY BoundsAssumption DEF TypeOK, Stages
    <2>2. LoadInv' /\ HandleInv'
        BY DEF TypeOK, LoadInv, HandleInv, disk_stamp
    <2> QED
        BY <2>1, <2>2, QuietStep DEF TypeOK
<1>11. ASSUME NEW full \in BOOLEAN, save(full)
       PROVE  IInv'
    BY <1>11, FlushStep DEF save, TypeOK
<1>12. ASSUME NEW full \in BOOLEAN, evict_if_over_budget(full)
       PROVE  IInv'
    <2> USE <1>12 DEF evict_if_over_budget
    <2>0. map \in Copies
        BY DEF TypeOK
    <2>1. /\ disk' \in [records : Contents, version : 0..MaxFlushes, time : 0..MaxFlushes]
          /\ disk' = disk \/ disk'.time = disk.time + 1
          /\ \A k \in Keys : Undisturbed => disk'.records[k] = truth[k]
        <3>1. CASE Dirty(map)
            BY <2>0, <3>1, WrittenFacts DEF NothingForgotten, Current
        <3>2. CASE ~Dirty(map)
            BY <3>2 DEF TypeOK, Dirty, NothingForgotten
        <3> QED
            BY <3>1, <3>2
    <2>2. TypeOK'
        BY <2>1, KeptFacts, BoundsAssumption DEF TypeOK
    <2>3. LoadInv'
        <3>1. \A w \in Workers : loading[w].stamp.time \in Nat
            BY BoundsAssumption DEF TypeOK, Tables, Stamps
        <3>2. disk.time \in Nat
            BY BoundsAssumption DEF TypeOK
        <3> QED
            BY <2>1, <3>1, <3>2 DEF LoadInv, disk_stamp
    <2>4. HandleInv'
        BY DEF HandleInv
    <2> QED
        BY <2>1, <2>2, <2>3, <2>4, DropStep
<1>13. ASSUME EvictUnwritten
       PROVE  IInv'
    <2> USE <1>13 DEF EvictUnwritten
    <2>1. TypeOK'
        BY KeptFacts, BoundsAssumption DEF TypeOK
    <2>2. LoadInv' /\ HandleInv'
        BY DEF LoadInv, HandleInv, disk_stamp
    <2> QED
        BY <2>1, <2>2, DropStep
<1>14. ASSUME NEW k \in Keys, NEW v \in Values, ForeignWrite(k, v)
       PROVE  IInv'
    <2> USE <1>14 DEF ForeignWrite
    <2>1. /\ disk' \in [records : Contents, version : 0..MaxFlushes, time : 0..MaxFlushes]
          /\ disk'.time = disk.time + 1
        BY BoundsAssumption DEF TypeOK, Contents
    <2>2. TypeOK'
        BY <2>1, BoundsAssumption DEF TypeOK
    <2>3. LoadInv'
        <3>1. \A w \in Workers : loading[w].stamp.time \in Nat
            BY BoundsAssumption DEF TypeOK, Tables, Stamps
        <3>2. disk.time \in Nat
            BY BoundsAssumption DEF TypeOK
        <3> QED
            BY <2>1, <3>1, <3>2 DEF LoadInv, disk_stamp
    <2>4. OneCopy' /\ HandleInv'
        BY DEF OneCopy, HandleInv
    <2>5. ~Undisturbed'
        BY BoundsAssumption DEF Undisturbed, TypeOK
    <2> QED
        BY <2>2, <2>3, <2>4, <2>5 DEF NothingForgotten, ConditionsHold
<1>15. CASE UNCHANGED vars
    BY <1>15 DEF vars, TypeOK, OneCopy, HandleInv, LoadInv, disk_stamp, NothingForgotten,
                 ConditionsHold, Current, Undisturbed
<1> QED
    BY <1>1, <1>2, <1>3, <1>4, <1>5, <1>6, <1>7, <1>8, <1>9, <1>10, <1>11, <1>12, <1>13, <1>14, <1>15 DEF Next

-----------------------------------------------------------------------------

\* IInv is an invariant of every behaviour.
LEMMA InvHolds == Spec => []IInv
BY InitInv, NextInv, PTL DEF Spec

\* Type correctness of the cache, for every set of workers, keys and copies.
THEOREM TypeCorrect == Spec => []TypeOK
<1>1. IInv => TypeOK
    BY DEF IInv
<1> QED
    BY <1>1, InvHolds, PTL

\* A file has one copy in use: resolve_table, invalidate_if_stale and
\* evict_if_over_budget never give two workers different Tables.
THEOREM SingleCopy == Spec => []OneCopy
<1>1. IInv => OneCopy
    BY DEF IInv
<1> QED
    BY <1>1, InvHolds, PTL

\* No flush, reload or eviction loses an applied write while no load has been
\* overtaken and no eviction's flush has failed.
THEOREM WritesKept == Spec => []NothingForgotten
<1>1. IInv => NothingForgotten
    BY DEF IInv
<1> QED
    BY <1>1, InvHolds, PTL

\* Under the same provisos write_record_in applies a conditional write only to
\* the record its condition names.
THEOREM ConditionsKept == Spec => []ConditionsHold
<1>1. IInv => ConditionsHold
    BY DEF IInv
<1> QED
    BY <1>1, InvHolds, PTL

-----------------------------------------------------------------------------
(***************************************************************************)
(* The cache implements RecordStore.                                       *)
(***************************************************************************)

\* The file as RecordStore sees it.
File == [k \in Keys |-> Current(k)]

\* What a reader finds is a file of records.
LEMMA FileType == TypeOK => File \in [Keys -> Values \cup {Absent}]
<1> SUFFICES ASSUME TypeOK, NEW k \in Keys PROVE Current(k) \in Values \cup {Absent}
    BY DEF File
<1>1. disk.records \in Contents /\ \A c \in Copies : table[c].records \in Contents
    BY DEF TypeOK, Tables
<1> QED
    BY <1>1 DEF Current, TypeOK, Contents

\* A step that leaves the map's copy and the files alone leaves the file alone.
LEMMA SameFile ==
    ASSUME UNCHANGED <<disk, map>>, map # None => table'[map] = table[map]
    PROVE  File' = File
<1>1. \A k \in Keys : Current(k)' = Current(k)
    BY DEF Current
<1> QED
    BY <1>1 DEF File

\* What the workers cannot see: a step that applies no write and answers
\* nobody either leaves the file as it was or has disturbed it.
LEMMA HiddenStep ==
    ASSUME IInv, IInv', UNCHANGED <<request, truth>>, Phase' = Phase, Undisturbed' => Undisturbed
    PROVE  [Store!StoreNext]_(Store!storeVars)
<1>1. CASE Undisturbed'
    <2>1. \A k \in Keys : Current(k)' = Current(k)
        BY <1>1 DEF IInv, NothingForgotten
    <2>2. File' = File
        BY <2>1 DEF File
    <2>3. Undisturbed' = Undisturbed
        BY <1>1 DEF Undisturbed
    <2> QED
        BY <2>2, <2>3 DEF File, Store!storeVars
<1>2. CASE ~Undisturbed'
    <2>1. Undisturbed' = FALSE
        BY <1>2 DEF Undisturbed
    <2>2. TypeOK'
        BY DEF IInv
    <2>3. (File \in [Keys -> Values \cup {Absent}])'
        BY <2>2, FileType, PTL
    <2>4. Store!Disturbed
        BY <2>1, <2>3 DEF File, Store!Disturbed
    <2> QED
        BY <2>4 DEF Store!StoreNext
<1> QED
    BY <1>1, <1>2

\* A request is asked: the abstract Ask.
LEMMA BeginAsks ==
    ASSUME IInv, NEW w \in Workers, NEW r \in Requests, Begin(w, r)
    PROVE  Store!Ask(w)
<1> USE DEF Begin, Goto, historyVars
<1>1. File' = File
    BY SameFile
<1>2. Undisturbed' = Undisturbed
    BY DEF Undisturbed
<1>3. Phase[w] = "answered"
    BY DEF Phase
<1>4. Phase' = [Phase EXCEPT ![w] = "asked"]
    BY DEF Phase, IInv, TypeOK
<1> QED
    BY <1>1, <1>2, <1>3, <1>4 DEF File, Store!Ask

\* A write is applied: the abstract TakeEffect, its condition judged by the
\* file itself, since the worker's copy is the one in the map.
LEMMA ApplyTakesEffect ==
    ASSUME IInv, NEW w \in Workers, apply(w)
    PROVE  Store!TakeEffect(w)
<1> DEFINE r == request[w]
           new == Put(table[map], r.key, r.record)
<1>1. handle[w] = map /\ map \in Copies /\ map # None
    BY CopiesAssumption DEF IInv, apply, TypeOK, OneCopy, HandleInv
<1>2. r.key \in Keys /\ r.record \in Values \cup {Absent}
    BY DEF IInv, TypeOK, Requests
<1>3. table[map] \in Tables
    BY <1>1 DEF IInv, TypeOK
<1>4. /\ new \in Tables
      /\ new.records = [table[map].records EXCEPT ![r.key] = r.record]
      /\ new.dirty = table[map].dirty \cup {r.key}
    BY <1>2, <1>3, PutFacts
<1>5. /\ pc[w] = "held" /\ pc' = [pc EXCEPT ![w] = "note"]
      /\ check(r.condition, table[map].records[r.key])
      /\ table' = [table EXCEPT ![map] = new]
      /\ UNCHANGED <<map, request, crossed, dropped, foreign>>
    BY <1>1 DEF apply, Goto, boundVars
<1> HIDE DEF new
<1>6. table'[map] = new
    BY <1>1, <1>5 DEF IInv, TypeOK
<1>7. table[map].records \in Contents
    BY <1>3 DEF Tables
<1>8. File' = [File EXCEPT ![r.key] = r.record]
    <2>1. \A k \in Keys : Current(k)' = IF k = r.key THEN r.record ELSE Current(k)
        BY <1>1, <1>2, <1>4, <1>5, <1>6, <1>7 DEF Current, Contents
    <2> QED
        BY <2>1 DEF File
<1>9. Undisturbed' = Undisturbed
    BY <1>5 DEF Undisturbed
<1>10. check(r.condition, File[r.key])
    BY <1>1, <1>2, <1>5 DEF File, Current
<1>11. Phase[w] = "asked" /\ Phase' = [Phase EXCEPT ![w] = "applied"]
    BY <1>5 DEF Phase, IInv, TypeOK
<1> QED
    BY <1>5, <1>8, <1>9, <1>10, <1>11 DEF File, Store!TakeEffect

\* A condition that fails of the worker's copy fails of the file: the abstract
\* PreconditionFailed.
LEMMA RefuseAnswers ==
    ASSUME IInv, NEW w \in Workers, Refuse(w)
    PROVE  Store!PreconditionFailed(w)
<1> DEFINE r == request[w]
<1>1. handle[w] = map /\ map \in Copies /\ map # None
    BY CopiesAssumption DEF IInv, Refuse, TypeOK, OneCopy, HandleInv
<1>2. r.key \in Keys
    BY DEF IInv, TypeOK, Requests
<1>3. table'[map] = table[map]
    BY <1>1, KeptFacts DEF IInv, Refuse, Release
<1>4. File' = File
    BY <1>3, SameFile DEF Refuse
<1>5. Undisturbed' = Undisturbed
    BY DEF Refuse, Undisturbed, boundVars, historyVars
<1>6. ~check(r.condition, File[r.key])
    BY <1>1, <1>2 DEF Refuse, File, Current
<1>7. Phase[w] = "asked" /\ Phase' = [Phase EXCEPT ![w] = "answered"]
    BY DEF Phase, IInv, TypeOK, Refuse, Goto
<1> QED
    BY <1>4, <1>5, <1>6, <1>7 DEF File, Refuse, Store!PreconditionFailed

\* A worker that has applied its write answers: the abstract Confirm.
LEMMA DoneConfirms ==
    ASSUME IInv, NEW w \in Workers, Done(w)
    PROVE  Store!Confirm(w)
<1>1. map # None => table'[map] = table[map]
    BY KeptFacts DEF IInv, TypeOK, Done, Release
<1>2. File' = File
    BY <1>1, SameFile DEF Done
<1>3. Undisturbed' = Undisturbed
    BY DEF Done, Undisturbed, boundVars, historyVars
<1>4. Phase[w] = "applied" /\ Phase' = [Phase EXCEPT ![w] = "answered"]
    BY DEF Phase, IInv, TypeOK, Done, Goto
<1> QED
    BY <1>2, <1>3, <1>4 DEF File, Done, Store!Confirm

\* Every step is a step of RecordStore, or none.
LEMMA StepRefines ==
    ASSUME IInv, IInv', [Next]_vars
    PROVE  [Store!StoreNext]_(Store!storeVars)
<1> USE DEF boundVars, historyVars, workerVars
<1>1. ASSUME NEW w \in Workers, NEW r \in Requests, Begin(w, r)
      PROVE  Store!StoreNext
    BY <1>1, BeginAsks DEF Store!StoreNext
<1>2. ASSUME NEW w \in Workers, write_record_in(w) \/ delete_record_in(w)
      PROVE  Store!StoreNext
    BY <1>2, ApplyTakesEffect DEF write_record_in, delete_record_in, Store!StoreNext
<1>3. ASSUME NEW w \in Workers, Refuse(w)
      PROVE  Store!StoreNext
    BY <1>3, RefuseAnswers DEF Store!StoreNext
<1>4. ASSUME NEW w \in Workers, Done(w)
      PROVE  Store!StoreNext
    BY <1>4, DoneConfirms DEF Store!StoreNext
<1>5. ASSUME NEW w \in Workers,
             Look(w) \/ invalidate_if_stale(w) \/ Lookup(w) \/ load_table_for_account(w)
      PROVE  [Store!StoreNext]_(Store!storeVars)
    <2>1. Phase' = Phase
        BY <1>5 DEF Phase, IInv, TypeOK, Goto, Look, invalidate_if_stale, Lookup, load_table_for_account
    <2>2. UNCHANGED <<request, truth, crossed, dropped, foreign>>
        BY <1>5 DEF Look, invalidate_if_stale, Lookup, load_table_for_account
    <2> QED
        BY <2>1, <2>2, HiddenStep DEF Undisturbed
<1>6. ASSUME NEW w \in Workers, publish(w)
      PROVE  [Store!StoreNext]_(Store!storeVars)
    <2>1. Phase' = Phase
        BY <1>6 DEF Phase, IInv, TypeOK, Goto, publish
    <2>2. UNCHANGED <<request, truth, dropped, foreign>> /\ (crossed => crossed')
        BY <1>6 DEF publish
    <2> QED
        BY <2>1, <2>2, HiddenStep DEF Undisturbed
<1>7. ASSUME NEW w \in Workers,
             (\E full \in BOOLEAN : FlushNow(w, full)) \/ FlushFails(w) \/ NoFlush(w)
      PROVE  [Store!StoreNext]_(Store!storeVars)
    <2>1. Phase' = Phase
        BY <1>7 DEF Phase, IInv, TypeOK, Goto, FlushNow, FlushFails, NoFlush
    <2>2. UNCHANGED <<request, truth, crossed, dropped, foreign>>
        BY <1>7 DEF FlushNow, FlushFails, NoFlush
    <2> QED
        BY <2>1, <2>2, HiddenStep DEF Undisturbed
<1>8. ASSUME NEW full \in BOOLEAN, save(full) \/ evict_if_over_budget(full)
      PROVE  [Store!StoreNext]_(Store!storeVars)
    BY <1>8, HiddenStep DEF Phase, Undisturbed, save, evict_if_over_budget
<1>9. CASE EvictUnwritten
    BY <1>9, HiddenStep DEF Phase, Undisturbed, EvictUnwritten
<1>10. ASSUME NEW k \in Keys, NEW v \in Values, ForeignWrite(k, v)
       PROVE  [Store!StoreNext]_(Store!storeVars)
    <2>1. ~Undisturbed'
        BY <1>10, BoundsAssumption DEF ForeignWrite, Undisturbed, IInv, TypeOK
    <2> QED
        BY <1>10, <2>1, HiddenStep DEF Phase, ForeignWrite
<1>11. CASE UNCHANGED vars
    BY <1>11, HiddenStep DEF vars, Phase, Undisturbed
<1> QED
    BY <1>1, <1>2, <1>3, <1>4, <1>5, <1>6, <1>7, <1>8, <1>9, <1>10, <1>11 DEF Next

\* An empty file nobody has asked anything of.
LEMMA InitRefines == Init => Store!StoreInit
<1> SUFFICES ASSUME Init PROVE Store!StoreInit
    OBVIOUS
<1>1. TypeOK
    BY InitInv DEF IInv
<1>2. File \in [Keys -> Values \cup {Absent}]
    BY <1>1, FileType
<1>3. Phase = [w \in Workers |-> "answered"]
    BY DEF Init, Phase
<1>4. Undisturbed = TRUE
    BY DEF Init, Undisturbed
<1> QED
    BY <1>1, <1>2, <1>3, <1>4 DEF File, TypeOK, Store!StoreInit

\* Whatever resolve_table, publish, the flushes and evict_if_over_budget do
\* with copies, the workers' requests take effect one at a time on one file,
\* until a foreign write, an overtaken load or a failed eviction disturbs it.
THEOREM OneFile == Spec => ActsAsOneFile
BY InitRefines, InvHolds, StepRefines, PTL DEF Spec, ActsAsOneFile, Store!StoreSpec

=============================================================================
