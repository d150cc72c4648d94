------------------------------- MODULE Index -------------------------------
(***************************************************************************)
(* A secondary index on one dictionary field of one file: the postings a   *)
(* Table keeps beside its records, the index section and its state file    *)
(* beneath them, and the flush that writes the records, the dictionary and *)
(* the index one file at a time.  A query narrows by the index whenever    *)
(* the index is not stale, so the question is when an index that is not    *)
(* stale may still miss a record.                                          *)
(*                                                                         *)
(* Commands and flushes run under the table's write guard.  What falls     *)
(* inside a flush is an I/O failure, the death of the process, and the     *)
(* removal of a dropped index's section, which holds no guard.             *)
(*                                                                         *)
(* Every record key and every index entry has a group file of its own:     *)
(* what a group file shared by several keys adds, and a change of modulus, *)
(* is HashFile's subject.  A record is the function from its attributes to *)
(* the texts they hold, at least the empty one.                            *)
(***************************************************************************)
EXTENDS Integers, FiniteSets

CONSTANTS
    Keys,         \* the record keys
    Attrs,        \* attribute positions, 0 the first
    Values,       \* texts an attribute can hold
    Entries,      \* the keys of index entries
    IndexKey,     \* index_key: the entry of each text, shared when truncated
    Records,      \* the record contents
    Absent,       \* no record under a key
    Undefined,    \* the dictionary does not define the field
    NoIndex,      \* the file has no index on the field
    NoState,      \* the section has no state file that reads
    Exclusions,   \* the sets of entries an operator may exclude
    Archives,     \* the contents a restore may bring
    MaxVersion,   \* bound: flushes of the records
    MaxCommands,  \* bound: commands that change memory
    MaxFails,     \* bound: flushes that meet an I/O error
    MaxKills      \* bound: deaths of the process

Contents == [Keys -> Records \cup {Absent}]
Places == Attrs \cup {Undefined}

ASSUME AttrsAssumption == Attrs \subseteq Nat /\ 0 \in Attrs /\ Undefined \notin Attrs
ASSUME RecordsAssumption ==
    Records \subseteq [Attrs -> (SUBSET Values) \ {{}}] /\ Absent \notin Records
ASSUME IndexKeyAssumption == IndexKey \in [Values -> Entries]
ASSUME ExclusionsAssumption == Exclusions \subseteq SUBSET Entries /\ {} \in Exclusions
ASSUME ArchivesAssumption == Archives \subseteq Contents
ASSUME BoundsAssumption ==
    MaxVersion \in Nat /\ MaxCommands \in Nat /\ MaxFails \in Nat /\ MaxKills \in Nat

Indexes == [attr : Attrs, postings : [Entries -> SUBSET Keys], excluded : Exclusions,
            dirty : SUBSET Entries, all : BOOLEAN, stale : BOOLEAN]
States == [attr : Attrs, version : 0..MaxVersion, excluded : Exclusions]

ASSUME SentinelAssumption == NoIndex \notin Indexes /\ NoState \notin States

VARIABLES
    records,    \* Table.records
    dirtyKeys,  \* Table.dirty_keys, all of them under dirty_all
    dict,       \* Table.field_index(field): where the dictionary puts the field
    dictDirty,  \* Table.dict_dirty
    index,      \* Table.indexes[field], or NoIndex
    version,    \* Table.data_meta.version
    pc,         \* where the flush is; "down" when there is no process
    todo,       \* group files the flush has still to write
    removing,   \* a DROP.INDEX has still to remove the section
    data,       \* the group files of the records
    metaFile,   \* the version in the records' meta file
    dictFile,   \* where the dict file puts the field
    entries,    \* the group files of the index section
    stateFile,  \* the index section's state file, or NoState
    section,    \* the index section's directory exists
    loose,      \* history: sections with group files newer than their stamp
    doubt,      \* history: a removal hit the section, or a stale index wrote it
    tainted,    \* history: the index in memory was trusted from such files
    commands, fails, kills   \* history: how often each has happened

tableVars == <<records, dirtyKeys, dict, dictDirty, index, tainted>>
flushVars == <<pc, todo>>
diskVars == <<data, metaFile, dictFile, entries, stateFile, section>>
markVars == <<loose, doubt>>
boundVars == <<commands, fails, kills>>
vars == <<tableVars, version, flushVars, removing, diskVars, markVars, boundVars>>

-----------------------------------------------------------------------------
(***************************************************************************)
(* FileIndex.                                                              *)
(***************************************************************************)

Live == index # NoIndex

\* The entries one record contributes; none when there is no record.
keys_of(r, attr) == IF r = Absent THEN {} ELSE {IndexKey[v] : v \in r[attr]}

\* Mutant of retained: excluded values are kept.
RetainedAll(ix, r) == keys_of(r, ix.attr)

retained(ix, r) == keys_of(r, ix.attr) \ ix.excluded

Derived(c, attr, excluded) ==
    [e \in Entries |-> {k \in Keys : e \in keys_of(c[k], attr) \ excluded}]

rebuild(ix, attr) ==
    [ix EXCEPT !.attr = attr, !.postings = Derived(records, attr, ix.excluded),
               !.dirty = {}, !.all = TRUE, !.stale = FALSE]

with_exclusions(attr, excluded) ==
    [attr |-> attr, postings |-> [e \in Entries |-> {}], excluded |-> excluded,
     dirty |-> {}, all |-> TRUE, stale |-> TRUE]

\* Only the values that moved are touched.
apply(ix, k, old, new) ==
    LET before == retained(ix, old)
        after == retained(ix, new)
    IN [ix EXCEPT !.postings = [e \in Entries |->
                        IF e \in before \ after THEN @[e] \ {k}
                        ELSE IF e \in after \ before THEN @[e] \cup {k} ELSE @[e]],
                  !.dirty = @ \cup (before \ after) \cup (after \ before)]

\* Mutant of Trusted: the version is not compared.
TrustedOnAttribute ==
    /\ section
    /\ stateFile # NoState
    /\ stateFile.attr = dictFile

\* An index read back is trusted if its state names the field's attribute and
\* the version of the records; a section whose field the dictionary does not
\* define, or which has no state, comes back stale and without exclusions.
Trusted ==
    /\ section
    /\ stateFile # NoState
    /\ stateFile.attr = dictFile
    /\ stateFile.version = metaFile

loaded ==
    [attr |-> dictFile, postings |-> entries,
     excluded |-> IF stateFile = NoState THEN {} ELSE stateFile.excluded,
     dirty |-> {}, all |-> FALSE, stale |-> ~Trusted]

\* index_candidates: the one set of keys to look at, or none for "scan".
candidates(e) ==
    IF ~Live \/ dict # index.attr \/ index.stale \/ e \in index.excluded THEN {}
    ELSE {index.postings[e]}

-----------------------------------------------------------------------------
(***************************************************************************)
(* The planner in front of a scan.  A query is an equality on the field, a *)
(* condition no index answers, or two queries under AND or OR.  A plan is  *)
(* the set of keys to look at, or empty for a walk of every record.        *)
(***************************************************************************)

Equalities == [op : {"EQ"}, value : Values]
Others == [op : {"OTHER"}, keys : SUBSET Keys]
Queries == Equalities \cup Others
        \cup [op : {"AND", "OR"}, left : Equalities, right : Equalities \cup Others]

Stored == {k \in Keys : records[k] # Absent}

\* evaluate_node: what a scan of every record finds.
MatchesOne(q) ==
    IF q.op = "EQ" THEN {k \in Stored : q.value \in records[k][dict]}
                   ELSE q.keys \cap Stored

Matches(q) ==
    CASE q.op = "AND" -> MatchesOne(q.left) \cap MatchesOne(q.right)
      [] q.op = "OR" -> MatchesOne(q.left) \cup MatchesOne(q.right)
      [] OTHER -> MatchesOne(q)

PlanOne(q) == IF q.op = "EQ" THEN candidates(IndexKey[q.value]) ELSE {}

\* AND narrows by what either side knows; OR needs both.
index_candidates(q) ==
    IF q.op \notin {"AND", "OR"} THEN PlanOne(q)
    ELSE LET left == PlanOne(q.left)
             right == PlanOne(q.right)
         IN IF left # {} /\ right # {}
            THEN {IF q.op = "AND" THEN l \cap r ELSE l \cup r : l \in left, r \in right}
            ELSE IF q.op = "AND" THEN left \cup right ELSE {}

\* collect_matches_in: the candidates, each put through the same evaluation.
Selected(q) ==
    IF index_candidates(q) = {} THEN Matches(q)
    ELSE (UNION index_candidates(q)) \cap Matches(q)

-----------------------------------------------------------------------------
(***************************************************************************)
(* The table in memory.                                                    *)
(***************************************************************************)

\* A file just created, its dictionary written, with no index.
Init ==
    /\ records = [k \in Keys |-> Absent]
    /\ dirtyKeys = {}
    /\ dict \in Places
    /\ dictDirty = FALSE
    /\ index = NoIndex
    /\ tainted = FALSE
    /\ version = 0
    /\ pc = "idle"
    /\ todo = {}
    /\ removing = FALSE
    /\ data = records
    /\ metaFile = 0
    /\ dictFile = dict
    /\ entries = [e \in Entries |-> {}]
    /\ stateFile = NoState
    /\ section = FALSE
    /\ loose = {}
    /\ doubt = FALSE
    /\ commands = 0
    /\ fails = 0
    /\ kills = 0

\* A command holds the table's guard, so no flush of the table is under way.
Command ==
    /\ pc = "idle"
    /\ commands < MaxCommands
    /\ commands' = commands + 1
    /\ UNCHANGED <<version, flushVars, diskVars, markVars, fails, kills>>

Put(k, r) ==
    /\ records' = [records EXCEPT ![k] = r]
    /\ dirtyKeys' = dirtyKeys \cup {k}
    /\ index' = IF Live THEN apply(index, k, records[k], r) ELSE index
    /\ UNCHANGED <<dict, dictDirty, tainted, removing>>

insert_record(k, r) == Command /\ Put(k, r)

remove_record(k) == Command /\ Put(k, Absent)

\* A dead letter leaves a queue past its index: its keys stay in the postings.
take_dead(k) ==
    /\ Command
    /\ records[k] # Absent
    /\ records' = [records EXCEPT ![k] = Absent]
    /\ dirtyKeys' = dirtyKeys \cup {k}
    /\ UNCHANGED <<dict, dictDirty, index, tainted, removing>>

\* A change that names no keys: no index can follow it.
touch_all ==
    /\ dirtyKeys' = Keys
    /\ dictDirty' = TRUE
    /\ index' = IF Live THEN [index EXCEPT !.stale = TRUE] ELSE index

\* A restored archive replaces the records and the dictionary at once; the log
\* and the DIR listing replace their records the same way.
end_file(c, d) ==
    /\ Command
    /\ records' = c
    /\ dict' = d
    /\ touch_all
    /\ UNCHANGED <<tainted, removing>>

\* recheck_index_attributes: a field moved elsewhere makes its index stale.
mark_dict_dirty(d) ==
    /\ Command
    /\ dict' = d
    /\ dictDirty' = TRUE
    /\ index' = IF Live /\ d # index.attr THEN [index EXCEPT !.stale = TRUE] ELSE index
    /\ UNCHANGED <<records, dirtyKeys, tainted, removing>>

\* The definitions an archive carries, each made again over whatever index the
\* file has, under a guard of its own.
restore_index(excluded) ==
    /\ Command
    /\ dict # Undefined
    /\ index' = rebuild(with_exclusions(dict, excluded), dict)
    /\ tainted' = FALSE
    /\ UNCHANGED <<records, dirtyKeys, dict, dictDirty, removing>>

\* The flush each of the next four asks for takes the guard again: it is a
\* step of its own, and other commands may come before it.
create_index(excluded) == ~Live /\ restore_index(excluded)

drop_index ==
    /\ Command
    /\ Live \/ section
    /\ index' = NoIndex
    /\ tainted' = FALSE
    /\ removing' = TRUE
    /\ UNCHANGED <<records, dirtyKeys, dict, dictDirty>>

rebuild_index ==
    /\ Command
    /\ Live
    /\ dict # Undefined
    /\ index' = rebuild(index, dict)
    /\ tainted' = FALSE
    /\ UNCHANGED <<records, dirtyKeys, dict, dictDirty, removing>>

\* The rebuild uses the index's own attribute when the field is undefined.
set_excluded(excluded) ==
    /\ Command
    /\ Live
    /\ excluded # index.excluded
    /\ index' = rebuild([index EXCEPT !.excluded = excluded],
                        IF dict = Undefined THEN index.attr ELSE dict)
    /\ tainted' = FALSE
    /\ UNCHANGED <<records, dirtyKeys, dict, dictDirty, removing>>

-----------------------------------------------------------------------------
(***************************************************************************)
(* flush_locked: the records, their meta, the dictionary, the index, its   *)
(* state.                                                                  *)
(***************************************************************************)

Flushing == pc \in {"groups", "stamped", "dict", "dictCut", "index", "state", "saved"}

TableDirty ==
    \/ dirtyKeys # {}
    \/ dictDirty
    \/ Live /\ (index.all \/ index.dirty # {} \/ index.stale)

\* rebuild_stale_indexes; an index on an undefined field is left stale.
BeginFlush ==
    /\ pc = "idle"
    /\ TableDirty
    /\ dirtyKeys # {} => version < MaxVersion
    /\ IF Live /\ index.stale /\ dict # Undefined
       THEN index' = rebuild(index, dict) /\ tainted' = FALSE
       ELSE UNCHANGED <<index, tainted>>
    /\ pc' = IF dirtyKeys # {} THEN "groups" ELSE "dict"
    /\ todo' = dirtyKeys
    /\ UNCHANGED <<records, dirtyKeys, dict, dictDirty, version, removing, diskVars, markVars, boundVars>>

write_group(k) ==
    /\ pc = "groups"
    /\ k \in todo
    /\ data' = [data EXCEPT ![k] = records[k]]
    /\ todo' = todo \ {k}
    /\ loose' = loose \cup {"data"}
    /\ UNCHANGED <<tableVars, version, pc, removing, metaFile, dictFile, entries, stateFile,
                   section, doubt, boundVars>>

write_meta ==
    /\ pc = "groups"
    /\ todo = {}
    /\ metaFile' = version + 1
    /\ loose' = loose \ {"data"}
    /\ pc' = "stamped"
    /\ UNCHANGED <<tableVars, version, todo, removing, data, dictFile, entries, stateFile,
                   section, doubt, boundVars>>

\* save_with_fsync returns, its directory sync done.
RecordsSaved ==
    /\ pc = "stamped"
    /\ version' = metaFile
    /\ pc' = "dict"
    /\ UNCHANGED <<tableVars, todo, removing, diskVars, markVars, boundVars>>

IndexTodo == IF ~Live THEN {} ELSE IF index.all THEN Entries ELSE index.dirty

ToIndex ==
    /\ pc' = IF Live THEN "index" ELSE "saved"
    /\ todo' = IndexTodo

\* save_section writes the dict file in place: truncated first.
save_section ==
    /\ pc = "dict"
    /\ IF dictDirty
       THEN dictFile' = Undefined /\ pc' = "dictCut" /\ UNCHANGED todo
       ELSE ToIndex /\ UNCHANGED dictFile
    /\ UNCHANGED <<tableVars, version, removing, data, metaFile, entries, stateFile, section,
                   markVars, boundVars>>

DictWritten ==
    /\ pc = "dictCut"
    /\ dictFile' = dict
    /\ ToIndex
    /\ UNCHANGED <<tableVars, version, removing, data, metaFile, entries, stateFile, section,
                   markVars, boundVars>>

\* One entry of the index section; a full save starts the section over.
write_entry(e) ==
    /\ pc = "index"
    /\ e \in todo
    /\ entries' = [entries EXCEPT ![e] = index.postings[e]]
    /\ section' = TRUE
    /\ todo' = todo \ {e}
    /\ loose' = loose \cup {"index"}
    /\ doubt' = IF index.all /\ todo = Entries THEN tainted \/ index.stale ELSE doubt
    /\ UNCHANGED <<tableVars, version, pc, removing, data, metaFile, dictFile, stateFile, boundVars>>

EntriesSaved ==
    /\ pc = "index"
    /\ todo = {}
    /\ index' = [index EXCEPT !.dirty = {}, !.all = FALSE]
    /\ pc' = "state"
    /\ UNCHANGED <<records, dirtyKeys, dict, dictDirty, tainted, version, todo, removing,
                   diskVars, markVars, boundVars>>

\* Mutant of write_state: an index nothing changed keeps its old state.
StateOnlyIfDirty ==
    /\ pc = "state"
    /\ pc' = "saved"
    /\ IF "index" \in loose
       THEN /\ stateFile' = [attr |-> index.attr, version |-> version, excluded |-> index.excluded]
            /\ section' = TRUE
            /\ loose' = loose \ {"index"}
            /\ doubt' = (doubt \/ tainted \/ index.stale)
       ELSE UNCHANGED <<stateFile, section, loose, doubt>>
    /\ UNCHANGED <<tableVars, version, todo, removing, data, metaFile, dictFile, entries, boundVars>>

write_state ==
    /\ pc = "state"
    /\ pc' = "saved"
    /\ stateFile' = [attr |-> index.attr, version |-> version, excluded |-> index.excluded]
    /\ section' = TRUE
    /\ loose' = loose \ {"index"}
    /\ doubt' = (doubt \/ tainted \/ index.stale)
    /\ UNCHANGED <<tableVars, version, todo, removing, data, metaFile, dictFile, entries, boundVars>>

clear_dirty ==
    /\ pc = "saved"
    /\ dirtyKeys' = {}
    /\ dictDirty' = FALSE
    /\ pc' = "idle"
    /\ UNCHANGED <<records, dict, index, tainted, version, todo, removing, diskVars, markVars, boundVars>>

\* An I/O error at any step: the flush stops, what was dirty stays dirty, and
\* an index whose entries were saved is clean whether or not its state was.
FlushFails ==
    /\ Flushing
    /\ fails < MaxFails
    /\ fails' = fails + 1
    /\ pc' = "idle"
    /\ todo' = {}
    /\ UNCHANGED <<tableVars, version, removing, diskVars, markVars, commands, kills>>

\* remove_section deletes the files of the section in no particular order and
\* under no guard; e is an entry's file.
remove_entry(e) ==
    /\ removing
    /\ entries[e] # {}
    /\ entries' = [entries EXCEPT ![e] = {}]
    /\ doubt' = TRUE
    /\ UNCHANGED <<tableVars, version, flushVars, removing, data, metaFile, dictFile, stateFile,
                   section, loose, boundVars>>

remove_state ==
    /\ removing
    /\ stateFile # NoState
    /\ stateFile' = NoState
    /\ doubt' = TRUE
    /\ UNCHANGED <<tableVars, version, flushVars, removing, data, metaFile, dictFile, entries,
                   section, loose, boundVars>>

\* The directory itself goes when it is empty; a removal that finds files put
\* back meanwhile ends with an error.
RemovalEnds ==
    /\ removing
    /\ removing' = FALSE
    /\ section' = IF stateFile = NoState /\ \A e \in Entries : entries[e] = {}
                  THEN FALSE ELSE section
    /\ UNCHANGED <<tableVars, version, flushVars, data, metaFile, dictFile, entries, stateFile,
                   markVars, boundVars>>

Crash ==
    /\ pc # "down"
    /\ kills < MaxKills
    /\ kills' = kills + 1
    /\ pc' = "down"
    /\ todo' = {}
    /\ removing' = FALSE
    /\ records' = [k \in Keys |-> Absent]
    /\ dirtyKeys' = {}
    /\ dict' = Undefined
    /\ dictDirty' = FALSE
    /\ index' = NoIndex
    /\ tainted' = FALSE
    /\ UNCHANGED <<version, diskVars, markVars, commands, fails>>

\* What load_indexes makes of the section, before the rebuild of a stale one.
Read ==
    IF ~section THEN NoIndex
    ELSE IF dictFile = Undefined THEN with_exclusions(0, {})
    ELSE loaded

load ==
    /\ pc = "down"
    /\ pc' = "idle"
    /\ records' = data
    /\ dict' = dictFile
    /\ version' = metaFile
    /\ index' = IF section /\ dictFile # Undefined /\ ~Trusted
                THEN [Read EXCEPT !.postings = Derived(data, dictFile, Read.excluded),
                                  !.all = TRUE, !.stale = FALSE]
                ELSE Read
    /\ tainted' = (Trusted /\ (loose # {} \/ doubt))
    /\ UNCHANGED <<dirtyKeys, dictDirty, todo, removing, diskVars, markVars, boundVars>>

Next ==
    \/ \E k \in Keys : remove_record(k) \/ take_dead(k) \/ \E r \in Records : insert_record(k, r)
    \/ \E c \in Archives, d \in Places : end_file(c, d)
    \/ \E d \in Places : mark_dict_dirty(d)
    \/ \E x \in Exclusions : create_index(x) \/ restore_index(x) \/ set_excluded(x)
    \/ drop_index
    \/ rebuild_index
    \/ BeginFlush
    \/ \E k \in Keys : write_group(k)
    \/ write_meta
    \/ RecordsSaved
    \/ save_section
    \/ DictWritten
    \/ \E e \in Entries : write_entry(e) \/ remove_entry(e)
    \/ EntriesSaved
    \/ write_state
    \/ clear_dirty
    \/ FlushFails
    \/ remove_state
    \/ RemovalEnds
    \/ Crash
    \/ load

Spec == Init /\ [][Next]_vars

-----------------------------------------------------------------------------

\* Every variable holds a value of its kind.
TypeOK ==
    /\ records \in Contents /\ data \in Contents
    /\ dirtyKeys \in SUBSET Keys
    /\ dict \in Places /\ dictFile \in Places
    /\ dictDirty \in BOOLEAN
    /\ index \in Indexes \cup {NoIndex}
    /\ version \in 0..MaxVersion /\ metaFile \in 0..MaxVersion
    /\ pc \in {"idle", "groups", "stamped", "dict", "dictCut", "index", "state", "saved", "down"}
    /\ todo \in SUBSET (Keys \cup Entries)
    /\ removing \in BOOLEAN
    /\ entries \in [Entries -> SUBSET Keys]
    /\ stateFile \in States \cup {NoState}
    /\ section \in BOOLEAN
    /\ loose \in SUBSET {"data", "index"}
    /\ doubt \in BOOLEAN /\ tainted \in BOOLEAN
    /\ commands \in 0..MaxCommands /\ fails \in 0..MaxFails /\ kills \in 0..MaxKills

\* The index never changes what a query finds: whatever the records, the
\* dictionary, the exclusions and the index have been through, selecting by it
\* is selecting by a scan (collect_matches_in, "every candidate is then put
\* through the same evaluation").  A query reads under the table's guard, so
\* never inside a flush.
SameAnswers ==
    pc = "idle" /\ Live /\ dict # Undefined => \A q \in Queries : Selected(q) = Matches(q)

\* So it is for every index whose files were whole when they were read: no
\* group file newer than its section's stamp, no removal that went through the
\* section of a live index, no save of an index on an undefined field.  Kills
\* between any two other steps, failed flushes, moved fields and exclusions
\* set and lifted are all caught by the state file's version and attribute.
Narrows == ~tainted => SameAnswers

\* A value an operator excluded is never held, through restarts too (apply
\* filters both sides, rebuild skips it, state carries the set).
ExclusionsHold ==
    ~tainted /\ Live /\ ~index.stale => \A e \in index.excluded : index.postings[e] = {}

\* When a flush has returned, the next load would trust the index and read the
\* postings memory holds: a rebuild is paid for once.
FlushSettles ==
    pc = "saved" /\ Live /\ ~index.stale /\ dict = index.attr /\ ~doubt =>
        Trusted /\ entries = index.postings /\ stateFile.excluded = index.excluded

=============================================================================
