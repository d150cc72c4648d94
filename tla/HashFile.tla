------------------------------ MODULE HashFile ------------------------------
(***************************************************************************)
(* One hashed section of a file: the records of a Table in memory, the     *)
(* group files and the meta file beneath it, and a flush that moves the    *)
(* first into the second one file at a time.  A flush runs under the       *)
(* table's write guard, so no write of the same table falls inside one;    *)
(* what does fall inside one is an I/O failure, the death of the process   *)
(* and the loss of power, between any two of its steps.                    *)
(*                                                                         *)
(* A group file is the function from keys to the values it holds.  A key   *)
(* it does not hold maps to Absent, and a group file that does not exist   *)
(* is the function that holds no key: an empty group leaves no file.  The  *)
(* meta file is represented by the one field a load needs, the modulus.    *)
(* Torn is a file whose trailer or checksum does not verify.               *)
(***************************************************************************)
EXTENDS Integers, FiniteSets

CONSTANTS
    Keys,         \* the record keys
    Values,       \* the record contents
    Absent,       \* what a file that does not hold a key holds for it
    Torn,         \* a file that fails its checksum
    Hash,         \* hash_key: FNV-1a of each key, any function to the naturals
    MinModulus,   \* MIN_MODULUS
    PerGroup,     \* records_per_group
    Doublings,    \* bound: the modulus is doubled at most this often
    Policies,     \* the FsyncPolicy values a flush may be asked for
    MaxOutages    \* bound: failed flushes, crashes and power cuts in a behaviour

\* Every modulus the section can have: a power of two times the least one.
Moduli == {MinModulus * 2^i : i \in 0..Doublings}

\* m is what target_modulus's doubling loop stops at for n records.
IsTarget(m, n) ==
    /\ m * PerGroup >= n
    /\ \A l \in Moduli : l < m => l * PerGroup < n

Contents == [Keys -> Values \cup {Absent}]

ASSUME KeysAssumption == IsFiniteSet(Keys)
ASSUME SentinelAssumption == Absent \notin Values /\ Torn \notin Contents
ASSUME HashAssumption == Hash \in [Keys -> Nat]
ASSUME ModuliAssumption ==
    /\ Moduli \subseteq Nat \ {0}
    /\ Torn \notin Moduli
    /\ \E m \in Moduli : \A l \in Moduli : l <= m
ASSUME PolicyAssumption == Policies \subseteq {"Always", "Meta", "Never"} /\ Policies # {}
ASSUME OutagesAssumption == MaxOutages \in Nat

\* Doublings is large enough: every number of records has its target modulus.
ASSUME TargetAssumption ==
    /\ MinModulus \in Moduli
    /\ \A n \in 0..Cardinality(Keys) : \E m \in Moduli : IsTarget(m, n)

VARIABLES
    records,    \* Table.records, as a member of Contents
    dirtyKeys,  \* Table.dirty_keys
    dirtyAll,   \* Table.dirty_all
    dataMeta,   \* Table.data_meta.modulus
    pc,         \* where the flush is; "down" when there is no process
    plan,       \* what save_with_fsync decided: modulus, full_rewrite, fsync
    todo,       \* groups the flush has still to write
    groups,     \* the group files, as a process sees them
    metaFile,   \* the meta file, as a process sees it
    unsynced,   \* group files whose bytes were never fsynced
    groupsMay,  \* what a power cut may leave of each group file
    metaMay,    \* what a power cut may leave of the meta file
    admissible, \* history: what each key has held since the last good flush
    used,       \* history: the policies flushes have run under
    outages,    \* history: how many outages there have been
    scarred     \* history: a rehash was cut short, or power lost unsynced

memVars == <<records, dirtyKeys, dirtyAll>>
diskVars == <<groups, metaFile, unsynced, groupsMay, metaMay>>
flushVars == <<pc, plan, todo>>
historyVars == <<admissible, used, outages, scarred>>
vars == <<memVars, dataMeta, flushVars, diskVars, historyVars>>

-----------------------------------------------------------------------------

MaxModulus == CHOOSE m \in Moduli : \A l \in Moduli : l <= m
Groups == 0..(MaxModulus - 1)
EmptyGroup == [k \in Keys |-> Absent]

\* Mutant of group_of: groups counted from one.
GroupFromOne(k, modulus) == (Hash[k] % modulus) + 1

group_of(k, modulus) == Hash[k] % modulus

target_modulus(n) == CHOOSE m \in Moduli : IsTarget(m, n)

\* Grow at once; shrink only to a quarter.
plan_modulus(current, n) ==
    LET target == target_modulus(n)
    IN IF current < MinModulus \/ target > current \/ target * 4 <= current
       THEN target
       ELSE current

Stored(c) == {k \in Keys : c[k] # Absent}

\* load: groups in ascending order into one map, so the last one to hold a
\* key decides it, whatever the key hashes to.
LoadedKey(gs, modulus, k) ==
    LET at == {g \in 0..(modulus - 1) : gs[g][k] # Absent}
    IN IF at = {} THEN Absent
       ELSE gs[CHOOSE g \in at : \A h \in at : h <= g][k]

Loaded(gs, modulus) == [k \in Keys |-> LoadedKey(gs, modulus, k)]

\* load fails on a meta, or on a group it names, that does not verify.
Loadable ==
    /\ metaFile # Torn
    /\ \A g \in 0..(metaFile - 1) : groups[g] # Torn

\* Mutant of syncs_groups: group files left to the page cache.
SyncsNoGroup(policy) == FALSE

syncs_groups(policy) == policy = "Always"
syncs_meta(policy) == policy # "Never"

Flushing == pc \in {"groups", "beyond", "sync", "meta", "rename", "saved"}

\* No flush is under way.
NoPlan(modulus) ==
    [modulus |-> modulus, full |-> FALSE, policy |-> CHOOSE p \in Policies : TRUE]

\* The section on disk is being laid out under another modulus.
Rehashing == Flushing /\ plan.modulus # dataMeta

-----------------------------------------------------------------------------

\* A new section: init_data_section has saved the empty map.
Init ==
    /\ records = EmptyGroup
    /\ dirtyKeys = {}
    /\ dirtyAll = FALSE
    /\ dataMeta = MinModulus
    /\ pc = "idle"
    /\ plan = NoPlan(MinModulus)
    /\ todo = {}
    /\ groups = [g \in Groups |-> EmptyGroup]
    /\ metaFile = MinModulus
    /\ unsynced = {}
    /\ groupsMay = [g \in Groups |-> {EmptyGroup}]
    /\ metaMay = {MinModulus}
    /\ admissible = [k \in Keys |-> {Absent}]
    /\ used = {}
    /\ outages = 0
    /\ scarred = FALSE

\* Memory changes, under the table's guard and so never during a flush.
Edit(k, v) ==
    /\ pc = "idle"
    /\ records' = [records EXCEPT ![k] = v]
    /\ dirtyKeys' = dirtyKeys \cup {k}
    /\ admissible' = [admissible EXCEPT ![k] = @ \cup {v}]
    /\ UNCHANGED <<dirtyAll, dataMeta, flushVars, diskVars, used, outages, scarred>>

insert_record(k, v) == Edit(k, v)
remove_record(k) == Edit(k, Absent)

touch_all ==
    /\ pc = "idle"
    /\ dirtyAll' = TRUE
    /\ UNCHANGED <<records, dirtyKeys, dataMeta, flushVars, diskVars, historyVars>>

\* Mutant of BeginFlush: a new modulus does not force a full rewrite.
BeginFlushInPlace(policy) ==
    LET modulus == plan_modulus(dataMeta, Cardinality(Stored(records)))
    IN /\ pc = "idle"
       /\ dirtyAll \/ dirtyKeys # {}
       /\ pc' = "groups"
       /\ plan' = [modulus |-> modulus, full |-> dirtyAll, policy |-> policy]
       /\ todo' = IF dirtyAll THEN 0..(modulus - 1)
                  ELSE {group_of(k, modulus) : k \in dirtyKeys}
       /\ used' = used \cup {policy}
       /\ UNCHANGED <<memVars, dataMeta, diskVars, admissible, outages, scarred>>

\* flush_locked, up to the decision save_with_fsync takes.
BeginFlush(policy) ==
    LET modulus == plan_modulus(dataMeta, Cardinality(Stored(records)))
        full == dirtyAll \/ modulus # dataMeta
    IN /\ pc = "idle"
       /\ dirtyAll \/ dirtyKeys # {}
       /\ pc' = "groups"
       /\ plan' = [modulus |-> modulus, full |-> full, policy |-> policy]
       /\ todo' = IF full THEN 0..(modulus - 1)
                  ELSE {group_of(k, modulus) : k \in dirtyKeys}
       /\ used' = used \cup {policy}
       /\ UNCHANGED <<memVars, dataMeta, diskVars, admissible, outages, scarred>>

\* Mutant of NewGroup: an incremental flush merges writes and not removals.
NewGroupKeepsRemoved(g) ==
    IF plan.full
    THEN [k \in Keys |->
            IF group_of(k, plan.modulus) = g THEN records[k] ELSE Absent]
    ELSE [k \in Keys |->
            IF k \in dirtyKeys /\ group_of(k, plan.modulus) = g /\ records[k] # Absent
            THEN records[k] ELSE groups[g][k]]

\* What the flush puts in group g: the whole bucket, or the dirty keys merged
\* into what the file already holds.
NewGroup(g) ==
    IF plan.full
    THEN [k \in Keys |->
            IF group_of(k, plan.modulus) = g THEN records[k] ELSE Absent]
    ELSE [k \in Keys |->
            IF k \in dirtyKeys /\ group_of(k, plan.modulus) = g
            THEN records[k] ELSE groups[g][k]]

\* One group file replaced by rename, or removed when it holds nothing.
PutGroup(g, c) ==
    LET synced == c = EmptyGroup \/ syncs_groups(plan.policy)
    IN /\ groups' = [groups EXCEPT ![g] = c]
       /\ unsynced' = IF synced THEN unsynced \ {g} ELSE unsynced \cup {g}
       /\ groupsMay' = [groupsMay EXCEPT
                          ![g] = @ \cup {c} \cup (IF synced THEN {} ELSE {Torn})]

write_frames(g) ==
    /\ pc = "groups"
    /\ g \in todo
    /\ plan.full \/ groups[g] # Torn
    /\ PutGroup(g, NewGroup(g))
    /\ todo' = todo \ {g}
    /\ UNCHANGED <<memVars, dataMeta, pc, plan, metaFile, metaMay, historyVars>>

GroupsWritten ==
    /\ pc = "groups"
    /\ todo = {}
    /\ pc' = IF plan.full THEN "beyond" ELSE "sync"
    /\ UNCHANGED <<memVars, dataMeta, plan, todo, diskVars, historyVars>>

remove_group_beyond(g) ==
    /\ pc = "beyond"
    /\ g \in Groups
    /\ g >= plan.modulus
    /\ groups[g] # EmptyGroup
    /\ PutGroup(g, EmptyGroup)
    /\ UNCHANGED <<memVars, dataMeta, flushVars, metaFile, metaMay, historyVars>>

\* The removals are best effort: one that fails is ignored.
BeyondRemoved ==
    /\ pc = "beyond"
    /\ pc' = "sync"
    /\ UNCHANGED <<memVars, dataMeta, plan, todo, diskVars, historyVars>>

\* After a directory sync every name is the file a process sees; the bytes
\* behind it are safe only if they were fsynced themselves.
sync_dir ==
    /\ pc = "sync"
    /\ groupsMay' = IF syncs_meta(plan.policy)
                    THEN [g \in Groups |->
                            {groups[g]} \cup (IF g \in unsynced THEN {Torn} ELSE {})]
                    ELSE groupsMay
    /\ pc' = "meta"
    /\ UNCHANGED <<memVars, dataMeta, plan, todo, groups, metaFile, unsynced, metaMay, historyVars>>

write_meta ==
    /\ pc = "meta"
    /\ metaFile' = plan.modulus
    /\ metaMay' = metaMay \cup {plan.modulus}
                          \cup (IF syncs_meta(plan.policy) THEN {} ELSE {Torn})
    /\ pc' = "rename"
    /\ UNCHANGED <<memVars, dataMeta, plan, todo, groups, unsynced, groupsMay, historyVars>>

\* write_meta's own directory sync, and save_with_fsync returning.
sync_meta ==
    /\ pc = "rename"
    /\ metaMay' = IF syncs_meta(plan.policy) THEN {plan.modulus} ELSE metaMay
    /\ dataMeta' = plan.modulus
    /\ admissible' = [k \in Keys |-> {records[k]}]
    /\ pc' = "saved"
    /\ UNCHANGED <<memVars, plan, todo, groups, metaFile, unsynced, groupsMay, used, outages, scarred>>

clear_dirty ==
    /\ pc = "saved"
    /\ dirtyKeys' = {}
    /\ dirtyAll' = FALSE
    /\ pc' = "idle"
    /\ plan' = NoPlan(dataMeta)
    /\ UNCHANGED <<records, dataMeta, todo, diskVars, historyVars>>

\* What ends a flush early, and what a process that dies leaves of its memory.
Outage(next) ==
    /\ outages < MaxOutages
    /\ outages' = outages + 1
    /\ pc' = next
    /\ plan' = NoPlan(dataMeta)
    /\ todo' = {}

MemoryLost ==
    /\ records' = EmptyGroup
    /\ dirtyKeys' = {}
    /\ dirtyAll' = FALSE


\* An I/O error at any step: flush_locked returns it, and what was dirty
\* stays dirty for the next flush.
FlushFails ==
    /\ Flushing
    /\ Outage("idle")
    /\ scarred' = (scarred \/ Rehashing)
    /\ UNCHANGED <<memVars, dataMeta, diskVars, admissible, used>>

\* The process dies; the files stay as it last saw them.
Crash ==
    /\ pc # "down"
    /\ Outage("down")
    /\ MemoryLost
    /\ scarred' = (scarred \/ Rehashing)
    /\ UNCHANGED <<dataMeta, diskVars, admissible, used>>

\* The power fails; each file is one of the things it may have become.
PowerCut ==
    /\ pc # "down"
    /\ Outage("down")
    /\ MemoryLost
    /\ \E m \in metaMay : metaFile' = m /\ metaMay' = {m}
    /\ \E choice \in [Groups -> UNION {groupsMay[g] : g \in Groups}] :
          /\ \A g \in Groups : choice[g] \in groupsMay[g]
          /\ groups' = choice
          /\ groupsMay' = [g \in Groups |-> {choice[g]}]
    /\ unsynced' = {}
    /\ scarred' = (scarred \/ Rehashing \/ "Never" \in used)
    /\ UNCHANGED <<dataMeta, admissible, used>>

\* The next process reads the section, if it verifies.
load ==
    /\ pc = "down"
    /\ Loadable
    /\ records' = Loaded(groups, metaFile)
    /\ dataMeta' = metaFile
    /\ dirtyKeys' = {}
    /\ dirtyAll' = FALSE
    /\ admissible' = [k \in Keys |-> admissible[k] \cup {LoadedKey(groups, metaFile, k)}]
    /\ pc' = "idle"
    /\ plan' = NoPlan(metaFile)
    /\ UNCHANGED <<todo, diskVars, used, outages, scarred>>

Next ==
    \/ \E k \in Keys : remove_record(k) \/ \E v \in Values : insert_record(k, v)
    \/ touch_all
    \/ \E policy \in Policies : BeginFlush(policy)
    \/ \E g \in Groups : write_frames(g) \/ remove_group_beyond(g)
    \/ GroupsWritten
    \/ BeyondRemoved
    \/ sync_dir
    \/ write_meta
    \/ sync_meta
    \/ clear_dirty
    \/ FlushFails
    \/ Crash
    \/ PowerCut
    \/ load

Spec == Init /\ [][Next]_vars

-----------------------------------------------------------------------------

\* Every variable holds a value of its kind.
TypeOK ==
    /\ records \in Contents
    /\ dirtyKeys \in SUBSET Keys
    /\ dirtyAll \in BOOLEAN
    /\ dataMeta \in Moduli
    /\ pc \in {"idle", "groups", "beyond", "sync", "meta", "rename", "saved", "down"}
    /\ plan \in [modulus : Moduli, full : BOOLEAN, policy : Policies]
    /\ todo \in SUBSET Groups
    /\ groups \in [Groups -> Contents \cup {Torn}]
    /\ metaFile \in Moduli \cup {Torn}
    /\ unsynced \in SUBSET Groups
    /\ groupsMay \in [Groups -> SUBSET (Contents \cup {Torn})]
    /\ metaMay \in SUBSET (Moduli \cup {Torn})
    /\ admissible \in [Keys -> SUBSET (Values \cup {Absent})]
    /\ used \in SUBSET Policies
    /\ outages \in 0..MaxOutages
    /\ scarred \in BOOLEAN

\* What a restart at this instant would read: for every key a value the key
\* has held since the last flush that succeeded, never an older one and never
\* a missing one.
ReadsBack ==
    Loadable => \A k \in Keys : LoadedKey(groups, metaFile, k) \in admissible[k]

\* Every flush that keeps the modulus is crash safe at every step, under every
\* sync policy when the process dies and under Always and Meta when the power
\* goes; so is the section after any number of rehashes that ran to their end
\* (save_with_fsync, and flush_locked's error path that keeps the dirty keys).
CrashSafe == ~scarred /\ ~Rehashing => ReadsBack

\* A section whose every flush ran under Always opens after any crash, a
\* rehash in progress included: no file it names is torn.
AlwaysOpens == used \subseteq {"Always"} => Loadable

\* Once a flush has returned, memory and disk agree on every record: an
\* incremental flush that reads its groups back from disk loses none.
FlushIsExact ==
    pc = "saved" /\ ~scarred => Loadable /\ Loaded(groups, metaFile) = records

\* What the corruption policy says without exception: a section that opens
\* holds no record lost in silence, a rehash cut short included.
NeverSilentlyLost == "Never" \notin used => ReadsBack
-----------------------------------------------------------------------------
(***************************************************************************)
(* The inductive invariant behind CrashSafe and FlushIsExact, in parts.    *)
(***************************************************************************)

\* c may stand as group g of a section with this modulus: a key elsewhere is
\* not in it, and a key of its own has a value it may have.
WellPlaced(c, g, modulus) ==
    \A k \in Keys : IF group_of(k, modulus) = g THEN c[k] \in admissible[k]
                                                ELSE c[k] = Absent

\* Outside a rehash the section on disk is well placed under the modulus in
\* memory, and so is whatever a power cut may make of it.
SteadyInv ==
    ~scarred /\ ~Rehashing =>
        /\ metaFile = dataMeta
        /\ \A g \in 0..(dataMeta - 1) :
              groups[g] # Torn => WellPlaced(groups[g], g, dataMeta)
        /\ pc # "down" => \A g \in 0..(dataMeta - 1) : groups[g] # Torn
        /\ "Never" \notin used =>
              /\ metaMay = {dataMeta}
              /\ \A g \in 0..(dataMeta - 1) : \A c \in groupsMay[g] :
                    c # Torn => WellPlaced(c, g, dataMeta)

\* A key that is not dirty is on disk as it is in memory.
CleanInv ==
    /\ pc # "down" => \A k \in Keys : records[k] \in admissible[k]
    /\ pc # "down" /\ ~scarred /\ ~Rehashing =>
          \A k \in Keys \ dirtyKeys :
             groups[group_of(k, dataMeta)][k] = records[k]

\* The flush has put in place every group it no longer has to do.
ProgressInv ==
    Flushing /\ ~scarred =>
        /\ plan.policy \in used
        /\ plan.full =>
              \A g \in (0..(plan.modulus - 1)) \ todo : groups[g] = NewGroup(g)
        /\ ~plan.full =>
              /\ plan.modulus = dataMeta
              /\ \A k \in dirtyKeys : group_of(k, dataMeta) \notin todo =>
                    groups[group_of(k, dataMeta)][k] = records[k]

\* What each later stage of the flush may rely on.
StageInv ==
    /\ Flushing /\ pc # "groups" => todo = {}
    /\ pc \in {"meta", "rename", "saved"} /\ plan.policy # "Never" =>
          \A g \in Groups : groupsMay[g] \subseteq {groups[g], Torn}
    /\ pc \in {"rename", "saved"} => metaFile = plan.modulus
    /\ pc = "saved" => dataMeta = plan.modulus

IInv == TypeOK /\ SteadyInv /\ CleanInv /\ ProgressInv /\ StageInv
=============================================================================
