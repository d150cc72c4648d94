--------------------------- MODULE HashFileProofs ---------------------------
(***************************************************************************)
(* Proofs about HashFile for every set of keys, every hash function, every *)
(* bound on the modulus and every number of outages.                       *)
(***************************************************************************)
EXTENDS HashFile, WellFoundedInduction, FiniteSetTheorems, TLAPS

\* A set of naturals has a least element.
LEMMA HasLeast ==
    ASSUME NEW S \in SUBSET Nat, S # {}
    PROVE  \E x \in S : \A y \in S : x <= y
  <1> DEFINE less == {p \in Nat \X Nat : p[1] < p[2]}
  <1>1. IsWellFoundedOn(less, Nat)
    BY NatLessThanWellFounded DEF OpToRel
  <1>2. \E x \in S : \A y \in S : <<y, x>> \notin less
    <2> HIDE DEF less
    <2> QED BY <1>1, WFMin
  <1>3. PICK x \in S : \A y \in S : <<y, x>> \notin less
    BY <1>2
  <1>4. \A y \in S : ~(y < x)
    BY <1>3
  <1> QED BY <1>4

\* A set of naturals below a bound has a greatest one.
LEMMA HasGreatest ==
    ASSUME NEW n \in Nat, NEW S \in SUBSET (0..n), S # {}
    PROVE  \E x \in S : \A y \in S : y <= x
  <1> DEFINE T == {n - x : x \in S}
  <1>1. T \in SUBSET Nat /\ T # {}
    <2>1. \A x \in S : n - x \in Nat /\ n - x \in T
      OBVIOUS
    <2> QED BY <2>1
  <1>2. \E t \in T : \A u \in T : t <= u
    <2> HIDE DEF T
    <2> QED BY <1>1, HasLeast
  <1>3. PICK x \in S : \A y \in S : n - x <= n - y
    BY <1>2
  <1> QED BY <1>3

\* group_of names one of the section's group files, whatever the modulus.
LEMMA GroupInRange ==
    ASSUME NEW k \in Keys, NEW m \in Moduli
    PROVE  group_of(k, m) \in 0..(m - 1)
<1>1. Hash[k] \in Nat /\ m \in Nat /\ m > 0
    BY HashAssumption, ModuliAssumption
<1> QED
    BY <1>1 DEF group_of

\* The groups of every modulus are among the group files of the model.
LEMMA ModulusInGroups ==
    ASSUME NEW m \in Moduli
    PROVE  m \in Nat /\ m > 0 /\ 0..(m - 1) \subseteq Groups
<1>1. MaxModulus \in Moduli /\ \A l \in Moduli : l <= MaxModulus
    BY ModuliAssumption DEF MaxModulus
<1>2. m \in Nat /\ m > 0 /\ MaxModulus \in Nat /\ m <= MaxModulus
    BY <1>1, ModuliAssumption
<1> QED
    BY <1>2 DEF Groups

\* plan_modulus, grow or shrink or keep, answers one of the moduli.
LEMMA PlanInModuli ==
    ASSUME NEW current \in Moduli, NEW c \in Contents
    PROVE  plan_modulus(current, Cardinality(Stored(c))) \in Moduli
<1>1. IsFiniteSet(Stored(c)) /\ Cardinality(Stored(c)) <= Cardinality(Keys)
    BY KeysAssumption, FS_Subset, Stored(c) \subseteq Keys DEF Stored
<1>2. Cardinality(Stored(c)) \in Nat /\ Cardinality(Keys) \in Nat
    BY <1>1, KeysAssumption, FS_CardinalityType
<1>3. Cardinality(Stored(c)) \in 0..Cardinality(Keys)
    BY <1>1, <1>2
<1>4. target_modulus(Cardinality(Stored(c))) \in Moduli
    BY <1>3, TargetAssumption DEF target_modulus
<1> QED
    BY <1>4 DEF plan_modulus

\* When no group but a key's own holds it, load reads the key from its own.
LEMMA LoadedFromOwnGroup ==
    ASSUME NEW gs, NEW m \in Moduli, NEW k \in Keys,
           \A g \in 0..(m - 1) : g # group_of(k, m) => gs[g][k] = Absent
    PROVE  LoadedKey(gs, m, k) = gs[group_of(k, m)][k]
<1> DEFINE own == group_of(k, m)
           at == {g \in 0..(m - 1) : gs[g][k] # Absent}
<1>1. own \in 0..(m - 1)
    BY GroupInRange
<1>2. CASE gs[own][k] = Absent
    <2>1. at = {}
        BY <1>2
    <2> QED
        BY <2>1, <1>2 DEF LoadedKey
<1>3. CASE gs[own][k] # Absent
    <2>1. at = {own}
        BY <1>1, <1>3
    <2>2. own <= own
        BY <1>1
    <2>3. (CHOOSE g \in at : \A h \in at : h <= g) = own
        BY <2>1, <2>2
    <2> QED
        BY <2>1, <2>3 DEF LoadedKey
<1> QED
    BY <1>2, <1>3

-----------------------------------------------------------------------------

\* The group that holds nothing is a group.
LEMMA EmptyGroupType == EmptyGroup \in Contents
BY DEF EmptyGroup, Contents

\* The plan outside a flush is a plan.
LEMMA NoPlanType ==
    ASSUME NEW m \in Moduli
    PROVE  NoPlan(m) \in [modulus : Moduli, full : BOOLEAN, policy : Policies]
BY PolicyAssumption DEF NoPlan

\* What a flush puts in a group it can read is a group, never a torn one.
LEMMA NewGroupType ==
    ASSUME TypeOK, NEW g \in Groups, plan.full \/ groups[g] # Torn
    PROVE  NewGroup(g) \in Contents
<1>1. records \in Contents /\ (plan.full \/ groups[g] \in Contents)
    BY DEF TypeOK
<1> QED
    BY <1>1 DEF NewGroup, Contents

\* Replacing one group file keeps the disk well typed.
LEMMA PutGroupType ==
    ASSUME TypeOK, NEW g \in Groups, NEW c \in Contents, PutGroup(g, c)
    PROVE  /\ groups' \in [Groups -> Contents \cup {Torn}]
           /\ unsynced' \in SUBSET Groups
           /\ groupsMay' \in [Groups -> SUBSET (Contents \cup {Torn})]
BY DEF TypeOK, PutGroup

\* load answers a value or Absent for every key of a section that opens.
LEMMA LoadedType ==
    ASSUME TypeOK, Loadable, NEW k \in Keys
    PROVE  LoadedKey(groups, metaFile, k) \in Values \cup {Absent}
<1> DEFINE at == {g \in 0..(metaFile - 1) : groups[g][k] # Absent}
           last == CHOOSE g \in at : \A h \in at : h <= g
<1>1. metaFile \in Moduli
    BY DEF TypeOK, Loadable
<1>2. \A g \in 0..(metaFile - 1) : groups[g][k] \in Values \cup {Absent}
    BY <1>1, ModulusInGroups DEF TypeOK, Loadable, Contents
<1>3. CASE at = {}
    BY <1>3 DEF LoadedKey
<1>4. CASE at # {}
    <2>1. \E g \in at : \A h \in at : h <= g
        <3>1. metaFile - 1 \in Nat /\ at \in SUBSET (0..(metaFile - 1))
            BY <1>1, ModulusInGroups
        <3> HIDE DEF at
        <3> QED
            BY <3>1, <1>4, HasGreatest
    <2>2. last \in at
        BY <2>1
    <2> QED
        BY <2>2, <1>2, <1>4 DEF LoadedKey
<1> QED
    BY <1>3, <1>4

-----------------------------------------------------------------------------

\* The part every outage shares is well typed.
LEMMA OutageType ==
    ASSUME TypeOK, NEW next \in {"idle", "down"}, Outage(next)
    PROVE  /\ pc' \in {"idle", "down"}
           /\ plan' \in [modulus : Moduli, full : BOOLEAN, policy : Policies]
           /\ todo' \in SUBSET Groups
           /\ outages' \in 0..MaxOutages
<1>1. plan' = NoPlan(dataMeta) /\ dataMeta \in Moduli
    BY DEF Outage, TypeOK
<1>2. plan' \in [modulus : Moduli, full : BOOLEAN, policy : Policies]
    BY <1>1, NoPlanType
<1> QED
    BY <1>2, OutagesAssumption DEF Outage, TypeOK

\* An emptied table is well typed.
LEMMA MemoryLostType ==
    ASSUME MemoryLost
    PROVE  records' \in Contents /\ dirtyKeys' \in SUBSET Keys /\ dirtyAll' \in BOOLEAN
BY EmptyGroupType DEF MemoryLost

\* A new section is well typed.
LEMMA TypeInit == Init => TypeOK
<1>1. MinModulus \in Moduli /\ 0 \in 0..MaxOutages
    BY TargetAssumption, OutagesAssumption
<1>2. NoPlan(MinModulus) \in [modulus : Moduli, full : BOOLEAN, policy : Policies]
    BY <1>1, NoPlanType
<1>3. Init => /\ groups \in [Groups -> Contents \cup {Torn}]
              /\ groupsMay \in [Groups -> SUBSET (Contents \cup {Torn})]
              /\ admissible \in [Keys -> SUBSET (Values \cup {Absent})]
    BY EmptyGroupType DEF Init
<1> QED
    BY <1>1, <1>2, <1>3, EmptyGroupType DEF Init, TypeOK

\* Every step of the section keeps every variable well typed.
LEMMA TypeStep == TypeOK /\ [Next]_vars => TypeOK'
<1> SUFFICES ASSUME TypeOK, [Next]_vars PROVE TypeOK'
    OBVIOUS
<1> USE DEF memVars, diskVars, flushVars, historyVars
<1>1. ASSUME NEW k \in Keys, NEW v \in Values \cup {Absent}, Edit(k, v)
      PROVE  TypeOK'
    BY <1>1 DEF Edit, TypeOK, Contents
<1>2. CASE touch_all
    BY <1>2 DEF touch_all, TypeOK
<1>3. ASSUME NEW policy \in Policies, BeginFlush(policy)
      PROVE  TypeOK'
    <2> DEFINE modulus == plan_modulus(dataMeta, Cardinality(Stored(records)))
               full == dirtyAll \/ modulus # dataMeta
    <2>1. modulus \in Moduli
        BY PlanInModuli DEF TypeOK
    <2>2. 0..(modulus - 1) \subseteq Groups
        BY <2>1, ModulusInGroups
    <2>3. {group_of(k, modulus) : k \in dirtyKeys} \subseteq Groups
        BY <2>1, <2>2, GroupInRange DEF TypeOK
    <2>4. /\ pc' = "groups"
          /\ plan' = [modulus |-> modulus, full |-> full, policy |-> policy]
          /\ todo' = IF full THEN 0..(modulus - 1)
                     ELSE {group_of(k, modulus) : k \in dirtyKeys}
          /\ used' = used \cup {policy}
          /\ UNCHANGED <<memVars, dataMeta, diskVars, admissible, outages, scarred>>
        BY <1>3 DEF BeginFlush
    <2> HIDE DEF modulus
    <2>5. full \in BOOLEAN
        BY DEF TypeOK
    <2> HIDE DEF full
    <2>6. todo' \in SUBSET Groups
        BY <2>2, <2>3, <2>4
    <2>7. plan' \in [modulus : Moduli, full : BOOLEAN, policy : Policies]
        BY <2>1, <2>4, <2>5, <1>3
    <2> QED
        BY <2>4, <2>6, <2>7, <1>3 DEF TypeOK
<1>4. ASSUME NEW g \in Groups, write_frames(g)
      PROVE  TypeOK'
    <2>1. NewGroup(g) \in Contents /\ PutGroup(g, NewGroup(g))
        BY <1>4, NewGroupType DEF write_frames
    <2>2. /\ groups' \in [Groups -> Contents \cup {Torn}]
          /\ unsynced' \in SUBSET Groups
          /\ groupsMay' \in [Groups -> SUBSET (Contents \cup {Torn})]
        BY <2>1, PutGroupType
    <2> QED
        BY <1>4, <2>2 DEF write_frames, TypeOK
<1>5. ASSUME NEW g \in Groups, remove_group_beyond(g)
      PROVE  TypeOK'
    <2>1. /\ groups' \in [Groups -> Contents \cup {Torn}]
          /\ unsynced' \in SUBSET Groups
          /\ groupsMay' \in [Groups -> SUBSET (Contents \cup {Torn})]
        BY <1>5, PutGroupType, EmptyGroupType DEF remove_group_beyond
    <2> QED
        BY <1>5, <2>1 DEF remove_group_beyond, TypeOK
<1>6. CASE GroupsWritten
    BY <1>6 DEF GroupsWritten, TypeOK
<1>7. CASE BeyondRemoved
    BY <1>7 DEF BeyondRemoved, TypeOK
<1>8. CASE sync_dir
    BY <1>8 DEF sync_dir, TypeOK
<1>9. CASE write_meta
    BY <1>9 DEF write_meta, TypeOK
<1>10. CASE sync_meta
    BY <1>10 DEF sync_meta, TypeOK, Contents
<1>11. CASE clear_dirty
    BY <1>11, NoPlanType DEF clear_dirty, TypeOK
<1>12. CASE FlushFails
    BY <1>12, OutageType DEF FlushFails, TypeOK
<1>13. CASE Crash
    BY <1>13, OutageType, MemoryLostType DEF Crash, TypeOK
<1>14. CASE PowerCut
    <2>1. PICK choice \in [Groups -> UNION {groupsMay[g] : g \in Groups}] :
              /\ \A g \in Groups : choice[g] \in groupsMay[g]
              /\ groups' = choice
              /\ groupsMay' = [g \in Groups |-> {choice[g]}]
        BY <1>14 DEF PowerCut
    <2>2. \A g \in Groups : choice[g] \in Contents \cup {Torn}
        BY <2>1 DEF TypeOK
    <2>3. /\ groups' \in [Groups -> Contents \cup {Torn}]
          /\ groupsMay' \in [Groups -> SUBSET (Contents \cup {Torn})]
        BY <2>1, <2>2
    <2>4. metaFile' \in Moduli \cup {Torn} /\ metaMay' \in SUBSET (Moduli \cup {Torn})
        BY <1>14 DEF PowerCut, TypeOK
    <2> QED
        BY <1>14, <2>3, <2>4, OutageType, MemoryLostType DEF PowerCut, TypeOK
<1>15. CASE load
    <2>1. metaFile \in Moduli
        BY <1>15 DEF load, Loadable, TypeOK
    <2>2. \A k \in Keys : LoadedKey(groups, metaFile, k) \in Values \cup {Absent}
        BY <1>15, LoadedType DEF load
    <2>3. records' \in Contents
        BY <1>15, <2>2 DEF load, Loaded, Contents
    <2>4. admissible' \in [Keys -> SUBSET (Values \cup {Absent})]
        BY <1>15, <2>2 DEF load, TypeOK
    <2> QED
        BY <1>15, <2>1, <2>3, <2>4, NoPlanType DEF load, TypeOK
<1>16. CASE UNCHANGED vars
    BY <1>16 DEF vars, TypeOK
<1> QED
    BY <1>1, <1>2, <1>3, <1>4, <1>5, <1>6, <1>7, <1>8, <1>9, <1>10, <1>11,
       <1>12, <1>13, <1>14, <1>15, <1>16
       DEF Next, insert_record, remove_record

\* Every reachable state is well typed.
THEOREM TypeCorrect == Spec => []TypeOK
<1>1. Init => TypeOK
    BY TypeInit
<1>2. TypeOK /\ [Next]_vars => TypeOK'
    BY TypeStep
<1> QED
    BY <1>1, <1>2, PTL DEF Spec

-----------------------------------------------------------------------------

\* A key's own group, as a group of the section and of the model.
LEMMA OwnGroup ==
    ASSUME NEW k \in Keys, NEW m \in Moduli
    PROVE  group_of(k, m) \in 0..(m - 1) /\ group_of(k, m) \in Groups
BY GroupInRange, ModulusInGroups

\* Once every group of the flush is written, the section on disk is the table
\* in memory: each record in its own group and nowhere else, and nothing torn.
LEMMA WrittenOut ==
    ASSUME IInv, Flushing, pc # "groups", ~scarred,
           NEW g \in 0..(plan.modulus - 1)
    PROVE  /\ groups[g] # Torn
           /\ \A k \in Keys :
                 groups[g][k] = IF group_of(k, plan.modulus) = g
                                THEN records[k] ELSE Absent
<1> USE DEF IInv
<1>1. plan.modulus \in Moduli /\ todo = {} /\ g \in Groups
    BY ModulusInGroups DEF TypeOK, StageInv
<1>2. CASE plan.full
    <2>1. groups[g] = NewGroup(g) /\ NewGroup(g) \in Contents
        BY <1>1, <1>2, NewGroupType DEF ProgressInv
    <2> QED
        BY <2>1, <1>2, SentinelAssumption DEF NewGroup
<1>3. CASE ~plan.full
    <2>1. plan.modulus = dataMeta /\ ~Rehashing /\ pc # "down"
        BY <1>3 DEF ProgressInv, Rehashing, Flushing
    <2>2. groups[g] # Torn /\ WellPlaced(groups[g], g, dataMeta)
        BY <2>1 DEF SteadyInv
    <2>3. \A k \in Keys : group_of(k, dataMeta) = g => groups[g][k] = records[k]
        BY <1>1, <1>3, <2>1 DEF ProgressInv, CleanInv
    <2> QED
        BY <2>1, <2>2, <2>3 DEF WellPlaced
<1> QED
    BY <1>2, <1>3

\* A new section satisfies the inductive invariant.
LEMMA InvInit == Init => IInv
<1> SUFFICES ASSUME Init PROVE IInv
    OBVIOUS
<1>1. TypeOK
    BY TypeInit
<1>2. dataMeta \in Moduli /\ 0..(dataMeta - 1) \subseteq Groups
    BY <1>1, ModulusInGroups DEF TypeOK
<1>3. EmptyGroup # Torn /\ \A g \in Groups : WellPlaced(EmptyGroup, g, dataMeta)
    BY EmptyGroupType, SentinelAssumption DEF WellPlaced, EmptyGroup, Init
<1>4. SteadyInv
    BY <1>2, <1>3 DEF Init, SteadyInv
<1>5. CleanInv
    BY <1>2, OwnGroup DEF Init, CleanInv, EmptyGroup
<1>6. ProgressInv /\ StageInv
    BY DEF Init, ProgressInv, StageInv, Flushing
<1> QED
    BY <1>1, <1>4, <1>5, <1>6 DEF IInv

\* An edit of one record keeps the invariant: the value joins what the key may
\* have, and the key joins the dirty ones.
LEMMA InvEdit ==
    ASSUME IInv, TypeOK', NEW k \in Keys, NEW v \in Values \cup {Absent}, Edit(k, v)
    PROVE  IInv'
<1> USE DEF memVars, diskVars, flushVars
<1>1. /\ pc = "idle" /\ pc' = "idle" /\ ~Rehashing /\ ~Rehashing' /\ ~Flushing'
      /\ \A j \in Keys : admissible[j] \subseteq admissible'[j]
      /\ \A j \in Keys : j # k => records'[j] = records[j]
      /\ records'[k] = v /\ v \in admissible'[k]
      /\ dirtyKeys' = dirtyKeys \cup {k}
      /\ UNCHANGED <<dataMeta, groups, metaFile, groupsMay, metaMay, used, scarred>>
    BY DEF Edit, IInv, TypeOK, Contents, Rehashing, Flushing
<1>2. \A c, g, m : WellPlaced(c, g, m) => WellPlaced(c, g, m)'
    BY <1>1 DEF WellPlaced, group_of
<1>3. SteadyInv'
    BY <1>1, <1>2 DEF IInv, SteadyInv
<1>4. CleanInv'
    BY <1>1 DEF IInv, CleanInv, group_of
<1>5. ProgressInv' /\ StageInv'
    BY <1>1 DEF ProgressInv, StageInv, Flushing
<1> QED
    BY <1>3, <1>4, <1>5 DEF IInv

\* Planning a flush puts nothing on disk.
LEMMA InvBeginFlush ==
    ASSUME IInv, TypeOK', NEW policy \in Policies, BeginFlush(policy)
    PROVE  IInv'
<1> USE DEF memVars, diskVars, flushVars
<1> DEFINE modulus == plan_modulus(dataMeta, Cardinality(Stored(records)))
           full == dirtyAll \/ modulus # dataMeta
<1>1. /\ pc = "idle" /\ pc' = "groups" /\ ~Rehashing
      /\ plan' = [modulus |-> modulus, full |-> full, policy |-> policy]
      /\ todo' = IF full THEN 0..(modulus - 1)
                 ELSE {group_of(k, modulus) : k \in dirtyKeys}
      /\ used' = used \cup {policy}
      /\ UNCHANGED <<memVars, dataMeta, diskVars, admissible, scarred>>
    BY DEF BeginFlush, Rehashing, Flushing
<1> HIDE DEF modulus
<1>2. \A c, g, m : WellPlaced(c, g, m) => WellPlaced(c, g, m)'
    BY <1>1 DEF WellPlaced, group_of
<1>3. SteadyInv'
    BY <1>1, <1>2 DEF IInv, SteadyInv
<1>4. CleanInv'
    BY <1>1 DEF IInv, CleanInv, group_of
<1>5. ProgressInv'
    BY <1>1 DEF ProgressInv, group_of
<1>6. StageInv'
    BY <1>1 DEF StageInv
<1> QED
    BY <1>3, <1>4, <1>5, <1>6 DEF IInv

\* Writing one group of the plan.
LEMMA InvWriteFrames ==
    ASSUME IInv, TypeOK', NEW g \in Groups, write_frames(g)
    PROVE  IInv'
<1> USE DEF memVars, diskVars, flushVars, historyVars
<1> DEFINE c == NewGroup(g)
<1>1. c \in Contents /\ c # Torn
    BY NewGroupType, SentinelAssumption DEF write_frames, IInv
<1>2. /\ pc = "groups" /\ pc' = "groups" /\ g \in todo
      /\ plan.full \/ groups[g] # Torn
      /\ groups' = [groups EXCEPT ![g] = c]
      /\ groupsMay'[g] \subseteq groupsMay[g] \cup {c, Torn}
      /\ \A h \in Groups : h # g => groupsMay'[h] = groupsMay[h]
      /\ todo' = todo \ {g}
      /\ UNCHANGED <<memVars, dataMeta, plan, metaFile, metaMay, historyVars>>
    BY DEF write_frames, PutGroup, IInv, TypeOK
<1>3. /\ \A h \in Groups : h # g => groups'[h] = groups[h]
      /\ groups'[g] = c
    BY <1>2 DEF IInv, TypeOK
<1>4. Rehashing' = Rehashing /\ Flushing' /\ Flushing
    BY <1>2 DEF Rehashing, Flushing
<1>5. \A d, h, m : WellPlaced(d, h, m) => WellPlaced(d, h, m)'
    BY <1>2 DEF WellPlaced, group_of
<1>6. dataMeta \in Moduli /\ plan.modulus \in Moduli
    BY DEF IInv, TypeOK
<1>7. \A k \in Keys : group_of(k, plan.modulus) = g =>
          (plan.full \/ k \in dirtyKeys => c[k] = records[k])
    BY DEF NewGroup
<1>8. ~scarred /\ ~Rehashing /\ g \in 0..(dataMeta - 1) => WellPlaced(c, g, dataMeta)
    <2> SUFFICES ASSUME ~scarred, ~Rehashing, g \in 0..(dataMeta - 1), NEW k \in Keys
                 PROVE  IF group_of(k, dataMeta) = g THEN c[k] \in admissible[k]
                                                     ELSE c[k] = Absent
        BY DEF WellPlaced
    <2>1. plan.modulus = dataMeta /\ records[k] \in admissible[k]
        BY <1>2, <1>4 DEF Rehashing, IInv, CleanInv
    <2>2. CASE plan.full
        BY <2>1, <2>2 DEF NewGroup
    <2>3. CASE ~plan.full
        <3>1. WellPlaced(groups[g], g, dataMeta)
            BY <2>3, <1>2 DEF IInv, SteadyInv
        <3> QED
            BY <2>1, <2>3, <3>1 DEF NewGroup, WellPlaced
    <2> QED
        BY <2>2, <2>3
<1> HIDE DEF c
<1>9. SteadyInv'
    <2> SUFFICES ASSUME ~scarred, ~Rehashing PROVE SteadyInv'
        BY <1>2, <1>4 DEF SteadyInv
    <2>1. 0..(dataMeta - 1) \subseteq Groups
        BY <1>6, ModulusInGroups
    <2>2. \A h \in 0..(dataMeta - 1) :
             groups'[h] # Torn /\ WellPlaced(groups'[h], h, dataMeta)
        BY <1>1, <1>2, <1>3, <1>8, <2>1 DEF IInv, SteadyInv
    <2>3. "Never" \notin used =>
             \A h \in 0..(dataMeta - 1) : \A d \in groupsMay'[h] :
                 d # Torn => WellPlaced(d, h, dataMeta)
        BY <1>2, <1>8, <2>1 DEF IInv, SteadyInv
    <2> QED
        BY <1>2, <1>5, <2>2, <2>3 DEF IInv, SteadyInv
<1>10. CleanInv'
    <2> SUFFICES ASSUME ~scarred, ~Rehashing, NEW k \in Keys \ dirtyKeys
                 PROVE  groups'[group_of(k, dataMeta)][k] = records[k]
        BY <1>2, <1>4 DEF IInv, CleanInv, group_of
    <2>1. plan.modulus = dataMeta
        BY <1>4 DEF Rehashing
    <2>2. groups[group_of(k, dataMeta)][k] = records[k]
        BY <1>2 DEF IInv, CleanInv
    <2>3. CASE group_of(k, dataMeta) = g
        BY <1>3, <2>1, <2>2, <2>3 DEF c, NewGroup
    <2>4. CASE group_of(k, dataMeta) # g
        BY <1>3, <1>6, <2>2, <2>4, OwnGroup
    <2> QED
        BY <2>3, <2>4
<1>11. ProgressInv'
    <2> SUFFICES ASSUME ~scarred PROVE ProgressInv'
        BY <1>2 DEF ProgressInv
    <2>1. plan.full =>
            \A h \in (0..(plan.modulus - 1)) \ todo' : groups'[h] = NewGroup(h)'
        <3> SUFFICES ASSUME plan.full, NEW h \in (0..(plan.modulus - 1)) \ todo'
                     PROVE  groups'[h] = NewGroup(h)'
            OBVIOUS
        <3>1. NewGroup(h)' = NewGroup(h) /\ h \in Groups
            BY <1>2, <1>6, ModulusInGroups DEF NewGroup, group_of
        <3>2. CASE h = g
            BY <3>1, <3>2, <1>3 DEF c
        <3>3. CASE h # g
            BY <3>1, <3>3, <1>2, <1>3, <1>4 DEF IInv, ProgressInv
        <3> QED
            BY <3>2, <3>3
    <2>2. ~plan.full =>
              /\ plan.modulus = dataMeta
              /\ \A k \in dirtyKeys : group_of(k, dataMeta) \notin todo' =>
                    groups'[group_of(k, dataMeta)][k] = records[k]
        <3> SUFFICES ASSUME ~plan.full, NEW k \in dirtyKeys,
                            group_of(k, dataMeta) \notin todo'
                     PROVE  groups'[group_of(k, dataMeta)][k] = records[k]
            BY <1>4 DEF IInv, ProgressInv
        <3>1. plan.modulus = dataMeta /\ k \in Keys
            BY <1>4 DEF IInv, ProgressInv, TypeOK
        <3>2. CASE group_of(k, dataMeta) = g
            BY <1>3, <1>7, <3>1, <3>2
        <3>3. CASE group_of(k, dataMeta) # g
            BY <1>2, <1>3, <1>4, <1>6, <3>1, <3>3, OwnGroup DEF IInv, ProgressInv
        <3> QED
            BY <3>2, <3>3
    <2> QED
        BY <1>2, <1>4, <2>1, <2>2 DEF IInv, ProgressInv, group_of
<1>12. StageInv'
    BY <1>2 DEF StageInv
<1> QED
    BY <1>9, <1>10, <1>11, <1>12 DEF IInv

\* Removing a group beyond the new modulus.
LEMMA InvRemoveBeyond ==
    ASSUME IInv, TypeOK', NEW g \in Groups, remove_group_beyond(g)
    PROVE  IInv'
<1> USE DEF memVars, diskVars, flushVars, historyVars
<1>1. /\ pc = "beyond" /\ pc' = "beyond" /\ g >= plan.modulus
      /\ \A h \in Groups : h # g => groups'[h] = groups[h] /\ groupsMay'[h] = groupsMay[h]
      /\ UNCHANGED <<memVars, dataMeta, flushVars, metaFile, metaMay, historyVars>>
    BY DEF remove_group_beyond, PutGroup, IInv, TypeOK
<1>2. /\ dataMeta \in Moduli /\ plan.modulus \in Moduli
      /\ Flushing /\ Flushing' /\ Rehashing' = Rehashing
    BY <1>1 DEF Rehashing, Flushing, IInv, TypeOK
<1>3. \A h \in 0..(plan.modulus - 1) :
          h \in Groups /\ groups'[h] = groups[h] /\ groupsMay'[h] = groupsMay[h]
    BY <1>1, <1>2, ModulusInGroups DEF Groups
<1>4. ~Rehashing => plan.modulus = dataMeta
    BY <1>2 DEF Rehashing
<1>5. \A c, h, m : WellPlaced(c, h, m) => WellPlaced(c, h, m)'
    BY <1>1 DEF WellPlaced, group_of
<1>6. SteadyInv'
    BY <1>1, <1>2, <1>3, <1>4, <1>5 DEF IInv, SteadyInv
<1>7. CleanInv'
    BY <1>1, <1>2, <1>3, <1>4, OwnGroup DEF IInv, CleanInv, group_of
<1>8. ProgressInv'
    <2> SUFFICES ASSUME ~scarred PROVE ProgressInv'
        BY <1>1 DEF ProgressInv
    <2>1. ASSUME plan.full, NEW h \in (0..(plan.modulus - 1)) \ todo
          PROVE  groups'[h] = NewGroup(h)'
        <3>1. NewGroup(h)' = NewGroup(h)
            BY <1>1, <2>1 DEF NewGroup, group_of
        <3> QED
            BY <3>1, <2>1, <1>2, <1>3 DEF IInv, ProgressInv
    <2>2. ASSUME ~plan.full, NEW k \in dirtyKeys, group_of(k, dataMeta) \notin todo
          PROVE  groups'[group_of(k, dataMeta)][k] = records[k]
        <3>1. plan.modulus = dataMeta /\ k \in Keys
            BY <1>2, <2>2 DEF IInv, ProgressInv, TypeOK
        <3> QED
            BY <3>1, <2>2, <1>2, <1>3, OwnGroup DEF IInv, ProgressInv
    <2> QED
        BY <1>1, <1>2, <2>1, <2>2 DEF IInv, ProgressInv, group_of
<1>9. StageInv'
    BY <1>1, <1>2 DEF StageInv, IInv
<1> QED
    BY <1>6, <1>7, <1>8, <1>9 DEF IInv

\* The steps between the files that change no file: the flush moves on.
LEMMA InvMoveOn ==
    ASSUME IInv, TypeOK', GroupsWritten \/ BeyondRemoved
    PROVE  IInv'
<1> USE DEF memVars, diskVars, flushVars, historyVars
<1>1. /\ Flushing /\ Flushing' /\ pc # "down" /\ pc' # "down" /\ todo = {}
      /\ pc' \notin {"groups", "meta", "rename", "saved"}
      /\ UNCHANGED <<memVars, dataMeta, plan, todo, diskVars, historyVars>>
    BY DEF GroupsWritten, BeyondRemoved, IInv, StageInv, Flushing
<1>2. Rehashing' = Rehashing
    BY <1>1 DEF Rehashing
<1>3. \A c, h, m : WellPlaced(c, h, m) => WellPlaced(c, h, m)'
    BY <1>1 DEF WellPlaced, group_of
<1>4. \A g : NewGroup(g)' = NewGroup(g)
    BY <1>1 DEF NewGroup, group_of
<1>5. SteadyInv'
    BY <1>1, <1>2, <1>3 DEF IInv, SteadyInv
<1>6. CleanInv'
    BY <1>1, <1>2 DEF IInv, CleanInv, group_of
<1>7. ProgressInv'
    BY <1>1, <1>4 DEF IInv, ProgressInv, group_of
<1>8. StageInv'
    BY <1>1 DEF StageInv
<1> QED
    BY <1>5, <1>6, <1>7, <1>8 DEF IInv

\* The directory sync only narrows what a power cut may leave.
LEMMA InvSyncDir ==
    ASSUME IInv, TypeOK', sync_dir
    PROVE  IInv'
<1> USE DEF memVars, diskVars, flushVars, historyVars
<1>1. /\ pc = "sync" /\ pc' = "meta" /\ Flushing /\ Flushing'
      /\ groupsMay' = IF plan.policy # "Never"
                      THEN [g \in Groups |->
                              {groups[g]} \cup (IF g \in unsynced THEN {Torn} ELSE {})]
                      ELSE groupsMay
      /\ UNCHANGED <<memVars, dataMeta, plan, todo, groups, metaFile, metaMay, historyVars>>
    BY DEF sync_dir, syncs_meta, Flushing
<1>2. Rehashing' = Rehashing /\ dataMeta \in Moduli /\ 0..(dataMeta - 1) \subseteq Groups
    BY <1>1, ModulusInGroups DEF Rehashing, IInv, TypeOK
<1>3. \A c, h, m : WellPlaced(c, h, m) => WellPlaced(c, h, m)'
    BY <1>1 DEF WellPlaced, group_of
<1>4. \A g : NewGroup(g)' = NewGroup(g)
    BY <1>1 DEF NewGroup, group_of
<1>5. SteadyInv'
    <2> SUFFICES ASSUME ~scarred, ~Rehashing PROVE SteadyInv'
        BY <1>1, <1>2 DEF SteadyInv
    <2>1. ASSUME "Never" \notin used, NEW g \in 0..(dataMeta - 1), NEW c \in groupsMay'[g],
                 c # Torn
          PROVE  WellPlaced(c, g, dataMeta)
        BY <1>1, <1>2, <2>1 DEF IInv, SteadyInv
    <2> QED
        BY <1>1, <1>2, <1>3, <2>1 DEF IInv, SteadyInv
<1>6. CleanInv'
    BY <1>1, <1>2 DEF IInv, CleanInv, group_of
<1>7. ProgressInv'
    BY <1>1, <1>4 DEF IInv, ProgressInv, group_of
<1>8. StageInv'
    BY <1>1 DEF StageInv, IInv
<1> QED
    BY <1>5, <1>6, <1>7, <1>8 DEF IInv

\* The meta file is renamed into place over a section that is written out.
LEMMA InvWriteMeta ==
    ASSUME IInv, TypeOK', write_meta
    PROVE  IInv'
<1> USE DEF memVars, diskVars, flushVars, historyVars
<1>1. /\ pc = "meta" /\ pc' = "rename" /\ Flushing /\ Flushing'
      /\ metaFile' = plan.modulus
      /\ metaMay' = metaMay \cup {plan.modulus}
                            \cup (IF plan.policy # "Never" THEN {} ELSE {Torn})
      /\ UNCHANGED <<memVars, dataMeta, plan, todo, groups, groupsMay, historyVars>>
    BY DEF write_meta, syncs_meta, Flushing
<1>2. Rehashing' = Rehashing
    BY <1>1 DEF Rehashing
<1>3. \A c, h, m : WellPlaced(c, h, m) => WellPlaced(c, h, m)'
    BY <1>1 DEF WellPlaced, group_of
<1>4. \A g : NewGroup(g)' = NewGroup(g)
    BY <1>1 DEF NewGroup, group_of
<1>5. SteadyInv'
    <2> SUFFICES ASSUME ~scarred, ~Rehashing PROVE SteadyInv'
        BY <1>1, <1>2 DEF SteadyInv
    <2>1. plan.modulus = dataMeta /\ plan.policy \in used
        BY <1>1 DEF Rehashing, IInv, ProgressInv
    <2> QED
        BY <1>1, <1>2, <1>3, <2>1 DEF IInv, SteadyInv
<1>6. CleanInv'
    BY <1>1, <1>2 DEF IInv, CleanInv, group_of
<1>7. ProgressInv'
    BY <1>1, <1>4 DEF IInv, ProgressInv, group_of
<1>8. StageInv'
    BY <1>1 DEF StageInv, IInv
<1> QED
    BY <1>5, <1>6, <1>7, <1>8 DEF IInv

\* save_with_fsync returns: memory's modulus moves to the plan's, over a
\* section that is exactly the table.
LEMMA InvSyncMeta ==
    ASSUME IInv, TypeOK', sync_meta
    PROVE  IInv'
<1> USE DEF memVars, diskVars, flushVars, historyVars
<1>1. /\ pc = "rename" /\ pc' = "saved" /\ Flushing /\ Flushing' /\ pc # "groups"
      /\ metaMay' = IF plan.policy # "Never" THEN {plan.modulus} ELSE metaMay
      /\ dataMeta' = plan.modulus
      /\ admissible' = [k \in Keys |-> {records[k]}]
      /\ UNCHANGED <<memVars, plan, todo, groups, metaFile, groupsMay, used, scarred>>
    BY DEF sync_meta, syncs_meta, Flushing
<1>2. /\ plan.modulus \in Moduli /\ 0..(plan.modulus - 1) \subseteq Groups
      /\ metaFile = plan.modulus /\ todo = {}
    BY <1>1, ModulusInGroups DEF IInv, TypeOK, StageInv
<1>3. \A g : NewGroup(g)' = NewGroup(g)
    BY <1>1 DEF NewGroup, group_of
<1>4. ~scarred => \A g \in 0..(plan.modulus - 1) :
          groups[g] # Torn /\ WellPlaced(groups[g], g, plan.modulus)'
    <2> SUFFICES ASSUME ~scarred, NEW g \in 0..(plan.modulus - 1)
                 PROVE  groups[g] # Torn /\ WellPlaced(groups[g], g, plan.modulus)'
        OBVIOUS
    <2>1. /\ groups[g] # Torn
          /\ \A k \in Keys :
                groups[g][k] = IF group_of(k, plan.modulus) = g
                               THEN records[k] ELSE Absent
        BY <1>1, WrittenOut
    <2> QED
        BY <1>1, <2>1 DEF WellPlaced, group_of
<1>5. ~scarred => \A k \in Keys : groups[group_of(k, plan.modulus)][k] = records[k]
    <2> SUFFICES ASSUME ~scarred, NEW k \in Keys
                 PROVE  groups[group_of(k, plan.modulus)][k] = records[k]
        OBVIOUS
    <2> DEFINE own == group_of(k, plan.modulus)
    <2>1. own \in 0..(plan.modulus - 1)
        BY <1>2, GroupInRange
    <2> HIDE DEF own
    <2>2. groups[own][k] = IF group_of(k, plan.modulus) = own THEN records[k] ELSE Absent
        BY <1>1, <2>1, WrittenOut
    <2> QED
        BY <2>2 DEF own
<1>6. SteadyInv'
    <2> SUFFICES ASSUME ~scarred PROVE SteadyInv'
        BY <1>1 DEF SteadyInv
    <2>1. "Never" \notin used =>
              /\ metaMay' = {plan.modulus}
              /\ \A g \in Groups : groupsMay[g] \subseteq {groups[g], Torn}
        BY <1>1 DEF IInv, ProgressInv, StageInv
    <2> QED
        BY <1>1, <1>2, <1>4, <2>1 DEF SteadyInv
<1>7. CleanInv'
    BY <1>1, <1>2, <1>5 DEF CleanInv, group_of
<1>8. ProgressInv'
    BY <1>1, <1>2, <1>3, <1>5 DEF IInv, ProgressInv, TypeOK, group_of
<1>9. StageInv'
    BY <1>1, <1>2 DEF StageInv, IInv
<1> QED
    BY <1>6, <1>7, <1>8, <1>9 DEF IInv

\* The flush ends: nothing is dirty any more, and nothing differs.
LEMMA InvClearDirty ==
    ASSUME IInv, TypeOK', clear_dirty
    PROVE  IInv'
<1> USE DEF memVars, diskVars, flushVars, historyVars
<1>1. /\ pc = "saved" /\ pc' = "idle" /\ Flushing /\ ~Flushing' /\ pc # "groups"
      /\ UNCHANGED <<records, dataMeta, todo, diskVars, historyVars>>
    BY DEF clear_dirty, Flushing
<1>2. /\ plan.modulus = dataMeta /\ dataMeta \in Moduli
      /\ ~Rehashing /\ ~Rehashing'
    BY <1>1 DEF Rehashing, IInv, StageInv, TypeOK
<1>3. \A c, h, m : WellPlaced(c, h, m) => WellPlaced(c, h, m)'
    BY <1>1 DEF WellPlaced, group_of
<1>4. SteadyInv'
    BY <1>1, <1>2, <1>3 DEF IInv, SteadyInv
<1>5. CleanInv'
    <2>1. ASSUME ~scarred, NEW k \in Keys
          PROVE  groups[group_of(k, dataMeta)][k] = records[k]
        <3> DEFINE own == group_of(k, dataMeta)
        <3>1. own \in 0..(dataMeta - 1)
            BY <1>2, GroupInRange
        <3> HIDE DEF own
        <3>2. groups[own][k] = IF group_of(k, plan.modulus) = own
                               THEN records[k] ELSE Absent
            BY <1>1, <1>2, <2>1, <3>1, WrittenOut
        <3> QED
            BY <1>2, <3>2 DEF own
    <2> QED
        BY <1>1, <1>2, <2>1 DEF IInv, CleanInv, group_of
<1>6. ProgressInv' /\ StageInv'
    BY <1>1 DEF ProgressInv, StageInv, Flushing
<1> QED
    BY <1>4, <1>5, <1>6 DEF IInv

\* A flush that fails outside a rehash leaves a section that still reads back
\* and every dirty key dirty.
LEMMA InvFlushFails ==
    ASSUME IInv, TypeOK', FlushFails
    PROVE  IInv'
<1> USE DEF memVars, diskVars
<1>1. /\ Flushing /\ pc # "down" /\ pc' = "idle" /\ ~Flushing' /\ ~Rehashing'
      /\ scarred' = (scarred \/ Rehashing)
      /\ UNCHANGED <<memVars, dataMeta, diskVars, admissible, used>>
    BY DEF FlushFails, Outage, Flushing, Rehashing
<1>2. \A c, h, m : WellPlaced(c, h, m) => WellPlaced(c, h, m)'
    BY <1>1 DEF WellPlaced, group_of
<1>3. SteadyInv'
    BY <1>1, <1>2 DEF IInv, SteadyInv
<1>4. CleanInv'
    BY <1>1 DEF IInv, CleanInv, group_of
<1>5. ProgressInv' /\ StageInv'
    BY <1>1 DEF ProgressInv, StageInv, Flushing
<1> QED
    BY <1>3, <1>4, <1>5 DEF IInv

\* The process dies outside a rehash.
LEMMA InvCrash ==
    ASSUME IInv, TypeOK', Crash
    PROVE  IInv'
<1> USE DEF diskVars
<1>1. /\ pc # "down" /\ pc' = "down" /\ ~Flushing' /\ ~Rehashing'
      /\ scarred' = (scarred \/ Rehashing)
      /\ UNCHANGED <<dataMeta, diskVars, admissible, used>>
    BY DEF Crash, Outage, Flushing, Rehashing
<1>2. \A c, h, m : WellPlaced(c, h, m) => WellPlaced(c, h, m)'
    BY <1>1 DEF WellPlaced, group_of
<1>3. SteadyInv'
    BY <1>1, <1>2 DEF IInv, SteadyInv
<1>4. CleanInv' /\ ProgressInv' /\ StageInv'
    BY <1>1 DEF CleanInv, ProgressInv, StageInv, Flushing
<1> QED
    BY <1>3, <1>4 DEF IInv

\* The power fails outside a rehash, and no flush ran unsynced: whatever is
\* left of a group is well placed, or visibly torn.
LEMMA InvPowerCut ==
    ASSUME IInv, TypeOK', PowerCut
    PROVE  IInv'
<1>1. /\ pc # "down" /\ pc' = "down" /\ ~Flushing' /\ ~Rehashing'
      /\ scarred' = (scarred \/ Rehashing \/ "Never" \in used)
      /\ UNCHANGED <<dataMeta, admissible, used>>
      /\ metaFile' \in metaMay /\ metaMay' = {metaFile'}
    BY DEF PowerCut, Outage, Flushing, Rehashing
<1>2. /\ \A g \in Groups : groups'[g] \in groupsMay[g]
      /\ \A g \in Groups : groupsMay'[g] = {groups'[g]}
    <2>1. PICK choice \in [Groups -> UNION {groupsMay[g] : g \in Groups}] :
              /\ \A g \in Groups : choice[g] \in groupsMay[g]
              /\ groups' = choice
              /\ groupsMay' = [g \in Groups |-> {choice[g]}]
        BY DEF PowerCut
    <2> QED
        BY <2>1
<1>3. \A c, h, m : WellPlaced(c, h, m) => WellPlaced(c, h, m)'
    BY <1>1 DEF WellPlaced, group_of
<1>4. SteadyInv'
    <2> SUFFICES ASSUME ~scarred, ~Rehashing, "Never" \notin used PROVE SteadyInv'
        BY <1>1 DEF SteadyInv
    <2>1. 0..(dataMeta - 1) \subseteq Groups
        BY ModulusInGroups DEF IInv, TypeOK
    <2>2. metaFile' = dataMeta
        BY <1>1 DEF IInv, SteadyInv
    <2>3. \A g \in 0..(dataMeta - 1) :
             groups'[g] # Torn => WellPlaced(groups'[g], g, dataMeta)
        BY <1>2, <2>1 DEF IInv, SteadyInv
    <2> QED
        BY <1>1, <1>2, <1>3, <2>1, <2>2, <2>3 DEF SteadyInv
<1>5. CleanInv' /\ ProgressInv' /\ StageInv'
    BY <1>1 DEF CleanInv, ProgressInv, StageInv, Flushing
<1> QED
    BY <1>4, <1>5 DEF IInv

\* In a well-placed section that opens, load answers for every key what the
\* key's own group holds, which is a value the key may have.
LEMMA LoadReadsOwn ==
    ASSUME IInv, Loadable, ~scarred, ~Rehashing, NEW k \in Keys
    PROVE  /\ LoadedKey(groups, metaFile, k) = groups[group_of(k, dataMeta)][k]
           /\ LoadedKey(groups, metaFile, k) \in admissible[k]
<1>1. metaFile = dataMeta /\ dataMeta \in Moduli
    BY DEF IInv, SteadyInv, TypeOK
<1>2. \A g \in 0..(dataMeta - 1) : WellPlaced(groups[g], g, dataMeta)
    BY <1>1 DEF IInv, SteadyInv, Loadable
<1>3. \A g \in 0..(dataMeta - 1) : g # group_of(k, dataMeta) => groups[g][k] = Absent
    BY <1>2 DEF WellPlaced
<1>4. LoadedKey(groups, dataMeta, k) = groups[group_of(k, dataMeta)][k]
    BY <1>1, <1>3, LoadedFromOwnGroup
<1>5. groups[group_of(k, dataMeta)][k] \in admissible[k]
    BY <1>1, <1>2, GroupInRange DEF WellPlaced
<1> QED
    BY <1>1, <1>4, <1>5

\* The next process starts from a table that agrees with the disk.
LEMMA InvLoad ==
    ASSUME IInv, TypeOK', load
    PROVE  IInv'
<1> USE DEF diskVars
<1>1. /\ pc = "down" /\ pc' = "idle" /\ ~Flushing /\ ~Flushing'
      /\ ~Rehashing /\ ~Rehashing' /\ Loadable
      /\ records' = [k \in Keys |-> LoadedKey(groups, metaFile, k)]
      /\ dataMeta' = metaFile
      /\ admissible' = [k \in Keys |->
                          admissible[k] \cup {LoadedKey(groups, metaFile, k)}]
      /\ UNCHANGED <<diskVars, used, scarred>>
    BY DEF load, Loaded, Flushing, Rehashing
<1>2. \A c, h, m : WellPlaced(c, h, m) => WellPlaced(c, h, m)'
    <2>1. \A k \in Keys : admissible[k] \subseteq admissible'[k]
        BY <1>1
    <2> QED
        BY <2>1 DEF WellPlaced, group_of
<1>3. SteadyInv'
    BY <1>1, <1>2 DEF IInv, SteadyInv, Loadable
<1>4. CleanInv'
    <2>1. \A k \in Keys : records'[k] \in admissible'[k]
        BY <1>1
    <2>2. ~scarred => \A k \in Keys :
              groups[group_of(k, metaFile)][k] = records'[k]
        BY <1>1, LoadReadsOwn DEF IInv, SteadyInv
    <2> QED
        BY <1>1, <2>1, <2>2 DEF CleanInv, group_of
<1>5. ProgressInv' /\ StageInv'
    BY <1>1 DEF ProgressInv, StageInv, Flushing
<1> QED
    BY <1>3, <1>4, <1>5 DEF IInv

\* Marking everything dirty, and stuttering, disturb nothing.
LEMMA InvQuiet ==
    ASSUME IInv, TypeOK', touch_all \/ UNCHANGED vars
    PROVE  IInv'
<1> USE DEF diskVars, flushVars, historyVars, memVars, vars
<1>1. UNCHANGED <<records, dirtyKeys, dataMeta, pc, plan, todo, groups, metaFile,
                  groupsMay, metaMay, admissible, used, scarred>>
    BY DEF touch_all
<1>2. Flushing' = Flushing /\ Rehashing' = Rehashing
    BY <1>1 DEF Flushing, Rehashing
<1>3. \A c, h, m : WellPlaced(c, h, m)' = WellPlaced(c, h, m)
    BY <1>1 DEF WellPlaced, group_of
<1>4. \A g : NewGroup(g)' = NewGroup(g)
    BY <1>1 DEF NewGroup, group_of
<1>5. SteadyInv'
    BY <1>1, <1>2, <1>3 DEF IInv, SteadyInv
<1>6. CleanInv'
    BY <1>1, <1>2 DEF IInv, CleanInv, group_of
<1>7. ProgressInv' /\ StageInv'
    BY <1>1, <1>2, <1>4 DEF IInv, ProgressInv, StageInv, group_of
<1> QED
    BY <1>5, <1>6, <1>7 DEF IInv

\* Every step of the section preserves the invariant.
LEMMA InvStep == IInv /\ [Next]_vars => IInv'
<1> SUFFICES ASSUME IInv, [Next]_vars PROVE IInv'
    OBVIOUS
<1>1. TypeOK'
    BY TypeStep DEF IInv
<1>2. ASSUME NEW k \in Keys, remove_record(k) \/ \E v \in Values : insert_record(k, v)
      PROVE  IInv'
    BY <1>1, <1>2, InvEdit DEF remove_record, insert_record
<1>3. ASSUME NEW policy \in Policies, BeginFlush(policy) PROVE IInv'
    BY <1>1, <1>3, InvBeginFlush
<1>4. ASSUME NEW g \in Groups, write_frames(g) \/ remove_group_beyond(g) PROVE IInv'
    BY <1>1, <1>4, InvWriteFrames, InvRemoveBeyond
<1>5. CASE GroupsWritten \/ BeyondRemoved
    BY <1>1, <1>5, InvMoveOn
<1>6. CASE sync_dir \/ write_meta \/ sync_meta \/ clear_dirty
    BY <1>1, <1>6, InvSyncDir, InvWriteMeta, InvSyncMeta, InvClearDirty
<1>7. CASE FlushFails \/ Crash \/ PowerCut \/ load
    BY <1>1, <1>7, InvFlushFails, InvCrash, InvPowerCut, InvLoad
<1>8. CASE touch_all \/ UNCHANGED vars
    BY <1>1, <1>8, InvQuiet
<1> QED
    BY <1>2, <1>3, <1>4, <1>5, <1>6, <1>7, <1>8 DEF Next

\* The inductive invariant holds throughout.
THEOREM InvHolds == Spec => []IInv
<1>1. Init => IInv
    BY InvInit
<1>2. IInv /\ [Next]_vars => IInv'
    BY InvStep
<1> QED
    BY <1>1, <1>2, PTL DEF Spec

\* Whatever the hash function, the number of keys and of outages: as long as
\* no rehash was cut short and no power lost after an unsynced flush, a restart
\* at any step of any flush reads for every key a value the key has held since
\* the last flush that returned (save_with_fsync under flush_locked).
THEOREM CrashSafety == Spec => []CrashSafe
<1>1. IInv => CrashSafe
    BY LoadReadsOwn DEF CrashSafe, ReadsBack
<1> QED
    BY <1>1, InvHolds, PTL

\* When a flush returns, the section on disk is the table in memory, record
\* for record, the keys an incremental flush never looked at included.
THEOREM FlushExactness == Spec => []FlushIsExact
<1>1. IInv => FlushIsExact
    <2> SUFFICES ASSUME IInv, pc = "saved", ~scarred
                 PROVE  Loadable /\ Loaded(groups, metaFile) = records
        BY DEF FlushIsExact
    <2>1. /\ Flushing /\ pc # "groups" /\ plan.modulus = dataMeta /\ ~Rehashing
          /\ metaFile = dataMeta /\ dataMeta \in Moduli
        BY DEF Flushing, Rehashing, IInv, StageInv, TypeOK
    <2>2. \A g \in 0..(dataMeta - 1) : groups[g] # Torn
        BY <2>1, WrittenOut
    <2>3. Loadable
        BY <2>1, <2>2, ModuliAssumption DEF Loadable
    <2>4. ASSUME NEW k \in Keys PROVE LoadedKey(groups, metaFile, k) = records[k]
        <3> DEFINE own == group_of(k, dataMeta)
        <3>1. own \in 0..(dataMeta - 1)
            BY <2>1, GroupInRange
        <3> HIDE DEF own
        <3>2. groups[own][k] = IF group_of(k, plan.modulus) = own
                               THEN records[k] ELSE Absent
            BY <2>1, <3>1, WrittenOut
        <3>3. LoadedKey(groups, metaFile, k) = groups[group_of(k, dataMeta)][k]
            BY <2>1, <2>3, LoadReadsOwn
        <3> QED
            BY <2>1, <3>2, <3>3 DEF own
    <2>5. records = [k \in Keys |-> records[k]]
        BY DEF IInv, TypeOK, Contents
    <2> QED
        BY <2>3, <2>4, <2>5 DEF Loaded
<1> QED
    BY <1>1, InvHolds, PTL

-----------------------------------------------------------------------------
(* A section that is always synced.  Nothing here depends on the modulus,   *)
(* so a rehash cut short is no exception.                                   *)

\* While every flush has run under Always no file is torn, no power cut can tear
\* one, and the flush under way syncs its groups as well.
OpenInv ==
    used \subseteq {"Always"} =>
        /\ metaFile # Torn /\ Torn \notin metaMay /\ unsynced = {}
        /\ \A g \in Groups : groups[g] # Torn /\ Torn \notin groupsMay[g]
        /\ Flushing => plan.policy = "Always"

\* A synced group leaves a power cut nothing but whole files to choose from.
LEMMA PutGroupOpen ==
    ASSUME TypeOK, OpenInv, used \subseteq {"Always"}, Flushing,
           NEW g \in Groups, NEW c \in Contents, PutGroup(g, c)
    PROVE  unsynced' = {} /\ \A h \in Groups : groups'[h] # Torn /\ Torn \notin groupsMay'[h]
<1>1. syncs_groups(plan.policy) /\ c # Torn /\ unsynced = {}
    BY SentinelAssumption DEF OpenInv, syncs_groups
<1>2. groups' = [groups EXCEPT ![g] = c] /\ groupsMay' = [groupsMay EXCEPT ![g] = @ \cup {c}] /\ unsynced' = {}
    BY <1>1 DEF PutGroup
<1> QED
    BY <1>1, <1>2 DEF TypeOK, OpenInv

\* Every step keeps a synced section whole.
LEMMA OpenStep == TypeOK /\ OpenInv /\ [Next]_vars => OpenInv'
<1> SUFFICES ASSUME TypeOK, OpenInv, [Next]_vars, used' \subseteq {"Always"} PROVE OpenInv'
    BY DEF OpenInv
<1> USE DEF memVars, diskVars, flushVars, historyVars
<1>0. used \subseteq {"Always"}
    BY DEF Next, vars, insert_record, remove_record, Edit, touch_all, BeginFlush, write_frames,
       GroupsWritten, remove_group_beyond, BeyondRemoved, sync_dir, write_meta, sync_meta, clear_dirty,
       FlushFails, Crash, PowerCut, load
<1>1. ASSUME NEW k \in Keys, NEW v \in Values \cup {Absent}, Edit(k, v)
      PROVE  OpenInv'
    BY <1>0, <1>1 DEF Edit, OpenInv, Flushing
<1>2. CASE touch_all
    BY <1>0, <1>2 DEF touch_all, OpenInv, Flushing
<1>3. ASSUME NEW policy \in Policies, BeginFlush(policy)
      PROVE  OpenInv'
    <2>1. plan'.policy = policy /\ policy \in used' /\ UNCHANGED diskVars
        BY <1>3 DEF BeginFlush
    <2> QED
        BY <1>0, <2>1 DEF OpenInv
<1>4. ASSUME NEW g \in Groups, write_frames(g)
      PROVE  OpenInv'
    <2>1. Flushing /\ NewGroup(g) \in Contents /\ PutGroup(g, NewGroup(g))
        BY <1>4, NewGroupType DEF write_frames, Flushing
    <2>2. unsynced' = {} /\ \A h \in Groups : groups'[h] # Torn /\ Torn \notin groupsMay'[h]
        BY <1>0, <2>1, PutGroupOpen
    <2> QED
        BY <1>0, <1>4, <2>1, <2>2 DEF write_frames, OpenInv
<1>5. ASSUME NEW g \in Groups, remove_group_beyond(g)
      PROVE  OpenInv'
    <2>1. Flushing /\ PutGroup(g, EmptyGroup)
        BY <1>5 DEF remove_group_beyond, Flushing
    <2>2. unsynced' = {} /\ \A h \in Groups : groups'[h] # Torn /\ Torn \notin groupsMay'[h]
        BY <1>0, <2>1, PutGroupOpen, EmptyGroupType
    <2> QED
        BY <1>0, <1>5, <2>1, <2>2 DEF remove_group_beyond, OpenInv
<1>6. CASE GroupsWritten
    BY <1>0, <1>6 DEF GroupsWritten, OpenInv, Flushing
<1>7. CASE BeyondRemoved
    BY <1>0, <1>7 DEF BeyondRemoved, OpenInv, Flushing
<1>8. CASE sync_dir
    <2>1. \A g \in Groups : Torn \notin groupsMay'[g]
        BY <1>0, <1>8 DEF sync_dir, OpenInv
    <2> QED
        BY <1>0, <1>8, <2>1 DEF sync_dir, OpenInv, Flushing
<1>9. CASE write_meta
    <2>1. plan.policy = "Always" /\ plan.modulus # Torn
        BY <1>0, <1>9, ModuliAssumption DEF write_meta, OpenInv, Flushing, TypeOK
    <2> QED
        BY <1>0, <1>9, <2>1 DEF write_meta, OpenInv, syncs_meta
<1>10. CASE sync_meta
    <2>1. plan.policy = "Always" /\ plan.modulus # Torn
        BY <1>0, <1>10, ModuliAssumption DEF sync_meta, OpenInv, Flushing, TypeOK
    <2> QED
        BY <1>0, <1>10, <2>1 DEF sync_meta, OpenInv, syncs_meta
<1>11. CASE clear_dirty
    BY <1>0, <1>11 DEF clear_dirty, OpenInv, Flushing
<1>12. CASE FlushFails
    BY <1>0, <1>12 DEF FlushFails, Outage, OpenInv, Flushing
<1>13. CASE Crash
    BY <1>0, <1>13 DEF Crash, Outage, OpenInv, Flushing
<1>14. CASE PowerCut
    <2>1. PICK choice \in [Groups -> UNION {groupsMay[g] : g \in Groups}] :
              /\ \A g \in Groups : choice[g] \in groupsMay[g]
              /\ groups' = choice
              /\ groupsMay' = [g \in Groups |-> {choice[g]}]
        BY <1>14 DEF PowerCut
    <2>2. \A g \in Groups : groups'[g] # Torn /\ Torn \notin groupsMay'[g]
        BY <1>0, <2>1 DEF OpenInv
    <2>3. metaFile' # Torn /\ Torn \notin metaMay' /\ unsynced' = {} /\ ~Flushing'
        BY <1>0, <1>14 DEF PowerCut, Outage, OpenInv, Flushing
    <2> QED
        BY <2>2, <2>3 DEF OpenInv
<1>15. CASE load
    BY <1>0, <1>15 DEF load, OpenInv, Flushing
<1>16. CASE UNCHANGED vars
    BY <1>0, <1>16 DEF vars, OpenInv, Flushing
<1> QED
    BY <1>1, <1>2, <1>3, <1>4, <1>5, <1>6, <1>7, <1>8, <1>9, <1>10, <1>11,
       <1>12, <1>13, <1>14, <1>15, <1>16
       DEF Next, insert_record, remove_record

\* A section whose every flush ran under Always opens after any number of crashes
\* and power cuts, in the middle of a rehash included (syncs_groups, write_frames
\* and write_meta of hashfile).
THEOREM SyncedOpens == Spec => []AlwaysOpens
<1>1. Init => OpenInv
    <2> SUFFICES ASSUME Init PROVE OpenInv
        OBVIOUS
    <2>1. EmptyGroup # Torn /\ MinModulus # Torn
        BY EmptyGroupType, SentinelAssumption, TargetAssumption, ModuliAssumption
    <2> QED
        BY <2>1 DEF Init, OpenInv, Flushing
<1>2. TypeOK /\ OpenInv => AlwaysOpens
    <2> SUFFICES ASSUME TypeOK, OpenInv, used \subseteq {"Always"} PROVE Loadable
        BY DEF AlwaysOpens
    <2>1. metaFile \in Moduli
        BY DEF TypeOK, OpenInv
    <2> QED
        BY <2>1, ModulusInGroups DEF OpenInv, Loadable
<1> QED
    BY <1>1, <1>2, OpenStep, TypeCorrect, PTL DEF Spec
=============================================================================
