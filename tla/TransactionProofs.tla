-------------------------- MODULE TransactionProofs --------------------------
(***************************************************************************)
(* Proofs about Transaction, for any files, records, workers and change    *)
(* sets and any number of faults: a transaction that has returned is there *)
(* whatever the crashes since; and, unless the process is killed and power *)
(* is lost too, a database that is open has all of a transaction or        *)
(* nothing of it.                                                          *)
(***************************************************************************)
EXTENDS Transaction, WellFoundedInduction, TLAPS

-----------------------------------------------------------------------------
(* Sets of naturals.                                                       *)

\* A set of naturals has a least element.
LEMMA HasLeast ==
    ASSUME NEW S \in SUBSET Nat, S # {}
    PROVE  \E x \in S : \A y \in S : x <= y
  <1> DEFINE less == {p \in Nat \X Nat : p[1] < p[2]}
  <1>1. IsWellFoundedOn(less, Nat)
    BY NatLessThanWellFounded DEF OpToRel
  <1>2. \E x \in S : \A y \in S : <<y, x>> \notin less
    <2> HIDE DEF less
    <2> QED BY <1>1, WFMin
  <1>3. PICK x \in S : \A y \in S : <<y, x>> \notin less
    BY <1>2
  <1>4. \A y \in S : ~(y < x)
    BY <1>3
  <1> QED BY <1>4

-----------------------------------------------------------------------------
(* The inductive invariant.                                                *)

\* What may have replaced t's change of a record: a later one.
Newer(t) == {t} \cup later[t]

\* All of t's records, wherever the next process may read them from, hold t's
\* change or a later one.  Nothing but t's own replay takes this away.
InMemory(t) == \A k \in changes[t] : mem[k] \in Newer(t)
Whole(t) == \A k \in changes[t] : mem[k] \in Newer(t) /\ disk[k] \in Newer(t) /\ synced[k] \in Newer(t)

\* The set that p is flushing: whole in the files that are done; in the others
\* still to be written.
HalfWay(p) == \A k \in changes[cur[p]] :
    /\ mem[k] \in Newer(cur[p])
    /\ FileOf[k] \in todo[p] => k \in dirty
    /\ FileOf[k] \notin todo[p] => disk[k] \in Newer(cur[p]) /\ synced[k] \in Newer(cur[p])

ThreadInv(p) ==
    /\ pc[p] = "idle" => cur[p] = 0 /\ held[p] = {}
    /\ pc[p] # "idle" => cur[p] \in 1..last /\ (p \in Workers => up) /\ (p = Opener => ~up)
    /\ pc[p] \in {"create", "sync"} => p \in Workers /\ cur[p] \notin applied
    /\ todo[p] \subseteq held[p]
    /\ pc[p] = "lock" => log[cur[p]] = "fsynced" \/ (p = Opener /\ log[cur[p]] = "named")
    /\ pc[p] = "flush" => cur[p] \in applied /\ todo[p] # {} /\ HalfWay(p)
    /\ pc[p] \in {"remove", "settle"} => cur[p] \in applied /\ Whole(cur[p]) /\ held[p] = {}

\* A transaction that has returned has left the log for good, and no thread
\* applies it again.
AckedInv(t) == t \in applied /\ log[t] = "none" /\ Whole(t) /\ \A p \in Threads : cur[p] # t

Apart(p, q) == held[p] \cap held[q] = {} /\ (cur[p] = cur[q] => cur[p] = 0)

\* Numbers that are not given yet are nowhere.
NumbersInv ==
    /\ applied \subseteq 1..last
    /\ acked \subseteq applied
    /\ \A t \in Sets : log[t] # "none" => t <= last
    /\ \A t \in 1..last : changes[t] # {}

IInv ==
    /\ TypeOK
    /\ NumbersInv
    /\ \A p, q \in Threads : p # q => Apart(p, q)
    /\ \A p \in Threads : ThreadInv(p)
    /\ \A t \in acked : AckedInv(t)

-----------------------------------------------------------------------------
(* Types.                                                                  *)

LEMMA TypeParts ==
    TypeOK <=> /\ mem \in [Keys -> 0..MaxSets] /\ disk \in [Keys -> 0..MaxSets] /\ synced \in [Keys -> 0..MaxSets]
               /\ dirty \subseteq Keys
               /\ log \in [Sets -> {"none", "named", "fsynced", "removed"}]
               /\ up \in BOOLEAN
               /\ pc \in [Threads -> Labels]
               /\ cur \in [Threads -> 0..MaxSets]
               /\ held \in [Threads -> SUBSET Files]
               /\ todo \in [Threads -> SUBSET Files]
               /\ last \in 0..MaxSets
               /\ changes \in [Sets -> SUBSET Keys]
               /\ applied \subseteq Sets /\ acked \subseteq Sets
               /\ later \in [Sets -> SUBSET Sets]
               /\ writes \in 0..MaxWrites
               /\ plan \in [sets : 0..MaxSets, fails : Nat, kills : Nat, cuts : Nat]
  BY DEF TypeOK

DataTypes ==
    /\ mem \in [Keys -> 0..MaxSets] /\ disk \in [Keys -> 0..MaxSets] /\ synced \in [Keys -> 0..MaxSets]
    /\ dirty \subseteq Keys
ThreadTypes ==
    /\ pc \in [Threads -> Labels]
    /\ cur \in [Threads -> 0..MaxSets]
    /\ held \in [Threads -> SUBSET Files]
    /\ todo \in [Threads -> SUBSET Files]
SetTypes ==
    /\ last \in 0..MaxSets
    /\ changes \in [Sets -> SUBSET Keys]
    /\ applied \subseteq Sets /\ acked \subseteq Sets
    /\ later \in [Sets -> SUBSET Sets]
LogTypes == log \in [Sets -> {"none", "named", "fsynced", "removed"}]
RestTypes ==
    /\ up \in BOOLEAN
    /\ writes \in 0..MaxWrites
    /\ plan \in [sets : 0..MaxSets, fails : Nat, kills : Nat, cuts : Nat]

LEMMA TypeGroups == TypeOK <=> DataTypes /\ ThreadTypes /\ SetTypes /\ LogTypes /\ RestTypes
  BY TypeParts DEF DataTypes, ThreadTypes, SetTypes, LogTypes, RestTypes

\* The least of a set of naturals is one of it.
LEMMA LeastIn ==
    ASSUME NEW S \in SUBSET Nat, S # {}
    PROVE  Least(S) \in S
  BY HasLeast DEF Least

LEMMA FilesOfKeys ==
    ASSUME NEW S \in SUBSET Keys
    PROVE  FilesOf(S) \subseteq Files
  BY FilesAssumption DEF FilesOf

\* The next number is one of the sets, and new.
LEMMA NextNumber ==
    ASSUME TypeOK, last < plan.sets
    PROVE  last + 1 \in Sets /\ last + 1 \in 1..last + 1 /\ last \in Nat
  <1>1. last \in 0..MaxSets /\ plan.sets \in 0..MaxSets /\ MaxSets \in Nat
    BY TypeParts, BoundsAssumption
  <1> QED BY <1>1 DEF Sets

LEMMA NumberedTypes ==
    ASSUME TypeOK, NEW S \in SUBSET Keys, Numbered(S)
    PROVE  /\ last' \in 0..MaxSets /\ changes' \in [Sets -> SUBSET Keys]
           /\ last + 1 \in Sets /\ last + 1 \in 0..MaxSets
  <1>1. last + 1 \in Sets /\ MaxSets \in Nat
    BY NextNumber, BoundsAssumption DEF Numbered
  <1>2. last + 1 \in 0..MaxSets
    BY <1>1 DEF Sets
  <1> QED BY <1>1, <1>2, TypeParts DEF Numbered

LEMMA AppliedTypes ==
    ASSUME TypeOK, NEW t \in Sets, NEW S \in SUBSET Keys, Applied(t, S)
    PROVE  /\ mem' \in [Keys -> 0..MaxSets] /\ dirty' \subseteq Keys
           /\ applied' \subseteq Sets /\ later' \in [Sets -> SUBSET Sets]
  <1>1. t \in 0..MaxSets
    BY BoundsAssumption DEF Sets
  <1>2. mem' \in [Keys -> 0..MaxSets]
    BY <1>1, TypeParts DEF Applied
  <1>3. dirty' \subseteq Keys /\ applied' \subseteq Sets
    BY TypeParts DEF Applied
  <1>4. later' \in [Sets -> SUBSET Sets]
    BY TypeParts DEF Applied
  <1> QED BY <1>2, <1>3, <1>4

LEMMA GotoTypes ==
    ASSUME TypeOK, NEW p, NEW label \in Labels, Goto(p, label)
    PROVE  pc' \in [Threads -> Labels]
  BY TypeParts DEF Goto

LEMMA RestartTypes ==
    ASSUME NEW d \in [Keys -> 0..MaxSets], Restart(d)
    PROVE  /\ mem' \in [Keys -> 0..MaxSets] /\ disk' \in [Keys -> 0..MaxSets] /\ dirty' \subseteq Keys
           /\ ThreadTypes'
  <1>1. 0 \in 0..MaxSets
    BY BoundsAssumption
  <1> QED BY <1>1 DEF Restart, ThreadTypes, Labels

LEMMA StepKinds ==
    ASSUME [Next]_vars
    PROVE  \/ \E k \in Keys : Write(k)
           \/ \E f \in Files : flush_handle(f)
           \/ \E p \in Workers, S \in ChangeSets : apply_transaction(p, S)
           \/ \E p \in Threads : rename_intent(p) \/ write_intent(p)
           \/ \E p \in Threads : Lock(p)
           \/ \E p \in Threads : apply_staged(p)
           \/ \E p \in Threads : flush_locked(p)
           \/ \E p \in Threads : unlink_intent(p) \/ remove_intent(p)
           \/ \E p \in Threads : replay(p)
           \/ replay_transaction_log
           \/ \E p \in Workers, torn \in SUBSET Keys : Fail(p, torn)
           \/ \E torn \in SUBSET Keys : Kill(torn)
           \/ \E torn, lost \in SUBSET Keys, names \in SUBSET Sets : PowerCut(torn, lost, names)
           \/ UNCHANGED vars
  BY DEF Next, Step, Finished

\* The number a thread at work is at.
LEMMA CurIsSet ==
    ASSUME IInv, NEW p \in Threads, pc[p] # "idle"
    PROVE  cur[p] \in Sets /\ cur[p] \in 1..last
  <1>1. cur[p] \in 1..last /\ last \in 0..MaxSets /\ MaxSets \in Nat
    BY TypeParts, BoundsAssumption DEF IInv, ThreadInv
  <1> QED BY <1>1 DEF Sets

\* The file a thread flushes next is one it holds.
LEMMA NextFile ==
    ASSUME IInv, NEW p \in Threads, pc[p] = "flush"
    PROVE  Least(todo[p]) \in todo[p] /\ Least(todo[p]) \in held[p] /\ Least(todo[p]) \in Files
  <1>1. todo[p] # {} /\ todo[p] \subseteq held[p] /\ todo[p] \subseteq Files
    BY TypeParts DEF IInv, ThreadInv
  <1>2. todo[p] \in SUBSET Nat
    BY <1>1, FilesAssumption
  <1> QED BY <1>1, <1>2, LeastIn

LEMMA TypeStep ==
    ASSUME IInv, [Next]_vars
    PROVE  TypeOK'
  <1>t. TypeOK /\ DataTypes /\ ThreadTypes /\ SetTypes /\ LogTypes /\ RestTypes
    BY TypeGroups DEF IInv
  <1>g. ASSUME DataTypes', ThreadTypes', SetTypes', LogTypes', RestTypes' PROVE TypeOK'
    BY <1>g DEF TypeOK, DataTypes, ThreadTypes, SetTypes, LogTypes, RestTypes
  <1>a. ASSUME UNCHANGED dataVars PROVE DataTypes'
    BY <1>a, <1>t DEF dataVars, DataTypes
  <1>b. ASSUME UNCHANGED threadVars PROVE ThreadTypes'
    BY <1>b, <1>t DEF threadVars, ThreadTypes
  <1>c. ASSUME UNCHANGED setVars PROVE SetTypes'
    BY <1>c, <1>t DEF setVars, SetTypes
  <1>d. ASSUME UNCHANGED log PROVE LogTypes'
    BY <1>d, <1>t DEF LogTypes
  <1>e. ASSUME UNCHANGED <<up, writes, plan>> PROVE RestTypes'
    BY <1>e, <1>t DEF RestTypes
  <1>w. Workers \subseteq Threads
    BY DEF Threads
  <1>l. {"idle", "create", "sync", "lock", "flush", "remove", "settle"} \subseteq Labels
    BY DEF Labels
  <1>1. ASSUME NEW k \in Keys, Write(k) PROVE TypeOK'
    <2>1. /\ Numbered({k}) /\ Applied(last + 1, {k}) /\ writes < MaxWrites /\ writes' = writes + 1
          /\ UNCHANGED <<disk, synced, log, up, threadVars, acked, plan>>
      BY <1>1 DEF Write
    <2>2. /\ last' \in 0..MaxSets /\ changes' \in [Sets -> SUBSET Keys] /\ last + 1 \in Sets
      BY <1>t, <2>1, NumberedTypes
    <2>3. /\ mem' \in [Keys -> 0..MaxSets] /\ dirty' \subseteq Keys
          /\ applied' \subseteq Sets /\ later' \in [Sets -> SUBSET Sets]
      BY <1>t, <2>1, <2>2, AppliedTypes
    <2>4. DataTypes' /\ SetTypes'
      BY <1>t, <2>1, <2>2, <2>3 DEF DataTypes, SetTypes
    <2>5. RestTypes'
      BY <1>t, <2>1, BoundsAssumption DEF RestTypes
    <2> QED BY <2>1, <2>4, <2>5, <1>b, <1>d, <1>g
  <1>2. ASSUME NEW f \in Files, flush_handle(f) PROVE TypeOK'
    <2>1. Written(f, f \in Durable) /\ UNCHANGED <<mem, log, up, threadVars, setVars, writes, plan>>
      BY <1>2 DEF flush_handle
    <2>2. disk' \in [Keys -> 0..MaxSets] /\ synced' \in [Keys -> 0..MaxSets] /\ dirty' \subseteq Keys
      BY <1>t, <2>1 DEF DataTypes, Written
    <2>3. DataTypes'
      BY <1>t, <2>1, <2>2 DEF DataTypes
    <2> QED BY <2>1, <2>3, <1>b, <1>c, <1>d, <1>e, <1>g
  <1>3. ASSUME NEW p \in Workers, NEW S \in ChangeSets, apply_transaction(p, S) PROVE TypeOK'
    <2>1. /\ Numbered(S) /\ cur' = [cur EXCEPT ![p] = last + 1] /\ Goto(p, "create")
          /\ UNCHANGED <<dataVars, log, up, held, todo, applied, later, acked, writes, plan>>
      BY <1>3 DEF apply_transaction
    <2>2. S \in SUBSET Keys
      BY ChangeSetsAssumption
    <2>3. /\ last' \in 0..MaxSets /\ changes' \in [Sets -> SUBSET Keys] /\ last + 1 \in 0..MaxSets
      BY <1>t, <2>1, <2>2, NumberedTypes
    <2>4. pc' \in [Threads -> Labels]
      BY <1>t, <1>l, <2>1, GotoTypes
    <2>5. ThreadTypes' /\ SetTypes'
      BY <1>t, <2>1, <2>3, <2>4 DEF ThreadTypes, SetTypes
    <2> QED BY <2>1, <2>5, <1>a, <1>d, <1>e, <1>g
  <1>4. ASSUME NEW p \in Threads, NEW label \in Labels, NEW word \in {"named", "fsynced", "removed"},
               Goto(p, label), log' = [log EXCEPT ![cur[p]] = word],
               UNCHANGED <<dataVars, up, cur, held, todo, setVars, writes, plan>>
        PROVE  TypeOK'
    <2>1. pc' \in [Threads -> Labels]
      BY <1>t, <1>4, GotoTypes
    <2>2. ThreadTypes' /\ LogTypes'
      BY <1>t, <1>4, <2>1 DEF ThreadTypes, LogTypes
    <2> QED BY <1>4, <2>2, <1>a, <1>c, <1>e, <1>g
  <1>5. ASSUME NEW p \in Threads, rename_intent(p) \/ write_intent(p) PROVE TypeOK'
    BY <1>5, <1>4, <1>l DEF rename_intent, write_intent
  <1>6. ASSUME NEW p \in Threads, Lock(p) PROVE TypeOK'
    <2>0. PICK S : S = FilesOf(changes[cur[p]]) \ held[p]
      OBVIOUS
    <2>1. /\ pc[p] = "lock" /\ S # {} /\ held' = [held EXCEPT ![p] = @ \cup {Least(S)}]
          /\ UNCHANGED <<dataVars, log, up, pc, cur, todo, setVars, writes, plan>>
      BY <1>6, <2>0 DEF Lock
    <2>2. changes[cur[p]] \in SUBSET Keys
      BY <1>t, <2>1, CurIsSet DEF SetTypes
    <2>3. S \subseteq Files
      BY <2>0, <2>2, FilesOfKeys
    <2>4. Least(S) \in Files
      BY <2>1, <2>3, LeastIn, FilesAssumption
    <2>5. ThreadTypes'
      BY <1>t, <2>1, <2>4 DEF ThreadTypes
    <2> QED BY <2>1, <2>5, <1>a, <1>c, <1>d, <1>e, <1>g
  <1>7. ASSUME NEW p \in Threads, apply_staged(p) PROVE TypeOK'
    <2>0. PICK S : S = changes[cur[p]]
      OBVIOUS
    <2>1. /\ pc[p] = "lock" /\ Applied(cur[p], S) /\ todo' = [todo EXCEPT ![p] = FilesOf(S)] /\ Goto(p, "flush")
          /\ UNCHANGED <<disk, synced, log, up, cur, held, last, changes, acked, writes, plan>>
      BY <1>7, <2>0 DEF apply_staged
    <2>2. S \in SUBSET Keys /\ cur[p] \in Sets
      BY <1>t, <2>0, <2>1, CurIsSet DEF SetTypes
    <2>3. /\ mem' \in [Keys -> 0..MaxSets] /\ dirty' \subseteq Keys
          /\ applied' \subseteq Sets /\ later' \in [Sets -> SUBSET Sets]
      BY <1>t, <2>1, <2>2, AppliedTypes
    <2>4. pc' \in [Threads -> Labels] /\ FilesOf(S) \subseteq Files
      BY <1>t, <1>l, <2>1, <2>2, GotoTypes, FilesOfKeys
    <2>5. DataTypes' /\ SetTypes' /\ ThreadTypes'
      BY <1>t, <2>1, <2>3, <2>4 DEF DataTypes, SetTypes, ThreadTypes
    <2> QED BY <2>1, <2>5, <1>d, <1>e, <1>g
  <1>8. ASSUME NEW p \in Threads, flush_locked(p) PROVE TypeOK'
    <2>0. PICK f : f = Least(todo[p])
      OBVIOUS
    <2>1. /\ Written(f, TRUE)
          /\ todo' = [todo EXCEPT ![p] = @ \ {f}]
          /\ held' = [held EXCEPT ![p] = IF todo[p] = {f} THEN {} ELSE @]
          /\ IF todo[p] = {f} THEN Goto(p, "remove") ELSE UNCHANGED pc
          /\ UNCHANGED <<mem, log, up, cur, setVars, writes, plan>>
      BY <1>8, <2>0 DEF flush_locked
    <2>2. disk' \in [Keys -> 0..MaxSets] /\ synced' \in [Keys -> 0..MaxSets] /\ dirty' \subseteq Keys
      BY <1>t, <2>1 DEF DataTypes, Written
    <2>3. pc' \in [Threads -> Labels]
      BY <1>t, <1>l, <2>1, GotoTypes DEF ThreadTypes
    <2>4. DataTypes' /\ ThreadTypes'
      BY <1>t, <2>1, <2>2, <2>3 DEF DataTypes, ThreadTypes
    <2> QED BY <2>1, <2>4, <1>c, <1>d, <1>e, <1>g
  <1>9. ASSUME NEW p \in Threads, unlink_intent(p) PROVE TypeOK'
    BY <1>9, <1>4, <1>l DEF unlink_intent
  <1>10. ASSUME NEW p \in Threads, remove_intent(p) PROVE TypeOK'
    <2>1. /\ pc[p] = "settle" /\ log' = [log EXCEPT ![cur[p]] = "none"] /\ acked' = acked \cup {cur[p]}
          /\ cur' = [cur EXCEPT ![p] = 0] /\ Goto(p, "idle")
          /\ UNCHANGED <<dataVars, up, held, todo, last, changes, applied, later, writes, plan>>
      BY <1>10 DEF remove_intent
    <2>2. cur[p] \in Sets /\ 0 \in 0..MaxSets
      BY <2>1, CurIsSet, BoundsAssumption
    <2>3. pc' \in [Threads -> Labels]
      BY <1>t, <1>l, <2>1, GotoTypes
    <2>4. SetTypes' /\ ThreadTypes' /\ LogTypes'
      BY <1>t, <2>1, <2>2, <2>3 DEF SetTypes, ThreadTypes, LogTypes
    <2> QED BY <2>1, <2>4, <1>a, <1>e, <1>g
  <1>11. ASSUME NEW p \in Threads, replay(p) PROVE TypeOK'
    <2>1. /\ Pending # {} /\ cur' = [cur EXCEPT ![p] = Least(Pending)] /\ Goto(p, "lock")
          /\ UNCHANGED <<dataVars, log, up, held, todo, setVars, writes, plan>>
      BY <1>11 DEF replay
    <2>2. Pending \in SUBSET Nat /\ Pending \subseteq 0..MaxSets
      BY BoundsAssumption DEF Pending, Sets
    <2>3. Least(Pending) \in 0..MaxSets
      BY <2>1, <2>2, LeastIn
    <2>4. pc' \in [Threads -> Labels]
      BY <1>t, <1>l, <2>1, GotoTypes
    <2>5. ThreadTypes'
      BY <1>t, <2>1, <2>3, <2>4 DEF ThreadTypes
    <2> QED BY <2>1, <2>5, <1>a, <1>c, <1>d, <1>e, <1>g
  <1>12. CASE replay_transaction_log
    BY <1>12, <1>t, <1>a, <1>b, <1>c, <1>d, <1>g DEF replay_transaction_log, RestTypes
  <1>13. ASSUME NEW p \in Workers, NEW torn \in SUBSET Keys, Fail(p, torn) PROVE TypeOK'
    <2>1. /\ plan.fails > 0 /\ plan' = [plan EXCEPT !.fails = @ - 1]
          /\ disk' = [k \in Keys |-> IF k \in torn THEN mem[k] ELSE disk[k]]
          /\ Goto(p, "idle")
          /\ cur' = [cur EXCEPT ![p] = 0] /\ held' = [held EXCEPT ![p] = {}] /\ todo' = [todo EXCEPT ![p] = {}]
          /\ UNCHANGED <<mem, dirty, synced, log, up, setVars, writes>>
      BY <1>13 DEF Fail
    <2>2. pc' \in [Threads -> Labels] /\ 0 \in 0..MaxSets
      BY <1>t, <1>l, <2>1, GotoTypes, BoundsAssumption
    <2>3. DataTypes' /\ ThreadTypes'
      BY <1>t, <2>1, <2>2 DEF DataTypes, ThreadTypes
    <2>4. RestTypes'
      BY <1>t, <2>1 DEF RestTypes
    <2> QED BY <2>1, <2>3, <2>4, <1>c, <1>d, <1>g
  <1>14. ASSUME NEW torn \in SUBSET Keys, Kill(torn) PROVE TypeOK'
    <2> DEFINE d == [k \in Keys |-> IF k \in torn THEN mem[k] ELSE disk[k]]
    <2>1. /\ plan.kills > 0 /\ plan' = [plan EXCEPT !.kills = @ - 1] /\ Restart(d) /\ UNCHANGED <<synced, log>>
      BY <1>14 DEF Kill
    <2>2. d \in [Keys -> 0..MaxSets]
      BY <1>t DEF DataTypes
    <2> HIDE DEF d
    <2>3. DataTypes' /\ ThreadTypes'
      BY <1>t, <2>1, <2>2, RestartTypes DEF DataTypes
    <2>4. up' = FALSE /\ UNCHANGED writes /\ UNCHANGED setVars
      BY <2>1 DEF Restart
    <2>7. plan' \in [sets : 0..MaxSets, fails : Nat, kills : Nat, cuts : Nat]
      BY <1>t, <2>1 DEF RestTypes
    <2>6. RestTypes'
      BY <1>t, <2>4, <2>7 DEF RestTypes
    <2> QED BY <2>1, <2>3, <2>4, <2>6, <1>c, <1>d, <1>g
  <1>15. ASSUME NEW torn \in SUBSET Keys, NEW lost \in SUBSET Keys, NEW names \in SUBSET Sets,
                PowerCut(torn, lost, names)
         PROVE  TypeOK'
    <2> DEFINE d == [k \in Keys |-> IF k \in torn THEN mem[k] ELSE IF k \in lost THEN synced[k] ELSE disk[k]]
    <2>1. /\ plan.cuts > 0 /\ plan' = [plan EXCEPT !.cuts = @ - 1] /\ Restart(d) /\ synced' = d
          /\ log' = [t \in Sets |-> IF t \in names THEN "fsynced" ELSE IF t \in Unsure THEN "none" ELSE log[t]]
      BY <1>15 DEF PowerCut
    <2>2. d \in [Keys -> 0..MaxSets]
      BY <1>t DEF DataTypes
    <2> HIDE DEF d
    <2>3. DataTypes' /\ ThreadTypes'
      BY <1>t, <2>1, <2>2, RestartTypes DEF DataTypes
    <2>4. up' = FALSE /\ UNCHANGED writes /\ UNCHANGED setVars
      BY <2>1 DEF Restart
    <2>7. plan' \in [sets : 0..MaxSets, fails : Nat, kills : Nat, cuts : Nat]
      BY <1>t, <2>1 DEF RestTypes
    <2>6. RestTypes'
      BY <1>t, <2>4, <2>7 DEF RestTypes
    <2>5. LogTypes'
      BY <1>t, <2>1 DEF LogTypes
    <2> QED BY <2>3, <2>4, <2>5, <2>6, <1>c, <1>g
  <1>16. CASE UNCHANGED vars
    BY <1>16, <1>a, <1>b, <1>c, <1>d, <1>e, <1>g DEF vars
  <1> QED
    BY <1>1, <1>2, <1>3, <1>5, <1>6, <1>7, <1>8, <1>9, <1>10, <1>11, <1>12, <1>13, <1>14, <1>15, <1>16, StepKinds

-----------------------------------------------------------------------------
(* What steps do to the records, one record at a time.                     *)

\* No record holds anything but what it held somewhere before.
Moves == \A k \in Keys :
    /\ mem'[k] \in {mem[k], disk[k], synced[k]}
    /\ disk'[k] \in {mem[k], disk[k], synced[k]}
    /\ synced'[k] \in {mem[k], disk[k], synced[k]}

\* A flush brings records from memory to the files.
Flushes == UNCHANGED mem /\ \A k \in Keys : disk'[k] \in {mem[k], disk[k]} /\ synced'[k] \in {mem[k], synced[k]}

LEMMA FlushesMove ==
    ASSUME Flushes
    PROVE  Moves
  BY DEF Flushes, Moves

LEMMA WrittenFlushes ==
    ASSUME NEW f, NEW fsync, Written(f, fsync), UNCHANGED mem
    PROVE  Flushes /\ \A k \in dirty : FileOf[k] # f => k \in dirty'
  BY DEF Written, Flushes

LEMMA MovesKeep ==
    ASSUME TypeOK, NEW t \in Sets, changes'[t] = changes[t], later'[t] = later[t], Moves, Whole(t)
    PROVE  Whole(t)'
  <1>1. changes[t] \subseteq Keys
    BY TypeParts
  <1> QED BY <1>1 DEF Moves, Whole, Newer

\* Where a set lands on top of another, it is later than that one.
LEMMA AppliedKeeps ==
    ASSUME TypeOK, NEW u \in Sets, NEW S \in SUBSET Keys, Applied(u, S), UNCHANGED <<disk, synced>>,
           NEW t \in applied, t # u, changes'[t] = changes[t]
    PROVE  /\ Whole(t) => Whole(t)'
           /\ InMemory(t) => InMemory(t)'
           /\ \A k \in changes[t] : mem[k] \in Newer(t) => mem'[k] \in Newer(t)'
           /\ Newer(t) \subseteq Newer(t)'
  <1>1. changes[t] \subseteq Keys /\ t \in Sets
    BY TypeParts
  <1>2. later'[t] = later[t] \cup {u}
    BY <1>1 DEF Applied
  <1>3. \A k \in Keys : mem'[k] = IF k \in S THEN u ELSE mem[k]
    BY DEF Applied
  <1>4. Newer(t) \subseteq Newer(t)' /\ u \in Newer(t)'
    BY <1>2 DEF Newer
  <1>5. \A k \in changes[t] : mem[k] \in Newer(t) => mem'[k] \in Newer(t)'
    BY <1>1, <1>3, <1>4
  <1>6. InMemory(t) => InMemory(t)'
    BY <1>5 DEF InMemory
  <1>7. Whole(t) => Whole(t)'
    BY <1>4, <1>5 DEF Whole
  <1> QED BY <1>4, <1>5, <1>6, <1>7

\* A set that has just been applied is in memory.
LEMMA AppliedThere ==
    ASSUME TypeOK, NEW t \in Sets, Applied(t, changes[t]), UNCHANGED changes
    PROVE  InMemory(t)' /\ \A k \in changes[t] : k \in dirty'
  <1>1. changes[t] \subseteq Keys
    BY TypeParts
  <1> QED BY <1>1 DEF Applied, InMemory, Newer

-----------------------------------------------------------------------------
(* A thread that the step of another leaves where it is.                   *)

Same(p) == pc'[p] = pc[p] /\ cur'[p] = cur[p] /\ held'[p] = held[p] /\ todo'[p] = todo[p]

LEMMA HalfWayFlushes ==
    ASSUME TypeOK, NEW p \in Threads, cur[p] \in Sets, Same(p),
           changes'[cur[p]] = changes[cur[p]], later'[cur[p]] = later[cur[p]], Flushes, \A k \in dirty : FileOf[k] \in todo[p] => k \in dirty', HalfWay(p)
    PROVE  HalfWay(p)'
  <1>1. PICK t : t = cur[p]
    OBVIOUS
  <1>2. changes[t] \subseteq Keys
    BY <1>1, TypeParts
  <1>3. Newer(t)' = Newer(t)
    BY <1>1 DEF Newer
  <1>4. ASSUME NEW k \in changes[t]
        PROVE  /\ mem'[k] \in Newer(t)
               /\ FileOf[k] \in todo[p] => k \in dirty'
               /\ FileOf[k] \notin todo[p] => disk'[k] \in Newer(t) /\ synced'[k] \in Newer(t)
    BY <1>1, <1>2, <1>4 DEF HalfWay, Flushes
  <1>5. cur'[p] = t /\ changes'[t] = changes[t] /\ todo'[p] = todo[p]
    BY <1>1 DEF Same
  <1> QED BY <1>3, <1>4, <1>5 DEF HalfWay

LEMMA HalfWayApplied ==
    ASSUME TypeOK, NEW p \in Threads, cur[p] \in applied, Same(p), NEW u \in Sets, NEW S \in SUBSET Keys,
           Applied(u, S), UNCHANGED <<disk, synced>>, cur[p] # u, changes'[cur[p]] = changes[cur[p]], HalfWay(p)
    PROVE  HalfWay(p)'
  <1>1. PICK t : t = cur[p]
    OBVIOUS
  <1>2. /\ \A k \in changes[t] : mem[k] \in Newer(t) => mem'[k] \in Newer(t)'
        /\ Newer(t) \subseteq Newer(t)'
    BY <1>1, AppliedKeeps
  <1>3. dirty \subseteq dirty'
    BY DEF Applied
  <1>4. ASSUME NEW k \in changes[t]
        PROVE  /\ mem'[k] \in Newer(t)'
               /\ FileOf[k] \in todo[p] => k \in dirty'
               /\ FileOf[k] \notin todo[p] => disk'[k] \in Newer(t)' /\ synced'[k] \in Newer(t)'
    BY <1>1, <1>2, <1>3, <1>4 DEF HalfWay
  <1>5. cur'[p] = t /\ changes'[t] = changes[t] /\ todo'[p] = todo[p]
    BY <1>1 DEF Same
  <1> QED BY <1>4, <1>5 DEF HalfWay

LEMMA ThreadStays ==
    ASSUME IInv, NEW p \in Threads, Same(p), UNCHANGED up, last' \in Nat, last <= last',
           pc[p] # "idle" => /\ cur[p] \in applied <=> cur[p] \in applied'
                             /\ log'[cur[p]] = log[cur[p]],
           pc[p] = "flush" => HalfWay(p)',
           pc[p] \in {"remove", "settle"} => Whole(cur[p])'
    PROVE  ThreadInv(p)'
  <1>1. ThreadInv(p) /\ last \in Nat
    BY TypeParts DEF IInv
  <1>2. PICK t : t = cur[p]
    OBVIOUS
  <1>3. pc'[p] = pc[p] /\ cur'[p] = t /\ held'[p] = held[p] /\ todo'[p] = todo[p]
    BY <1>2 DEF Same
  <1>4. pc[p] # "idle" => t \in 1..last'
    BY <1>1, <1>2 DEF ThreadInv
  <1>5. pc[p] \in {"remove", "settle"} => Whole(t)'
    BY <1>2, <1>3
  <1>6. Whole(cur[p])' <=> Whole(t)'
    BY <1>2, <1>3 DEF Whole, Newer
  <1> QED BY <1>1, <1>2, <1>3, <1>4, <1>5, <1>6 DEF ThreadInv

-----------------------------------------------------------------------------
(* The invariant holds, step by step.                                      *)

\* No other thread is at the set of a thread at work.
LEMMA CursApart ==
    ASSUME IInv, NEW p \in Threads, NEW q \in Threads, p # q, pc[p] # "idle"
    PROVE  cur[q] # cur[p]
  <1>1. cur[p] # 0
    BY CurIsSet DEF Sets
  <1> QED BY <1>1 DEF IInv, Apart

\* A returned set, where the records only move.
LEMMA AckedMoves ==
    ASSUME IInv, NEW t \in acked, Moves, changes'[t] = changes[t], later'[t] = later[t],
           applied \subseteq applied', log'[t] = log[t], \A p \in Threads : cur'[p] # t
    PROVE  AckedInv(t)'
  <1>1. AckedInv(t) /\ t \in Sets /\ TypeOK
    BY TypeParts DEF IInv
  <1>2. Whole(t)'
    BY <1>1, MovesKeep DEF AckedInv
  <1> QED BY <1>1, <1>2 DEF AckedInv

\* A thread at rest, where the records only move and its set keeps its place in
\* the log.
LEMMA ThreadMoves ==
    ASSUME IInv, NEW p \in Threads, Same(p), UNCHANGED up, last' \in Nat, last <= last',
           pc[p] # "idle" => /\ cur[p] \in applied <=> cur[p] \in applied'
                             /\ log'[cur[p]] = log[cur[p]]
                             /\ changes'[cur[p]] = changes[cur[p]] /\ later'[cur[p]] = later[cur[p]],
           Flushes, \A k \in dirty : FileOf[k] \in todo[p] => k \in dirty'
    PROVE  ThreadInv(p)'
  <1>1. ThreadInv(p) /\ TypeOK
    BY DEF IInv
  <1>2. pc[p] = "flush" => HalfWay(p)'
    <2>1. SUFFICES ASSUME pc[p] = "flush" PROVE HalfWay(p)'
      OBVIOUS
    <2>2. HalfWay(p) /\ cur[p] \in Sets
      BY <2>1, <1>1, CurIsSet DEF ThreadInv
    <2> QED BY <1>1, <2>1, <2>2, HalfWayFlushes
  <1>3. pc[p] \in {"remove", "settle"} => Whole(cur[p])'
    <2>1. SUFFICES ASSUME pc[p] \in {"remove", "settle"} PROVE Whole(cur[p])'
      OBVIOUS
    <2>2. PICK t : t = cur[p]
      OBVIOUS
    <2>3. Whole(t) /\ t \in Sets /\ cur'[p] = t
      BY <2>1, <2>2, <1>1, CurIsSet DEF ThreadInv, Same
    <2>4. Whole(t)'
      BY <1>1, <2>1, <2>2, <2>3, FlushesMove, MovesKeep
    <2> QED BY <2>3, <2>4 DEF Whole, Newer
  <1> QED BY <1>2, <1>3, ThreadStays

LEMMA StillFlushes ==
    ASSUME UNCHANGED dataVars
    PROVE  Flushes /\ UNCHANGED dirty
  BY DEF dataVars, Flushes

LEMMA InitHolds == Init => IInv
  <1> SUFFICES ASSUME Init PROVE IInv
    OBVIOUS
  <1>1. 0 \in 0..MaxSets /\ 0 \in 0..MaxWrites /\ "idle" \in Labels
    BY BoundsAssumption DEF Labels
  <1>2. DataTypes /\ LogTypes
    BY <1>1 DEF Init, DataTypes, LogTypes
  <1>3. ThreadTypes /\ SetTypes
    BY <1>1 DEF Init, ThreadTypes, SetTypes
  <1>4. RestTypes
    BY <1>1, BoundsAssumption DEF Init, RestTypes
  <1>5. TypeOK
    BY <1>2, <1>3, <1>4, TypeGroups
  <1>6. NumbersInv
    BY DEF Init, NumbersInv
  <1>7. \A p, q \in Threads : p # q => Apart(p, q)
    BY DEF Init, Apart
  <1>8. \A p \in Threads : ThreadInv(p)
    BY DEF Init, ThreadInv
  <1> QED BY <1>5, <1>6, <1>7, <1>8 DEF IInv, Init

LEMMA WriteStep ==
    ASSUME IInv, TypeOK', NEW k \in Keys, Write(k)
    PROVE  IInv'
  <1> DEFINE u == last + 1
  <1>1. /\ Numbered({k}) /\ Applied(u, {k}) /\ last < plan.sets
        /\ UNCHANGED <<disk, synced, log, up, threadVars, acked, plan>>
    BY DEF Write, Numbered
  <1>2. TypeOK /\ NumbersInv /\ u \in Sets /\ last \in Nat /\ last' = u /\ u \notin 1..last
    BY <1>1, NextNumber DEF IInv, Numbered
  <1>3. \A t \in 1..last : t # u /\ changes'[t] = changes[t]
    BY <1>1, <1>2, TypeParts DEF Numbered
  <1>4. applied' = applied \cup {u} /\ changes'[u] = {k}
    BY <1>1, <1>2, TypeParts DEF Applied, Numbered
  <1>5. NumbersInv'
    <2>0. 1..last \subseteq 1..u /\ u \in 1..u
      BY <1>2
    <2>1. applied' \subseteq 1..last' /\ acked' \subseteq applied'
      <3> HIDE DEF u
      <3> QED BY <1>1, <1>2, <1>4, <2>0 DEF NumbersInv
    <2>2. \A t \in Sets : log'[t] # "none" => t <= last'
      BY <1>1, <1>2 DEF NumbersInv, Sets
    <2>3. \A t \in 1..last' : changes'[t] # {}
      BY <1>2, <1>3, <1>4 DEF NumbersInv
    <2> QED BY <2>1, <2>2, <2>3 DEF NumbersInv
  <1>6. \A p, q \in Threads : p # q => Apart(p, q)'
    BY <1>1 DEF IInv, Apart, threadVars
  <1>7. ASSUME NEW t \in applied
        PROVE  t \in 1..last /\ t # u /\ changes'[t] = changes[t] /\ t \in Sets
    BY <1>2, <1>3, TypeParts DEF NumbersInv
  <1>u. HIDE DEF u
  <1>8. ASSUME NEW p \in Threads PROVE ThreadInv(p)'
    <2>1. Same(p) /\ ThreadInv(p)
      BY <1>1 DEF Same, threadVars, IInv
    <2>2. pc[p] # "idle" => (cur[p] \in applied <=> cur[p] \in applied') /\ log'[cur[p]] = log[cur[p]]
      BY <1>1, <1>2, <1>4, CurIsSet
    <2>3. pc[p] = "flush" => HalfWay(p)'
      BY <1>1, <1>2, <1>7, <2>1, HalfWayApplied DEF ThreadInv
    <2>4. pc[p] \in {"remove", "settle"} => Whole(cur[p])'
      <3>1. SUFFICES ASSUME pc[p] \in {"remove", "settle"} PROVE Whole(cur[p])'
        OBVIOUS
      <3>2. PICK t : t = cur[p]
        OBVIOUS
      <3>3. Whole(t) /\ t \in applied /\ cur'[p] = t
        BY <3>1, <3>2, <2>1 DEF ThreadInv, Same
      <3>4. Whole(t)'
        BY <1>1, <1>2, <1>7, <3>3, AppliedKeeps
      <3> QED BY <3>3, <3>4 DEF Whole, Newer
    <2> QED BY <1>1, <1>2, <2>1, <2>2, <2>3, <2>4, ThreadStays DEF u
  <1>9. ASSUME NEW t \in acked PROVE AckedInv(t)'
    <2>1. AckedInv(t) /\ t \in applied
      BY <1>2 DEF IInv, NumbersInv
    <2>2. Whole(t)'
      BY <1>1, <1>2, <1>7, <2>1, AppliedKeeps DEF AckedInv
    <2> QED BY <1>1, <1>4, <2>1, <2>2 DEF AckedInv, threadVars
  <1> QED BY <1>1, <1>5, <1>6, <1>8, <1>9 DEF IInv

LEMMA FlushStep ==
    ASSUME IInv, TypeOK', NEW f \in Files, flush_handle(f)
    PROVE  IInv'
  <1>1. /\ Free(f) /\ Written(f, f \in Durable)
        /\ UNCHANGED <<mem, log, up, threadVars, setVars, writes, plan>>
    BY DEF flush_handle
  <1>2. Flushes /\ \A k \in dirty : FileOf[k] # f => k \in dirty'
    <2>1. UNCHANGED mem /\ Written(f, f \in Durable)
      BY <1>1
    <2>2. Flushes
      BY <2>1 DEF Flushes, Written
    <2>3. \A k \in dirty : FileOf[k] # f => k \in dirty'
      BY <2>1 DEF Written
    <2> QED BY <2>2, <2>3
  <1>3. ASSUME NEW p \in Threads PROVE ThreadInv(p)'
    <2>1. Same(p) /\ f \notin todo[p]
      BY <1>1 DEF Same, threadVars, IInv, ThreadInv, Free
    <2>2. last' = last /\ last \in Nat
      BY <1>1, TypeParts DEF setVars, IInv
    <2> QED BY <1>1, <1>2, <2>1, <2>2, ThreadMoves DEF setVars
  <1>4. ASSUME NEW t \in acked PROVE AckedInv(t)'
    <2>1. AckedInv(t)
      BY DEF IInv
    <2> QED BY <1>1, <1>2, <2>1, FlushesMove, AckedMoves DEF AckedInv, threadVars, setVars
  <1>5. NumbersInv'
    BY <1>1 DEF IInv, NumbersInv, setVars
  <1>6. \A p, q \in Threads : p # q => Apart(p, q)'
    BY <1>1 DEF IInv, Apart, threadVars
  <1> QED BY <1>1, <1>3, <1>4, <1>5, <1>6 DEF IInv, setVars

LEMMA BeginStep ==
    ASSUME IInv, TypeOK', NEW p \in Workers, NEW S \in ChangeSets, apply_transaction(p, S)
    PROVE  IInv'
  <1> DEFINE u == last + 1
  <1>1. /\ Numbered(S) /\ cur' = [cur EXCEPT ![p] = u] /\ pc' = [pc EXCEPT ![p] = "create"]
        /\ last < plan.sets /\ up /\ pc[p] = "idle"
        /\ UNCHANGED <<dataVars, log, up, held, todo, applied, later, acked, writes, plan>>
    BY DEF apply_transaction, Numbered, Goto
  <1>2. TypeOK /\ NumbersInv /\ u \in Sets /\ last \in Nat /\ last' = u /\ u \notin 1..last
    BY <1>1, NextNumber DEF IInv, Numbered
  <1>3. \A t \in 1..last : t # u /\ changes'[t] = changes[t]
    BY <1>1, <1>2, TypeParts DEF Numbered
  <1>4. changes'[u] = S /\ S # {}
    BY <1>1, <1>2, TypeParts, ChangeSetsAssumption DEF Numbered
  <1>5. p \in Threads /\ p # Opener
    BY OpenerAssumption DEF Threads
  <1>6. cur'[p] = u /\ pc'[p] = "create"
    BY <1>1, <1>5, TypeParts, <1>2
  <1>7. \A q \in Threads : q # p => Same(q)
    BY <1>1, <1>2, <1>5, TypeParts DEF Same
  <1>8. Flushes /\ UNCHANGED dirty
    BY <1>1, StillFlushes
  <1>9. \A q \in Threads : cur[q] # u
    <2>1. ASSUME NEW q \in Threads, cur[q] = u PROVE FALSE
      <3>1. CASE pc[q] = "idle"
        BY <3>1, <2>1, <1>2 DEF IInv, ThreadInv
      <3>2. CASE pc[q] # "idle"
        BY <3>2, <2>1, <1>2, CurIsSet
      <3> QED BY <3>1, <3>2
    <2> QED BY <2>1
  <1>a. 1..last \subseteq 1..u /\ u \in 1..u /\ last <= u /\ u \in Nat
    BY <1>2
  <1>b. \A t \in 1..u : t \in 1..last \/ t = u
    BY <1>2
  <1> HIDE DEF u
  <1>10. NumbersInv'
    <2>1. applied' \subseteq 1..last' /\ acked' \subseteq applied'
      BY <1>1, <1>2, <1>a DEF NumbersInv
    <2>2. \A t \in Sets : log'[t] # "none" => t <= last'
      BY <1>1, <1>2 DEF NumbersInv, Sets, u
    <2>3. \A t \in 1..last' : changes'[t] # {}
      BY <1>2, <1>3, <1>4, <1>b DEF NumbersInv
    <2> QED BY <2>1, <2>2, <2>3 DEF NumbersInv
  <1>11. ASSUME NEW q \in Threads, NEW r \in Threads, q # r PROVE Apart(q, r)'
    <2>1. held' = held /\ cur'[q] = (IF q = p THEN u ELSE cur[q]) /\ cur'[r] = (IF r = p THEN u ELSE cur[r])
      BY <1>1, <1>6, <1>7 DEF Same
    <2> QED BY <1>9, <1>11, <2>1 DEF Apart, IInv
  <1>12. ASSUME NEW q \in Threads PROVE ThreadInv(q)'
    <2>1. CASE q = p
      <3>1. held'[p] = {} /\ todo'[p] = {} /\ u \notin applied'
        BY <1>1, <1>2, <1>5 DEF IInv, ThreadInv, NumbersInv
      <3> QED BY <2>1, <3>1, <1>1, <1>2, <1>5, <1>6, <1>a DEF ThreadInv
    <2>2. CASE q # p
      <3>1. Same(q) /\ last' \in Nat /\ last <= last'
        BY <2>2, <1>2, <1>7, <1>a
      <3>2. pc[q] # "idle" => changes'[cur[q]] = changes[cur[q]]
        BY <1>3, CurIsSet
      <3> QED BY <3>1, <3>2, <1>1, <1>8, ThreadMoves
    <2> QED BY <2>1, <2>2
  <1>13. ASSUME NEW t \in acked PROVE AckedInv(t)'
    <2>1. AckedInv(t) /\ t \in 1..last
      BY <1>2 DEF IInv, NumbersInv
    <2>2. \A q \in Threads : cur'[q] # t
      BY <1>3, <1>6, <1>7, <2>1 DEF AckedInv, Same
    <2> QED BY <1>1, <1>3, <1>8, <2>1, <2>2, FlushesMove, AckedMoves DEF AckedInv
  <1> QED BY <1>1, <1>10, <1>11, <1>12, <1>13 DEF IInv

\* A step of p that changes its own intent's place in the log, and its own
\* place, alone: all the other threads and the returned sets are as they were.
LEMMA LogStep ==
    ASSUME IInv, NEW p \in Threads, pc[p] # "idle", NEW word,
           log' = [log EXCEPT ![cur[p]] = word],
           \A q \in Threads : q # p => Same(q), held'[p] = held[p],
           cur'[p] \in {0, cur[p]},
           UNCHANGED <<dataVars, up, last, changes, applied, later>>
    PROVE  /\ \A q \in Threads : q # p => ThreadInv(q)'
           /\ \A t \in acked : AckedInv(t)'
           /\ \A q, r \in Threads : q # r => Apart(q, r)'
           /\ \A t \in Sets : log'[t] # "none" => t <= last'
           /\ log'[cur[p]] = word
           /\ \A t \in Sets : t # cur[p] => log'[t] = log[t]
  <1>1. TypeOK /\ NumbersInv /\ cur[p] \in Sets /\ cur[p] \in 1..last /\ last \in Nat
    BY CurIsSet, TypeParts DEF IInv
  <1>2. /\ log'[cur[p]] = word
        /\ \A t \in Sets : t # cur[p] => log'[t] = log[t]
    BY <1>1, TypeParts
  <1>3. Flushes /\ UNCHANGED dirty
    BY StillFlushes
  <1>4. ASSUME NEW q \in Threads, q # p PROVE ThreadInv(q)'
    <2>1. pc[q] # "idle" => log'[cur[q]] = log[cur[q]]
      BY <1>2, <1>4, CursApart, CurIsSet
    <2> QED BY <1>1, <1>3, <1>4, <2>1, ThreadMoves
  <1>5. ASSUME NEW t \in acked PROVE AckedInv(t)'
    <2>1. AckedInv(t) /\ t \in Sets
      BY <1>1, TypeParts DEF IInv
    <2>2. \A q \in Threads : cur'[q] # t
      BY <2>1 DEF AckedInv, Same, Sets
    <2> QED BY <1>2, <1>3, <2>1, <2>2, FlushesMove, AckedMoves DEF AckedInv
  <1>6. ASSUME NEW q \in Threads, NEW r \in Threads, q # r PROVE Apart(q, r)'
    BY <1>6, CursApart DEF IInv, Apart, Same
  <1>7. \A t \in Sets : log'[t] # "none" => t <= last'
    BY <1>1, <1>2 DEF NumbersInv
  <1> QED BY <1>2, <1>4, <1>5, <1>6, <1>7

LEMMA IntentStep ==
    ASSUME IInv, TypeOK', NEW p \in Threads, rename_intent(p) \/ write_intent(p)
    PROVE  IInv'
  <1>1. PICK word \in {"named", "fsynced"}, label \in {"sync", "lock"} :
            /\ pc[p] \in {"create", "sync"}
            /\ log' = [log EXCEPT ![cur[p]] = word] /\ pc' = [pc EXCEPT ![p] = label]
            /\ label = "lock" => word = "fsynced"
            /\ UNCHANGED <<dataVars, up, cur, held, todo, setVars, writes, plan>>
    BY DEF rename_intent, write_intent, Goto
  <1>2. TypeOK /\ pc'[p] = label /\ \A q \in Threads : q # p => Same(q)
    BY <1>1, TypeParts DEF IInv, Same
  <1>3. UNCHANGED <<dataVars, up, last, changes, applied, later, acked>> /\ cur'[p] = cur[p] /\ held'[p] = held[p]
    BY <1>1 DEF setVars
  <1>4. /\ \A q \in Threads : q # p => ThreadInv(q)'
        /\ \A t \in acked : AckedInv(t)'
        /\ \A q, r \in Threads : q # r => Apart(q, r)'
        /\ \A t \in Sets : log'[t] # "none" => t <= last'
        /\ log'[cur[p]] = word
    BY <1>1, <1>2, <1>3, LogStep
  <1>5. ThreadInv(p)'
    BY <1>1, <1>2, <1>3, <1>4 DEF IInv, ThreadInv
  <1>6. NumbersInv'
    BY <1>3, <1>4 DEF IInv, NumbersInv
  <1> QED BY <1>3, <1>4, <1>5, <1>6 DEF IInv

LEMMA UnlinkStep ==
    ASSUME IInv, TypeOK', NEW p \in Threads, unlink_intent(p)
    PROVE  IInv'
  <1>1. /\ pc[p] = "remove" /\ log' = [log EXCEPT ![cur[p]] = "removed"] /\ pc' = [pc EXCEPT ![p] = "settle"]
        /\ UNCHANGED <<dataVars, up, cur, held, todo, setVars, writes, plan>>
    BY DEF unlink_intent, Goto
  <1>2. TypeOK /\ pc'[p] = "settle" /\ \A q \in Threads : q # p => Same(q)
    BY <1>1, TypeParts DEF IInv, Same
  <1>3. UNCHANGED <<dataVars, up, last, changes, applied, later, acked>> /\ cur'[p] = cur[p] /\ held'[p] = held[p]
    BY <1>1 DEF setVars
  <1>4. /\ \A q \in Threads : q # p => ThreadInv(q)'
        /\ \A t \in acked : AckedInv(t)'
        /\ \A q, r \in Threads : q # r => Apart(q, r)'
        /\ \A t \in Sets : log'[t] # "none" => t <= last'
    BY <1>1, <1>2, <1>3, LogStep
  <1>5. Whole(cur[p])'
    BY <1>1, <1>3 DEF IInv, ThreadInv, Whole, Newer, dataVars
  <1>6. ThreadInv(p)'
    BY <1>1, <1>2, <1>3, <1>5 DEF IInv, ThreadInv
  <1>7. NumbersInv'
    BY <1>3, <1>4 DEF IInv, NumbersInv
  <1> QED BY <1>3, <1>4, <1>6, <1>7 DEF IInv

LEMMA RemoveStep ==
    ASSUME IInv, TypeOK', NEW p \in Threads, remove_intent(p)
    PROVE  IInv'
  <1>1. PICK t : t = cur[p]
    OBVIOUS
  <1>2. /\ pc[p] = "settle" /\ log' = [log EXCEPT ![cur[p]] = "none"] /\ pc' = [pc EXCEPT ![p] = "idle"]
        /\ acked' = acked \cup {t} /\ cur' = [cur EXCEPT ![p] = 0]
        /\ UNCHANGED <<dataVars, up, held, todo, last, changes, applied, later, writes, plan>>
    BY <1>1 DEF remove_intent, Goto
  <1>3. TypeOK /\ pc'[p] = "idle" /\ cur'[p] = 0 /\ \A q \in Threads : q # p => Same(q)
    BY <1>2, TypeParts DEF IInv, Same
  <1>4. /\ \A q \in Threads : q # p => ThreadInv(q)'
        /\ \A s \in acked : AckedInv(s)'
        /\ \A q, r \in Threads : q # r => Apart(q, r)'
        /\ \A s \in Sets : log'[s] # "none" => s <= last'
        /\ log'[t] = "none"
    BY <1>1, <1>2, <1>3, LogStep
  <1>5. Whole(t)' /\ t \in applied /\ t \in Sets
    BY <1>1, <1>2, CurIsSet DEF IInv, ThreadInv, Whole, Newer, dataVars
  <1>6. \A q \in Threads : cur'[q] # t
    BY <1>1, <1>2, <1>3, <1>5, CursApart DEF Same, Sets
  <1>7. AckedInv(t)'
    BY <1>2, <1>4, <1>5, <1>6 DEF AckedInv
  <1>8. ThreadInv(p)'
    <2>1. todo[p] \subseteq held[p] /\ held[p] = {}
      BY <1>2 DEF IInv, ThreadInv
    <2> QED BY <1>2, <1>3, <2>1 DEF ThreadInv
  <1>9. NumbersInv'
    BY <1>2, <1>4, <1>5 DEF IInv, NumbersInv
  <1> QED BY <1>2, <1>4, <1>7, <1>8, <1>9 DEF IInv

LEMMA LockStep ==
    ASSUME IInv, TypeOK', NEW p \in Threads, Lock(p)
    PROVE  IInv'
  <1>1. PICK f : f = Least(FilesOf(changes[cur[p]]) \ held[p])
    OBVIOUS
  <1>2. /\ pc[p] = "lock" /\ Free(f) /\ held' = [held EXCEPT ![p] = @ \cup {f}]
        /\ UNCHANGED <<dataVars, log, up, pc, cur, todo, setVars, writes, plan>>
    BY <1>1 DEF Lock
  <1>3. TypeOK /\ held'[p] = held[p] \cup {f} /\ \A q \in Threads : q # p => Same(q)
    BY <1>2, TypeParts DEF IInv, Same
  <1>4. UNCHANGED <<last, changes, applied, later, acked>> /\ last \in Nat
    BY <1>2, <1>3, TypeParts DEF setVars
  <1>5. Flushes /\ UNCHANGED dirty
    BY <1>2, StillFlushes
  <1>6. ASSUME NEW q \in Threads PROVE ThreadInv(q)'
    <2>1. CASE q = p
      BY <2>1, <1>2, <1>3, <1>4 DEF IInv, ThreadInv
    <2>2. CASE q # p
      BY <2>2, <1>2, <1>3, <1>4, <1>5, ThreadMoves
    <2> QED BY <2>1, <2>2
  <1>7. ASSUME NEW t \in acked PROVE AckedInv(t)'
    <2>1. AckedInv(t)
      BY DEF IInv
    <2> QED BY <1>2, <1>4, <1>5, <2>1, FlushesMove, AckedMoves DEF AckedInv
  <1>8. ASSUME NEW q \in Threads, NEW r \in Threads, q # r PROVE Apart(q, r)'
    <2>1. f \notin held[q] /\ f \notin held[r] /\ Apart(q, r)
      BY <1>2, <1>8 DEF Free, IInv
    <2> QED BY <1>2, <1>3, <1>8, <2>1 DEF Apart, Same
  <1>9. NumbersInv'
    BY <1>2, <1>4 DEF IInv, NumbersInv
  <1> QED BY <1>4, <1>6, <1>7, <1>8, <1>9 DEF IInv

LEMMA ApplyStep ==
    ASSUME IInv, TypeOK', NEW p \in Threads, apply_staged(p)
    PROVE  IInv'
  <1>0. PICK t : t = cur[p]
    OBVIOUS
  <1>1. /\ pc[p] = "lock" /\ FilesOf(changes[t]) \subseteq held[p] /\ Applied(t, changes[t])
        /\ todo' = [todo EXCEPT ![p] = FilesOf(changes[t])] /\ pc' = [pc EXCEPT ![p] = "flush"]
        /\ UNCHANGED <<disk, synced, log, up, cur, held, last, changes, acked, writes, plan>>
    BY <1>0 DEF apply_staged, Goto
  <1>2. TypeOK /\ NumbersInv /\ t \in Sets /\ t \in 1..last /\ last \in Nat
    BY <1>0, <1>1, CurIsSet, TypeParts DEF IInv
  <1>3. /\ changes[t] \in SUBSET Keys /\ changes[t] # {} /\ FilesOf(changes[t]) # {}
    BY <1>2, TypeParts DEF NumbersInv, FilesOf
  <1>4. /\ pc'[p] = "flush" /\ todo'[p] = FilesOf(changes[t]) /\ cur'[p] = t /\ held'[p] = held[p]
        /\ \A q \in Threads : q # p => Same(q)
    BY <1>0, <1>1, <1>2, TypeParts DEF Same
  <1>5. applied' = applied \cup {t}
    BY <1>1 DEF Applied
  <1>6. ThreadInv(p)'
    <2>1. InMemory(t)' /\ \A k \in changes[t] : k \in dirty'
      BY <1>1, <1>2, AppliedThere
    <2>2. \A k \in changes[t] : FileOf[k] \in todo'[p]
      BY <1>4 DEF FilesOf
    <2>3. HalfWay(p)'
      BY <1>1, <1>4, <2>1, <2>2 DEF HalfWay, InMemory
    <2> QED BY <1>0, <1>1, <1>2, <1>3, <1>4, <1>5, <2>3 DEF IInv, ThreadInv
  <1>7. ASSUME NEW q \in Threads, q # p PROVE ThreadInv(q)'
    <2>1. Same(q) /\ ThreadInv(q) /\ (pc[q] # "idle" => cur[q] # t)
      BY <1>0, <1>1, <1>4, <1>7, CursApart DEF IInv
    <2>2. pc[q] # "idle" => (cur[q] \in applied <=> cur[q] \in applied') /\ log'[cur[q]] = log[cur[q]]
      BY <1>1, <1>5, <2>1
    <2>3. pc[q] = "flush" => HalfWay(q)'
      BY <1>1, <1>2, <1>3, <2>1, HalfWayApplied DEF ThreadInv
    <2>4. pc[q] \in {"remove", "settle"} => Whole(cur[q])'
      <3>1. SUFFICES ASSUME pc[q] \in {"remove", "settle"} PROVE Whole(cur[q])'
        OBVIOUS
      <3>2. PICK s : s = cur[q]
        OBVIOUS
      <3>3. Whole(s) /\ s \in applied /\ cur'[q] = s /\ s # t
        BY <3>1, <3>2, <2>1 DEF ThreadInv, Same
      <3>4. Whole(s)'
        BY <1>1, <1>2, <1>3, <3>3, AppliedKeeps
      <3> QED BY <3>3, <3>4 DEF Whole, Newer
    <2> QED BY <1>1, <1>2, <2>1, <2>2, <2>3, <2>4, ThreadStays
  <1>8. ASSUME NEW s \in acked PROVE AckedInv(s)'
    <2>1. AckedInv(s) /\ s \in applied /\ s # t
      BY <1>0, <1>2 DEF IInv, NumbersInv, AckedInv
    <2>2. Whole(s)'
      BY <1>1, <1>2, <1>3, <2>1, AppliedKeeps DEF AckedInv
    <2> QED BY <1>1, <1>5, <2>1, <2>2 DEF AckedInv
  <1>9. NumbersInv'
    BY <1>1, <1>2, <1>5 DEF NumbersInv
  <1>10. \A q, r \in Threads : q # r => Apart(q, r)'
    BY <1>1 DEF IInv, Apart
  <1> QED BY <1>1, <1>6, <1>7, <1>8, <1>9, <1>10 DEF IInv

LEMMA FlushLockedStep ==
    ASSUME IInv, TypeOK', NEW p \in Threads, flush_locked(p)
    PROVE  IInv'
  <1>0. PICK f, t : f = Least(todo[p]) /\ t = cur[p]
    OBVIOUS
  <1>1. /\ pc[p] = "flush" /\ Written(f, TRUE)
        /\ todo' = [todo EXCEPT ![p] = @ \ {f}]
        /\ held' = [held EXCEPT ![p] = IF todo[p] = {f} THEN {} ELSE @]
        /\ pc' = [pc EXCEPT ![p] = IF todo[p] = {f} THEN "remove" ELSE @]
        /\ UNCHANGED <<mem, log, up, cur, setVars, writes, plan>>
    <2>1. /\ pc[p] = "flush" /\ Written(f, TRUE)
          /\ todo' = [todo EXCEPT ![p] = @ \ {f}]
          /\ held' = [held EXCEPT ![p] = IF todo[p] = {f} THEN {} ELSE @]
          /\ IF todo[p] = {f} THEN Goto(p, "remove") ELSE UNCHANGED pc
          /\ UNCHANGED <<mem, log, up, cur, setVars, writes, plan>>
      BY <1>0 DEF flush_locked
    <2>2. pc \in [Threads -> Labels]
      BY TypeParts DEF IInv
    <2> QED BY <2>1, <2>2 DEF Goto
  <1>2. /\ TypeOK /\ ThreadInv(p) /\ t \in Sets /\ last \in Nat /\ changes[t] \subseteq Keys
        /\ f \in todo[p] /\ f \in held[p]
    BY <1>0, <1>1, CurIsSet, NextFile, TypeParts DEF IInv
  <1>3. /\ todo'[p] = todo[p] \ {f} /\ held'[p] = (IF todo[p] = {f} THEN {} ELSE held[p])
        /\ pc'[p] = (IF todo[p] = {f} THEN "remove" ELSE "flush") /\ cur'[p] = t
        /\ \A q \in Threads : q # p => Same(q)
    BY <1>0, <1>1, <1>2, TypeParts DEF Same
  <1>4. UNCHANGED <<last, changes, applied, later, acked>>
    BY <1>1 DEF setVars
  <1>5. Flushes /\ \A k \in dirty : FileOf[k] # f => k \in dirty'
    BY <1>1, WrittenFlushes
  <1>6. ASSUME NEW k \in changes[t]
        PROVE  /\ mem'[k] \in Newer(t)
               /\ FileOf[k] \in todo'[p] => k \in dirty'
               /\ FileOf[k] \notin todo'[p] => disk'[k] \in Newer(t) /\ synced'[k] \in Newer(t)
    <2>1. /\ k \in Keys /\ mem[k] \in Newer(t) /\ (FileOf[k] \in todo[p] => k \in dirty)
          /\ FileOf[k] \notin todo[p] => disk[k] \in Newer(t) /\ synced[k] \in Newer(t)
      BY <1>0, <1>1, <1>2, <1>6 DEF ThreadInv, HalfWay
    <2>2. CASE FileOf[k] = f
      <3>1. k \in dirty /\ disk'[k] = mem[k] /\ synced'[k] = mem[k]
        BY <1>1, <1>2, <2>1, <2>2 DEF Written
      <3> QED BY <1>1, <1>3, <2>1, <2>2, <3>1
    <2>3. CASE FileOf[k] # f
      <3>1. disk'[k] = disk[k] /\ synced'[k] = synced[k]
        BY <1>1, <2>1, <2>3 DEF Written
      <3> QED BY <1>1, <1>3, <1>5, <2>1, <2>3, <3>1
    <2> QED BY <2>2, <2>3
  <1>7. Newer(t)' = Newer(t)
    BY <1>4 DEF Newer
  <1>8. ThreadInv(p)'
    <2>1. CASE todo[p] = {f}
      <3>1. todo'[p] = {} /\ held'[p] = {} /\ pc'[p] = "remove"
        BY <1>3, <2>1
      <3>2. Whole(t)'
        BY <1>4, <1>6, <1>7, <3>1 DEF Whole
      <3>3. Whole(cur[p])'
        BY <1>3, <3>2 DEF Whole, Newer
      <3> QED BY <1>0, <1>1, <1>2, <1>3, <1>4, <3>1, <3>3 DEF ThreadInv
    <2>2. CASE todo[p] # {f}
      <3>1. todo'[p] # {} /\ held'[p] = held[p] /\ pc'[p] = "flush" /\ todo'[p] \subseteq held'[p]
        BY <1>2, <1>3, <2>2 DEF ThreadInv
      <3>2. HalfWay(p)'
        BY <1>3, <1>4, <1>6, <1>7 DEF HalfWay
      <3> QED BY <1>0, <1>1, <1>2, <1>3, <1>4, <3>1, <3>2 DEF ThreadInv
    <2> QED BY <2>1, <2>2
  <1>9. ASSUME NEW q \in Threads, q # p PROVE ThreadInv(q)'
    <2>1. Same(q) /\ f \notin todo[q]
      BY <1>2, <1>3, <1>9 DEF IInv, ThreadInv, Apart
    <2> QED BY <1>1, <1>2, <1>4, <1>5, <2>1, ThreadMoves
  <1>10. ASSUME NEW s \in acked PROVE AckedInv(s)'
    <2>1. AckedInv(s)
      BY DEF IInv
    <2> QED BY <1>1, <1>4, <1>5, <2>1, FlushesMove, AckedMoves DEF AckedInv
  <1>11. NumbersInv'
    BY <1>1, <1>4 DEF IInv, NumbersInv
  <1>12. ASSUME NEW q \in Threads, NEW r \in Threads, q # r PROVE Apart(q, r)'
    <2>1. held'[q] \subseteq held[q] /\ held'[r] \subseteq held[r] /\ Apart(q, r)
      BY <1>3, <1>12 DEF Same, IInv
    <2> QED BY <1>1, <2>1 DEF Apart
  <1> QED BY <1>4, <1>8, <1>9, <1>10, <1>11, <1>12 DEF IInv

\* While the database is being opened, only the opener is at work.
LEMMA WorkersIdle ==
    ASSUME IInv, ~up, NEW p \in Threads, p # Opener
    PROVE  pc[p] = "idle" /\ cur[p] = 0 /\ held[p] = {}
  BY DEF IInv, ThreadInv, Threads

LEMMA ReplayStep ==
    ASSUME IInv, TypeOK', NEW p \in Threads, replay(p)
    PROVE  IInv'
  <1>0. PICK t : t = Least(Pending)
    OBVIOUS
  <1>1. /\ p = Opener /\ ~up /\ pc[p] = "idle" /\ Pending # {}
        /\ cur' = [cur EXCEPT ![p] = t] /\ pc' = [pc EXCEPT ![p] = "lock"]
        /\ UNCHANGED <<dataVars, log, up, held, todo, setVars, writes, plan>>
    BY <1>0 DEF replay, Goto
  <1>2. Pending \in SUBSET Nat
    BY DEF Pending, Sets
  <1>3. t \in Sets /\ log[t] \in {"named", "fsynced"}
    <2>1. t \in Pending
      BY <1>0, <1>1, <1>2, LeastIn
    <2> QED BY <2>1 DEF Pending
  <1>4. TypeOK /\ NumbersInv /\ t \in 1..last /\ last \in Nat
    BY <1>3, TypeParts DEF IInv, NumbersInv, Sets
  <1>5. cur'[p] = t /\ pc'[p] = "lock" /\ \A q \in Threads : q # p => Same(q)
    BY <1>1, <1>4, TypeParts DEF Same
  <1>6. UNCHANGED <<last, changes, applied, later, acked>>
    BY <1>1 DEF setVars
  <1>7. Flushes /\ UNCHANGED dirty
    BY <1>1, StillFlushes
  <1>8. ThreadInv(p)'
    <2>1. todo[p] \subseteq held[p]
      BY DEF IInv, ThreadInv
    <2>2. p \notin Workers
      BY <1>1, OpenerAssumption
    <2> QED BY <1>1, <1>3, <1>4, <1>5, <1>6, <2>1, <2>2 DEF ThreadInv
  <1>9. ASSUME NEW q \in Threads, q # p PROVE ThreadInv(q)'
    BY <1>1, <1>4, <1>5, <1>6, <1>7, <1>9, ThreadMoves
  <1>10. ASSUME NEW s \in acked PROVE AckedInv(s)'
    <2>1. AckedInv(s) /\ s # t
      BY <1>3 DEF IInv, AckedInv
    <2>2. \A q \in Threads : cur'[q] # s
      BY <1>5, <2>1 DEF AckedInv, Same
    <2> QED BY <1>1, <1>6, <1>7, <2>1, <2>2, FlushesMove, AckedMoves DEF AckedInv
  <1>11. ASSUME NEW q \in Threads, NEW r \in Threads, q # r PROVE Apart(q, r)'
    <2>1. held' = held /\ Apart(q, r) /\ t # 0
      BY <1>1, <1>4, <1>11 DEF IInv
    <2>2. \A x \in Threads : x # p => cur'[x] = 0
      BY <1>1, <1>5, WorkersIdle DEF Same
    <2> QED BY <1>5, <1>11, <2>1, <2>2 DEF Apart
  <1>12. NumbersInv'
    BY <1>1, <1>4, <1>6 DEF NumbersInv
  <1> QED BY <1>6, <1>8, <1>9, <1>10, <1>11, <1>12 DEF IInv

LEMMA OpenStep ==
    ASSUME IInv, TypeOK', replay_transaction_log
    PROVE  IInv'
  <1>1. /\ ~up /\ pc[Opener] = "idle" /\ up'
        /\ UNCHANGED <<dataVars, log, threadVars, setVars, writes, plan>>
    BY DEF replay_transaction_log
  <1>2. UNCHANGED <<last, changes, applied, later, acked, pc, cur, held, todo>>
    BY <1>1 DEF setVars, threadVars
  <1>3. ASSUME NEW p \in Threads PROVE ThreadInv(p)'
    <2>1. pc[p] = "idle" /\ ThreadInv(p)
      BY <1>1, WorkersIdle DEF IInv
    <2> QED BY <1>2, <2>1 DEF ThreadInv
  <1>4. ASSUME NEW t \in acked PROVE AckedInv(t)'
    <2>1. AckedInv(t)
      BY DEF IInv
    <2> QED BY <1>1, <1>2, <2>1, StillFlushes, FlushesMove, AckedMoves DEF AckedInv
  <1>5. NumbersInv' /\ \A p, q \in Threads : p # q => Apart(p, q)'
    BY <1>1, <1>2 DEF IInv, NumbersInv, Apart
  <1> QED BY <1>2, <1>3, <1>4, <1>5 DEF IInv

LEMMA FailStep ==
    ASSUME IInv, TypeOK', NEW p \in Workers, NEW torn \in SUBSET Keys, Fail(p, torn)
    PROVE  IInv'
  <1>1. /\ disk' = [k \in Keys |-> IF k \in torn THEN mem[k] ELSE disk[k]]
        /\ pc' = [pc EXCEPT ![p] = "idle"] /\ cur' = [cur EXCEPT ![p] = 0]
        /\ held' = [held EXCEPT ![p] = {}] /\ todo' = [todo EXCEPT ![p] = {}]
        /\ UNCHANGED <<mem, dirty, synced, log, up, setVars, writes>>
    BY DEF Fail, Goto
  <1>2. TypeOK /\ last \in Nat /\ p \in Threads
    BY TypeParts DEF IInv, Threads
  <1>3. /\ pc'[p] = "idle" /\ cur'[p] = 0 /\ held'[p] = {} /\ todo'[p] = {}
        /\ \A q \in Threads : q # p => Same(q)
    BY <1>1, <1>2, TypeParts DEF Same
  <1>4. UNCHANGED <<last, changes, applied, later, acked>>
    BY <1>1 DEF setVars
  <1>5. Flushes
    BY <1>1 DEF Flushes
  <1>6. ThreadInv(p)'
    BY <1>3 DEF ThreadInv
  <1>7. ASSUME NEW q \in Threads, q # p PROVE ThreadInv(q)'
    BY <1>1, <1>2, <1>3, <1>4, <1>5, <1>7, ThreadMoves
  <1>8. ASSUME NEW t \in acked PROVE AckedInv(t)'
    <2>1. AckedInv(t) /\ t # 0
      BY TypeParts DEF IInv, Sets
    <2>2. \A q \in Threads : cur'[q] # t
      BY <1>3, <2>1 DEF AckedInv, Same
    <2> QED BY <1>1, <1>4, <1>5, <2>1, <2>2, FlushesMove, AckedMoves DEF AckedInv
  <1>9. ASSUME NEW q \in Threads, NEW r \in Threads, q # r PROVE Apart(q, r)'
    BY <1>3, <1>9 DEF IInv, Apart, Same
  <1>10. NumbersInv'
    BY <1>1, <1>4 DEF IInv, NumbersInv
  <1> QED BY <1>4, <1>6, <1>7, <1>8, <1>9, <1>10 DEF IInv

\* After a crash no thread is at work, and what returned sets left is moved about.
LEMMA CrashKeeps ==
    ASSUME IInv, TypeOK', NEW d, Restart(d), Moves,
           \A t \in Sets : log[t] = "none" => log'[t] = "none"
    PROVE  IInv'
  <1>1. /\ \A p \in Threads : pc'[p] = "idle" /\ cur'[p] = 0 /\ held'[p] = {} /\ todo'[p] = {}
        /\ UNCHANGED <<last, changes, applied, later, acked>>
    BY DEF Restart, setVars
  <1>2. \A p \in Threads : ThreadInv(p)'
    BY <1>1 DEF ThreadInv
  <1>3. \A p, q \in Threads : p # q => Apart(p, q)'
    BY <1>1 DEF Apart
  <1>4. NumbersInv'
    BY <1>1 DEF IInv, NumbersInv
  <1>5. ASSUME NEW t \in acked PROVE AckedInv(t)'
    <2>1. AckedInv(t) /\ t \in Sets
      BY TypeParts DEF IInv
    <2>2. log'[t] = log[t] /\ \A p \in Threads : cur'[p] # t
      BY <1>1, <2>1 DEF AckedInv, Sets
    <2> QED BY <1>1, <2>1, <2>2, AckedMoves
  <1> QED BY <1>1, <1>2, <1>3, <1>4, <1>5 DEF IInv

\* What a crash leaves of the records was somewhere before it, and what it
\* leaves of the log.
LEMMA KillMoves ==
    ASSUME TypeOK, NEW torn \in SUBSET Keys, Kill(torn)
    PROVE  Moves /\ UNCHANGED log
  <1>1. /\ mem' = [k \in Keys |-> IF k \in torn THEN mem[k] ELSE disk[k]] /\ disk' = mem'
        /\ UNCHANGED <<synced, log>>
    BY DEF Kill, Restart
  <1> QED BY <1>1 DEF Moves

LEMMA CutMoves ==
    ASSUME TypeOK, NEW torn \in SUBSET Keys, NEW lost \in SUBSET Keys, NEW names \in SUBSET Sets,
           PowerCut(torn, lost, names)
    PROVE  /\ Moves
           /\ \A t \in Sets : log[t] \in {"none", "fsynced"} => log'[t] = log[t]
           /\ \A t \in Sets : log'[t] # "named"
  <1>1. /\ mem' = [k \in Keys |-> IF k \in torn THEN mem[k] ELSE IF k \in lost THEN synced[k] ELSE disk[k]]
        /\ disk' = mem' /\ synced' = mem' /\ names \subseteq Unsure
        /\ log' = [t \in Sets |-> IF t \in names THEN "fsynced" ELSE IF t \in Unsure THEN "none" ELSE log[t]]
    BY DEF PowerCut, Restart
  <1>2. Moves
    BY <1>1 DEF Moves
  <1>3. \A t \in Sets : log[t] \in {"none", "fsynced"} => log'[t] = log[t]
    BY <1>1 DEF Unsure
  <1>4. \A t \in Sets : log'[t] # "named"
    BY <1>1 DEF Unsure
  <1> QED BY <1>2, <1>3, <1>4

LEMMA InvStep ==
    ASSUME IInv, [Next]_vars
    PROVE  IInv'
  <1>t. TypeOK' /\ TypeOK
    BY TypeStep DEF IInv
  <1>1. ASSUME NEW torn \in SUBSET Keys, Kill(torn) PROVE IInv'
    <2>1. \E d : Restart(d)
      BY <1>1 DEF Kill
    <2> QED BY <1>t, <1>1, <2>1, KillMoves, CrashKeeps
  <1>2. ASSUME NEW torn \in SUBSET Keys, NEW lost \in SUBSET Keys, NEW names \in SUBSET Sets,
               PowerCut(torn, lost, names)
        PROVE  IInv'
    <2>1. \E d : Restart(d)
      BY <1>2 DEF PowerCut
    <2>2. Moves /\ \A t \in Sets : log[t] = "none" => log'[t] = "none"
      BY <1>t, <1>2, CutMoves
    <2> QED BY <1>t, <2>1, <2>2, CrashKeeps
  <1>3. CASE UNCHANGED vars
    <2>1. UNCHANGED <<log, up, last, changes, applied, later, acked, pc, cur, held, todo>> /\ UNCHANGED dataVars
      BY <1>3 DEF vars, threadVars, setVars
    <2>2. Flushes /\ UNCHANGED dirty /\ last \in Nat
      BY <1>t, <2>1, StillFlushes, TypeParts
    <2>3. ASSUME NEW p \in Threads PROVE ThreadInv(p)'
      BY <2>1, <2>2, ThreadMoves DEF Same
    <2>4. ASSUME NEW t \in acked PROVE AckedInv(t)'
      <3>1. AckedInv(t)
        BY DEF IInv
      <3> QED BY <2>1, <2>2, <3>1, FlushesMove, AckedMoves DEF AckedInv
    <2>5. NumbersInv' /\ \A p, q \in Threads : p # q => Apart(p, q)'
      BY <2>1 DEF IInv, NumbersInv, Apart
    <2> QED BY <1>t, <2>1, <2>3, <2>4, <2>5 DEF IInv
  <1>4. ASSUME NEW p \in Threads, unlink_intent(p) \/ remove_intent(p) PROVE IInv'
    BY <1>t, <1>4, UnlinkStep, RemoveStep
  <1>5. ASSUME NEW p \in Threads, rename_intent(p) \/ write_intent(p) PROVE IInv'
    BY <1>t, <1>5, IntentStep
  <1> QED
    BY <1>t, <1>1, <1>2, <1>3, <1>4, <1>5, StepKinds, WriteStep, FlushStep, BeginStep, LockStep, ApplyStep,
       FlushLockedStep, ReplayStep, OpenStep, FailStep

-----------------------------------------------------------------------------

LEMMA Invariant == Spec => []IInv
  <1>1. Init => IInv
    BY InitHolds
  <1>2. IInv /\ [Next]_vars => IInv'
    BY InvStep
  <1> QED BY <1>1, <1>2, PTL DEF Spec

\* The variables of a database that runs transactions keep their types,
\* whatever fails.
THEOREM TypeCorrect == Spec => []TypeOK
  <1>1. IInv => TypeOK
    BY DEF IInv
  <1> QED BY <1>1, Invariant, PTL

\* A transaction that apply_transaction has returned is there, whatever errors,
\* deaths of the process and losses of power come after: nothing replays it, and
\* wherever the next process reads a record from, it finds it or a later change.
THEOREM ReturnedStands == Spec => []Committed
  <1>1. IInv => Committed
    BY DEF IInv, AckedInv, Whole, Newer, Committed, Stands
  <1> QED BY <1>1, Invariant, PTL

-----------------------------------------------------------------------------
(* All or nothing.                                                         *)

\* What is known of an applied set: it is all there, or it is one record, or
\* the log still names it; and while the database is open, memory has all of it.
Placed(t) ==
    \/ Whole(t)
    \/ \E k \in Keys : changes[t] = {k}
    \/ log[t] \in {"named", "fsynced"} /\ (up => InMemory(t))

\* An intent whose name a power cut may take back is not yet applied, unless
\* no power cut is to come.
NameKept(t) == log[t] = "named" /\ (t \in applied \/ ~up) => plan.cuts = 0

AllInv ==
    /\ \A t \in applied : Placed(t)
    /\ \A t \in Sets : NameKept(t)
    /\ plan.kills = 0 \/ plan.cuts = 0

\* Where the records only move, memory keeps its own, and the log its names.
LEMMA PlacedMoves ==
    ASSUME TypeOK, NEW t \in Sets, Placed(t), Moves, changes'[t] = changes[t], later'[t] = later[t],
           log[t] \in {"named", "fsynced"} => log'[t] \in {"named", "fsynced"},
           up' => up /\ UNCHANGED mem
    PROVE  Placed(t)'
  <1>1. CASE Whole(t)
    BY <1>1, MovesKeep DEF Placed
  <1>2. CASE \E k \in Keys : changes[t] = {k}
    BY <1>2 DEF Placed
  <1>3. CASE log[t] \in {"named", "fsynced"} /\ (up => InMemory(t))
    <2>1. up' => InMemory(t)'
      BY <1>3 DEF InMemory, Newer
    <2> QED BY <1>3, <2>1 DEF Placed
  <1> QED BY <1>1, <1>2, <1>3 DEF Placed

\* Where another set is applied on top.
LEMMA PlacedApplied ==
    ASSUME TypeOK, NEW u \in Sets, NEW S \in SUBSET Keys, Applied(u, S), UNCHANGED <<disk, synced, log, up>>,
           NEW t \in applied, t # u, changes'[t] = changes[t], Placed(t)
    PROVE  Placed(t)'
  <1>1. (Whole(t) => Whole(t)') /\ (InMemory(t) => InMemory(t)')
    BY AppliedKeeps
  <1>2. CASE Whole(t)
    BY <1>1, <1>2 DEF Placed
  <1>3. CASE \E k \in Keys : changes[t] = {k}
    BY <1>3 DEF Placed
  <1>4. CASE log[t] \in {"named", "fsynced"} /\ (up => InMemory(t))
    <2>1. up' => InMemory(t)'
      BY <1>1, <1>4
    <2> QED BY <1>4, <2>1 DEF Placed
  <1> QED BY <1>2, <1>3, <1>4 DEF Placed

\* A step that leaves the log, the faults and whether the database is open.
LEMMA NamesStay ==
    ASSUME IInv, AllInv, UNCHANGED <<log, up>>, plan'.cuts = plan.cuts, plan'.kills = plan.kills,
           \A t \in applied' : t \in applied \/ log[t] # "named"
    PROVE  (\A t \in Sets : NameKept(t)') /\ (plan'.kills = 0 \/ plan'.cuts = 0)
  BY DEF AllInv, NameKept

LEMMA AllStep ==
    ASSUME IInv, AllInv, [Next]_vars
    PROVE  AllInv'
  <1>0. TypeOK /\ NumbersInv /\ applied \subseteq Sets /\ plan \in [sets : 0..MaxSets, fails : Nat, kills : Nat, cuts : Nat]
    BY TypeParts DEF IInv
  <1>s. ASSUME UNCHANGED <<log, up, changes, applied, later, plan, mem>>, Moves PROVE AllInv'
    <2>1. \A t \in applied : Placed(t)'
      BY <1>0, <1>s, PlacedMoves DEF AllInv
    <2> QED BY <1>s, <2>1, NamesStay DEF AllInv
  <1>d. UNCHANGED dataVars => Moves /\ UNCHANGED mem
    BY StillFlushes, FlushesMove DEF dataVars
  <1>1. ASSUME NEW k \in Keys, Write(k) PROVE AllInv'
    <2> DEFINE u == last + 1
    <2>1. /\ Numbered({k}) /\ Applied(u, {k}) /\ last < plan.sets
          /\ UNCHANGED <<disk, synced, log, up, threadVars, acked, plan>>
      BY <1>1 DEF Write, Numbered
    <2>2. u \in Sets /\ last \in Nat /\ u \notin 1..last /\ ~(u <= last)
      BY <1>0, <2>1, NextNumber
    <2>3. \A t \in 1..last : t # u /\ changes'[t] = changes[t]
      BY <2>1, <2>2, <1>0, TypeParts DEF Numbered
    <2>4. changes'[u] = {k} /\ applied' = applied \cup {u} /\ log[u] = "none"
      BY <1>0, <2>1, <2>2, TypeParts DEF Numbered, Applied, NumbersInv
    <2> HIDE DEF u
    <2>5. ASSUME NEW t \in applied' PROVE Placed(t)'
      <3>1. CASE t = u
        BY <2>4, <3>1 DEF Placed
      <3>2. CASE t # u
        <4>1. t \in applied /\ t \in 1..last
          BY <1>0, <2>4, <3>2 DEF NumbersInv
        <4> QED BY <1>0, <2>1, <2>2, <2>3, <3>2, <4>1, PlacedApplied DEF AllInv
      <3> QED BY <3>1, <3>2
    <2> QED BY <2>1, <2>4, <2>5, NamesStay DEF AllInv
  <1>2. ASSUME NEW f \in Files, flush_handle(f) PROVE AllInv'
    <2>1. Written(f, f \in Durable) /\ UNCHANGED <<mem, log, up, threadVars, setVars, writes, plan>>
      BY <1>2 DEF flush_handle
    <2>2. Flushes
      BY <2>1 DEF Flushes, Written
    <2> QED BY <2>1, <2>2, FlushesMove, <1>s DEF setVars
  <1>3. ASSUME NEW p \in Workers, NEW S \in ChangeSets, apply_transaction(p, S) PROVE AllInv'
    <2>1. /\ Numbered(S) /\ last < plan.sets
          /\ UNCHANGED <<dataVars, log, up, held, todo, applied, later, acked, writes, plan>>
      BY <1>3 DEF apply_transaction, Numbered
    <2>2. \A t \in 1..last : changes'[t] = changes[t]
      BY <1>0, <2>1, NextNumber, TypeParts DEF Numbered
    <2>3. \A t \in applied : Placed(t)'
      BY <1>0, <1>d, <2>1, <2>2, PlacedMoves DEF AllInv, NumbersInv
    <2> QED BY <2>1, <2>3, NamesStay DEF AllInv
  <1>4. ASSUME NEW p \in Threads, NEW word, pc[p] # "idle", log' = [log EXCEPT ![cur[p]] = word],
               UNCHANGED <<dataVars, up, changes, applied, later, plan>>,
               cur[p] \in applied => Whole(cur[p]),
               word = "named" => cur[p] \notin applied /\ up
        PROVE  AllInv'
    <2>1. cur[p] \in Sets
      BY <1>4, CurIsSet
    <2>2. \A t \in Sets : log'[t] = IF t = cur[p] THEN word ELSE log[t]
      BY <1>0, <1>4, <2>1, TypeParts
    <2>3. ASSUME NEW t \in applied PROVE Placed(t)'
      <3>1. CASE t = cur[p]
        <4>1. Whole(t)'
          BY <1>0, <1>4, <1>d, <3>1, MovesKeep
        <4> QED BY <4>1 DEF Placed
      <3>2. CASE t # cur[p]
        BY <1>0, <1>4, <1>d, <2>2, <3>2, PlacedMoves DEF AllInv
      <3> QED BY <3>1, <3>2
    <2>4. \A t \in Sets : NameKept(t)'
      BY <1>4, <2>2 DEF AllInv, NameKept
    <2> QED BY <1>4, <2>3, <2>4 DEF AllInv
  <1>5. ASSUME NEW p \in Threads, rename_intent(p) \/ write_intent(p) PROVE AllInv'
    <2>1. PICK word : /\ pc[p] \in {"create", "sync"} /\ log' = [log EXCEPT ![cur[p]] = word]
                      /\ UNCHANGED <<dataVars, up, cur, held, todo, setVars, writes, plan>>
      BY <1>5 DEF rename_intent, write_intent
    <2>2. cur[p] \notin applied /\ up
      BY <2>1 DEF IInv, ThreadInv
    <2> QED BY <2>1, <2>2, <1>4 DEF setVars
  <1>6. ASSUME NEW p \in Threads, Lock(p) PROVE AllInv'
    <2>1. UNCHANGED <<dataVars, log, up, pc, cur, todo, setVars, writes, plan>>
      BY <1>6 DEF Lock
    <2> QED BY <2>1, <1>d, <1>s DEF setVars
  <1>7. ASSUME NEW p \in Threads, apply_staged(p) PROVE AllInv'
    <2>0. PICK t : t = cur[p]
      OBVIOUS
    <2>1. /\ pc[p] = "lock" /\ Applied(t, changes[t])
          /\ UNCHANGED <<disk, synced, log, up, cur, held, last, changes, acked, writes, plan>>
      BY <1>7, <2>0 DEF apply_staged
    <2>2. t \in Sets /\ changes[t] \in SUBSET Keys /\ applied' = applied \cup {t}
      BY <1>0, <2>0, <2>1, CurIsSet, TypeParts DEF Applied
    <2>3. log[t] = "fsynced" \/ (~up /\ log[t] = "named")
      BY <2>0, <2>1 DEF IInv, ThreadInv
    <2>4. Placed(t)'
      <3>1. InMemory(t)'
        BY <1>0, <2>1, <2>2, AppliedThere
      <3> QED BY <2>1, <2>3, <3>1 DEF Placed
    <2>5. ASSUME NEW s \in applied, s # t PROVE Placed(s)'
      BY <1>0, <2>1, <2>2, <2>5, PlacedApplied DEF AllInv
    <2>6. \A s \in Sets : NameKept(s)'
      BY <2>1, <2>2, <2>3 DEF AllInv, NameKept
    <2> QED BY <2>1, <2>2, <2>4, <2>5, <2>6 DEF AllInv
  <1>8. ASSUME NEW p \in Threads, flush_locked(p) PROVE AllInv'
    <2>1. PICK f : Written(f, TRUE) /\ UNCHANGED <<mem, log, up, cur, setVars, writes, plan>>
      BY <1>8 DEF flush_locked
    <2> QED BY <2>1, WrittenFlushes, FlushesMove, <1>s DEF setVars
  <1>9. ASSUME NEW p \in Threads, unlink_intent(p) \/ remove_intent(p) PROVE AllInv'
    <2>1. PICK word \in {"none", "removed"} :
              /\ pc[p] \in {"remove", "settle"} /\ log' = [log EXCEPT ![cur[p]] = word]
              /\ UNCHANGED <<dataVars, up, changes, applied, later, plan>>
      BY <1>9 DEF unlink_intent, remove_intent, setVars
    <2>2. Whole(cur[p])
      BY <2>1 DEF IInv, ThreadInv
    <2> QED BY <2>1, <2>2, <1>4
  <1>10. ASSUME NEW p \in Threads, replay(p) PROVE AllInv'
    <2>1. UNCHANGED <<dataVars, log, up, held, todo, setVars, writes, plan>>
      BY <1>10 DEF replay
    <2> QED BY <2>1, <1>d, <1>s DEF setVars
  <1>11. CASE replay_transaction_log
    <2>1. Pending = {} /\ up' /\ UNCHANGED <<dataVars, log, threadVars, setVars, writes, plan>>
      BY <1>11 DEF replay_transaction_log
    <2>2. \A t \in Sets : log[t] \notin {"named", "fsynced"}
      BY <2>1 DEF Pending
    <2>3. ASSUME NEW t \in applied PROVE Placed(t)'
      <3>1. Whole(t) \/ \E k \in Keys : changes[t] = {k}
        BY <1>0, <2>2 DEF AllInv, Placed
      <3>2. Whole(t) => Whole(t)'
        BY <1>0, <1>d, <2>1, MovesKeep DEF setVars
      <3> QED BY <2>1, <3>1, <3>2 DEF Placed, setVars
    <2>4. \A t \in Sets : NameKept(t)'
      BY <2>1, <2>2 DEF NameKept
    <2> QED BY <2>1, <2>3, <2>4 DEF AllInv, setVars
  <1>12. ASSUME NEW p \in Workers, NEW torn \in SUBSET Keys, Fail(p, torn) PROVE AllInv'
    <2>1. /\ plan' = [plan EXCEPT !.fails = @ - 1]
          /\ disk' = [k \in Keys |-> IF k \in torn THEN mem[k] ELSE disk[k]]
          /\ UNCHANGED <<mem, dirty, synced, log, up, setVars, writes>>
      BY <1>12 DEF Fail
    <2>2. Moves /\ plan'.cuts = plan.cuts /\ plan'.kills = plan.kills
      BY <1>0, <2>1 DEF Moves
    <2>3. \A t \in applied : Placed(t)'
      BY <1>0, <2>1, <2>2, PlacedMoves DEF AllInv, setVars
    <2> QED BY <2>1, <2>2, <2>3, NamesStay DEF AllInv, setVars
  <1>13. ASSUME NEW torn \in SUBSET Keys, Kill(torn) PROVE AllInv'
    <2>1. plan.kills > 0 /\ plan' = [plan EXCEPT !.kills = @ - 1] /\ up' = FALSE /\ UNCHANGED setVars
      BY <1>13 DEF Kill, Restart
    <2>2. plan.cuts = 0 /\ plan'.cuts = 0
      BY <1>0, <2>1 DEF AllInv
    <2>3. Moves /\ UNCHANGED log
      BY <1>0, <1>13, KillMoves
    <2>4. \A t \in applied : Placed(t)'
      BY <1>0, <2>1, <2>3, PlacedMoves DEF AllInv, setVars
    <2> QED BY <2>1, <2>2, <2>4 DEF AllInv, NameKept, setVars
  <1>14. ASSUME NEW torn \in SUBSET Keys, NEW lost \in SUBSET Keys, NEW names \in SUBSET Sets,
                PowerCut(torn, lost, names)
         PROVE  AllInv'
    <2>1. plan.cuts > 0 /\ plan' = [plan EXCEPT !.cuts = @ - 1] /\ up' = FALSE /\ UNCHANGED setVars
      BY <1>14 DEF PowerCut, Restart
    <2>2. plan.cuts # 0 /\ plan'.kills = 0
      BY <1>0, <2>1 DEF AllInv
    <2>3. /\ Moves
          /\ \A t \in Sets : log[t] \in {"none", "fsynced"} => log'[t] = log[t]
          /\ \A t \in Sets : log'[t] # "named"
      BY <1>0, <1>14, CutMoves
    <2>4. ASSUME NEW t \in applied PROVE Placed(t)'
      <3>1. log[t] # "named"
        BY <1>0, <2>2 DEF AllInv, NameKept
      <3> QED BY <1>0, <2>1, <2>3, <3>1, PlacedMoves DEF AllInv, setVars
    <2> QED BY <2>1, <2>2, <2>3, <2>4 DEF AllInv, NameKept, setVars
  <1>15. CASE UNCHANGED vars
    BY <1>15, <1>d, <1>s DEF vars, setVars
  <1> QED
    BY <1>1, <1>2, <1>3, <1>5, <1>6, <1>7, <1>8, <1>9, <1>10, <1>11, <1>12, <1>13, <1>14, <1>15, StepKinds

\* However often a database dies, in one way, and whatever errors its
\* transactions meet, once it is open again it has all of a transaction or
\* nothing of it: apply_transaction writes the intent before the first record,
\* and replay_transaction_log applies what is left of it.
THEOREM NothingTorn ==
    ASSUME \A p \in Plans : p.kills = 0 \/ p.cuts = 0
    PROVE  Spec => []AllOrNothing
  <1>1. Init => AllInv
    BY DEF Init, AllInv, NameKept
  <1>2. IInv /\ AllInv /\ [Next]_vars => AllInv'
    BY AllStep
  <1>3. AllInv => AllOrNothing
    <2>1. SUFFICES ASSUME AllInv, up, NEW t \in applied, NEW j \in changes[t], mem[j] = t, NEW k \in changes[t]
                   PROVE  Stands(t, k)
      BY DEF AllOrNothing
    <2>2. Placed(t)
      BY <2>1 DEF AllInv
    <2> QED BY <2>1, <2>2 DEF Placed, Whole, InMemory, Newer, Stands
  <1> QED BY <1>1, <1>2, <1>3, Invariant, PTL DEF Spec
=============================================================================
