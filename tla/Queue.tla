------------------------------- MODULE Queue --------------------------------
(***************************************************************************)
(* A queue file "Q" and its dead-letter file "D": the claim book each      *)
(* keeps in memory beside its records, what of it is on disk, and the      *)
(* commands that several connections run against them at once.             *)
(*                                                                         *)
(* A command is a sequence of critical sections on one table at a time, so *)
(* the steps of a worker are those sections: the readiness check of        *)
(* queue_file, the command itself, the dead letters it carries in hand to  *)
(* the other file, and the flush of each file.  The queue is durable, its  *)
(* default: note_write_for is a save() of every table, in the order of a   *)
(* hash map.  Between any two sections other commands run, the process may *)
(* die and a step may fail.                                                *)
(*                                                                         *)
(* A record is its key, a twenty-digit number, so that text order is the   *)
(* order of the numbers; a queue command never changes what is in one.     *)
(* The clock does not step backwards.                                      *)
(***************************************************************************)
EXTENDS Integers, FiniteSets

CONSTANTS
    Workers,        \* connections, each with a client name of its own
    Commands,       \* the commands clients send, and to which file
    Visibility,     \* QueuePolicy.visibility, in ticks of the clock
    MaxDeliveries,  \* QueuePolicy.max_deliveries of Q
    Delay,          \* how far ahead of the clock a due time is asked for
    PerTick,        \* SUB_MILLISECOND: keys per tick of the clock
    MaxKey,         \* bound: the largest key minted
    MaxNow,         \* bound: the clock
    MaxEnqueues,    \* bound: ENQUEUEs in a behaviour
    MaxDrained,     \* bound: deliveries of a record at which D is left alone
    MaxFaults,      \* bound: crashes and failed commands in a behaviour
    HandKeys,       \* the keys records are written under by hand
    MaxHandEdits    \* bound: WRITEs and DELETEs that go around the queue

ASSUME WorkersAssumption == IsFiniteSet(Workers) /\ "nobody" \notin Workers
ASSUME CommandsAssumption ==
    Commands \subseteq {"ENQUEUE", "DEQUEUE", "ACK", "NACK", "PEEK"} \X {"Q", "D"}
ASSUME TimesAssumption == Visibility \in Nat /\ Delay \in Nat /\ PerTick \in Nat
ASSUME LimitAssumption == MaxDeliveries \in Nat \ {0}
ASSUME BoundsAssumption ==
    /\ MaxKey \in Nat /\ MaxNow \in Nat /\ MaxEnqueues \in Nat /\ MaxDrained \in Nat
    /\ MaxFaults \in Nat /\ MaxHandEdits \in Nat
    /\ HandKeys \subseteq 0..MaxKey

VARIABLES
    table,    \* each file's records and QueueState, in memory
    diskRecs, \* each file's records on disk
    diskBook, \* each file's `queue` file: PersistedQueue
    exists,   \* whether D has been created
    now,      \* the clock
    pc,       \* where each worker's command is
    cmd,      \* the command it is running
    hand,     \* the dead letters it carries: each key's delivery count, or 0
    left,     \* the tables its save() has still to visit
    leases,   \* history: records a consumer was handed and has not given up
    promised, \* history: the due time a client was told of, by key of Q
    issued,   \* history: keys of Q whose ENQUEUE has returned
    consumed, \* history: keys taken out by ACK or DELETE
    astray,   \* history: keys taken for dead letters and not yet in D on disk
    acked,    \* history: keys of Q whose ACK has returned
    enqueues, \* history: ENQUEUEs so far
    faults,   \* history: crashes and failed commands so far
    handEdits \* history: hand edits so far

workerVars == <<pc, cmd, hand, left>>
diskVars == <<diskRecs, diskBook>>
historyVars == <<leases, promised, issued, consumed, astray, acked, enqueues, faults, handEdits>>
vars == <<table, diskVars, exists, now, workerVars, historyVars>>

Files == {"Q", "D"}
Keys == 0..MaxKey
NoTime == -1
NoKey == -1
Due == (0..(MaxNow + Delay)) \cup {NoTime}
NoClaim == [owner |-> "nobody", expires |-> NoTime]
NoLetters == [k \in Keys |-> 0]
Ops == {"ENQUEUE", "DEQUEUE", "ACK", "NACK", "PEEK", "WRITE", "DELETE"}
Labels == {"idle", "reconcile", "act", "bury", "created", "tidy", "insert", "buried", "save"}
NoCmd == [op |-> "PEEK", file |-> "Q", key |-> NoKey, due |-> NoTime, at |-> 0]

-----------------------------------------------------------------------------
(***************************************************************************)
(* QueueState, as functions from a file's table to the table they leave.   *)
(***************************************************************************)

Claimed(q) == {k \in Keys : q.claims[k] # NoClaim}

Largest(S) == CHOOSE x \in S : \A y \in S : y <= x
Smallest(S) == CHOOSE x \in S : \A y \in S : x <= y

raise_past(next, ks) == Largest({next} \cup {k + 1 : k \in ks})

\* Mutant of attach: due times are not put back into force.
AttachReady(recs, book) ==
    [recs   |-> recs,
     avail  |-> recs,
     claims |-> [k \in Keys |-> NoClaim],
     dels   |-> [k \in Keys |-> IF k \in recs THEN book.dels[k] ELSE 0],
     due    |-> [k \in Keys |-> NoTime],
     held   |-> {},
     next   |-> raise_past(book.next, recs)]

\* Claims are not restored; what has a due time is attached held.
attach(recs, book) ==
    [recs   |-> recs,
     avail  |-> {k \in recs : book.due[k] = NoTime},
     claims |-> [k \in Keys |-> NoClaim],
     dels   |-> [k \in Keys |-> IF k \in recs THEN book.dels[k] ELSE 0],
     due    |-> [k \in Keys |-> IF k \in recs THEN book.due[k] ELSE NoTime],
     held   |-> {k \in recs : book.due[k] # NoTime},
     next   |-> raise_past(book.next, recs)]

to_persisted(q) == [next |-> q.next, dels |-> q.dels, due |-> q.due]

mint(q, time) == IF q.next >= time * PerTick THEN q.next ELSE time * PerTick

enqueue(q, k) ==
    [q EXCEPT !.claims[k] = NoClaim, !.held = @ \ {k}, !.avail = @ \cup {k}]

enqueue_held(q, k, due) ==
    [q EXCEPT !.claims[k] = NoClaim, !.avail = @ \ {k},
              !.held = @ \cup {k}, !.due[k] = due]

forget(q, ks) ==
    [q EXCEPT !.avail = @ \ ks, !.held = @ \ ks,
              !.claims = [k \in Keys |-> IF k \in ks THEN NoClaim ELSE @[k]],
              !.dels = [k \in Keys |-> IF k \in ks THEN 0 ELSE @[k]],
              !.due = [k \in Keys |-> IF k \in ks THEN NoTime ELSE @[k]]]

Lapsed(q, time) == {k \in Claimed(q) : q.claims[k].expires <= time}
DueBy(q, time) == {k \in q.held : q.due[k] <= time}

\* Mutant of Spent: one delivery too many.
SpentLate(f, q, k) == f # "D" /\ q.dels[k] > MaxDeliveries

\* A dead-letter file never dead letters: its limit is u32::MAX.
Spent(f, q, k) == f # "D" /\ q.dels[k] >= MaxDeliveries

DeadLetters(f, q, time) == {k \in Lapsed(q, time) : Spent(f, q, k)}

\* Mutant of take_expired: a lapsed claim is dropped and its key not returned.
TakeExpiredStrands(f, q, time) ==
    LET dead == DeadLetters(f, q, time)
        swept == [q EXCEPT
                    !.avail = @ \cup DueBy(q, time),
                    !.held = @ \ DueBy(q, time),
                    !.claims = [k \in Keys |-> IF k \in Lapsed(q, time)
                                               THEN NoClaim ELSE @[k]]]
    IN [forget(swept, dead) EXCEPT !.recs = @ \ dead]

\* expire, release_due included, then take_expired's removal of the dead.
take_expired(f, q, time) ==
    LET dead == DeadLetters(f, q, time)
        swept == [q EXCEPT
                    !.avail = @ \cup DueBy(q, time) \cup (Lapsed(q, time) \ dead),
                    !.held = @ \ DueBy(q, time),
                    !.claims = [k \in Keys |-> IF k \in Lapsed(q, time)
                                               THEN NoClaim ELSE @[k]]]
    IN [forget(swept, dead) EXCEPT !.recs = @ \ dead]

\* Mutant of claim: the timeout is one too long.
ClaimTooLong(q, k, w, time) ==
    [q EXCEPT !.avail = @ \ {k}, !.dels[k] = @ + 1,
              !.claims[k] = [owner |-> w, expires |-> time + Visibility + 1]]

claim(q, k, w, time) ==
    [q EXCEPT !.avail = @ \ {k}, !.dels[k] = @ + 1,
              !.claims[k] = [owner |-> w, expires |-> time + Visibility]]

adopt(q, letters) ==
    LET ks == {k \in Keys : letters[k] > 0}
    IN [q EXCEPT !.recs = @ \cup ks, !.avail = @ \cup ks,
                 !.dels = [k \in Keys |-> IF k \in ks THEN letters[k] ELSE @[k]]]

\* The owner's claim is there; whether it has lapsed is not asked.
verify(q, k, w) == k \in q.recs /\ q.claims[k].owner = w

release_until(q, k, due) ==
    [q EXCEPT !.claims[k] = NoClaim,
              !.avail = IF due = NoTime THEN @ \cup {k} ELSE @,
              !.held = IF due = NoTime THEN @ ELSE @ \cup {k},
              !.due[k] = IF due = NoTime THEN @ ELSE due]

\* Mutant of reconcile: the order is rebuilt and the claims with it.
ReconcileAfresh(q) ==
    [q EXCEPT !.claims = [k \in Keys |-> NoClaim], !.held = {},
              !.avail = q.recs, !.next = raise_past(q.next, q.recs)]

reconcile(q) ==
    LET gone == Keys \ q.recs
        kept == [q EXCEPT
                   !.held = @ \ gone,
                   !.due = [k \in Keys |-> IF k \in gone THEN NoTime ELSE @[k]],
                   !.claims = [k \in Keys |-> IF k \in gone THEN NoClaim ELSE @[k]],
                   !.dels = [k \in Keys |-> IF k \in gone THEN 0 ELSE @[k]]]
    IN [kept EXCEPT !.avail = q.recs \ (Claimed(kept) \cup kept.held),
                    !.next = raise_past(q.next, q.recs)]

tracked(q) == Cardinality(q.avail) + Cardinality(Claimed(q)) + Cardinality(q.held)

-----------------------------------------------------------------------------

Init ==
    /\ diskRecs = [f \in Files |-> {}]
    /\ diskBook = [f \in Files |->
                     [next |-> 0, dels |-> [k \in Keys |-> 0], due |-> [k \in Keys |-> NoTime]]]
    /\ table = [f \in Files |-> attach({}, diskBook[f])]
    /\ exists = FALSE
    /\ now = 0
    /\ pc = [w \in Workers |-> "idle"]
    /\ cmd = [w \in Workers |-> NoCmd]
    /\ hand = [w \in Workers |-> NoLetters]
    /\ left = [w \in Workers |-> {}]
    /\ leases = {}
    /\ promised = [k \in Keys |-> NoTime]
    /\ issued = {}
    /\ consumed = {}
    /\ astray = {}
    /\ acked = {}
    /\ enqueues = 0
    /\ faults = 0
    /\ handEdits = 0

Tick ==
    /\ now < MaxNow
    /\ now' = now + 1
    /\ UNCHANGED <<table, diskVars, exists, workerVars, historyVars>>

\* save() visits every table, one at a time, in no particular order.  It ends
\* create_table_with, bury, and every command that notes a write.
SaveLabels == {"created", "buried", "save"}

Goto(w, label) ==
    /\ pc' = [pc EXCEPT ![w] = label]
    /\ left' = [left EXCEPT ![w] = IF label \notin SaveLabels THEN {}
                                   ELSE {f \in Files : f = "Q" \/ exists \/ label = "created"}]

\* The worker is free for its next command.
End(w) ==
    /\ Goto(w, "idle")
    /\ cmd' = [cmd EXCEPT ![w] = NoCmd]

\* queue_readiness, under the shared guard: the counts agree, or the order is
\* to be reconciled first.
Ready(f) == tracked(table[f]) = Cardinality(table[f].recs)

\* queue_file: the command, with the clock a DEQUEUE or PEEK reads next.
Begin(w, op, f, k, due) ==
    /\ pc[w] = "idle"
    /\ <<op, f>> \in Commands
    /\ f = "D" => exists /\ \A j \in Keys : table[f].dels[j] < MaxDrained
    /\ cmd' = [cmd EXCEPT ![w] = [op |-> op, file |-> f, key |-> k, due |-> due,
                                  at |-> IF op \in {"DEQUEUE", "PEEK"} THEN now ELSE 0]]
    /\ Goto(w, IF Ready(f) THEN "act" ELSE "reconcile")
    /\ enqueues' = IF op = "ENQUEUE" THEN enqueues + 1 ELSE enqueues
    /\ UNCHANGED <<table, diskVars, exists, now, hand, leases, promised, issued, consumed, astray, acked, faults, handEdits>>

queue_file(w) ==
    /\ pc[w] = "reconcile"
    /\ table' = [table EXCEPT ![cmd[w].file] = reconcile(@)]
    /\ cmd' = [cmd EXCEPT ![w].at = IF cmd[w].op \in {"DEQUEUE", "PEEK"} THEN now ELSE 0]
    /\ Goto(w, "act")
    /\ UNCHANGED <<diskVars, exists, now, hand, historyVars>>

\* What is still to be known of a command whose critical section is over: the
\* key it is about, and the due time that key now has.
Acted(w, k, due) == cmd' = [cmd EXCEPT ![w] = [@ EXCEPT !.key = k, !.due = due, !.at = 0]]

Acting(w, op) == pc[w] = "act" /\ cmd[w].op = op

enqueue_due(w) ==
    LET f == cmd[w].file
        k == mint(table[f], now)
        minted == [table[f] EXCEPT !.recs = @ \cup {k}, !.next = k + 1]
    IN /\ Acting(w, "ENQUEUE")
       /\ k <= MaxKey
       /\ table' = [table EXCEPT ![f] =
                      IF cmd[w].due = NoTime THEN enqueue(minted, k)
                      ELSE enqueue_held(minted, k, cmd[w].due)]
       /\ Acted(w, k, cmd[w].due)
       /\ Goto(w, "save")
       /\ UNCHANGED <<diskVars, exists, now, hand, historyVars>>

\* Mutant of TakeLetters: a record past its limit is dropped.
TakeNoLetters(w, dead, q) == UNCHANGED <<hand, astray>>

\* Letters taken out of f under its guard, carried until they are buried.
TakeLetters(w, dead, q) ==
    /\ hand' = [hand EXCEPT ![w] = [k \in Keys |-> IF k \in dead THEN q.dels[k] ELSE 0]]
    /\ astray' = astray \cup dead

dequeue(w) ==
    LET f == cmd[w].file
        q == table[f]
        time == cmd[w].at
        dead == DeadLetters(f, q, time)
        swept == take_expired(f, q, time)
        k == IF swept.avail = {} THEN NoKey ELSE Smallest(swept.avail)
    IN /\ Acting(w, "DEQUEUE")
       /\ table' = [table EXCEPT ![f] = IF k = NoKey THEN swept ELSE claim(swept, k, w, time)]
       /\ leases' = IF k \notin swept.recs THEN leases
                    ELSE leases \cup {[owner |-> w, file |-> f, key |-> k, from |-> now,
                                       expires |-> time + Visibility]}
       /\ TakeLetters(w, dead, q)
       /\ IF dead = {} /\ k = NoKey THEN End(w)
          ELSE /\ Acted(w, k, NoTime)
               /\ Goto(w, IF dead # {} THEN "bury" ELSE "save")
       /\ UNCHANGED <<diskVars, exists, now, promised, issued, consumed, acked, enqueues, faults, handEdits>>

\* PEEK and the statistics sweep as they pass, and note no write.
peek(w) ==
    LET f == cmd[w].file
        dead == DeadLetters(f, table[f], cmd[w].at)
    IN /\ Acting(w, "PEEK")
       /\ table' = [table EXCEPT ![f] = take_expired(f, @, cmd[w].at)]
       /\ TakeLetters(w, dead, table[f])
       /\ IF dead = {} THEN End(w) ELSE Goto(w, "bury") /\ Acted(w, NoKey, NoTime)
       /\ UNCHANGED <<diskVars, exists, now, leases, promised, issued, consumed, acked, enqueues, faults, handEdits>>

\* The deliveries of key k of file f that w no longer has.
GivenUp(w, f, k) == {l \in leases : l.owner = w /\ l.file = f /\ l.key = k}

Refused(w) ==
    /\ pc[w] = "act"
    /\ cmd[w].op \in {"ACK", "NACK"}
    /\ ~verify(table[cmd[w].file], cmd[w].key, w)
    /\ End(w)
    /\ UNCHANGED <<table, diskVars, exists, now, hand, historyVars>>

\* Mutant of ack: the claim is forgotten and the record left.
AckKeepsRecord(w) ==
    LET f == cmd[w].file
        k == cmd[w].key
    IN /\ Acting(w, "ACK")
       /\ verify(table[f], k, w)
       /\ table' = [table EXCEPT ![f] = forget(table[f], {k})]
       /\ leases' = leases \ GivenUp(w, f, k)
       /\ consumed' = consumed \cup {k}
       /\ Acted(w, k, NoTime)
       /\ Goto(w, "save")
       /\ UNCHANGED <<diskVars, exists, now, hand, promised, issued, astray, acked, enqueues, faults, handEdits>>

ack(w) ==
    LET f == cmd[w].file
        k == cmd[w].key
    IN /\ Acting(w, "ACK")
       /\ verify(table[f], k, w)
       /\ table' = [table EXCEPT ![f] = [forget(table[f], {k}) EXCEPT !.recs = @ \ {k}]]
       /\ leases' = leases \ GivenUp(w, f, k)
       /\ consumed' = consumed \cup {k}
       /\ Acted(w, k, NoTime)
       /\ Goto(w, "save")
       /\ UNCHANGED <<diskVars, exists, now, hand, promised, issued, astray, acked, enqueues, faults, handEdits>>

nack_until(w) ==
    LET f == cmd[w].file
        k == cmd[w].key
        q == table[f]
        dead == IF Spent(f, q, k) THEN {k} ELSE {}
    IN /\ Acting(w, "NACK")
       /\ verify(q, k, w)
       /\ table' = [table EXCEPT ![f] =
                      IF dead # {} THEN [forget(q, dead) EXCEPT !.recs = @ \ dead]
                      ELSE release_until(q, k, cmd[w].due)]
       /\ leases' = leases \ GivenUp(w, f, k)
       /\ TakeLetters(w, dead, q)
       /\ Acted(w, k, IF dead # {} THEN NoTime ELSE cmd[w].due)
       /\ Goto(w, IF dead # {} THEN "bury" ELSE "save")
       /\ UNCHANGED <<diskVars, exists, now, promised, issued, consumed, acked, enqueues, faults, handEdits>>

\* WRITE and DELETE change the records of a queue and nothing of its book.
HandEdit(w, op, f, k) ==
    /\ pc[w] = "idle"
    /\ f = "D" => exists
    /\ handEdits < MaxHandEdits
    /\ handEdits' = handEdits + 1
    /\ cmd' = [cmd EXCEPT ![w].op = op, ![w].file = f, ![w].key = k]
    /\ Goto(w, "save")

HandWrite(w, f, k) ==
    /\ HandEdit(w, "WRITE", f, k)
    /\ k \in HandKeys
    /\ table' = [table EXCEPT ![f].recs = @ \cup {k}]
    /\ UNCHANGED <<diskVars, exists, now, hand, leases, promised, issued, consumed, astray, acked, enqueues, faults>>

HandDelete(w, f, k) ==
    /\ HandEdit(w, "DELETE", f, k)
    /\ k \in table[f].recs
    /\ table' = [table EXCEPT ![f].recs = @ \ {k}]
    /\ leases' = {l \in leases : l.file # f \/ l.key # k}
    /\ consumed' = consumed \cup {k}
    /\ UNCHANGED <<diskVars, exists, now, hand, promised, issued, astray, acked, enqueues, faults>>

\* bury: the dead-letter file is there, or create_table_with makes it and
\* ends in a save() of its own.
bury(w) ==
    /\ pc[w] = "bury"
    /\ exists' = TRUE
    /\ Goto(w, IF ~exists THEN "created" ELSE IF Ready("D") THEN "insert" ELSE "tidy")
    /\ UNCHANGED <<table, diskVars, now, cmd, hand, historyVars>>

\* queue_file on the dead-letter file.
tidy(w) ==
    /\ pc[w] = "tidy"
    /\ table' = [table EXCEPT !["D"] = reconcile(@)]
    /\ Goto(w, "insert")
    /\ UNCHANGED <<diskVars, exists, now, cmd, hand, historyVars>>

insert(w) ==
    /\ pc[w] = "insert"
    /\ table' = [table EXCEPT !["D"] = adopt(@, hand[w])]
    /\ hand' = [hand EXCEPT ![w] = NoLetters]
    /\ Goto(w, "buried")
    /\ UNCHANGED <<diskVars, exists, now, cmd, historyVars>>

Saving(w) == pc[w] \in SaveLabels

\* Where the worker goes when its save() returns: back to bury, on to the
\* write the command itself has to note, or to its client.
AfterSave(w) ==
    IF pc[w] = "created" THEN "bury"
    ELSE IF pc[w] = "buried" /\ cmd[w].key # NoKey THEN "save"
    ELSE "idle"

\* What the client knows once it has its answer.
Answered(w) ==
    LET c == cmd[w]
    IN /\ issued' = IF c.op = "ENQUEUE" /\ c.file = "Q" THEN issued \cup {c.key} ELSE issued
       /\ acked' = IF c.op = "ACK" /\ c.file = "Q" THEN acked \cup {c.key} ELSE acked
       /\ promised' = IF c.op \in {"ENQUEUE", "NACK"} /\ c.file = "Q" /\ c.due # NoTime
                      THEN [promised EXCEPT ![c.key] = c.due] ELSE promised

\* flush_locked: the records, then the book.  The last table returns.
flush_handle(w, f) ==
    LET last == left[w] = {f}
    IN /\ Saving(w)
       /\ f \in left[w]
       /\ diskRecs' = [diskRecs EXCEPT ![f] = table[f].recs]
       /\ diskBook' = [diskBook EXCEPT ![f] = to_persisted(table[f])]
       /\ astray' = IF f = "D" THEN astray \ table[f].recs ELSE astray
       /\ IF ~last THEN left' = [left EXCEPT ![w] = @ \ {f}] /\ UNCHANGED <<pc, cmd>>
          ELSE IF AfterSave(w) = "idle" THEN End(w)
          ELSE Goto(w, AfterSave(w)) /\ UNCHANGED cmd
       /\ IF last /\ AfterSave(w) = "idle" THEN Answered(w)
          ELSE UNCHANGED <<issued, acked, promised>>
       /\ UNCHANGED <<table, exists, now, hand, leases, consumed, enqueues, faults, handEdits>>

\* A flush that gets no further than the records of a table, by one of ws.
TornFlush(torn, ws) ==
    /\ torn \subseteq {f \in Files : \E w \in ws : Saving(w) /\ f \in left[w]}
    /\ diskRecs' = [f \in Files |-> IF f \in torn THEN table[f].recs ELSE diskRecs[f]]

\* An I/O error fails the command; bury's drops the letters in its hand.
Fail(w, torn) ==
    /\ faults < MaxFaults
    /\ faults' = faults + 1
    /\ Saving(w) \/ pc[w] = "bury"
    /\ TornFlush(torn, {w})
    /\ astray' = astray \ diskRecs'["D"]
    /\ End(w)
    /\ hand' = [hand EXCEPT ![w] = NoLetters]
    /\ UNCHANGED <<table, diskBook, exists, now, leases, promised, issued, consumed, acked, enqueues, handEdits>>

\* The process dies and the next one attaches what is on disk.
Crash(torn) ==
    /\ faults < MaxFaults
    /\ faults' = faults + 1
    /\ TornFlush(torn, Workers)
    /\ table' = [f \in Files |-> attach(diskRecs'[f], diskBook[f])]
    /\ pc' = [w \in Workers |-> "idle"]
    /\ cmd' = [w \in Workers |-> NoCmd]
    /\ hand' = [w \in Workers |-> NoLetters]
    /\ left' = [w \in Workers |-> {}]
    /\ leases' = {}
    /\ issued' = issued \cap (diskRecs'["Q"] \cup diskRecs'["D"])
    /\ astray' = {}
    /\ UNCHANGED <<diskBook, exists, now, promised, consumed, acked, enqueues, handEdits>>

Next ==
    \/ Tick
    \/ \E w \in Workers :
          \/ \E f \in Files :
                \/ \E due \in {NoTime, now + Delay} :
                      \/ enqueues < MaxEnqueues /\ Begin(w, "ENQUEUE", f, NoKey, due)
                      \/ \E k \in table[f].recs : Begin(w, "NACK", f, k, due)
                \/ \E op \in {"DEQUEUE", "PEEK"} : Begin(w, op, f, NoKey, NoTime)
                \/ \E k \in table[f].recs : Begin(w, "ACK", f, k, NoTime)
          \/ queue_file(w) \/ enqueue_due(w) \/ dequeue(w) \/ peek(w)
          \/ Refused(w) \/ ack(w) \/ nack_until(w)
          \/ bury(w) \/ tidy(w) \/ insert(w)
          \/ \E f \in Files : flush_handle(w, f)
          \/ \E torn \in SUBSET Files : Fail(w, torn)
          \/ \E f \in Files, k \in Keys : HandWrite(w, f, k) \/ HandDelete(w, f, k)
    \/ \E torn \in SUBSET Files : Crash(torn)

Spec == Init /\ [][Next]_vars

-----------------------------------------------------------------------------

Tables ==
    [recs : SUBSET Keys, avail : SUBSET Keys, held : SUBSET Keys,
     claims : [Keys -> {NoClaim} \cup [owner : Workers, expires : 0..(MaxNow + Visibility)]],
     dels : [Keys -> Nat], due : [Keys -> Due], next : Nat]

Cmds == [op : Ops, file : Files, key : Keys \cup {NoKey}, due : Due, at : 0..MaxNow]

Deliveries == [owner : Workers, file : Files, key : Keys, from : 0..MaxNow,
               expires : 0..(MaxNow + Visibility)]

Books == [next : Nat, dels : [Keys -> Nat], due : [Keys -> Due]]

\* Every variable holds a value of its kind.
TypeOK ==
    /\ table \in [Files -> Tables]
    /\ diskRecs \in [Files -> SUBSET Keys]
    /\ diskBook \in [Files -> Books]
    /\ exists \in BOOLEAN
    /\ now \in 0..MaxNow
    /\ pc \in [Workers -> Labels]
    /\ cmd \in [Workers -> Cmds]
    /\ hand \in [Workers -> [Keys -> Nat]]
    /\ left \in [Workers -> SUBSET Files]
    /\ leases \subseteq Deliveries
    /\ promised \in [Keys -> Due]
    /\ issued \subseteq Keys /\ consumed \subseteq Keys
    /\ astray \subseteq Keys /\ acked \subseteq Keys
    /\ enqueues \in 0..MaxEnqueues
    /\ faults \in 0..MaxFaults
    /\ handEdits \in 0..MaxHandEdits

\* The book of q accounts for each of its records exactly once: waiting,
\* claimed or held back.
Ledger(q) ==
    /\ q.recs = q.avail \cup Claimed(q) \cup q.held
    /\ q.avail \cap Claimed(q) = {}
    /\ q.avail \cap q.held = {}
    /\ Claimed(q) \cap q.held = {}

\* As long as only queue commands change the file, no command, sweep, crash or
\* failed flush strands a record outside the order or puts one in it twice.
Balanced == handEdits = 0 => Ledger(table["Q"])

\* A delivery stands until it lapses or is given up, whatever other consumers,
\* sweeps with an older clock, dead letters and hand edits do meanwhile: no
\* second consumer is handed the record (dequeue, "Why a claim is atomic").
Exclusive(f) ==
    \A l, m \in leases :
        l.file = f /\ m.file = f /\ l.key = m.key /\ l.expires > now /\ m.expires > now
            => l.owner = m.owner

ExclusiveClaims == Exclusive("Q")

\* A crash at this instant leaves every record a client was told is enqueued
\* in the queue or its dead-letter file, but for dead letters under way.
AtLeastOnce == issued \ consumed \subseteq diskRecs["Q"] \cup diskRecs["D"] \cup astray

\* A record whose ACK has returned does not come back, in memory or on disk,
\* unless somebody writes it again by hand.
AckedStaysGone == handEdits = 0 => acked \cap (table["Q"].recs \cup diskRecs["Q"]) = {}

\* A DEQUEUE hands out no record before the due time its ENQUEUE or NACK was
\* answered with, a restart in between included: due times are on disk before
\* the answer.  (A record put under the same key by hand was promised nothing.)
NotEarly ==
    [][handEdits = 0 =>
        \A l \in leases' \ leases : l.file = "Q" => l.from >= promised[l.key]]_vars

\* The delivery limit is exceeded by no more than one delivery per restart.
WithinLimit == \A k \in Keys : table["Q"].dels[k] <= MaxDeliveries + faults

-----------------------------------------------------------------------------
(***************************************************************************)
(* The inductive invariant behind TypeOK, Balanced and ExclusiveClaims.    *)
(***************************************************************************)

\* No key of the book is in two places, and every one is behind the counter
\* the next key is minted from.
Orderly(q) ==
    /\ q.avail \cap Claimed(q) = {}
    /\ q.avail \cap q.held = {}
    /\ Claimed(q) \cap q.held = {}
    /\ \A k \in q.avail \cup Claimed(q) \cup q.held : k < q.next

Complete(q) == q.recs = q.avail \cup Claimed(q) \cup q.held

\* A sweep's clock is never ahead of the clock.
ClockInv == \A w \in Workers : cmd[w].at <= now

\* An ENQUEUE, ACK or NACK past its critical section knows its key.
KeyInv ==
    \A w \in Workers :
        cmd[w].op \in {"ENQUEUE", "ACK", "NACK"} /\ pc[w] \notin {"idle", "reconcile", "act"}
            => cmd[w].key \in Keys

\* A delivery that has not lapsed is backed by its record and its claim.
LeaseInv ==
    \A l \in leases : l.file = "Q" /\ l.expires > now =>
        /\ l.key \in table["Q"].recs
        /\ table["Q"].claims[l.key] = [owner |-> l.owner, expires |-> l.expires]

IInv ==
    /\ TypeOK
    /\ Orderly(table["Q"])
    /\ handEdits = 0 => Complete(table["Q"])
    /\ ClockInv
    /\ KeyInv
    /\ LeaseInv
=============================================================================
