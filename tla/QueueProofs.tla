---------------------------- MODULE QueueProofs -----------------------------
(***************************************************************************)
(* Proofs, for any number of consumers, that the claim book of a queue     *)
(* accounts for every record once; that a record is never delivered to two *)
(* consumers at a time, nor oftener than its limit, nor before its time;   *)
(* that none is lost, and that none comes back after it is acknowledged.   *)
(***************************************************************************)
EXTENDS Queue, WellFoundedInduction, TLAPS

-----------------------------------------------------------------------------
(* Sets of naturals.                                                       *)

\* A set of naturals has a least element.
LEMMA HasLeast ==
    ASSUME NEW S \in SUBSET Nat, S # {}
    PROVE  \E x \in S : \A y \in S : x <= y
  <1> DEFINE less == {p \in Nat \X Nat : p[1] < p[2]}
  <1>1. IsWellFoundedOn(less, Nat)
    BY NatLessThanWellFounded DEF OpToRel
  <1>2. \E x \in S : \A y \in S : <<y, x>> \notin less
    <2> HIDE DEF less
    <2> QED BY <1>1, WFMin
  <1>3. PICK x \in S : \A y \in S : <<y, x>> \notin less
    BY <1>2
  <1>4. \A y \in S : ~(y < x)
    BY <1>3
  <1> QED BY <1>4

\* A set of naturals below a bound has a greatest one.
LEMMA HasGreatest ==
    ASSUME NEW n \in Nat, NEW S \in SUBSET (0..n), S # {}
    PROVE  \E x \in S : \A y \in S : y <= x
  <1> DEFINE T == {n - x : x \in S}
  <1>1. T \in SUBSET Nat /\ T # {}
    <2>1. \A x \in S : n - x \in Nat /\ n - x \in T
      OBVIOUS
    <2> QED BY <2>1
  <1>2. \E t \in T : \A u \in T : t <= u
    <2> HIDE DEF T
    <2> QED BY <1>1, HasLeast
  <1>3. PICK x \in S : \A y \in S : n - x <= n - y
    BY <1>2
  <1> QED BY <1>3

-----------------------------------------------------------------------------
(***************************************************************************)
(* The operators on one table.                                             *)
(***************************************************************************)

\* raise_past yields a counter no lower than it was and past every key.
LEMMA RaisePastFacts ==
    ASSUME NEW next \in Nat, NEW ks \in SUBSET Keys
    PROVE  /\ raise_past(next, ks) \in Nat
           /\ next <= raise_past(next, ks)
           /\ \A k \in ks : k < raise_past(next, ks)
<1> USE BoundsAssumption DEF Keys
<1> DEFINE S == {next} \cup {k + 1 : k \in ks}
           n == next + MaxKey + 1
<1>1. n \in Nat /\ S \in SUBSET (0..n) /\ S # {}
    OBVIOUS
<1>2. \E x \in S : \A y \in S : y <= x
    <2> HIDE DEF S, n
    <2> QED
        BY <1>1, HasGreatest
<1>3. Largest(S) \in S /\ \A y \in S : y <= Largest(S)
    <2> HIDE DEF S
    <2> QED
        BY <1>2 DEF Largest
<1>4. raise_past(next, ks) = Largest(S)
    BY DEF raise_past
<1>5. \A k \in ks : k + 1 \in S
    OBVIOUS
<1>6. next \in S
    OBVIOUS
<1> DEFINE L == Largest(S)
<1>7. L \in Nat
    BY <1>1, <1>3
<1> HIDE DEF S, L
<1>8. \A k \in ks : k + 1 <= L
    BY <1>3, <1>5 DEF L
<1> QED
    BY <1>3, <1>4, <1>6, <1>7, <1>8 DEF L

\* The smallest of a set of keys is one of them.
LEMMA SmallestIn ==
    ASSUME NEW S \in SUBSET Keys, S # {}
    PROVE  Smallest(S) \in S
<1>1. S \in SUBSET Nat
    BY BoundsAssumption DEF Keys
<1> QED
    BY <1>1, HasLeast DEF Smallest

\* A table as attach leaves it is well formed and accounts for its records.
LEMMA AttachFacts ==
    ASSUME NEW recs \in SUBSET Keys, NEW book \in Books
    PROVE  /\ attach(recs, book) \in Tables
           /\ Orderly(attach(recs, book))
           /\ Complete(attach(recs, book))
           /\ attach(recs, book).recs = recs
<1> DEFINE q == attach(recs, book)
<1>1. /\ raise_past(book.next, recs) \in Nat
      /\ \A k \in recs : k < raise_past(book.next, recs)
    BY RaisePastFacts DEF Books
<1>2. q \in Tables
    BY <1>1, BoundsAssumption, TimesAssumption DEF attach, Tables, Books, Keys, Due, NoTime
<1>3. Claimed(q) = {}
    BY DEF attach, Claimed
<1>4. q.recs = recs /\ q.avail \subseteq recs /\ q.held \subseteq recs /\ q.avail \cap q.held = {}
    BY DEF attach
<1>5. q.avail \cup q.held = recs
    BY DEF attach
<1>6. q.next = raise_past(book.next, recs)
    BY DEF attach
<1> HIDE DEF q
<1> QED
    BY <1>1, <1>2, <1>3, <1>4, <1>5, <1>6 DEF q, Orderly, Complete

\* A minted key is never below the counter.
LEMMA MintFacts ==
    ASSUME NEW q \in Tables, NEW time \in Nat
    PROVE  mint(q, time) \in Nat /\ q.next <= mint(q, time)
<1>1. q.next \in Nat /\ time * PerTick \in Nat
    BY TimesAssumption DEF Tables
<1> QED
    BY <1>1 DEF mint

\* The table an ENQUEUE of a minted key leaves.
Enqueued(q, k, due) ==
    LET minted == [q EXCEPT !.recs = @ \cup {k}, !.next = k + 1]
    IN IF due = NoTime THEN enqueue(minted, k) ELSE enqueue_held(minted, k, due)

\* ENQUEUE accounts for the new record and disturbs no other.
LEMMA EnqueuedFacts ==
    ASSUME NEW q \in Tables, NEW k \in Keys, q.next <= k, NEW due \in Due
    PROVE  /\ Enqueued(q, k, due) \in Tables
           /\ Orderly(q) => Orderly(Enqueued(q, k, due))
           /\ Orderly(q) /\ Complete(q) => Complete(Enqueued(q, k, due))
           /\ Orderly(q) => /\ q.claims[k] = NoClaim
                            /\ Enqueued(q, k, due).claims = q.claims
           /\ q.recs \subseteq Enqueued(q, k, due).recs
<1> DEFINE r == Enqueued(q, k, due)
<1>1. /\ r.recs = q.recs \cup {k} /\ r.next = k + 1
      /\ r.claims = [q.claims EXCEPT ![k] = NoClaim]
      /\ r.avail = IF due = NoTime THEN q.avail \cup {k} ELSE q.avail \ {k}
      /\ r.held = IF due = NoTime THEN q.held \ {k} ELSE q.held \cup {k}
    BY DEF Enqueued, enqueue, enqueue_held, Tables
<1>2. r \in Tables
    <2> DEFINE minted == [q EXCEPT !.recs = @ \cup {k}, !.next = k + 1]
    <2>0. k + 1 \in Nat
        BY BoundsAssumption DEF Keys
    <2>1. minted \in Tables
        BY <2>0 DEF Tables
    <2> HIDE DEF minted
    <2>2. enqueue(minted, k) \in Tables
        BY <2>1 DEF enqueue, Tables
    <2>3. enqueue_held(minted, k, due) \in Tables
        BY <2>1 DEF enqueue_held, Tables
    <2> QED
        BY <2>2, <2>3 DEF minted, Enqueued
<1>3. ASSUME Orderly(q)
      PROVE  /\ k \notin q.avail /\ k \notin q.held /\ k \notin Claimed(q)
             /\ r.claims = q.claims /\ q.claims[k] = NoClaim
    <2>1. \A j \in q.avail \cup Claimed(q) \cup q.held : j < q.next
        BY <1>3 DEF Orderly
    <2>2. k \in Nat /\ q.next \in Nat
        BY BoundsAssumption DEF Keys, Tables
    <2>3. k \notin q.avail /\ k \notin q.held /\ k \notin Claimed(q)
        BY <2>1, <2>2
    <2>4. q.claims[k] = NoClaim
        BY <2>3 DEF Claimed
    <2> QED
        BY <1>1, <2>3, <2>4 DEF Tables
<1>4. ASSUME Orderly(q)
      PROVE  Claimed(r) = Claimed(q)
    BY <1>3, <1>4 DEF Claimed
<1>5. ASSUME Orderly(q)
      PROVE  Orderly(r)
    <2>1. \A j \in q.avail \cup Claimed(q) \cup q.held : j < k + 1 /\ j \in Nat
        <3>1. \A j \in q.avail \cup Claimed(q) \cup q.held : j < q.next /\ j \in Keys
            BY <1>5 DEF Orderly, Tables, Claimed
        <3> QED
            BY <3>1, BoundsAssumption DEF Keys, Tables
    <2>2. k < k + 1
        BY BoundsAssumption DEF Keys
    <2> HIDE DEF r
    <2> QED
        BY <1>1, <1>3, <1>4, <1>5, <2>1, <2>2 DEF Orderly
<1>6. ASSUME Orderly(q), Complete(q)
      PROVE  Complete(r)
    <2> HIDE DEF r
    <2> QED
        BY <1>1, <1>3, <1>4, <1>6 DEF Complete
<1> QED
    BY <1>1, <1>2, <1>3, <1>5, <1>6

\* The table once the keys ks are gone from it, records and all.
Without(q, ks) == [forget(q, ks) EXCEPT !.recs = @ \ ks]

\* Taking records out leaves the account of the others as it was.
LEMMA WithoutFacts ==
    ASSUME NEW q \in Tables, NEW ks \in SUBSET Keys
    PROVE  /\ Without(q, ks) \in Tables
           /\ Orderly(q) => Orderly(Without(q, ks))
           /\ Complete(q) => Complete(Without(q, ks))
           /\ Without(q, ks).recs = q.recs \ ks
           /\ Without(q, ks).avail = q.avail \ ks
           /\ \A k \in Keys \ ks : Without(q, ks).claims[k] = q.claims[k]
<1> DEFINE r == Without(q, ks)
<1>1. /\ r.recs = q.recs \ ks /\ r.avail = q.avail \ ks /\ r.held = q.held \ ks
      /\ r.next = q.next
      /\ r.claims = [k \in Keys |-> IF k \in ks THEN NoClaim ELSE q.claims[k]]
    BY DEF Without, forget, Tables
<1>2. r \in Tables
    BY DEF Without, forget, Tables, Due
<1>3. Claimed(r) = Claimed(q) \ ks
    <2> HIDE DEF r
    <2> QED
        BY <1>1 DEF Claimed
<1> HIDE DEF r
<1>4. Orderly(q) => Orderly(r)
    BY <1>1, <1>3 DEF Orderly
<1>5. Complete(q) => Complete(r)
    BY <1>1, <1>3 DEF Complete
<1> QED
    BY <1>1, <1>2, <1>4, <1>5 DEF r

\* A sweep returns the lapsed to the order or takes them out, releases what is
\* due, and leaves every claim that has not lapsed alone.
LEMMA TakeExpiredFacts ==
    ASSUME NEW f, NEW q \in Tables, NEW time \in Nat
    PROVE  LET r == take_expired(f, q, time)
           IN /\ r \in Tables
              /\ Orderly(q) => Orderly(r)
              /\ Complete(q) => Complete(r)
              /\ r.recs = q.recs \ DeadLetters(f, q, time)
              /\ \A k \in Keys : q.claims[k] # NoClaim /\ q.claims[k].expires > time =>
                    r.claims[k] = q.claims[k] /\ k \notin DeadLetters(f, q, time)
<1> DEFINE lapsed == Lapsed(q, time)
           due == DueBy(q, time)
           dead == DeadLetters(f, q, time)
           swept == [q EXCEPT
                       !.avail = @ \cup due \cup (lapsed \ dead),
                       !.held = @ \ due,
                       !.claims = [k \in Keys |-> IF k \in lapsed THEN NoClaim ELSE @[k]]]
           r == take_expired(f, q, time)
<1>1. r = Without(swept, dead)
    BY DEF take_expired, Without
<1>2. lapsed \subseteq Claimed(q) /\ due \subseteq q.held /\ dead \subseteq lapsed
    BY DEF Lapsed, DueBy, DeadLetters
<1>3. Claimed(q) \subseteq Keys /\ q.held \subseteq Keys
    BY DEF Claimed, Tables
<1>4. \A k \in Keys : q.claims[k] # NoClaim /\ q.claims[k].expires > time => k \notin lapsed
    <2> SUFFICES ASSUME NEW k \in Keys, q.claims[k] # NoClaim, q.claims[k].expires > time,
                        k \in lapsed
                 PROVE  FALSE
        OBVIOUS
    <2>1. q.claims[k].expires \in Int
        BY TimesAssumption, BoundsAssumption DEF Tables, NoClaim
    <2>2. q.claims[k].expires <= time
        BY DEF Lapsed
    <2> QED
        BY <2>1, <2>2
<1> HIDE DEF lapsed, due, dead
<1>5. swept \in Tables
    BY <1>2, <1>3 DEF Tables
<1>6. /\ swept.recs = q.recs /\ swept.next = q.next
      /\ swept.avail = q.avail \cup due \cup (lapsed \ dead)
      /\ swept.held = q.held \ due
      /\ swept.claims = [k \in Keys |-> IF k \in lapsed THEN NoClaim ELSE q.claims[k]]
    BY DEF Tables
<1> HIDE DEF swept, r
<1>7. Claimed(swept) = Claimed(q) \ lapsed
    BY <1>6 DEF Claimed
<1>8. /\ r \in Tables /\ r.recs = q.recs \ dead
      /\ r.avail = swept.avail \ dead
      /\ \A k \in Keys \ dead : r.claims[k] = swept.claims[k]
      /\ Orderly(swept) => Orderly(r)
    <2>1. dead \in SUBSET Keys
        BY <1>2, <1>3
    <2> QED
        BY <1>1, <1>5, <1>6, <2>1, WithoutFacts
<1>9. Orderly(q) => Orderly(swept)
    BY <1>2, <1>6, <1>7 DEF Orderly
<1>10. ASSUME Complete(q)
       PROVE  Complete(r)
    <2>1. Claimed(r) = Claimed(swept) \ dead /\ r.held = swept.held \ dead
        BY <1>1, <1>5, <1>2, <1>3 DEF Without, forget, Tables, Claimed
    <2> QED
        BY <1>2, <1>6, <1>7, <1>8, <1>10, <2>1 DEF Complete
<1>11. ASSUME NEW k \in Keys, q.claims[k] # NoClaim, q.claims[k].expires > time
       PROVE  r.claims[k] = q.claims[k] /\ k \notin dead
    BY <1>2, <1>4, <1>6, <1>8, <1>11
<1> QED
    BY <1>8, <1>9, <1>10, <1>11 DEF r, dead

\* A claim moves one waiting key and touches no other.
LEMMA ClaimFacts ==
    ASSUME NEW q \in Tables, NEW k \in q.avail, NEW w \in Workers, NEW time \in 0..MaxNow
    PROVE  LET r == claim(q, k, w, time)
           IN /\ r \in Tables
              /\ Orderly(q) => Orderly(r)
              /\ Complete(q) => Complete(r)
              /\ r.recs = q.recs
              /\ r.claims[k] = [owner |-> w, expires |-> time + Visibility]
              /\ \A j \in Keys \ {k} : r.claims[j] = q.claims[j]
<1> DEFINE r == claim(q, k, w, time)
           c == [owner |-> w, expires |-> time + Visibility]
<1>1. k \in Keys
    BY DEF Tables
<1>2. c \in [owner : Workers, expires : 0..(MaxNow + Visibility)] /\ c # NoClaim
    BY WorkersAssumption, TimesAssumption, BoundsAssumption DEF NoClaim
<1> HIDE DEF c
<1>3. /\ r.recs = q.recs /\ r.avail = q.avail \ {k} /\ r.held = q.held /\ r.next = q.next
      /\ r.claims = [q.claims EXCEPT ![k] = c]
    BY DEF claim, Tables, c
<1>4. r \in Tables
    <2> DEFINE d == [q.dels EXCEPT ![k] = @ + 1]
               g == [q.claims EXCEPT ![k] = c]
    <2>1. r = [q EXCEPT !.avail = q.avail \ {k}, !.dels = d, !.claims = g]
        BY DEF claim, c, Tables
    <2>2. d \in [Keys -> Nat]
        BY <1>1 DEF Tables
    <2>3. g \in [Keys -> {NoClaim} \cup [owner : Workers, expires : 0..(MaxNow + Visibility)]]
        BY <1>1, <1>2 DEF Tables
    <2> HIDE DEF d, g, r
    <2> QED
        BY <2>1, <2>2, <2>3 DEF Tables
<1> HIDE DEF r
<1>5. Claimed(r) = Claimed(q) \cup {k}
    BY <1>1, <1>2, <1>3 DEF Claimed, Tables
<1>6. Orderly(q) => Orderly(r)
    BY <1>3, <1>5 DEF Orderly
<1>7. Complete(q) => Complete(r)
    BY <1>3, <1>5 DEF Complete
<1>8. r.claims[k] = c /\ \A j \in Keys \ {k} : r.claims[j] = q.claims[j]
    BY <1>1, <1>3 DEF Tables
<1> QED
    BY <1>3, <1>4, <1>6, <1>7, <1>8 DEF r, c

\* A release puts a claimed key back in the order, or behind a due time.
LEMMA ReleaseFacts ==
    ASSUME NEW q \in Tables, NEW k \in Claimed(q), NEW due \in Due
    PROVE  LET r == release_until(q, k, due)
           IN /\ r \in Tables
              /\ Orderly(q) => Orderly(r)
              /\ Complete(q) => Complete(r)
              /\ r.recs = q.recs
              /\ \A j \in Keys \ {k} : r.claims[j] = q.claims[j]
<1> DEFINE r == release_until(q, k, due)
<1>1. k \in Keys
    BY DEF Claimed
<1>2. /\ r.recs = q.recs /\ r.next = q.next
      /\ r.avail = IF due = NoTime THEN q.avail \cup {k} ELSE q.avail
      /\ r.held = IF due = NoTime THEN q.held ELSE q.held \cup {k}
      /\ r.claims = [q.claims EXCEPT ![k] = NoClaim]
    BY DEF release_until, Tables
<1>3. r \in Tables
    BY <1>1 DEF release_until, Tables
<1> HIDE DEF r
<1>4. Claimed(r) = Claimed(q) \ {k}
    BY <1>1, <1>2 DEF Claimed, Tables
<1>5. Orderly(q) => Orderly(r)
    BY <1>2, <1>4 DEF Orderly
<1>6. Complete(q) => Complete(r)
    BY <1>2, <1>4 DEF Complete
<1>7. \A j \in Keys \ {k} : r.claims[j] = q.claims[j]
    BY <1>1, <1>2 DEF Tables
<1> QED
    BY <1>2, <1>3, <1>5, <1>6, <1>7 DEF r

\* reconcile leaves a book that accounts for every record, whatever was done
\* to the records by hand, and keeps the claim of every record still there.
LEMMA ReconcileFacts ==
    ASSUME NEW q \in Tables
    PROVE  LET r == reconcile(q)
           IN /\ r \in Tables
              /\ Orderly(q) => Orderly(r) /\ Complete(r)
              /\ r.recs = q.recs
              /\ \A k \in q.recs : r.claims[k] = q.claims[k]
<1> DEFINE gone == Keys \ q.recs
           kept == [q EXCEPT
                      !.held = @ \ gone,
                      !.due = [k \in Keys |-> IF k \in gone THEN NoTime ELSE @[k]],
                      !.claims = [k \in Keys |-> IF k \in gone THEN NoClaim ELSE @[k]],
                      !.dels = [k \in Keys |-> IF k \in gone THEN 0 ELSE @[k]]]
           n == raise_past(q.next, q.recs)
           r == reconcile(q)
<1>1. n \in Nat /\ \A k \in q.recs : k < n
    BY RaisePastFacts DEF Tables
<1>2. r = [kept EXCEPT !.avail = q.recs \ (Claimed(kept) \cup kept.held), !.next = n]
    BY DEF reconcile
<1> HIDE DEF n
<1>3. /\ kept \in Tables /\ kept.recs = q.recs /\ kept.held = q.held \cap q.recs
      /\ kept.claims = [k \in Keys |-> IF k \in gone THEN NoClaim ELSE q.claims[k]]
    <2>1. kept \in Tables
        BY DEF Tables, Due
    <2> QED
        BY <2>1 DEF Tables
<1> HIDE DEF kept
<1>4. /\ r \in Tables /\ r.recs = q.recs /\ r.held = q.held \cap q.recs
      /\ r.claims = kept.claims /\ r.next = n
      /\ r.avail = q.recs \ (Claimed(kept) \cup kept.held)
    BY <1>1, <1>2, <1>3 DEF Tables
<1> HIDE DEF r
<1>5. Claimed(kept) = Claimed(q) \cap q.recs /\ Claimed(r) = Claimed(kept)
    BY <1>3, <1>4 DEF Claimed, Tables
<1>6. ASSUME Orderly(q)
      PROVE  Orderly(r) /\ Complete(r)
    BY <1>1, <1>3, <1>4, <1>5, <1>6 DEF Orderly, Complete
<1>7. \A k \in q.recs : r.claims[k] = q.claims[k]
    BY <1>3, <1>4 DEF Tables
<1> QED
    BY <1>4, <1>6, <1>7 DEF r

\* Adopting dead letters keeps a table well formed.
LEMMA AdoptFacts ==
    ASSUME NEW q \in Tables, NEW letters \in [Keys -> Nat]
    PROVE  adopt(q, letters) \in Tables
BY DEF adopt, Tables

-----------------------------------------------------------------------------
(***************************************************************************)
(* Type correctness.                                                       *)
(***************************************************************************)

\* No time is a due time, and neither is a number below zero any other.
LEMMA DueFacts ==
    /\ NoTime \in Due
    /\ \A t \in 0..MaxNow : t + Delay \in Due
BY TimesAssumption, BoundsAssumption DEF Due

\* Where a command goes next is somewhere a command can be.
LEMMA GotoType ==
    ASSUME TypeOK, NEW w \in Workers, NEW label \in Labels, Goto(w, label)
    PROVE  pc' \in [Workers -> Labels] /\ left' \in [Workers -> SUBSET Files]
BY DEF TypeOK, Goto

\* A worker that is done is idle, and its command is the blank one.
LEMMA EndFacts ==
    ASSUME TypeOK, NEW w \in Workers, End(w)
    PROVE  /\ pc' \in [Workers -> Labels] /\ left' \in [Workers -> SUBSET Files]
           /\ cmd' \in [Workers -> Cmds]
           /\ \A v \in Workers : cmd'[v].at <= cmd[v].at
<1>1. "idle" \in Labels
    BY DEF Labels
<1>2. NoCmd \in Cmds /\ NoCmd.at = 0
    BY DueFacts, BoundsAssumption DEF NoCmd, Cmds, Ops, Files
<1>3. \A v \in Workers : cmd[v].at \in 0..MaxNow
    BY DEF TypeOK, Cmds
<1>4. cmd' = [cmd EXCEPT ![w] = NoCmd] /\ Goto(w, "idle")
    BY DEF End
<1>5. cmd' \in [Workers -> Cmds]
    BY <1>2, <1>4 DEF TypeOK
<1>6. \A v \in Workers : cmd'[v].at <= cmd[v].at
    BY <1>2, <1>3, <1>4, BoundsAssumption DEF TypeOK
<1> QED
    BY <1>1, <1>4, <1>5, <1>6, GotoType

\* What is left of a command whose critical section is over.
LEMMA ActedFacts ==
    ASSUME TypeOK, NEW w \in Workers, NEW k \in Keys \cup {NoKey}, NEW due \in Due,
           Acted(w, k, due)
    PROVE  /\ cmd' \in [Workers -> Cmds]
           /\ \A v \in Workers : cmd'[v].at <= cmd[v].at
<1>1. cmd[w] \in Cmds /\ cmd \in [Workers -> Cmds]
    BY DEF TypeOK
<1> DEFINE c == [cmd[w] EXCEPT !.key = k, !.due = due, !.at = 0]
<1>2. c \in Cmds /\ c.at = 0
    <2>1. 0 \in 0..MaxNow
        BY BoundsAssumption
    <2> QED
        BY <1>1, <2>1 DEF Cmds
<1>3. cmd' = [cmd EXCEPT ![w] = c]
    BY <1>1 DEF Acted
<1>4. \A v \in Workers : cmd[v].at \in 0..MaxNow
    BY DEF TypeOK, Cmds
<1> HIDE DEF c
<1> QED
    BY <1>1, <1>2, <1>3, <1>4, BoundsAssumption

\* The letters a sweep or a NACK takes out of a well-formed table.
LEMMA LettersType ==
    ASSUME TypeOK, NEW w \in Workers, NEW q \in Tables, NEW dead \in SUBSET Keys,
           TakeLetters(w, dead, q)
    PROVE  hand' \in [Workers -> [Keys -> Nat]] /\ astray' \subseteq Keys
<1> DEFINE letters == [k \in Keys |-> IF k \in dead THEN q.dels[k] ELSE 0]
<1>1. letters \in [Keys -> Nat]
    BY DEF Tables
<1>2. hand' = [hand EXCEPT ![w] = letters] /\ astray' = astray \cup dead
    BY DEF TakeLetters
<1> HIDE DEF letters
<1> QED
    BY <1>1, <1>2 DEF TypeOK

\* What a sweep takes for dead letters are keys.
LEMMA DeadAreKeys ==
    ASSUME NEW f, NEW q \in Tables, NEW time
    PROVE  DeadLetters(f, q, time) \in SUBSET Keys
BY DEF DeadLetters, Lapsed, Claimed

\* The initial state holds values of the right kind.
LEMMA TypeInit == Init => TypeOK
<1> SUFFICES ASSUME Init
             PROVE  TypeOK
    OBVIOUS
<1>1. \A f \in Files : diskBook[f] \in Books
    BY DueFacts DEF Init, Books
<1>2. table \in [Files -> Tables]
    <2>1. \A f \in Files : attach({}, diskBook[f]) \in Tables
        BY <1>1, AttachFacts
    <2> QED
        BY <2>1 DEF Init
<1>3. diskBook \in [Files -> Books]
    BY <1>1 DEF Init
<1>4. cmd \in [Workers -> Cmds]
    BY DueFacts, BoundsAssumption DEF Init, NoCmd, Cmds, Ops, Files
<1>5. /\ hand \in [Workers -> [Keys -> Nat]] /\ pc \in [Workers -> Labels]
      /\ left \in [Workers -> SUBSET Files] /\ promised \in [Keys -> Due]
    BY DueFacts DEF Init, NoLetters, Labels
<1>6. /\ now \in 0..MaxNow /\ enqueues \in 0..MaxEnqueues /\ faults \in 0..MaxFaults
      /\ handEdits \in 0..MaxHandEdits
    BY BoundsAssumption DEF Init
<1> QED
    BY <1>2, <1>3, <1>4, <1>5, <1>6 DEF Init, TypeOK

\* A step of the clock.
LEMMA TypeTick == TypeOK /\ Tick => TypeOK'
<1> SUFFICES ASSUME TypeOK, Tick
             PROVE  TypeOK'
    OBVIOUS
<1>1. now' \in 0..MaxNow
    BY BoundsAssumption DEF TypeOK, Tick
<1> QED
    BY <1>1 DEF TypeOK, Tick, diskVars, workerVars, historyVars

\* A command that changes nothing but where its worker is.
LEMMA TypeBegin ==
    ASSUME TypeOK, NEW w \in Workers, NEW op, NEW f \in Files, NEW k \in Keys \cup {NoKey},
           NEW due \in Due, op = "ENQUEUE" => enqueues < MaxEnqueues, Begin(w, op, f, k, due)
    PROVE  TypeOK'
<1>1. op \in Ops
    BY CommandsAssumption DEF Begin, Ops
<1>2. cmd' \in [Workers -> Cmds]
    <2> DEFINE c == [op |-> op, file |-> f, key |-> k, due |-> due,
                     at |-> IF op \in {"DEQUEUE", "PEEK"} THEN now ELSE 0]
    <2>1. c \in Cmds
        BY <1>1, BoundsAssumption DEF TypeOK, Cmds
    <2>2. cmd' = [cmd EXCEPT ![w] = c]
        BY DEF Begin
    <2> HIDE DEF c
    <2> QED
        BY <2>1, <2>2 DEF TypeOK
<1>3. pc' \in [Workers -> Labels] /\ left' \in [Workers -> SUBSET Files]
    <2>1. "act" \in Labels /\ "reconcile" \in Labels
        BY DEF Labels
    <2> QED
        BY <2>1, GotoType DEF Begin
<1>4. enqueues' \in 0..MaxEnqueues
    BY BoundsAssumption DEF Begin, TypeOK
<1> QED
    BY <1>2, <1>3, <1>4 DEF TypeOK, Begin, diskVars

\* The reconciliation of queue_file.
LEMMA TypeQueueFile ==
    ASSUME TypeOK, NEW w \in Workers, queue_file(w)
    PROVE  TypeOK'
<1>1. cmd[w] \in Cmds /\ cmd[w].file \in Files /\ table[cmd[w].file] \in Tables
    BY DEF TypeOK, Cmds
<1>2. table' \in [Files -> Tables]
    BY <1>1, ReconcileFacts DEF queue_file, TypeOK
<1>3. cmd' \in [Workers -> Cmds]
    <2> DEFINE c == [cmd[w] EXCEPT !.at = IF cmd[w].op \in {"DEQUEUE", "PEEK"} THEN now ELSE 0]
    <2>0. 0 \in 0..MaxNow
        BY BoundsAssumption
    <2>1. c \in Cmds
        BY <1>1, <2>0 DEF TypeOK, Cmds
    <2>2. cmd' = [cmd EXCEPT ![w] = c]
        BY DEF queue_file, TypeOK
    <2> HIDE DEF c
    <2> QED
        BY <2>1, <2>2 DEF TypeOK
<1>4. pc' \in [Workers -> Labels] /\ left' \in [Workers -> SUBSET Files]
    <2>1. "act" \in Labels
        BY DEF Labels
    <2> QED
        BY <2>1, GotoType DEF queue_file
<1> QED
    BY <1>2, <1>3, <1>4 DEF TypeOK, queue_file, diskVars, historyVars

\* The critical section of an ENQUEUE.
LEMMA TypeEnqueue ==
    ASSUME TypeOK, NEW w \in Workers, enqueue_due(w)
    PROVE  TypeOK'
<1> DEFINE f == cmd[w].file
           k == mint(table[f], now)
<1>1. f \in Files /\ table[f] \in Tables /\ cmd[w].due \in Due /\ now \in Nat
    BY BoundsAssumption DEF TypeOK, Cmds
<1>2. k \in Keys /\ table[f].next <= k
    BY <1>1, MintFacts, BoundsAssumption DEF enqueue_due, Keys
<1>3. table' = [table EXCEPT ![f] = Enqueued(table[f], k, cmd[w].due)]
    BY DEF enqueue_due, Enqueued
<1>4. Acted(w, k, cmd[w].due) /\ Goto(w, "save") /\ "save" \in Labels
    BY DEF enqueue_due, Labels
<1> HIDE DEF f, k
<1>5. table' \in [Files -> Tables]
    BY <1>1, <1>2, <1>3, EnqueuedFacts DEF TypeOK
<1> QED
    BY <1>1, <1>2, <1>4, <1>5, ActedFacts, GotoType DEF TypeOK, enqueue_due, diskVars, historyVars

\* The critical section of a DEQUEUE.
LEMMA TypeDequeue ==
    ASSUME TypeOK, NEW w \in Workers, dequeue(w)
    PROVE  TypeOK'
<1> DEFINE f == cmd[w].file
           q == table[f]
           time == cmd[w].at
           dead == DeadLetters(f, q, time)
           swept == take_expired(f, q, time)
           k == IF swept.avail = {} THEN NoKey ELSE Smallest(swept.avail)
<1>1. f \in Files /\ q \in Tables /\ time \in 0..MaxNow /\ time \in Nat
    BY BoundsAssumption DEF TypeOK, Cmds
<1>2. /\ table' = [table EXCEPT ![f] = IF k = NoKey THEN swept ELSE claim(swept, k, w, time)]
      /\ leases' = IF k \notin swept.recs THEN leases
                   ELSE leases \cup {[owner |-> w, file |-> f, key |-> k, from |-> now,
                                      expires |-> time + Visibility]}
      /\ TakeLetters(w, dead, q)
      /\ End(w) \/ (Acted(w, k, NoTime) /\ Goto(w, IF dead # {} THEN "bury" ELSE "save"))
    BY DEF dequeue
<1>3. swept \in Tables
    BY <1>1, TakeExpiredFacts
<1>4. dead \in SUBSET Keys
    BY <1>1, DeadAreKeys
<1> HIDE DEF f, q, time, dead, swept
<1>5. k \in Keys \cup {NoKey} /\ (k # NoKey => k \in swept.avail)
    BY <1>3, SmallestIn DEF Tables
<1> HIDE DEF k
<1>6. table' \in [Files -> Tables]
    BY <1>1, <1>2, <1>3, <1>5, ClaimFacts DEF TypeOK
<1>7. leases' \subseteq Deliveries
    <2>1. k \in swept.recs => k \in Keys
        BY <1>3 DEF Tables
    <2>2. time + Visibility \in 0..(MaxNow + Visibility)
        BY <1>1, TimesAssumption, BoundsAssumption
    <2> QED
        BY <1>1, <1>2, <2>1, <2>2 DEF TypeOK, Deliveries
<1>8. hand' \in [Workers -> [Keys -> Nat]] /\ astray' \subseteq Keys
    BY <1>1, <1>2, <1>4, LettersType
<1>9. /\ cmd' \in [Workers -> Cmds] /\ pc' \in [Workers -> Labels]
      /\ left' \in [Workers -> SUBSET Files]
    <2>1. "bury" \in Labels /\ "save" \in Labels
        BY DEF Labels
    <2> QED
        BY <1>2, <1>5, <2>1, DueFacts, EndFacts, ActedFacts, GotoType
<1> QED
    BY <1>6, <1>7, <1>8, <1>9 DEF TypeOK, dequeue, diskVars

\* The critical section of a PEEK.
LEMMA TypePeek ==
    ASSUME TypeOK, NEW w \in Workers, peek(w)
    PROVE  TypeOK'
<1> DEFINE f == cmd[w].file
           q == table[f]
           dead == DeadLetters(f, q, cmd[w].at)
<1>1. f \in Files /\ q \in Tables /\ cmd[w].at \in Nat
    BY BoundsAssumption DEF TypeOK, Cmds
<1>2. /\ table' = [table EXCEPT ![f] = take_expired(f, q, cmd[w].at)]
      /\ TakeLetters(w, dead, q)
      /\ End(w) \/ (Acted(w, NoKey, NoTime) /\ Goto(w, "bury"))
    BY DEF peek
<1>3. take_expired(f, q, cmd[w].at) \in Tables /\ dead \in SUBSET Keys
    BY <1>1, TakeExpiredFacts, DeadAreKeys
<1> HIDE DEF f, q, dead
<1>4. table' \in [Files -> Tables]
    BY <1>1, <1>2, <1>3 DEF TypeOK
<1>5. hand' \in [Workers -> [Keys -> Nat]] /\ astray' \subseteq Keys
    BY <1>1, <1>2, <1>3, LettersType
<1>6. /\ cmd' \in [Workers -> Cmds] /\ pc' \in [Workers -> Labels]
      /\ left' \in [Workers -> SUBSET Files]
    <2>1. "bury" \in Labels
        BY DEF Labels
    <2> QED
        BY <1>2, <2>1, DueFacts, EndFacts, ActedFacts, GotoType
<1> QED
    BY <1>4, <1>5, <1>6 DEF TypeOK, peek, diskVars

\* A refused ACK or NACK.
LEMMA TypeRefused ==
    ASSUME TypeOK, NEW w \in Workers, Refused(w)
    PROVE  TypeOK'
<1>1. End(w)
    BY DEF Refused
<1> QED
    BY <1>1, EndFacts DEF TypeOK, Refused, diskVars, historyVars

\* A verified claim is a claim on a record that is there.
LEMMA VerifyFacts ==
    ASSUME NEW q \in Tables, NEW k, NEW w \in Workers, verify(q, k, w)
    PROVE  k \in Keys /\ k \in q.recs /\ k \in Claimed(q)
<1>1. k \in Keys /\ k \in q.recs
    BY DEF verify, Tables
<1>2. q.claims[k] # NoClaim
    BY WorkersAssumption DEF verify, NoClaim
<1> QED
    BY <1>1, <1>2 DEF Claimed

\* The critical section of an ACK.
LEMMA TypeAck ==
    ASSUME TypeOK, NEW w \in Workers, ack(w)
    PROVE  TypeOK'
<1> DEFINE f == cmd[w].file
           k == cmd[w].key
<1>1. f \in Files /\ table[f] \in Tables
    BY DEF TypeOK, Cmds
<1>2. /\ table' = [table EXCEPT ![f] = Without(table[f], {k})]
      /\ verify(table[f], k, w)
      /\ leases' \subseteq leases /\ consumed' = consumed \cup {k}
      /\ Acted(w, k, NoTime) /\ Goto(w, "save") /\ "save" \in Labels
    <2>1. table' = [table EXCEPT ![f] = Without(table[f], {k})]
        BY DEF ack, Without
    <2>2. "save" \in Labels
        BY DEF Labels
    <2> QED
        BY <2>1, <2>2 DEF ack
<1> HIDE DEF f, k
<1>3. k \in Keys
    BY <1>1, <1>2, VerifyFacts
<1>4. table' \in [Files -> Tables]
    BY <1>1, <1>2, <1>3, WithoutFacts DEF TypeOK
<1>5. leases' \subseteq Deliveries /\ consumed' \subseteq Keys
    BY <1>2, <1>3 DEF TypeOK
<1> QED
    BY <1>2, <1>3, <1>4, <1>5, DueFacts, ActedFacts, GotoType DEF TypeOK, ack, diskVars

\* The critical section of a NACK.
LEMMA TypeNack ==
    ASSUME TypeOK, NEW w \in Workers, nack_until(w)
    PROVE  TypeOK'
<1> DEFINE f == cmd[w].file
           k == cmd[w].key
           q == table[f]
           dead == IF Spent(f, q, k) THEN {k} ELSE {}
<1>1. f \in Files /\ q \in Tables /\ cmd[w].due \in Due
    BY DEF TypeOK, Cmds
<1>2. /\ table' = [table EXCEPT ![f] = IF dead # {} THEN Without(q, dead)
                                       ELSE release_until(q, k, cmd[w].due)]
      /\ verify(q, k, w)
      /\ leases' \subseteq leases
      /\ TakeLetters(w, dead, q)
      /\ Acted(w, k, IF dead # {} THEN NoTime ELSE cmd[w].due)
      /\ Goto(w, IF dead # {} THEN "bury" ELSE "save")
    BY DEF nack_until, Without, GivenUp
<1>3. dead \subseteq {k}
    OBVIOUS
<1> HIDE DEF f, k, q, dead
<1>4. k \in Keys /\ k \in Claimed(q) /\ dead \in SUBSET Keys
    BY <1>1, <1>2, <1>3, VerifyFacts
<1>5. table' \in [Files -> Tables]
    <2>1. Without(q, dead) \in Tables
        BY <1>1, <1>4, WithoutFacts
    <2>2. release_until(q, k, cmd[w].due) \in Tables
        BY <1>1, <1>4, ReleaseFacts
    <2> QED
        BY <1>1, <1>2, <2>1, <2>2 DEF TypeOK
<1>6. hand' \in [Workers -> [Keys -> Nat]] /\ astray' \subseteq Keys
    BY <1>1, <1>2, <1>4, LettersType
<1>7. /\ cmd' \in [Workers -> Cmds] /\ pc' \in [Workers -> Labels]
      /\ left' \in [Workers -> SUBSET Files]
    <2>1. "bury" \in Labels /\ "save" \in Labels
        BY DEF Labels
    <2> QED
        BY <1>1, <1>2, <1>4, <2>1, DueFacts, ActedFacts, GotoType
<1>8. leases' \subseteq Deliveries
    BY <1>2 DEF TypeOK
<1> QED
    BY <1>5, <1>6, <1>7, <1>8 DEF TypeOK, nack_until, diskVars

\* What every hand edit has in common.
LEMMA HandEditFacts ==
    ASSUME TypeOK, NEW w \in Workers, NEW op \in {"WRITE", "DELETE"}, NEW f \in Files,
           NEW k \in Keys, HandEdit(w, op, f, k)
    PROVE  /\ cmd' \in [Workers -> Cmds] /\ pc' \in [Workers -> Labels]
           /\ left' \in [Workers -> SUBSET Files]
           /\ handEdits' \in 0..MaxHandEdits /\ handEdits' # 0
           /\ \A v \in Workers : cmd'[v].at = cmd[v].at
<1>1. cmd[w] \in Cmds /\ cmd \in [Workers -> Cmds]
    BY DEF TypeOK
<1> DEFINE c == [cmd[w] EXCEPT !.op = op, !.file = f, !.key = k]
<1>2. c \in Cmds /\ c.at = cmd[w].at
    BY <1>1 DEF Cmds, Ops
<1>3. cmd' = [cmd EXCEPT ![w] = c]
    BY <1>1 DEF HandEdit
<1>4. Goto(w, "save") /\ "save" \in Labels
    BY DEF HandEdit, Labels
<1>5. handEdits' \in 0..MaxHandEdits /\ handEdits' # 0
    BY BoundsAssumption DEF HandEdit, TypeOK
<1> HIDE DEF c
<1> QED
    BY <1>1, <1>2, <1>3, <1>4, <1>5, GotoType

\* A WRITE or a DELETE of a record of the file, around the queue.
LEMMA TypeHandEdits ==
    ASSUME TypeOK, NEW w \in Workers, NEW f \in Files, NEW k \in Keys,
           HandWrite(w, f, k) \/ HandDelete(w, f, k)
    PROVE  TypeOK'
<1>1. table[f] \in Tables
    BY DEF TypeOK
<1>2. CASE HandWrite(w, f, k)
    <2>1. HandEdit(w, "WRITE", f, k)
        BY <1>2 DEF HandWrite
    <2>2. table' \in [Files -> Tables]
        <3>1. [table[f] EXCEPT !.recs = @ \cup {k}] \in Tables
            BY <1>1 DEF Tables
        <3>2. table' = [table EXCEPT ![f] = [table[f] EXCEPT !.recs = @ \cup {k}]]
            BY <1>2 DEF HandWrite, TypeOK
        <3> QED
            BY <3>1, <3>2 DEF TypeOK
    <2> QED
        BY <1>2, <2>1, <2>2, HandEditFacts DEF TypeOK, HandWrite, diskVars
<1>3. CASE HandDelete(w, f, k)
    <2>1. HandEdit(w, "DELETE", f, k)
        BY <1>3 DEF HandDelete
    <2>2. table' \in [Files -> Tables]
        <3>1. [table[f] EXCEPT !.recs = @ \ {k}] \in Tables
            BY <1>1 DEF Tables
        <3>2. table' = [table EXCEPT ![f] = [table[f] EXCEPT !.recs = @ \ {k}]]
            BY <1>3 DEF HandDelete, TypeOK
        <3> QED
            BY <3>1, <3>2 DEF TypeOK
    <2>3. leases' \subseteq Deliveries /\ consumed' \subseteq Keys
        BY <1>3 DEF HandDelete, TypeOK
    <2> QED
        BY <1>3, <2>1, <2>2, <2>3, HandEditFacts DEF TypeOK, HandDelete, diskVars
<1> QED
    BY <1>2, <1>3

\* The steps of bury.
LEMMA TypeBury ==
    ASSUME TypeOK, NEW w \in Workers, bury(w) \/ tidy(w) \/ insert(w)
    PROVE  TypeOK'
<1>1. {"created", "insert", "tidy", "buried"} \subseteq Labels
    BY DEF Labels
<1>2. "D" \in Files /\ table["D"] \in Tables
    BY DEF Files, TypeOK
<1>3. CASE bury(w)
    <2>1. pc' \in [Workers -> Labels] /\ left' \in [Workers -> SUBSET Files]
        BY <1>1, <1>3, GotoType DEF bury
    <2>2. exists' \in BOOLEAN
        BY <1>3 DEF bury
    <2> QED
        BY <1>3, <2>1, <2>2 DEF TypeOK, bury, diskVars, historyVars
<1>4. CASE tidy(w)
    <2>1. pc' \in [Workers -> Labels] /\ left' \in [Workers -> SUBSET Files]
        BY <1>1, <1>4, GotoType DEF tidy
    <2>2. table' \in [Files -> Tables]
        BY <1>2, <1>4, ReconcileFacts DEF tidy, TypeOK
    <2> QED
        BY <1>4, <2>1, <2>2 DEF TypeOK, tidy, diskVars, historyVars
<1>5. CASE insert(w)
    <2>1. pc' \in [Workers -> Labels] /\ left' \in [Workers -> SUBSET Files]
        BY <1>1, <1>5, GotoType DEF insert
    <2>2. table' \in [Files -> Tables]
        <3>1. hand[w] \in [Keys -> Nat]
            BY DEF TypeOK
        <3> QED
            BY <1>2, <1>5, <3>1, AdoptFacts DEF insert, TypeOK
    <2>3. hand' \in [Workers -> [Keys -> Nat]]
        BY <1>5 DEF insert, TypeOK, NoLetters
    <2> QED
        BY <1>5, <2>1, <2>2, <2>3 DEF TypeOK, insert, diskVars, historyVars
<1> QED
    BY <1>3, <1>4, <1>5

\* The flush of one table of a save().
LEMMA TypeFlush ==
    ASSUME TypeOK, KeyInv, NEW w \in Workers, NEW f \in Files, flush_handle(w, f)
    PROVE  TypeOK'
<1>1. table[f] \in Tables /\ table["Q"] \in Tables /\ cmd[w] \in Cmds
    BY DEF TypeOK, Files
<1>2. diskRecs' \in [Files -> SUBSET Keys] /\ astray' \subseteq Keys
    BY <1>1 DEF flush_handle, TypeOK, Tables
<1>3. diskBook' \in [Files -> Books]
    <2>1. to_persisted(table[f]) \in Books
        BY <1>1 DEF to_persisted, Tables, Books
    <2> QED
        BY <2>1 DEF flush_handle, TypeOK
<1>4. /\ cmd' \in [Workers -> Cmds] /\ pc' \in [Workers -> Labels]
      /\ left' \in [Workers -> SUBSET Files]
    <2>1. \/ left' = [left EXCEPT ![w] = @ \ {f}] /\ UNCHANGED <<pc, cmd>>
          \/ End(w)
          \/ Goto(w, AfterSave(w)) /\ UNCHANGED cmd
        BY DEF flush_handle
    <2>2. AfterSave(w) \in Labels
        BY DEF AfterSave, Labels
    <2>3. CASE left' = [left EXCEPT ![w] = @ \ {f}] /\ UNCHANGED <<pc, cmd>>
        BY <2>3 DEF TypeOK
    <2>4. CASE End(w)
        BY <2>4, EndFacts
    <2>5. CASE Goto(w, AfterSave(w)) /\ UNCHANGED cmd
        BY <2>2, <2>5, GotoType DEF TypeOK
    <2> QED
        BY <2>1, <2>3, <2>4, <2>5
<1>5. issued' \subseteq Keys /\ acked' \subseteq Keys /\ promised' \in [Keys -> Due]
    <2>1. CASE Answered(w)
        <3>1. cmd[w].op \in {"ENQUEUE", "ACK", "NACK"} => cmd[w].key \in Keys
            BY DEF KeyInv, flush_handle, Saving, SaveLabels
        <3>2. promised' \in [Keys -> Due]
            <4> DEFINE c == cmd[w]
            <4>1. c.op \in {"ENQUEUE", "NACK"} => c.key \in Keys /\ c.due \in Due
                BY <1>1, <3>1 DEF Cmds
            <4>2. promised' = promised \/ (/\ c.op \in {"ENQUEUE", "NACK"}
                                           /\ promised' = [promised EXCEPT ![c.key] = c.due])
                BY <2>1 DEF Answered
            <4> HIDE DEF c
            <4> QED
                BY <4>1, <4>2 DEF TypeOK
        <3>3. issued' \subseteq Keys /\ acked' \subseteq Keys
            BY <2>1, <3>1 DEF Answered, TypeOK
        <3> QED
            BY <3>2, <3>3
    <2>2. CASE UNCHANGED <<issued, acked, promised>>
        BY <2>2 DEF TypeOK
    <2> QED
        BY <2>1, <2>2 DEF flush_handle
<1> QED
    BY <1>2, <1>3, <1>4, <1>5 DEF TypeOK, flush_handle

\* A failed command.
LEMMA TypeFail ==
    ASSUME TypeOK, NEW w \in Workers, NEW torn \in SUBSET Files, Fail(w, torn)
    PROVE  TypeOK'
<1>1. diskRecs' \in [Files -> SUBSET Keys]
    BY DEF Fail, TornFlush, TypeOK, Tables
<1>2. faults' \in 0..MaxFaults /\ astray' \subseteq Keys
    BY BoundsAssumption DEF Fail, TypeOK
<1>3. hand' \in [Workers -> [Keys -> Nat]] /\ End(w)
    BY DEF Fail, TypeOK, NoLetters
<1> QED
    BY <1>1, <1>2, <1>3, EndFacts DEF TypeOK, Fail

\* A crash and the restart after it.
LEMMA TypeCrash ==
    ASSUME TypeOK, NEW torn \in SUBSET Files, Crash(torn)
    PROVE  TypeOK'
<1>1. diskRecs' \in [Files -> SUBSET Keys]
    BY DEF Crash, TornFlush, TypeOK, Tables
<1>2. table' \in [Files -> Tables]
    <2>1. \A f \in Files : attach(diskRecs'[f], diskBook[f]) \in Tables
        BY <1>1, AttachFacts DEF TypeOK
    <2> QED
        BY <2>1 DEF Crash
<1>3. cmd' \in [Workers -> Cmds]
    BY DueFacts, BoundsAssumption DEF Crash, NoCmd, Cmds, Ops, Files
<1>4. /\ hand' \in [Workers -> [Keys -> Nat]] /\ pc' \in [Workers -> Labels]
      /\ left' \in [Workers -> SUBSET Files]
    BY DEF Crash, NoLetters, Labels
<1>5. faults' \in 0..MaxFaults
    BY BoundsAssumption DEF Crash, TypeOK
<1>6. leases' \subseteq Deliveries /\ issued' \subseteq Keys /\ astray' \subseteq Keys
    BY DEF Crash, TypeOK
<1> QED
    BY <1>1, <1>2, <1>3, <1>4, <1>5, <1>6 DEF TypeOK, Crash

-----------------------------------------------------------------------------
(***************************************************************************)
(* The inductive invariant.                                                *)
(***************************************************************************)

\* The parts of the invariant that speak of Q's table and its deliveries.
BookInv ==
    /\ Orderly(table["Q"])
    /\ handEdits = 0 => Complete(table["Q"])
    /\ LeaseInv

\* Nothing that leaves Q's table, its deliveries and the clock alone disturbs
\* the account of them.
LEMMA BookKept ==
    ASSUME BookInv, table'["Q"] = table["Q"], leases' \subseteq leases, now' = now,
           handEdits' = 0 => handEdits = 0
    PROVE  BookInv'
BY DEF BookInv, LeaseInv

\* A change of one table that keeps what Q's account of itself rests on: its
\* order, and the claim and record behind each delivery that stands.
LEMMA BookStep ==
    ASSUME TypeOK, BookInv, NEW f \in Files, NEW r, table' = [table EXCEPT ![f] = r],
           now' = now, handEdits' = handEdits,
           f = "Q" => /\ Orderly(r)
                      /\ Complete(table["Q"]) => Complete(r)
                      /\ \A l \in leases' : l.file = "Q" /\ l.expires > now =>
                            /\ l.key \in r.recs
                            /\ r.claims[l.key] = [owner |-> l.owner, expires |-> l.expires],
           f # "Q" => \A l \in leases' : l.file = "Q" => l \in leases
    PROVE  BookInv'
<1>1. CASE f = "Q"
    <2>1. table'["Q"] = r
        BY <1>1 DEF TypeOK
    <2> QED
        BY <1>1, <2>1 DEF BookInv, LeaseInv
<1>2. CASE f # "Q"
    <2>1. table'["Q"] = table["Q"]
        BY <1>2 DEF TypeOK, Files
    <2> QED
        BY <1>2, <2>1 DEF BookInv, LeaseInv
<1> QED
    BY <1>1, <1>2

\* The claim behind a delivery that stands, and what it is not.
LEMMA StandingFacts ==
    ASSUME TypeOK, BookInv, NEW l \in leases, l.file = "Q", l.expires > now
    PROVE  /\ l.key \in Keys /\ l.owner \in Workers /\ l.expires \in Nat
           /\ l.key \in table["Q"].recs
           /\ table["Q"].claims[l.key] = [owner |-> l.owner, expires |-> l.expires]
           /\ l.key \in Claimed(table["Q"])
<1>1. l.key \in Keys /\ l.owner \in Workers /\ l.expires \in Nat
    BY TimesAssumption, BoundsAssumption DEF TypeOK, Deliveries
<1>2. /\ l.key \in table["Q"].recs
      /\ table["Q"].claims[l.key] = [owner |-> l.owner, expires |-> l.expires]
    BY DEF BookInv, LeaseInv
<1>3. table["Q"].claims[l.key] # NoClaim
    BY <1>1, <1>2, WorkersAssumption DEF NoClaim
<1> QED
    BY <1>1, <1>2, <1>3 DEF Claimed

\* ENQUEUE: the minted key is one the book has never seen.
LEMMA BookEnqueue ==
    ASSUME TypeOK, BookInv, NEW w \in Workers, enqueue_due(w)
    PROVE  BookInv'
<1> DEFINE f == cmd[w].file
           k == mint(table[f], now)
           r == Enqueued(table[f], k, cmd[w].due)
<1>1. f \in Files /\ table[f] \in Tables /\ cmd[w].due \in Due /\ now \in Nat
    BY BoundsAssumption DEF TypeOK, Cmds
<1>2. k \in Keys /\ table[f].next <= k
    BY <1>1, MintFacts, BoundsAssumption DEF enqueue_due, Keys
<1>3. table' = [table EXCEPT ![f] = r]
    BY DEF enqueue_due, Enqueued
<1>4. leases' = leases /\ now' = now /\ handEdits' = handEdits
    BY DEF enqueue_due, historyVars
<1>5. ASSUME f = "Q"
      PROVE  /\ Orderly(r)
             /\ Complete(table["Q"]) => Complete(r)
             /\ r.claims = table["Q"].claims /\ table["Q"].recs \subseteq r.recs
    <2>1. Orderly(table[f])
        BY <1>5 DEF BookInv
    <2> HIDE DEF f, k
    <2> QED
        BY <1>1, <1>2, <1>5, <2>1, EnqueuedFacts
<1> HIDE DEF f, k, r
<1>6. ASSUME f = "Q", NEW l \in leases', l.file = "Q", l.expires > now
      PROVE  /\ l.key \in r.recs
             /\ r.claims[l.key] = [owner |-> l.owner, expires |-> l.expires]
    BY <1>4, <1>5, <1>6, StandingFacts
<1> QED
    BY <1>1, <1>3, <1>4, <1>5, <1>6, BookStep

\* DEQUEUE: the sweep's clock is not ahead of the clock, so no delivery that
\* stands is swept, and the key it claims was nobody's.
LEMMA BookDequeue ==
    ASSUME TypeOK, BookInv, ClockInv, NEW w \in Workers, dequeue(w)
    PROVE  BookInv'
<1> DEFINE f == cmd[w].file
           q == table[f]
           time == cmd[w].at
           dead == DeadLetters(f, q, time)
           swept == take_expired(f, q, time)
           k == IF swept.avail = {} THEN NoKey ELSE Smallest(swept.avail)
           r == IF k = NoKey THEN swept ELSE claim(swept, k, w, time)
           new == [owner |-> w, file |-> f, key |-> k, from |-> now,
                   expires |-> time + Visibility]
<1>1. f \in Files /\ q \in Tables /\ time \in 0..MaxNow /\ time \in Nat /\ now \in Nat
    BY BoundsAssumption DEF TypeOK, Cmds
<1>2. /\ table' = [table EXCEPT ![f] = r]
      /\ leases' = IF k \notin swept.recs THEN leases ELSE leases \cup {new}
      /\ now' = now /\ handEdits' = handEdits
    BY DEF dequeue
<1>3. /\ swept \in Tables
      /\ Orderly(q) => Orderly(swept)
      /\ Complete(q) => Complete(swept)
      /\ swept.recs = q.recs \ dead
      /\ \A j \in Keys : q.claims[j] # NoClaim /\ q.claims[j].expires > time =>
            swept.claims[j] = q.claims[j] /\ j \notin dead
    BY <1>1, TakeExpiredFacts
<1>4. new.owner = w /\ new.file = f /\ new.key = k /\ new.expires = time + Visibility
    OBVIOUS
<1>5. time <= now
    BY DEF ClockInv
<1> HIDE DEF f, q, time, dead, swept, new
<1>6. k # NoKey => k \in swept.avail /\ k \in Keys
    BY <1>3, SmallestIn DEF Tables
<1> HIDE DEF k
<1>7. k # NoKey =>
        /\ Orderly(swept) => Orderly(r)
        /\ Complete(swept) => Complete(r)
        /\ r.recs = swept.recs
        /\ r.claims[k] = [owner |-> w, expires |-> time + Visibility]
        /\ \A j \in Keys \ {k} : r.claims[j] = swept.claims[j]
    BY <1>1, <1>3, <1>6, ClaimFacts
<1>8. k = NoKey => r = swept
    OBVIOUS
<1> HIDE DEF r
<1>9. CASE f # "Q"
    BY <1>1, <1>2, <1>4, <1>9, BookStep
<1>10. CASE f = "Q"
    <2>1. q = table["Q"] /\ Orderly(q) /\ Orderly(swept)
        BY <1>3, <1>10 DEF BookInv, q
    <2>2. Orderly(r) /\ (Complete(table["Q"]) => Complete(r))
        BY <1>3, <1>7, <1>8, <2>1
    <2>3. ASSUME NEW l \in leases, l.file = "Q", l.expires > now
          PROVE  /\ l.key \in r.recs
                 /\ r.claims[l.key] = [owner |-> l.owner, expires |-> l.expires]
        <3>1. /\ l.key \in Keys /\ l.key \in q.recs /\ l.expires \in Nat
              /\ l.key \in Claimed(q)
              /\ q.claims[l.key] = [owner |-> l.owner, expires |-> l.expires]
            BY <2>1, <2>3, StandingFacts
        <3>2. q.claims[l.key] # NoClaim /\ q.claims[l.key].expires > time
            BY <1>1, <1>5, <2>3, <3>1 DEF Claimed
        <3>3. /\ swept.claims[l.key] = q.claims[l.key] /\ l.key \in swept.recs
              /\ l.key \in Claimed(swept)
            BY <1>3, <3>1, <3>2 DEF Claimed
        <3>4. l.key # k
            BY <1>6, <2>1, <3>1, <3>3, BoundsAssumption DEF Orderly, NoKey, Keys
        <3> QED
            BY <1>7, <1>8, <3>1, <3>3, <3>4
    <2>4. ASSUME k \in swept.recs
          PROVE  /\ k \in r.recs
                 /\ r.claims[k] = [owner |-> w, expires |-> time + Visibility]
        <3>1. k # NoKey
            BY <1>3, <2>4, BoundsAssumption DEF NoKey, Keys, Tables
        <3> QED
            BY <1>7, <2>4, <3>1
    <2>5. ASSUME NEW l \in leases', l.file = "Q", l.expires > now
          PROVE  /\ l.key \in r.recs
                 /\ r.claims[l.key] = [owner |-> l.owner, expires |-> l.expires]
        <3>1. CASE l \in leases
            BY <2>3, <2>5, <3>1
        <3>2. CASE l = new /\ k \in swept.recs
            BY <1>4, <2>4, <3>2
        <3> QED
            BY <1>2, <2>5, <3>1, <3>2
    <2> QED
        BY <1>1, <1>2, <1>10, <2>2, <2>5, BookStep
<1> QED
    BY <1>9, <1>10

\* PEEK sweeps as DEQUEUE does.
LEMMA BookPeek ==
    ASSUME TypeOK, BookInv, ClockInv, NEW w \in Workers, peek(w)
    PROVE  BookInv'
<1> DEFINE f == cmd[w].file
           q == table[f]
           time == cmd[w].at
           r == take_expired(f, q, time)
<1>1. f \in Files /\ q \in Tables /\ time \in Nat /\ now \in Nat
    BY BoundsAssumption DEF TypeOK, Cmds
<1>2. /\ table' = [table EXCEPT ![f] = r]
      /\ leases' = leases /\ now' = now /\ handEdits' = handEdits
    BY DEF peek
<1>3. /\ Orderly(q) => Orderly(r)
      /\ Complete(q) => Complete(r)
      /\ r.recs = q.recs \ DeadLetters(f, q, time)
      /\ \A j \in Keys : q.claims[j] # NoClaim /\ q.claims[j].expires > time =>
            r.claims[j] = q.claims[j] /\ j \notin DeadLetters(f, q, time)
    BY <1>1, TakeExpiredFacts
<1>4. time <= now
    BY DEF ClockInv
<1> HIDE DEF f, q, time, r
<1>5. CASE f # "Q"
    BY <1>1, <1>2, <1>5, BookStep
<1>6. CASE f = "Q"
    <2>1. q = table["Q"] /\ Orderly(q)
        BY <1>6 DEF BookInv, q
    <2>2. ASSUME NEW l \in leases', l.file = "Q", l.expires > now
          PROVE  /\ l.key \in r.recs
                 /\ r.claims[l.key] = [owner |-> l.owner, expires |-> l.expires]
        <3>1. /\ l.key \in Keys /\ l.key \in q.recs /\ l.expires \in Nat
              /\ l.key \in Claimed(q)
              /\ q.claims[l.key] = [owner |-> l.owner, expires |-> l.expires]
            BY <1>2, <2>1, <2>2, StandingFacts
        <3>2. q.claims[l.key] # NoClaim /\ q.claims[l.key].expires > time
            BY <1>1, <1>4, <2>2, <3>1 DEF Claimed
        <3> QED
            BY <1>3, <3>1, <3>2
    <2> QED
        BY <1>1, <1>2, <1>3, <1>6, <2>1, <2>2, BookStep
<1> QED
    BY <1>5, <1>6

\* ACK and NACK end the only delivery that can stand of their key: the owner
\* verify found is its consumer, so no other's delivery is disturbed.
LEMMA OthersStand ==
    ASSUME TypeOK, BookInv, NEW w \in Workers, NEW k, verify(table["Q"], k, w),
           NEW l \in leases \ GivenUp(w, "Q", k), l.file = "Q", l.expires > now
    PROVE  l.key # k
<1>1. table["Q"].claims[l.key].owner = l.owner
    <2>1. l \in leases
        OBVIOUS
    <2>2. table["Q"].claims[l.key] = [owner |-> l.owner, expires |-> l.expires]
        BY <2>1, StandingFacts
    <2> QED
        BY <2>2
<1>2. table["Q"].claims[k].owner = w
    BY DEF verify
<1> QED
    BY <1>1, <1>2 DEF GivenUp

\* ACK takes the claimed record out.
LEMMA BookAck ==
    ASSUME TypeOK, BookInv, NEW w \in Workers, ack(w)
    PROVE  BookInv'
<1> DEFINE f == cmd[w].file
           k == cmd[w].key
           r == Without(table[f], {k})
<1>1. f \in Files /\ table[f] \in Tables
    BY DEF TypeOK, Cmds
<1>2. table' = [table EXCEPT ![f] = r]
    BY DEF ack, Without
<1>3. /\ leases' = leases \ GivenUp(w, f, k) /\ now' = now /\ handEdits' = handEdits
      /\ verify(table[f], k, w)
    BY DEF ack
<1> HIDE DEF f, k
<1>4. k \in Keys
    BY <1>1, <1>3, VerifyFacts
<1>5. /\ Orderly(table[f]) => Orderly(r)
      /\ Complete(table[f]) => Complete(r)
      /\ r.recs = table[f].recs \ {k}
      /\ \A j \in Keys \ {k} : r.claims[j] = table[f].claims[j]
    BY <1>1, <1>4, WithoutFacts
<1> HIDE DEF r
<1>6. ASSUME f = "Q", NEW l \in leases', l.file = "Q", l.expires > now
      PROVE  /\ l.key \in r.recs
             /\ r.claims[l.key] = [owner |-> l.owner, expires |-> l.expires]
    <2>1. l \in leases /\ l.key # k
        BY <1>3, <1>6, OthersStand
    <2> QED
        BY <1>5, <1>6, <2>1, StandingFacts
<1>7. f = "Q" => Orderly(r) /\ (Complete(table["Q"]) => Complete(r))
    BY <1>5 DEF BookInv
<1>8. \A l \in leases' : l \in leases
    BY <1>3
<1> QED
    BY <1>1, <1>2, <1>3, <1>6, <1>7, <1>8, BookStep

\* NACK puts the claimed record back, or takes it out for a dead letter.
LEMMA BookNack ==
    ASSUME TypeOK, BookInv, NEW w \in Workers, nack_until(w)
    PROVE  BookInv'
<1> DEFINE f == cmd[w].file
           k == cmd[w].key
           q == table[f]
           dead == IF Spent(f, q, k) THEN {k} ELSE {}
           r == IF dead # {} THEN Without(q, dead) ELSE release_until(q, k, cmd[w].due)
<1>1. f \in Files /\ q \in Tables /\ cmd[w].due \in Due
    BY DEF TypeOK, Cmds
<1>2. table' = [table EXCEPT ![f] = r]
    BY DEF nack_until, Without
<1>3. /\ leases' = leases \ GivenUp(w, f, k) /\ now' = now /\ handEdits' = handEdits
      /\ verify(q, k, w)
    BY DEF nack_until
<1>4. dead \subseteq {k}
    OBVIOUS
<1>5. q = table[f]
    OBVIOUS
<1> HIDE DEF f, k, q, dead
<1>6. k \in Keys /\ k \in Claimed(q) /\ dead \in SUBSET Keys
    BY <1>1, <1>3, <1>4, VerifyFacts
<1>7. /\ Orderly(q) => Orderly(r)
      /\ Complete(q) => Complete(r)
      /\ q.recs \ {k} \subseteq r.recs
      /\ \A j \in Keys \ {k} : r.claims[j] = q.claims[j]
    <2>1. CASE dead # {}
        BY <1>1, <1>4, <1>6, <2>1, WithoutFacts
    <2>2. CASE dead = {}
        BY <1>1, <1>6, <2>2, ReleaseFacts
    <2> QED
        BY <2>1, <2>2
<1> HIDE DEF r
<1>8. ASSUME f = "Q", NEW l \in leases', l.file = "Q", l.expires > now
      PROVE  /\ l.key \in r.recs
             /\ r.claims[l.key] = [owner |-> l.owner, expires |-> l.expires]
    <2>1. l \in leases /\ l.key # k
        BY <1>3, <1>5, <1>8, OthersStand
    <2> QED
        BY <1>5, <1>7, <1>8, <2>1, StandingFacts
<1>9. f = "Q" => Orderly(r) /\ (Complete(table["Q"]) => Complete(r))
    BY <1>5, <1>7 DEF BookInv
<1>10. \A l \in leases' : l \in leases
    BY <1>3
<1> QED
    BY <1>1, <1>2, <1>3, <1>8, <1>9, <1>10, BookStep

\* A reconciliation keeps the claim of every record still there.
LEMMA BookQueueFile ==
    ASSUME TypeOK, BookInv, NEW w \in Workers, queue_file(w)
    PROVE  BookInv'
<1> DEFINE f == cmd[w].file
           r == reconcile(table[f])
<1>1. f \in Files /\ table[f] \in Tables
    BY DEF TypeOK, Cmds
<1>2. table' = [table EXCEPT ![f] = r]
    BY DEF queue_file
<1>3. leases' = leases /\ now' = now /\ handEdits' = handEdits
    BY DEF queue_file, historyVars
<1> HIDE DEF f
<1>4. /\ Orderly(table[f]) => Orderly(r) /\ Complete(r)
      /\ r.recs = table[f].recs
      /\ \A k \in table[f].recs : r.claims[k] = table[f].claims[k]
    BY <1>1, ReconcileFacts
<1> HIDE DEF r
<1>5. ASSUME f = "Q", NEW l \in leases', l.file = "Q", l.expires > now
      PROVE  /\ l.key \in r.recs
             /\ r.claims[l.key] = [owner |-> l.owner, expires |-> l.expires]
    BY <1>3, <1>4, <1>5, StandingFacts
<1>6. f = "Q" => Orderly(r) /\ Complete(r)
    BY <1>4 DEF BookInv
<1> QED
    BY <1>1, <1>2, <1>3, <1>5, <1>6, BookStep

\* A hand edit changes no claim, and a delivery of a deleted record ends.
LEMMA BookHandEdits ==
    ASSUME TypeOK, BookInv, NEW w \in Workers, NEW f \in Files, NEW k \in Keys,
           HandWrite(w, f, k) \/ HandDelete(w, f, k)
    PROVE  BookInv'
<1>1. handEdits' # 0 /\ now' = now
    <2>1. HandEdit(w, "WRITE", f, k) \/ HandEdit(w, "DELETE", f, k)
        BY DEF HandWrite, HandDelete
    <2>2. handEdits' # 0
        BY <2>1, HandEditFacts
    <2> QED
        BY <2>2 DEF HandWrite, HandDelete
<1>2. /\ table'["Q"].claims = table["Q"].claims /\ table'["Q"].avail = table["Q"].avail
      /\ table'["Q"].held = table["Q"].held /\ table'["Q"].next = table["Q"].next
    BY DEF HandWrite, HandDelete, TypeOK, Files, Tables
<1>3. Orderly(table["Q"])'
    BY <1>2 DEF BookInv, Orderly, Claimed
<1>4. LeaseInv'
    <2> SUFFICES ASSUME NEW l \in leases', l.file = "Q", l.expires > now'
                 PROVE  /\ l.key \in table'["Q"].recs
                        /\ table'["Q"].claims[l.key] = [owner |-> l.owner, expires |-> l.expires]
        BY DEF LeaseInv
    <2>1. l \in leases
        BY DEF HandWrite, HandDelete
    <2>2. /\ l.key \in table["Q"].recs
          /\ table["Q"].claims[l.key] = [owner |-> l.owner, expires |-> l.expires]
        BY <1>1, <2>1, StandingFacts
    <2>3. CASE HandWrite(w, f, k)
        <3>1. table["Q"].recs \subseteq table'["Q"].recs
            BY <2>3 DEF HandWrite, TypeOK, Files, Tables
        <3> QED
            BY <1>2, <2>2, <3>1
    <2>4. CASE HandDelete(w, f, k)
        <3>1. l.file # f \/ l.key # k
            BY <2>4 DEF HandDelete
        <3>2. l.key \in table'["Q"].recs
            BY <2>2, <2>4, <3>1 DEF HandDelete, TypeOK, Files, Tables
        <3> QED
            BY <1>2, <2>2, <3>2
    <2> QED
        BY <2>3, <2>4
<1> QED
    BY <1>1, <1>3, <1>4 DEF BookInv

\* After a restart the book is the one attach builds and no delivery stands.
LEMMA BookCrash ==
    ASSUME TypeOK, NEW torn \in SUBSET Files, Crash(torn)
    PROVE  BookInv'
<1>1. "Q" \in Files /\ diskRecs'["Q"] \in SUBSET Keys /\ diskBook["Q"] \in Books
    BY DEF Files, Crash, TornFlush, TypeOK, Tables
<1>2. table'["Q"] = attach(diskRecs'["Q"], diskBook["Q"]) /\ leases' = {}
    BY <1>1 DEF Crash
<1>3. Orderly(table'["Q"]) /\ Complete(table'["Q"])
    BY <1>1, <1>2, AttachFacts
<1> QED
    BY <1>2, <1>3 DEF BookInv, LeaseInv

\* The other steps leave Q's table and its deliveries alone.
LEMMA BookOthers ==
    ASSUME TypeOK, BookInv, NEW w \in Workers,
           \/ bury(w) \/ tidy(w) \/ insert(w) \/ Refused(w)
           \/ \E f \in Files : flush_handle(w, f)
           \/ \E torn \in SUBSET Files : Fail(w, torn)
           \/ \E op, f, k, due : Begin(w, op, f, k, due)
    PROVE  BookInv'
<1>1. leases' = leases /\ now' = now /\ handEdits' = handEdits
    BY DEF bury, tidy, insert, Refused, flush_handle, Fail, Begin, historyVars
<1>2. table'["Q"] = table["Q"]
    BY DEF bury, tidy, insert, Refused, flush_handle, Fail, Begin, TypeOK, Files
<1> QED
    BY <1>1, <1>2, BookKept

\* Deliveries lapse as the clock moves and are not made by it.
LEMMA BookTick ==
    ASSUME TypeOK, BookInv, Tick
    PROVE  BookInv'
<1>1. table' = table /\ leases' = leases /\ now' = now + 1 /\ handEdits' = handEdits
    BY DEF Tick, historyVars
<1>2. \A l \in leases : l.expires > now + 1 => l.expires > now
    BY TimesAssumption, BoundsAssumption DEF TypeOK, Deliveries
<1> QED
    BY <1>1, <1>2 DEF BookInv, LeaseInv

\* The parts of the invariant that speak of the commands under way.
CommandInv == ClockInv /\ KeyInv

\* A command that ends or moves on keeps them.
LEMMA CommandMoves ==
    ASSUME TypeOK, CommandInv, NEW w \in Workers, now' = now,
           \A v \in Workers \ {w} : cmd'[v] = cmd[v] /\ pc'[v] = pc[v],
           cmd'[w].at <= cmd[w].at \/ cmd'[w].at = now,
           \/ cmd'[w].op \notin {"ENQUEUE", "ACK", "NACK"}
           \/ pc'[w] \in {"idle", "reconcile", "act"}
           \/ cmd'[w].key \in Keys,
           cmd'[w].at \in Int
    PROVE  CommandInv'
<1>1. \A v \in Workers : cmd[v].at \in Nat /\ now \in Nat
    BY BoundsAssumption DEF TypeOK, Cmds
<1>2. ASSUME NEW v \in Workers
      PROVE  cmd'[v].at <= now'
    <2>1. CASE v = w
        BY <1>1, <2>1 DEF CommandInv, ClockInv
    <2>2. CASE v # w
        BY <1>1, <2>2 DEF CommandInv, ClockInv
    <2> QED
        BY <2>1, <2>2
<1>3. ASSUME NEW v \in Workers, cmd'[v].op \in {"ENQUEUE", "ACK", "NACK"},
             pc'[v] \notin {"idle", "reconcile", "act"}
      PROVE  cmd'[v].key \in Keys
    BY <1>3 DEF CommandInv, KeyInv
<1> QED
    BY <1>2, <1>3 DEF CommandInv, ClockInv, KeyInv

\* Where Goto, End and Acted leave the worker, and that they leave the others.
LEMMA Moves ==
    ASSUME TypeOK, NEW w \in Workers
    PROVE  /\ \A label : Goto(w, label) =>
                pc'[w] = label /\ \A v \in Workers \ {w} : pc'[v] = pc[v]
           /\ End(w) => /\ pc'[w] = "idle" /\ cmd'[w].at = 0
                        /\ \A v \in Workers \ {w} : cmd'[v] = cmd[v] /\ pc'[v] = pc[v]
           /\ \A k, due : Acted(w, k, due) =>
                /\ cmd'[w].op = cmd[w].op /\ cmd'[w].file = cmd[w].file
                /\ cmd'[w].key = k /\ cmd'[w].due = due /\ cmd'[w].at = 0
                /\ \A v \in Workers \ {w} : cmd'[v] = cmd[v]
<1>1. pc \in [Workers -> Labels] /\ cmd \in [Workers -> Cmds] /\ cmd[w] \in Cmds
    BY DEF TypeOK
<1>2. \A label : Goto(w, label) =>
        pc'[w] = label /\ \A v \in Workers \ {w} : pc'[v] = pc[v]
    BY <1>1 DEF Goto
<1>3. ASSUME End(w)
      PROVE  /\ pc'[w] = "idle" /\ cmd'[w].at = 0
             /\ \A v \in Workers \ {w} : cmd'[v] = cmd[v] /\ pc'[v] = pc[v]
    BY <1>1, <1>2, <1>3 DEF End, NoCmd
<1>4. ASSUME NEW k, NEW due, Acted(w, k, due)
      PROVE  /\ cmd'[w].op = cmd[w].op /\ cmd'[w].file = cmd[w].file
             /\ cmd'[w].key = k /\ cmd'[w].due = due /\ cmd'[w].at = 0
             /\ \A v \in Workers \ {w} : cmd'[v] = cmd[v]
    BY <1>1, <1>4 DEF Acted, Cmds
<1> QED
    BY <1>2, <1>3, <1>4

\* A step of a worker keeps what the invariant says of commands under way.
LEMMA CommandStep ==
    ASSUME TypeOK, CommandInv, NEW w \in Workers,
           \/ \E op, f, k, due : Begin(w, op, f, k, due)
           \/ queue_file(w) \/ enqueue_due(w) \/ dequeue(w) \/ peek(w)
           \/ Refused(w) \/ ack(w) \/ nack_until(w)
           \/ bury(w) \/ tidy(w) \/ insert(w)
           \/ \E f \in Files : flush_handle(w, f)
           \/ \E torn \in SUBSET Files : Fail(w, torn)
           \/ \E f \in Files, k \in Keys : HandWrite(w, f, k) \/ HandDelete(w, f, k)
    PROVE  CommandInv'
<1>0. /\ cmd \in [Workers -> Cmds] /\ cmd[w] \in Cmds /\ cmd[w].at \in Nat /\ 0 <= cmd[w].at
      /\ now \in Nat
    BY BoundsAssumption DEF TypeOK, Cmds
<1>1. ASSUME NEW op, NEW f, NEW k, NEW due, Begin(w, op, f, k, due)
      PROVE  CommandInv'
    <2>1. /\ cmd'[w].at \in {now, 0} /\ now' = now
          /\ \A v \in Workers \ {w} : cmd'[v] = cmd[v]
        BY <1>0, <1>1 DEF Begin
    <2>2. pc'[w] \in {"act", "reconcile"} /\ \A v \in Workers \ {w} : pc'[v] = pc[v]
        BY <1>1, Moves DEF Begin
    <2> QED
        BY <1>0, <2>1, <2>2, CommandMoves
<1>2. CASE queue_file(w)
    <2>1. /\ cmd'[w].at \in {now, 0} /\ now' = now
          /\ \A v \in Workers \ {w} : cmd'[v] = cmd[v]
        BY <1>0, <1>2 DEF queue_file, Cmds
    <2>2. pc'[w] = "act" /\ \A v \in Workers \ {w} : pc'[v] = pc[v]
        BY <1>2, Moves DEF queue_file
    <2> QED
        BY <1>0, <2>1, <2>2, CommandMoves
<1>3. ASSUME NEW k, NEW due, NEW label, Acted(w, k, due), Goto(w, label), now' = now,
             cmd[w].op \notin {"ENQUEUE", "ACK", "NACK"} \/ k \in Keys
      PROVE  CommandInv'
    <2>1. /\ cmd'[w].op = cmd[w].op /\ cmd'[w].key = k /\ cmd'[w].at = 0
          /\ \A v \in Workers \ {w} : cmd'[v] = cmd[v] /\ pc'[v] = pc[v]
        BY <1>3, Moves
    <2> QED
        BY <1>0, <1>3, <2>1, CommandMoves
<1>4. ASSUME End(w), now' = now
      PROVE  CommandInv'
    <2>1. /\ cmd'[w].at = 0 /\ pc'[w] = "idle"
          /\ \A v \in Workers \ {w} : cmd'[v] = cmd[v] /\ pc'[v] = pc[v]
        BY <1>4, Moves
    <2> QED
        BY <1>0, <1>4, <2>1, CommandMoves
<1>5. ASSUME UNCHANGED <<cmd, now>>, \A v \in Workers \ {w} : pc'[v] = pc[v],
             pc[w] \notin {"idle", "reconcile", "act"}
      PROVE  CommandInv'
    BY <1>0, <1>5, CommandMoves DEF CommandInv, KeyInv
<1>6. CASE enqueue_due(w)
    <2>1. mint(table[cmd[w].file], now) \in Keys
        <3>1. table[cmd[w].file] \in Tables
            BY <1>0 DEF TypeOK, Cmds
        <3> QED
            BY <1>0, <1>6, <3>1, MintFacts, BoundsAssumption DEF enqueue_due, Keys
    <2> QED
        BY <1>3, <1>6, <2>1 DEF enqueue_due
<1>7. CASE dequeue(w)
    BY <1>3, <1>4, <1>7 DEF dequeue, Acting
<1>8. CASE peek(w)
    BY <1>3, <1>4, <1>8 DEF peek, Acting
<1>9. CASE Refused(w)
    BY <1>4, <1>9 DEF Refused
<1>10. CASE ack(w)
    <2>1. table[cmd[w].file] \in Tables /\ verify(table[cmd[w].file], cmd[w].key, w)
        BY <1>0, <1>10 DEF TypeOK, Cmds, ack
    <2>2. cmd[w].key \in Keys
        BY <2>1, VerifyFacts
    <2> QED
        BY <1>3, <1>10, <2>2 DEF ack
<1>11. CASE nack_until(w)
    <2>1. table[cmd[w].file] \in Tables /\ verify(table[cmd[w].file], cmd[w].key, w)
        BY <1>0, <1>11 DEF TypeOK, Cmds, nack_until
    <2>2. cmd[w].key \in Keys
        BY <2>1, VerifyFacts
    <2> QED
        BY <1>3, <1>11, <2>2 DEF nack_until
<1>12. CASE bury(w) \/ tidy(w) \/ insert(w)
    BY <1>5, <1>12, Moves DEF bury, tidy, insert
<1>13. ASSUME NEW f \in Files, flush_handle(w, f)
       PROVE  CommandInv'
    <2>1. pc[w] \notin {"idle", "reconcile", "act"} /\ now' = now
        BY <1>13 DEF flush_handle, Saving, SaveLabels
    <2>2. \/ UNCHANGED <<pc, cmd>>
          \/ End(w)
          \/ Goto(w, AfterSave(w)) /\ UNCHANGED cmd
        BY <1>13 DEF flush_handle
    <2> QED
        BY <1>4, <1>5, <2>1, <2>2, Moves
<1>14. ASSUME NEW torn \in SUBSET Files, Fail(w, torn)
       PROVE  CommandInv'
    BY <1>4, <1>14 DEF Fail
<1>15. ASSUME NEW f \in Files, NEW k \in Keys, HandWrite(w, f, k) \/ HandDelete(w, f, k)
       PROVE  CommandInv'
    <2>1. PICK op \in {"WRITE", "DELETE"} : HandEdit(w, op, f, k)
        BY <1>15 DEF HandWrite, HandDelete
    <2>2. /\ cmd'[w].op = op /\ cmd'[w].at = cmd[w].at
          /\ \A v \in Workers \ {w} : cmd'[v] = cmd[v]
        BY <1>0, <2>1 DEF HandEdit, Cmds
    <2>3. now' = now /\ \A v \in Workers \ {w} : pc'[v] = pc[v]
        BY <1>15, <2>1, Moves DEF HandEdit, HandWrite, HandDelete
    <2> QED
        BY <1>0, <2>2, <2>3, CommandMoves
<1> QED
    BY <1>1, <1>2, <1>6, <1>7, <1>8, <1>9, <1>10, <1>11, <1>12, <1>13, <1>14, <1>15

\* The initial state: an empty queue, nobody at work.
LEMMA InvInit == Init => IInv
<1> SUFFICES ASSUME Init
             PROVE  IInv
    OBVIOUS
<1>1. TypeOK
    BY TypeInit
<1>2. table["Q"] = attach({}, diskBook["Q"]) /\ diskBook["Q"] \in Books
    BY <1>1 DEF Init, Files, TypeOK
<1>3. Orderly(table["Q"]) /\ Complete(table["Q"])
    BY <1>2, AttachFacts
<1>4. ClockInv /\ KeyInv /\ LeaseInv
    BY DEF Init, ClockInv, KeyInv, LeaseInv, NoCmd
<1> QED
    BY <1>1, <1>3, <1>4 DEF IInv

\* Every step preserves the invariant.
LEMMA InvStep == IInv /\ [Next]_vars => IInv'
<1> SUFFICES ASSUME IInv, [Next]_vars
             PROVE  IInv'
    OBVIOUS
<1>1. TypeOK /\ KeyInv /\ ClockInv /\ BookInv /\ CommandInv
    BY DEF IInv, BookInv, CommandInv
<1>2. SUFFICES TypeOK' /\ BookInv' /\ CommandInv'
    BY DEF IInv, BookInv, CommandInv
<1>3. CASE UNCHANGED vars
    BY <1>1, <1>3 DEF vars, diskVars, workerVars, historyVars, TypeOK, BookInv, CommandInv,
                      ClockInv, KeyInv, LeaseInv
<1>4. CASE Tick
    <2>1. CommandInv'
        <3>1. cmd' = cmd /\ pc' = pc /\ now' = now + 1
            BY <1>4 DEF Tick, workerVars
        <3>2. now \in Nat /\ \A v \in Workers : cmd[v].at \in Nat
            BY <1>1, BoundsAssumption DEF TypeOK, Cmds
        <3> QED
            BY <1>1, <3>1, <3>2 DEF CommandInv, ClockInv, KeyInv
    <2> QED
        BY <1>1, <1>4, <2>1, TypeTick, BookTick
<1>5. ASSUME NEW w \in Workers, NEW op, NEW f \in Files, NEW k \in Keys \cup {NoKey},
             NEW due \in Due, op = "ENQUEUE" => enqueues < MaxEnqueues,
             Begin(w, op, f, k, due)
      PROVE  TypeOK' /\ BookInv' /\ CommandInv'
    <2>1. TypeOK'
        BY <1>1, <1>5, TypeBegin
    <2> QED
        BY <1>1, <1>5, <2>1, BookOthers, CommandStep
<1>6. ASSUME NEW w \in Workers, NEW f \in Files,
             \/ \E due \in {NoTime, now + Delay} :
                   \/ enqueues < MaxEnqueues /\ Begin(w, "ENQUEUE", f, NoKey, due)
                   \/ \E k \in table[f].recs : Begin(w, "NACK", f, k, due)
             \/ \E op \in {"DEQUEUE", "PEEK"} : Begin(w, op, f, NoKey, NoTime)
             \/ \E k \in table[f].recs : Begin(w, "ACK", f, k, NoTime)
      PROVE  TypeOK' /\ BookInv' /\ CommandInv'
    <2>1. {NoTime, now + Delay} \subseteq Due
        BY <1>1, DueFacts DEF TypeOK
    <2>2. table[f].recs \subseteq Keys
        BY <1>1 DEF TypeOK, Tables
    <2> QED
        BY <1>5, <1>6, <2>1, <2>2
<1>7. ASSUME NEW w \in Workers, queue_file(w) \/ enqueue_due(w) \/ dequeue(w) \/ peek(w)
      PROVE  TypeOK' /\ BookInv' /\ CommandInv'
    BY <1>1, <1>7, CommandStep, TypeQueueFile, TypeEnqueue, TypeDequeue, TypePeek,
       BookQueueFile, BookEnqueue, BookDequeue, BookPeek
<1>8. ASSUME NEW w \in Workers, Refused(w) \/ ack(w) \/ nack_until(w)
      PROVE  TypeOK' /\ BookInv' /\ CommandInv'
    BY <1>1, <1>8, CommandStep, TypeRefused, TypeAck, TypeNack, BookOthers, BookAck, BookNack
<1>9. ASSUME NEW w \in Workers, bury(w) \/ tidy(w) \/ insert(w)
      PROVE  TypeOK' /\ BookInv' /\ CommandInv'
    BY <1>1, <1>9, CommandStep, TypeBury, BookOthers
<1>10. ASSUME NEW w \in Workers, NEW f \in Files, flush_handle(w, f)
       PROVE  TypeOK' /\ BookInv' /\ CommandInv'
    BY <1>1, <1>10, CommandStep, TypeFlush, BookOthers
<1>11. ASSUME NEW w \in Workers, NEW torn \in SUBSET Files, Fail(w, torn)
       PROVE  TypeOK' /\ BookInv' /\ CommandInv'
    BY <1>1, <1>11, CommandStep, TypeFail, BookOthers
<1>12. ASSUME NEW w \in Workers, NEW f \in Files, NEW k \in Keys,
              HandWrite(w, f, k) \/ HandDelete(w, f, k)
       PROVE  TypeOK' /\ BookInv' /\ CommandInv'
    BY <1>1, <1>12, CommandStep, TypeHandEdits, BookHandEdits
<1>13. ASSUME NEW torn \in SUBSET Files, Crash(torn)
       PROVE  TypeOK' /\ BookInv' /\ CommandInv'
    <2>1. CommandInv'
        <3>1. cmd' = [w \in Workers |-> NoCmd] /\ now' = now /\ pc' = [w \in Workers |-> "idle"]
            BY <1>13 DEF Crash
        <3>2. NoCmd.at <= now
            BY <1>1, BoundsAssumption DEF TypeOK, NoCmd
        <3> QED
            BY <3>1, <3>2 DEF CommandInv, ClockInv, KeyInv
    <2> QED
        BY <1>1, <1>13, <2>1, TypeCrash, BookCrash
<1>14. CASE Next
    BY <1>4, <1>6, <1>7, <1>8, <1>9, <1>10, <1>11, <1>12, <1>13, <1>14 DEF Next
<1> QED
    BY <1>3, <1>14

\* The inductive invariant holds in every reachable state.
THEOREM InvHolds == Spec => []IInv
BY InvInit, InvStep, PTL DEF Spec

\* Every variable of the queue holds a value of its kind.
THEOREM TypeCorrect == Spec => []TypeOK
<1>1. IInv => TypeOK
    BY DEF IInv
<1> QED
    BY <1>1, InvHolds, PTL

\* No command, sweep, crash or failed flush strands a record of the queue
\* outside its order or counts one twice (QueueState and engine/queue.rs).
THEOREM LedgerBalanced == Spec => []Balanced
<1>1. IInv => Balanced
    BY DEF IInv, Balanced, Ledger, Orderly, Complete
<1> QED
    BY <1>1, InvHolds, PTL

\* Two consumers never hold deliveries of one record that both stand, for any
\* number of consumers and any visibility, hand edits included (dequeue).
THEOREM Exclusion == Spec => []ExclusiveClaims
<1>1. IInv => ExclusiveClaims
    <2> SUFFICES ASSUME IInv, NEW l \in leases, NEW m \in leases, l.file = "Q", m.file = "Q",
                        l.key = m.key, l.expires > now, m.expires > now
                 PROVE  l.owner = m.owner
        BY DEF ExclusiveClaims, Exclusive
    <2>1. /\ table["Q"].claims[l.key] = [owner |-> l.owner, expires |-> l.expires]
          /\ table["Q"].claims[m.key] = [owner |-> m.owner, expires |-> m.expires]
        BY DEF IInv, LeaseInv
    <2>2. [owner |-> l.owner, expires |-> l.expires].owner
            = [owner |-> m.owner, expires |-> m.expires].owner
        BY <2>1
    <2> QED
        BY <2>2
<1> QED
    BY <1>1, InvHolds, PTL

-----------------------------------------------------------------------------
(***************************************************************************)
(* What a command may do to a table besides: the counter never falls, a    *)
(* record that appears was minted, one held back stays so until it is due  *)
(* at the sweep's clock, and no delivery goes past the limit.              *)
(***************************************************************************)

Steady(q, r, time) ==
    /\ q.next <= r.next
    /\ \A k \in r.recs \ q.recs : q.next <= k /\ k < r.next
    /\ \A k \in q.held : (k \in r.held /\ r.due[k] = q.due[k]) \/ q.due[k] <= time

\* No more than n deliveries of any key, and fewer of one nobody has claimed.
Limited(q, n) ==
    \A k \in Keys : q.dels[k] <= n /\ (k \notin Claimed(q) => q.dels[k] < n)

\* ENQUEUE: the minted key is past every other.
LEMMA EnqueuedSteady ==
    ASSUME NEW q \in Tables, NEW k \in Keys, q.next <= k, NEW due \in Due, Orderly(q),
           NEW time
    PROVE  /\ Steady(q, Enqueued(q, k, due), time)
           /\ \A n : Limited(q, n) => Limited(Enqueued(q, k, due), n)
           /\ k \in Enqueued(q, k, due).recs
           /\ due # NoTime => /\ k \in Enqueued(q, k, due).held
                              /\ Enqueued(q, k, due).due[k] = due
<1> DEFINE r == Enqueued(q, k, due)
<1>1. /\ r.recs = q.recs \cup {k} /\ r.next = k + 1 /\ r.dels = q.dels
      /\ r.held = IF due = NoTime THEN q.held \ {k} ELSE q.held \cup {k}
      /\ r.due = IF due = NoTime THEN q.due ELSE [q.due EXCEPT ![k] = due]
    BY DEF Enqueued, enqueue, enqueue_held, Tables
<1>2. r.claims = q.claims
    BY EnqueuedFacts
<1>3. k \in Nat /\ q.next \in Nat /\ q.held \subseteq Keys /\ q.due \in [Keys -> Due]
    BY BoundsAssumption DEF Keys, Tables
<1>4. k \notin q.held
    BY <1>3 DEF Orderly
<1> HIDE DEF r
<1>5. Steady(q, r, time)
    BY <1>1, <1>3, <1>4 DEF Steady
<1>6. \A n : Limited(q, n) => Limited(r, n)
    BY <1>1, <1>2 DEF Limited, Claimed
<1>7. due # NoTime => k \in r.held /\ r.due[k] = due
    BY <1>1, <1>3
<1> QED
    BY <1>1, <1>5, <1>6, <1>7 DEF r

\* Records nobody holds back may go.
LEMMA WithoutSteady ==
    ASSUME NEW q \in Tables, NEW ks \in SUBSET Keys, q.held \cap ks = {}, NEW time
    PROVE  /\ Steady(q, Without(q, ks), time)
           /\ \A n \in Nat \ {0} : Limited(q, n) => Limited(Without(q, ks), n)
           /\ Without(q, ks).next = q.next
<1> DEFINE r == Without(q, ks)
<1>1. /\ r.recs = q.recs \ ks /\ r.held = q.held \ ks /\ r.next = q.next
      /\ r.claims = [k \in Keys |-> IF k \in ks THEN NoClaim ELSE q.claims[k]]
      /\ r.dels = [k \in Keys |-> IF k \in ks THEN 0 ELSE q.dels[k]]
      /\ r.due = [k \in Keys |-> IF k \in ks THEN NoTime ELSE q.due[k]]
    BY DEF Without, forget, Tables
<1>2. q.next \in Nat /\ q.held \subseteq Keys
    BY DEF Tables
<1> HIDE DEF r
<1>3. Steady(q, r, time)
    BY <1>1, <1>2 DEF Steady
<1>4. ASSUME NEW n \in Nat \ {0}, Limited(q, n)
      PROVE  Limited(r, n)
    BY <1>1, <1>4 DEF Limited, Claimed
<1> QED
    BY <1>1, <1>3, <1>4 DEF r

\* A sweep of Q: what it returns to the order has deliveries left, and what it
\* releases is due at its clock.
LEMMA SweepSteady ==
    ASSUME NEW q \in Tables, NEW time \in Nat, Orderly(q)
    PROVE  LET r == take_expired("Q", q, time)
           IN /\ Steady(q, r, time)
              /\ \A n \in Nat : MaxDeliveries <= n /\ Limited(q, n) => Limited(r, n)
<1> DEFINE lapsed == Lapsed(q, time)
           due == DueBy(q, time)
           dead == DeadLetters("Q", q, time)
           swept == [q EXCEPT
                       !.avail = @ \cup due \cup (lapsed \ dead),
                       !.held = @ \ due,
                       !.claims = [k \in Keys |-> IF k \in lapsed THEN NoClaim ELSE @[k]]]
           r == take_expired("Q", q, time)
<1>1. r = Without(swept, dead)
    BY DEF take_expired, Without
<1>2. /\ lapsed \subseteq Claimed(q) /\ due \subseteq q.held /\ dead \subseteq lapsed
      /\ \A k \in lapsed \ dead : q.dels[k] < MaxDeliveries
      /\ \A k \in due : q.due[k] <= time
    <2>1. \A k \in Keys : q.dels[k] \in Nat
        BY DEF Tables
    <2>2. \A k \in lapsed \ dead : q.dels[k] < MaxDeliveries
        BY <2>1, LimitAssumption DEF DeadLetters, Lapsed, Claimed, Spent
    <2> QED
        BY <2>2 DEF Lapsed, DueBy, DeadLetters
<1>3. Claimed(q) \subseteq Keys /\ q.held \subseteq Keys
    BY DEF Claimed, Tables
<1> HIDE DEF lapsed, due, dead
<1>4. swept \in Tables
    BY <1>2, <1>3 DEF Tables
<1>5. /\ swept.recs = q.recs /\ swept.next = q.next /\ swept.held = q.held \ due
      /\ swept.claims = [k \in Keys |-> IF k \in lapsed THEN NoClaim ELSE q.claims[k]]
      /\ swept.dels = q.dels /\ swept.due = q.due
    BY DEF Tables
<1> HIDE DEF swept, r
<1>6. swept.held \cap dead = {}
    BY <1>2, <1>5 DEF Orderly
<1>7. Steady(swept, r, time) /\ \A n \in Nat \ {0} : Limited(swept, n) => Limited(r, n)
    BY <1>1, <1>2, <1>3, <1>4, <1>6, WithoutSteady
<1>8. Steady(q, r, time)
    BY <1>2, <1>5, <1>7 DEF Steady
<1>9. ASSUME NEW n \in Nat, MaxDeliveries <= n, Limited(q, n)
      PROVE  Limited(r, n)
    <2>1. n # 0
        BY <1>9, LimitAssumption
    <2>2. \A k \in Keys : q.dels[k] \in Nat
        BY DEF Tables
    <2>3. \A k \in Keys : k \notin Claimed(swept) => k \notin Claimed(q) \/ k \in lapsed
        BY <1>5 DEF Claimed
    <2>3a. \A k \in dead : k \in Keys
        BY <1>2, <1>3
    <2>4. ASSUME NEW k \in Keys
          PROVE  r.dels[k] <= n /\ (k \notin Claimed(r) => r.dels[k] < n)
        <3>1. CASE k \in dead
            <4>1. r.dels[k] = 0
                BY <1>1, <1>4, <3>1 DEF Without, forget, Tables
            <4> QED
                BY <2>1, <4>1
        <3>2. CASE k \notin dead
            <4>1. r.dels[k] = q.dels[k] /\ (k \in Claimed(swept) => k \in Claimed(r))
                BY <1>1, <1>4, <1>5, <3>2 DEF Without, forget, Tables, Claimed
            <4>2. k \in lapsed => q.dels[k] < n
                BY <1>2, <1>9, <2>2, <3>2, LimitAssumption
            <4> QED
                BY <1>9, <2>3, <4>1, <4>2 DEF Limited
        <3> QED
            BY <3>1, <3>2
    <2> QED
        BY <2>4 DEF Limited
<1> QED
    BY <1>8, <1>9 DEF r

\* A claim of a waiting key is one delivery more, of one that had one left.
LEMMA ClaimSteady ==
    ASSUME NEW q \in Tables, NEW k \in q.avail, NEW w \in Workers, NEW time \in 0..MaxNow,
           Orderly(q)
    PROVE  LET r == claim(q, k, w, time)
           IN /\ r.recs = q.recs /\ r.held = q.held /\ r.due = q.due /\ r.next = q.next
              /\ \A n \in Nat : Limited(q, n) => Limited(r, n)
<1> DEFINE r == claim(q, k, w, time)
           c == [owner |-> w, expires |-> time + Visibility]
<1>1. k \in Keys /\ k \notin Claimed(q) /\ \A j \in Keys : q.dels[j] \in Nat
    BY DEF Tables, Orderly
<1>2. c # NoClaim
    BY WorkersAssumption DEF NoClaim
<1> HIDE DEF c
<1>3. /\ r.recs = q.recs /\ r.held = q.held /\ r.due = q.due /\ r.next = q.next
      /\ r.claims = [q.claims EXCEPT ![k] = c] /\ r.dels = [q.dels EXCEPT ![k] = @ + 1]
    BY DEF claim, Tables, c
<1> HIDE DEF r
<1>4. /\ r.claims[k] = c /\ r.dels[k] = q.dels[k] + 1
      /\ \A j \in Keys \ {k} : r.claims[j] = q.claims[j] /\ r.dels[j] = q.dels[j]
    BY <1>1, <1>3 DEF Tables
<1>5. ASSUME NEW n \in Nat, Limited(q, n)
      PROVE  Limited(r, n)
    BY <1>1, <1>2, <1>4, <1>5 DEF Limited, Claimed
<1> QED
    BY <1>3, <1>5 DEF r

\* A release of a claimed key that has deliveries left.
LEMMA ReleaseSteady ==
    ASSUME NEW q \in Tables, NEW k \in Claimed(q), NEW due \in Due, Orderly(q), NEW time
    PROVE  LET r == release_until(q, k, due)
           IN /\ Steady(q, r, time)
              /\ \A n \in Nat : q.dels[k] < n /\ Limited(q, n) => Limited(r, n)
              /\ due # NoTime => k \in r.held /\ r.due[k] = due
<1> DEFINE r == release_until(q, k, due)
<1>1. k \in Keys /\ k \notin q.held /\ q.held \subseteq Keys /\ q.next \in Nat
    BY DEF Claimed, Orderly, Tables
<1>2. /\ r.recs = q.recs /\ r.next = q.next /\ r.dels = q.dels
      /\ r.held = IF due = NoTime THEN q.held ELSE q.held \cup {k}
      /\ r.due = [q.due EXCEPT ![k] = IF due = NoTime THEN q.due[k] ELSE due]
      /\ r.claims = [q.claims EXCEPT ![k] = NoClaim]
    BY <1>1 DEF release_until, Tables
<1> HIDE DEF r
<1>3. Steady(q, r, time)
    BY <1>1, <1>2 DEF Steady, Tables
<1>4. ASSUME NEW n \in Nat, q.dels[k] < n, Limited(q, n)
      PROVE  Limited(r, n)
    BY <1>1, <1>2, <1>4 DEF Limited, Claimed, Tables
<1>5. due # NoTime => k \in r.held /\ r.due[k] = due
    BY <1>1, <1>2 DEF Tables
<1> QED
    BY <1>3, <1>4, <1>5 DEF r

\* A reconciliation of a book that was in order.
LEMMA ReconcileSteady ==
    ASSUME NEW q \in Tables, NEW time
    PROVE  LET r == reconcile(q)
           IN /\ Complete(q) => Steady(q, r, time)
              /\ \A n \in Nat \ {0} : Limited(q, n) => Limited(r, n)
<1> DEFINE gone == Keys \ q.recs
           kept == [q EXCEPT
                      !.held = @ \ gone,
                      !.due = [k \in Keys |-> IF k \in gone THEN NoTime ELSE @[k]],
                      !.claims = [k \in Keys |-> IF k \in gone THEN NoClaim ELSE @[k]],
                      !.dels = [k \in Keys |-> IF k \in gone THEN 0 ELSE @[k]]]
           n0 == raise_past(q.next, q.recs)
           r == reconcile(q)
<1>1. n0 \in Nat /\ q.next <= n0
    BY RaisePastFacts DEF Tables
<1>2. r = [kept EXCEPT !.avail = q.recs \ (Claimed(kept) \cup kept.held), !.next = n0]
    BY DEF reconcile
<1> HIDE DEF n0
<1>3. /\ kept \in Tables /\ kept.recs = q.recs /\ kept.held = q.held \ gone
      /\ kept.claims = [k \in Keys |-> IF k \in gone THEN NoClaim ELSE q.claims[k]]
      /\ kept.dels = [k \in Keys |-> IF k \in gone THEN 0 ELSE q.dels[k]]
      /\ kept.due = [k \in Keys |-> IF k \in gone THEN NoTime ELSE q.due[k]]
    <2>1. kept \in Tables
        BY DEF Tables, Due
    <2> QED
        BY <2>1 DEF Tables
<1> HIDE DEF kept
<1>4. /\ r.recs = q.recs /\ r.held = kept.held /\ r.next = n0
      /\ r.claims = kept.claims /\ r.dels = kept.dels /\ r.due = kept.due
    BY <1>2, <1>3 DEF Tables
<1> HIDE DEF r
<1>5. ASSUME Complete(q)
      PROVE  Steady(q, r, time)
    <2>1. q.held \subseteq q.recs /\ q.recs \subseteq Keys
        BY <1>5 DEF Complete, Tables
    <2> QED
        BY <1>1, <1>3, <1>4, <2>1 DEF Steady
<1>6. ASSUME NEW n \in Nat \ {0}, Limited(q, n)
      PROVE  Limited(r, n)
    BY <1>3, <1>4, <1>6 DEF Limited, Claimed
<1> QED
    BY <1>5, <1>6 DEF r

\* attach puts every due time it reads back in force and lowers no counter.
LEMMA AttachSteady ==
    ASSUME NEW recs \in SUBSET Keys, NEW book \in Books
    PROVE  LET r == attach(recs, book)
           IN /\ book.next <= r.next
              /\ \A k \in recs : book.due[k] # NoTime =>
                    k \in r.held /\ r.due[k] = book.due[k]
              /\ \A n \in Nat : (\A k \in Keys : book.dels[k] < n) /\ 0 < n => Limited(r, n)
<1> DEFINE r == attach(recs, book)
<1>1. book.next <= raise_past(book.next, recs)
    BY RaisePastFacts DEF Books
<1>2. /\ r.next = raise_past(book.next, recs)
      /\ r.held = {k \in recs : book.due[k] # NoTime}
      /\ r.due = [k \in Keys |-> IF k \in recs THEN book.due[k] ELSE NoTime]
      /\ r.dels = [k \in Keys |-> IF k \in recs THEN book.dels[k] ELSE 0]
    BY DEF attach
<1>3. \A k \in Keys : book.dels[k] \in Nat
    BY DEF Books
<1> HIDE DEF r
<1> QED
    BY <1>1, <1>2, <1>3 DEF r, Limited

-----------------------------------------------------------------------------
(***************************************************************************)
(* What a step does to Q's table, to its disk copy and to the commands     *)
(* under way.                                                              *)
(***************************************************************************)

\* What the theorems below need of one step of Q's table.
TableMoves ==
    /\ Complete(table["Q"]) => Steady(table["Q"], table'["Q"], now)
    /\ \A n \in Nat : MaxDeliveries <= n /\ Limited(table["Q"], n) => Limited(table'["Q"], n)
    /\ table["Q"].recs \subseteq table'["Q"].recs \cup consumed' \cup astray'

\* A step that leaves Q's table alone, or another file's command.
LEMMA TableStays ==
    ASSUME TypeOK, table'["Q"] = table["Q"]
    PROVE  TableMoves
<1>1. table["Q"].next \in Nat
    BY DEF TypeOK, Tables, Files
<1> QED
    BY <1>1 DEF TableMoves, Steady

\* A sweep with an older clock is a sweep with this one as far as due times go.
LEMMA SteadyLater ==
    ASSUME NEW q \in Tables, NEW r, NEW s \in Nat, NEW t \in Nat, s <= t, Steady(q, r, s)
    PROVE  Steady(q, r, t)
<1>1. \A k \in q.held : q.due[k] \in Int
    BY TimesAssumption, BoundsAssumption DEF Tables, Due, NoTime
<1> QED
    BY <1>1 DEF Steady

\* ENQUEUE.
LEMMA TableEnqueue ==
    ASSUME IInv, NEW w \in Workers, enqueue_due(w)
    PROVE  /\ TableMoves
           /\ cmd[w].file = "Q" =>
                /\ cmd'[w].key \in table'["Q"].recs
                /\ cmd[w].due # NoTime => /\ cmd'[w].key \in table'["Q"].held
                                          /\ table'["Q"].due[cmd'[w].key] = cmd[w].due
<1> DEFINE f == cmd[w].file
           k == mint(table[f], now)
           r == Enqueued(table[f], k, cmd[w].due)
<1>0. TypeOK
    BY DEF IInv
<1>1. f \in Files /\ table[f] \in Tables /\ cmd[w].due \in Due /\ now \in Nat
    BY <1>0, BoundsAssumption DEF TypeOK, Cmds
<1>2. k \in Keys /\ table[f].next <= k
    BY <1>1, MintFacts, BoundsAssumption DEF enqueue_due, Keys
<1>3. table' = [table EXCEPT ![f] = r] /\ Acted(w, k, cmd[w].due)
    BY DEF enqueue_due, Enqueued
<1>4. cmd'[w].key = k
    BY <1>0, <1>3, Moves
<1>5. CASE f # "Q"
    <2>1. table'["Q"] = table["Q"]
        BY <1>0, <1>3, <1>5 DEF TypeOK, Files
    <2> QED
        BY <1>0, <1>5, <2>1, TableStays
<1>6. CASE f = "Q"
    <2>1. table'["Q"] = r /\ Orderly(table["Q"]) /\ table["Q"] = table[f]
        BY <1>0, <1>1, <1>3, <1>6 DEF TypeOK, IInv
    <2> HIDE DEF f, k, r
    <2>2. /\ Steady(table[f], r, now)
          /\ \A n : Limited(table[f], n) => Limited(r, n)
          /\ k \in r.recs /\ table[f].recs \subseteq r.recs
          /\ cmd[w].due # NoTime => k \in r.held /\ r.due[k] = cmd[w].due
        BY <1>1, <1>2, <2>1, EnqueuedSteady, EnqueuedFacts DEF r
    <2> QED
        BY <1>4, <2>1, <2>2 DEF TableMoves
<1> QED
    BY <1>5, <1>6

\* A sweep, with or without a claim after it.  A delivery it makes is of a key
\* nothing held back past the clock.
LEMMA TableDequeue ==
    ASSUME IInv, NEW w \in Workers, dequeue(w)
    PROVE  /\ TableMoves
           /\ \A l \in leases' \ leases : l.file = "Q" =>
                /\ l.key \in Keys /\ l.from = now
                /\ l.key \in table["Q"].held => table["Q"].due[l.key] <= now
<1> DEFINE f == cmd[w].file
           q == table[f]
           time == cmd[w].at
           dead == DeadLetters(f, q, time)
           swept == take_expired(f, q, time)
           k == IF swept.avail = {} THEN NoKey ELSE Smallest(swept.avail)
           r == IF k = NoKey THEN swept ELSE claim(swept, k, w, time)
           new == [owner |-> w, file |-> f, key |-> k, from |-> now,
                   expires |-> time + Visibility]
<1>0. TypeOK /\ Orderly(table["Q"]) /\ ClockInv
    BY DEF IInv
<1>1. f \in Files /\ q \in Tables /\ time \in 0..MaxNow /\ time \in Nat /\ now \in Nat
    BY <1>0, BoundsAssumption DEF TypeOK, Cmds
<1>2. /\ table' = [table EXCEPT ![f] = r]
      /\ leases' = IF k \notin swept.recs THEN leases ELSE leases \cup {new}
      /\ astray' = astray \cup dead
    BY DEF dequeue, TakeLetters
<1>3. swept \in Tables /\ swept.recs = q.recs \ dead /\ (Orderly(q) => Orderly(swept))
    BY <1>1, TakeExpiredFacts
<1>4. time <= now
    BY <1>0 DEF ClockInv
<1>5. new.file = f /\ new.key = k /\ new.from = now
    OBVIOUS
<1>6. CASE f # "Q"
    <2>1. table'["Q"] = table["Q"]
        BY <1>0, <1>2, <1>6 DEF TypeOK, Files
    <2>2. \A l \in leases' \ leases : l.file = f
        BY <1>2, <1>5
    <2> QED
        BY <1>0, <1>6, <2>1, <2>2, TableStays
<1>7. CASE f = "Q"
    <2>1. table'["Q"] = r /\ q = table["Q"] /\ Orderly(q) /\ Orderly(swept)
        BY <1>0, <1>1, <1>2, <1>3, <1>7 DEF TypeOK
    <2>2. /\ Steady(q, swept, time)
          /\ \A n \in Nat : MaxDeliveries <= n /\ Limited(q, n) => Limited(swept, n)
        BY <1>1, <1>7, <2>1, SweepSteady
    <2> HIDE DEF f, q, time, dead, swept, new
    <2>3. k # NoKey => k \in swept.avail /\ k \in Keys
        BY <1>3, SmallestIn DEF Tables
    <2> HIDE DEF k
    <2>4. k # NoKey =>
            /\ r.recs = swept.recs /\ r.held = swept.held /\ r.due = swept.due
            /\ r.next = swept.next
            /\ \A n \in Nat : Limited(swept, n) => Limited(r, n)
        BY <1>1, <1>3, <2>1, <2>3, ClaimSteady
    <2>5. k = NoKey => r = swept
        OBVIOUS
    <2> HIDE DEF r
    <2>6. Steady(q, swept, now)
        BY <1>1, <1>4, <2>2, SteadyLater
    <2>7. Steady(q, r, now)
        BY <2>4, <2>5, <2>6 DEF Steady
    <2>8. \A n \in Nat : MaxDeliveries <= n /\ Limited(q, n) => Limited(r, n)
        BY <2>2, <2>4, <2>5
    <2>9. q.recs \subseteq r.recs \cup astray'
        BY <1>2, <1>3, <2>4, <2>5
    <2>10. ASSUME NEW l \in leases' \ leases
           PROVE  /\ l.key \in Keys /\ l.from = now
                  /\ l.key \in q.held => q.due[l.key] <= now
        <3>1. l = new /\ k \in swept.recs
            BY <1>2, <2>10
        <3>2. k \in Keys /\ k # NoKey
            BY <1>3, <3>1, BoundsAssumption DEF Tables, NoKey, Keys
        <3>3. k \notin swept.held
            BY <2>1, <2>3, <3>2 DEF Orderly
        <3> QED
            BY <1>5, <2>6, <3>1, <3>2, <3>3 DEF Steady
    <2> QED
        BY <2>1, <2>7, <2>8, <2>9, <2>10 DEF TableMoves
<1> QED
    BY <1>6, <1>7

\* PEEK sweeps and claims nothing.
LEMMA TablePeek ==
    ASSUME IInv, NEW w \in Workers, peek(w)
    PROVE  TableMoves
<1> DEFINE f == cmd[w].file
           q == table[f]
           time == cmd[w].at
           r == take_expired(f, q, time)
<1>0. TypeOK /\ Orderly(table["Q"]) /\ ClockInv
    BY DEF IInv
<1>1. f \in Files /\ q \in Tables /\ time \in Nat /\ now \in Nat
    BY <1>0, BoundsAssumption DEF TypeOK, Cmds
<1>2. table' = [table EXCEPT ![f] = r] /\ astray' = astray \cup DeadLetters(f, q, time)
    BY DEF peek, TakeLetters
<1>3. r.recs = q.recs \ DeadLetters(f, q, time)
    BY <1>1, TakeExpiredFacts
<1>4. time <= now
    BY <1>0 DEF ClockInv
<1>5. CASE f # "Q"
    <2>1. table'["Q"] = table["Q"]
        BY <1>0, <1>2, <1>5 DEF TypeOK, Files
    <2> QED
        BY <1>0, <2>1, TableStays
<1>6. CASE f = "Q"
    <2>1. table'["Q"] = r /\ q = table["Q"] /\ Orderly(q)
        BY <1>0, <1>1, <1>2, <1>6 DEF TypeOK
    <2>2. /\ Steady(q, r, time)
          /\ \A n \in Nat : MaxDeliveries <= n /\ Limited(q, n) => Limited(r, n)
        BY <1>1, <1>6, <2>1, SweepSteady
    <2> HIDE DEF f, q, time, r
    <2>3. Steady(q, r, now)
        BY <1>1, <1>4, <2>2, SteadyLater
    <2> QED
        BY <1>2, <1>3, <2>1, <2>2, <2>3 DEF TableMoves
<1> QED
    BY <1>5, <1>6

\* ACK takes a claimed record, which nothing holds back.
LEMMA TableAck ==
    ASSUME IInv, NEW w \in Workers, ack(w)
    PROVE  /\ TableMoves
           /\ cmd[w].file = "Q" => /\ cmd[w].key \notin table'["Q"].recs
                                   /\ cmd[w].key < table'["Q"].next
<1> DEFINE f == cmd[w].file
           k == cmd[w].key
           r == Without(table[f], {k})
<1>0. TypeOK /\ Orderly(table["Q"])
    BY DEF IInv
<1>1. f \in Files /\ table[f] \in Tables
    BY <1>0 DEF TypeOK, Cmds
<1>2. table' = [table EXCEPT ![f] = r]
    BY DEF ack, Without
<1>3. consumed' = consumed \cup {k} /\ verify(table[f], k, w)
    BY DEF ack
<1>4. CASE f # "Q"
    <2>1. table'["Q"] = table["Q"]
        BY <1>0, <1>2, <1>4 DEF TypeOK, Files
    <2> QED
        BY <1>0, <1>4, <2>1, TableStays
<1>5. CASE f = "Q"
    <2>1. table'["Q"] = r /\ table[f] = table["Q"]
        BY <1>0, <1>1, <1>2, <1>5 DEF TypeOK
    <2> HIDE DEF f, k
    <2>2. k \in Keys /\ k \in Claimed(table[f])
        BY <1>1, <1>3, VerifyFacts
    <2>3. table[f].held \cap {k} = {} /\ k < table[f].next
        BY <1>0, <2>1, <2>2 DEF Orderly
    <2>4. /\ Steady(table[f], r, now) /\ r.recs = table[f].recs \ {k}
          /\ r.next = table[f].next
          /\ \A n \in Nat \ {0} : Limited(table[f], n) => Limited(r, n)
        BY <1>1, <2>2, <2>3, WithoutSteady, WithoutFacts
    <2> HIDE DEF r
    <2> QED
        BY <1>3, <2>1, <2>3, <2>4, LimitAssumption DEF TableMoves, f, k
<1> QED
    BY <1>4, <1>5

\* NACK takes a spent record out and puts one that is not back.
LEMMA TableNack ==
    ASSUME IInv, NEW w \in Workers, nack_until(w)
    PROVE  /\ TableMoves
           /\ cmd[w].file = "Q" /\ cmd'[w].due # NoTime =>
                /\ cmd[w].key \in table'["Q"].held
                /\ table'["Q"].due[cmd[w].key] = cmd'[w].due
<1> DEFINE f == cmd[w].file
           k == cmd[w].key
           q == table[f]
           dead == IF Spent(f, q, k) THEN {k} ELSE {}
           r == IF dead # {} THEN Without(q, dead) ELSE release_until(q, k, cmd[w].due)
<1>0. TypeOK /\ Orderly(table["Q"])
    BY DEF IInv
<1>1. f \in Files /\ q \in Tables /\ cmd[w].due \in Due
    BY <1>0 DEF TypeOK, Cmds
<1>2. table' = [table EXCEPT ![f] = r]
    BY DEF nack_until, Without
<1>3. /\ verify(q, k, w) /\ astray' = astray \cup dead
      /\ Acted(w, k, IF dead # {} THEN NoTime ELSE cmd[w].due)
    BY DEF nack_until, TakeLetters
<1>4. cmd'[w].due = IF dead # {} THEN NoTime ELSE cmd[w].due
    BY <1>0, <1>3, Moves
<1>5. CASE f # "Q"
    <2>1. table'["Q"] = table["Q"]
        BY <1>0, <1>2, <1>5 DEF TypeOK, Files
    <2> QED
        BY <1>0, <1>5, <2>1, TableStays
<1>6. CASE f = "Q"
    <2>1. table'["Q"] = r /\ q = table["Q"] /\ Orderly(q)
        BY <1>0, <1>1, <1>2, <1>6 DEF TypeOK
    <2>2. k \in Keys /\ k \in Claimed(q) /\ k \notin q.held
        <3> HIDE DEF f, k, q
        <3> QED
            BY <1>1, <1>3, <2>1, VerifyFacts DEF Orderly
    <2>3. dead = {} => q.dels[k] < MaxDeliveries
        <3>1. q.dels[k] \in Nat
            BY <1>1, <2>2 DEF Tables
        <3> QED
            BY <1>6, <3>1, LimitAssumption DEF Spent
    <2>4. dead \subseteq {k}
        OBVIOUS
    <2> HIDE DEF f, k, q, dead
    <2>5. CASE dead # {}
        <3>1. /\ Steady(q, r, now) /\ r.recs = q.recs \ dead
              /\ \A n \in Nat \ {0} : Limited(q, n) => Limited(r, n)
            BY <1>1, <2>2, <2>4, <2>5, WithoutSteady, WithoutFacts
        <3> HIDE DEF r
        <3> QED
            BY <1>3, <1>4, <2>1, <2>5, <3>1, LimitAssumption DEF TableMoves
    <2>6. CASE dead = {}
        <3>1. /\ Steady(q, r, now) /\ r.recs = q.recs
              /\ \A n \in Nat : q.dels[k] < n /\ Limited(q, n) => Limited(r, n)
              /\ cmd[w].due # NoTime => k \in r.held /\ r.due[k] = cmd[w].due
            BY <1>1, <2>1, <2>2, <2>6, ReleaseSteady, ReleaseFacts
        <3>2. q.dels[k] \in Nat
            BY <1>1, <2>2 DEF Tables
        <3> HIDE DEF r
        <3>3. \A n \in Nat : MaxDeliveries <= n => q.dels[k] < n
            BY <2>3, <2>6, <3>2, LimitAssumption
        <3> QED
            BY <1>4, <2>1, <2>6, <3>1, <3>3 DEF TableMoves, k
    <2> QED
        BY <2>5, <2>6
<1> QED
    BY <1>5, <1>6

\* A reconciliation.
LEMMA TableQueueFile ==
    ASSUME IInv, NEW w \in Workers, queue_file(w)
    PROVE  TableMoves
<1> DEFINE f == cmd[w].file
           r == reconcile(table[f])
<1>0. TypeOK
    BY DEF IInv
<1>1. f \in Files /\ table[f] \in Tables /\ table' = [table EXCEPT ![f] = r]
    BY <1>0 DEF TypeOK, Cmds, queue_file
<1>2. CASE f # "Q"
    <2>1. table'["Q"] = table["Q"]
        BY <1>0, <1>1, <1>2 DEF TypeOK, Files
    <2> QED
        BY <1>0, <2>1, TableStays
<1>3. CASE f = "Q"
    <2>1. table'["Q"] = r /\ table[f] = table["Q"]
        BY <1>0, <1>1, <1>3 DEF TypeOK
    <2> HIDE DEF f
    <2>2. /\ Complete(table[f]) => Steady(table[f], r, now)
          /\ r.recs = table[f].recs
          /\ \A n \in Nat \ {0} : Limited(table[f], n) => Limited(r, n)
        BY <1>1, ReconcileSteady, ReconcileFacts
    <2> HIDE DEF r
    <2> QED
        BY <2>1, <2>2, LimitAssumption DEF TableMoves
<1> QED
    BY <1>2, <1>3

\* The steps of a worker that are not hand edits.
QueueStep(w) ==
    \/ \E op, f, k, due : Begin(w, op, f, k, due)
    \/ queue_file(w) \/ enqueue_due(w) \/ dequeue(w) \/ peek(w)
    \/ Refused(w) \/ ack(w) \/ nack_until(w)
    \/ bury(w) \/ tidy(w) \/ insert(w)
    \/ \E f \in Files : flush_handle(w, f)
    \/ \E torn \in SUBSET Files : Fail(w, torn)

\* Every one of them is a move of Q's table.
LEMMA QueueStepMoves ==
    ASSUME IInv, NEW w \in Workers, QueueStep(w)
    PROVE  TableMoves
<1>0. TypeOK
    BY DEF IInv
<1>1. CASE \/ bury(w) \/ tidy(w) \/ insert(w) \/ Refused(w)
           \/ \E f \in Files : flush_handle(w, f)
           \/ \E torn \in SUBSET Files : Fail(w, torn)
           \/ \E op, f, k, due : Begin(w, op, f, k, due)
    <2>1. table'["Q"] = table["Q"]
        BY <1>0, <1>1 DEF bury, tidy, insert, Refused, flush_handle, Fail, Begin, TypeOK, Files
    <2> QED
        BY <1>0, <2>1, TableStays
<1> QED
    BY <1>1, TableEnqueue, TableDequeue, TablePeek, TableAck, TableNack, TableQueueFile
    DEF QueueStep

\* The kinds of step there are.
LEMMA StepKinds ==
    ASSUME [Next]_vars
    PROVE  \/ UNCHANGED vars
           \/ Tick
           \/ \E w \in Workers : QueueStep(w)
           \/ \E w \in Workers, f \in Files, k \in Keys : HandWrite(w, f, k) \/ HandDelete(w, f, k)
           \/ \E torn \in SUBSET Files : Crash(torn)
<1>1. CASE Next
    BY <1>1 DEF Next, QueueStep
<1> QED
    BY <1>1

\* Faults, hand edits, consumed keys and the clock only grow.
LEMMA HistoryGrows ==
    ASSUME TypeOK, [Next]_vars
    PROVE  /\ faults' \in {faults, faults + 1}
           /\ handEdits' = 0 => handEdits = 0
           /\ consumed \subseteq consumed'
           /\ now' \in {now, now + 1}
<1>0. handEdits \in Nat
    BY BoundsAssumption DEF TypeOK
<1>1. CASE UNCHANGED vars
    BY <1>1 DEF vars, historyVars
<1>2. CASE Tick
    BY <1>2 DEF Tick, historyVars
<1>3. ASSUME NEW w \in Workers, QueueStep(w)
      PROVE  /\ faults' \in {faults, faults + 1} /\ handEdits' = handEdits
             /\ consumed \subseteq consumed' /\ now' = now
    <2>1. CASE \/ \E op, f, k, due : Begin(w, op, f, k, due)
               \/ queue_file(w) \/ enqueue_due(w) \/ Refused(w)
               \/ bury(w) \/ tidy(w) \/ insert(w)
        BY <2>1 DEF Begin, queue_file, enqueue_due, Refused, bury, tidy, insert, historyVars
    <2>2. CASE dequeue(w) \/ peek(w) \/ ack(w) \/ nack_until(w)
        BY <2>2 DEF dequeue, peek, ack, nack_until
    <2>3. CASE \/ \E f \in Files : flush_handle(w, f)
               \/ \E torn \in SUBSET Files : Fail(w, torn)
        BY <2>3 DEF flush_handle, Fail
    <2> QED
        BY <1>3, <2>1, <2>2, <2>3 DEF QueueStep
<1>4. ASSUME NEW w \in Workers, NEW f \in Files, NEW k \in Keys,
             HandWrite(w, f, k) \/ HandDelete(w, f, k)
      PROVE  /\ faults' = faults /\ handEdits' = handEdits + 1
             /\ consumed \subseteq consumed' /\ now' = now
    BY <1>4 DEF HandWrite, HandDelete, HandEdit
<1>5. ASSUME NEW torn \in SUBSET Files, Crash(torn)
      PROVE  /\ faults' = faults + 1 /\ handEdits' = handEdits
             /\ consumed' = consumed /\ now' = now
    BY <1>5 DEF Crash
<1> QED
    BY <1>0, <1>1, <1>2, <1>3, <1>4, <1>5, StepKinds

\* What reaches Q's files on disk is what its table holds, and the book never
\* without the records.
LEMMA DiskStep ==
    ASSUME TypeOK, [Next]_vars
    PROVE  /\ diskRecs'["Q"] \in {diskRecs["Q"], table["Q"].recs}
           /\ diskRecs'["D"] \in {diskRecs["D"], table["D"].recs}
           /\ \/ diskBook'["Q"] = diskBook["Q"]
              \/ diskBook'["Q"] = to_persisted(table["Q"]) /\ diskRecs'["Q"] = table["Q"].recs
<1>1. /\ diskRecs \in [Files -> SUBSET Keys] /\ diskBook \in [Files -> Books]
      /\ Files = {"Q", "D"}
    BY DEF TypeOK, Files
<1>2. CASE UNCHANGED diskVars
    BY <1>2 DEF diskVars
<1>3. ASSUME NEW ws, NEW torn, TornFlush(torn, ws), diskBook' = diskBook
      PROVE  /\ diskRecs'["Q"] \in {diskRecs["Q"], table["Q"].recs}
             /\ diskRecs'["D"] \in {diskRecs["D"], table["D"].recs}
             /\ diskBook'["Q"] = diskBook["Q"]
    BY <1>1, <1>3 DEF TornFlush
<1>4. ASSUME NEW w \in Workers, NEW f \in Files, flush_handle(w, f)
      PROVE  /\ diskRecs'["Q"] \in {diskRecs["Q"], table["Q"].recs}
             /\ diskRecs'["D"] \in {diskRecs["D"], table["D"].recs}
             /\ \/ diskBook'["Q"] = diskBook["Q"]
                \/ /\ diskBook'["Q"] = to_persisted(table["Q"])
                   /\ diskRecs'["Q"] = table["Q"].recs
    <2>1. /\ diskRecs' = [diskRecs EXCEPT ![f] = table[f].recs]
          /\ diskBook' = [diskBook EXCEPT ![f] = to_persisted(table[f])]
        BY <1>4 DEF flush_handle
    <2> QED
        BY <1>1, <2>1
<1>5. ASSUME NEW w \in Workers, QueueStep(w)
      PROVE  \/ UNCHANGED diskVars
             \/ \E f \in Files : flush_handle(w, f)
             \/ \E torn : TornFlush(torn, {w}) /\ diskBook' = diskBook
    BY <1>5 DEF QueueStep, Begin, queue_file, enqueue_due, dequeue, peek, Refused, ack,
                nack_until, bury, tidy, insert, Fail, diskVars
<1>6. ASSUME NEW w \in Workers, NEW f \in Files, NEW k \in Keys,
             HandWrite(w, f, k) \/ HandDelete(w, f, k)
      PROVE  UNCHANGED diskVars
    BY <1>6 DEF HandWrite, HandDelete
<1>7. ASSUME NEW torn \in SUBSET Files, Crash(torn)
      PROVE  TornFlush(torn, Workers) /\ diskBook' = diskBook
    BY <1>7 DEF Crash
<1>8. Tick => UNCHANGED diskVars
    BY DEF Tick
<1>9. UNCHANGED vars => UNCHANGED diskVars
    BY DEF vars
<1> QED
    BY <1>2, <1>3, <1>4, <1>5, <1>6, <1>7, <1>8, <1>9, StepKinds

\* A command past its critical section, and one whose save() has been to Q.
Past(w) == pc[w] \notin {"idle", "reconcile", "act"}
Saved(w) == pc[w] = "save" /\ "Q" \notin left[w]

\* A worker that takes no step is where it was.
LEMMA OthersStay ==
    ASSUME TypeOK, NEW w \in Workers, NEW v \in Workers \ {w},
           QueueStep(w) \/ \E f \in Files, k \in Keys : HandWrite(w, f, k) \/ HandDelete(w, f, k)
    PROVE  pc'[v] = pc[v] /\ cmd'[v] = cmd[v] /\ left'[v] = left[v]
<1>1. /\ pc \in [Workers -> Labels] /\ cmd \in [Workers -> Cmds]
      /\ left \in [Workers -> SUBSET Files]
    BY DEF TypeOK
<1>2. \A label : Goto(w, label) => pc'[v] = pc[v] /\ left'[v] = left[v]
    BY <1>1 DEF Goto
<1>3. End(w) => pc'[v] = pc[v] /\ cmd'[v] = cmd[v] /\ left'[v] = left[v]
    BY <1>1, <1>2 DEF End
<1>4. \A k, due : Acted(w, k, due) => cmd'[v] = cmd[v]
    BY <1>1 DEF Acted
<1>5. ASSUME NEW op, NEW f, NEW k, NEW due, Begin(w, op, f, k, due)
      PROVE  pc'[v] = pc[v] /\ cmd'[v] = cmd[v] /\ left'[v] = left[v]
    <2>1. cmd'[v] = cmd[v]
        BY <1>1, <1>5 DEF Begin
    <2> QED
        BY <1>2, <1>5, <2>1 DEF Begin
<1>6. CASE queue_file(w)
    <2>1. cmd'[v] = cmd[v]
        BY <1>1, <1>6 DEF queue_file
    <2> QED
        BY <1>2, <1>6, <2>1 DEF queue_file
<1>7. CASE enqueue_due(w) \/ ack(w) \/ nack_until(w)
    BY <1>2, <1>4, <1>7 DEF enqueue_due, ack, nack_until
<1>8. CASE dequeue(w) \/ peek(w) \/ Refused(w)
    BY <1>2, <1>3, <1>4, <1>8 DEF dequeue, peek, Refused
<1>9. CASE bury(w) \/ tidy(w) \/ insert(w)
    BY <1>2, <1>9 DEF bury, tidy, insert
<1>10. ASSUME NEW f \in Files, flush_handle(w, f)
       PROVE  pc'[v] = pc[v] /\ cmd'[v] = cmd[v] /\ left'[v] = left[v]
    <2>1. \/ left' = [left EXCEPT ![w] = @ \ {f}] /\ UNCHANGED <<pc, cmd>>
          \/ End(w)
          \/ Goto(w, AfterSave(w)) /\ UNCHANGED cmd
        BY <1>10 DEF flush_handle
    <2>2. left' = [left EXCEPT ![w] = @ \ {f}] => left'[v] = left[v]
        BY <1>1
    <2> QED
        BY <1>2, <1>3, <2>1, <2>2
<1>11. ASSUME NEW torn \in SUBSET Files, Fail(w, torn)
       PROVE  pc'[v] = pc[v] /\ cmd'[v] = cmd[v] /\ left'[v] = left[v]
    BY <1>3, <1>11 DEF Fail
<1>12. ASSUME NEW f \in Files, NEW k \in Keys, HandWrite(w, f, k) \/ HandDelete(w, f, k)
       PROVE  pc'[v] = pc[v] /\ cmd'[v] = cmd[v] /\ left'[v] = left[v]
    <2>1. PICK op : HandEdit(w, op, f, k)
        BY <1>12 DEF HandWrite, HandDelete
    <2>2. cmd'[v] = cmd[v]
        BY <1>1, <2>1 DEF HandEdit
    <2> QED
        BY <1>2, <2>1, <2>2 DEF HandEdit
<1> QED
    BY <1>5, <1>6, <1>7, <1>8, <1>9, <1>10, <1>11, <1>12 DEF QueueStep

\* Where a command past its critical section has come from.
LEMMA PastStep ==
    ASSUME TypeOK, NEW w \in Workers, [Next]_vars, Past(w)'
    PROVE  \/ /\ Past(w) /\ cmd'[w] = cmd[w]
              /\ Saved(w)' => Saved(w) \/ flush_handle(w, "Q")
           \/ /\ ~Saved(w)'
              /\ \/ enqueue_due(w) \/ ack(w) \/ nack_until(w)
                 \/ cmd'[w].op \notin {"ENQUEUE", "ACK", "NACK"}
<1> DEFINE On == /\ Past(w) /\ cmd'[w] = cmd[w]
                 /\ Saved(w)' => Saved(w) \/ flush_handle(w, "Q")
           New == /\ ~Saved(w)'
                  /\ \/ enqueue_due(w) \/ ack(w) \/ nack_until(w)
                     \/ cmd'[w].op \notin {"ENQUEUE", "ACK", "NACK"}
<1>0. SUFFICES On \/ New
    OBVIOUS
<1>1. /\ pc \in [Workers -> Labels] /\ cmd \in [Workers -> Cmds] /\ cmd[w] \in Cmds
      /\ left \in [Workers -> SUBSET Files] /\ Files = {"Q", "D"}
    BY DEF TypeOK, Files
<1>2. \A label : Goto(w, label) => pc'[w] = label /\ ~Saved(w)'
    BY <1>1 DEF Goto, Saved, SaveLabels
<1>3. pc'[w] # "idle" /\ pc'[w] # "reconcile" /\ pc'[w] # "act"
    BY DEF Past
<1>4. ~End(w)
    BY <1>2, <1>3 DEF End
<1>5. ASSUME pc'[w] = pc[w], cmd'[w] = cmd[w], left'[w] = left[w]
      PROVE  On
    BY <1>5 DEF Past, Saved
<1>6. ASSUME QueueStep(w)
      PROVE  On \/ New
    <2>1. ASSUME NEW op, NEW f, NEW k, NEW due, Begin(w, op, f, k, due)
          PROVE  FALSE
        BY <1>2, <1>3, <2>1 DEF Begin
    <2>2. ~queue_file(w)
        BY <1>2, <1>3 DEF queue_file
    <2>3. CASE enqueue_due(w) \/ ack(w) \/ nack_until(w)
        BY <1>2, <2>3 DEF enqueue_due, ack, nack_until
    <2>4. CASE dequeue(w) \/ peek(w)
        <3>1. PICK k, due, label : Acted(w, k, due) /\ Goto(w, label)
            BY <1>4, <2>4 DEF dequeue, peek
        <3>2. cmd'[w].op = cmd[w].op
            BY <3>1, Moves
        <3> QED
            BY <1>2, <2>4, <3>1, <3>2 DEF dequeue, peek, Acting
    <2>5. ~Refused(w)
        BY <1>4 DEF Refused
    <2>6. CASE bury(w) \/ tidy(w) \/ insert(w)
        <3>1. pc[w] \in {"bury", "tidy", "insert"} /\ cmd' = cmd /\ \E label : Goto(w, label)
            BY <2>6 DEF bury, tidy, insert
        <3> QED
            BY <1>2, <3>1 DEF Past
    <2>7. ASSUME NEW f \in Files, flush_handle(w, f)
          PROVE  On
        <3>1. \/ left' = [left EXCEPT ![w] = @ \ {f}] /\ UNCHANGED <<pc, cmd>>
              \/ Goto(w, AfterSave(w)) /\ UNCHANGED cmd
            BY <1>4, <2>7 DEF flush_handle
        <3>2. Past(w)
            BY <2>7 DEF flush_handle, Saving, SaveLabels, Past
        <3>3. CASE Goto(w, AfterSave(w)) /\ UNCHANGED cmd
            BY <1>2, <3>2, <3>3
        <3>4. CASE left' = [left EXCEPT ![w] = @ \ {f}] /\ UNCHANGED <<pc, cmd>>
            <4>1. left'[w] = left[w] \ {f}
                BY <1>1, <3>4
            <4>2. Saved(w)' => Saved(w) \/ f = "Q"
                BY <3>4, <4>1 DEF Saved
            <4> QED
                BY <2>7, <3>2, <3>4, <4>2
        <3> QED
            BY <3>1, <3>3, <3>4
    <2>8. ASSUME NEW torn \in SUBSET Files, Fail(w, torn)
          PROVE  FALSE
        BY <1>4, <2>8 DEF Fail
    <2> QED
        BY <1>6, <2>1, <2>2, <2>3, <2>4, <2>5, <2>6, <2>7, <2>8 DEF QueueStep
<1>7. ASSUME NEW f \in Files, NEW k \in Keys, HandWrite(w, f, k) \/ HandDelete(w, f, k)
      PROVE  New
    <2>1. PICK op \in {"WRITE", "DELETE"} : HandEdit(w, op, f, k)
        BY <1>7 DEF HandWrite, HandDelete
    <2>2. cmd'[w].op = op
        BY <1>1, <2>1 DEF HandEdit, Cmds
    <2> QED
        BY <1>2, <2>1, <2>2 DEF HandEdit
<1>8. ASSUME NEW torn \in SUBSET Files, Crash(torn)
      PROVE  FALSE
    BY <1>3, <1>8 DEF Crash
<1>9. Tick \/ UNCHANGED vars => On
    BY <1>5 DEF Tick, vars, workerVars
<1>10. ASSUME NEW v \in Workers, v # w,
              QueueStep(v) \/ \E f \in Files, k \in Keys : HandWrite(v, f, k) \/ HandDelete(v, f, k)
       PROVE  On
    <2>1. pc'[w] = pc[w] /\ cmd'[w] = cmd[w] /\ left'[w] = left[w]
        BY <1>10, OthersStay
    <2> QED
        BY <1>5, <2>1
<1> HIDE DEF On, New
<1> QED
    BY <1>6, <1>7, <1>8, <1>9, <1>10, StepKinds

\* A client is told only by the last flush of a save(), which has then been to
\* Q, in this step or before it.
LEMMA AnswerStep ==
    ASSUME TypeOK, KeyInv, [Next]_vars
    PROVE  \/ /\ UNCHANGED <<acked, promised>>
              /\ issued' \subseteq issued
           \/ \E w \in Workers :
                /\ Answered(w) /\ Past(w)
                /\ cmd[w].op \in {"ENQUEUE", "ACK", "NACK"} =>
                     cmd[w].key \in Keys /\ (flush_handle(w, "Q") \/ Saved(w))
<1>1. ASSUME NEW w \in Workers, NEW f \in Files, flush_handle(w, f),
             ~UNCHANGED <<issued, acked, promised>>
      PROVE  /\ Answered(w) /\ Past(w)
             /\ cmd[w].op \in {"ENQUEUE", "ACK", "NACK"} =>
                  cmd[w].key \in Keys /\ (flush_handle(w, "Q") \/ Saved(w))
    <2>1. /\ left[w] = {f} /\ AfterSave(w) = "idle" /\ Answered(w)
          /\ pc[w] \in {"created", "buried", "save"}
        BY <1>1 DEF flush_handle, Saving, SaveLabels
    <2>2. Past(w)
        BY <2>1 DEF Past
    <2>3. ASSUME cmd[w].op \in {"ENQUEUE", "ACK", "NACK"}
          PROVE  cmd[w].key \in Keys /\ (flush_handle(w, "Q") \/ Saved(w))
        <3>1. cmd[w].key \in Keys
            BY <2>2, <2>3 DEF KeyInv, Past
        <3>2. cmd[w].key # NoKey
            BY <3>1, BoundsAssumption DEF Keys, NoKey
        <3>3. pc[w] = "save"
            BY <2>1, <3>2 DEF AfterSave
        <3> QED
            BY <1>1, <2>1, <3>1, <3>3 DEF Saved
    <2> QED
        BY <2>1, <2>2, <2>3
<1>2. ASSUME NEW w \in Workers, QueueStep(w)
      PROVE  UNCHANGED <<issued, acked, promised>> \/ \E f \in Files : flush_handle(w, f)
    BY <1>2 DEF QueueStep, Begin, queue_file, enqueue_due, dequeue, peek, Refused, ack,
                nack_until, bury, tidy, insert, Fail, historyVars
<1>3. ASSUME NEW w \in Workers, NEW f \in Files, NEW k \in Keys,
             HandWrite(w, f, k) \/ HandDelete(w, f, k)
      PROVE  UNCHANGED <<issued, acked, promised>>
    BY <1>3 DEF HandWrite, HandDelete
<1>4. ASSUME NEW torn \in SUBSET Files, Crash(torn)
      PROVE  UNCHANGED <<acked, promised>> /\ issued' \subseteq issued
    BY <1>4 DEF Crash
<1>5. Tick \/ UNCHANGED vars => UNCHANGED <<issued, acked, promised>>
    BY DEF Tick, vars, historyVars
<1> QED
    BY <1>1, <1>2, <1>3, <1>4, <1>5, StepKinds

-----------------------------------------------------------------------------
(***************************************************************************)
(* The delivery limit.                                                     *)
(***************************************************************************)

LimitInv ==
    /\ Limited(table["Q"], MaxDeliveries + faults)
    /\ \A k \in Keys : diskBook["Q"].dels[k] <= MaxDeliveries + faults

\* A limit is kept when it is raised.
LEMMA LimitedHigher ==
    ASSUME NEW q \in Tables, NEW m \in Nat, NEW n \in Nat, m <= n, Limited(q, m)
    PROVE  Limited(q, n)
<1>1. \A k \in Keys : q.dels[k] \in Nat
    BY DEF Tables
<1> QED
    BY <1>1 DEF Limited

\* Every step keeps it: a restart forgets one delivery at most, and raises it.
LEMMA LimitStep == IInv /\ LimitInv /\ [Next]_vars => LimitInv'
<1> SUFFICES ASSUME IInv, LimitInv, [Next]_vars
             PROVE  LimitInv'
    OBVIOUS
<1> DEFINE m == MaxDeliveries + faults
           n == MaxDeliveries + faults'
<1>1. TypeOK /\ TypeOK'
    BY InvStep DEF IInv
<1>2. /\ m \in Nat /\ n \in Nat /\ MaxDeliveries <= m /\ 0 < n
      /\ table["Q"] \in Tables /\ table'["Q"] \in Tables
      /\ diskBook["Q"] \in Books /\ diskBook'["Q"] \in Books
    <2>1. faults \in Nat /\ faults' \in Nat
        BY <1>1, BoundsAssumption DEF TypeOK
    <2>2. /\ table["Q"] \in Tables /\ table'["Q"] \in Tables
          /\ diskBook["Q"] \in Books /\ diskBook'["Q"] \in Books
        BY <1>1 DEF TypeOK, Files
    <2>3. MaxDeliveries \in Nat /\ 0 < MaxDeliveries
        BY LimitAssumption
    <2>4. \A a, b \in Nat : 0 < a => a + b \in Nat /\ a <= a + b /\ 0 < a + b
        OBVIOUS
    <2>5. m \in Nat /\ MaxDeliveries <= m
        BY <2>1, <2>3, <2>4
    <2>6. n \in Nat /\ 0 < n
        BY <2>1, <2>3, <2>4
    <2> QED
        BY <2>2, <2>5, <2>6
<1>3. m <= n
    <2>1. faults' = faults \/ faults' = faults + 1
        BY <1>1, HistoryGrows
    <2>2. faults \in Nat
        BY <1>1, BoundsAssumption DEF TypeOK
    <2> QED
        BY <2>1, <2>2, LimitAssumption
<1>4. /\ \A k \in Keys : table["Q"].dels[k] \in Nat /\ table["Q"].dels[k] <= m
      /\ \A k \in Keys : diskBook["Q"].dels[k] \in Nat /\ diskBook["Q"].dels[k] <= m
    BY <1>2 DEF LimitInv, Limited, Tables, Books
<1>5. \A k \in Keys : diskBook'["Q"].dels[k] <= n
    <2>1. to_persisted(table["Q"]).dels = table["Q"].dels
        BY DEF to_persisted
    <2>2. \A k \in Keys : diskBook'["Q"].dels[k] \in {diskBook["Q"].dels[k], table["Q"].dels[k]}
        BY <1>1, <2>1, DiskStep
    <2> HIDE DEF m, n
    <2> QED
        BY <1>2, <1>3, <1>4, <2>2
<1>6. SUFFICES Limited(table'["Q"], n)
    BY <1>5 DEF LimitInv
<1>7. ASSUME Limited(table'["Q"], m)
      PROVE  Limited(table'["Q"], n)
    <2> HIDE DEF m, n
    <2> QED
        BY <1>2, <1>3, <1>7, LimitedHigher
<1>8. Limited(table["Q"], m)
    BY DEF LimitInv
<1>9. CASE Tick \/ UNCHANGED vars
    BY <1>7, <1>8, <1>9 DEF Tick, vars
<1>10. ASSUME NEW w \in Workers, QueueStep(w)
       PROVE  Limited(table'["Q"], n)
    <2>1. TableMoves
        BY <1>10, QueueStepMoves
    <2> HIDE DEF m, n
    <2> QED
        BY <1>2, <1>7, <1>8, <2>1 DEF TableMoves
<1>11. ASSUME NEW w \in Workers, NEW f \in Files, NEW k \in Keys,
              HandWrite(w, f, k) \/ HandDelete(w, f, k)
       PROVE  Limited(table'["Q"], n)
    <2>1. table'["Q"].claims = table["Q"].claims /\ table'["Q"].dels = table["Q"].dels
        BY <1>1, <1>11 DEF HandWrite, HandDelete, TypeOK, Files, Tables
    <2> QED
        BY <1>7, <1>8, <2>1 DEF Limited, Claimed
<1>12. ASSUME NEW torn \in SUBSET Files, Crash(torn)
       PROVE  Limited(table'["Q"], n)
    <2>1. /\ table'["Q"] = attach(diskRecs'["Q"], diskBook["Q"]) /\ diskRecs'["Q"] \in SUBSET Keys
          /\ n = m + 1
        BY <1>1, <1>12, LimitAssumption, BoundsAssumption DEF Crash, TypeOK, Files
    <2> HIDE DEF m, n
    <2>2. \A k \in Keys : diskBook["Q"].dels[k] < n
        BY <1>2, <1>4, <2>1
    <2> QED
        BY <1>2, <2>1, <2>2, AttachSteady
<1> QED
    BY <1>9, <1>10, <1>11, <1>12, StepKinds

\* A record is delivered no more often than max_deliveries and once more for
\* each crash or failed command: a delivery is only lost with a restart (the
\* counts of the claim book are on disk with it).
THEOREM LimitKept == Spec => []WithinLimit
<1>1. Init => LimitInv
    <2> SUFFICES ASSUME Init
                 PROVE  LimitInv
        OBVIOUS
    <2>1. /\ diskBook["Q"] = [next |-> 0, dels |-> [k \in Keys |-> 0],
                              due |-> [k \in Keys |-> NoTime]]
          /\ table["Q"].dels = [k \in Keys |-> 0] /\ faults = 0
        BY DEF Init, Files, attach
    <2> QED
        BY <2>1, LimitAssumption DEF LimitInv, Limited
<1>2. LimitInv => WithinLimit
    BY DEF LimitInv, Limited, WithinLimit
<1> QED
    BY <1>1, <1>2, LimitStep, InvHolds, PTL DEF Spec

-----------------------------------------------------------------------------
(***************************************************************************)
(* Nothing enqueued is lost.                                               *)
(***************************************************************************)

\* Where a record that was enqueued may be, in memory and after a crash now.
Present(k) == k \in consumed \cup table["Q"].recs \cup diskRecs["D"] \cup astray
Durable(k) == k \in consumed \cup diskRecs["Q"] \cup diskRecs["D"] \cup astray

IssueInv ==
    /\ diskRecs["D"] \subseteq table["D"].recs \cup consumed
    /\ \A k \in issued : Present(k) /\ Durable(k)
    /\ \A w \in Workers : Past(w) /\ cmd[w].op = "ENQUEUE" /\ cmd[w].file = "Q" =>
          /\ Present(cmd[w].key)
          /\ Saved(w) => Durable(cmd[w].key)

\* A dead letter leaves its file by an ACK or a DELETE only.
LEMMA DeadStay ==
    ASSUME TypeOK, NEW w \in Workers,
           QueueStep(w) \/ \E f \in Files, k \in Keys : HandWrite(w, f, k) \/ HandDelete(w, f, k)
    PROVE  table["D"].recs \subseteq table'["D"].recs \cup consumed'
<1>0. /\ table["D"] \in Tables /\ table["Q"] \in Tables /\ cmd[w] \in Cmds /\ cmd[w].file \in Files
      /\ table[cmd[w].file] \in Tables /\ now \in Nat /\ cmd[w].at \in Nat
      /\ table \in [Files -> Tables] /\ "D" \in Files
    BY BoundsAssumption DEF TypeOK, Files, Cmds
<1>1. CASE table'["D"] = table["D"]
    BY <1>1
<1>2. ASSUME NEW r, table' = [table EXCEPT ![cmd[w].file] = r],
             cmd[w].file = "D" => table["D"].recs \subseteq r.recs \cup consumed'
      PROVE  table["D"].recs \subseteq table'["D"].recs \cup consumed'
    BY <1>0, <1>2
<1>3. \A q, time : DeadLetters("D", q, time) = {}
    BY DEF DeadLetters, Spent
<1>4. CASE queue_file(w)
    BY <1>0, <1>2, <1>4, ReconcileFacts DEF queue_file
<1>5. CASE enqueue_due(w)
    <2> DEFINE k == mint(table[cmd[w].file], now)
               r == Enqueued(table[cmd[w].file], k, cmd[w].due)
    <2>1. table' = [table EXCEPT ![cmd[w].file] = r]
        BY <1>5 DEF enqueue_due, Enqueued
    <2>2. table[cmd[w].file].recs \subseteq r.recs
        BY <1>0 DEF Enqueued, enqueue, enqueue_held, Tables
    <2> HIDE DEF r
    <2> QED
        BY <1>2, <2>1, <2>2
<1>6. CASE dequeue(w)
    <2> DEFINE f == cmd[w].file
               time == cmd[w].at
               swept == take_expired(f, table[f], time)
               k == IF swept.avail = {} THEN NoKey ELSE Smallest(swept.avail)
               r == IF k = NoKey THEN swept ELSE claim(swept, k, w, time)
    <2>1. table' = [table EXCEPT ![f] = r]
        BY <1>6 DEF dequeue
    <2>2. swept \in Tables /\ swept.recs = table[f].recs \ DeadLetters(f, table[f], time)
        BY <1>0, TakeExpiredFacts
    <2> HIDE DEF swept, k
    <2>3. r.recs = swept.recs
        BY <2>2 DEF claim, Tables
    <2> HIDE DEF r
    <2> QED
        BY <1>2, <1>3, <2>1, <2>2, <2>3
<1>7. CASE peek(w)
    <2> DEFINE f == cmd[w].file
               r == take_expired(f, table[f], cmd[w].at)
    <2>1. table' = [table EXCEPT ![f] = r]
        BY <1>7 DEF peek
    <2>2. r.recs = table[f].recs \ DeadLetters(f, table[f], cmd[w].at)
        BY <1>0, TakeExpiredFacts
    <2> HIDE DEF r
    <2> QED
        BY <1>2, <1>3, <2>1, <2>2
<1>8. CASE ack(w)
    <2> DEFINE k == cmd[w].key
               r == Without(table[cmd[w].file], {k})
    <2>1. table' = [table EXCEPT ![cmd[w].file] = r] /\ consumed' = consumed \cup {k}
        BY <1>8 DEF ack, Without
    <2>2. r.recs = table[cmd[w].file].recs \ {k}
        BY <1>0 DEF Without, forget, Tables
    <2> HIDE DEF r
    <2> QED
        BY <1>2, <2>1, <2>2
<1>9. CASE nack_until(w)
    <2> DEFINE f == cmd[w].file
               k == cmd[w].key
               dead == IF Spent(f, table[f], k) THEN {k} ELSE {}
               r == IF dead # {} THEN Without(table[f], dead)
                    ELSE release_until(table[f], k, cmd[w].due)
    <2>1. table' = [table EXCEPT ![f] = r]
        BY <1>9 DEF nack_until, Without
    <2>2. f = "D" => dead = {}
        BY DEF Spent
    <2>3. release_until(table[f], k, cmd[w].due).recs = table[f].recs
        BY <1>0 DEF release_until, Tables
    <2> HIDE DEF dead
    <2> QED
        BY <1>2, <2>1, <2>2, <2>3
<1>10. CASE tidy(w)
    <2>1. table'["D"] = reconcile(table["D"])
        BY <1>0, <1>10 DEF tidy
    <2> QED
        BY <1>0, <2>1, ReconcileFacts
<1>11. CASE insert(w)
    <2>1. table'["D"] = adopt(table["D"], hand[w])
        BY <1>0, <1>11 DEF insert
    <2> QED
        BY <1>0, <2>1 DEF adopt, Tables
<1>12. ASSUME NEW f \in Files, NEW k \in Keys, HandWrite(w, f, k) \/ HandDelete(w, f, k)
       PROVE  table["D"].recs \subseteq table'["D"].recs \cup consumed'
    <2>1. CASE HandWrite(w, f, k)
        BY <1>0, <2>1 DEF HandWrite, Tables
    <2>2. CASE HandDelete(w, f, k)
        <3>1. table'["D"].recs = table["D"].recs \ (IF f = "D" THEN {k} ELSE {})
            BY <1>0, <2>2 DEF HandDelete, Tables
        <3> QED
            BY <2>2, <3>1 DEF HandDelete
    <2> QED
        BY <1>12, <2>1, <2>2
<1>13. CASE \/ bury(w) \/ Refused(w)
            \/ \E f \in Files : flush_handle(w, f)
            \/ \E torn \in SUBSET Files : Fail(w, torn)
            \/ \E op, f, k, due : Begin(w, op, f, k, due)
    BY <1>1, <1>13 DEF bury, Refused, flush_handle, Fail, Begin
<1> QED
    BY <1>4, <1>5, <1>6, <1>7, <1>8, <1>9, <1>10, <1>11, <1>12, <1>13 DEF QueueStep

\* Letters under way are astray until they are in D on disk.
LEMMA AstrayStay ==
    ASSUME TypeOK, NEW w \in Workers,
           QueueStep(w) \/ \E f \in Files, k \in Keys : HandWrite(w, f, k) \/ HandDelete(w, f, k)
    PROVE  astray \subseteq astray' \cup diskRecs'["D"]
<1>1. CASE \/ \E op, f, k, due : Begin(w, op, f, k, due)
           \/ queue_file(w) \/ enqueue_due(w) \/ Refused(w) \/ ack(w)
           \/ bury(w) \/ tidy(w) \/ insert(w)
    BY <1>1 DEF Begin, queue_file, enqueue_due, Refused, ack, bury, tidy, insert, historyVars
<1>2. CASE dequeue(w) \/ peek(w) \/ nack_until(w)
    BY <1>2 DEF dequeue, peek, nack_until, TakeLetters
<1>3. ASSUME NEW f \in Files, flush_handle(w, f)
      PROVE  astray \subseteq astray' \cup diskRecs'["D"]
    <2>1. /\ diskRecs' = [diskRecs EXCEPT ![f] = table[f].recs]
          /\ astray' = IF f = "D" THEN astray \ table[f].recs ELSE astray
        BY <1>3 DEF flush_handle
    <2>2. f = "D" => diskRecs'["D"] = table["D"].recs
        BY <2>1 DEF TypeOK
    <2> QED
        BY <2>1, <2>2
<1>4. ASSUME NEW torn \in SUBSET Files, Fail(w, torn)
      PROVE  astray \subseteq astray' \cup diskRecs'["D"]
    BY <1>4 DEF Fail
<1>5. ASSUME NEW f \in Files, NEW k \in Keys, HandWrite(w, f, k) \/ HandDelete(w, f, k)
      PROVE  astray' = astray
    BY <1>5 DEF HandWrite, HandDelete
<1> QED
    BY <1>1, <1>2, <1>3, <1>4, <1>5 DEF QueueStep

\* A record of Q leaves its table by an ACK, a DELETE or as a dead letter.
LEMMA RecordsStay ==
    ASSUME IInv, NEW w \in Workers,
           QueueStep(w) \/ \E f \in Files, k \in Keys : HandWrite(w, f, k) \/ HandDelete(w, f, k)
    PROVE  table["Q"].recs \subseteq table'["Q"].recs \cup consumed' \cup astray'
<1>0. table["Q"] \in Tables /\ table \in [Files -> Tables] /\ "Q" \in Files
    BY DEF IInv, TypeOK, Files
<1>1. CASE QueueStep(w)
    BY <1>1, QueueStepMoves DEF TableMoves
<1>2. ASSUME NEW f \in Files, NEW k \in Keys, HandWrite(w, f, k) \/ HandDelete(w, f, k)
      PROVE  table["Q"].recs \subseteq table'["Q"].recs \cup consumed' \cup astray'
    <2>1. CASE HandWrite(w, f, k)
        BY <1>0, <2>1 DEF HandWrite, Tables
    <2>2. CASE HandDelete(w, f, k)
        <3>1. table'["Q"].recs = table["Q"].recs \ (IF f = "Q" THEN {k} ELSE {})
            BY <1>0, <2>2 DEF HandDelete, Tables
        <3> QED
            BY <2>2, <3>1 DEF HandDelete
    <2> QED
        BY <1>2, <2>1, <2>2
<1> QED
    BY <1>1, <1>2

\* No step but a restart makes a record that was enqueued disappear, and no
\* flush, torn or whole, loses one that was on disk.
LEMMA IssuedStay ==
    ASSUME IInv, IssueInv, [Next]_vars, ~\E torn \in SUBSET Files : Crash(torn), NEW k
    PROVE  /\ Present(k) => Present(k)'
           /\ Present(k) /\ Durable(k) => Durable(k)'
           /\ diskRecs'["D"] \subseteq table'["D"].recs \cup consumed'
<1>0. TypeOK
    BY DEF IInv
<1>1. CASE Tick \/ UNCHANGED vars
    <2>1. UNCHANGED <<table, diskRecs, consumed, astray>>
        BY <1>1 DEF Tick, vars, diskVars, historyVars
    <2> QED
        BY <2>1 DEF Present, Durable, IssueInv
<1>2. ASSUME NEW w \in Workers,
             QueueStep(w) \/ \E f \in Files, j \in Keys : HandWrite(w, f, j) \/ HandDelete(w, f, j)
      PROVE  /\ Present(k) => Present(k)'
             /\ Present(k) /\ Durable(k) => Durable(k)'
             /\ diskRecs'["D"] \subseteq table'["D"].recs \cup consumed'
    <2>1. /\ consumed \subseteq consumed'
          /\ diskRecs'["Q"] \in {diskRecs["Q"], table["Q"].recs}
          /\ diskRecs'["D"] \in {diskRecs["D"], table["D"].recs}
        BY <1>0, HistoryGrows, DiskStep
    <2>2. astray \subseteq astray' \cup diskRecs'["D"]
        BY <1>0, <1>2, AstrayStay
    <2>3. table["Q"].recs \subseteq table'["Q"].recs \cup consumed' \cup astray'
        BY <1>2, RecordsStay
    <2>4. table["D"].recs \subseteq table'["D"].recs \cup consumed'
        BY <1>0, <1>2, DeadStay
    <2>5. diskRecs["D"] \subseteq table["D"].recs \cup consumed
        BY DEF IssueInv
    <2>6. diskRecs["D"] \subseteq diskRecs'["D"] \cup consumed
        BY <2>1, <2>5
    <2> QED
        BY <2>1, <2>2, <2>3, <2>4, <2>5, <2>6 DEF Present, Durable
<1> QED
    BY <1>1, <1>2, StepKinds

\* Every step keeps the account of what was enqueued.
LEMMA IssueStep == IInv /\ IssueInv /\ [Next]_vars => IssueInv'
<1> SUFFICES ASSUME IInv, IssueInv, [Next]_vars
             PROVE  IssueInv'
    OBVIOUS
<1>0. TypeOK /\ KeyInv
    BY DEF IInv
<1>1. ASSUME NEW torn \in SUBSET Files, Crash(torn)
      PROVE  IssueInv'
    <2>1. /\ \A f \in Files : table'[f] = attach(diskRecs'[f], diskBook[f])
          /\ issued' = issued \cap (diskRecs'["Q"] \cup diskRecs'["D"])
          /\ pc' = [w \in Workers |-> "idle"]
        BY <1>1 DEF Crash
    <2>2. table'["Q"].recs = diskRecs'["Q"] /\ table'["D"].recs = diskRecs'["D"]
        BY <2>1 DEF attach, Files
    <2> QED
        BY <2>1, <2>2 DEF IssueInv, Present, Durable, Past
<1>2. CASE ~\E torn \in SUBSET Files : Crash(torn)
    <2>1. \A k : /\ Present(k) => Present(k)'
                 /\ Present(k) /\ Durable(k) => Durable(k)'
        BY <1>2, IssuedStay
    <2>2. diskRecs'["D"] \subseteq table'["D"].recs \cup consumed'
        BY <1>2, IssuedStay
    <2>3. ASSUME NEW w \in Workers, flush_handle(w, "Q"), NEW k, Present(k)
          PROVE  Durable(k)'
        <3>1. /\ diskRecs'["Q"] = table["Q"].recs /\ diskRecs'["D"] = diskRecs["D"]
              /\ consumed' = consumed /\ astray' = astray
            BY <1>0, <2>3 DEF flush_handle, TypeOK, Files
        <3> QED
            BY <2>3, <3>1 DEF Present, Durable
    <2>4. ASSUME NEW w \in Workers, Past(w)', cmd'[w].op = "ENQUEUE", cmd'[w].file = "Q"
          PROVE  /\ Present(cmd[w].key)'
                 /\ Saved(w)' => Durable(cmd[w].key)'
        <3>1. CASE /\ Past(w) /\ cmd'[w] = cmd[w]
                   /\ Saved(w)' => Saved(w) \/ flush_handle(w, "Q")
            <4>1. Present(cmd[w].key) /\ (Saved(w) => Durable(cmd[w].key))
                BY <2>4, <3>1 DEF IssueInv
            <4>2. PICK k : k = cmd[w].key
                OBVIOUS
            <4>3. Present(k)' /\ (Saved(w)' => Durable(k)')
                BY <2>1, <2>3, <3>1, <4>1, <4>2
            <4> QED
                BY <3>1, <4>2, <4>3 DEF Present, Durable
        <3>2. CASE ~Saved(w)' /\ enqueue_due(w)
            <4>1. cmd'[w].file = cmd[w].file
                <5>1. \E k, due : Acted(w, k, due)
                    BY <3>2 DEF enqueue_due
                <5> QED
                    BY <1>0, <5>1, Moves
            <4>2. cmd'[w].key \in table'["Q"].recs
                BY <2>4, <3>2, <4>1, TableEnqueue
            <4> QED
                BY <3>2, <4>2 DEF Present
        <3>3. ~ack(w) /\ ~nack_until(w)
            <4>1. ack(w) \/ nack_until(w) => cmd'[w].op = cmd[w].op
                BY <1>0, Moves DEF ack, nack_until
            <4> QED
                BY <2>4, <4>1 DEF ack, nack_until, Acting
        <3> QED
            BY <1>0, <2>4, <3>1, <3>2, <3>3, PastStep
    <2>5. ASSUME NEW k \in issued'
          PROVE  Present(k)' /\ Durable(k)'
        <3>1. CASE k \in issued
            BY <2>1, <3>1 DEF IssueInv
        <3>2. CASE k \notin issued
            <4>1. PICK w \in Workers :
                    /\ Answered(w) /\ Past(w)
                    /\ cmd[w].op \in {"ENQUEUE", "ACK", "NACK"} =>
                         cmd[w].key \in Keys /\ (flush_handle(w, "Q") \/ Saved(w))
                BY <1>0, <3>2, AnswerStep
            <4>2. cmd[w].op = "ENQUEUE" /\ cmd[w].file = "Q" /\ k = cmd[w].key
                BY <3>2, <4>1 DEF Answered
            <4>3. Present(k) /\ (Saved(w) => Durable(k))
                BY <4>1, <4>2 DEF IssueInv
            <4> QED
                BY <2>1, <2>3, <4>1, <4>2, <4>3
        <3> QED
            BY <3>1, <3>2
    <2> QED
        BY <2>2, <2>4, <2>5 DEF IssueInv, Present, Durable
<1> QED
    BY <1>1, <1>2

\* Once its ENQUEUE has returned a record is on disk in the queue or its
\* dead-letter file until it is consumed, but for letters bury has under way:
\* the ENQUEUE waits for the save() of Q (note_write_for).
THEOREM NothingLost == Spec => []AtLeastOnce
<1>1. Init => IssueInv
    BY DEF Init, IssueInv, Past, Files
<1>2. IssueInv => AtLeastOnce
    BY DEF IssueInv, AtLeastOnce, Durable
<1> QED
    BY <1>1, <1>2, IssueStep, InvHolds, PTL DEF Spec

-----------------------------------------------------------------------------
(***************************************************************************)
(* An acknowledged record does not come back.                              *)
(***************************************************************************)

\* The record is out of the table and its key is behind the counter.
Gone(k) == k \notin table["Q"].recs /\ k < table["Q"].next
GoneOnDisk(k) == k \notin diskRecs["Q"] /\ k < diskBook["Q"].next

AckInv ==
    handEdits = 0 =>
        /\ \A k \in acked : Gone(k) /\ GoneOnDisk(k)
        /\ \A w \in Workers : Past(w) /\ cmd[w].op = "ACK" /\ cmd[w].file = "Q" =>
              /\ Gone(cmd[w].key)
              /\ Saved(w) => GoneOnDisk(cmd[w].key)

\* No step brings a record back, a restart included.
LEMMA GoneStays ==
    ASSUME IInv, [Next]_vars, handEdits' = 0, NEW k \in Keys, Gone(k)
    PROVE  /\ GoneOnDisk(k) => GoneOnDisk(k)'
           /\ (\E torn \in SUBSET Files : Crash(torn)) /\ GoneOnDisk(k) => Gone(k)'
           /\ ~(\E torn \in SUBSET Files : Crash(torn)) => Gone(k)'
<1>0. TypeOK /\ TypeOK' /\ handEdits = 0 /\ Complete(table["Q"])
    BY InvStep, HistoryGrows DEF IInv
<1>1. /\ table["Q"] \in Tables /\ table'["Q"] \in Tables
      /\ diskBook["Q"] \in Books /\ diskBook'["Q"] \in Books /\ diskRecs'["Q"] \in SUBSET Keys
    BY <1>0 DEF TypeOK, Files
<1>2. /\ table["Q"].next \in Nat /\ table'["Q"].next \in Nat
      /\ diskBook["Q"].next \in Nat /\ diskBook'["Q"].next \in Nat /\ k \in Nat
    BY <1>1, BoundsAssumption DEF Tables, Books, Keys
<1>3. ASSUME GoneOnDisk(k)
      PROVE  GoneOnDisk(k)'
    <2>1. to_persisted(table["Q"]).next = table["Q"].next
        BY DEF to_persisted
    <2>2. k \notin diskRecs'["Q"] /\ diskBook'["Q"].next \in {diskBook["Q"].next, table["Q"].next}
        BY <1>0, <1>3, <2>1, DiskStep DEF Gone, GoneOnDisk
    <2> QED
        BY <1>3, <2>2 DEF Gone, GoneOnDisk
<1>4. ASSUME NEW torn \in SUBSET Files, Crash(torn), GoneOnDisk(k)
      PROVE  Gone(k)'
    <2>1. table'["Q"] = attach(diskRecs'["Q"], diskBook["Q"])
        BY <1>4 DEF Crash, Files
    <2>2. table'["Q"].recs = diskRecs'["Q"] /\ diskBook["Q"].next <= table'["Q"].next
        BY <1>1, <2>1, AttachSteady, AttachFacts
    <2> QED
        BY <1>2, <1>3, <1>4, <2>2 DEF Gone, GoneOnDisk
<1>5. ASSUME Tick \/ UNCHANGED vars
      PROVE  Gone(k)'
    BY <1>5 DEF Tick, vars, Gone
<1>6. ASSUME NEW w \in Workers, QueueStep(w)
      PROVE  Gone(k)'
    <2>1. Steady(table["Q"], table'["Q"], now)
        BY <1>0, <1>6, QueueStepMoves DEF TableMoves
    <2> QED
        BY <1>2, <2>1 DEF Steady, Gone
<1>7. ASSUME NEW w \in Workers, NEW f \in Files, NEW j \in Keys,
             HandWrite(w, f, j) \/ HandDelete(w, f, j)
      PROVE  FALSE
    <2>1. PICK op \in {"WRITE", "DELETE"} : HandEdit(w, op, f, j)
        BY <1>7 DEF HandWrite, HandDelete
    <2> QED
        BY <1>0, <2>1, HandEditFacts
<1> QED
    BY <1>3, <1>4, <1>5, <1>6, <1>7, StepKinds

\* Every step keeps the account of what was acknowledged.
LEMMA AckStep == IInv /\ AckInv /\ [Next]_vars => AckInv'
<1> SUFFICES ASSUME IInv, AckInv, [Next]_vars, handEdits' = 0
             PROVE  /\ \A k \in acked' : Gone(k)' /\ GoneOnDisk(k)'
                    /\ \A w \in Workers :
                          Past(w)' /\ cmd'[w].op = "ACK" /\ cmd'[w].file = "Q" =>
                             /\ Gone(cmd[w].key)'
                             /\ Saved(w)' => GoneOnDisk(cmd[w].key)'
    BY DEF AckInv, Gone, GoneOnDisk
<1>0. TypeOK /\ KeyInv /\ handEdits = 0
    BY HistoryGrows DEF IInv
<1>1. ASSUME NEW w \in Workers, flush_handle(w, "Q"), NEW k, Gone(k)
      PROVE  GoneOnDisk(k)'
    <2>1. diskRecs'["Q"] = table["Q"].recs /\ diskBook'["Q"] = to_persisted(table["Q"])
        BY <1>0, <1>1 DEF flush_handle, TypeOK, Files
    <2> QED
        BY <1>1, <2>1 DEF Gone, GoneOnDisk, to_persisted
<1>2. ASSUME NEW w \in Workers, Past(w)'
      PROVE  ~\E torn \in SUBSET Files : Crash(torn)
    BY <1>2 DEF Past, Crash
<1>3. ASSUME NEW w \in Workers, Past(w)', cmd'[w].op = "ACK", cmd'[w].file = "Q"
      PROVE  /\ Gone(cmd[w].key)'
             /\ Saved(w)' => GoneOnDisk(cmd[w].key)'
    <2>1. CASE /\ Past(w) /\ cmd'[w] = cmd[w]
               /\ Saved(w)' => Saved(w) \/ flush_handle(w, "Q")
        <3>1. Gone(cmd[w].key) /\ (Saved(w) => GoneOnDisk(cmd[w].key)) /\ cmd[w].key \in Keys
            BY <1>0, <1>3, <2>1 DEF AckInv, KeyInv, Past
        <3>2. PICK k : k = cmd[w].key
            OBVIOUS
        <3>3. Gone(k)' /\ (Saved(w)' => GoneOnDisk(k)')
            BY <1>1, <1>2, <1>3, <2>1, <3>1, <3>2, GoneStays
        <3> QED
            BY <2>1, <3>2, <3>3 DEF Gone, GoneOnDisk
    <2>2. CASE ~Saved(w)' /\ ack(w)
        <3>1. cmd'[w].file = cmd[w].file /\ cmd'[w].key = cmd[w].key
            <4>1. Acted(w, cmd[w].key, NoTime)
                BY <2>2 DEF ack
            <4> QED
                BY <1>0, <4>1, Moves
        <3>2. cmd[w].key \notin table'["Q"].recs /\ cmd[w].key < table'["Q"].next
            BY <1>3, <2>2, <3>1, TableAck
        <3> QED
            BY <2>2, <3>1, <3>2 DEF Gone
    <2>3. ~enqueue_due(w) /\ ~nack_until(w)
        <3>1. enqueue_due(w) \/ nack_until(w) => cmd'[w].op = cmd[w].op
            BY <1>0, Moves DEF enqueue_due, nack_until
        <3> QED
            BY <1>3, <3>1 DEF enqueue_due, nack_until, Acting
    <2> QED
        BY <1>0, <1>3, <2>1, <2>2, <2>3, PastStep
<1>4. ASSUME NEW k \in acked'
      PROVE  Gone(k)' /\ GoneOnDisk(k)'
    <2>1. CASE k \in acked
        <3>1. Gone(k) /\ GoneOnDisk(k) /\ k \in Keys
            BY <1>0, <2>1 DEF AckInv, TypeOK
        <3> QED
            BY <3>1, GoneStays
    <2>2. CASE k \notin acked
        <3>1. PICK w \in Workers :
                /\ Answered(w) /\ Past(w)
                /\ cmd[w].op \in {"ENQUEUE", "ACK", "NACK"} =>
                     cmd[w].key \in Keys /\ (flush_handle(w, "Q") \/ Saved(w))
            BY <1>0, <2>2, AnswerStep
        <3>2. cmd[w].op = "ACK" /\ cmd[w].file = "Q" /\ k = cmd[w].key
            BY <2>2, <3>1 DEF Answered
        <3>3. Gone(k) /\ (Saved(w) => GoneOnDisk(k)) /\ k \in Keys
            BY <1>0, <3>1, <3>2 DEF AckInv
        <3>4. ~\E torn \in SUBSET Files : Crash(torn)
            BY <2>2 DEF Crash
        <3> QED
            BY <1>1, <3>1, <3>2, <3>3, <3>4, GoneStays
    <2> QED
        BY <2>1, <2>2
<1> QED
    BY <1>3, <1>4

\* A record whose ACK has returned is in neither the table nor the file on disk
\* again, whatever crashes and failed flushes follow: the ACK is on disk before
\* it returns, and the counter that minted its key with it.
THEOREM AckIsFinal == Spec => []AckedStaysGone
<1>1. Init => AckInv
    BY DEF Init, AckInv, Past
<1>2. AckInv => AckedStaysGone
    BY DEF AckInv, AckedStaysGone, Gone, GoneOnDisk
<1> QED
    BY <1>1, <1>2, AckStep, InvHolds, PTL DEF Spec

-----------------------------------------------------------------------------
(***************************************************************************)
(* No delivery before the due time a client was answered with.             *)
(***************************************************************************)

\* The time is past, or the record is held back at least until then.
Kept(k, time) == time <= now \/ (k \in table["Q"].held /\ time <= table["Q"].due[k])
KeptOnDisk(k, time) == time <= now \/ (k \in diskRecs["Q"] /\ time <= diskBook["Q"].due[k])

DueInv ==
    handEdits = 0 =>
        /\ \A k \in Keys : Kept(k, promised[k]) /\ KeptOnDisk(k, promised[k])
        /\ \A w \in Workers :
              /\ Past(w) /\ cmd[w].op \in {"ENQUEUE", "NACK"} /\ cmd[w].file = "Q"
              /\ cmd[w].due # NoTime
              => /\ Kept(cmd[w].key, cmd[w].due)
                 /\ Saved(w) => KeptOnDisk(cmd[w].key, cmd[w].due)

\* A due time is kept by every step, in memory, on disk and over a restart.
LEMMA KeptStays ==
    ASSUME IInv, [Next]_vars, handEdits' = 0, NEW k \in Keys, NEW time \in Due, Kept(k, time)
    PROVE  /\ KeptOnDisk(k, time) => KeptOnDisk(k, time)'
           /\ (\E torn \in SUBSET Files : Crash(torn)) /\ KeptOnDisk(k, time) => Kept(k, time)'
           /\ ~(\E torn \in SUBSET Files : Crash(torn)) => Kept(k, time)'
           /\ \A w \in Workers : flush_handle(w, "Q") => KeptOnDisk(k, time)'
<1>0. TypeOK /\ TypeOK' /\ handEdits = 0 /\ Complete(table["Q"])
    BY InvStep, HistoryGrows DEF IInv
<1>1. /\ table["Q"] \in Tables /\ diskBook["Q"] \in Books /\ diskRecs'["Q"] \in SUBSET Keys
      /\ now \in Nat /\ time \in Int
      /\ table["Q"].due[k] \in Int /\ diskBook["Q"].due[k] \in Int
    BY <1>0, BoundsAssumption, TimesAssumption DEF TypeOK, Files, Tables, Books, Due, NoTime
<1>2. time <= now => time <= now'
    BY <1>0, <1>1, HistoryGrows
<1>3. k \in table["Q"].held => k \in table["Q"].recs
    BY <1>0 DEF Complete
<1>4. to_persisted(table["Q"]).due = table["Q"].due
    BY DEF to_persisted
<1>5. ASSUME KeptOnDisk(k, time), ~(time <= now)
      PROVE  k \in diskRecs'["Q"] /\ time <= diskBook'["Q"].due[k]
    <2>1. /\ k \in table["Q"].recs /\ time <= table["Q"].due[k]
          /\ k \in diskRecs["Q"] /\ time <= diskBook["Q"].due[k]
        BY <1>3, <1>5 DEF Kept, KeptOnDisk
    <2> QED
        BY <1>0, <1>4, <2>1, DiskStep
<1>6. KeptOnDisk(k, time) => KeptOnDisk(k, time)'
    BY <1>2, <1>5 DEF KeptOnDisk
<1>7. ASSUME NEW torn \in SUBSET Files, Crash(torn), KeptOnDisk(k, time)
      PROVE  Kept(k, time)'
    <2>1. CASE time <= now
        BY <1>2, <2>1 DEF Kept
    <2>2. CASE ~(time <= now)
        <3>1. /\ table'["Q"] = attach(diskRecs'["Q"], diskBook["Q"])
              /\ diskBook' = diskBook
            BY <1>7 DEF Crash, Files
        <3>2. k \in diskRecs'["Q"] /\ time <= diskBook["Q"].due[k]
            BY <1>5, <1>7, <2>2, <3>1
        <3>3. diskBook["Q"].due[k] # NoTime
            BY <1>1, <2>2, <3>2 DEF NoTime
        <3>4. k \in table'["Q"].held /\ table'["Q"].due[k] = diskBook["Q"].due[k]
            BY <1>1, <3>1, <3>2, <3>3, AttachSteady
        <3> QED
            BY <3>2, <3>4 DEF Kept
    <2> QED
        BY <2>1, <2>2
<1>8. ASSUME Tick \/ UNCHANGED vars
      PROVE  Kept(k, time)'
    <2>1. table' = table
        BY <1>8 DEF Tick, vars
    <2> QED
        BY <1>2, <2>1 DEF Kept
<1>9. ASSUME NEW w \in Workers, QueueStep(w)
      PROVE  Kept(k, time)'
    <2>1. Steady(table["Q"], table'["Q"], now)
        BY <1>0, <1>9, QueueStepMoves DEF TableMoves
    <2>2. \/ time <= now
          \/ k \in table'["Q"].held /\ time <= table'["Q"].due[k]
        BY <1>1, <2>1 DEF Steady, Kept
    <2> QED
        BY <1>2, <2>2 DEF Kept
<1>10. ASSUME NEW w \in Workers, NEW f \in Files, NEW j \in Keys,
              HandWrite(w, f, j) \/ HandDelete(w, f, j)
       PROVE  FALSE
    <2>1. PICK op \in {"WRITE", "DELETE"} : HandEdit(w, op, f, j)
        BY <1>10 DEF HandWrite, HandDelete
    <2> QED
        BY <1>0, <2>1, HandEditFacts
<1>11. ASSUME NEW w \in Workers, flush_handle(w, "Q")
       PROVE  KeptOnDisk(k, time)'
    <2>1. diskRecs'["Q"] = table["Q"].recs /\ diskBook'["Q"] = to_persisted(table["Q"])
        BY <1>0, <1>11 DEF flush_handle, TypeOK, Files
    <2> QED
        BY <1>2, <1>3, <1>4, <2>1 DEF Kept, KeptOnDisk
<1> QED
    BY <1>6, <1>7, <1>8, <1>9, <1>10, <1>11, StepKinds

\* Every step keeps the account of due times.
LEMMA DueStep == IInv /\ DueInv /\ [Next]_vars => DueInv'
<1> SUFFICES ASSUME IInv, DueInv, [Next]_vars, handEdits' = 0
             PROVE  /\ \A k \in Keys : (Kept(k, promised[k]) /\ KeptOnDisk(k, promised[k]))'
                    /\ \A w \in Workers :
                          /\ Past(w)' /\ cmd'[w].op \in {"ENQUEUE", "NACK"} /\ cmd'[w].file = "Q"
                          /\ cmd'[w].due # NoTime
                          => /\ Kept(cmd[w].key, cmd[w].due)'
                             /\ Saved(w)' => KeptOnDisk(cmd[w].key, cmd[w].due)'
    BY DEF DueInv
<1>0. TypeOK /\ TypeOK' /\ KeyInv /\ handEdits = 0
    BY InvStep, HistoryGrows DEF IInv
<1>1. ASSUME NEW w \in Workers, Past(w)'
      PROVE  ~\E torn \in SUBSET Files : Crash(torn)
    BY <1>1 DEF Past, Crash
<1>2. ASSUME NEW w \in Workers, Past(w)', cmd'[w].op \in {"ENQUEUE", "NACK"},
             cmd'[w].file = "Q", cmd'[w].due # NoTime
      PROVE  /\ Kept(cmd[w].key, cmd[w].due)'
             /\ Saved(w)' => KeptOnDisk(cmd[w].key, cmd[w].due)'
    <2>1. CASE /\ Past(w) /\ cmd'[w] = cmd[w]
               /\ Saved(w)' => Saved(w) \/ flush_handle(w, "Q")
        <3>1. /\ Kept(cmd[w].key, cmd[w].due)
              /\ Saved(w) => KeptOnDisk(cmd[w].key, cmd[w].due)
              /\ cmd[w].key \in Keys /\ cmd[w].due \in Due
            BY <1>0, <1>2, <2>1 DEF DueInv, KeyInv, Past, TypeOK, Cmds
        <3>2. PICK k, time : k = cmd[w].key /\ time = cmd[w].due
            OBVIOUS
        <3>3. Kept(k, time)' /\ (Saved(w)' => KeptOnDisk(k, time)')
            BY <1>1, <1>2, <2>1, <3>1, <3>2, KeptStays
        <3> QED
            BY <2>1, <3>2, <3>3 DEF Kept, KeptOnDisk
    <2>2. ASSUME ~Saved(w)', cmd'[w].key \in table'["Q"].held,
                 table'["Q"].due[cmd'[w].key] = cmd'[w].due
          PROVE  /\ Kept(cmd[w].key, cmd[w].due)'
                 /\ Saved(w)' => KeptOnDisk(cmd[w].key, cmd[w].due)'
        <3>1. cmd'[w].due \in Int
            BY <1>0, TimesAssumption, BoundsAssumption DEF TypeOK, Cmds, Due, NoTime
        <3>2. cmd'[w].due <= table'["Q"].due[cmd'[w].key]
            BY <2>2, <3>1
        <3> QED
            BY <2>2, <3>2 DEF Kept
    <2>3. CASE ~Saved(w)' /\ enqueue_due(w)
        <3>1. cmd'[w].file = cmd[w].file /\ cmd'[w].due = cmd[w].due
            <4>1. \E k : Acted(w, k, cmd[w].due)
                BY <2>3 DEF enqueue_due
            <4> QED
                BY <1>0, <4>1, Moves
        <3> QED
            BY <1>2, <2>2, <2>3, <3>1, TableEnqueue
    <2>4. CASE ~Saved(w)' /\ nack_until(w)
        <3>1. cmd'[w].file = cmd[w].file /\ cmd'[w].key = cmd[w].key
            <4>1. \E due : Acted(w, cmd[w].key, due)
                BY <2>4 DEF nack_until
            <4> QED
                BY <1>0, <4>1, Moves
        <3> QED
            BY <1>2, <2>2, <2>4, <3>1, TableNack
    <2>5. ~ack(w)
        <3>1. ack(w) => cmd'[w].op = cmd[w].op
            BY <1>0, Moves DEF ack
        <3> QED
            BY <1>2, <3>1 DEF ack, Acting
    <2> QED
        BY <1>0, <1>2, <2>1, <2>3, <2>4, <2>5, PastStep
<1>3. ASSUME NEW k \in Keys
      PROVE  (Kept(k, promised[k]) /\ KeptOnDisk(k, promised[k]))'
    <2>1. CASE promised'[k] = promised[k]
        <3>1. Kept(k, promised[k]) /\ KeptOnDisk(k, promised[k]) /\ promised[k] \in Due
            BY <1>0 DEF DueInv, TypeOK
        <3>2. PICK time : time = promised[k]
            OBVIOUS
        <3>3. Kept(k, time)' /\ KeptOnDisk(k, time)'
            BY <3>1, <3>2, KeptStays
        <3> QED
            BY <2>1, <3>2, <3>3 DEF Kept, KeptOnDisk
    <2>2. CASE promised'[k] # promised[k]
        <3>1. PICK w \in Workers :
                /\ Answered(w) /\ Past(w)
                /\ cmd[w].op \in {"ENQUEUE", "ACK", "NACK"} =>
                     cmd[w].key \in Keys /\ (flush_handle(w, "Q") \/ Saved(w))
            BY <1>0, <2>2, AnswerStep
        <3>2. /\ cmd[w].op \in {"ENQUEUE", "NACK"} /\ cmd[w].file = "Q" /\ cmd[w].due # NoTime
              /\ k = cmd[w].key /\ promised'[k] = cmd[w].due
            BY <1>0, <2>2, <3>1 DEF Answered, TypeOK
        <3>3. PICK time : time = cmd[w].due
            OBVIOUS
        <3>4. Kept(k, time) /\ (Saved(w) => KeptOnDisk(k, time)) /\ time \in Due
            BY <1>0, <3>1, <3>2, <3>3 DEF DueInv, TypeOK, Cmds
        <3>5. ~\E torn \in SUBSET Files : Crash(torn)
            BY <2>2 DEF Crash
        <3>6. Kept(k, time)' /\ KeptOnDisk(k, time)'
            BY <3>1, <3>2, <3>4, <3>5, KeptStays
        <3> QED
            BY <3>2, <3>3, <3>6 DEF Kept, KeptOnDisk
    <2> QED
        BY <2>1, <2>2
<1> QED
    BY <1>2, <1>3

\* Deliveries are made by DEQUEUE alone.
LEMMA DeliveredByDequeue ==
    ASSUME [Next]_vars, NEW l \in leases' \ leases
    PROVE  \E w \in Workers : dequeue(w)
<1>1. ASSUME NEW w \in Workers, QueueStep(w), ~dequeue(w)
      PROVE  leases' \subseteq leases
    <2>1. CASE \/ \E op, f, k, due : Begin(w, op, f, k, due)
               \/ queue_file(w) \/ enqueue_due(w) \/ Refused(w)
               \/ bury(w) \/ tidy(w) \/ insert(w)
        BY <2>1 DEF Begin, queue_file, enqueue_due, Refused, bury, tidy, insert, historyVars
    <2>2. CASE peek(w) \/ ack(w) \/ nack_until(w)
        BY <2>2 DEF peek, ack, nack_until
    <2>3. CASE \/ \E f \in Files : flush_handle(w, f)
               \/ \E torn \in SUBSET Files : Fail(w, torn)
        BY <2>3 DEF flush_handle, Fail
    <2> QED
        BY <1>1, <2>1, <2>2, <2>3 DEF QueueStep
<1>2. ASSUME NEW w \in Workers, NEW f \in Files, NEW k \in Keys,
             HandWrite(w, f, k) \/ HandDelete(w, f, k)
      PROVE  leases' \subseteq leases
    BY <1>2 DEF HandWrite, HandDelete
<1>3. ASSUME NEW torn \in SUBSET Files, Crash(torn)
      PROVE  leases' = {}
    BY <1>3 DEF Crash
<1>4. Tick \/ UNCHANGED vars => leases' = leases
    BY DEF Tick, vars, historyVars
<1> QED
    BY <1>1, <1>2, <1>3, <1>4, StepKinds

\* No DEQUEUE hands out a record before the due time an ENQUEUE or NACK was
\* answered with, whatever crashed in between and whichever clock its sweep
\* was made with: due times are on disk before the answer and attach puts them
\* back in force.
THEOREM DueTimesKept == Spec => NotEarly
<1>1. Init => DueInv
    <2> SUFFICES ASSUME Init
                 PROVE  DueInv
        OBVIOUS
    <2>1. /\ \A k \in Keys : promised[k] = NoTime
          /\ now = 0 /\ \A w \in Workers : ~Past(w)
        BY DEF Init, Past
    <2>2. NoTime <= 0
        BY DEF NoTime
    <2> QED
        BY <2>1, <2>2 DEF DueInv, Kept, KeptOnDisk
<1>2. IInv /\ DueInv /\ [Next]_vars =>
        [handEdits = 0 =>
            \A l \in leases' \ leases : l.file = "Q" => l.from >= promised[l.key]]_vars
    <2> SUFFICES ASSUME IInv, DueInv, [Next]_vars, handEdits = 0,
                        NEW l \in leases' \ leases, l.file = "Q"
                 PROVE  l.from >= promised[l.key]
        OBVIOUS
    <2>1. PICK w \in Workers : dequeue(w)
        BY DeliveredByDequeue
    <2>2. /\ l.key \in Keys /\ l.from = now
          /\ l.key \in table["Q"].held => table["Q"].due[l.key] <= now
        BY <2>1, TableDequeue
    <2>3. Kept(l.key, promised[l.key])
        BY <2>2 DEF DueInv
    <2>4. promised[l.key] \in Int /\ now \in Int /\ table["Q"].due[l.key] \in Int
        BY <2>2, TimesAssumption, BoundsAssumption
        DEF IInv, TypeOK, Due, NoTime, Files, Tables
    <2> QED
        BY <2>2, <2>3, <2>4 DEF Kept
<1> QED
    BY <1>1, <1>2, DueStep, InvHolds, PTL DEF Spec, NotEarly
=============================================================================
