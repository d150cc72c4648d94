--------------------------- MODULE CatalogProofs ----------------------------
(***************************************************************************)
(* Proofs about Catalog, for any accounts, files, keys, requests and       *)
(* readings of the clock, and any number of crashes: what a client was     *)
(* told of a file stays true, the cached attributes are those in DIR, a    *)
(* durable file has nothing in memory only, and no key is minted twice.    *)
(***************************************************************************)
EXTENDS Catalog, WellFoundedInduction, FiniteSetTheorems, TLAPS

-----------------------------------------------------------------------------
(* Sets of naturals.                                                       *)

\* A set of naturals has a least element.
LEMMA HasLeast ==
    ASSUME NEW S \in SUBSET Nat, S # {}
    PROVE  \E x \in S : \A y \in S : x <= y
  <1> DEFINE less == {p \in Nat \X Nat : p[1] < p[2]}
  <1>1. IsWellFoundedOn(less, Nat)
    BY NatLessThanWellFounded DEF OpToRel
  <1>2. \E x \in S : \A y \in S : <<y, x>> \notin less
    <2> HIDE DEF less
    <2> QED BY <1>1, WFMin
  <1>3. PICK x \in S : \A y \in S : <<y, x>> \notin less
    BY <1>2
  <1>4. \A y \in S : ~(y < x)
    BY <1>3
  <1> QED BY <1>4

\* A set of naturals below a bound has a greatest one.
LEMMA HasGreatest ==
    ASSUME NEW n \in Nat, NEW S \in SUBSET (0..n), S # {}
    PROVE  \E x \in S : \A y \in S : y <= x
  <1> DEFINE T == {n - x : x \in S}
  <1>1. T \in SUBSET Nat /\ T # {}
    <2>1. \A x \in S : n - x \in Nat /\ n - x \in T
      OBVIOUS
    <2> QED BY <2>1
  <1>2. \E t \in T : \A u \in T : t <= u
    <2> HIDE DEF T
    <2> QED BY <1>1, HasLeast
  <1>3. PICK x \in S : \A y \in S : n - x <= n - y
    BY <1>2
  <1> QED BY <1>3

-----------------------------------------------------------------------------
(* The inductive invariant.                                                *)

\* What DIR says of a file, in memory.
Listed(p) == Read(dir[p[1]][p[2]])

\* Attributes that are not the default ones are written before they are told:
\* a crash finds them in the file of the listing.
DirInv == \A a \in Accounts, f \in Files : Read(dir[a][f]) # Default => dirFile[a][f] = dir[a][f]

\* What was cached of a file that is there is what DIR says.
CacheInv(p) == cache[p] # None /\ p \notin haunted => host[p] # None /\ cache[p] = Listed(p)

\* What was told of a file is what DIR says, cached or not.
ToldInv(p) ==
    /\ host[p] = None => reported[p] = None /\ handed[p] = {}
    /\ reported[p] \notin {None, Default} /\ p \notin haunted => Listed(p) = reported[p]

\* A table t and the section s it was loaded from: records that are not dirty are
\* the section's; a counter is past the records and not behind the one on disk.
Follows(t, s) ==
    /\ "records" \notin t.dirty => t.records = s.records
    /\ t.next # None => \A k \in t.records : k < t.next
    /\ t.next # None /\ s.next # None => s.next <= t.next
    /\ "next" \in t.dirty => t.next # None

TableInv(p) == table[p] # None => /\ Follows(table[p], host[p])
                                  /\ AttributesOf(p).durable => table[p].dirty = {}

\* The counter on disk is past the keys H that were handed out.
Beyond(s, H) == \A k \in H : s.next \in Nat /\ k < s.next
HandedInv(p) == Beyond(host[p], handed[p])

PathInv(p) == CacheInv(p) /\ ToldInv(p) /\ TableInv(p) /\ HandedInv(p)

IInv == TypeOK /\ DirInv /\ \A p \in Paths : PathInv(p)

-----------------------------------------------------------------------------
(* Tables and sections.                                                    *)

LEMMA ReadTypes ==
    ASSUME NEW e \in Entries
    PROVE  Read(e) \in Attributes /\ Read(e) # None /\ Read(Read(e)) = Read(e) /\ Read(e) \in Entries
  <1>1. Default \in Attributes
    BY DEF Default, Attributes
  <1> QED BY <1>1, CatalogAssumption DEF Read, Entries

LEMMA FlagTypes ==
    ASSUME NEW e \in Attributes
    PROVE  e.durable \in BOOLEAN /\ e.autokey \in BOOLEAN /\ e.queue \in BOOLEAN /\ e.directory \in BOOLEAN
  BY DEF Attributes, Flags

\* A part of a flush leaves a section whose counter is no lower.
LEMMA PutFacts ==
    ASSUME NEW s \in Sections, NEW t \in Tables, Follows(t, s), NEW parts \in SUBSET Parts
    PROVE  /\ Put(s, t, parts) \in Sections
           /\ \A H \in SUBSET Keys : Beyond(s, H) => Beyond(Put(s, t, parts), H)
  <1>1. /\ s.records \in SUBSET Keys /\ s.dict \in BOOLEAN /\ s.next \in Counters
        /\ t.records \in SUBSET Keys /\ t.dict \in BOOLEAN /\ t.next \in Counters /\ t.dirty \in SUBSET Parts
    BY DEF Sections, Tables
  <1>2. Put(s, t, parts) \in Sections
    BY <1>1 DEF Put, Sections
  <1>3. Put(s, t, parts).next = IF "next" \in t.dirty \cap parts THEN t.next ELSE s.next
    BY DEF Put
  <1>4. ASSUME NEW H \in SUBSET Keys, Beyond(s, H), NEW k \in H
        PROVE  Put(s, t, parts).next \in Nat /\ k < Put(s, t, parts).next
    <2>1. s.next \in Nat /\ k < s.next /\ k \in Nat /\ s.next # None
      BY <1>4, CatalogAssumption DEF Beyond
    <2>2. "next" \in t.dirty => t.next \in Nat /\ s.next <= t.next
      BY <1>1, <2>1 DEF Follows, Counters
    <2> QED BY <1>3, <2>1, <2>2
  <1> QED BY <1>2, <1>4 DEF Beyond

\* A flush to its end leaves a clean table that follows the section.
LEMMA SavedFollows ==
    ASSUME NEW s \in Sections, NEW t \in Tables, Follows(t, s)
    PROVE  /\ Clean(t) \in Tables /\ Clean(t) # None /\ Clean(t).dirty = {}
           /\ Clean(t).records = t.records /\ Put(s, t, Parts).records = t.records
           /\ Follows(Clean(t), Put(s, t, Parts))
  <1>1. /\ t.next \in Counters /\ t.dirty \in SUBSET Parts /\ t # None /\ s.next \in Counters
    BY NoneAssumption DEF Sections, Tables
  <1>2. Clean(t) = [t EXCEPT !.dirty = {}]
    BY <1>1 DEF Clean
  <1>3. /\ Clean(t) \in Tables /\ Clean(t).dirty = {} /\ Clean(t).records = t.records /\ Clean(t).next = t.next
    BY <1>2 DEF Tables
  <1>4. /\ Put(s, t, Parts).records = t.records
        /\ Put(s, t, Parts).next = IF "next" \in t.dirty THEN t.next ELSE s.next
    BY <1>1 DEF Put, Follows, Parts
  <1>5. t.next # None => t.next <= t.next
    BY <1>1 DEF Counters
  <1> QED BY <1>3, <1>4, <1>5, NoneAssumption DEF Follows

\* What is loaded follows what it was loaded from.
LEMMA LoadedFollows ==
    ASSUME TypeOK, NEW p \in Paths, TableInv(p), host[p] # None
    PROVE  Loaded(p) \in Tables /\ Follows(Loaded(p), host[p])
  <1>1. host[p] \in Sections /\ table[p] \in Tables \cup {None}
    BY DEF TypeOK
  <1>2. CASE table[p] # None
    BY <1>1, <1>2 DEF Loaded, TableInv
  <1>3. CASE table[p] = None
    <2>1. Loaded(p) = [records |-> host[p].records, dict |-> host[p].dict, next |-> None, dirty |-> {}]
      BY <1>3 DEF Loaded
    <2> QED BY <1>1, <2>1 DEF Sections, Tables, Counters, Follows
  <1> QED BY <1>2, <1>3

-----------------------------------------------------------------------------
(* Counters.                                                               *)

\* A finite set of naturals is bounded: of the parts of it that are not, a
\* smallest would be without any one of its elements.
LEMMA FiniteBounded ==
    ASSUME NEW S \in SUBSET Nat, IsFiniteSet(S)
    PROVE  \E n \in Nat : S \subseteq 0..n
  <1> DEFINE Free(T) == ~\E n \in Nat : T \subseteq 0..n
             B == {m \in Nat : \E T \in SUBSET S : Cardinality(T) = m /\ Free(T)}
  <1>1. SUFFICES ASSUME Free(S) PROVE FALSE
    OBVIOUS
  <1>2. Cardinality(S) \in B
    BY <1>1, FS_CardinalityType
  <1>3. PICK m \in B : \A n \in B : m <= n
    <2> HIDE DEF B
    <2>1. B \in SUBSET Nat
      BY DEF B
    <2> QED BY <1>2, <2>1, HasLeast
  <1>4. PICK T \in SUBSET S : Cardinality(T) = m /\ Free(T)
    BY <1>3
  <1>5. T # {}
    <2>1. {} \subseteq 0..0 /\ 0 \in Nat
      OBVIOUS
    <2> QED BY <1>4, <2>1
  <1>6. PICK x \in T : TRUE
    BY <1>5
  <1>7. /\ IsFiniteSet(T) /\ Cardinality(T \ {x}) = Cardinality(T) - 1
        /\ m \in Nat /\ Cardinality(T \ {x}) \in Nat
    BY <1>3, <1>6, FS_Subset, FS_RemoveElement, FS_CardinalityType
  <1>8. Cardinality(T \ {x}) \notin B
    BY <1>3, <1>4, <1>7
  <1>9. PICK n \in Nat : T \ {x} \subseteq 0..n
    BY <1>7, <1>8
  <1>10. T \subseteq 0..(n + x)
    BY <1>9
  <1>11. n + x \in Nat
    BY <1>6, <1>9
  <1> QED BY <1>4, <1>10, <1>11

\* The counter is moved past the keys, and never back.
LEMMA PastFacts ==
    ASSUME NEW n \in Nat, NEW ks \in SUBSET Int, \A k \in ks : k + 1 \in Nat,
           \E b \in Nat : \A k \in ks : k + 1 <= b
    PROVE  Past(n, ks) \in Nat /\ n <= Past(n, ks) /\ \A k \in ks : k < Past(n, ks)
  <1> DEFINE S == {n} \cup {k + 1 : k \in ks}
  <1>1. PICK b \in Nat : \A k \in ks : k + 1 <= b
    OBVIOUS
  <1>2. S \in SUBSET (0..(n + b)) /\ S # {} /\ n + b \in Nat
    BY <1>1
  <1>3. \E x \in S : \A y \in S : y <= x
    <2> HIDE DEF S
    <2> QED BY <1>2, HasGreatest
  <1>4. Past(n, ks) = CHOOSE x \in S : \A y \in S : y <= x
    BY DEF Past
  <1>5. Past(n, ks) \in S /\ \A y \in S : y <= Past(n, ks)
    <2> HIDE DEF S
    <2> QED BY <1>3, <1>4
  <1>6. \A k \in ks : k + 1 <= Past(n, ks)
    BY <1>5
  <1>7. Past(n, ks) \in Nat /\ n <= Past(n, ks)
    BY <1>2, <1>5
  <1> QED BY <1>6, <1>7

LEMMA PastKeys ==
    ASSUME NEW n \in Nat, NEW ks \in SUBSET Keys
    PROVE  Past(n, ks) \in Nat /\ n <= Past(n, ks) /\ \A k \in ks : k < Past(n, ks)
  <1>1. ks \in SUBSET Nat /\ IsFiniteSet(ks)
    BY CatalogAssumption, FS_Subset
  <1>2. PICK b \in Nat : ks \subseteq 0..b
    BY <1>1, FiniteBounded
  <1>3. b + 1 \in Nat /\ (\A k \in ks : k + 1 <= b + 1) /\ (\A k \in ks : k + 1 \in Nat) /\ ks \in SUBSET Int
    BY <1>1, <1>2
  <1> QED BY <1>3, PastFacts

\* A counter as attach_autokey leaves it is past the records and not behind the
\* one on disk.
LEMMA AttachedFacts ==
    ASSUME TypeOK, NEW p \in Paths, TableInv(p), host[p] # None
    PROVE  /\ Attached(p) \in Nat
           /\ \A k \in Loaded(p).records : k < Attached(p)
           /\ host[p].next # None => host[p].next <= Attached(p)
  <1>1. Loaded(p) \in Tables /\ Follows(Loaded(p), host[p]) /\ host[p] \in Sections
    BY LoadedFollows DEF TypeOK
  <1>2. Loaded(p).next \in Counters /\ host[p].next \in Counters /\ Loaded(p).records \in SUBSET Keys
    BY <1>1 DEF Tables, Sections
  <1>3. CASE Loaded(p).next # None
    BY <1>1, <1>2, <1>3 DEF Attached, Follows, Counters
  <1>4. CASE Loaded(p).next = None
    <2> DEFINE n == IF host[p].next # None THEN host[p].next ELSE 0
    <2>1. n \in Nat /\ (host[p].next # None => host[p].next = n)
      BY <1>2 DEF Counters
    <2>2. Attached(p) = Past(n, Loaded(p).records)
      BY <1>4 DEF Attached
    <2> HIDE DEF n
    <2> QED BY <1>2, <2>1, <2>2, PastKeys
  <1> QED BY <1>3, <1>4

\* A minted key is new.
LEMMA MintedFacts ==
    ASSUME TypeOK, NEW p \in Paths, TableInv(p), host[p] # None, NEW now \in Times
    PROVE  /\ Minted(p, now) \in Nat
           /\ \A k \in Loaded(p).records : k < Minted(p, now)
           /\ host[p].next # None => host[p].next <= Minted(p, now)
  <1>1. /\ Attached(p) \in Nat
        /\ \A k \in Loaded(p).records : k < Attached(p)
        /\ host[p].next # None => host[p].next <= Attached(p)
    BY AttachedFacts
  <1>2. /\ Loaded(p).records \in SUBSET Nat /\ host[p].next \in Counters
    BY LoadedFollows, CatalogAssumption DEF Tables, TypeOK, Sections
  <1>3. now \in Nat
    BY CatalogAssumption
  <1>4. {now - 1} \in SUBSET Int /\ (\A k \in {now - 1} : k + 1 \in Nat) /\ (\A k \in {now - 1} : k + 1 <= now)
    BY <1>3
  <1>5. Past(Attached(p), {now - 1}) \in Nat /\ Attached(p) <= Past(Attached(p), {now - 1})
    BY <1>1, <1>3, <1>4, PastFacts
  <1> QED BY <1>1, <1>2, <1>5 DEF Minted, Counters

-----------------------------------------------------------------------------
(* What commands make of a table.                                          *)

LEMMA KeyedFollows ==
    ASSUME TypeOK, NEW p \in Paths, TableInv(p), host[p] # None, NEW k \in Keys
    PROVE  /\ WithKey(p, k) \in Tables /\ WithKey(p, k).dirty # {} /\ Follows(WithKey(p, k), host[p])
           /\ WithoutKey(p, k) \in Tables /\ WithoutKey(p, k).dirty # {} /\ Follows(WithoutKey(p, k), host[p])
  <1>0. PICK t : t = Loaded(p)
    OBVIOUS
  <1>1. /\ t \in Tables /\ Follows(t, host[p]) /\ host[p].next \in Counters /\ "records" \in Parts
        /\ t.next \in Counters /\ t.records \in SUBSET Keys /\ t.dirty \in SUBSET Parts
    BY <1>0, LoadedFollows DEF TypeOK, Sections, Tables, Parts
  <1>2. PICK n : n = IF t.next = None THEN None ELSE Past(t.next, {k})
    OBVIOUS
  <1>3. WithKey(p, k) = [t EXCEPT !.records = @ \cup {k}, !.next = n, !.dirty = @ \cup {"records"}]
    BY <1>0, <1>2 DEF WithKey
  <1>4. t.next # None => n \in Nat /\ t.next <= n /\ k < n /\ t.next \in Nat /\ n # None
    BY <1>1, <1>2, PastKeys, CatalogAssumption DEF Counters
  <1>5. n \in Counters /\ (n # None <=> t.next # None)
    BY <1>2, <1>4 DEF Counters
  <1>6. /\ WithKey(p, k).records = t.records \cup {k} /\ WithKey(p, k).next = n
        /\ WithKey(p, k).dirty = t.dirty \cup {"records"} /\ WithKey(p, k) \in Tables
    BY <1>1, <1>3, <1>5 DEF Tables
  <1>7. Follows(WithKey(p, k), host[p])
    <2>1. n # None => \A j \in t.records \cup {k} : j < n
      BY <1>1, <1>4, <1>5, CatalogAssumption DEF Follows
    <2>2. n # None /\ host[p].next # None => host[p].next <= n
      BY <1>1, <1>4, <1>5 DEF Follows, Counters
    <2> QED BY <1>1, <1>5, <1>6, <2>1, <2>2 DEF Follows
  <1>8. WithoutKey(p, k) = [t EXCEPT !.records = @ \ {k}, !.dirty = @ \cup {"records"}]
    BY <1>0 DEF WithoutKey
  <1>9. /\ WithoutKey(p, k).records = t.records \ {k} /\ WithoutKey(p, k).next = t.next
        /\ WithoutKey(p, k).dirty = t.dirty \cup {"records"} /\ WithoutKey(p, k) \in Tables
    BY <1>1, <1>8 DEF Tables
  <1>10. Follows(WithoutKey(p, k), host[p])
    BY <1>1, <1>9 DEF Follows
  <1> QED BY <1>6, <1>7, <1>9, <1>10

LEMMA MintedFollows ==
    ASSUME TypeOK, NEW p \in Paths, TableInv(p), host[p] # None, NEW now \in Times, NEW k \in Keys, k = Minted(p, now)
    PROVE  /\ WithMinted(p, k) \in Tables /\ "next" \in WithMinted(p, k).dirty
           /\ WithMinted(p, k).next = k + 1 /\ Follows(WithMinted(p, k), host[p])
  <1>0. PICK t : t = Loaded(p)
    OBVIOUS
  <1>1. /\ t \in Tables /\ host[p].next \in Counters /\ {"records", "next"} \subseteq Parts
        /\ t.records \in SUBSET Keys /\ t.dirty \in SUBSET Parts
    BY <1>0, LoadedFollows DEF TypeOK, Sections, Tables, Parts
  <1>2. /\ \A j \in t.records : j < k
        /\ host[p].next # None => host[p].next <= k
    BY <1>0, MintedFacts
  <1>n. Keys \subseteq Nat /\ None \notin Nat
    BY CatalogAssumption
  <1>m. k \in Nat /\ t.records \subseteq Nat
    BY <1>1, <1>n
  <1>3. k \in Nat /\ k + 1 \in Nat /\ k + 1 # None /\ t.records \subseteq Nat
    BY <1>m, <1>n
  <1>4. /\ WithMinted(p, k).records = t.records \cup {k} /\ WithMinted(p, k).next = k + 1
        /\ WithMinted(p, k).dirty = t.dirty \cup {"records", "next"} /\ WithMinted(p, k) \in Tables
    BY <1>0, <1>1, <1>3 DEF WithMinted, Tables, Counters
  <1>5. \A j \in t.records \cup {k} : j < k + 1
    BY <1>2, <1>3
  <1>6. host[p].next # None => host[p].next <= k + 1
    BY <1>1, <1>2, <1>3 DEF Counters
  <1> QED BY <1>3, <1>4, <1>5, <1>6 DEF Follows

LEMMA DictFollows ==
    ASSUME TypeOK, NEW p \in Paths, TableInv(p), host[p] # None, NEW there \in BOOLEAN, NEW t,
           t = [Loaded(p) EXCEPT !.dict = there, !.dirty = @ \cup {"dict"}]
    PROVE  t \in Tables /\ t.dirty # {} /\ Follows(t, host[p])
  <1>1. Loaded(p) \in Tables /\ Follows(Loaded(p), host[p]) /\ "dict" \in Parts
    BY LoadedFollows DEF Parts
  <1>2. /\ t \in Tables /\ t.records = Loaded(p).records /\ t.next = Loaded(p).next
        /\ t.dirty = Loaded(p).dirty \cup {"dict"}
    BY <1>1 DEF Tables
  <1> QED BY <1>1, <1>2 DEF Follows

-----------------------------------------------------------------------------
(* Types.                                                                  *)

LEMMA TypeParts ==
    TypeOK <=> /\ registry \subseteq Accounts /\ registryFile \subseteq Accounts
               /\ host \in [Paths -> Sections \cup {None}]
               /\ table \in [Paths -> Tables \cup {None}]
               /\ \A p \in Paths : table[p] # None => host[p] # None
               /\ dir \in [Accounts -> [Files -> Entries]] /\ dirFile \in [Accounts -> [Files -> Entries]]
               /\ cache \in [Paths -> Entries] /\ reported \in [Paths -> Entries]
               /\ handed \in [Paths -> SUBSET Keys] /\ haunted \subseteq Paths
  BY DEF TypeOK

LEMMA PathParts ==
    ASSUME NEW p \in Paths
    PROVE  p[1] \in Accounts /\ p[2] \in Files /\ p = <<p[1], p[2]>>
  BY DEF Paths

\* A request is settled as attributes, or refused.
LEMMA SettledTypes ==
    ASSUME NEW f \in Files, NEW r \in Asked[f], NEW current \in Attributes
    PROVE  Settled(r, current) \in Entries
  <1> DEFINE wants(flag) == IF r[flag] = Absent THEN current[flag] ELSE r[flag]
  <1>1. r \in [Flags -> BOOLEAN \cup {Absent}] /\ current \in [Flags -> BOOLEAN]
    BY CatalogAssumption DEF Attributes
  <1>2. \A flag \in Flags : wants(flag) \in BOOLEAN
    BY <1>1
  <1>3. Default \in [Flags -> BOOLEAN] /\ {"durable", "queue", "autokey", "directory"} \subseteq Flags
    BY DEF Default, Flags
  <1>4. [flag \in Flags |-> wants(flag)] \in Attributes
    BY <1>2 DEF Attributes
  <1>5. [Default EXCEPT !.directory = TRUE] \in Attributes
    BY <1>3 DEF Attributes
  <1>6. \A b \in BOOLEAN : [Default EXCEPT !.queue = TRUE, !.durable = b] \in Attributes
    BY <1>3 DEF Attributes
  <1>7. (IF r.durable = Absent /\ ~current.queue THEN TRUE ELSE wants("durable")) \in BOOLEAN
    BY <1>2, <1>3
  <1> QED BY <1>4, <1>5, <1>6, <1>7 DEF Settled, Entries

LEMMA ListedTypes ==
    ASSUME TypeOK, NEW p \in Paths
    PROVE  /\ Listed(p) \in Attributes /\ Listed(p) # None
           /\ AttributesOf(p) \in Attributes /\ AttributesOf(p) # None /\ AttributesOf(p) \in Entries
           /\ AttributesOf(p) = (IF cache[p] # None THEN cache[p] ELSE Listed(p))
  <1>1. p[1] \in Accounts /\ p[2] \in Files
    BY PathParts
  <1>2. dir[p[1]][p[2]] \in Entries /\ cache[p] \in Entries
    BY <1>1, TypeParts
  <1>3. Listed(p) \in Attributes /\ Listed(p) # None
    BY <1>2, ReadTypes DEF Listed
  <1>4. AttributesOf(p) = (IF cache[p] # None THEN cache[p] ELSE Listed(p))
    BY DEF AttributesOf, Listed
  <1> QED BY <1>2, <1>3, <1>4 DEF Entries

LEMMA Wanted ==
    ASSUME IInv, NEW p \in Paths, NEW r \in Asked[p[2]]
    PROVE  Settled(r, Default) \in Entries /\ Settled(r, AttributesOf(p)) \in Entries
  <1>1. TypeOK /\ p[2] \in Files /\ Default \in Attributes
    BY PathParts DEF IInv, Default, Attributes
  <1>2. AttributesOf(p) \in Attributes
    BY <1>1, ListedTypes
  <1> QED BY <1>1, <1>2, SettledTypes

\* A listing made again keeps the attributes of the files that are there, and
\* invents none.
LEMMA SyncedFacts ==
    ASSUME TypeOK, NEW a \in Accounts, NEW hosts \in [Paths -> Sections \cup {None}]
    PROVE  /\ Synced(a, hosts) \in [Files -> Entries]
           /\ \A f \in Files : hosts[<<a, f>>] # None => Read(Synced(a, hosts)[f]) = Read(dir[a][f])
           /\ \A f \in Files : Read(Synced(a, hosts)[f]) # Default => Synced(a, hosts)[f] = dir[a][f]
  <1>1. \A f \in Files : dir[a][f] \in Entries
    BY TypeParts
  <1>2. \A f \in Files : Synced(a, hosts)[f] = IF hosts[<<a, f>>] = None THEN None ELSE Read(dir[a][f])
    BY DEF Synced
  <1>3. Synced(a, hosts) \in [Files -> Entries]
    BY <1>1, ReadTypes DEF Synced, Entries
  <1>4. ASSUME NEW f \in Files, hosts[<<a, f>>] # None PROVE Read(Synced(a, hosts)[f]) = Read(dir[a][f])
    BY <1>1, <1>2, <1>4, ReadTypes
  <1>5. ASSUME NEW f \in Files, Read(Synced(a, hosts)[f]) # Default PROVE Synced(a, hosts)[f] = dir[a][f]
    <2>1. hosts[<<a, f>>] # None
      BY <1>2, <1>5 DEF Read
    <2>2. Read(dir[a][f]) # Default
      BY <1>4, <1>5, <2>1
    <2> QED BY <1>2, <2>1, <2>2 DEF Read
  <1> QED BY <1>3, <1>4, <1>5

-----------------------------------------------------------------------------
(* What a step leaves alone, path by path.                                 *)

\* What clients know of p, where the file and its listing stay.
LEMMA TellKept ==
    ASSUME TypeOK, NEW p \in Paths, CacheInv(p), ToldInv(p),
           host'[p] = None <=> host[p] = None,
           host[p] # None => Listed(p)' = Listed(p),
           cache'[p] = cache[p] \/ (host[p] # None /\ cache'[p] = AttributesOf(p)),
           p \in haunted <=> p \in haunted', reported'[p] = reported[p],
           host[p] = None => handed'[p] = handed[p]
    PROVE  CacheInv(p)' /\ ToldInv(p)'
  <1>1. Listed(p) # None /\ AttributesOf(p) = (IF cache[p] # None THEN cache[p] ELSE Listed(p))
    BY ListedTypes
  <1>2. CacheInv(p)'
    BY <1>1 DEF CacheInv
  <1>3. ToldInv(p)'
    BY DEF ToldInv
  <1> QED BY <1>2, <1>3

\* The attributes a command finds, where they are only looked up.
LEMMA AttributesKept ==
    ASSUME TypeOK, NEW p \in Paths, Listed(p)' = Listed(p), cache'[p] \in {cache[p], AttributesOf(p)}
    PROVE  AttributesOf(p)' = AttributesOf(p)
  <1>1. /\ Listed(p) # None /\ AttributesOf(p) # None
        /\ AttributesOf(p) = (IF cache[p] # None THEN cache[p] ELSE Listed(p))
    BY ListedTypes
  <1>2. AttributesOf(p)' = (IF cache'[p] # None THEN cache'[p] ELSE Listed(p)')
    BY DEF AttributesOf, Listed
  <1> QED BY <1>1, <1>2

LEMMA DataKept ==
    ASSUME TypeOK, NEW p \in Paths, TableInv(p), HandedInv(p),
           table'[p] = table[p], handed'[p] = handed[p],
           host'[p].records = host[p].records, host'[p].next = host[p].next,
           table[p] # None => AttributesOf(p)' = AttributesOf(p)
    PROVE  TableInv(p)' /\ HandedInv(p)'
  <1>1. HandedInv(p)'
    BY DEF HandedInv, Beyond
  <1>2. TableInv(p)'
    BY DEF TableInv, Follows
  <1> QED BY <1>1, <1>2

\* A step that leaves p's records and section, and its entry, as they were.
LEMMA PathStays ==
    ASSUME IInv, NEW p \in Paths, table'[p] = table[p], host'[p] = host[p],
           host[p] # None => Listed(p)' = Listed(p),
           cache'[p] = cache[p] \/ (host[p] # None /\ cache'[p] = AttributesOf(p)),
           p \in haunted <=> p \in haunted', reported'[p] = reported[p], handed'[p] = handed[p]
    PROVE  PathInv(p)'
  <1>1. TypeOK /\ PathInv(p) /\ (table[p] # None => host[p] # None)
    BY TypeParts DEF IInv
  <1>2. CacheInv(p)' /\ ToldInv(p)'
    BY <1>1, TellKept DEF PathInv
  <1>3. table[p] # None => AttributesOf(p)' = AttributesOf(p)
    BY <1>1, AttributesKept
  <1>4. TableInv(p)' /\ HandedInv(p)'
    BY <1>1, <1>3, DataKept DEF PathInv
  <1> QED BY <1>2, <1>4 DEF PathInv

\* A file that is not there any more, or not loaded any more, and nothing told of it.
LEMMA PathGone ==
    ASSUME NEW p \in Paths, table'[p] = None, reported'[p] = None, handed'[p] = {},
           cache'[p] = None \/ p \in haunted'
    PROVE  PathInv(p)'
  BY DEF PathInv, CacheInv, ToldInv, TableInv, HandedInv, Beyond

\* save: every table is clean, and its section is what it was or the table.
LEMMA SaveFacts ==
    ASSUME NEW hosts \in [Paths -> Sections \cup {None}], NEW tables \in [Paths -> Tables \cup {None}],
           \A p \in Paths : tables[p] # None => hosts[p] # None /\ Follows(tables[p], hosts[p])
    PROVE  /\ Saved(hosts, tables) \in [Paths -> Sections \cup {None}]
           /\ [p \in Paths |-> Clean(tables[p])] \in [Paths -> Tables \cup {None}]
           /\ \A p \in Paths :
                /\ Clean(tables[p]) # None => /\ tables[p] # None /\ Saved(hosts, tables)[p] # None
                                              /\ Follows(Clean(tables[p]), Saved(hosts, tables)[p])
                                              /\ Clean(tables[p]).dirty = {}
                /\ Saved(hosts, tables)[p] = None <=> hosts[p] = None
                /\ \A H \in SUBSET Keys : Beyond(hosts[p], H) => Beyond(Saved(hosts, tables)[p], H)
  <1>1. ASSUME NEW p \in Paths
        PROVE  /\ Saved(hosts, tables)[p] \in Sections \cup {None}
               /\ Clean(tables[p]) \in Tables \cup {None}
               /\ Clean(tables[p]) # None => /\ tables[p] # None /\ Saved(hosts, tables)[p] # None
                                             /\ Follows(Clean(tables[p]), Saved(hosts, tables)[p])
                                             /\ Clean(tables[p]).dirty = {}
               /\ Saved(hosts, tables)[p] = None <=> hosts[p] = None
               /\ \A H \in SUBSET Keys : Beyond(hosts[p], H) => Beyond(Saved(hosts, tables)[p], H)
    <2>1. Saved(hosts, tables)[p] = IF tables[p] = None THEN hosts[p] ELSE Put(hosts[p], tables[p], Parts)
      BY DEF Saved
    <2>2. CASE tables[p] = None
      BY <2>1, <2>2 DEF Clean
    <2>3. CASE tables[p] # None
      <3>1. tables[p] \in Tables /\ hosts[p] \in Sections /\ Follows(tables[p], hosts[p])
        BY <2>3
      <3>2. /\ Put(hosts[p], tables[p], Parts) \in Sections
            /\ \A H \in SUBSET Keys : Beyond(hosts[p], H) => Beyond(Put(hosts[p], tables[p], Parts), H)
        BY <3>1, PutFacts
      <3>3. /\ Clean(tables[p]) \in Tables /\ Clean(tables[p]).dirty = {}
            /\ Follows(Clean(tables[p]), Put(hosts[p], tables[p], Parts))
        BY <3>1, SavedFollows
      <3> QED BY <2>1, <2>3, <3>1, <3>2, <3>3, NoneAssumption
    <2> QED BY <2>2, <2>3
  <1>2. Saved(hosts, tables) \in [Paths -> Sections \cup {None}]
    BY <1>1 DEF Saved
  <1>3. [p \in Paths |-> Clean(tables[p])] \in [Paths -> Tables \cup {None}]
    BY <1>1
  <1> QED BY <1>1, <1>2, <1>3

-----------------------------------------------------------------------------
(* Crashes.                                                                *)

\* A crash, whatever was being saved: what clients were told of the files that
\* are not in doubt is on disk, in the sections and in the listings.
LEMMA DieKeeps ==
    ASSUME IInv, NEW names \in SUBSET Accounts,
           NEW hosts \in [Paths -> Sections \cup {None}], NEW tables \in [Paths -> Tables \cup {None}],
           NEW entries \in [Accounts -> [Files -> Entries]], NEW paths \in SUBSET Paths,
           DieWith(names, hosts, tables, entries), Forget(paths),
           \A p \in Paths : tables[p] # None => hosts[p] # None /\ Follows(tables[p], hosts[p]),
           \A p \in Paths \ paths : hosts[p] = host[p],
           \A p \in Paths \ paths : host[p] # None /\ Listed(p) # Default => entries[p[1]][p[2]] = dir[p[1]][p[2]]
    PROVE  IInv'
  <1> DEFINE torn == {p \in Paths : tables[p] # None /\ tables[p].dirty # {}}
             Left(upTo) == [p \in Paths |-> IF p \in torn THEN Put(hosts[p], tables[p], upTo[p]) ELSE hosts[p]]
             stops == [torn -> {{}, {"records"}, {"records", "dict"}, Parts}]
  <1>0. PICK left \in {Left(upTo) : upTo \in stops},
             listed \in SUBSET {a \in Accounts : entries[a] # dirFile[a]} :
          /\ registryFile' = names /\ registry' = names
          /\ host' = left
          /\ dirFile' = [a \in Accounts |-> IF a \in listed THEN entries[a] ELSE dirFile[a]]
          /\ dir' = dirFile'
          /\ table' = [p \in Paths |-> None] /\ cache' = [p \in Paths |-> None]
          /\ haunted' = {}
    BY DEF DieWith
  <1>1. PICK upTo \in stops : host' = Left(upTo)
    BY <1>0
  <1>2. TypeOK /\ DirInv
    BY DEF IInv
  <1>3. ASSUME NEW p \in Paths
        PROVE  /\ host'[p] \in Sections \cup {None}
               /\ host'[p] = None <=> hosts[p] = None
               /\ \A H \in SUBSET Keys : Beyond(hosts[p], H) => Beyond(host'[p], H)
    <2>1. CASE p \in torn
      <3>1. tables[p] \in Tables /\ hosts[p] \in Sections /\ Follows(tables[p], hosts[p]) /\ upTo[p] \in SUBSET Parts
        BY <2>1 DEF Parts
      <3>2. host'[p] = Put(hosts[p], tables[p], upTo[p])
        BY <1>0, <1>1, <2>1
      <3> QED BY <3>1, <3>2, PutFacts, NoneAssumption
    <2>2. CASE p \notin torn
      BY <1>0, <1>1, <2>2
    <2> QED BY <2>1, <2>2
  <1>4. /\ reported' = [p \in Paths |-> IF p \in paths \cup haunted THEN None ELSE reported[p]]
        /\ handed' = [p \in Paths |-> IF p \in paths THEN {} ELSE handed[p]]
    BY DEF Forget
  <1>5. TypeOK'
    <2>1. host' \in [Paths -> Sections \cup {None}]
      BY <1>0, <1>1, <1>3
    <2>2. dirFile' \in [Accounts -> [Files -> Entries]] /\ dir' \in [Accounts -> [Files -> Entries]]
      BY <1>0, <1>1, <1>2, TypeParts
    <2>3. reported' \in [Paths -> Entries] /\ handed' \in [Paths -> SUBSET Keys]
      BY <1>2, <1>4, TypeParts DEF Entries
    <2>4. cache' \in [Paths -> Entries] /\ table' \in [Paths -> Tables \cup {None}]
          /\ \A p \in Paths : table'[p] # None => host'[p] # None
      BY <1>0, <1>1 DEF Entries
    <2> QED BY <1>0, <1>1, <2>1, <2>2, <2>3, <2>4 DEF TypeOK
  <1>6. DirInv'
    BY <1>0, <1>1 DEF DirInv
  <1>7. ASSUME NEW p \in Paths PROVE PathInv(p)'
    <2>1. PathInv(p) /\ table'[p] = None /\ cache'[p] = None /\ p[1] \in Accounts /\ p[2] \in Files
      BY <1>0, <1>1, PathParts DEF IInv
    <2>2. CacheInv(p)' /\ TableInv(p)'
      BY <2>1 DEF CacheInv, TableInv
    <2>3. CASE p \in paths
      BY <1>0, <1>1, <1>4, <2>1, <2>3, PathGone
    <2>4. CASE p \notin paths
      <3>1. hosts[p] = host[p] /\ handed'[p] = handed[p] /\ handed[p] \in SUBSET Keys
        BY <1>2, <1>4, <2>4, TypeParts
      <3>2. HandedInv(p)'
        BY <1>3, <2>1, <3>1 DEF HandedInv, PathInv
      <3>3. host'[p] = None => reported'[p] = None /\ handed'[p] = {}
        BY <1>3, <1>4, <2>1, <3>1 DEF PathInv, ToldInv
      <3>4. ASSUME reported'[p] \notin {None, Default} PROVE Listed(p)' = reported'[p]
        <4>1. p \notin haunted /\ reported'[p] = reported[p]
          BY <1>4, <3>4
        <4>2. Listed(p) = reported[p] /\ host[p] # None /\ Listed(p) # Default
          BY <2>1, <3>4, <4>1 DEF PathInv, ToldInv
        <4>3. entries[p[1]][p[2]] = dir[p[1]][p[2]] /\ dirFile[p[1]][p[2]] = dir[p[1]][p[2]]
          BY <1>2, <2>1, <2>4, <4>2 DEF DirInv, Listed
        <4>4. dir'[p[1]][p[2]] = dir[p[1]][p[2]]
          BY <1>0, <1>1, <2>1, <4>3
        <4> QED BY <4>1, <4>2, <4>4 DEF Listed
      <3>5. ToldInv(p)'
        BY <3>3, <3>4 DEF ToldInv
      <3> QED BY <2>2, <3>2, <3>5 DEF PathInv
    <2> QED BY <2>3, <2>4
  <1> QED BY <1>5, <1>6, <1>7 DEF IInv

\* The tables as they are follow the sections as they are.
LEMMA AllFollow ==
    ASSUME IInv
    PROVE  /\ host \in [Paths -> Sections \cup {None}] /\ table \in [Paths -> Tables \cup {None}]
           /\ dir \in [Accounts -> [Files -> Entries]] /\ registry \in SUBSET Accounts
           /\ registryFile \in SUBSET Accounts
           /\ \A p \in Paths : table[p] # None => host[p] # None /\ Follows(table[p], host[p])
  BY TypeParts DEF IInv, PathInv, TableInv

LEMMA EmptySection == Empty \in Sections /\ Empty # None /\ Empty.next = None /\ Empty.records = {}
  <1>1. Empty \in Sections
    BY DEF Empty, Sections, Counters
  <1> QED BY <1>1, NoneAssumption DEF Empty

LEMMA CrashStep ==
    ASSUME IInv, Crash \/ CrashInRegistry
    PROVE  IInv'
  BY AllFollow, DieKeeps DEF Crash, CrashInRegistry

LEMMA CrashInWriteStep ==
    ASSUME IInv, NEW p \in Paths, CrashInWrite(p)
    PROVE  IInv'
  <1>0. PICK k \in Keys : \E t \in {WithKey(p, k), WithoutKey(p, k)}
                     \cup {WithMinted(p, m) : m \in {Minted(p, now) : now \in Times} \cap Keys} :
          Writable(p) /\ DieWith(registryFile, host, [table EXCEPT ![p] = t], dir) /\ Forget({})
    BY DEF CrashInWrite
  <1>1. PICK t \in {WithKey(p, k), WithoutKey(p, k)}
                     \cup {WithMinted(p, m) : m \in {Minted(p, now) : now \in Times} \cap Keys} :
          Writable(p) /\ DieWith(registryFile, host, [table EXCEPT ![p] = t], dir) /\ Forget({})
    BY <1>0
  <1>2. TypeOK /\ TableInv(p) /\ host[p] # None
    BY <1>1 DEF IInv, PathInv, Writable, Exists
  <1>3. t \in Tables /\ Follows(t, host[p])
    <2>1. CASE t \in {WithKey(p, k), WithoutKey(p, k)}
      BY <1>2, <2>1, KeyedFollows
    <2>2. ASSUME NEW now \in Times, NEW m \in Keys, m = Minted(p, now), t = WithMinted(p, m)
          PROVE  t \in Tables /\ Follows(t, host[p])
      BY <1>2, <2>2, MintedFollows
    <2> QED BY <1>1, <2>1, <2>2
  <1> DEFINE tables == [table EXCEPT ![p] = t]
  <1>4. /\ tables \in [Paths -> Tables \cup {None}]
        /\ \A q \in Paths : tables[q] # None => host[q] # None /\ Follows(tables[q], host[q])
    BY <1>2, <1>3, AllFollow
  <1>5. DieWith(registryFile, host, tables, dir)
    BY <1>1
  <1> HIDE DEF tables
  <1> QED BY <1>1, <1>4, <1>5, AllFollow, DieKeeps

LEMMA CrashInCreateStep ==
    ASSUME IInv, NEW p \in Paths, CrashInCreateFile(p)
    PROVE  IInv'
  <1> DEFINE hosts == [host EXCEPT ![p] = Empty]
             listing == [dir EXCEPT ![p[1]] = Synced(p[1], hosts)]
  <1>1. PICK want \in Entries : want # None /\ host[p] = None /\ Forget({p})
            /\ DieWith(registryFile, hosts, table,
                       IF want = Default THEN listing ELSE [listing EXCEPT ![p[1]][p[2]] = want])
    BY Wanted DEF CrashInCreateFile
  <1>2. TypeOK /\ p[1] \in Accounts /\ p[2] \in Files /\ Default \in Attributes
    BY PathParts DEF IInv, Default, Attributes
  <1>3. want \in Entries
    OBVIOUS
  <1>4. hosts \in [Paths -> Sections \cup {None}] /\ \A q \in Paths : q # p => hosts[q] = host[q]
    BY AllFollow, EmptySection
  <1>5. \A q \in Paths : table[q] # None => q # p /\ hosts[q] # None /\ Follows(table[q], hosts[q])
    BY <1>1, <1>4, AllFollow
  <1> HIDE DEF hosts
  <1>6. /\ listing \in [Accounts -> [Files -> Entries]]
        /\ \A q \in Paths : q # p /\ host[q] # None /\ Listed(q) # Default => listing[q[1]][q[2]] = dir[q[1]][q[2]]
    <2>1. listing \in [Accounts -> [Files -> Entries]]
      BY <1>2, <1>4, SyncedFacts, TypeParts
    <2>2. ASSUME NEW q \in Paths, q # p, host[q] # None, Listed(q) # Default
          PROVE  listing[q[1]][q[2]] = dir[q[1]][q[2]]
      <3>1. q[1] \in Accounts /\ q[2] \in Files /\ q = <<q[1], q[2]>>
        BY PathParts
      <3>2. CASE q[1] = p[1]
        <4>1. hosts[<<p[1], q[2]>>] # None
          BY <1>4, <2>2, <3>1, <3>2
        <4>2. Read(Synced(p[1], hosts)[q[2]]) = Read(dir[p[1]][q[2]])
          BY <1>2, <1>4, <3>1, <4>1, SyncedFacts
        <4>3. Synced(p[1], hosts)[q[2]] = dir[p[1]][q[2]]
          BY <1>2, <1>4, <2>2, <3>1, <3>2, <4>2, SyncedFacts DEF Listed
        <4> QED BY <1>2, <3>2, <4>3, AllFollow
      <3>3. CASE q[1] # p[1]
        BY <3>1, <3>3, AllFollow
      <3> QED BY <3>2, <3>3
    <2> QED BY <2>1, <2>2
  <1> HIDE DEF listing
  <1> DEFINE entries == IF want = Default THEN listing ELSE [listing EXCEPT ![p[1]][p[2]] = want]
  <1>7. /\ entries \in [Accounts -> [Files -> Entries]]
        /\ \A q \in Paths : q # p => entries[q[1]][q[2]] = listing[q[1]][q[2]]
    <2>1. entries \in [Accounts -> [Files -> Entries]]
      BY <1>2, <1>3, <1>6
    <2>2. ASSUME NEW q \in Paths, q # p PROVE entries[q[1]][q[2]] = listing[q[1]][q[2]]
      <3>1. q[1] \in Accounts /\ q[2] \in Files /\ ~(q[1] = p[1] /\ q[2] = p[2])
        BY <2>2, PathParts
      <3> QED BY <1>2, <1>3, <1>6, <3>1
    <2> QED BY <2>1, <2>2
  <1>8. DieWith(registryFile, hosts, table, entries)
    BY <1>1
  <1> HIDE DEF entries
  <1>9. \A q \in Paths \ {p} : hosts[q] = host[q]
           /\ (host[q] # None /\ Listed(q) # Default => entries[q[1]][q[2]] = dir[q[1]][q[2]])
    BY <1>4, <1>6, <1>7
  <1> QED BY <1>1, <1>4, <1>5, <1>7, <1>8, <1>9, AllFollow, DieKeeps

\* A section that has lost its counter.
LEMMA NoCounter ==
    ASSUME NEW s \in Sections, NEW u, u = [s EXCEPT !.next = None]
    PROVE  /\ u \in Sections /\ u # None /\ u.records = s.records /\ u.next = None
           /\ \A t \in Tables : Follows(t, s) => Follows(t, u)
  <1>1. u \in Sections /\ u.records = s.records /\ u.next = None
    BY DEF Sections, Counters
  <1> QED BY <1>1, NoneAssumption DEF Follows

LEMMA CrashInSetStep ==
    ASSUME IInv, NEW p \in Paths, CrashInSetFile(p)
    PROVE  IInv'
  <1>1. PICK want \in Entries : want # None /\ Exists(p) /\ Forget({p})
            /\ DieWith(registryFile, IF want.autokey THEN host ELSE [host EXCEPT ![p].next = None],
                       table, [dir EXCEPT ![p[1]][p[2]] = want])
    BY Wanted DEF CrashInSetFile
  <1>2. TypeOK /\ p[1] \in Accounts /\ p[2] \in Files /\ host[p] \in Sections
    BY <1>1, PathParts, AllFollow DEF IInv, Exists
  <1>3. want \in Entries
    OBVIOUS
  <1> DEFINE hosts == IF want.autokey THEN host ELSE [host EXCEPT ![p].next = None]
             entries == [dir EXCEPT ![p[1]][p[2]] = want]
  <1>4. /\ hosts \in [Paths -> Sections \cup {None}] /\ \A q \in Paths : q # p => hosts[q] = host[q]
        /\ hosts[p] # None /\ \A t \in Tables : Follows(t, host[p]) => Follows(t, hosts[p])
    <2>1. CASE hosts = host
      BY <1>1, <2>1, AllFollow DEF Exists
    <2>2. CASE hosts = [host EXCEPT ![p].next = None]
      <3>1. PICK u : u = [host[p] EXCEPT !.next = None]
        OBVIOUS
      <3>2. hosts = [host EXCEPT ![p] = u]
        BY <2>2, <3>1
      <3>3. u \in Sections /\ u # None /\ \A t \in Tables : Follows(t, host[p]) => Follows(t, u)
        BY <1>2, <3>1, NoCounter
      <3> HIDE DEF hosts
      <3> QED BY <3>2, <3>3, AllFollow
    <2> QED BY <2>1, <2>2
  <1>5. entries \in [Accounts -> [Files -> Entries]]
    BY <1>2, <1>3, AllFollow
  <1>6. \A q \in Paths : q # p => entries[q[1]][q[2]] = dir[q[1]][q[2]]
    <2>1. ASSUME NEW q \in Paths, q # p PROVE entries[q[1]][q[2]] = dir[q[1]][q[2]]
      <3>1. q[1] \in Accounts /\ q[2] \in Files /\ ~(q[1] = p[1] /\ q[2] = p[2])
        BY <2>1, PathParts
      <3> QED BY <1>2, <3>1, AllFollow
    <2> QED BY <2>1
  <1>7. DieWith(registryFile, hosts, table, entries)
    BY <1>1
  <1> HIDE DEF hosts, entries
  <1>8. \A q \in Paths : table[q] # None => hosts[q] # None /\ Follows(table[q], hosts[q])
    BY <1>4, AllFollow
  <1> QED BY <1>1, <1>4, <1>5, <1>6, <1>7, <1>8, AllFollow, DieKeeps

LEMMA CrashInDeleteStep ==
    ASSUME IInv, NEW p \in Paths, CrashInDeleteFile(p)
    PROVE  IInv'
  <1>1. PICK left \in Remains(host[p]) : Exists(p) /\ Forget({p})
            /\ DieWith(registryFile, [host EXCEPT ![p] = left], [table EXCEPT ![p] = None], dir)
    BY DEF CrashInDeleteFile
  <1>2. host[p] \in Sections
    BY <1>1, AllFollow DEF Exists
  <1>3. left \in Sections \cup {None}
    BY <1>1, <1>2, EmptySection DEF Remains, Sections, Counters
  <1> DEFINE hosts == [host EXCEPT ![p] = left]
             tables == [table EXCEPT ![p] = None]
  <1>4. /\ hosts \in [Paths -> Sections \cup {None}] /\ tables \in [Paths -> Tables \cup {None}]
        /\ \A q \in Paths : q # p => hosts[q] = host[q]
        /\ \A q \in Paths : tables[q] # None => hosts[q] # None /\ Follows(tables[q], hosts[q])
    BY <1>3, AllFollow
  <1>5. DieWith(registryFile, hosts, tables, dir)
    BY <1>1
  <1> HIDE DEF hosts, tables
  <1> QED BY <1>1, <1>4, <1>5, AllFollow, DieKeeps

LEMMA CrashInDeleteAccountStep ==
    ASSUME IInv, NEW a \in Accounts, CrashInDeleteAccount(a)
    PROVE  IInv'
  <1>1. PICK gone \in SUBSET Files :
          /\ DieWith(registry \ {a},
                     [p \in Paths |-> IF p[1] = a /\ p[2] \in gone THEN None ELSE host[p]],
                     [p \in Paths |-> IF p[1] = a /\ p[2] \in gone THEN None ELSE table[p]], dir)
          /\ Forget({p \in Paths : p[1] = a})
    BY DEF CrashInDeleteAccount
  <1> DEFINE hosts == [p \in Paths |-> IF p[1] = a /\ p[2] \in gone THEN None ELSE host[p]]
             tables == [p \in Paths |-> IF p[1] = a /\ p[2] \in gone THEN None ELSE table[p]]
             paths == {p \in Paths : p[1] = a}
  <1>2. /\ hosts \in [Paths -> Sections \cup {None}] /\ tables \in [Paths -> Tables \cup {None}]
        /\ \A q \in Paths \ paths : hosts[q] = host[q]
        /\ \A q \in Paths : tables[q] # None => hosts[q] # None /\ Follows(tables[q], hosts[q])
    BY AllFollow
  <1>3. DieWith(registry \ {a}, hosts, tables, dir) /\ Forget(paths) /\ registry \ {a} \in SUBSET Accounts
        /\ paths \in SUBSET Paths
    BY <1>1, AllFollow
  <1> HIDE DEF hosts, tables, paths
  <1> QED BY <1>2, <1>3, AllFollow, DieKeeps

-----------------------------------------------------------------------------
(* Accounts.                                                               *)

LEMMA NoEntriesRead == NoEntries \in [Files -> Entries] /\ \A f \in Files : Read(NoEntries[f]) = Default
  BY DEF NoEntries, Read, Entries

LEMMA CreateAccountStep ==
    ASSUME IInv, NEW a \in Accounts, CreateAccount(a)
    PROVE  IInv'
  <1>0. TypeOK /\ DirInv
    BY DEF IInv
  <1>1. /\ UNCHANGED <<host, dirFile, table, cache, reported, handed, haunted>>
        /\ \/ registry' = registry \cup {a} /\ registryFile' = registry'
              /\ dir' = [dir EXCEPT ![a] = IF @ = NoEntries THEN Synced(a, host) ELSE @]
           \/ UNCHANGED <<registry, registryFile, dir>>
    BY DEF CreateAccount, ghosts
  <1>2. registry' \subseteq Accounts /\ registryFile' \subseteq Accounts
    BY <1>1, AllFollow
  <1>3. PICK e \in [Files -> Entries] :
            /\ dir' = [dir EXCEPT ![a] = e]
            /\ e = dir[a] \/ \A f \in Files : Read(e[f]) = Default /\ Read(dir[a][f]) = Default
    <2>1. CASE dir' = [dir EXCEPT ![a] = Synced(a, host)] /\ dir[a] = NoEntries
      <3>1. Synced(a, host) \in [Files -> Entries]
        BY <1>0, AllFollow, SyncedFacts
      <3>2. \A f \in Files : Read(dir[a][f]) = Default
        BY <2>1, NoEntriesRead
      <3>3. \A f \in Files : Read(Synced(a, host)[f]) = Default
        <4>1. ASSUME NEW f \in Files, Read(Synced(a, host)[f]) # Default PROVE FALSE
          <5>1. Synced(a, host)[f] = dir[a][f]
            BY <1>0, <4>1, AllFollow, SyncedFacts
          <5> QED BY <3>2, <4>1, <5>1
        <4> QED BY <4>1
      <3> QED BY <2>1, <3>1, <3>2, <3>3
    <2>2. CASE dir' = dir
      BY <2>2, AllFollow
    <2>3. dir' = [dir EXCEPT ![a] = IF @ = NoEntries THEN Synced(a, host) ELSE @]
          => dir' = dir \/ (dir' = [dir EXCEPT ![a] = Synced(a, host)] /\ dir[a] = NoEntries)
      BY AllFollow
    <2> QED BY <1>1, <2>1, <2>2, <2>3
  <1>4. dir' \in [Accounts -> [Files -> Entries]] /\ dir'[a] = e /\ \A b \in Accounts : b # a => dir'[b] = dir[b]
    BY <1>3, AllFollow
  <1>5. TypeOK'
    BY <1>0, <1>1, <1>2, <1>4 DEF TypeOK
  <1>6. DirInv'
    BY <1>0, <1>1, <1>3, <1>4 DEF DirInv
  <1>7. ASSUME NEW p \in Paths PROVE PathInv(p)'
    <2>1. p[1] \in Accounts /\ p[2] \in Files
      BY PathParts
    <2>2. Listed(p)' = Listed(p)
      BY <1>3, <1>4, <2>1 DEF Listed
    <2> QED BY <1>1, <2>2, PathStays
  <1> QED BY <1>5, <1>6, <1>7 DEF IInv

LEMMA DeleteAccountStep ==
    ASSUME IInv, NEW a \in Accounts, DeleteAccount(a)
    PROVE  IInv'
  <1>0. TypeOK /\ DirInv
    BY DEF IInv
  <1>1. /\ registry' = registry \ {a} /\ registryFile' = registry'
        /\ host' = [p \in Paths |-> IF p[1] = a THEN None ELSE host[p]]
        /\ table' = [p \in Paths |-> IF p[1] = a THEN None ELSE table[p]]
        /\ dir' = [dir EXCEPT ![a] = NoEntries] /\ dirFile' = [dirFile EXCEPT ![a] = NoEntries]
        /\ cache' = [p \in Paths |-> IF p[1] = a /\ table[p] # None THEN None ELSE cache[p]]
        /\ reported' = [p \in Paths |-> IF p[1] = a THEN None ELSE reported[p]]
        /\ handed' = [p \in Paths |-> IF p[1] = a THEN {} ELSE handed[p]]
        /\ haunted' = haunted \cup {p \in Paths : p[1] = a /\ cache'[p] # None}
    BY DEF DeleteAccount, Dropped
  <1>2. TypeOK'
    <2>1. registry' \subseteq Accounts /\ registryFile' \subseteq Accounts /\ haunted' \subseteq Paths
      BY <1>0, <1>1, TypeParts
    <2>2. host' \in [Paths -> Sections \cup {None}] /\ table' \in [Paths -> Tables \cup {None}]
          /\ \A p \in Paths : table'[p] # None => host'[p] # None
      BY <1>0, <1>1, TypeParts
    <2>3. dir' \in [Accounts -> [Files -> Entries]] /\ dirFile' \in [Accounts -> [Files -> Entries]]
      BY <1>0, <1>1, TypeParts, NoEntriesRead
    <2>4. cache' \in [Paths -> Entries] /\ reported' \in [Paths -> Entries] /\ handed' \in [Paths -> SUBSET Keys]
      BY <1>0, <1>1, TypeParts DEF Entries
    <2> QED BY <2>1, <2>2, <2>3, <2>4 DEF TypeOK
  <1>3. DirInv'
    BY <1>0, <1>1, NoEntriesRead, TypeParts DEF DirInv
  <1>4. ASSUME NEW p \in Paths PROVE PathInv(p)'
    <2>1. p[1] \in Accounts /\ p[2] \in Files
      BY PathParts
    <2>2. CASE p[1] = a
      BY <1>1, <2>2, PathGone
    <2>3. CASE p[1] # a
      <3>1. Listed(p)' = Listed(p)
        BY <1>1, <2>1, <2>3, AllFollow DEF Listed
      <3> QED BY <1>1, <2>3, <3>1, PathStays
    <2> QED BY <2>2, <2>3
  <1> QED BY <1>2, <1>3, <1>4 DEF IInv

-----------------------------------------------------------------------------
(* Steps that save everything.                                             *)

\* After a save every table is clean and follows its section, the listings on
\* disk are those in memory, and the counters on disk are where they were or
\* further on.
LEMMA SaveKeeps ==
    ASSUME NEW hosts \in [Paths -> Sections \cup {None}], NEW tables \in [Paths -> Tables \cup {None}],
           NEW entries \in [Accounts -> [Files -> Entries]], Save(hosts, tables, entries),
           \A p \in Paths : tables[p] # None => hosts[p] # None /\ Follows(tables[p], hosts[p])
    PROVE  /\ host' \in [Paths -> Sections \cup {None}] /\ table' \in [Paths -> Tables \cup {None}]
           /\ dir' = entries /\ dir' \in [Accounts -> [Files -> Entries]]
           /\ dirFile' \in [Accounts -> [Files -> Entries]] /\ DirInv'
           /\ \A p \in Paths :
                /\ table'[p] # None => host'[p] # None
                /\ TableInv(p)'
                /\ host'[p] = None <=> hosts[p] = None
                /\ \A H \in SUBSET Keys : Beyond(hosts[p], H) => Beyond(host'[p], H)
  <1>0. /\ Saved(hosts, tables) \in [Paths -> Sections \cup {None}]
        /\ [p \in Paths |-> Clean(tables[p])] \in [Paths -> Tables \cup {None}]
        /\ \A p \in Paths :
             /\ Clean(tables[p]) # None => /\ tables[p] # None /\ Saved(hosts, tables)[p] # None
                                           /\ Follows(Clean(tables[p]), Saved(hosts, tables)[p])
                                           /\ Clean(tables[p]).dirty = {}
             /\ Saved(hosts, tables)[p] = None <=> hosts[p] = None
             /\ \A H \in SUBSET Keys : Beyond(hosts[p], H) => Beyond(Saved(hosts, tables)[p], H)
    BY SaveFacts, Zenon
  <1>1. host' = Saved(hosts, tables) /\ table' = [p \in Paths |-> Clean(tables[p])]
        /\ dir' = entries /\ dirFile' = entries
    BY DEF Save
  <1>2. DirInv'
    BY <1>1 DEF DirInv
  <1>3. ASSUME NEW p \in Paths
        PROVE  /\ table'[p] # None => host'[p] # None /\ Follows(table'[p], host'[p]) /\ table'[p].dirty = {}
               /\ host'[p] = None <=> hosts[p] = None
               /\ \A H \in SUBSET Keys : Beyond(hosts[p], H) => Beyond(host'[p], H)
    <2>1. table'[p] = Clean(tables[p]) /\ host'[p] = Saved(hosts, tables)[p]
      BY <1>1
    <2>2. /\ Clean(tables[p]) # None => /\ Saved(hosts, tables)[p] # None
                                        /\ Follows(Clean(tables[p]), Saved(hosts, tables)[p])
                                        /\ Clean(tables[p]).dirty = {}
          /\ Saved(hosts, tables)[p] = None <=> hosts[p] = None
          /\ \A H \in SUBSET Keys : Beyond(hosts[p], H) => Beyond(Saved(hosts, tables)[p], H)
      BY <1>0
    <2> QED BY <2>1, <2>2
  <1>4. \A p \in Paths : TableInv(p)'
    BY <1>3 DEF TableInv
  <1> QED BY <1>0, <1>1, <1>2, <1>3, <1>4

\* A file a save does nothing to but flush it.
LEMMA PathSaved ==
    ASSUME IInv, NEW p \in Paths, TableInv(p)', host'[p] = None <=> host[p] = None,
           \A H \in SUBSET Keys : Beyond(host[p], H) => Beyond(host'[p], H),
           host[p] # None => Listed(p)' = Listed(p),
           cache'[p] = cache[p] \/ (host[p] # None /\ cache'[p] = AttributesOf(p)),
           p \in haunted <=> p \in haunted', reported'[p] = reported[p], handed'[p] = handed[p]
    PROVE  PathInv(p)'
  <1>1. TypeOK /\ PathInv(p) /\ handed[p] \in SUBSET Keys
    BY TypeParts DEF IInv
  <1>2. CacheInv(p)' /\ ToldInv(p)'
    BY <1>1, TellKept DEF PathInv
  <1>3. HandedInv(p)'
    BY <1>1 DEF HandedInv, PathInv
  <1> QED BY <1>2, <1>3 DEF PathInv

LEMMA CreateTestAccountStep ==
    ASSUME IInv, NEW a \in Accounts, CreateTestAccount(a)
    PROVE  IInv'
  <1>0. TypeOK /\ DirInv
    BY DEF IInv
  <1>1. PICK given \in [Files -> {Default, [Default EXCEPT !.queue = TRUE, !.durable = TRUE]}] :
          /\ \A f \in Files : host[<<a, f>>] = None
          /\ registry' = registry \cup {a} /\ registryFile' = registry'
          /\ Save([p \in Paths |-> IF p[1] = a THEN Fixture(p) ELSE host[p]], table, [dir EXCEPT ![a] = given])
          /\ cache' = [p \in Paths |-> IF p[1] = a /\ given[p[2]] # Default THEN given[p[2]] ELSE cache[p]]
          /\ haunted' = {p \in haunted : ~(p[1] = a /\ given[p[2]] # Default)}
          /\ UNCHANGED <<reported, handed>>
    BY DEF CreateTestAccount
  <1> DEFINE hosts == [p \in Paths |-> IF p[1] = a THEN Fixture(p) ELSE host[p]]
             entries == [dir EXCEPT ![a] = given]
  <1>2. {Default, [Default EXCEPT !.queue = TRUE, !.durable = TRUE]} \subseteq Attributes
    BY DEF Default, Attributes, Flags
  <1>3. given \in [Files -> Entries] /\ \A f \in Files : given[f] \in Attributes /\ given[f] # None
    BY <1>2, CatalogAssumption DEF Entries
  <1>4. \A p \in Paths : p[1] = a => host[p] = None /\ table[p] = None
    BY <1>1, PathParts, AllFollow
  <1>5. \A p \in Paths : Fixture(p) \in Sections /\ Fixture(p) # None
    <2>1. (CHOOSE k \in Keys : TRUE) \in Keys
      BY CatalogAssumption
    <2>2. PICK k \in Keys : k = CHOOSE j \in Keys : TRUE
      BY <2>1
    <2>3. \A p \in Paths : Fixture(p) = [records |-> {k}, dict |-> TRUE, next |-> None]
      BY <2>2 DEF Fixture
    <2>4. [records |-> {k}, dict |-> TRUE, next |-> None] \in Sections
      BY DEF Sections, Counters
    <2> QED BY <2>3, <2>4, NoneAssumption
  <1>6. /\ hosts \in [Paths -> Sections \cup {None}]
        /\ \A p \in Paths : hosts[p] = IF p[1] = a THEN Fixture(p) ELSE host[p]
        /\ \A p \in Paths : table[p] # None => hosts[p] # None /\ Follows(table[p], hosts[p])
    BY <1>4, <1>5, AllFollow
  <1>7. /\ entries \in [Accounts -> [Files -> Entries]] /\ entries[a] = given
        /\ \A b \in Accounts : b # a => entries[b] = dir[b]
    BY <1>3, AllFollow
  <1>8. Save(hosts, table, entries)
    BY <1>1
  <1> HIDE DEF hosts, entries
  <1>9. /\ host' \in [Paths -> Sections \cup {None}] /\ table' \in [Paths -> Tables \cup {None}]
        /\ dir' = entries /\ dir' \in [Accounts -> [Files -> Entries]]
        /\ dirFile' \in [Accounts -> [Files -> Entries]] /\ DirInv'
        /\ \A p \in Paths :
             /\ table'[p] # None => host'[p] # None
             /\ TableInv(p)'
             /\ host'[p] = None <=> hosts[p] = None
             /\ \A H \in SUBSET Keys : Beyond(hosts[p], H) => Beyond(host'[p], H)
    BY <1>6, <1>7, <1>8, AllFollow, SaveKeeps
  <1>10. TypeOK'
    <2>1. registry' \subseteq Accounts /\ registryFile' \subseteq Accounts /\ haunted' \subseteq Paths
      BY <1>0, <1>1, TypeParts
    <2>2. cache' \in [Paths -> Entries]
      BY <1>0, <1>1, <1>3, TypeParts, PathParts
    <2> QED BY <1>0, <1>1, <1>9, <2>1, <2>2 DEF TypeOK
  <1>11. ASSUME NEW p \in Paths PROVE PathInv(p)'
    <2>1. p[1] \in Accounts /\ p[2] \in Files /\ PathInv(p)
      BY PathParts DEF IInv
    <2>2. CASE p[1] = a
      <3>1. host[p] = None /\ reported'[p] = None /\ handed'[p] = {} /\ host'[p] # None
        BY <1>1, <1>4, <1>5, <1>6, <1>9, <2>1, <2>2 DEF PathInv, ToldInv
      <3>2. Listed(p)' = given[p[2]]
        BY <1>3, <1>7, <1>9, <2>1, <2>2 DEF Listed, Read
      <3>3. CacheInv(p)'
        BY <1>1, <2>1, <2>2, <3>1, <3>2 DEF CacheInv, PathInv
      <3>4. ToldInv(p)' /\ HandedInv(p)'
        BY <3>1 DEF ToldInv, HandedInv, Beyond
      <3> QED BY <1>9, <3>3, <3>4 DEF PathInv
    <2>3. CASE p[1] # a
      <3>1. Listed(p)' = Listed(p)
        BY <1>7, <1>9, <2>1, <2>3 DEF Listed
      <3>2. hosts[p] = host[p] /\ cache'[p] = cache[p] /\ (p \in haunted <=> p \in haunted')
        BY <1>1, <1>6, <2>3
      <3> QED BY <1>1, <1>9, <3>1, <3>2, PathSaved
    <2> QED BY <2>2, <2>3
  <1> QED BY <1>9, <1>10, <1>11 DEF IInv

\* The listing of one account made again, in memory: what it says of the files
\* that are there stays.
LEMMA SyncKeeps ==
    ASSUME TypeOK, DirInv, NEW a \in Accounts, NEW hosts \in [Paths -> Sections \cup {None}],
           dir' = [dir EXCEPT ![a] = Synced(a, hosts)], dirFile' = dirFile
    PROVE  /\ dir' \in [Accounts -> [Files -> Entries]] /\ dirFile' \in [Accounts -> [Files -> Entries]] /\ DirInv'
           /\ \A p \in Paths : hosts[p] # None => Listed(p)' = Listed(p)
  <1>1. PICK e : e = Synced(a, hosts)
    OBVIOUS
  <1>2. /\ e \in [Files -> Entries]
        /\ \A f \in Files : hosts[<<a, f>>] # None => Read(e[f]) = Read(dir[a][f])
        /\ \A f \in Files : Read(e[f]) # Default => e[f] = dir[a][f]
    BY <1>1, SyncedFacts
  <1>3. dir \in [Accounts -> [Files -> Entries]] /\ dirFile \in [Accounts -> [Files -> Entries]]
    BY TypeParts
  <1>4. dir' \in [Accounts -> [Files -> Entries]] /\ dir'[a] = e /\ \A b \in Accounts : b # a => dir'[b] = dir[b]
    BY <1>1, <1>2, <1>3
  <1>5. ASSUME NEW b \in Accounts, NEW f \in Files, Read(dir'[b][f]) # Default PROVE dirFile'[b][f] = dir'[b][f]
    BY <1>2, <1>4, <1>5 DEF DirInv
  <1>6. DirInv'
    BY <1>5 DEF DirInv
  <1>7. ASSUME NEW p \in Paths, hosts[p] # None PROVE Listed(p)' = Listed(p)
    <2>1. p[1] \in Accounts /\ p[2] \in Files /\ p = <<p[1], p[2]>>
      BY PathParts
    <2> QED BY <1>2, <1>4, <1>7, <2>1 DEF Listed
  <1> QED BY <1>3, <1>4, <1>6, <1>7

\* A file that was not there: nothing of it was loaded or told.
LEMMA PathNew ==
    ASSUME IInv, NEW p \in Paths, host[p] = None, table'[p] = table[p], cache'[p] = cache[p],
           p \in haunted <=> p \in haunted', reported'[p] = reported[p], handed'[p] = handed[p]
    PROVE  PathInv(p)'
  <1>1. PathInv(p) /\ table[p] = None
    BY AllFollow DEF IInv
  <1> QED BY <1>1 DEF PathInv, CacheInv, ToldInv, TableInv, HandedInv, Beyond

\* A section that has lost its dictionary.
LEMMA NoDict ==
    ASSUME NEW s \in Sections, NEW u, u = [s EXCEPT !.dict = FALSE]
    PROVE  u \in Sections /\ u # None /\ u.records = s.records /\ u.next = s.next
  <1>1. u \in Sections /\ u.records = s.records /\ u.next = s.next
    BY DEF Sections
  <1> QED BY <1>1, NoneAssumption

\* A step that changes no more of p's section than its dictionary.
LEMMA DictOnly ==
    ASSUME IInv, NEW p \in Paths, host[p] # None, host'[p] # None,
           host'[p].records = host[p].records, host'[p].next = host[p].next,
           table'[p] = table[p] \/ table'[p] = None, Listed(p)' = Listed(p), cache'[p] = cache[p],
           p \in haunted <=> p \in haunted', reported'[p] = reported[p], handed'[p] = handed[p]
    PROVE  PathInv(p)'
  <1>1. TypeOK /\ PathInv(p)
    BY DEF IInv
  <1>2. CacheInv(p)' /\ ToldInv(p)'
    BY <1>1, TellKept DEF PathInv
  <1>3. AttributesOf(p)' = AttributesOf(p)
    BY <1>1, AttributesKept
  <1>4. HandedInv(p)'
    BY <1>1 DEF PathInv, HandedInv, Beyond
  <1>5. TableInv(p)'
    BY <1>1, <1>3 DEF PathInv, TableInv, Follows
  <1> QED BY <1>2, <1>4, <1>5 DEF PathInv

LEMMA CreateTestFailsStep ==
    ASSUME IInv, NEW a \in Accounts, CreateTestFails(a)
    PROVE  IInv'
  <1>0. TypeOK /\ DirInv
    BY DEF IInv
  <1>1. PICK p \in Paths, made \in SUBSET Files :
          /\ p[1] = a /\ host[p] # None /\ \A f \in made : host[<<a, f>>] = None
          /\ registry' = registry \cup {a} /\ registryFile' = registry'
          /\ host' = [q \in Paths |-> IF q = p THEN [host[p] EXCEPT !.dict = FALSE]
                                      ELSE IF q[1] = a /\ q[2] \in made THEN Empty ELSE host[q]]
          /\ dir' = [dir EXCEPT ![a] = Synced(a, host')]
          /\ UNCHANGED <<dirFile, table, cache, reported, handed, haunted>>
    BY DEF CreateTestFails, ghosts
  <1>2. PICK hosts, u : hosts = host' /\ u = [host[p] EXCEPT !.dict = FALSE]
    OBVIOUS
  <1>3. u \in Sections /\ u # None /\ u.records = host[p].records /\ u.next = host[p].next
    BY <1>1, <1>2, AllFollow, NoDict
  <1>4. /\ hosts \in [Paths -> Sections \cup {None}] /\ host'[p] = u
        /\ \A q \in Paths : q # p => host'[q] = IF q[1] = a /\ q[2] \in made THEN Empty ELSE host[q]
        /\ \A q \in Paths : host[q] # None => host'[q] # None
    BY <1>1, <1>2, <1>3, AllFollow, EmptySection
  <1>5. /\ dir' \in [Accounts -> [Files -> Entries]] /\ dirFile' \in [Accounts -> [Files -> Entries]] /\ DirInv'
        /\ \A q \in Paths : hosts[q] # None => Listed(q)' = Listed(q)
    BY <1>0, <1>1, <1>2, <1>4, SyncKeeps
  <1>6. TypeOK'
    <2>1. registry' \subseteq Accounts /\ registryFile' \subseteq Accounts
      BY <1>0, <1>1, TypeParts
    <2>2. \A q \in Paths : table'[q] # None => host'[q] # None
      BY <1>1, <1>4, AllFollow
    <2> QED BY <1>0, <1>1, <1>2, <1>4, <1>5, <2>1, <2>2 DEF TypeOK
  <1>7. ASSUME NEW q \in Paths PROVE PathInv(q)'
    <2>1. CASE q = p
      BY <1>1, <1>2, <1>3, <1>4, <1>5, <2>1, DictOnly
    <2>2. CASE q # p /\ q[1] = a /\ q[2] \in made
      <3>1. host[q] = None
        BY <1>1, <2>2, PathParts
      <3> QED BY <1>1, <3>1, PathNew
    <2>3. CASE q # p /\ ~(q[1] = a /\ q[2] \in made)
      <3>1. host'[q] = host[q]
        BY <1>4, <2>3
      <3>2. host[q] # None => Listed(q)' = Listed(q)
        BY <1>2, <1>5, <3>1
      <3> QED BY <1>1, <3>1, <3>2, PathStays
    <2> QED BY <2>1, <2>2, <2>3
  <1> QED BY <1>5, <1>6, <1>7 DEF IInv

LEMMA FlushDirStep ==
    ASSUME IInv, NEW a \in Accounts, FlushDir(a)
    PROVE  IInv'
  <1>0. TypeOK /\ DirInv
    BY DEF IInv
  <1>1. /\ dirFile' = [dirFile EXCEPT ![a] = dir[a]]
        /\ UNCHANGED <<registry, registryFile, host, table, dir, cache, reported, handed, haunted>>
    BY DEF FlushDir, ghosts
  <1>2. dirFile \in [Accounts -> [Files -> Entries]] /\ dir[a] \in [Files -> Entries]
    BY <1>0, TypeParts
  <1>3. dirFile' \in [Accounts -> [Files -> Entries]]
    BY <1>1, <1>2
  <1>4. TypeOK'
    BY <1>0, <1>1, <1>3 DEF TypeOK
  <1>5. DirInv'
    BY <1>0, <1>1, <1>2 DEF DirInv
  <1>6. ASSUME NEW p \in Paths PROVE PathInv(p)'
    <2>1. Listed(p)' = Listed(p)
      BY <1>1 DEF Listed
    <2> QED BY <1>1, <2>1, PathStays
  <1> QED BY <1>4, <1>5, <1>6 DEF IInv

-----------------------------------------------------------------------------
(* Files.                                                                  *)

\* set_file_attributes_for_account on a file that is there, told to the client.
LEMMA SetKeeps ==
    ASSUME IInv, NEW p \in Paths, NEW want \in Attributes, NEW hosts \in [Paths -> Sections \cup {None}],
           NEW entries \in [Accounts -> [Files -> Entries]],
           hosts[p] # None, \A q \in Paths : q # p => hosts[q] = host[q],
           table[p] # None => Follows(table[p], hosts[p]),
           \A q \in Paths : q # p /\ host[q] # None => Read(entries[q[1]][q[2]]) = Listed(q),
           want.autokey => Beyond(hosts[p], handed[p]),
           SetAttributes(p, want, hosts, table, entries), Tell(p, want), UNCHANGED <<registry, registryFile>>
    PROVE  IInv'
  <1>0. TypeOK /\ p[1] \in Accounts /\ p[2] \in Files /\ want \in Entries /\ want # None /\ hosts[p] \in Sections
    BY PathParts, CatalogAssumption DEF IInv, Entries
  <1>1. PICK u, t :
          /\ u = IF want.autokey THEN hosts[p] ELSE [hosts[p] EXCEPT !.next = None]
          /\ t = IF want.autokey \/ table[p] = None THEN table[p]
                 ELSE [table[p] EXCEPT !.next = None, !.dirty = @ \ {"next"}]
    OBVIOUS
  <1>2. /\ u \in Sections /\ u # None /\ t \in Tables \cup {None}
        /\ (t # None <=> table[p] # None) /\ (t # None => Follows(t, u))
    <2>1. table[p] \in Tables \cup {None}
      BY AllFollow
    <2>2. CASE want.autokey
      BY <1>0, <1>1, <2>1, <2>2
    <2>3. CASE ~want.autokey
      <3>1. u \in Sections /\ u # None /\ u.records = hosts[p].records /\ u.next = None
        BY <1>0, <1>1, <2>3, NoCounter
      <3>2. CASE table[p] = None
        BY <1>1, <2>3, <3>1, <3>2
      <3>3. CASE table[p] # None
        <4>1. t = [table[p] EXCEPT !.next = None, !.dirty = @ \ {"next"}] /\ table[p] \in Tables
          BY <1>1, <2>1, <2>3, <3>3
        <4>2. /\ t \in Tables /\ t.records = table[p].records /\ t.next = None
              /\ t.dirty = table[p].dirty \ {"next"}
          BY <4>1 DEF Tables, Counters
        <4>3. Follows(t, u)
          BY <3>1, <3>3, <4>2 DEF Follows
        <4> QED BY <3>1, <3>3, <4>2, <4>3, NoneAssumption
      <3> QED BY <3>2, <3>3
    <2> QED BY <2>2, <2>3
  <1> DEFINE hosts2 == IF want.autokey THEN hosts ELSE [hosts EXCEPT ![p].next = None]
             tables2 == IF want.autokey \/ table[p] = None THEN table
                        ELSE [table EXCEPT ![p].next = None, ![p].dirty = @ \ {"next"}]
             entries2 == [entries EXCEPT ![p[1]][p[2]] = want]
  <1>3. Save(hosts2, tables2, entries2) /\ cache' = [cache EXCEPT ![p] = want]
    BY DEF SetAttributes
  <1>4. hosts2 = [hosts EXCEPT ![p] = u]
    BY <1>1
  <1>5. tables2 = [table EXCEPT ![p] = t]
    BY <1>1, AllFollow
  <1>6. /\ entries2 \in [Accounts -> [Files -> Entries]] /\ entries2[p[1]][p[2]] = want
        /\ \A q \in Paths : q # p => entries2[q[1]][q[2]] = entries[q[1]][q[2]]
    <2>1. entries2 \in [Accounts -> [Files -> Entries]] /\ entries2[p[1]][p[2]] = want
      BY <1>0
    <2>2. ASSUME NEW q \in Paths, q # p PROVE entries2[q[1]][q[2]] = entries[q[1]][q[2]]
      <3>1. q[1] \in Accounts /\ q[2] \in Files /\ ~(q[1] = p[1] /\ q[2] = p[2])
        BY <2>2, PathParts
      <3> QED BY <1>0, <3>1
    <2> QED BY <2>1, <2>2
  <1> HIDE DEF hosts2, tables2, entries2
  <1>7. /\ hosts2 \in [Paths -> Sections \cup {None}] /\ tables2 \in [Paths -> Tables \cup {None}]
        /\ hosts2[p] = u /\ \A q \in Paths : q # p => hosts2[q] = host[q]
        /\ \A q \in Paths : tables2[q] # None => hosts2[q] # None /\ Follows(tables2[q], hosts2[q])
    BY <1>2, <1>4, <1>5, AllFollow
  <1>8. /\ host' \in [Paths -> Sections \cup {None}] /\ table' \in [Paths -> Tables \cup {None}]
        /\ dir' = entries2 /\ dir' \in [Accounts -> [Files -> Entries]]
        /\ dirFile' \in [Accounts -> [Files -> Entries]] /\ DirInv'
        /\ \A q \in Paths :
             /\ table'[q] # None => host'[q] # None
             /\ TableInv(q)'
             /\ host'[q] = None <=> hosts2[q] = None
             /\ \A H \in SUBSET Keys : Beyond(hosts2[q], H) => Beyond(host'[q], H)
    BY <1>3, <1>6, <1>7, SaveKeeps
  <1>9. /\ reported' = [reported EXCEPT ![p] = want]
        /\ handed' = [handed EXCEPT ![p] = IF want.autokey THEN @ ELSE {}]
        /\ haunted' = haunted \ {p}
    BY DEF Tell
  <1>10. TypeOK'
    <2>1. cache' \in [Paths -> Entries] /\ reported' \in [Paths -> Entries]
      BY <1>0, <1>3, <1>9, TypeParts
    <2>2. handed' \in [Paths -> SUBSET Keys] /\ haunted' \subseteq Paths
      BY <1>0, <1>9, TypeParts
    <2>3. registry' \subseteq Accounts /\ registryFile' \subseteq Accounts
      BY <1>0, TypeParts
    <2> QED BY <1>8, <2>1, <2>2, <2>3 DEF TypeOK
  <1>11. cache \in [Paths -> Entries] /\ reported \in [Paths -> Entries] /\ handed \in [Paths -> SUBSET Keys]
    BY <1>0, TypeParts
  <1>12. ASSUME NEW q \in Paths PROVE PathInv(q)'
    <2>1. CASE q = p
      <3>1. /\ cache'[p] = want /\ reported'[p] = want /\ host'[p] # None
            /\ handed'[p] = IF want.autokey THEN handed[p] ELSE {}
        BY <1>2, <1>3, <1>7, <1>8, <1>9, <1>11
      <3>2. Listed(p)' = want
        BY <1>0, <1>6, <1>8 DEF Listed, Read
      <3>3. CacheInv(p)' /\ ToldInv(p)'
        BY <3>1, <3>2 DEF CacheInv, ToldInv
      <3>4. HandedInv(p)'
        <4>1. CASE want.autokey
          <5>1. Beyond(hosts2[p], handed[p])
            BY <1>1, <1>7, <4>1
          <5> QED BY <1>8, <1>11, <3>1, <4>1, <5>1 DEF HandedInv
        <4>2. CASE ~want.autokey
          BY <3>1, <4>2 DEF HandedInv, Beyond
        <4> QED BY <4>1, <4>2
      <3> QED BY <1>8, <2>1, <3>3, <3>4 DEF PathInv
    <2>2. CASE q # p
      <3>1. /\ cache'[q] = cache[q] /\ reported'[q] = reported[q] /\ handed'[q] = handed[q]
            /\ (q \in haunted <=> q \in haunted') /\ hosts2[q] = host[q]
        BY <1>3, <1>7, <1>9, <1>11, <2>2
      <3>2. host[q] # None => Listed(q)' = Listed(q)
        <4>1. Listed(q)' = Read(entries[q[1]][q[2]])
          BY <1>6, <1>8, <2>2 DEF Listed
        <4> QED BY <2>2, <4>1
      <3> QED BY <1>8, <3>1, <3>2, PathSaved
    <2> QED BY <2>1, <2>2
  <1> QED BY <1>8, <1>10, <1>12 DEF IInv

LEMMA CreateFileStep ==
    ASSUME IInv, NEW p \in Paths, CreateFile(p)
    PROVE  IInv'
  <1> DEFINE hosts == [host EXCEPT ![p] = Empty]
             entries == [dir EXCEPT ![p[1]] = Synced(p[1], hosts)]
  <1>1. PICK want \in Entries :
          /\ want # None /\ host[p] = None
          /\ \/ /\ want # Default
                /\ SetAttributes(p, want, hosts, table, entries)
                /\ Tell(p, want)
             \/ /\ host' = hosts /\ dir' = entries
                /\ cache' = [cache EXCEPT ![p] = IF @ # None THEN @ ELSE Read(entries[p[1]][p[2]])]
                /\ reported' = [reported EXCEPT ![p] = cache'[p]]
                /\ UNCHANGED <<table, dirFile, handed, haunted>>
          /\ UNCHANGED <<registry, registryFile>>
    BY Wanted DEF CreateFile
  <1>2. TypeOK /\ DirInv /\ p[1] \in Accounts /\ p[2] \in Files /\ Default \in Attributes /\ PathInv(p)
    BY PathParts DEF IInv, Default, Attributes
  <1>3. want \in Attributes
    BY <1>1 DEF Entries
  <1>4. /\ hosts \in [Paths -> Sections \cup {None}] /\ hosts[p] = Empty
        /\ \A q \in Paths : q # p => hosts[q] = host[q]
    BY AllFollow, EmptySection
  <1>5. table[p] = None /\ reported[p] = None /\ handed[p] = {}
    BY <1>1, <1>2, AllFollow DEF PathInv, ToldInv
  <1> HIDE DEF hosts
  <1>6. /\ entries \in [Accounts -> [Files -> Entries]] /\ entries[p[1]] = Synced(p[1], hosts)
        /\ \A b \in Accounts : b # p[1] => entries[b] = dir[b]
    BY <1>2, <1>4, SyncedFacts, AllFollow
  <1>7. ASSUME NEW q \in Paths, hosts[q] # None PROVE Read(entries[q[1]][q[2]]) = Listed(q)
    <2>1. q[1] \in Accounts /\ q[2] \in Files /\ q = <<q[1], q[2]>>
      BY PathParts
    <2>2. CASE q[1] = p[1]
      <3>1. hosts[<<p[1], q[2]>>] # None
        BY <1>7, <2>1, <2>2
      <3>2. Read(Synced(p[1], hosts)[q[2]]) = Read(dir[p[1]][q[2]])
        BY <1>2, <1>4, <2>1, <3>1, SyncedFacts
      <3> QED BY <1>6, <2>2, <3>2 DEF Listed
    <2>3. CASE q[1] # p[1]
      BY <1>6, <2>1, <2>3 DEF Listed
    <2> QED BY <2>2, <2>3
  <1>8. CASE SetAttributes(p, want, hosts, table, entries) /\ Tell(p, want)
    <2> HIDE DEF entries
    <2>1. Beyond(hosts[p], handed[p]) /\ hosts[p] # None
      BY <1>4, <1>5, EmptySection DEF Beyond
    <2>2. \A q \in Paths : q # p /\ host[q] # None => Read(entries[q[1]][q[2]]) = Listed(q)
      BY <1>4, <1>7
    <2>3. /\ UNCHANGED <<registry, registryFile>>
          /\ table[p] # None => Follows(table[p], hosts[p])
          /\ want.autokey => Beyond(hosts[p], handed[p])
          /\ entries \in [Accounts -> [Files -> Entries]]
          /\ hosts \in [Paths -> Sections \cup {None}]
          /\ \A q \in Paths : q # p => hosts[q] = host[q]
      BY <1>1, <1>4, <1>5, <1>6, <2>1
    <2> QED BY <1>3, <1>8, <2>1, <2>2, <2>3, SetKeeps
  <1>9. CASE /\ host' = hosts /\ dir' = entries
             /\ cache' = [cache EXCEPT ![p] = IF @ # None THEN @ ELSE Read(entries[p[1]][p[2]])]
             /\ reported' = [reported EXCEPT ![p] = cache'[p]]
             /\ UNCHANGED <<table, dirFile, handed, haunted>>
    <2>1. /\ dir' \in [Accounts -> [Files -> Entries]] /\ dirFile' \in [Accounts -> [Files -> Entries]] /\ DirInv'
          /\ \A q \in Paths : hosts[q] # None => Listed(q)' = Listed(q)
      BY <1>2, <1>4, <1>9, SyncKeeps
    <2>2. PICK e : e = IF cache[p] # None THEN cache[p] ELSE Read(entries[p[1]][p[2]])
      OBVIOUS
    <2>3. cache \in [Paths -> Entries] /\ reported \in [Paths -> Entries]
      BY <1>2, TypeParts
    <2>4. entries[p[1]][p[2]] \in Entries
      BY <1>2, <1>6
    <2>5. e \in Entries /\ e # None
      BY <2>2, <2>3, <2>4, ReadTypes
    <2>6. cache' = [cache EXCEPT ![p] = e] /\ reported' = [reported EXCEPT ![p] = e]
      BY <1>9, <2>2, <2>3
    <2>7. TypeOK'
      <3>1. cache' \in [Paths -> Entries] /\ reported' \in [Paths -> Entries]
        BY <2>3, <2>5, <2>6
      <3>2. host' \in [Paths -> Sections \cup {None}] /\ \A q \in Paths : table'[q] # None => host'[q] # None
        BY <1>4, <1>9, AllFollow, EmptySection
      <3> QED BY <1>1, <1>2, <1>9, <2>1, <3>1, <3>2 DEF TypeOK
    <2>8. ASSUME NEW q \in Paths PROVE PathInv(q)'
      <3>1. CASE q = p
        <4>1. /\ cache'[p] = e /\ reported'[p] = e /\ host'[p] = Empty /\ Empty # None
              /\ table'[p] = None /\ handed'[p] = {} /\ (p \in haunted <=> p \in haunted')
          BY <1>4, <1>5, <1>9, <2>3, <2>6, EmptySection
        <4>2. p \notin haunted => cache[p] = None
          BY <1>1, <1>2 DEF PathInv, CacheInv
        <4>3. p \notin haunted => e = Listed(p)'
          BY <1>9, <2>2, <4>2 DEF Listed
        <4>4. CacheInv(p)' /\ ToldInv(p)'
          BY <4>1, <4>3 DEF CacheInv, ToldInv
        <4>5. TableInv(p)' /\ HandedInv(p)'
          BY <4>1 DEF TableInv, HandedInv, Beyond
        <4> QED BY <3>1, <4>4, <4>5 DEF PathInv
      <3>2. CASE q # p
        <4>1. /\ cache'[q] = cache[q] /\ reported'[q] = reported[q] /\ host'[q] = host[q]
              /\ (host[q] # None => Listed(q)' = Listed(q))
          BY <1>4, <1>9, <2>1, <2>3, <2>6, <3>2
        <4> QED BY <1>9, <4>1, PathStays
      <3> QED BY <3>1, <3>2
    <2> QED BY <2>1, <2>7, <2>8 DEF IInv
  <1> QED BY <1>1, <1>8, <1>9

LEMMA CreateExistingStep ==
    ASSUME IInv, NEW p \in Paths, CreateExisting(p)
    PROVE  IInv'
  <1>1. /\ host[p] # None /\ host' = [host EXCEPT ![p].dict = FALSE]
        /\ table' = [table EXCEPT ![p] = IF @ # None /\ @.dirty = {} THEN None ELSE @]
        /\ UNCHANGED <<registry, registryFile, dir, dirFile, cache, reported, handed, haunted>>
    BY DEF CreateExisting, Exists, ghosts
  <1>2. TypeOK /\ DirInv
    BY DEF IInv
  <1>3. PICK u, t : /\ u = [host[p] EXCEPT !.dict = FALSE]
                    /\ t = IF table[p] # None /\ table[p].dirty = {} THEN None ELSE table[p]
    OBVIOUS
  <1>4. u \in Sections /\ u # None /\ u.records = host[p].records /\ u.next = host[p].next
    BY <1>1, <1>3, AllFollow, NoDict
  <1>5. host' = [host EXCEPT ![p] = u] /\ table' = [table EXCEPT ![p] = t]
    BY <1>1, <1>3
  <1>6. t = None \/ t = table[p]
    BY <1>3
  <1>7. /\ host' \in [Paths -> Sections \cup {None}] /\ table' \in [Paths -> Tables \cup {None}]
        /\ \A q \in Paths : table'[q] # None => host'[q] # None
    BY <1>4, <1>5, <1>6, AllFollow
  <1>8. TypeOK' /\ DirInv'
    BY <1>1, <1>2, <1>7 DEF TypeOK, DirInv
  <1>9. ASSUME NEW q \in Paths PROVE PathInv(q)'
    <2>1. Listed(q)' = Listed(q)
      BY <1>1 DEF Listed
    <2>2. CASE q = p
      <3>1. host'[p] = u /\ (table'[p] = table[p] \/ table'[p] = None)
        BY <1>5, <1>6, AllFollow
      <3> QED BY <1>1, <1>4, <2>1, <2>2, <3>1, DictOnly
    <2>3. CASE q # p
      <3>1. host'[q] = host[q] /\ table'[q] = table[q]
        BY <1>5, <2>3, AllFollow
      <3> QED BY <1>1, <2>1, <3>1, PathStays
    <2> QED BY <2>2, <2>3
  <1> QED BY <1>8, <1>9 DEF IInv

LEMMA CreateFailsStep ==
    ASSUME IInv, NEW p \in Paths, CreateFails(p)
    PROVE  IInv'
  <1> DEFINE hosts == [host EXCEPT ![p] = Empty]
  <1>1. /\ host[p] = None
        /\ dir' = [dir EXCEPT ![p[1]] = Synced(p[1], hosts)]
        /\ cache' = [cache EXCEPT ![p] = None]
        /\ haunted' = haunted \ {p}
        /\ UNCHANGED <<registry, registryFile, host, dirFile, table, reported, handed>>
    BY DEF CreateFails, diskVars
  <1>2. TypeOK /\ DirInv /\ p[1] \in Accounts /\ PathInv(p)
    BY PathParts DEF IInv
  <1>3. hosts \in [Paths -> Sections \cup {None}] /\ \A q \in Paths : q # p => hosts[q] = host[q]
    BY AllFollow, EmptySection
  <1> HIDE DEF hosts
  <1>4. /\ dir' \in [Accounts -> [Files -> Entries]] /\ dirFile' \in [Accounts -> [Files -> Entries]] /\ DirInv'
        /\ \A q \in Paths : hosts[q] # None => Listed(q)' = Listed(q)
    BY <1>1, <1>2, <1>3, SyncKeeps
  <1>5. cache \in [Paths -> Entries] /\ cache' \in [Paths -> Entries] /\ haunted' \subseteq Paths
    BY <1>1, <1>2, TypeParts DEF Entries
  <1>6. TypeOK'
    BY <1>1, <1>2, <1>4, <1>5 DEF TypeOK
  <1>7. ASSUME NEW q \in Paths PROVE PathInv(q)'
    <2>1. CASE q = p
      <3>1. table'[p] = None /\ reported'[p] = None /\ handed'[p] = {} /\ cache'[p] = None
        BY <1>1, <1>2, <1>5, AllFollow DEF PathInv, ToldInv
      <3> QED BY <2>1, <3>1, PathGone
    <2>2. CASE q # p
      <3>1. cache'[q] = cache[q] /\ (q \in haunted <=> q \in haunted') /\ (host[q] # None => Listed(q)' = Listed(q))
        BY <1>1, <1>3, <1>4, <1>5, <2>2
      <3> QED BY <1>1, <3>1, PathStays
    <2> QED BY <2>1, <2>2
  <1> QED BY <1>4, <1>6, <1>7 DEF IInv

\* A cache that is only looked through.
LEMMA LookedFacts ==
    ASSUME TypeOK, NEW p \in Paths, cache' = Looked(p)
    PROVE  /\ cache' \in [Paths -> Entries] /\ cache'[p] = AttributesOf(p) /\ cache'[p] # None
           /\ \A q \in Paths : q # p => cache'[q] = cache[q]
  <1>1. cache \in [Paths -> Entries] /\ AttributesOf(p) \in Entries /\ AttributesOf(p) # None
    BY ListedTypes, TypeParts
  <1>2. cache' = [cache EXCEPT ![p] = AttributesOf(p)]
    BY DEF Looked
  <1> QED BY <1>1, <1>2

LEMMA SetFileStep ==
    ASSUME IInv, NEW p \in Paths, SetFile(p)
    PROVE  IInv'
  <1>1. PICK want \in Entries :
          /\ Exists(p)
          /\ \/ /\ want # None
                /\ SetAttributes(p, want, host, table, dir)
                /\ Tell(p, want)
             \/ /\ cache' = Looked(p)
                /\ UNCHANGED <<host, table, dir, dirFile, reported, handed, haunted>>
          /\ UNCHANGED <<registry, registryFile>>
    BY Wanted DEF SetFile, ghosts
  <1>2. TypeOK /\ DirInv /\ p[1] \in Accounts /\ p[2] \in Files /\ PathInv(p) /\ host[p] # None
    BY <1>1, PathParts DEF IInv, Exists
  <1>3. CASE want # None /\ SetAttributes(p, want, host, table, dir) /\ Tell(p, want)
    <2>1. want \in Attributes
      BY <1>1, <1>3 DEF Entries
    <2>2. /\ UNCHANGED <<registry, registryFile>>
          /\ table[p] # None => Follows(table[p], host[p])
          /\ want.autokey => Beyond(host[p], handed[p])
          /\ dir \in [Accounts -> [Files -> Entries]]
          /\ host \in [Paths -> Sections \cup {None}]
      BY <1>1, <1>2, AllFollow DEF PathInv, HandedInv
    <2>3. \A q \in Paths : q # p /\ host[q] # None => Read(dir[q[1]][q[2]]) = Listed(q)
      BY DEF Listed
    <2> QED BY <1>2, <1>3, <2>1, <2>2, <2>3, SetKeeps
  <1>4. CASE cache' = Looked(p) /\ UNCHANGED <<host, table, dir, dirFile, reported, handed, haunted>>
    <2>1. /\ cache' \in [Paths -> Entries] /\ cache'[p] = AttributesOf(p)
          /\ \A q \in Paths : q # p => cache'[q] = cache[q]
      BY <1>2, <1>4, LookedFacts
    <2>2. TypeOK' /\ DirInv'
      BY <1>1, <1>2, <1>4, <2>1 DEF TypeOK, DirInv
    <2>3. ASSUME NEW q \in Paths PROVE PathInv(q)'
      <3>1. Listed(q)' = Listed(q)
        BY <1>4 DEF Listed
      <3>2. cache'[q] = cache[q] \/ (host[q] # None /\ cache'[q] = AttributesOf(q))
        BY <1>2, <2>1
      <3> QED BY <1>4, <3>1, <3>2, PathStays
    <2> QED BY <2>2, <2>3 DEF IInv
  <1> QED BY <1>1, <1>3, <1>4

LEMMA DeleteFileStep ==
    ASSUME IInv, NEW p \in Paths, DeleteFile(p)
    PROVE  IInv'
  <1>1. /\ host' = [host EXCEPT ![p] = None] /\ table' = [table EXCEPT ![p] = None]
        /\ cache' = [cache EXCEPT ![p] = None] /\ reported' = [reported EXCEPT ![p] = None]
        /\ handed' = [handed EXCEPT ![p] = {}] /\ haunted' = haunted \ {p}
        /\ UNCHANGED <<registry, registryFile, dir, dirFile>>
    BY DEF DeleteFile, Unload, ForgetAttributes
  <1>2. TypeOK /\ DirInv
    BY DEF IInv
  <1>3. /\ cache \in [Paths -> Entries] /\ reported \in [Paths -> Entries] /\ handed \in [Paths -> SUBSET Keys]
    BY <1>2, TypeParts
  <1>4. TypeOK' /\ DirInv'
    <2>1. /\ host' \in [Paths -> Sections \cup {None}] /\ table' \in [Paths -> Tables \cup {None}]
          /\ \A q \in Paths : table'[q] # None => host'[q] # None
      BY <1>1, AllFollow
    <2>2. /\ cache' \in [Paths -> Entries] /\ reported' \in [Paths -> Entries] /\ handed' \in [Paths -> SUBSET Keys]
          /\ haunted' \subseteq Paths
      BY <1>1, <1>2, <1>3, TypeParts DEF Entries
    <2> QED BY <1>1, <1>2, <2>1, <2>2 DEF TypeOK, DirInv
  <1>5. ASSUME NEW q \in Paths PROVE PathInv(q)'
    <2>1. CASE q = p
      <3>1. table'[p] = None /\ reported'[p] = None /\ handed'[p] = {} /\ cache'[p] = None
        BY <1>1, <1>3, AllFollow
      <3> QED BY <2>1, <3>1, PathGone
    <2>2. CASE q # p
      <3>1. /\ table'[q] = table[q] /\ host'[q] = host[q] /\ Listed(q)' = Listed(q) /\ cache'[q] = cache[q]
            /\ (q \in haunted <=> q \in haunted') /\ reported'[q] = reported[q] /\ handed'[q] = handed[q]
        BY <1>1, <1>3, <2>2, AllFollow DEF Listed
      <3> QED BY <3>1, PathStays
    <2> QED BY <2>1, <2>2
  <1> QED BY <1>4, <1>5 DEF IInv

LEMMA LookUpStep ==
    ASSUME IInv, NEW p \in Paths, LookUp(p)
    PROVE  IInv'
  <1>1. /\ cache' = Looked(p) /\ haunted' = IF host[p] = None THEN haunted \cup {p} ELSE haunted
        /\ UNCHANGED <<registry, registryFile, host, dirFile, table, dir, reported, handed>>
    BY DEF LookUp, diskVars
  <1>2. TypeOK /\ DirInv
    BY DEF IInv
  <1>3. /\ cache' \in [Paths -> Entries] /\ cache'[p] = AttributesOf(p)
        /\ \A q \in Paths : q # p => cache'[q] = cache[q]
    BY <1>1, <1>2, LookedFacts
  <1>4. haunted' \subseteq Paths
    BY <1>1, <1>2, TypeParts
  <1>5. TypeOK' /\ DirInv'
    BY <1>1, <1>2, <1>3, <1>4 DEF TypeOK, DirInv
  <1>6. ASSUME NEW q \in Paths PROVE PathInv(q)'
    <2>1. Listed(q)' = Listed(q)
      BY <1>1 DEF Listed
    <2>2. CASE q = p /\ host[p] = None
      <3>1. PathInv(p) /\ table'[p] = None /\ p \in haunted'
        BY <1>1, <2>2, AllFollow DEF IInv
      <3>2. reported'[p] = None /\ handed'[p] = {}
        BY <1>1, <2>2, <3>1 DEF PathInv, ToldInv
      <3> QED BY <2>2, <3>1, <3>2, PathGone
    <2>3. CASE ~(q = p /\ host[p] = None)
      <3>1. cache'[q] = cache[q] \/ (host[q] # None /\ cache'[q] = AttributesOf(q))
        BY <1>3, <2>3
      <3>2. q \in haunted <=> q \in haunted'
        BY <1>1, <2>3
      <3> QED BY <1>1, <2>1, <3>1, <3>2, PathStays
    <2> QED BY <2>2, <2>3
  <1> QED BY <1>5, <1>6 DEF IInv

-----------------------------------------------------------------------------
(* Records.                                                                *)

\* A change of one file's table: a durable file's is saved with everything else
\* before its answer, any other stays in memory.
LEMMA WriteKeeps ==
    ASSUME IInv, NEW p \in Paths, host[p] # None, NEW t \in Tables, t.dirty # {}, Follows(t, host[p]),
           Write(p, t), handed' \in [Paths -> SUBSET Keys],
           \A q \in Paths : q # p => handed'[q] = handed[q],
           handed'[p] = handed[p] \/ (/\ AttributesOf(p).durable /\ "next" \in t.dirty
                                      /\ \A k \in handed'[p] \ handed[p] : k < t.next)
    PROVE  IInv'
  <1>0. TypeOK /\ DirInv /\ PathInv(p) /\ t # None
    BY NoneAssumption DEF IInv
  <1> DEFINE tables == [table EXCEPT ![p] = t]
  <1>1. /\ table' = IF AttributesOf(p).durable THEN [q \in Paths |-> Clean(tables[q])] ELSE tables
        /\ IF table' = tables THEN UNCHANGED <<host, dirFile>>
           ELSE host' = Saved(host, tables) /\ dirFile' = dir
        /\ cache' = Looked(p) /\ UNCHANGED <<registry, registryFile, dir, reported, haunted>>
    BY DEF Write, Noted
  <1>2. /\ tables \in [Paths -> Tables \cup {None}] /\ tables[p] = t
        /\ \A q \in Paths : q # p => tables[q] = table[q]
        /\ \A q \in Paths : tables[q] # None => host[q] # None /\ Follows(tables[q], host[q])
    BY <1>0, AllFollow
  <1> HIDE DEF tables
  <1>3. /\ cache' \in [Paths -> Entries] /\ cache'[p] = AttributesOf(p)
        /\ \A q \in Paths : q # p => cache'[q] = cache[q]
    BY <1>0, <1>1, LookedFacts
  <1>4. \A q \in Paths : /\ Listed(q)' = Listed(q)
                         /\ cache'[q] = cache[q] \/ (host[q] # None /\ cache'[q] = AttributesOf(q))
    BY <1>1, <1>3 DEF Listed
  <1>5. CASE AttributesOf(p).durable
    <2>1. table' = [q \in Paths |-> Clean(tables[q])]
      BY <1>1, <1>5
    <2>2. Clean(t) # t
      <3>1. Clean(t).dirty = {}
        BY SavedFollows, AllFollow
      <3> QED BY <3>1
    <2>3. table' # tables
      BY <1>2, <2>1, <2>2
    <2>4. Save(host, tables, dir)
      BY <1>1, <2>1, <2>3 DEF Save
    <2>5. /\ host' \in [Paths -> Sections \cup {None}] /\ table' \in [Paths -> Tables \cup {None}]
          /\ dir' \in [Accounts -> [Files -> Entries]]
          /\ dirFile' \in [Accounts -> [Files -> Entries]] /\ DirInv'
          /\ \A q \in Paths :
               /\ table'[q] # None => host'[q] # None
               /\ TableInv(q)'
               /\ host'[q] = None <=> host[q] = None
               /\ \A H \in SUBSET Keys : Beyond(host[q], H) => Beyond(host'[q], H)
      BY <1>2, <2>4, AllFollow, SaveKeeps
    <2>6. TypeOK'
      BY <1>0, <1>1, <1>3, <2>5 DEF TypeOK
    <2>7. ASSUME NEW q \in Paths PROVE PathInv(q)'
      <3>1. CASE handed'[q] = handed[q]
        BY <1>1, <1>4, <2>5, <3>1, PathSaved
      <3>2. CASE handed'[q] # handed[q]
        <4>1. q = p /\ "next" \in t.dirty /\ \A k \in handed'[p] \ handed[p] : k < t.next
          BY <3>2
        <4>2. CacheInv(p)' /\ ToldInv(p)'
          BY <1>0, <1>1, <1>4, <2>5, TellKept DEF PathInv
        <4>3. host'[p] = Put(host[p], t, Parts)
          BY <1>0, <1>1, <1>2, <2>3 DEF Saved
        <4>4. host'[p].next = t.next /\ t.next \in Nat
          BY <4>1, <4>3 DEF Put, Parts, Follows, Tables, Counters
        <4>5. Beyond(host'[p], handed[p])
          BY <1>0, <2>5, TypeParts DEF PathInv, HandedInv
        <4>6. HandedInv(p)'
          BY <4>1, <4>4, <4>5 DEF HandedInv, Beyond
        <4> QED BY <2>5, <4>1, <4>2, <4>6 DEF PathInv
      <3> QED BY <3>1, <3>2
    <2> QED BY <2>5, <2>6, <2>7 DEF IInv
  <1>6. CASE ~AttributesOf(p).durable
    <2>1. table' = tables /\ UNCHANGED <<host, dirFile>> /\ handed'[p] = handed[p]
      BY <1>1, <1>6
    <2>2. TypeOK' /\ DirInv'
      BY <1>0, <1>1, <1>2, <1>3, <2>1 DEF TypeOK, DirInv
    <2>3. ASSUME NEW q \in Paths PROVE PathInv(q)'
      <3>1. CASE q = p
        <4>1. CacheInv(p)' /\ ToldInv(p)'
          BY <1>0, <1>1, <1>4, <2>1, TellKept DEF PathInv
        <4>2. AttributesOf(p)' = AttributesOf(p)
          BY <1>0, <1>3, <1>4, AttributesKept
        <4>3. TableInv(p)'
          BY <1>2, <1>6, <2>1, <4>2 DEF TableInv
        <4>4. HandedInv(p)'
          BY <1>0, <2>1 DEF PathInv, HandedInv
        <4> QED BY <3>1, <4>1, <4>3, <4>4 DEF PathInv
      <3>2. CASE q # p
        BY <1>1, <1>2, <1>4, <2>1, <3>2, PathStays
      <3> QED BY <3>1, <3>2
    <2> QED BY <2>2, <2>3 DEF IInv
  <1> QED BY <1>5, <1>6

LEMMA WriteStep ==
    ASSUME IInv, NEW p \in Paths, WriteKeyed(p) \/ DeleteRecord(p) \/ SetDict(p)
    PROVE  IInv'
  <1>1. TypeOK /\ TableInv(p) /\ host[p] # None
    BY DEF IInv, PathInv, WriteKeyed, DeleteRecord, SetDict, Writable, Exists
  <1>2. PICK t \in Tables : t.dirty # {} /\ Follows(t, host[p]) /\ Write(p, t)
    <2>1. CASE WriteKeyed(p)
      BY <1>1, <2>1, KeyedFollows DEF WriteKeyed
    <2>2. CASE DeleteRecord(p)
      BY <1>1, <2>2, KeyedFollows DEF DeleteRecord
    <2>3. CASE SetDict(p)
      <3>1. PICK there \in BOOLEAN : Write(p, [Loaded(p) EXCEPT !.dict = there, !.dirty = @ \cup {"dict"}])
        BY <2>3 DEF SetDict
      <3> QED BY <1>1, <3>1, DictFollows
    <2> QED BY <2>1, <2>2, <2>3
  <1>3. handed' = handed /\ handed' \in [Paths -> SUBSET Keys]
    BY <1>1, TypeParts DEF WriteKeyed, DeleteRecord, SetDict
  <1> QED BY <1>1, <1>2, <1>3, WriteKeeps

LEMMA WriteMintedStep ==
    ASSUME IInv, NEW p \in Paths, WriteMinted(p)
    PROVE  IInv'
  <1>1. PICK now \in Times, k \in Keys :
          /\ k = Minted(p, now) /\ Writable(p) /\ Write(p, WithMinted(p, k))
          /\ handed' = [handed EXCEPT ![p] = IF AttributesOf(p).durable THEN @ \cup {k} ELSE @]
    BY DEF WriteMinted
  <1>2. TypeOK /\ TableInv(p) /\ host[p] # None /\ handed \in [Paths -> SUBSET Keys]
    BY <1>1, TypeParts DEF IInv, PathInv, Writable, Exists
  <1>3. PICK t : t = WithMinted(p, k)
    OBVIOUS
  <1>4. t \in Tables /\ "next" \in t.dirty /\ t.next = k + 1 /\ Follows(t, host[p])
    BY <1>1, <1>2, <1>3, MintedFollows
  <1>5. k \in Nat
    BY CatalogAssumption
  <1>6. k < t.next
    BY <1>4, <1>5
  <1>7. /\ handed' \in [Paths -> SUBSET Keys] /\ \A q \in Paths : q # p => handed'[q] = handed[q]
        /\ handed'[p] = handed[p] \/ (AttributesOf(p).durable /\ handed'[p] = handed[p] \cup {k})
    BY <1>1, <1>2
  <1>8. handed'[p] = handed[p] \/ (/\ AttributesOf(p).durable /\ "next" \in t.dirty
                                   /\ \A j \in handed'[p] \ handed[p] : j < t.next)
    BY <1>4, <1>6, <1>7
  <1>9. t.dirty # {} /\ Write(p, t)
    BY <1>1, <1>3, <1>4
  <1> QED BY <1>2, <1>4, <1>7, <1>8, <1>9, WriteKeeps

LEMMA FlushStep ==
    ASSUME IInv, NEW p \in Paths, Flush(p)
    PROVE  IInv'
  <1>1. PICK keep \in BOOLEAN :
          /\ table[p] # None
          /\ host' = [host EXCEPT ![p] = Put(@, table[p], Parts)]
          /\ table' = [table EXCEPT ![p] = IF keep THEN Clean(@) ELSE None]
          /\ UNCHANGED <<registry, registryFile, dir, dirFile, cache, reported, handed, haunted>>
    BY DEF Flush, ghosts
  <1>2. TypeOK /\ DirInv /\ PathInv(p)
    BY DEF IInv
  <1>3. table[p] \in Tables /\ host[p] \in Sections /\ Follows(table[p], host[p])
    BY <1>1, AllFollow
  <1>4. PICK u, t : u = Put(host[p], table[p], Parts) /\ t = IF keep THEN Clean(table[p]) ELSE None
    OBVIOUS
  <1>5. /\ u \in Sections /\ u # None
        /\ \A H \in SUBSET Keys : Beyond(host[p], H) => Beyond(u, H)
    BY <1>3, <1>4, PutFacts, NoneAssumption
  <1>6. t \in Tables \cup {None} /\ (t # None => t.dirty = {} /\ Follows(t, u))
    BY <1>3, <1>4, SavedFollows
  <1>7. host' = [host EXCEPT ![p] = u] /\ table' = [table EXCEPT ![p] = t]
    BY <1>1, <1>4
  <1>8. /\ host' \in [Paths -> Sections \cup {None}] /\ table' \in [Paths -> Tables \cup {None}]
        /\ \A q \in Paths : table'[q] # None => host'[q] # None
    BY <1>5, <1>6, <1>7, AllFollow
  <1>9. TypeOK' /\ DirInv'
    BY <1>1, <1>2, <1>8 DEF TypeOK, DirInv
  <1>10. ASSUME NEW q \in Paths PROVE PathInv(q)'
    <2>1. Listed(q)' = Listed(q)
      BY <1>1 DEF Listed
    <2>2. CASE q = p
      <3>1. host'[p] = u /\ table'[p] = t
        BY <1>7, AllFollow
      <3>2. TableInv(p)'
        BY <1>6, <3>1 DEF TableInv
      <3>3. host[p] # None /\ host'[p] # None
        BY <1>1, <1>5, <3>1, AllFollow
      <3> QED BY <1>1, <1>5, <2>1, <2>2, <3>1, <3>2, <3>3, PathSaved
    <2>3. CASE q # p
      <3>1. host'[q] = host[q] /\ table'[q] = table[q]
        BY <1>7, <2>3, AllFollow
      <3> QED BY <1>1, <2>1, <3>1, PathStays
    <2> QED BY <2>2, <2>3
  <1> QED BY <1>9, <1>10 DEF IInv

-----------------------------------------------------------------------------
(* The invariant holds.                                                    *)

LEMMA InitInv == Init => IInv
  <1> SUFFICES ASSUME Init PROVE IInv
    OBVIOUS
  <1>1. TypeOK
    <2>1. /\ host \in [Paths -> Sections \cup {None}] /\ table \in [Paths -> Tables \cup {None}]
          /\ \A p \in Paths : table[p] # None => host[p] # None
      BY DEF Init
    <2>2. /\ cache \in [Paths -> Entries] /\ reported \in [Paths -> Entries] /\ handed \in [Paths -> SUBSET Keys]
      BY DEF Init, Entries
    <2>3. dir \in [Accounts -> [Files -> Entries]] /\ dirFile \in [Accounts -> [Files -> Entries]]
      BY NoEntriesRead DEF Init
    <2> QED BY <2>1, <2>2, <2>3 DEF TypeOK, Init
  <1>2. DirInv
    BY DEF DirInv, Init
  <1>3. ASSUME NEW p \in Paths PROVE PathInv(p)
    BY DEF PathInv, CacheInv, ToldInv, TableInv, HandedInv, Beyond, Init
  <1> QED BY <1>1, <1>2, <1>3 DEF IInv

LEMMA InvStep == IInv /\ [Next]_vars => IInv'
  <1> SUFFICES ASSUME IInv, [Next]_vars PROVE IInv'
    OBVIOUS
  <1>1. CASE UNCHANGED vars
    <2>1. TypeOK' /\ DirInv'
      BY <1>1 DEF IInv, TypeOK, DirInv, vars, diskVars, ghosts
    <2>2. ASSUME NEW p \in Paths PROVE PathInv(p)'
      <3>1. UNCHANGED <<host, table, dir, cache, reported, handed, haunted>>
        BY <1>1 DEF vars, diskVars, ghosts
      <3>2. Listed(p)' = Listed(p)
        BY <3>1 DEF Listed
      <3> QED BY <3>1, <3>2, PathStays
    <2> QED BY <2>1, <2>2 DEF IInv
  <1>2. ASSUME NEW a \in Accounts,
               \/ CreateAccount(a) \/ DeleteAccount(a) \/ CreateTestAccount(a)
               \/ CreateTestFails(a) \/ FlushDir(a) \/ CrashInDeleteAccount(a)
        PROVE  IInv'
    BY <1>2, CreateAccountStep, DeleteAccountStep, CreateTestAccountStep, CreateTestFailsStep, FlushDirStep,
       CrashInDeleteAccountStep
  <1>3. ASSUME NEW p \in Paths,
               \/ CreateFile(p) \/ CreateExisting(p) \/ CreateFails(p)
               \/ SetFile(p) \/ DeleteFile(p) \/ LookUp(p)
        PROVE  IInv'
    BY <1>3, CreateFileStep, CreateExistingStep, CreateFailsStep, SetFileStep, DeleteFileStep, LookUpStep
  <1>4. ASSUME NEW p \in Paths,
               \/ WriteKeyed(p) \/ WriteMinted(p) \/ DeleteRecord(p) \/ SetDict(p)
               \/ Flush(p) \/ CrashInWrite(p)
               \/ CrashInCreateFile(p) \/ CrashInSetFile(p) \/ CrashInDeleteFile(p)
        PROVE  IInv'
    BY <1>4, WriteStep, WriteMintedStep, FlushStep, CrashInWriteStep, CrashInCreateStep, CrashInSetStep,
       CrashInDeleteStep
  <1>5. CASE Crash \/ CrashInRegistry
    BY <1>5, CrashStep
  <1> QED BY <1>1, <1>2, <1>3, <1>4, <1>5 DEF Next

LEMMA Invariant == Spec => []IInv
  BY InitInv, InvStep, PTL DEF Spec

\* Types: a table is loaded only of a file that is there.
THEOREM TypeCorrect == Spec => []TypeOK
  <1>1. IInv => TypeOK
    BY DEF IInv
  <1> QED BY <1>1, Invariant, PTL

\* The cached attributes of a file that is there are those in DIR: every command
\* that changes the one in set_file_attributes_for_account, delete_table_for_account
\* or sync_dir_file_for_account leaves the other in step.
THEOREM CacheHonest == Spec => []CacheAgrees
  <1>1. IInv => CacheAgrees
    BY DEF IInv, PathInv, CacheInv, CacheAgrees, Listed
  <1> QED BY <1>1, Invariant, PTL

\* The attributes CREATE.FILE or SET.FILE answered with stay those of the file
\* until the file is set again or deleted, over any number of crashes.
THEOREM AnswerStands == Spec => []ReportedStays
  <1>1. ASSUME IInv, NEW p \in Paths, reported[p] \notin {None, Default}, p \notin haunted
        PROVE  AttributesOf(p) = reported[p]
    <2>1. PathInv(p)
      BY <1>1 DEF IInv
    <2> QED BY <1>1, <2>1 DEF PathInv, CacheInv, ToldInv, AttributesOf, Listed
  <1>2. IInv => ReportedStays
    BY <1>1 DEF ReportedStays
  <1> QED BY <1>2, Invariant, PTL

\* note_write_for and set_file_attributes_for_account leave nothing of a durable
\* file in memory alone, though it was made durable with writes outstanding.
THEOREM DurableSaved == Spec => []DurableIsOnDisk
  <1>1. ASSUME IInv, NEW p \in Paths, table[p] # None, AttributesOf(p).durable
        PROVE  table[p].dirty = {} /\ table[p].records = host[p].records
    <2>1. PathInv(p)
      BY <1>1 DEF IInv
    <2> QED BY <1>1, <2>1 DEF PathInv, TableInv, Follows
  <1>2. IInv => DurableIsOnDisk
    BY <1>1 DEF DurableIsOnDisk
  <1> QED BY <1>2, Invariant, PTL

\* The key mint_key answers with is not a record's, and for a durable file not
\* one it has answered with before, whatever the clock reads and wherever the
\* process died between the records and the counter.
THEOREM MintsFresh == Spec => MintFresh
  <1>1. ASSUME IInv, NEW p \in Paths, WriteMinted(p)
        PROVE  minted'.key \notin Loaded(minted'.path).records \cup handed[minted'.path]
    <2>1. PICK now \in Times, k \in Keys : k = Minted(p, now) /\ Writable(p) /\ minted' = [path |-> p, key |-> k]
      BY <1>1 DEF WriteMinted
    <2>2. TypeOK /\ PathInv(p) /\ host[p] # None
      BY <1>1, <2>1 DEF IInv, Writable, Exists
    <2>3. /\ \A j \in Loaded(p).records : j < k
          /\ host[p].next # None => host[p].next <= k
      BY <2>1, <2>2, MintedFacts DEF PathInv
    <2>4. k \in Nat /\ None \notin Nat
      BY CatalogAssumption
    <2>5. k \notin Loaded(p).records
      BY <2>3, <2>4
    <2>6. k \notin handed[p]
      BY <2>2, <2>3, <2>4 DEF PathInv, HandedInv, Beyond
    <2> QED BY <2>1, <2>5, <2>6
  <1>2. ASSUME [Next]_vars, minted' # None PROVE UNCHANGED vars \/ \E p \in Paths : WriteMinted(p)
    <2>1. ASSUME NEW a \in Accounts,
                 \/ CreateAccount(a) \/ DeleteAccount(a) \/ CreateTestAccount(a)
                 \/ CreateTestFails(a) \/ FlushDir(a) \/ CrashInDeleteAccount(a)
          PROVE  FALSE
      BY <1>2, <2>1 DEF CreateAccount, DeleteAccount, CreateTestAccount, CreateTestFails, FlushDir,
         CrashInDeleteAccount, DieWith, Answer
    <2>2. ASSUME NEW p \in Paths,
                 \/ CreateFile(p) \/ CreateExisting(p) \/ CreateFails(p)
                 \/ SetFile(p) \/ DeleteFile(p) \/ LookUp(p)
          PROVE  FALSE
      BY <1>2, <2>2 DEF CreateFile, CreateExisting, CreateFails, SetFile, DeleteFile, LookUp, Answer
    <2>3. ASSUME NEW p \in Paths,
                 \/ WriteKeyed(p) \/ DeleteRecord(p) \/ SetDict(p)
                 \/ Flush(p) \/ CrashInWrite(p)
                 \/ CrashInCreateFile(p) \/ CrashInSetFile(p) \/ CrashInDeleteFile(p)
          PROVE  FALSE
      BY <1>2, <2>3 DEF WriteKeyed, DeleteRecord, SetDict, Flush, CrashInWrite, CrashInCreateFile,
         CrashInSetFile, CrashInDeleteFile, DieWith
    <2>4. ASSUME Crash \/ CrashInRegistry PROVE FALSE
      BY <1>2, <2>4 DEF Crash, CrashInRegistry, DieWith
    <2> QED BY <1>2, <2>1, <2>2, <2>3, <2>4 DEF Next
  <1>3. IInv /\ [Next]_vars =>
          [minted' # None => minted'.key \notin Loaded(minted'.path).records \cup handed[minted'.path]]_vars
    BY <1>1, <1>2
  <1> QED BY <1>3, Invariant, PTL DEF Spec, MintFresh
=============================================================================
