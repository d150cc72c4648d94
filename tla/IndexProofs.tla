---------------------------- MODULE IndexProofs ----------------------------
(***************************************************************************)
(* An index never changes what a query finds, for every set of records,    *)
(* dictionaries, exclusions and any number of flushes, failures and kills. *)
(***************************************************************************)
EXTENDS Index, TLAPS

\* Postings that cover the contents c of the file as attr and the exclusions have it.
Covers(post, c, attr, excluded) ==
    /\ \A e \in excluded : post[e] = {}
    /\ \A k \in Keys : \A e \in keys_of(c[k], attr) \ excluded : k \in post[e]

\* The index in memory misses no record.
PostInv ==
    ~tainted /\ Live /\ ~index.stale => Covers(index.postings, records, index.attr, index.excluded)

\* Group files of the records: what is not dirty is on disk, and what the flush
\* has written is.
DataInv ==
    /\ pc # "down" => \A k \in Keys \ dirtyKeys : data[k] = records[k]
    /\ pc = "groups" => \A k \in Keys \ todo : data[k] = records[k]
    /\ pc \in {"stamped", "dict", "dictCut", "index", "state", "saved"} => data = records

\* The stamp of the records is at most one ahead of memory's, and only while
\* keys are dirty; a state file never carries one that is still to come.
VersionInv ==
    /\ metaFile \in {version, version + 1}
    /\ stateFile # NoState => stateFile.version <= version
    /\ pc \in {"groups", "stamped"} => dirtyKeys # {} /\ version < MaxVersion
    /\ pc \in {"dict", "dictCut", "index", "state", "saved"} => version = metaFile
    /\ pc = "idle" /\ dirtyKeys = {} => version = metaFile

\* The dict file is behind memory only while the dictionary is dirty.
DictInv ==
    /\ pc # "down" /\ ~dictDirty => dictFile = dict
    /\ pc = "dictCut" => dictDirty
    /\ pc \in {"index", "state", "saved"} => dictFile = dict

\* Entries that are not dirty are on disk, and so are those a save has written.
EntryInv ==
    Live /\ ~doubt =>
        /\ ~index.all => \A e \in Entries \ index.dirty : entries[e] = index.postings[e]
        /\ pc = "index" => \A e \in Entries \ todo : entries[e] = index.postings[e]

\* What the last stages of a flush may rely on.
StageInv ==
    /\ pc \in {"index", "state"} => Live
    /\ pc = "down" => ~Live
    /\ Live /\ pc \in {"state", "saved"} => ~index.all /\ index.dirty = {}
    /\ Live /\ pc = "saved" /\ ~doubt =>
           section /\ stateFile = [attr |-> index.attr, version |-> version, excluded |-> index.excluded]

\* A section that the next load would trust, and whose files are whole, misses
\* no record of the file.
DiskInv ==
    ~doubt /\ loose = {} /\ section /\ stateFile # NoState /\ stateFile.version = metaFile =>
        Covers(entries, data, stateFile.attr, stateFile.excluded)

IInv == TypeOK /\ PostInv /\ DataInv /\ VersionInv /\ DictInv /\ EntryInv /\ StageInv /\ DiskInv

-----------------------------------------------------------------------------
(* The index as a value.                                                   *)

LEMMA KeysOfType ==
    ASSUME NEW c \in Contents, NEW k \in Keys, NEW attr \in Attrs
    PROVE  keys_of(c[k], attr) \in SUBSET Entries
  BY RecordsAssumption, IndexKeyAssumption DEF Contents, keys_of

\* What is derived from the records covers them.
LEMMA DerivedCovers ==
    ASSUME NEW c \in Contents, NEW attr \in Attrs, NEW excluded \in Exclusions
    PROVE  /\ Derived(c, attr, excluded) \in [Entries -> SUBSET Keys]
           /\ Covers(Derived(c, attr, excluded), c, attr, excluded)
  <1>1. Derived(c, attr, excluded) \in [Entries -> SUBSET Keys]
    BY DEF Derived
  <1>2. \A e \in excluded : Derived(c, attr, excluded)[e] = {}
    BY ExclusionsAssumption DEF Derived
  <1>3. ASSUME NEW k \in Keys, NEW e \in keys_of(c[k], attr) \ excluded
        PROVE  k \in Derived(c, attr, excluded)[e]
    BY KeysOfType DEF Derived
  <1> QED BY <1>1, <1>2, <1>3 DEF Covers

LEMMA RebuildFacts ==
    ASSUME TypeOK, NEW ix \in Indexes, NEW attr \in Attrs
    PROVE  /\ rebuild(ix, attr) \in Indexes
           /\ rebuild(ix, attr).all
           /\ Covers(rebuild(ix, attr).postings, records, rebuild(ix, attr).attr, rebuild(ix, attr).excluded)
  <1>1. records \in Contents /\ ix.excluded \in Exclusions
    BY DEF TypeOK, Indexes
  <1>2. Derived(records, attr, ix.excluded) \in [Entries -> SUBSET Keys]
    BY <1>1, DerivedCovers
  <1>3. /\ rebuild(ix, attr) \in Indexes
        /\ rebuild(ix, attr).all /\ rebuild(ix, attr).attr = attr
        /\ rebuild(ix, attr).excluded = ix.excluded
        /\ rebuild(ix, attr).postings = Derived(records, attr, ix.excluded)
    BY <1>2 DEF rebuild, Indexes
  <1> QED BY <1>1, <1>3, DerivedCovers

LEMMA WithExclusionsFacts ==
    ASSUME NEW attr \in Attrs, NEW excluded \in Exclusions
    PROVE  with_exclusions(attr, excluded) \in Indexes
  BY DEF with_exclusions, Indexes

\* apply keeps the postings in step with the one record that changes, and
\* names every entry it touches.
LEMMA ApplyFacts ==
    ASSUME NEW ix \in Indexes, NEW c \in Contents, NEW k \in Keys, NEW r \in Records \cup {Absent}
    PROVE  LET n == apply(ix, k, c[k], r)
               d == [c EXCEPT ![k] = r] IN
           /\ n \in Indexes
           /\ n.attr = ix.attr /\ n.excluded = ix.excluded /\ n.stale = ix.stale /\ n.all = ix.all
           /\ ix.dirty \subseteq n.dirty
           /\ \A e \in Entries \ n.dirty : n.postings[e] = ix.postings[e]
           /\ Covers(ix.postings, c, ix.attr, ix.excluded) => Covers(n.postings, d, n.attr, n.excluded)
  <1> DEFINE before == retained(ix, c[k])
             after == retained(ix, r)
             P == [e \in Entries |->
                        IF e \in before \ after THEN ix.postings[e] \ {k}
                        ELSE IF e \in after \ before THEN ix.postings[e] \cup {k} ELSE ix.postings[e]]
             D == ix.dirty \cup (before \ after) \cup (after \ before)
             d == [c EXCEPT ![k] = r]
             n == apply(ix, k, c[k], r)
  <1>0. d \in Contents /\ d[k] = r /\ (\A j \in Keys \ {k} : d[j] = c[j])
    BY DEF Contents
  <1>1. /\ ix.attr \in Attrs /\ ix.postings \in [Entries -> SUBSET Keys] /\ ix.excluded \in Exclusions
        /\ ix.excluded \subseteq Entries /\ ix.dirty \in SUBSET Entries /\ ix.all \in BOOLEAN /\ ix.stale \in BOOLEAN
    BY ExclusionsAssumption DEF Indexes
  <1>2. before \subseteq Entries /\ after \subseteq Entries
    BY <1>0, <1>1, KeysOfType DEF retained
  <1>3. n = [ix EXCEPT !.postings = P, !.dirty = D]
    BY DEF apply
  <1>4. P \in [Entries -> SUBSET Keys] /\ D \in SUBSET Entries
    BY <1>1, <1>2
  <1>5. /\ n \in Indexes /\ n.postings = P /\ n.dirty = D
        /\ n.attr = ix.attr /\ n.excluded = ix.excluded /\ n.stale = ix.stale /\ n.all = ix.all
    <2> HIDE DEF P, D, n
    <2> QED BY <1>3, <1>4 DEF Indexes
  <1>6. ix.dirty \subseteq D /\ \A e \in Entries \ D : P[e] = ix.postings[e]
    OBVIOUS
  <1>7. ASSUME Covers(ix.postings, c, ix.attr, ix.excluded) PROVE Covers(P, d, ix.attr, ix.excluded)
    <2>1. ASSUME NEW e \in ix.excluded PROVE P[e] = {}
      <3>1. e \in Entries /\ e \notin before /\ e \notin after
        BY <1>1 DEF retained
      <3>2. P[e] = ix.postings[e]
        BY <3>1
      <3> QED BY <3>2, <1>7 DEF Covers
    <2>2. ASSUME NEW j \in Keys, NEW e \in keys_of(d[j], ix.attr) \ ix.excluded PROVE j \in P[e]
      <3>0. e \in Entries
        BY <1>0, <1>1, KeysOfType
      <3>1. CASE j = k
        <4>1. e \in after
          BY <1>0, <3>1 DEF retained
        <4>2. CASE e \in before
          <5>1. k \in ix.postings[e]
            BY <4>2, <1>7 DEF Covers, retained
          <5> QED BY <5>1, <4>1, <4>2, <3>0, <3>1
        <4>3. CASE e \notin before
          BY <4>1, <4>3, <3>0, <3>1
        <4> QED BY <4>2, <4>3
      <3>2. CASE j # k
        <4>1. j \in ix.postings[e]
          BY <1>0, <1>7, <3>2 DEF Covers
        <4> QED BY <4>1, <3>0, <3>2
      <3> QED BY <3>1, <3>2
    <2> HIDE DEF P, d
    <2> QED BY <2>1, <2>2 DEF Covers
  <1> HIDE DEF P, D, n, d
  <1>8. /\ n \in Indexes
        /\ n.attr = ix.attr /\ n.excluded = ix.excluded /\ n.stale = ix.stale /\ n.all = ix.all
        /\ ix.dirty \subseteq n.dirty
        /\ \A e \in Entries \ n.dirty : n.postings[e] = ix.postings[e]
        /\ Covers(ix.postings, c, ix.attr, ix.excluded) => Covers(n.postings, d, n.attr, n.excluded)
    BY <1>5, <1>6, <1>7
  <1> QED BY <1>8 DEF n, d

-----------------------------------------------------------------------------
(* The queries.                                                            *)

\* The keys a condition is planned to look at hold every match.
LEMMA PlanOneSound ==
    ASSUME TypeOK, PostInv, ~tainted, Live, dict # Undefined, NEW q \in Equalities \cup Others
    PROVE  \/ PlanOne(q) = {}
           \/ \E s : PlanOne(q) = {s} /\ MatchesOne(q) \subseteq s
  <1>1. CASE q.op # "EQ"
    BY <1>1 DEF PlanOne
  <1>2. CASE q.op = "EQ" /\ candidates(IndexKey[q.value]) = {}
    BY <1>2 DEF PlanOne
  <1>3. CASE q.op = "EQ" /\ candidates(IndexKey[q.value]) # {}
    <2> DEFINE e == IndexKey[q.value]
    <2>1. /\ dict = index.attr /\ ~index.stale /\ e \notin index.excluded
          /\ PlanOne(q) = {index.postings[e]}
      BY <1>3 DEF candidates, PlanOne
    <2>2. Covers(index.postings, records, index.attr, index.excluded)
      BY <2>1 DEF PostInv
    <2>3. ASSUME NEW k \in MatchesOne(q) PROVE k \in index.postings[e]
      <3>1. k \in Keys /\ records[k] # Absent /\ q.value \in records[k][index.attr]
        BY <1>3, <2>1 DEF MatchesOne, Stored
      <3>2. e \in keys_of(records[k], index.attr)
        BY <3>1 DEF keys_of
      <3> HIDE DEF e
      <3> QED BY <2>1, <2>2, <3>1, <3>2 DEF Covers
    <2> HIDE DEF e
    <2> QED BY <2>1, <2>3
  <1> QED BY <1>1, <1>2, <1>3

\* So do those of a whole query: AND may use either side, OR needs both.
LEMMA PlanSound ==
    ASSUME TypeOK, PostInv, ~tainted, Live, dict # Undefined, NEW q \in Queries
    PROVE  Selected(q) = Matches(q)
  <1>0. SUFFICES ASSUME index_candidates(q) # {} PROVE Matches(q) \subseteq UNION index_candidates(q)
    BY DEF Selected
  <1>1. CASE q.op \notin {"AND", "OR"}
    <2>1. q \in Equalities \cup Others
      BY <1>1 DEF Queries
    <2>2. Matches(q) = MatchesOne(q) /\ index_candidates(q) = PlanOne(q)
      BY <1>1 DEF Matches, index_candidates
    <2> QED BY <1>0, <2>1, <2>2, PlanOneSound
  <1>2. CASE q.op \in {"AND", "OR"}
    <2>1. q.left \in Equalities \cup Others /\ q.right \in Equalities \cup Others
      BY <1>2 DEF Queries, Equalities, Others
    <2> DEFINE left == PlanOne(q.left)
               right == PlanOne(q.right)
    <2>2. /\ left = {} \/ \E s : left = {s} /\ MatchesOne(q.left) \subseteq s
          /\ right = {} \/ \E s : right = {s} /\ MatchesOne(q.right) \subseteq s
      BY <2>1, PlanOneSound
    <2>3. index_candidates(q) =
            IF left # {} /\ right # {}
            THEN {IF q.op = "AND" THEN l \cap r ELSE l \cup r : l \in left, r \in right}
            ELSE IF q.op = "AND" THEN left \cup right ELSE {}
      BY <1>2 DEF index_candidates
    <2>4. Matches(q) = IF q.op = "AND" THEN MatchesOne(q.left) \cap MatchesOne(q.right)
                       ELSE MatchesOne(q.left) \cup MatchesOne(q.right)
      BY <1>2 DEF Matches
    <2> HIDE DEF left, right
    <2>5. CASE left # {} /\ right # {}
      <3>1. PICK l : left = {l} /\ MatchesOne(q.left) \subseteq l
        BY <2>2, <2>5
      <3>2. PICK r : right = {r} /\ MatchesOne(q.right) \subseteq r
        BY <2>2, <2>5
      <3>3. index_candidates(q) = {IF q.op = "AND" THEN l \cap r ELSE l \cup r}
        BY <2>3, <3>1, <3>2
      <3>4. UNION index_candidates(q) = IF q.op = "AND" THEN l \cap r ELSE l \cup r
        BY <3>3
      <3> QED BY <3>1, <3>2, <3>4, <2>4
    <2>6. CASE ~(left # {} /\ right # {})
      <3>1. q.op = "AND" /\ index_candidates(q) = left \cup right
        BY <1>0, <2>3, <2>6
      <3>2. CASE left = {}
        <4>1. PICK r : right = {r} /\ MatchesOne(q.right) \subseteq r
          BY <1>0, <2>2, <3>1, <3>2
        <4> QED BY <2>4, <3>1, <3>2, <4>1
      <3>3. CASE right = {}
        <4>1. PICK l : left = {l} /\ MatchesOne(q.left) \subseteq l
          BY <1>0, <2>2, <3>1, <3>3
        <4> QED BY <2>4, <3>1, <3>3, <4>1
      <3> QED BY <2>6, <3>2, <3>3
    <2> QED BY <2>5, <2>6
  <1> QED BY <1>1, <1>2

-----------------------------------------------------------------------------
(* Commands.                                                               *)

LEMMA LiveType ==
    ASSUME TypeOK, Live
    PROVE  /\ index \in Indexes /\ index.attr \in Attrs /\ index.excluded \in Exclusions
           /\ index.postings \in [Entries -> SUBSET Keys] /\ index.dirty \in SUBSET Entries
           /\ index.all \in BOOLEAN /\ index.stale \in BOOLEAN
  BY DEF TypeOK, Live, Indexes

\* A command leaves the files alone, so it need only own up to what it changes
\* in memory and leave an index that misses nothing.
LEMMA CommandKeeps ==
    ASSUME IInv, Command,
           records' \in Contents, dirtyKeys' \in SUBSET Keys, dirtyKeys \subseteq dirtyKeys',
           \A k \in Keys \ dirtyKeys' : records'[k] = records[k],
           dict' \in Places, dictDirty' \in BOOLEAN, ~dictDirty' => ~dictDirty /\ dict' = dict,
           index' \in Indexes \cup {NoIndex}, tainted' \in BOOLEAN, removing' \in BOOLEAN,
           PostInv',
           Live' /\ ~index'.all => /\ Live /\ ~index.all /\ index.dirty \subseteq index'.dirty
                                   /\ \A e \in Entries \ index'.dirty : index'.postings[e] = index.postings[e]
    PROVE  IInv'
  <1>1. /\ pc = "idle" /\ pc' = "idle" /\ todo' = todo /\ version' = version
        /\ UNCHANGED <<data, metaFile, dictFile, entries, stateFile, section, loose, doubt, fails, kills>>
        /\ commands < MaxCommands /\ commands' = commands + 1
    BY DEF Command, flushVars, diskVars, markVars
  <1>2. TypeOK'
    BY <1>1, BoundsAssumption DEF IInv, TypeOK
  <1>3. DataInv'
    BY <1>1 DEF IInv, DataInv
  <1>4. VersionInv'
    BY <1>1 DEF IInv, VersionInv
  <1>5. DictInv'
    BY <1>1 DEF IInv, DictInv
  <1>6. EntryInv'
    BY <1>1 DEF IInv, EntryInv
  <1>7. StageInv'
    BY <1>1 DEF IInv, StageInv
  <1>8. DiskInv'
    BY <1>1 DEF IInv, DiskInv, Covers, keys_of
  <1> QED BY <1>2, <1>3, <1>4, <1>5, <1>6, <1>7, <1>8 DEF IInv

LEMMA PutStep ==
    ASSUME IInv, Command, NEW k \in Keys, NEW r \in Records \cup {Absent}, Put(k, r)
    PROVE  IInv'
  <1>1. TypeOK /\ PostInv /\ records \in Contents
    BY DEF IInv, TypeOK
  <1>2. /\ records' = [records EXCEPT ![k] = r] /\ dirtyKeys' = dirtyKeys \cup {k}
        /\ UNCHANGED <<dict, dictDirty, tainted, removing>>
    BY DEF Put
  <1>3. records' \in Contents /\ \A j \in Keys \ dirtyKeys' : records'[j] = records[j]
    BY <1>1, <1>2 DEF Contents
  <1>4. CASE ~Live
    <2>1. index' = index /\ ~Live'
      BY <1>4 DEF Put, Live
    <2> QED BY <1>1, <1>2, <1>3, <2>1, CommandKeeps DEF TypeOK, PostInv
  <1>5. CASE Live
    <2> DEFINE n == apply(index, k, records[k], r)
    <2>1. index' = n /\ index \in Indexes
      BY <1>1, <1>5, LiveType DEF Put
    <2>2. /\ n \in Indexes
          /\ n.attr = index.attr /\ n.excluded = index.excluded /\ n.stale = index.stale /\ n.all = index.all
          /\ index.dirty \subseteq n.dirty
          /\ \A e \in Entries \ n.dirty : n.postings[e] = index.postings[e]
          /\ Covers(index.postings, records, index.attr, index.excluded)
                => Covers(n.postings, [records EXCEPT ![k] = r], n.attr, n.excluded)
      BY <1>1, <2>1, ApplyFacts
    <2> HIDE DEF n
    <2>3. PostInv'
      BY <1>1, <1>2, <1>5, <2>1, <2>2 DEF PostInv, Live, Covers, keys_of
    <2> QED BY <1>1, <1>2, <1>3, <1>5, <2>1, <2>2, <2>3, CommandKeeps DEF TypeOK
  <1> QED BY <1>4, <1>5

LEMMA TakeDeadStep ==
    ASSUME IInv, NEW k \in Keys, take_dead(k)
    PROVE  IInv'
  <1>1. TypeOK /\ PostInv /\ records \in Contents
    BY DEF IInv, TypeOK
  <1>2. /\ Command /\ records' = [records EXCEPT ![k] = Absent] /\ dirtyKeys' = dirtyKeys \cup {k}
        /\ UNCHANGED <<dict, dictDirty, index, tainted, removing>>
    BY DEF take_dead
  <1>3. records' \in Contents /\ \A j \in Keys \ {k} : records'[j] = records[j]
    BY <1>1, <1>2 DEF Contents
  <1>4. keys_of(records'[k], index.attr) = {}
    BY <1>1, <1>2 DEF keys_of, Contents
  <1>5. PostInv'
    <2>1. Covers(index.postings, records, index.attr, index.excluded)
            => Covers(index.postings, records', index.attr, index.excluded)
      BY <1>3, <1>4 DEF Covers
    <2> QED BY <1>1, <1>2, <2>1 DEF PostInv, Live, Covers, keys_of
  <1> QED BY <1>1, <1>2, <1>3, <1>5, CommandKeeps DEF TypeOK, Live

LEMMA StaleType ==
    ASSUME NEW ix \in Indexes
    PROVE  LET n == [ix EXCEPT !.stale = TRUE] IN
           /\ n \in Indexes /\ n.stale /\ n.all = ix.all /\ n.dirty = ix.dirty /\ n.postings = ix.postings
  BY DEF Indexes

LEMMA EndFileStep ==
    ASSUME IInv, NEW c \in Archives, NEW d \in Places, end_file(c, d)
    PROVE  IInv'
  <1>1. TypeOK /\ c \in Contents
    BY ArchivesAssumption DEF IInv
  <1>2. /\ Command /\ records' = c /\ dict' = d /\ dirtyKeys' = Keys /\ dictDirty' = TRUE
        /\ UNCHANGED <<tainted, removing>>
    BY DEF end_file, touch_all
  <1>3. CASE ~Live
    <2>1. index' = index
      BY <1>3 DEF end_file, touch_all
    <2> QED BY <1>1, <1>2, <1>3, <2>1, CommandKeeps DEF TypeOK, PostInv, Live
  <1>4. CASE Live
    <2>1. index' = [index EXCEPT !.stale = TRUE] /\ index \in Indexes
      BY <1>1, <1>4, LiveType DEF end_file, touch_all
    <2>2. /\ index' \in Indexes /\ index'.stale /\ index'.all = index.all
          /\ index'.dirty = index.dirty /\ index'.postings = index.postings
      BY <2>1, StaleType
    <2>3. PostInv'
      BY <2>2 DEF PostInv
    <2> QED BY <1>1, <1>2, <1>4, <2>2, <2>3, CommandKeeps DEF TypeOK
  <1> QED BY <1>3, <1>4

LEMMA MarkDictStep ==
    ASSUME IInv, NEW d \in Places, mark_dict_dirty(d)
    PROVE  IInv'
  <1>1. TypeOK /\ PostInv
    BY DEF IInv
  <1>2. /\ Command /\ dict' = d /\ dictDirty' = TRUE
        /\ UNCHANGED <<records, dirtyKeys, tainted, removing>>
    BY DEF mark_dict_dirty
  <1>3. CASE ~(Live /\ d # index.attr)
    <2>1. index' = index
      BY <1>3 DEF mark_dict_dirty
    <2>2. PostInv'
      BY <1>1, <1>2, <2>1 DEF PostInv, Live, Covers, keys_of
    <2> QED BY <1>1, <1>2, <2>1, <2>2, CommandKeeps DEF TypeOK, Live
  <1>4. CASE Live /\ d # index.attr
    <2>1. index' = [index EXCEPT !.stale = TRUE] /\ index \in Indexes
      BY <1>1, <1>4, LiveType DEF mark_dict_dirty
    <2>2. /\ index' \in Indexes /\ index'.stale /\ index'.all = index.all
          /\ index'.dirty = index.dirty /\ index'.postings = index.postings
      BY <2>1, StaleType
    <2>3. PostInv'
      BY <2>2 DEF PostInv
    <2> QED BY <1>1, <1>2, <1>4, <2>2, <2>3, CommandKeeps DEF TypeOK
  <1> QED BY <1>3, <1>4

\* Commands that build the index anew from the records.
LEMMA BuiltAnew ==
    ASSUME IInv, Command, NEW ix \in Indexes, NEW attr \in Attrs,
           index' = rebuild(ix, attr), tainted' = FALSE,
           UNCHANGED <<records, dirtyKeys, dict, dictDirty, removing>>
    PROVE  IInv'
  <1> DEFINE n == rebuild(ix, attr)
  <1>1. TypeOK
    BY DEF IInv
  <1>2. n \in Indexes /\ n.all /\ Covers(n.postings, records, n.attr, n.excluded)
    BY <1>1, RebuildFacts
  <1>3. index' = n
    OBVIOUS
  <1> HIDE DEF n
  <1>4. PostInv'
    BY <1>2, <1>3 DEF PostInv, Covers, keys_of
  <1> QED BY <1>1, <1>2, <1>3, <1>4, CommandKeeps DEF TypeOK

LEMMA RestoreStep ==
    ASSUME IInv, NEW x \in Exclusions, restore_index(x)
    PROVE  IInv'
  <1>1. dict \in Attrs
    BY DEF IInv, TypeOK, Places, restore_index
  <1>2. with_exclusions(dict, x) \in Indexes
    BY <1>1, WithExclusionsFacts
  <1> QED BY <1>1, <1>2, BuiltAnew DEF restore_index

LEMMA RebuildStep ==
    ASSUME IInv, rebuild_index
    PROVE  IInv'
  <1>1. dict \in Attrs /\ index \in Indexes
    BY LiveType DEF IInv, TypeOK, Places, rebuild_index
  <1> QED BY <1>1, BuiltAnew DEF rebuild_index

LEMMA SetExcludedStep ==
    ASSUME IInv, NEW x \in Exclusions, set_excluded(x)
    PROVE  IInv'
  <1>1. index \in Indexes /\ index.attr \in Attrs /\ dict \in Places
    BY LiveType DEF IInv, TypeOK, set_excluded
  <1>2. [index EXCEPT !.excluded = x] \in Indexes
    BY <1>1 DEF Indexes
  <1>3. (IF dict = Undefined THEN index.attr ELSE dict) \in Attrs
    BY <1>1 DEF Places
  <1> QED BY <1>2, <1>3, BuiltAnew DEF set_excluded

LEMMA DropStep ==
    ASSUME IInv, drop_index
    PROVE  IInv'
  <1>1. /\ Command /\ index' = NoIndex /\ tainted' = FALSE /\ removing' = TRUE
        /\ UNCHANGED <<records, dirtyKeys, dict, dictDirty>>
    BY DEF drop_index
  <1> QED BY <1>1, CommandKeeps DEF IInv, TypeOK, PostInv, Live

-----------------------------------------------------------------------------
(* The flush.                                                              *)

LEMMA BeginFlushStep ==
    ASSUME IInv, BeginFlush
    PROVE  IInv'
  <1>1. /\ pc = "idle" /\ (dirtyKeys # {} => version < MaxVersion)
        /\ pc' = IF dirtyKeys # {} THEN "groups" ELSE "dict"
        /\ todo' = dirtyKeys
        /\ UNCHANGED <<records, dirtyKeys, dict, dictDirty, version, removing, data, metaFile, dictFile,
                       entries, stateFile, section, loose, doubt, commands, fails, kills>>
    BY DEF BeginFlush, diskVars, markVars, boundVars
  <1>2. TypeOK /\ PostInv /\ EntryInv
    BY DEF IInv
  <1>3. /\ index' \in Indexes \cup {NoIndex} /\ tainted' \in BOOLEAN /\ Live' = Live
        /\ PostInv' /\ EntryInv'
    <2>1. CASE Live /\ index.stale /\ dict # Undefined
      <3>1. index \in Indexes /\ dict \in Attrs
        BY <1>2, <2>1, LiveType DEF TypeOK, Places
      <3> DEFINE n == rebuild(index, dict)
      <3>2. index' = n /\ tainted' = FALSE
        BY <2>1 DEF BeginFlush
      <3>3. n \in Indexes /\ n.all /\ Covers(n.postings, records, n.attr, n.excluded)
        BY <1>2, <3>1, RebuildFacts
      <3> HIDE DEF n
      <3>4. n # NoIndex
        BY <3>3, SentinelAssumption
      <3>5. PostInv' /\ EntryInv'
        BY <1>1, <3>2, <3>3 DEF PostInv, EntryInv, Covers, keys_of
      <3> QED BY <2>1, <3>2, <3>3, <3>4, <3>5 DEF Live
    <2>2. CASE ~(Live /\ index.stale /\ dict # Undefined)
      <3>1. UNCHANGED <<index, tainted>>
        BY <2>2 DEF BeginFlush
      <3>2. PostInv'
        BY <1>1, <1>2, <3>1 DEF PostInv, Live, Covers, keys_of
      <3>3. EntryInv'
        BY <1>1, <1>2, <3>1 DEF EntryInv, Live
      <3> QED BY <1>2, <3>1, <3>2, <3>3 DEF TypeOK, Live
    <2> QED BY <2>1, <2>2
  <1>4. TypeOK'
    BY <1>1, <1>2, <1>3 DEF TypeOK
  <1>5. DataInv'
    <2>1. data \in Contents /\ records \in Contents
      BY <1>2 DEF TypeOK
    <2>2. \A k \in Keys \ dirtyKeys : data[k] = records[k]
      BY <1>1 DEF IInv, DataInv
    <2>3. dirtyKeys = {} => data = records
      BY <2>1, <2>2 DEF Contents
    <2> QED BY <1>1, <2>2, <2>3 DEF DataInv
  <1>6. VersionInv' /\ DictInv'
    BY <1>1 DEF IInv, VersionInv, DictInv
  <1>7. StageInv'
    BY <1>1 DEF StageInv
  <1>8. DiskInv'
    BY <1>1 DEF IInv, DiskInv, Covers, keys_of
  <1> QED BY <1>3, <1>4, <1>5, <1>6, <1>7, <1>8 DEF IInv

\* The steps that leave the table in memory alone leave the index right.
LEMMA PostStays ==
    ASSUME PostInv, UNCHANGED <<records, index, tainted>>
    PROVE  PostInv'
  BY DEF PostInv, Live, Covers, keys_of

LEMMA DiskStays ==
    ASSUME DiskInv, UNCHANGED <<data, metaFile, entries, stateFile, section, loose, doubt>>
    PROVE  DiskInv'
  BY DEF DiskInv, Covers, keys_of

LEMMA WriteGroupStep ==
    ASSUME IInv, NEW k \in Keys, write_group(k)
    PROVE  IInv'
  <1>1. /\ pc = "groups" /\ k \in todo /\ data' = [data EXCEPT ![k] = records[k]]
        /\ todo' = todo \ {k} /\ loose' = loose \cup {"data"}
        /\ UNCHANGED <<records, dirtyKeys, dict, dictDirty, index, tainted, version, pc, removing, metaFile,
                       dictFile, entries, stateFile, section, doubt, commands, fails, kills>>
    BY DEF write_group, tableVars, boundVars
  <1>2. TypeOK' /\ data \in [Keys -> Records \cup {Absent}]
    BY <1>1 DEF IInv, TypeOK, Contents
  <1>3. PostInv'
    BY <1>1, PostStays DEF IInv
  <1>4. DataInv'
    BY <1>1, <1>2 DEF IInv, DataInv
  <1>5. VersionInv' /\ DictInv' /\ StageInv'
    BY <1>1 DEF IInv, VersionInv, DictInv, StageInv, Live
  <1>6. EntryInv'
    BY <1>1 DEF IInv, EntryInv, Live
  <1>7. DiskInv'
    BY <1>1 DEF DiskInv
  <1> QED BY <1>2, <1>3, <1>4, <1>5, <1>6, <1>7 DEF IInv

\* No state file carries the new stamp: the index is not trusted until it is
\* saved in its turn.
LEMMA WriteMetaStep ==
    ASSUME IInv, write_meta
    PROVE  IInv'
  <1>1. /\ pc = "groups" /\ todo = {} /\ metaFile' = version + 1
        /\ loose' = loose \ {"data"} /\ pc' = "stamped"
        /\ UNCHANGED <<records, dirtyKeys, dict, dictDirty, index, tainted, version, todo, removing, data,
                       dictFile, entries, stateFile, section, doubt, commands, fails, kills>>
    BY DEF write_meta, tableVars, boundVars
  <1>2. version \in 0..MaxVersion /\ version < MaxVersion /\ MaxVersion \in Nat
    BY <1>1, BoundsAssumption DEF IInv, TypeOK, VersionInv
  <1>3. TypeOK'
    BY <1>1, <1>2 DEF IInv, TypeOK
  <1>4. PostInv'
    BY <1>1, PostStays DEF IInv
  <1>5. DataInv'
    BY <1>1 DEF IInv, TypeOK, Contents, DataInv
  <1>6. VersionInv' /\ DictInv' /\ StageInv'
    BY <1>1 DEF IInv, VersionInv, DictInv, StageInv, Live
  <1>7. EntryInv'
    BY <1>1 DEF IInv, EntryInv, Live
  <1>8. DiskInv'
    <2>1. stateFile # NoState => stateFile.version <= version /\ stateFile.version \in Nat
      BY DEF IInv, VersionInv, TypeOK, States
    <2> QED BY <1>1, <1>2, <2>1 DEF DiskInv
  <1> QED BY <1>3, <1>4, <1>5, <1>6, <1>7, <1>8 DEF IInv

LEMMA RecordsSavedStep ==
    ASSUME IInv, RecordsSaved
    PROVE  IInv'
  <1>1. /\ pc = "stamped" /\ version' = metaFile /\ pc' = "dict"
        /\ UNCHANGED <<records, dirtyKeys, dict, dictDirty, index, tainted, todo, removing, data, metaFile,
                       dictFile, entries, stateFile, section, loose, doubt, commands, fails, kills>>
    BY DEF RecordsSaved, tableVars, diskVars, markVars, boundVars
  <1>2. TypeOK'
    BY <1>1 DEF IInv, TypeOK
  <1>3. PostInv' /\ DiskInv'
    BY <1>1, PostStays, DiskStays DEF IInv
  <1>4. DataInv' /\ DictInv' /\ StageInv'
    BY <1>1 DEF IInv, DataInv, DictInv, StageInv, Live
  <1>5. VersionInv'
    <2>1. version \in Nat /\ (stateFile # NoState => stateFile.version \in Nat)
      BY BoundsAssumption DEF IInv, TypeOK, States
    <2> QED BY <1>1, <2>1 DEF IInv, VersionInv
  <1>6. EntryInv'
    BY <1>1 DEF IInv, EntryInv, Live
  <1> QED BY <1>2, <1>3, <1>4, <1>5, <1>6 DEF IInv

\* The index's turn begins: what it need not write is on disk.
LEMMA ToIndexStep ==
    ASSUME IInv, pc \in {"dict", "dictCut"}, ToIndex, dictFile' = dict,
           UNCHANGED <<tableVars, version, removing, data, metaFile, entries, stateFile, section,
                       markVars, boundVars>>
    PROVE  IInv'
  <1>1. /\ pc' = IF Live THEN "index" ELSE "saved"
        /\ todo' = IndexTodo
        /\ UNCHANGED <<records, dirtyKeys, dict, dictDirty, index, tainted, version, removing, data, metaFile,
                       entries, stateFile, section, loose, doubt, commands, fails, kills>>
    BY DEF ToIndex, tableVars, markVars, boundVars
  <1>2. TypeOK /\ IndexTodo \in SUBSET Entries
    BY LiveType DEF IInv, IndexTodo
  <1>3. TypeOK'
    BY <1>1, <1>2 DEF TypeOK
  <1>4. PostInv' /\ DiskInv'
    BY <1>1, PostStays, DiskStays DEF IInv
  <1>5. DataInv' /\ VersionInv' /\ DictInv'
    BY <1>1 DEF IInv, DataInv, VersionInv, DictInv
  <1>6. StageInv'
    BY <1>1 DEF StageInv, Live
  <1>7. EntryInv'
    BY <1>1 DEF IInv, EntryInv, Live, IndexTodo
  <1> QED BY <1>3, <1>4, <1>5, <1>6, <1>7 DEF IInv

LEMMA SaveSectionStep ==
    ASSUME IInv, save_section
    PROVE  IInv'
  <1>1. CASE dictDirty
    <2>1. /\ pc = "dict" /\ pc' = "dictCut" /\ dictFile' = Undefined
          /\ UNCHANGED <<records, dirtyKeys, dict, dictDirty, index, tainted, version, todo, removing, data,
                         metaFile, entries, stateFile, section, loose, doubt, commands, fails, kills>>
      BY <1>1 DEF save_section, tableVars, markVars, boundVars
    <2>2. TypeOK'
      BY <2>1 DEF IInv, TypeOK, Places
    <2>3. PostInv' /\ DiskInv'
      BY <2>1, PostStays, DiskStays DEF IInv
    <2>4. DataInv' /\ VersionInv'
      BY <2>1 DEF IInv, DataInv, VersionInv
    <2>5. DictInv' /\ StageInv'
      BY <1>1, <2>1 DEF IInv, DictInv, StageInv, Live
    <2>6. EntryInv'
      BY <2>1 DEF IInv, EntryInv, Live
    <2> QED BY <2>2, <2>3, <2>4, <2>5, <2>6 DEF IInv
  <1>2. CASE ~dictDirty
    <2>1. /\ pc = "dict" /\ ToIndex /\ dictFile' = dictFile
          /\ UNCHANGED <<tableVars, version, removing, data, metaFile, entries, stateFile, section,
                         markVars, boundVars>>
      BY <1>2 DEF save_section
    <2>2. dictFile = dict
      BY <1>2, <2>1 DEF IInv, DictInv
    <2> QED BY <2>1, <2>2, ToIndexStep
  <1> QED BY <1>1, <1>2 DEF IInv, TypeOK

LEMMA DictWrittenStep ==
    ASSUME IInv, DictWritten
    PROVE  IInv'
  BY ToIndexStep DEF DictWritten

\* Doubt is lifted only when a full save writes its first entry: nothing it
\* has written before can have been removed.
LEMMA WriteEntryStep ==
    ASSUME IInv, NEW e \in Entries, write_entry(e)
    PROVE  IInv'
  <1>1. /\ pc = "index" /\ e \in todo /\ entries' = [entries EXCEPT ![e] = index.postings[e]]
        /\ section' = TRUE /\ todo' = todo \ {e} /\ loose' = loose \cup {"index"}
        /\ doubt' = IF index.all /\ todo = Entries THEN tainted \/ index.stale ELSE doubt
        /\ UNCHANGED <<records, dirtyKeys, dict, dictDirty, index, tainted, version, pc, removing, data,
                       metaFile, dictFile, stateFile, commands, fails, kills>>
    BY DEF write_entry, tableVars, boundVars
  <1>2. /\ TypeOK /\ Live /\ entries \in [Entries -> SUBSET Keys] /\ index.all \in BOOLEAN
        /\ index.stale \in BOOLEAN /\ index.postings \in [Entries -> SUBSET Keys]
    BY <1>1, LiveType DEF IInv, StageInv, TypeOK
  <1>3. TypeOK'
    <2>1. doubt' \in BOOLEAN
      BY <1>1, <1>2 DEF TypeOK
    <2> QED BY <1>1, <1>2, <2>1 DEF TypeOK
  <1>4. PostInv'
    BY <1>1, PostStays DEF IInv
  <1>5. DataInv' /\ VersionInv' /\ DictInv' /\ StageInv'
    BY <1>1 DEF IInv, DataInv, VersionInv, DictInv, StageInv, Live
  <1>6. EntryInv'
    <2>1. /\ entries'[e] = index.postings[e]
          /\ \A x \in Entries \ {e} : entries'[x] = entries[x]
      BY <1>1, <1>2
    <2>2. CASE index.all /\ todo = Entries
      BY <1>1, <1>2, <2>1, <2>2 DEF EntryInv, Live
    <2>3. CASE ~(index.all /\ todo = Entries)
      BY <1>1, <1>2, <2>1, <2>3 DEF IInv, EntryInv, Live
    <2> QED BY <2>2, <2>3
  <1>7. DiskInv'
    BY <1>1 DEF DiskInv
  <1> QED BY <1>3, <1>4, <1>5, <1>6, <1>7 DEF IInv

LEMMA EntriesSavedStep ==
    ASSUME IInv, EntriesSaved
    PROVE  IInv'
  <1> DEFINE n == [index EXCEPT !.dirty = {}, !.all = FALSE]
  <1>1. /\ pc = "index" /\ todo = {} /\ index' = n /\ pc' = "state"
        /\ UNCHANGED <<records, dirtyKeys, dict, dictDirty, tainted, version, todo, removing, data, metaFile,
                       dictFile, entries, stateFile, section, loose, doubt, commands, fails, kills>>
    BY DEF EntriesSaved, diskVars, markVars, boundVars
  <1>2. TypeOK /\ Live /\ index \in Indexes
    BY <1>1, LiveType DEF IInv, StageInv
  <1>3. /\ n \in Indexes /\ n.attr = index.attr /\ n.postings = index.postings /\ n.excluded = index.excluded
        /\ n.stale = index.stale /\ n.dirty = {} /\ n.all = FALSE
    BY <1>2 DEF Indexes
  <1> HIDE DEF n
  <1>4. n # NoIndex
    BY <1>3, SentinelAssumption
  <1>5. TypeOK'
    BY <1>1, <1>2, <1>3 DEF TypeOK
  <1>6. PostInv'
    BY <1>1, <1>2, <1>3 DEF IInv, PostInv, Live, Covers, keys_of
  <1>7. DataInv' /\ VersionInv' /\ DictInv'
    BY <1>1 DEF IInv, DataInv, VersionInv, DictInv
  <1>8. StageInv'
    BY <1>1, <1>3, <1>4 DEF StageInv, Live
  <1>9. EntryInv'
    BY <1>1, <1>2, <1>3 DEF IInv, EntryInv
  <1>10. DiskInv'
    BY <1>1, DiskStays DEF IInv
  <1> QED BY <1>5, <1>6, <1>7, <1>8, <1>9, <1>10 DEF IInv

\* The state vouches for the section: its entries are the index's, which
\* covers the records, which are the ones on disk.
LEMMA WriteStateStep ==
    ASSUME IInv, write_state
    PROVE  IInv'
  <1> DEFINE s == [attr |-> index.attr, version |-> version, excluded |-> index.excluded]
  <1>1. /\ pc = "state" /\ pc' = "saved" /\ stateFile' = s /\ section' = TRUE
        /\ loose' = loose \ {"index"} /\ doubt' = (doubt \/ tainted \/ index.stale)
        /\ UNCHANGED <<records, dirtyKeys, dict, dictDirty, index, tainted, version, todo, removing, data,
                       metaFile, dictFile, entries, commands, fails, kills>>
    BY DEF write_state, tableVars, boundVars
  <1>2. /\ TypeOK /\ Live /\ index.attr \in Attrs /\ index.excluded \in Exclusions /\ index.stale \in BOOLEAN
        /\ version \in 0..MaxVersion /\ ~index.all /\ index.dirty = {}
        /\ index.postings \in [Entries -> SUBSET Keys] /\ entries \in [Entries -> SUBSET Keys]
        /\ data = records
    BY <1>1, LiveType DEF IInv, StageInv, TypeOK, DataInv
  <1>3. s \in States /\ s.version = version /\ s.attr = index.attr /\ s.excluded = index.excluded
    BY <1>2 DEF States
  <1>4. StageInv'
    BY <1>1, <1>2 DEF StageInv, Live
  <1> HIDE DEF s
  <1>5. TypeOK'
    <2>1. doubt' \in BOOLEAN
      BY <1>1, <1>2 DEF TypeOK
    <2> QED BY <1>1, <1>2, <1>3, <2>1 DEF TypeOK
  <1>6. PostInv'
    BY <1>1, PostStays DEF IInv
  <1>7. DataInv' /\ DictInv'
    BY <1>1 DEF IInv, DataInv, DictInv
  <1>8. VersionInv'
    BY <1>1, <1>2, <1>3 DEF IInv, VersionInv
  <1>9. EntryInv'
    BY <1>1 DEF IInv, EntryInv, Live
  <1>10. DiskInv'
    <2> SUFFICES ASSUME ~doubt, ~tainted, ~index.stale
                 PROVE  Covers(entries', data', stateFile'.attr, stateFile'.excluded)
      BY <1>1 DEF DiskInv
    <2>1. entries = index.postings
      BY <1>2 DEF IInv, EntryInv
    <2>2. Covers(entries, data, index.attr, index.excluded)
      BY <1>2, <2>1 DEF IInv, PostInv
    <2> QED BY <1>1, <1>3, <2>2 DEF Covers, keys_of
  <1> QED BY <1>4, <1>5, <1>6, <1>7, <1>8, <1>9, <1>10 DEF IInv

LEMMA ClearDirtyStep ==
    ASSUME IInv, clear_dirty
    PROVE  IInv'
  <1>1. /\ pc = "saved" /\ dirtyKeys' = {} /\ dictDirty' = FALSE /\ pc' = "idle"
        /\ UNCHANGED <<records, dict, index, tainted, version, todo, removing, data, metaFile, dictFile,
                       entries, stateFile, section, loose, doubt, commands, fails, kills>>
    BY DEF clear_dirty, diskVars, markVars, boundVars
  <1>2. TypeOK'
    BY <1>1 DEF IInv, TypeOK
  <1>3. PostInv' /\ DiskInv'
    BY <1>1, PostStays, DiskStays DEF IInv
  <1>4. DataInv' /\ VersionInv' /\ DictInv'
    BY <1>1 DEF IInv, DataInv, VersionInv, DictInv
  <1>5. StageInv' /\ EntryInv'
    BY <1>1 DEF IInv, StageInv, EntryInv, Live
  <1> QED BY <1>2, <1>3, <1>4, <1>5 DEF IInv

LEMMA FlushFailsStep ==
    ASSUME IInv, FlushFails
    PROVE  IInv'
  <1>1. /\ Flushing /\ fails < MaxFails /\ fails' = fails + 1 /\ pc' = "idle" /\ todo' = {}
        /\ UNCHANGED <<records, dirtyKeys, dict, dictDirty, index, tainted, version, removing, data, metaFile,
                       dictFile, entries, stateFile, section, loose, doubt, commands, kills>>
    BY DEF FlushFails, tableVars, diskVars, markVars
  <1>2. TypeOK'
    BY <1>1, BoundsAssumption DEF IInv, TypeOK
  <1>3. PostInv' /\ DiskInv'
    BY <1>1, PostStays, DiskStays DEF IInv
  <1>4. DataInv' /\ VersionInv' /\ DictInv'
    BY <1>1 DEF IInv, DataInv, VersionInv, DictInv, Flushing
  <1>5. StageInv' /\ EntryInv'
    BY <1>1 DEF IInv, StageInv, EntryInv, Live
  <1> QED BY <1>2, <1>3, <1>4, <1>5 DEF IInv

-----------------------------------------------------------------------------
(* The removal of a dropped section, and restarts.                         *)

LEMMA RemoveEntryStep ==
    ASSUME IInv, NEW e \in Entries, remove_entry(e)
    PROVE  IInv'
  <1>1. /\ entries' = [entries EXCEPT ![e] = {}] /\ doubt' = TRUE
        /\ UNCHANGED <<records, dirtyKeys, dict, dictDirty, index, tainted, version, pc, todo, removing, data,
                       metaFile, dictFile, stateFile, section, loose, commands, fails, kills>>
    BY DEF remove_entry, tableVars, flushVars, boundVars
  <1>2. TypeOK'
    BY <1>1 DEF IInv, TypeOK
  <1>3. PostInv'
    BY <1>1, PostStays DEF IInv
  <1>4. DataInv' /\ VersionInv' /\ DictInv' /\ StageInv'
    BY <1>1 DEF IInv, DataInv, VersionInv, DictInv, StageInv, Live
  <1>5. EntryInv' /\ DiskInv'
    BY <1>1 DEF EntryInv, DiskInv
  <1> QED BY <1>2, <1>3, <1>4, <1>5 DEF IInv

LEMMA RemoveStateStep ==
    ASSUME IInv, remove_state
    PROVE  IInv'
  <1>1. /\ stateFile' = NoState /\ doubt' = TRUE
        /\ UNCHANGED <<records, dirtyKeys, dict, dictDirty, index, tainted, version, pc, todo, removing, data,
                       metaFile, dictFile, entries, section, loose, commands, fails, kills>>
    BY DEF remove_state, tableVars, flushVars, boundVars
  <1>2. TypeOK'
    BY <1>1 DEF IInv, TypeOK
  <1>3. PostInv'
    BY <1>1, PostStays DEF IInv
  <1>4. DataInv' /\ VersionInv' /\ DictInv' /\ StageInv'
    BY <1>1 DEF IInv, DataInv, VersionInv, DictInv, StageInv, Live
  <1>5. EntryInv' /\ DiskInv'
    BY <1>1 DEF EntryInv, DiskInv
  <1> QED BY <1>2, <1>3, <1>4, <1>5 DEF IInv

\* The directory goes only when there is no state file in it.
LEMMA RemovalEndsStep ==
    ASSUME IInv, RemovalEnds
    PROVE  IInv'
  <1>1. /\ removing' = FALSE /\ section' \in {section, FALSE} /\ (stateFile # NoState => section' = section)
        /\ UNCHANGED <<records, dirtyKeys, dict, dictDirty, index, tainted, version, pc, todo, data,
                       metaFile, dictFile, entries, stateFile, loose, doubt, commands, fails, kills>>
    BY DEF RemovalEnds, tableVars, flushVars, markVars, boundVars
  <1>2. TypeOK'
    BY <1>1 DEF IInv, TypeOK
  <1>3. PostInv'
    BY <1>1, PostStays DEF IInv
  <1>4. DataInv' /\ VersionInv' /\ DictInv'
    BY <1>1 DEF IInv, DataInv, VersionInv, DictInv
  <1>5. EntryInv'
    BY <1>1 DEF IInv, EntryInv, Live
  <1>6. StageInv'
    <2>1. ASSUME Live, pc = "saved", ~doubt PROVE stateFile # NoState
      <3>1. stateFile = [attr |-> index.attr, version |-> version, excluded |-> index.excluded]
        BY <2>1 DEF IInv, StageInv
      <3>2. index.attr \in Attrs /\ index.excluded \in Exclusions /\ version \in 0..MaxVersion
        BY <2>1, LiveType DEF IInv, TypeOK
      <3> QED BY <3>1, <3>2, SentinelAssumption DEF States
    <2> QED BY <1>1, <2>1 DEF IInv, StageInv, Live
  <1>7. DiskInv'
    BY <1>1 DEF IInv, DiskInv, Covers, keys_of
  <1> QED BY <1>2, <1>3, <1>4, <1>5, <1>6, <1>7 DEF IInv

LEMMA CrashStep ==
    ASSUME IInv, Crash
    PROVE  IInv'
  <1>1. /\ kills < MaxKills /\ kills' = kills + 1 /\ pc' = "down" /\ todo' = {} /\ removing' = FALSE
        /\ records' = [k \in Keys |-> Absent] /\ dirtyKeys' = {} /\ dict' = Undefined /\ dictDirty' = FALSE
        /\ index' = NoIndex /\ tainted' = FALSE
        /\ UNCHANGED <<version, data, metaFile, dictFile, entries, stateFile, section, loose, doubt,
                       commands, fails>>
    BY DEF Crash, diskVars, markVars
  <1>2. TypeOK'
    <2>1. records' \in Contents /\ dict' \in Places
      BY <1>1 DEF Contents, Places
    <2>2. /\ dirtyKeys' \in SUBSET Keys /\ todo' \in SUBSET (Keys \cup Entries) /\ removing' \in BOOLEAN
          /\ dictDirty' \in BOOLEAN /\ tainted' \in BOOLEAN /\ index' \in Indexes \cup {NoIndex}
          /\ pc' = "down"
      BY <1>1
    <2>3. kills' \in 0..MaxKills
      BY <1>1, BoundsAssumption DEF IInv, TypeOK
    <2> QED BY <1>1, <2>1, <2>2, <2>3 DEF IInv, TypeOK
  <1>3. PostInv' /\ DataInv' /\ DictInv' /\ EntryInv' /\ StageInv'
    BY <1>1 DEF PostInv, DataInv, DictInv, EntryInv, StageInv, Live
  <1>4. VersionInv' /\ DiskInv'
    BY <1>1, DiskStays DEF IInv, VersionInv
  <1> QED BY <1>2, <1>3, <1>4 DEF IInv

\* What is read back and trusted covers the records that are read with it,
\* unless its files were in doubt; what is not trusted is built anew.
LEMMA LoadStep ==
    ASSUME IInv, load
    PROVE  IInv'
  <1>1. /\ pc = "down" /\ pc' = "idle" /\ records' = data /\ dict' = dictFile /\ version' = metaFile
        /\ tainted' = (Trusted /\ (loose # {} \/ doubt))
        /\ UNCHANGED <<dirtyKeys, dictDirty, todo, removing, data, metaFile, dictFile, entries, stateFile,
                       section, loose, doubt, commands, fails, kills>>
    BY DEF load, diskVars, markVars, boundVars
  <1>2. /\ TypeOK /\ data \in Contents /\ dictFile \in Places /\ entries \in [Entries -> SUBSET Keys]
        /\ stateFile \in States \cup {NoState} /\ doubt \in BOOLEAN /\ section \in BOOLEAN
    BY DEF IInv, TypeOK
  <1>3. Trusted \in BOOLEAN /\ (Trusted => section /\ dictFile # Undefined)
    BY <1>2, AttrsAssumption DEF Trusted, States
  <1>4. /\ index' \in Indexes \cup {NoIndex}
        /\ PostInv'
        /\ Live' /\ ~index'.all => index'.postings = entries
    <2>1. CASE ~section
      <3>1. index' = NoIndex
        BY <2>1 DEF load, Read
      <3> QED BY <3>1 DEF PostInv, Live
    <2>2. CASE section /\ dictFile = Undefined
      <3>1. index' = with_exclusions(0, {})
        BY <2>2 DEF load, Read
      <3>2. index' \in Indexes
        BY <3>1, AttrsAssumption, ExclusionsAssumption, WithExclusionsFacts
      <3>3. index'.all /\ index'.stale
        BY <3>1 DEF with_exclusions
      <3> QED BY <3>2, <3>3 DEF PostInv
    <2>3. CASE section /\ dictFile # Undefined
      <3>1. dictFile \in Attrs /\ Read = loaded
        BY <1>2, <2>3 DEF Places, Read
      <3>2. (IF stateFile = NoState THEN {} ELSE stateFile.excluded) \in Exclusions
        BY <1>2, ExclusionsAssumption DEF States
      <3>3. PICK x \in Exclusions : x = IF stateFile = NoState THEN {} ELSE stateFile.excluded
        BY <3>2
      <3>4. loaded = [attr |-> dictFile, postings |-> entries, excluded |-> x,
                      dirty |-> {}, all |-> FALSE, stale |-> ~Trusted]
        BY <3>3 DEF loaded
      <3>5. CASE ~Trusted
        <4> DEFINE p == Derived(data, dictFile, x)
        <4>1. index' = [attr |-> dictFile, postings |-> p, excluded |-> x,
                        dirty |-> {}, all |-> TRUE, stale |-> FALSE]
          BY <2>3, <3>1, <3>4, <3>5 DEF load
        <4>2. p \in [Entries -> SUBSET Keys] /\ Covers(p, data, dictFile, x)
          BY <1>2, <3>1, DerivedCovers
        <4> HIDE DEF p
        <4>3. index' \in Indexes
          BY <3>1, <4>1, <4>2 DEF Indexes
        <4>4. Covers(index'.postings, records', index'.attr, index'.excluded)
          BY <1>1, <4>1, <4>2
        <4>5. PostInv'
          BY <4>4 DEF PostInv, Covers, keys_of
        <4> QED BY <4>1, <4>3, <4>5
      <3>6. CASE Trusted
        <4>1. index' = [attr |-> dictFile, postings |-> entries, excluded |-> x,
                        dirty |-> {}, all |-> FALSE, stale |-> FALSE]
          BY <2>3, <3>1, <3>4, <3>6 DEF load
        <4>2. index' \in Indexes
          BY <1>2, <3>1, <4>1 DEF Indexes
        <4>3. ASSUME ~tainted' PROVE Covers(index'.postings, records', index'.attr, index'.excluded)
          <5>1. Covers(entries, data, stateFile.attr, stateFile.excluded)
            BY <1>1, <3>6, <4>3 DEF IInv, DiskInv, Trusted
          <5>2. stateFile.attr = dictFile /\ stateFile.excluded = x
            BY <3>3, <3>6 DEF Trusted
          <5> QED BY <1>1, <4>1, <5>1, <5>2
        <4>4. PostInv'
          BY <4>3 DEF PostInv, Covers, keys_of
        <4> QED BY <4>1, <4>2, <4>4
      <3> QED BY <1>3, <3>5, <3>6
    <2> QED BY <1>2, <2>1, <2>2, <2>3
  <1>5. TypeOK'
    <2>1. tainted' \in BOOLEAN
      BY <1>1, <1>2, <1>3
    <2> QED BY <1>1, <1>2, <1>4, <2>1 DEF TypeOK
  <1>6. DataInv' /\ DictInv' /\ StageInv'
    BY <1>1 DEF DataInv, DictInv, StageInv
  <1>7. VersionInv'
    <2>1. version \in Nat /\ (stateFile # NoState => stateFile.version \in Nat)
      BY BoundsAssumption DEF IInv, TypeOK, States
    <2> QED BY <1>1, <2>1 DEF IInv, VersionInv
  <1>8. EntryInv'
    BY <1>1, <1>4 DEF EntryInv
  <1>9. DiskInv'
    BY <1>1, DiskStays DEF IInv
  <1> QED BY <1>4, <1>5, <1>6, <1>7, <1>8, <1>9 DEF IInv

LEMMA StutterStep ==
    ASSUME IInv, UNCHANGED vars
    PROVE  IInv'
  <1>1. UNCHANGED <<records, dirtyKeys, dict, dictDirty, index, tainted, version, pc, todo, removing, data,
                    metaFile, dictFile, entries, stateFile, section, loose, doubt, commands, fails, kills>>
    BY DEF vars, tableVars, flushVars, diskVars, markVars, boundVars
  <1>2. TypeOK'
    BY <1>1 DEF IInv, TypeOK
  <1>3. PostInv' /\ DiskInv'
    BY <1>1, PostStays, DiskStays DEF IInv
  <1>4. DataInv' /\ VersionInv' /\ DictInv'
    BY <1>1 DEF IInv, DataInv, VersionInv, DictInv
  <1>5. StageInv' /\ EntryInv'
    BY <1>1 DEF IInv, StageInv, EntryInv, Live
  <1> QED BY <1>2, <1>3, <1>4, <1>5 DEF IInv

-----------------------------------------------------------------------------
(* The results.                                                            *)

LEMMA InitInv == Init => IInv
  <1> SUFFICES ASSUME Init PROVE IInv
    OBVIOUS
  <1>1. TypeOK
    <2>1. records \in Contents /\ data \in Contents
      BY DEF Init, Contents
    <2>2. entries \in [Entries -> SUBSET Keys]
      BY DEF Init
    <2>3. /\ version \in 0..MaxVersion /\ metaFile \in 0..MaxVersion
          /\ commands \in 0..MaxCommands /\ fails \in 0..MaxFails /\ kills \in 0..MaxKills
      BY BoundsAssumption DEF Init
    <2>4. /\ dirtyKeys \in SUBSET Keys /\ dict \in Places /\ dictFile \in Places /\ dictDirty \in BOOLEAN
          /\ index \in Indexes \cup {NoIndex} /\ pc = "idle" /\ todo \in SUBSET (Keys \cup Entries)
          /\ removing \in BOOLEAN /\ stateFile \in States \cup {NoState} /\ section \in BOOLEAN
          /\ loose \in SUBSET {"data", "index"} /\ doubt \in BOOLEAN /\ tainted \in BOOLEAN
      BY DEF Init
    <2> QED BY <2>1, <2>2, <2>3, <2>4 DEF TypeOK
  <1>2. PostInv /\ DataInv /\ DictInv /\ EntryInv /\ StageInv
    BY DEF Init, PostInv, DataInv, DictInv, EntryInv, StageInv, Live
  <1>3. VersionInv /\ DiskInv
    BY DEF Init, VersionInv, DiskInv
  <1> QED BY <1>1, <1>2, <1>3 DEF IInv

LEMMA NextInv == IInv /\ [Next]_vars => IInv'
  <1> SUFFICES ASSUME IInv, [Next]_vars PROVE IInv'
    OBVIOUS
  <1>1. ASSUME NEW k \in Keys,
               remove_record(k) \/ take_dead(k) \/ (\E r \in Records : insert_record(k, r)) \/ write_group(k)
        PROVE  IInv'
    BY <1>1, PutStep, TakeDeadStep, WriteGroupStep DEF remove_record, insert_record
  <1>2. ASSUME NEW c \in Archives, NEW d \in Places, end_file(c, d) PROVE IInv'
    BY <1>2, EndFileStep
  <1>3. ASSUME NEW d \in Places, mark_dict_dirty(d) PROVE IInv'
    BY <1>3, MarkDictStep
  <1>4. ASSUME NEW x \in Exclusions, create_index(x) \/ restore_index(x) \/ set_excluded(x) PROVE IInv'
    BY <1>4, RestoreStep, SetExcludedStep DEF create_index
  <1>5. ASSUME drop_index \/ rebuild_index \/ BeginFlush \/ write_meta \/ RecordsSaved PROVE IInv'
    BY <1>5, DropStep, RebuildStep, BeginFlushStep, WriteMetaStep, RecordsSavedStep
  <1>6. ASSUME save_section \/ DictWritten \/ EntriesSaved \/ write_state \/ clear_dirty PROVE IInv'
    BY <1>6, SaveSectionStep, DictWrittenStep, EntriesSavedStep, WriteStateStep, ClearDirtyStep
  <1>7. ASSUME NEW e \in Entries, write_entry(e) \/ remove_entry(e) PROVE IInv'
    BY <1>7, WriteEntryStep, RemoveEntryStep
  <1>8. ASSUME FlushFails \/ remove_state \/ RemovalEnds \/ Crash \/ load PROVE IInv'
    BY <1>8, FlushFailsStep, RemoveStateStep, RemovalEndsStep, CrashStep, LoadStep
  <1>9. ASSUME UNCHANGED vars PROVE IInv'
    BY <1>9, StutterStep
  <1> QED BY <1>1, <1>2, <1>3, <1>4, <1>5, <1>6, <1>7, <1>8, <1>9 DEF Next

\* The inductive invariant: what is in memory, what is dirty and what is on
\* disk account for each other at every step of a flush (flush_locked).
THEOREM InvHolds == Spec => []IInv
  BY InitInv, NextInv, PTL DEF Spec

\* Type correctness of the table and its files.
THEOREM TypeCorrect == Spec => []TypeOK
  <1>1. IInv => TypeOK
    BY DEF IInv
  <1> QED BY <1>1, InvHolds, PTL

\* Selecting by an index that was whole when it was read finds what a scan
\* finds, for every query, through kills, failed flushes, moved fields and
\* exclusions (collect_matches_in, load_indexes).
THEOREM NarrowsOnly == Spec => []Narrows
  <1>1. IInv => Narrows
    BY PlanSound DEF IInv, Narrows, SameAnswers
  <1> QED BY <1>1, InvHolds, PTL

\* A value an operator excluded is never held (apply, rebuild, load_indexes).
THEOREM ExclusionsKept == Spec => []ExclusionsHold
  <1>1. IInv => ExclusionsHold
    BY DEF IInv, PostInv, Covers, ExclusionsHold
  <1> QED BY <1>1, InvHolds, PTL

\* A flush that returns leaves an index the next load trusts and reads back as
\* it is in memory (flush_locked, save_indexes).
THEOREM FlushSettled == Spec => []FlushSettles
  <1>1. ASSUME IInv PROVE FlushSettles
    <2> SUFFICES ASSUME pc = "saved", Live, ~index.stale, dict = index.attr, ~doubt
                 PROVE  Trusted /\ entries = index.postings /\ stateFile.excluded = index.excluded
      BY DEF FlushSettles
    <2>1. /\ index.attr \in Attrs /\ index.excluded \in Exclusions /\ version \in 0..MaxVersion
          /\ index.postings \in [Entries -> SUBSET Keys] /\ entries \in [Entries -> SUBSET Keys]
      BY <1>1, LiveType DEF IInv, TypeOK
    <2>2. /\ section /\ stateFile = [attr |-> index.attr, version |-> version, excluded |-> index.excluded]
          /\ ~index.all /\ index.dirty = {} /\ version = metaFile /\ dictFile = dict
      BY <1>1 DEF IInv, StageInv, VersionInv, DictInv
    <2>3. stateFile # NoState
      BY <2>1, <2>2, SentinelAssumption DEF States
    <2>4. Trusted /\ stateFile.excluded = index.excluded
      BY <2>2, <2>3 DEF Trusted
    <2>5. entries = index.postings
      BY <1>1, <2>1, <2>2 DEF IInv, EntryInv
    <2> QED BY <2>4, <2>5
  <1> QED BY <1>1, InvHolds, PTL
=============================================================================
