------------------------------ MODULE Catalog ------------------------------
(***************************************************************************)
(* Accounts and files: the account registry, each account's DIR file with  *)
(* the attributes of the files it lists, the cache those attributes are    *)
(* read through, and what becomes of a file's records, dictionary and key  *)
(* counter as files are created, set, deleted and written, and the process *)
(* dies.  Commands that change the catalog hold the server's lock alone,   *)
(* so only a crash comes between their steps.                              *)
(*                                                                         *)
(* How a section reaches the disk is HashFile's subject, and how tables    *)
(* come and go in memory Cache's: here a flush of a file writes its        *)
(* records, then its dictionary, then its counter.  What a queue holds     *)
(* beside its records is Queue's, and the bodies of a directory file's     *)
(* records Server's.  A dictionary is there or is empty.                   *)
(***************************************************************************)
EXTENDS Integers, FiniteSets

CONSTANTS
    Accounts,   \* names of accounts, SYSTEM not among them
    Files,      \* names of files, DIR not among them
    Keys,       \* record keys that are sequence numbers
    Times,      \* readings of the clock, as sequence numbers: in any order
    Asked,      \* what a CREATE.FILE or SET.FILE of each file may say of its attributes
    Busy,       \* the files whose records are written: a bound
    Absent,     \* an attribute such a command does not mention
    None        \* nothing there

Flags == {"durable", "queue", "autokey", "directory"}
Attributes == [Flags -> BOOLEAN]
Default == [flag \in Flags |-> FALSE]
Paths == Accounts \X Files

ASSUME CatalogAssumption ==
    /\ IsFiniteSet(Accounts) /\ IsFiniteSet(Files)
    /\ Busy \subseteq Files
    /\ Keys \subseteq Nat /\ Keys # {} /\ IsFiniteSet(Keys) /\ Times \subseteq Nat
    /\ Asked \in [Files -> SUBSET [Flags -> BOOLEAN \cup {Absent}]] /\ Absent \notin BOOLEAN
    /\ None \notin Nat /\ None \notin Attributes

VARIABLES
    registry,      \* accounts_config: the accounts the server knows
    registryFile,  \* accounts.reg
    host,          \* each file on disk, or None
    table,         \* each file in memory, or None when it is not loaded
    dir,           \* each account's DIR: the entry of each file, or None
    dirFile,       \* each account's DIR on disk
    cache,         \* file_attributes: what was last read of an entry, or None
    answer,        \* the last command's status
    minted,        \* the key the last command minted and its file, or None
    reported,      \* history: the attributes a client was last told a file has
    handed,        \* history: the keys a durable file minted and answered with
    haunted        \* history: entries of the cache that outlived their account

diskVars == <<registryFile, host, dirFile>>
ghosts == <<reported, handed, haunted>>
vars == <<registry, diskVars, table, dir, cache, answer, minted, ghosts>>

Counters == {None} \cup Nat
Sections == [records : SUBSET Keys, dict : BOOLEAN, next : Counters]
Parts == {"records", "dict", "next"}
Tables == [records : SUBSET Keys, dict : BOOLEAN, next : Counters, dirty : SUBSET Parts]
Entries == Attributes \cup {None}

\* Nothing there is told from a file that is.
ASSUME NoneAssumption == None \notin Sections /\ None \notin Tables

TypeOK ==
    /\ registry \subseteq Accounts /\ registryFile \subseteq Accounts
    /\ host \in [Paths -> Sections \cup {None}]
    /\ table \in [Paths -> Tables \cup {None}]
    /\ \A p \in Paths : table[p] # None => host[p] # None
    /\ dir \in [Accounts -> [Files -> Entries]] /\ dirFile \in [Accounts -> [Files -> Entries]]
    /\ cache \in [Paths -> Entries] /\ reported \in [Paths -> Entries]
    /\ handed \in [Paths -> SUBSET Keys] /\ haunted \subseteq Paths

Empty == [records |-> {}, dict |-> FALSE, next |-> None]
NoEntries == [f \in Files |-> None]

Init ==
    /\ registry = {} /\ registryFile = {}
    /\ host = [p \in Paths |-> None] /\ table = [p \in Paths |-> None]
    /\ dir = [a \in Accounts |-> NoEntries] /\ dirFile = dir
    /\ cache = [p \in Paths |-> None]
    /\ answer = "none" /\ minted = None
    /\ reported = [p \in Paths |-> None]
    /\ handed = [p \in Paths |-> {}] /\ haunted = {}

-----------------------------------------------------------------------------
(* What the commands are made of.                                          *)

Exists(p) == p[1] \in registry /\ host[p] # None

\* FileAttributes::of, of an entry that may not be there.
Read(entry) == IF entry = None THEN Default ELSE entry

\* file_attributes_for_account, which caches what it reads.
AttributesOf(p) == IF cache[p] # None THEN cache[p] ELSE Read(dir[p[1]][p[2]])
Looked(p) == [cache EXCEPT ![p] = AttributesOf(p)]

\* The table, loaded if it is not.
Loaded(p) ==
    IF table[p] # None THEN table[p]
    ELSE [records |-> host[p].records, dict |-> host[p].dict, next |-> None, dirty |-> {}]

\* flush_locked, up to and with the parts it has written: records, dictionary,
\* counter, each only when it is dirty.
Put(section, t, parts) == LET writes(part) == part \in t.dirty \cap parts IN
    [records |-> IF writes("records") THEN t.records ELSE section.records,
     dict |-> IF writes("dict") THEN t.dict ELSE section.dict,
     next |-> IF writes("next") THEN t.next ELSE section.next]
Clean(t) == IF t = None THEN None ELSE [t EXCEPT !.dirty = {}]

\* save: every dirty table, DIR among them.
Saved(hosts, tables) == [p \in Paths |-> IF tables[p] = None THEN hosts[p] ELSE Put(hosts[p], tables[p], Parts)]
Save(hosts, tables, entries) ==
    /\ host' = Saved(hosts, tables)
    /\ table' = [p \in Paths |-> Clean(tables[p])]
    /\ dir' = entries /\ dirFile' = entries

Answer(status) == answer' = status /\ minted' = None

-----------------------------------------------------------------------------
(* What a request makes of the attributes a file has now.                  *)

\* file_attributes, None where it refuses.  A type is fixed, but a file with
\* the default attributes cannot be told from a new one.
Settled(r, current) ==
    LET wants(flag) == IF r[flag] = Absent THEN current[flag] ELSE r[flag] IN
    CASE wants("directory") # current.directory /\ current # Default -> None
      [] wants("directory") ->
           IF r.queue = TRUE \/ wants("autokey") \/ r.durable = FALSE THEN None
           ELSE [Default EXCEPT !.directory = TRUE]
      [] wants("queue") /\ wants("autokey") -> None
      [] wants("queue") ->
           [Default EXCEPT !.queue = TRUE,
                           !.durable = IF r.durable = Absent /\ ~current.queue THEN TRUE ELSE wants("durable")]
      [] OTHER -> [flag \in Flags |-> wants(flag)]

\* Mutant: the listing is rebuilt from what is on disk alone.
ListsAfresh(a, hosts) == [f \in Files |-> IF hosts[<<a, f>>] = None THEN None ELSE Default]

\* sync_dir_file_for_account: an entry for each file that is there, with the
\* attributes the old entry of that name had.
Synced(a, hosts) == [f \in Files |-> IF hosts[<<a, f>>] = None THEN None ELSE Read(dir[a][f])]

-----------------------------------------------------------------------------
(* Accounts.                                                               *)

\* create_account.  A directory that is there already is taken over as it is.
CreateAccount(a) ==
    /\ \/ /\ a \notin registry
          /\ registry' = registry \cup {a} /\ registryFile' = registry'
          /\ dir' = [dir EXCEPT ![a] = IF @ = NoEntries THEN Synced(a, host) ELSE @]
          /\ Answer("ok")
       \/ a \in registry /\ Answer("refused") /\ UNCHANGED <<registry, registryFile, dir>>
    /\ UNCHANGED <<host, dirFile, table, cache, ghosts>>

\* The cached attributes that go with an account: those of its loaded tables.
Dropped(a) == [p \in Paths |-> IF p[1] = a /\ table[p] # None THEN None ELSE cache[p]]

\* delete_account: the registry, then the directory with everything in it.
DeleteAccount(a) ==
    /\ a \in registry
    /\ registry' = registry \ {a} /\ registryFile' = registry'
    /\ host' = [p \in Paths |-> IF p[1] = a THEN None ELSE host[p]]
    /\ table' = [p \in Paths |-> IF p[1] = a THEN None ELSE table[p]]
    /\ dir' = [dir EXCEPT ![a] = NoEntries] /\ dirFile' = [dirFile EXCEPT ![a] = NoEntries]
    /\ cache' = Dropped(a)
    /\ reported' = [p \in Paths |-> IF p[1] = a THEN None ELSE reported[p]]
    /\ handed' = [p \in Paths |-> IF p[1] = a THEN {} ELSE handed[p]]
    /\ haunted' = haunted \cup {p \in Paths : p[1] = a /\ cache'[p] # None}
    /\ Answer("ok")

\* create_test_account: an account with every file the fixture has, each with
\* attributes, a dictionary and a record, all of it saved.
Fixture(p) == [records |-> {CHOOSE k \in Keys : TRUE}, dict |-> TRUE, next |-> None]
CreateTestAccount(a) == \E given \in [Files -> {Default, [Default EXCEPT !.queue = TRUE, !.durable = TRUE]}] :
    /\ a \notin registry /\ \A f \in Files : host[<<a, f>>] = None
    /\ registry' = registry \cup {a} /\ registryFile' = registry'
    /\ Save([p \in Paths |-> IF p[1] = a THEN Fixture(p) ELSE host[p]], table, [dir EXCEPT ![a] = given])
    /\ cache' = [p \in Paths |-> IF p[1] = a /\ given[p[2]] # Default THEN given[p[2]] ELSE cache[p]]
    /\ haunted' = {p \in haunted : ~(p[1] = a /\ given[p[2]] # Default)}
    /\ Answer("ok")
    /\ UNCHANGED <<reported, handed>>

\* The same where the account's directory is there with one of those files in
\* it: the account is made, and the fixture stops at that file.
CreateTestFails(a) == \E p \in Paths, made \in SUBSET Files :
    /\ a \notin registry /\ p[1] = a /\ host[p] # None /\ \A f \in made : host[<<a, f>>] = None
    /\ registry' = registry \cup {a} /\ registryFile' = registry'
    /\ host' = [q \in Paths |-> IF q = p THEN [host[p] EXCEPT !.dict = FALSE]
                                ELSE IF q[1] = a /\ q[2] \in made THEN Empty ELSE host[q]]
    /\ dir' = [dir EXCEPT ![a] = Synced(a, host')]
    /\ Answer("refused")
    /\ UNCHANGED <<dirFile, table, cache, ghosts>>

-----------------------------------------------------------------------------
(* Files.                                                                  *)

\* set_file_attributes_for_account: the entry, the cache, the counter of a file
\* that stops minting keys, and then everything is saved.
SetAttributes(p, want, hosts, tables, entries) ==
    /\ cache' = [cache EXCEPT ![p] = want]
    /\ Save(IF want.autokey THEN hosts ELSE [hosts EXCEPT ![p].next = None],
            IF want.autokey \/ tables[p] = None THEN tables
            ELSE [tables EXCEPT ![p].next = None, ![p].dirty = @ \ {"next"}],
            [entries EXCEPT ![p[1]][p[2]] = want])

Tell(p, attributes) ==
    /\ reported' = [reported EXCEPT ![p] = attributes]
    /\ handed' = [handed EXCEPT ![p] = IF attributes.autokey THEN @ ELSE {}]
    /\ haunted' = haunted \ {p}

\* CREATE.FILE of a new file.  Default attributes are not written: the entry is
\* the one the listing makes.
CreateFile(p) == \E r \in Asked[p[2]] :
    /\ p[1] \in registry /\ host[p] = None
    /\ LET want == Settled(r, Default)
           hosts == [host EXCEPT ![p] = Empty]
           entries == [dir EXCEPT ![p[1]] = Synced(p[1], hosts)] IN
       /\ want # None
       /\ \/ /\ want # Default
             /\ SetAttributes(p, want, hosts, table, entries)
             /\ Tell(p, want)
          \/ /\ want = Default
             /\ host' = hosts /\ dir' = entries
             /\ cache' = [cache EXCEPT ![p] = IF @ # None THEN @ ELSE Read(entries[p[1]][p[2]])]
             /\ reported' = [reported EXCEPT ![p] = cache'[p]]
             /\ UNCHANGED <<table, dirFile, handed, haunted>>
    /\ Answer("ok")
    /\ UNCHANGED <<registry, registryFile>>

\* CREATE.FILE of a file that is there: its dictionary is emptied before the
\* listing is asked, and a clean table is read again from disk.
CreateExisting(p) ==
    /\ Exists(p)
    /\ host' = [host EXCEPT ![p].dict = FALSE]
    /\ table' = [table EXCEPT ![p] = IF @ # None /\ @.dirty = {} THEN None ELSE @]
    /\ Answer("refused")
    /\ UNCHANGED <<registry, registryFile, dir, dirFile, cache, ghosts>>

\* CREATE.FILE of a directory file whose directory cannot be made: the file is
\* deleted again, and its new entry stays.
CreateFails(p) ==
    /\ p[1] \in registry /\ host[p] = None
    /\ \E r \in Asked[p[2]] : r.directory = TRUE /\ Settled(r, Default) # None
    /\ dir' = [dir EXCEPT ![p[1]] = Synced(p[1], [host EXCEPT ![p] = Empty])]
    /\ cache' = [cache EXCEPT ![p] = None]
    /\ haunted' = haunted \ {p}
    /\ Answer("refused")
    /\ UNCHANGED <<registry, diskVars, table, reported, handed>>

\* SET.FILE, which has to mention something.
SetFile(p) == \E r \in Asked[p[2]] :
    /\ Exists(p) /\ r # [flag \in Flags |-> Absent]
    /\ LET want == Settled(r, AttributesOf(p)) IN
       \/ /\ want # None
          /\ SetAttributes(p, want, host, table, dir)
          /\ Tell(p, want)
          /\ Answer("ok")
       \/ /\ want = None
          /\ cache' = Looked(p)
          /\ Answer("refused")
          /\ UNCHANGED <<host, table, dir, dirFile, ghosts>>
    /\ UNCHANGED <<registry, registryFile>>

\* Mutant: the cache is not told.
ForgetsTableOnly(p) == cache' = cache

\* delete_table_for_account's part in the cache.
ForgetAttributes(p) == cache' = [cache EXCEPT ![p] = None]

\* delete_table_for_account's part in the tables.
Unload(p) == table' = [table EXCEPT ![p] = None]

\* DELETE.FILE: everything but the entry in DIR.
DeleteFile(p) ==
    /\ Exists(p)
    /\ host' = [host EXCEPT ![p] = None]
    /\ Unload(p)
    /\ ForgetAttributes(p)
    /\ reported' = [reported EXCEPT ![p] = None]
    /\ handed' = [handed EXCEPT ![p] = {}]
    /\ haunted' = haunted \ {p}
    /\ Answer("ok")
    /\ UNCHANGED <<registry, registryFile, dir, dirFile>>

\* Any command that names a file asks for its attributes first, and what it
\* finds is cached even where the file is not there and the command is refused.
LookUp(p) ==
    /\ p[1] \in registry /\ cache[p] = None
    /\ cache' = Looked(p)
    /\ haunted' = IF host[p] = None THEN haunted \cup {p} ELSE haunted
    /\ minted' = None
    /\ UNCHANGED <<registry, diskVars, table, dir, answer, reported, handed>>

-----------------------------------------------------------------------------
(* Records.  Directory files keep theirs on the host.                      *)

\* The counter stays past every record it is told of.
Past(next, keys) == LET pasts == {next} \cup {k + 1 : k \in keys} IN
    CHOOSE n \in pasts : \A m \in pasts : m <= n

\* Mutant: every write is left for the flusher.
LeftForLater(p, tables) == tables

\* note_write_for: a durable file's write saves everything before its answer,
\* any other is left for the next flush.
Noted(p, tables) == IF AttributesOf(p).durable THEN [q \in Paths |-> Clean(tables[q])] ELSE tables

\* A change of one file's table, answered.
Write(p, t) == LET tables == [table EXCEPT ![p] = t] IN
    /\ table' = Noted(p, tables)
    /\ IF table' = tables THEN UNCHANGED <<host, dirFile>>
       ELSE host' = Saved(host, tables) /\ dirFile' = dir
    /\ cache' = Looked(p)
    /\ answer' = "ok"
    /\ UNCHANGED <<registry, registryFile, dir, reported, haunted>>

Writable(p) == Exists(p) /\ p[2] \in Busy /\ ~AttributesOf(p).directory

\* WRITE with a key: an attached counter steps over it.
WithKey(p, k) ==
    [Loaded(p) EXCEPT !.records = @ \cup {k},
                      !.next = IF @ = None THEN None ELSE Past(@, {k}),
                      !.dirty = @ \cup {"records"}]
WriteKeyed(p) == \E k \in Keys :
    Writable(p) /\ Write(p, WithKey(p, k)) /\ minted' = None /\ UNCHANGED handed

\* Mutant: the counter is taken from its file alone.
AttachPersisted(p) == IF Loaded(p).next # None THEN Loaded(p).next
                      ELSE IF host[p].next # None THEN host[p].next ELSE 0

\* attach_autokey: what was persisted, past every record.
Attached(p) == IF Loaded(p).next # None THEN Loaded(p).next
               ELSE Past(IF host[p].next # None THEN host[p].next ELSE 0, Loaded(p).records)

\* WRITE without one, of a file that mints them.
Minted(p, now) == Past(Attached(p), {now - 1})
WithMinted(p, k) ==
    [Loaded(p) EXCEPT !.records = @ \cup {k}, !.next = k + 1, !.dirty = @ \cup {"records", "next"}]
WriteMinted(p) == \E now \in Times : LET k == Minted(p, now) IN
    /\ Writable(p) /\ AttributesOf(p).autokey /\ k \in Keys
    /\ Write(p, WithMinted(p, k))
    /\ minted' = [path |-> p, key |-> k]
    /\ handed' = [handed EXCEPT ![p] = IF AttributesOf(p).durable THEN @ \cup {k} ELSE @]

\* DELETE.
WithoutKey(p, k) == [Loaded(p) EXCEPT !.records = @ \ {k}, !.dirty = @ \cup {"records"}]
DeleteRecord(p) == \E k \in Keys :
    /\ Writable(p) /\ k \in Loaded(p).records
    /\ Write(p, WithoutKey(p, k)) /\ minted' = None /\ UNCHANGED handed

\* SET.DICT, or a WRITE or DELETE of a dictionary entry.
SetDict(p) == \E there \in BOOLEAN :
    /\ Writable(p) /\ there # Loaded(p).dict
    /\ Write(p, [Loaded(p) EXCEPT !.dict = there, !.dirty = @ \cup {"dict"}])
    /\ minted' = None /\ UNCHANGED handed

-----------------------------------------------------------------------------
(* The disk, and what a crash leaves.                                      *)

\* A flush of one file, after which it may be evicted.
Flush(p) == \E keep \in BOOLEAN :
    /\ table[p] # None
    /\ host' = [host EXCEPT ![p] = Put(@, table[p], Parts)]
    /\ table' = [table EXCEPT ![p] = IF keep THEN Clean(@) ELSE None]
    /\ minted' = None
    /\ UNCHANGED <<registry, registryFile, dir, dirFile, cache, answer, ghosts>>

\* A flush of an account's DIR.
FlushDir(a) ==
    /\ dirFile[a] # dir[a] /\ dirFile' = [dirFile EXCEPT ![a] = dir[a]]
    /\ minted' = None
    /\ UNCHANGED <<registry, registryFile, host, table, dir, cache, answer, ghosts>>

\* The process dies while it saves these tables and listings, and is started
\* again: each file is flushed up to some part, each DIR or not.
DieWith(names, hosts, tables, entries) ==
    LET torn == {p \in Paths : tables[p] # None /\ tables[p].dirty # {}}
        Left(upTo) == [p \in Paths |-> IF p \in torn THEN Put(hosts[p], tables[p], upTo[p]) ELSE hosts[p]] IN
    \E left \in {Left(upTo) : upTo \in [torn -> {{}, {"records"}, {"records", "dict"}, Parts}]},
       listed \in SUBSET {a \in Accounts : entries[a] # dirFile[a]} :
        /\ registryFile' = names /\ registry' = names
        /\ host' = left
        /\ dirFile' = [a \in Accounts |-> IF a \in listed THEN entries[a] ELSE dirFile[a]]
        /\ dir' = dirFile'
        /\ table' = [p \in Paths |-> None] /\ cache' = [p \in Paths |-> None]
        /\ answer' = "none" /\ minted' = None
        /\ haunted' = {}

\* What clients were told stands, but of the files in doubt.
Forget(paths) ==
    /\ reported' = [p \in Paths |-> IF p \in paths \cup haunted THEN None ELSE reported[p]]
    /\ handed' = [p \in Paths |-> IF p \in paths THEN {} ELSE handed[p]]

Crash == DieWith(registryFile, host, table, dir) /\ Forget({})

\* In a durable file's write, before it is answered.
CrashInWrite(p) == \E k \in Keys :
    /\ Writable(p) /\ AttributesOf(p).durable
    /\ \E t \in {WithKey(p, k), WithoutKey(p, k)}
                  \cup {WithMinted(p, m) : m \in {Minted(p, now) : now \in Times} \cap Keys} :
          /\ "next" \in t.dirty => AttributesOf(p).autokey
          /\ DieWith(registryFile, host, [table EXCEPT ![p] = t], dir)
    /\ Forget({})

\* In persist_account_registry, which writes accounts.reg in place.
CrashInRegistry == DieWith({}, host, table, dir) /\ Forget({})

CrashInCreateFile(p) == \E want \in {Settled(r, Default) : r \in Asked[p[2]]} :
    /\ p[1] \in registry /\ host[p] = None /\ want # None
    /\ LET hosts == [host EXCEPT ![p] = Empty]
           entries == [dir EXCEPT ![p[1]] = Synced(p[1], hosts)] IN
       DieWith(registryFile, hosts, table,
               IF want = Default THEN entries ELSE [entries EXCEPT ![p[1]][p[2]] = want])
    /\ Forget({p})

CrashInSetFile(p) ==
  \E want \in {Settled(r, AttributesOf(p)) : r \in Asked[p[2]] \ {[flag \in Flags |-> Absent]}} :
    /\ Exists(p) /\ want # None
    /\ DieWith(registryFile, IF want.autokey THEN host ELSE [host EXCEPT ![p].next = None],
               table, [dir EXCEPT ![p[1]][p[2]] = want])
    /\ Forget({p})

\* What remove_dir_all leaves of a file when it is cut short.
Remains(section) ==
    {None, section, [section EXCEPT !.records = {}], [section EXCEPT !.next = None],
     [section EXCEPT !.dict = FALSE], Empty}

CrashInDeleteFile(p) ==
    /\ Exists(p)
    /\ \E left \in Remains(host[p]) :
          DieWith(registryFile, [host EXCEPT ![p] = left], [table EXCEPT ![p] = None], dir)
    /\ Forget({p})

\* The registry no longer names the account, and some of its directory is left.
CrashInDeleteAccount(a) == \E gone \in SUBSET {f \in Files : host[<<a, f>>] # None} :
    /\ a \in registry
    /\ DieWith(registry \ {a},
               [p \in Paths |-> IF p[1] = a /\ p[2] \in gone THEN None ELSE host[p]],
               [p \in Paths |-> IF p[1] = a /\ p[2] \in gone THEN None ELSE table[p]], dir)
    /\ Forget({p \in Paths : p[1] = a})

Next ==
    \/ \E a \in Accounts : \/ CreateAccount(a) \/ DeleteAccount(a)
                           \/ CreateTestAccount(a) \/ CreateTestFails(a)
                           \/ FlushDir(a) \/ CrashInDeleteAccount(a)
    \/ \E p \in Paths : \/ CreateFile(p) \/ CreateExisting(p) \/ CreateFails(p)
                        \/ SetFile(p) \/ DeleteFile(p) \/ LookUp(p)
                        \/ WriteKeyed(p) \/ WriteMinted(p) \/ DeleteRecord(p) \/ SetDict(p)
                        \/ Flush(p) \/ CrashInWrite(p)
                        \/ CrashInCreateFile(p) \/ CrashInSetFile(p) \/ CrashInDeleteFile(p)
    \/ Crash \/ CrashInRegistry

Spec == Init /\ [][Next]_vars

-----------------------------------------------------------------------------
(* Properties.                                                             *)

\* What CREATE.FILE or SET.FILE told a client of a file stays true until that
\* file is set again or deleted, whatever happens to the files beside it, and
\* across a crash: set_file_attributes_for_account saves before it answers, and
\* sync_dir_file_for_account carries attributes over.  Default attributes are
\* never written, and so not promised; nor is what was read of a missing file.
ReportedStays ==
    \A p \in Paths : Exists(p) /\ reported[p] \notin {None, Default} /\ p \notin haunted
        => AttributesOf(p) = reported[p]

\* The cached attributes of a file that is there are those in DIR, which
\* nothing but the commands that change both keeps true: the cache is never
\* checked again.
CacheAgrees ==
    \A p \in Paths : Exists(p) /\ cache[p] # None /\ p \notin haunted
        => cache[p] = Read(dir[p[1]][p[2]])

\* Between commands a durable file has nothing in memory that is not on disk,
\* from the moment it is made durable: note_write_for saves before the answer.
DurableIsOnDisk ==
    \A p \in Paths : table[p] # None /\ AttributesOf(p).durable =>
        /\ table[p].dirty = {}
        /\ table[p].records = host[p].records

\* A minted key is not one of the file's records, and for a durable file never
\* one it has answered with before, though that record is deleted, the table
\* evicted, or the process dies between the flush of the records and that of
\* the counter.
MintFresh ==
    [][minted' # None => minted'.key \notin Loaded(minted'.path).records \cup handed[minted'.path]]_vars

\* docs/protocol.md: FILE_EXISTS, the account already has a file of that name;
\* nothing was written.
RefusalWritesNothing == [][answer' = "refused" => UNCHANGED diskVars]_vars

=============================================================================
