# SmartRustyPick in TLA+

SmartRustyPick is a multi-value record database written in Rust: a storage
engine, a server that speaks a line protocol over TLS, a web dashboard and a
command line, the last two being clients of the server. This directory holds
TLA+ models of the parts of the engine and of the server where concurrency,
failure and ordering decide whether records survive, whether a client gets what
it was promised and whether it stays within its grant, the TLC configurations
that check them on small instances, and TLAPS proofs of the properties that
matter most.

All source paths below are relative to `crates/core/src`.

## Inventory

| Component | State | Operations | What is hard | What makes it correct |
|---|---|---|---|---|
| Hashed section (`db/hashfile.rs`) | group files and a `meta` file per section | load; incremental or full flush; growth and shrink of the modulus | a flush is many renames; errors, kills and power cuts fall between them | a restart reads what each key held since the last good flush; a flush that returns left disk equal to memory |
| Table and flush (`db/models.rs`, `db/engine/mod.rs`) | records, dirty keys, dictionary, indexes, queue book, counter, stamp | insert, remove, touch, `flush_locked`, `save` | flush order of the parts; a failed part | nothing dirty is forgotten; no later part names an earlier one that is not on disk |
| Queue files (`db/queue.rs`, `db/engine/queue.rs`) | available order, claims, delivery counts, due times, key counter; persisted book | ENQUEUE, DEQUEUE, ACK, NACK, PEEK, statistics | consumers racing timeouts; dead letters cross two files with one lock at a time; restarts | one live claim per record; every record in the book once; none lost; delivery limit; due times kept |
| Transactions (`db/transaction.rs`, `db/engine/transaction.rs`) | the intent log, the guards of every file of a set | TRANSACT; replay at open | a crash between files, during the replay, between the last flush and the removal of the intent; lock order | all or nothing; acknowledged sets survive; no deadlock |
| Table cache (`db/engine/cache.rs`) | loaded tables by file, stamps, LRU order, listings | resolve, load, invalidate, evict | loads run outside every lock; a second process may write the files | one copy of a table in use; no stale copy handed out; no dirty one dropped |
| Write path (`db/engine/write.rs`, `db/sequence.rs`) | record versions, key counter | conditional WRITE and DELETE, generated keys | check and write must be one step; counter and records are two files | no lost update; no key twice |
| Files and accounts (`db/engine/mod.rs`) | account registry, file attributes in `DIR`, a cache of them | create and delete accounts and files, set attributes | several files change, one after the other; the cache is never checked | what a client was told of a file stays true; cache and `DIR` agree |
| Client authorizations (`db/engine/mod.rs`) | the `$CLIENTS` table, the map in memory, `certs.reg` | authorize, remove, give and take accounts, refresh, migrate | three copies; another process; a grant read before the lock is taken | a request runs with a grant its client holds and within it; a removed client stays out |
| Secondary indexes (`db/index.rs`) | value-to-keys map per field, its section and `state` file | apply, rebuild, save, lookup | kept up with every write, or marked stale; written after the data | an index that is consulted agrees with the records |
| Queries (`db/query.rs`, `db/report.rs`, `db/engine/dictionary.rs`) | none | parse, plan, evaluate, format | which index a plan may use | an indexed plan selects what a scan selects |
| Archives (`db/archive.rs`, `db/engine/archive.rs`) | an archive stream | export, import | a consistent copy of a running database; an import that fails half-way | import of an export is the same records |
| Directory files (`db/directory.rs`, `db/engine/directory.rs`) | host files | read, write, delete by rename | names and escapes | one record, one host file |
| Format ladder (`db/format.rs`, `db/statefile.rs`) | version stamp | check, upgrade | a crash between two steps of an upgrade | every step can be repeated |
| Server (`server/mod.rs`, `server/stats.rs`) | connections, slots, a shared database lock | accept, handshake, read a line, dispatch, wait, close | lost wake-ups; limits; a dozen ways out | a waiting consumer is woken; limits hold; every exit releases what it took |
| Command handler (`server/handler.rs`, `server/models.rs`) | select lists | the commands | lists are shared by name | no entry twice; no list of an account out of reach |
| Transfers (`server/transfer.rs`) | bodies on the socket, temporaries, spools | PUT.BYTES, GET.BYTES, IMPORT.BYTES, EXPORT.BYTES | a body in the middle of a command stream; a stall, a hang-up, a full disk | lines and bodies are never confused; no short body is stored |
| Health (`db/health.rs`), certificates (`server/certs.rs`), configuration (`config.rs`), secrets, dashboard (`web/`), command line | read-only views, files | | | not modelled: see the end |

The engine's parts meet in three places: the *table guard*, a read-write lock
per file that every record access takes; the *map locks* (tables, listings,
LRU, write marks), which come before or after it in the order stated on
`Database`; and the *disk*, which a flush changes one rename at a time. A
connection runs each command in its own thread of control; a ticker flushes
what is due. Commands are sequences of critical sections, so the models take
one critical section, or one change of the disk, as a step.

## Modules

| Module | What it is |
|---|---|
| `HashFile` | one hashed section: records in memory, group files, `meta`, and a flush file by file |
| `HashFileProofs` | its theorems |
| `Queue` | a queue file and its dead-letter file, several consumers |
| `QueueProofs` | its theorems |
| `Transaction` | several files, several transactions, the intent log and its replay |
| `TransactionProofs` | its theorems |
| `Index` | one file's records, dictionary and one secondary index, the flush that writes them, and the planner that uses the index |
| `IndexProofs` | its theorems |
| `Cache` | several workers, the copies of one file in memory, loads, evictions, and conditional writes through them |
| `RecordStore` | what the clients of one file are promised: each request takes effect at one instant. `Cache` implements it |
| `CacheProofs` | the theorems of `Cache`, the refinement among them |
| `Catalog` | accounts, files, their attributes and key counters, and crashes between the steps of a command |
| `CatalogProofs` | its theorems |
| `Access` | who may do what: clients, the dispatch of a request, every command's gate and target, select lists |
| `AccessProofs` | its theorems |
| `Server` | connections from accept to close, the waiting DEQUEUE, byte transfers |
| `ServerProofs` | its theorems, and those of `Archive`, whose commands it serves |
| `Archive` | exports and imports beside other work |
| `MCHashFile`, `MCQueue`, `MCTransaction`, `MCIndex`, `MCCache`, `MCCatalog`, `MCAccess`, `MCServer`, `MCArchive` | the constants of the runs |

The modules meet where the components do. `HashFile` takes a flush apart that
`Cache` and `Index` take as one step or file by file; `Catalog` has the commands
that create the files of the others; `Server` has a queue only as a number of
records and a directory file only as one key, and `Access` a file only as a set of
keys, because what the commands do there is in `Queue`, `Cache`, `Catalog`,
`Index` and `Archive`. `Cache` is composed with `RecordStore` by refinement:
`truth` is the store's file, a worker's place in the code its phase.

An operator whose comment begins with *Mutant* is a plausible mistake in the
definition it is named for. No specification uses it: put in the place of the
definition it makes the run that names it in `PROJECT.json` fail, which shows
that the property can.

### HashFile

State: `records`, `dirtyKeys`, `dirtyAll` and `dataMeta` are the fields of
`Table`; `groups` and `metaFile` are the files a process sees, `groupsMay` and
`metaMay` the versions of each a power cut may leave (an unsynced rename may be
undone, unsynced bytes may be torn). `plan`, `todo` and `pc` are the locals of
`save_with_fsync`. `admissible` is a history variable: what each key has held
since the last flush that returned.

Actions: `insert_record`, `remove_record`, `touch_all`; the steps of a flush
(`BeginFlush`, `write_frames` per group, `GroupsWritten`,
`remove_group_beyond`, `BeyondRemoved`, `sync_dir`, `write_meta`, `sync_meta`,
`clear_dirty`); `FlushFails` at any of them; `Crash`, `PowerCut`, and `load` by
the next process. Writes of the same table cannot fall inside a flush, because
`flush_locked` holds the guard.

Left out: group files from before checksums (`SectionMeta::checksums`), the
sweep of temporary files, which no load reads, and the legacy flat file.

### Queue

State: `table[f]` is the records and the `QueueState` of the queue `"Q"` and
the dead-letter file `"D"`; `diskRecs` and `diskBook` are what is on disk of
them. A worker is a connection: `pc`, `cmd`, `hand` and `left` are its command,
the dead letters it carries between the two files and the tables its `save()`
has still to visit. `leases`, `promised`, `issued`, `consumed`, `astray` and
`acked` are histories: what clients were told.

Actions: one per critical section. `Begin` is `queue_file`'s readiness check
under the shared guard, `queue_file` the reconciliation, `enqueue_due`,
`dequeue`, `peek`, `ack`, `nack_until`, `Refused` the commands, `bury`, `tidy`,
`insert` the burial of dead letters, `flush_handle` one table of a `save()`,
`Fail` an I/O error, `Crash` a restart, `HandWrite` and `HandDelete` a WRITE or
DELETE on the queue file, `Tick` the clock.

Left out: per-call visibility timeouts, changes of the policy, a clock that
steps back, eviction of the queue from the cache (refused while anything is
claimed), and queues made not durable. A record is its key.

### Transaction

State: each record in memory, on disk as a process sees it, and on disk as a
power cut leaves it; where each intent is (`log`: not there, renamed into
place, renamed and the directory fsynced, unlinked); for each thread where it
is, the guards it holds and the files it has still to flush. What a record
holds is the number of the change set that wrote it.

Actions: `apply_transaction`, `rename_intent`, `write_intent`, `Lock`,
`apply_staged`, `flush_locked`, `unlink_intent`, `remove_intent`; `replay` and
`replay_transaction_log` by the thread that opens the database; `Write` and
`flush_handle` for the traffic around transactions; `Fail`, `Kill`, `PowerCut`.

Left out: the frame of an intent (a torn one never gets its name), refusals by
`stage` (nothing has happened yet), files dropped or made queues between the
intent and its replay, dictionary changes (they go the same way as records).

### Index

State: `records`, `dirtyKeys`, `dict`, `dictDirty`, `index` and `version` are
fields of `Table`, reduced to one field of the dictionary and the index on it;
`data`, `metaFile`, `dictFile`, `entries`, `stateFile` and `section` are the
files. `loose`, `doubt` and `tainted` are histories: group files are newer than
the stamp of their section, the index section was damaged by a removal or
written by a stale index, and the index in memory was trusted from such files.

Actions: `insert_record`, `remove_record`, `take_dead` (a dead letter leaves
past its index), `end_file` and `restore_index` (a restore), `mark_dict_dirty`,
`create_index`, `drop_index`, `rebuild_index`, `set_excluded`; the flush
(`BeginFlush`, `write_group`, `write_meta`, `RecordsSaved`, `save_section`,
`DictWritten`, `write_entry`, `EntriesSaved`, `write_state`, `clear_dirty`),
`FlushFails`, the removal of a dropped index's files under no guard
(`remove_entry`, `remove_state`, `RemovalEnds`), `Crash`, `load`.
`index_candidates` and `Selected` are the planner; `Matches` is the scan it is
compared with.

Left out: group files shared by several keys and changes of modulus
(`HashFile`), power cuts, comparison operators other than equality (no index
answers them), index statistics.

### Cache

State: `disk` is the section with the version and time of its `meta`; `map` is
the file's place in `Database.tables`; `table` holds each copy in memory;
`handle`, `loading`, `request` and `pc` are each worker's. `truth` is a
history: what each key was last given by a write that was applied. `crossed`
records that a copy was published which the disk had moved on from, `dropped`
that an eviction threw unwritten records away, `overwrote` that a condition
held of the copy and not of `truth`.

Actions: `Begin`, `Look` and `invalidate_if_stale` are the two looks of that
function, the first holding a handle, the second under the map's lock;
`Lookup`, `load_table_for_account`, `publish` are `resolve_table`;
`write_record_in`, `delete_record_in`, `Refuse` the critical section of a
write; `FlushNow`, `FlushFails`, `NoFlush` the outcomes of `note_write_for`;
`save` the ticker; `evict_if_over_budget` and `EvictUnwritten` an eviction whose
flush succeeds or fails; `ForeignWrite` a second process.

Left out: other files (they are only the pressure that evicts this one, so the
LRU order is not kept), a load torn by a flush that is under way, clocks too
coarse to tell two versions of `meta` apart, the autokey counter. A flush is one
step, because it holds the guard; `HashFile` takes it apart.

`RecordStore` has no copies: a request is asked, takes effect at one instant or
is refused at one, and is answered; its condition is judged by the one file. An
overtaken load, a failed eviction and a foreign write are its `Disturbed`.
`ActsAsOneFile` says that `Cache` implements it, with `truth` as the file.

### Catalog

State: `registry` and `registryFile` are `accounts_config` and `accounts.reg`;
`host` is each file's directory (records, dictionary, key counter), `table` what
is loaded of it, `dir` and `dirFile` each account's `DIR` in memory and on disk,
`cache` the map `file_attributes`. `reported`, `handed` and `haunted` are
histories: what clients were told of a file, which keys a durable file minted,
which cached entries outlived their account.

Actions: `CreateAccount`, `DeleteAccount`, `CreateTestAccount`,
`CreateTestFails`; `CreateFile`, `CreateExisting`, `CreateFails`, `SetFile`,
`DeleteFile`, `LookUp`; `WriteKeyed`, `WriteMinted`, `DeleteRecord`, `SetDict`;
`Flush`, `FlushDir`; `Crash`, and one crash action for each command whose steps
a crash may separate. `Settled` is `file_attributes` of the handler: what a
request makes of the attributes a file has.

Left out: the current account of a local session, account directories outside
the storage directory, `$ACCOUNTS`. Commands on the catalog hold the server's
lock alone, so none runs beside another.

### Access

State: `table` and `saved` are `$CLIENTS` in memory and on disk, `certs` is
`certs.reg`, `registry` the map a connection is looked up in, `lists` the select
lists, `records` the keys of each account's file; a connection is between
requests, between reading its grant and taking the lock, or about to run. `held`,
`revoked` and `astray` are histories; `shown` and `changed` say what the last
step sent or changed.

Actions: `ReadRequest`, `Dispatch`, and under `Command` one definition for each
arm of `handle_request` and `handle_request_locked`, `Refuse` among them;
`OtherProcess` is the command line changing `$CLIENTS`, `Restart` loads it and
migrates `certs.reg`.

Left out: keys and certificates themselves; two connections of one client (their
requests are independent); the transfer commands, which use the grant read when
the connection was opened (below).

### Server

State: `slots` is the semaphore, `conn` each connection's task, `wire`, `owes`,
`expects`, `hung` and `deaf` the socket and its client, `active` the statistics'
registry, `authorized` the clients, `queue` the claimable records that were
announced by a signal and those that became claimable without one, `unsaved`
the clients whose acknowledged writes are only in memory, `staged` the
temporaries and spools, `record` what a PUT.BYTES has made of one key.

Actions: `Accept`, `Handshake`, `CheckAuthorization`, `ReadLine`,
`StopReadingLines`, `Dispatch`, `Reply`; `Register`, `Attempt`, `Sleep`, `Wake`,
`Deadline` of `dequeue_waiting`; `put_bytes`, `import_bytes`, `Receive`, `Drain`,
`commit_bytes`, `commit_archive`, `get_bytes`, `export_bytes`, `Send`,
`SendFails`; `Close`, `Save`, `Flush`; and the client: `SendLine`, `SendChunk`,
`HangUp`, `StopOrResumeReading`. Each is what a task does between two awaits.

Left out: a client that sends less or more than it announces and then goes on
(the server cannot tell), counters of requests, the error log. The save at the
close of a connection is taken to succeed; the code ignores its error.

### Archive

State: `heap` is each file's table objects, so that a handle to a table that was
deleted and created again is a handle to the old one; `disk` what is written;
`ex`, `im` and `tx` an export, an import and a transaction in progress, with the
guards they hold; `kept` the archive at the path an operator named. `moments` and
`promise` are histories: what all files held since the export began, and what an
import reported.

Actions: `Write`, `TxBegin`, `TxGuard`, `TxApply`, `Bury`, `SaveAll`; the steps of
an export from `ExportBegins` to `ExportPublishes` and of an import from
`ImportBegins` to `ImportAnswered`, each with its failure; `Crash`. By path they
hold the server's lock alone, over a connection they share it. The specification
is `ArchiveSpec`, with `ArchiveInit`, `ArchiveNext` and `ArchiveTypeOK`: the names
differ from `Server`'s because one module extends both.

Left out: an export beside an import, dry runs, the creation of missing accounts,
the encoding of an archive. Directory files have no guard, and `OneMoment` is not
about them.

## Runs

| Run | Expected | What it asks |
|---|---|---|
| `hashfile_rehash` | pass | three records, moduli 1, 2 and 4, an outage anywhere: `CrashSafe`, `FlushIsExact`, `AlwaysOpens` |
| `hashfile_rehash_crash` | violation | is a record ever lost in silence, a rehash cut short included? `NeverSilentlyLost` |
| `queue_claims` | pass | two consumers, all commands on the queue and on its dead-letter file, the clock, a fault, a hand edit: `Balanced`, `ExclusiveClaims`, `NotEarly`, `WithinLimit`, `AtLeastOnce`, `AckedStaysGone` |
| `txn_faults` | pass | two workers, overlapping sets; two kills, two power cuts, or an I/O error and a power cut: `AllOrNothing`, `Committed`, `Finishes` |
| `index_narrows` | pass | all commands, a failed flush and a kill: `Narrows`, `ExclusionsHold`, `FlushSettles` |
| `cache_one_copy` | pass | two workers, an eviction, a failed flush, a foreign write: `OneCopy`, `NothingForgotten`, `ConditionsHold`, and the refinement `ActsAsOneFile` |
| `server_connections` | pass | two clients, one with lines and bodies of every kind, one that waits: `EveryExitReleases`, `InStep`, `NoLostWakeup`, `ShortBodyRefused`, `SilentLeaves`, `Answered` |
| `server_short_body` | violation | is what a PUT.BYTES stored always the whole body? `StoredWhole` |
| `access_grants` | pass | two clients with every command, grants that come and go, a restart: `GrantWasHeld`, `Confined`, `EveryEntryOnce`, `RegistryFollows`, `RevokedStaysOut` |
| `catalog_files` | pass | two files of one account, made, set, deleted and written, a crash anywhere: `ReportedStays`, `CacheAgrees`, `DurableIsOnDisk`, `MintFresh` |
| `catalog_refused_create` | violation | does a refused CREATE.FILE leave the disk alone? `RefusalWritesNothing` |
| `archive_copies` | pass | exports and imports beside writes, a transaction and dead letters: `OneMoment`, `RefusedChangesNothing`, `Restored`, `ExportComesToAnEnd` |

`TypeOK` is checked in the runs of `HashFile` and `Queue` and proved for these and
for all the others (`ArchiveTypeOK` for `Archive`). `NotEarly` and `Confined` are
action properties.

### Bounds

`hashfile_rehash`: with one record to a group and a least modulus of one, three
records reach modulus 4, and removing them shrinks to 1 (a quarter); the third
key changes group when the modulus doubles, so a rehash really moves it. One
outage is enough for every single cut; the proofs cover any number, and the
policies `Meta` and `Never`.

`queue_claims`: one record is enough for two consumers to race for it, and a
second for a reconciliation to go wrong; a timeout of one tick and three instants
let a claim lapse twice; two deliveries is the least limit that is not spent by
the first. `MaxDrained` stops commands on the dead-letter file once a record there
has been delivered that often: it has no limit of its own. The constraint
`Bounds` of `MCQueue` keeps the combinations apart that need not meet: at the
first instant both files take commands, with a fault and a hand edit; after the
clock has moved, only the queue takes them and nobody edits by hand.

`txn_faults`: two files and three records, two sets that share a record and both
files, three change sets of which one may be a plain write. Two kills or cuts
let the second fall inside the replay of the first. A behaviour begins with one
of the plans in `FaultPlans`, so that the three kinds of fault do not mix.

`index_narrows`: two keys, two attributes, three texts of which two share an entry
(`index_key` truncates), two records that trade texts. Four commands, two
flushes of records, one failed flush and one kill reach every way an index may
be trusted from files that are not whole: each of the four conditions that make
up `tainted` was found to be needed by taking it away.

`cache_one_copy`: one key, since no two keys interact before a flush; three requests by
two workers let a load be overtaken by a whole request and an eviction and a
third request see the result; three versions of `meta`.

`server_*`: two clients and as many slots, so that a slot that is not given back
is missed at once; bodies of two chunks, so that one may arrive and the next not;
an acceptable and an unacceptable length; one claimable record, for which the
waiting consumer races its deadline, its deauthorization and the signal.

`access_grants`: an administrator and a client of one account, two accounts, one
list; two changes of `$CLIENTS`, so that a grant is given and taken back. The
constraint `Bounds` of `MCAccess` allows the second change only while there is no
select list, since lists and certificates do not meet. `CertsFail` is FALSE (see
below).

`catalog_*`: one account with two files, so that the listing is rebuilt around a
file and names come round again, and records in one of them; two keys and one
reading of the clock, so that a counter that falls back mints a key again.

`archive_copies`: a directory file, a table and its dead-letter file; one write
or one transaction, since a copy of two moments needs only one change between
them; two table objects of a file, the one a handle points at and the new one.

### Deadlock and fairness

Deadlock is checked except in the index and cache runs, where the bound on
commands or requests is what stops them; in `txn_faults`, where clients may simply
stop sending, and where two transactions stuck on each other's locks are what
`Finishes` rules out; and in the server runs, where every client may have gone.

`Transaction!FairSpec` assumes weak fairness of each thread's own steps and of the
open: the operating system runs every runnable thread, and a step waits only for
a lock. `Server!FairSpec` assumes it of each connection's task and of the deadline
of a wait: the runtime polls every task that is ready, and timers fire. The
stall timeout is on by default; the idle timeout is not, so `SilentLeaves` is for
servers that set `idle_timeout_ms`. `Archive` assumes it of the steps of an
export, an import and a transaction, which wait only for one another's guards.
Nothing is assumed of clients, commands, errors, kills or power cuts.

## What the violations show

* **`hashfile_rehash_crash`.** A rehash writes the groups of the new modulus
  over those of the old one and only then `meta`. Killed in between, the
  section still has the old modulus in `meta`: the load reads the groups below
  it, each with a good checksum, and the records that moved to a group above it
  are gone without an error. `CrashSafe` is therefore stated for sections whose
  rehashes ran to their end.
* **`server_short_body`.** `receive_into` reports a disk that failed as the number
  of bytes it took off the socket, the chunk the disk refused included. When
  that was the last chunk, or when the final `flush` fails, the number is the
  whole length: `commit_bytes` compares it with the announced length, finds
  nothing wrong and renames the truncated temporary over the record, and the
  client is told OK. `ShortBodyRefused` is the same property for bodies that
  failed earlier.
* **`catalog_refused_create`.** `create_table_for_account` creates the `dict` file
  before it looks whether the name is taken. CREATE.FILE of a file that exists
  is refused with its dictionary empty on disk; the one in memory, if the file
  is loaded, is written again only when it changes.

The models, and reading the code for them, show other departures from the
comments and the documents that no run is spent on. In the engine:

* **an index that hides a record**: an index is trusted when its `state` names the
  version in the records' `meta`, but `meta` is renamed after the groups. Killed
  in between, the section holds a new record under the old version, and an
  indexed query misses it. `Narrows` is about indexes read from whole files;
  `tainted` has three more sources: a save that rewrites entries while the
  records' version stays, cut by a kill; the unguarded removal by DROP.INDEX
  overtaken by a CREATE.INDEX of the same field; an index on a field the
  dictionary does not define, written out stale under a `state` that matches;
* **a load that was overtaken**: a worker reads a cold file and is held up before
  it enters it in the map, while another loads, writes, flushes and the file is
  evicted. The older records enter the cache, and a conditional write is judged
  by them (`crossed`; `ActsAsOneFile` counts it as a disturbance);
* **an old intent replayed**: a transaction's guards are released before its
  intent is removed. A second one may commit the same record in between; after
  a crash the first is replayed over it. `Committed` counts a replay as later
  than what it replaces;
* **the first dead letter**: `bury` creates the dead-letter file, and
  `create_table_with` ends in a `save()` of every table, the queue without the
  record included, before the letter is in the new file. `AtLeastOnce` excepts
  letters under way;

* an ACK of a lapsed claim succeeds until a sweep has run (`verify` compares
  the owner and not the time; its comment says both);
* one record written and another deleted by hand cancel out in
  `queue_readiness`, which compares counts, and DEQUEUE then hands out a key
  with no record;
* `adopt` leaves a claim in place, so a letter buried a second time, after a
  crash that undid its removal from the queue, can be handed to a second
  consumer of the dead-letter file;
* `evict_if_over_budget` ignores the result of its flush and drops the copy: on
  an I/O error acknowledged records that were only in memory are gone
  (`EvictUnwritten`);
* with a kill *and* a power cut `AllOrNothing` fails: the replay trusts an
  intent whose directory entry the killed process had not fsynced, and a power
  cut in the middle of that replay leaves half a set and no intent. This is why
  `FaultPlans` does not mix them, and why `NothingTorn` is proved for plans with
  kills or power cuts but not both;
* `delete_table_for_account` leaves the file's entry in `DIR`, so a file made again
  under the name has the old attributes, also where an import replaces it;
* `delete_account` clears the cached attributes of loaded files only (`haunted`),
  and does not touch the grants of its clients; a crash in it leaves a directory
  that an account of the same name takes over;
* SET.FILE with `directory` makes a directory file of a table whose attributes are
  the default ones, although a file's type is fixed when it is created;
* the attribute cache is not told when another process changes `DIR`, and a
  command that names a missing file caches what its entry says;
* `accounts.reg` is rewritten in place, and state files without a sync of their
  directory;
* an import that shares the lock finds a file made meanwhile only when it creates
  its own, after others were replaced, and shows empty files while it runs; over
  a directory file at an external path it merges;
* `archive_spool` names carry the process and the millisecond, so two can be the
  same.

In the server:

* GET.BYTES and EXPORT.BYTES write with no timeout: a client that stops reading
  keeps its slot, although `docs/protocol.md` bounds a stalled transfer;
* transfers use the grant read when the connection was opened, so a client that
  was removed may go on with them;
* listing a directory file removes the temporaries of transfers in progress; the
  commit then fails;
* `$CLIENTS` changed by another process is noticed by LIST.CONNS only;
* `remove_authorized_client` ignores a `save_certs` that fails, and a crash may come
  before it: the next start migrates the removed certificate as an
  administrator (`CertsFail` TRUE violates `RevokedStaysOut`);
* of two names with one certificate either may win; ADD.CLIENT.ACCOUNT of an
  unknown name answers OK;
* GET.NEXT moves the cursor before it reads, so a batch whose reply is lost is not
  sent again.

## Proofs

For every value of the constants, by TLAPS:

* `HashFileProofs`: `TypeCorrect`, `CrashSafety`, `FlushExactness`, `SyncedOpens`. The
  invariant `IInv` says that outside a cut rehash every group file, and every
  version of it a power cut may leave, holds only its own keys with admissible
  values (`SteadyInv`); that a key which is not dirty is on disk as in memory
  (`CleanInv`), which is what lets an incremental flush trust the file it reads
  back; that a flush has put in place each group it no longer has to do
  (`ProgressInv`); and what each later stage may rely on (`StageInv`).
  `CrashSafe` is not inductive without `CleanInv`: a failed flush leaves a
  mixture on disk, and the next one is right only because what it does not
  rewrite is clean. `SyncedOpens` (`AlwaysOpens`) needs `OpenInv` only: while every
  flush ran under `Always` nothing is torn, no power cut can tear a file, and the
  flush under way has that policy. It does not look at the modulus, so a rehash
  that is cut is no exception. Assumed: the hash is some function to the naturals, the
  moduli are positive with a greatest one, and every record count has a target
  modulus.
* `QueueProofs`, for any number of consumers: `TypeCorrect`, `LedgerBalanced`,
  `Exclusion`, `LimitKept`, `NothingLost`, `AckIsFinal`, `DueTimesKept`, which
  is every property of the run. `IInv` says that the book is a partition behind
  the key counter (`Orderly`), that a command's clock is not ahead of the clock
  (`ClockInv`: a sweep with an old clock ends no live claim), and that a live
  delivery is backed by its record and exactly its claim (`LeaseInv`). Exclusion
  follows because a claim has one owner. `LeaseInv` needs hand edits to drop the
  delivery of a deleted record, which is what reconciliation does to its claim.
  The others each add an invariant about memory, the files, and the commands
  that have changed the one and not yet the other: a command past its guard
  has its effect in memory, and past its flush on disk, so that a crash before
  the answer breaks no promise and one after it finds the effect (`LimitInv`,
  `IssueInv`, `AckInv`, `DueInv`). `DueTimesKept` is of the action property
  `NotEarly`: as an invariant on the book's due times it was false with three
  deliveries or more, a case the run's bound of two does not reach and the
  proof attempt showed.
* `CacheProofs`: `TypeCorrect`, `SingleCopy`, `WritesKept`, `ConditionsKept`,
  `OneFile`, for any number of workers and keys. `IInv` adds that a worker past
  its lookup has a handle (`HandleInv`) and that a copy read under a stamp which
  is still the disk's holds what the disk holds (`LoadInv`: every write of the
  section moves its time on). `OneCopy` is kept by the reference counts: the map
  drops a copy only when its own handle is the only one. `NothingForgotten`
  needs `OneCopy`, so that a write goes to the copy a flush will find, and
  `LoadInv`, so that a publication that crossed nothing publishes the truth.
  `OneFile` is the refinement: the initial states map to initial states of
  `RecordStore`, an application and an answer to the store's own steps, an
  overtaken load or a failed eviction to its disturbance, and every other step
  to a stutter, because `NothingForgotten` fixes what a reader finds. Assumed:
  finitely many workers, more names for copies than workers.
* `ServerProofs`, for any number of clients: `TypeCorrect`, `Released`,
  `NeverOutOfStep`, `WakeupKept`, `NoShortBody`, the safety properties of the
  run. `InStep` speaks of one place in the code only; `SocketInv` says of every
  place what the socket holds there (a line with its body behind it or owed, the
  rest of a body, nothing) and what the server will still read of it.
  `StagingInv` relates the chunks counted to those still due, so that a body
  that lost a chunk before its last is short when it is compared with the
  announced length. Assumed: finitely many clients.
* `AccessProofs`, for any sets of clients, accounts, keys and requests:
  `TypeCorrect`, `GrantsFresh`, `RegistryKept`, `EntriesOnce`, `Confinement`,
  `StaysOut`, which is every property of the run. `GrantInv` carries the grants
  held since a request was read from its dispatch to its lock; `ListsInv` says
  that what was handed out of a list is in order and before its cursor.
  `Confinement` goes through the commands one by one: each one's gate gives what
  its effect needs. `StaysOut` needs that a removed client is in none of the
  four places a restart or a refresh reads (`OutInv`), and assumes that
  `certs.reg` can be written (`~CertsFail`): without that it is false, as above.
* `TransactionProofs`, for any files, records, change sets, workers and numbers
  of faults: `TypeCorrect`, `ReturnedStands` (`Committed`), `NothingTorn`
  (`AllOrNothing`). A set is `Whole` when memory, files and what a power cut
  leaves of them hold its change, or a later one, of each of its records. Crashes
  only move values between these three (`Moves`), so nothing but the set's own
  replay takes that away; and once it has returned its intent is gone, also for
  a power cut, so there is none (`AckedInv`). A thread that flushes has each
  record of its set written through or still dirty in a file it holds
  (`HalfWay`), which needs that the guards of two threads are apart, and ends
  with the set whole. `ReturnedStands` holds for any mixture of faults.
  `NothingTorn` adds that an applied set is whole, or a single record, or still
  named by the log (`Placed`), and that the log does not lose a name it may have
  been applied by (`NameKept`); the second is where kills and power cuts may not
  mix, and is assumed of the plans.
* `CatalogProofs`, for any accounts, files, keys, requests and readings of the
  clock: `TypeCorrect`, `CacheHonest` (`CacheAgrees`), `AnswerStands`
  (`ReportedStays`), `DurableSaved` (`DurableIsOnDisk`), `MintsFresh`
  (`MintFresh`), which is every property of the run. Attributes that are not the
  default ones are in the file of the listing as in memory (`DirInv`), so a crash
  brings back what was told; a cached entry is DIR's (`CacheInv`) and so is what
  was told (`ToldInv`), which makes a listing made again harmless: it carries
  over what it finds. A loaded table follows its section (`Follows`): its records
  are the section's unless they are dirty, and its counter is past its records
  and not behind the one on disk. The counter on disk is past every key that was
  handed out (`HandedInv`), because a durable file's write flushes the counter
  before it is answered; with `Follows` a flush cut between the records and the
  counter cannot bring an old counter in front of a handed key, and
  `attach_autokey` starts past both. Assumed: finitely many accounts, files and
  keys, at least one key.
* `IndexProofs`, for any keys, records, exclusions, archives and numbers of
  flushes, failures and kills: `TypeCorrect`, `NarrowsOnly` (`Narrows`),
  `ExclusionsKept` (`ExclusionsHold`), `FlushSettled` (`FlushSettles`), which is
  every property of the run. An index `Covers` the contents of a file when every
  record is under each entry it contributes and no excluded entry holds a key; a
  dead letter that leaves past its index is why it is not equality. The one in
  memory covers the records (`PostInv`), and `PlanSound` makes of that that no
  query loses a match. `PostInv` is not inductive: a load takes its postings from
  the disk. `DiskInv` says that a section which would be trusted, and whose files
  are whole, covers the records on disk. It survives a flush because the stamp of
  the records is never one that a state file carries already (`VersionInv`), and
  because the state is written last, when the records on disk are those in
  memory (`DataInv`) and the entries those of the index (`EntryInv`, which needs
  that doubt is lifted only by the first entry of a full save).
* `ServerProofs` again, for `Archive`, with any files in any order, any number of
  writes and of table objects of a file: `ArchiveTypeCorrect`,
  `ArchiveOfOneMoment` (`OneMoment`), `RefusalHarmless` (`RefusedChangesNothing`),
  `RestoredStays` (`Restored`), which is every safety property of the run.
  `OneMoment` speaks of the end of an export only. `PlanInv` says that all through
  it the files of the plan are there, that its handles are to the tables the files
  have, that every table is guarded before the first record is copied, and that
  what all files hold now is one of the moments; `GuardInv` that no transaction
  holds the same table object under its guard. So no step between the first copy
  and the last changes a planned table (`CopyInv`), and the moment is the last
  one. A transaction may still write through a handle from before the file was
  made again: what it changes there nobody reads. `RefusedChangesNothing` needs
  that what the second pass applies was verified by the first, and `Restored`
  that each file the import has done holds what the archive does unless somebody
  has touched it (both in `ImportInv`). `Restored` also needs that a write is told from what was
  there before (`ValuesInv`: every value in memory, on disk or in an archive is
  the number of an earlier write), because a promise ends when a file changes. A
  crash keeps it because it is of the disk as well. Assumed: `None` is no value,
  and dead-letter files are tables. The second was found by the proof: the model
  allowed a directory file there, which `bury` never makes: it creates the file with
  no directory attribute.

Every invariant and action property of the passing runs is proved, and the
refinement. Only model-checked is liveness (`Finishes`, `SilentLeaves`,
`Answered`, `ExportComesToAnEnd`), which is out of the prover's reach.

## Plan

1. `HashFile`, `Queue`, `Transaction`, `Index`, `Cache` with their runs; proofs
   of `HashFile`, `Queue` and `Cache`. Done.
2. `Server`, `Access`, `Catalog`, `Archive` with their runs; `RecordStore` and the
   refinement. Done.
3. Proofs of the refinement `ActsAsOneFile`, of the rest of `Queue`, and of
   `Server`, `Access`, `Transaction`, `Catalog`, `Index` and `Archive`. Done.

## Not modelled

Parsing, formatting and encoding (`db/query.rs` apart from planning,
`db/report.rs`, `db/base64.rs`, `config.rs`), health verdicts (read-only), the
format ladder (its list of steps is empty and its oldest format is its current
one: there is nothing an interruption could leave half done),
certificates and secrets (done by libraries and file modes), the dashboard and
the command line (clients with no state the engine depends on; where the command
line opens the database itself it is the other process of `Cache` and `Access`).
What is left out of a component that is modelled is listed with its module
above.
