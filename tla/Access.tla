------------------------------- MODULE Access -------------------------------
(***************************************************************************)
(* Who may do what over the protocol: the $CLIENTS table, the registry the *)
(* server reads it into, the certs.reg file kept beside it, and the way a  *)
(* request is dispatched.  A request reads its client's grant, lets the    *)
(* lock go, and only then takes the lock it runs under; a grant may change *)
(* in between.  Select lists belong to the server, not to a connection, so *)
(* any client may replace the list another one is reading.                 *)
(*                                                                         *)
(* Each connection has a certificate of its own, so a connection stands    *)
(* for its thumbprint.  Each account has one file, which is also the queue *)
(* an enqueue grant names.  What a command does to its file is the subject *)
(* of other modules: here it reads, changes or empties one, in an account  *)
(* and with a grant.                                                       *)
(***************************************************************************)
EXTENDS Integers, Sequences, FiniteSets

CONSTANTS
    Conns,         \* connections, each with its certificate
    Accounts,      \* the accounts of the database
    Names,         \* the keys of $CLIENTS
    GivenNames,    \* those a client is given or its accounts are changed under
    MigratedName,  \* the key a certificate is given when certs.reg is migrated
    FirstClients,  \* $CLIENTS when the server is first started
    Grants,        \* the grants an AUTHORIZE.CONN may ask for
    Keys,          \* record keys, as numbers: their order is the name order
    EditedKeys,    \* those that are written or deleted
    FirstRecords,  \* the keys each account's file starts with
    ListNames,     \* names of select lists
    Batches,       \* the batch sizes of GET.NEXT
    None,          \* no account named, no client, no list
    MaxChanges,    \* bound: changes of $CLIENTS in a behaviour
    CertsFail      \* whether writing certs.reg may fail, or be cut off by a crash

Capabilities == {"accounts:manage", "clients:manage", "server:observe"}

\* ClientGrant and the grant part of ClientInfo.
GrantType == [accounts : SUBSET Accounts, admin : BOOLEAN, caps : SUBSET Capabilities,
              enqueue : SUBSET Accounts]
Admin == [accounts |-> {}, admin |-> TRUE, caps |-> {}, enqueue |-> {}]

ASSUME AccessAssumption ==
    /\ IsFiniteSet(Conns) /\ IsFiniteSet(Accounts) /\ IsFiniteSet(Names) /\ IsFiniteSet(Keys)
    /\ Keys \subseteq Nat /\ Batches \subseteq Nat \ {0} /\ MaxChanges \in Nat /\ CertsFail \in BOOLEAN
    /\ MigratedName \in [Conns -> Names] /\ GivenNames \subseteq Names
    /\ Grants \subseteq GrantType
    /\ EditedKeys \subseteq Keys /\ FirstRecords \in [Accounts -> SUBSET Keys]
    /\ FirstClients \in [Names -> [thumb : Conns, grant : GrantType] \cup {None}]
    /\ None \notin Accounts /\ None \notin GrantType

\* The commands, by the gate handle_request_locked has for them: those that work
\* in an account the client reaches, those a capability allows, those of an
\* administrator, and two with rules of their own.
RecordCommands == {"READ", "QUERY", "WRITE", "DELETE", "TRANSACT", "ENQUEUE", "DEQUEUE", "ACK", "NACK", "PEEK"}
FileCommands == {"SELECT", "CREATE.FILE", "SET.FILE", "DELETE.FILE", "LIST.FILES", "FILE.STATS",
                 "LIST.DICT", "SET.DICT", "CREATE.INDEX", "SET.INDEX.EXCLUDE", "INDEX.STATS",
                 "REBUILD.INDEX", "DELETE.INDEX", "LIST.INDEXES"}
AccountCommands == {"CREATE.ACCOUNT", "CREATE.TEST.ACCOUNT", "DELETE.ACCOUNT"}
ClientCommands == {"AUTHORIZE.CONN", "DEAUTHORIZE.CONN", "ADD.CLIENT.ACCOUNT",
                   "REMOVE.CLIENT.ACCOUNT", "GENERATE.CERT"}
ObserverCommands == {"LIST.CONNS", "SERVER.STATS"}
ArchiveCommands == {"EXPORT.FILE", "EXPORT.ACCOUNT", "EXPORT.ALL", "IMPORT"}

VARIABLES
    conn,      \* each connection: where it is, and the grant its request runs with
    table,     \* $CLIENTS as the server has it in memory
    saved,     \* $CLIENTS on disk
    changes,   \* how often $CLIENTS was changed, for the bound
    certs,     \* the thumbprints in certs.reg
    registry,  \* the clients the server lets in: thumbprint to grant
    lists,     \* remote_select_lists
    records,   \* the keys of each account's file
    held,      \* history: the grants a connection had since its request was read
    shown,     \* the account whose data the last step sent a client, if it sent any
    changed,   \* the account whose files, dictionaries, indexes or claims it changed, if any
    astray,    \* history: the registry is behind the table, another process or a failed save
    revoked    \* history: certificates an acknowledged DEAUTHORIZE.CONN has put out

regVars == <<table, saved, changes, certs, registry, astray, revoked>>
vars == <<conn, regVars, lists, records, held, shown, changed>>

Asking(commands) == [command : commands, account : Accounts \cup {None}]
Idle == [at |-> "idle", grant |-> None]

\* A select list: the keys it was made of, how far it is paged, and, as history,
\* the keys it has handed out.
SelectLists == [account : Accounts, cursor : Nat, handed : Seq(Keys), keys : Seq(Keys)]

TypeOK ==
    /\ conn \in [Conns -> [at : {"idle", "dispatch", "lock"}, grant : GrantType \cup {None}]]
    /\ {table, saved} \subseteq [Names -> [thumb : Conns, grant : GrantType] \cup {None}]
    /\ certs \subseteq Conns /\ changes \in 0..MaxChanges
    /\ registry \in [Conns -> GrantType \cup {None}]
    /\ lists \in [ListNames -> SelectLists \cup {None}]
    /\ \A l \in ListNames : lists[l] # None => lists[l].cursor <= Len(lists[l].keys)
    /\ records \in [Accounts -> SUBSET Keys]
    /\ held \in [Conns -> SUBSET (GrantType \cup {None})]
    /\ {shown, changed} \subseteq Accounts \cup {None}
    /\ astray \in BOOLEAN /\ revoked \subseteq Conns

\* load_clients_from_table: the map is keyed by thumbprint, so of two names with
\* one certificate either may win.
Thumbs(t) == {t[n].thumb : n \in {m \in Names : t[m] # None}}
GrantsOf(t, c) == {t[n].grant : n \in {m \in Names : t[m] # None /\ t[m].thumb = c}}
Loads(t) == {r \in [Conns -> UNION {GrantsOf(t, c) : c \in Conns} \cup {None}] : \A c \in Conns :
               IF GrantsOf(t, c) = {} THEN r[c] = None ELSE r[c] \in GrantsOf(t, c)}

-----------------------------------------------------------------------------
(* What a grant allows.                                                    *)

Can(g, capability) == g.admin \/ capability \in g.caps
MayReach(g, account) == g.admin \/ account \in g.accounts
MayEnqueue(g, account) == account \in g.enqueue

\* The one account of a client that has exactly one.
Only(g) == IF Cardinality(g.accounts) = 1 THEN CHOOSE a \in g.accounts : TRUE ELSE None

\* enqueue_grant_target: the request runs on the strength of an enqueue grant.
EnqueueGrantTarget(r, g) ==
    /\ r.command \in {"ENQUEUE", "FILE.STATS"} /\ r.account # None
    /\ ~MayReach(g, r.account) /\ MayEnqueue(g, r.account)

NeedsNoCurrentAccount(command) ==
    command \in AccountCommands \cup ClientCommands \cup ObserverCommands \cup {"GET.NEXT"}

\* The account a request runs in, and whether it is refused before it has one.
TargetAccount(r, g) == IF r.account # None THEN r.account ELSE Only(g)
AccountRefused(r, g) ==
    \/ r.account # None /\ ~MayReach(g, r.account)
    \/ r.account = None /\ Only(g) = None /\ ~g.admin /\ ~NeedsNoCurrentAccount(r.command)

\* The gate each arm of handle_request_locked has of its own.
Gate(r, g) ==
    CASE r.command \in RecordCommands \cup FileCommands -> TargetAccount(r, g) # None
      [] r.command \in AccountCommands -> Can(g, "accounts:manage")
      [] r.command \in ClientCommands -> Can(g, "clients:manage")
      [] r.command \in ObserverCommands -> Can(g, "server:observe")
      [] r.command \in ArchiveCommands -> g.admin
      [] OTHER -> TRUE

Permitted(r, g) == EnqueueGrantTarget(r, g) \/ (~AccountRefused(r, g) /\ Gate(r, g))

-----------------------------------------------------------------------------
(* The dispatch.                                                           *)

Init ==
    /\ conn = [c \in Conns |-> Idle]
    /\ table = FirstClients /\ saved = table /\ changes = 0
    /\ registry \in Loads(table)
    /\ certs = Thumbs(table)
    /\ lists = [l \in ListNames |-> None]
    /\ records = FirstRecords
    /\ held = [c \in Conns |-> {}]
    /\ shown = None /\ changed = None
    /\ astray = FALSE /\ revoked = {}

\* What a step sends to a client, and what it changes besides records.
Shows(account) == shown' = account /\ changed' = None
Changes(account) == changed' = account /\ shown' = None
Silent == shown' = None /\ changed' = None

\* A request line is read.  Nothing depends on what it says until it is run.
ReadRequest(c) ==
    /\ conn[c].at = "idle"
    /\ conn' = [conn EXCEPT ![c].at = "dispatch"]
    /\ held' = [held EXCEPT ![c] = {registry[c]}]
    /\ Silent
    /\ UNCHANGED <<regVars, lists, records>>

\* The request r of c may run, and is answered.
Allowed(c, r) == conn[c].at = "lock" /\ Permitted(r, conn[c].grant)
Answered(c) == conn' = [conn EXCEPT ![c] = Idle]
Forget(c) == held' = [held EXCEPT ![c] = {}]
Account(c, r) == TargetAccount(r, conn[c].grant)

\* Mutant: the grant is read from the table, which may be ahead of the registry.
ClientInTable(c) == IF GrantsOf(table, c) = {} THEN None ELSE CHOOSE g \in GrantsOf(table, c) : TRUE

client_for_thumbprint(c) == registry[c]

\* dispatch: the grant is read under the shared lock, which is let go again.  A
\* client that is gone is told so, and its connection closed.
Dispatch(c) ==
    /\ conn[c].at = "dispatch"
    /\ IF client_for_thumbprint(c) = None
       THEN Answered(c) /\ Forget(c)
       ELSE conn' = [conn EXCEPT ![c] = [at |-> "lock", grant |-> client_for_thumbprint(c)]] /\ UNCHANGED held
    /\ Silent
    /\ UNCHANGED <<regVars, lists, records>>

\* A request runs and is answered; and one of which only the command matters.
Runs(c, r) == Allowed(c, r) /\ Answered(c)
RunsAny(c, command) == (\E r \in Asking({command}) : Allowed(c, r)) /\ Answered(c)

\* The accounts a command of c may run in.
Targets(c, command) == {Account(c, r) : r \in {q \in Asking({command}) : Allowed(c, q)}}

\* What a command that runs in an account does, and nothing more: it shows what
\* is there, or changes the records, or something beside them.
Reads(c, command) == \E a \in Targets(c, command) :
    /\ Answered(c) /\ Forget(c) /\ Shows(a)
    /\ UNCHANGED <<regVars, lists, records>>
Writes(c, command, Edited(_)) == \E a \in Targets(c, command) :
    /\ records' = [records EXCEPT ![a] = Edited(@)]
    /\ Answered(c) /\ Forget(c) /\ Silent
    /\ UNCHANGED <<regVars, lists>>
Alters(c, command) == \E a \in Targets(c, command) :
    /\ Answered(c) /\ Forget(c) /\ Changes(a)
    /\ UNCHANGED <<regVars, lists, records>>

\* A request is refused or fails: it is not permitted, lacks a field, names what
\* is not there, or is no command at all.
Refuse(c) ==
    /\ conn[c].at = "lock"
    /\ Answered(c) /\ Forget(c) /\ Silent
    /\ UNCHANGED <<regVars, lists, records>>

-----------------------------------------------------------------------------
(* Records and queues.                                                     *)

read_record(c) == Reads(c, "READ")
query_records(c) == Reads(c, "QUERY")
write_record(c) == \E k \in EditedKeys : Writes(c, "WRITE", LAMBDA keys : keys \cup {k})
delete_record(c) == \E k \in EditedKeys : Writes(c, "DELETE", LAMBDA keys : keys \ {k})

\* TRANSACT: any of the edited keys written, the others deleted.
transact(c) == \E written \in SUBSET EditedKeys :
    Writes(c, "TRANSACT", LAMBDA keys : (keys \ EditedKeys) \cup written)

\* ENQUEUE puts a record under a key of the server's choice; DEQUEUE shows one
\* and claims it; ACK takes a claimed one away, NACK gives its claim up.
enqueue_record(c) == \E k \in EditedKeys : Writes(c, "ENQUEUE", LAMBDA keys : keys \cup {k})
dequeue_record(c) == \E a \in Targets(c, "DEQUEUE") :
    /\ records[a] # {}
    /\ Answered(c) /\ Forget(c) /\ shown' = a /\ changed' = a
    /\ UNCHANGED <<regVars, lists, records>>
settle_ack(c) == \E k \in EditedKeys : Writes(c, "ACK", LAMBDA keys : keys \ {k})
settle_nack(c) == Alters(c, "NACK")
peek_record(c) == Reads(c, "PEEK")

RecordCommand(c) ==
    \/ read_record(c) \/ query_records(c) \/ write_record(c) \/ delete_record(c) \/ transact(c)
    \/ enqueue_record(c) \/ dequeue_record(c) \/ settle_ack(c) \/ settle_nack(c) \/ peek_record(c)

-----------------------------------------------------------------------------
(* Files, dictionaries, indexes, accounts and archives.                    *)

list_files(c) == Reads(c, "LIST.FILES")
file_statistics(c) == Reads(c, "FILE.STATS")
list_dict(c) == Reads(c, "LIST.DICT")
index_stats(c) == Reads(c, "INDEX.STATS")
list_indexes(c) == Reads(c, "LIST.INDEXES")

\* CREATE.FILE and SET.FILE leave records alone; DELETE.FILE takes them all.
create_file(c) == Alters(c, "CREATE.FILE")
set_file(c) == Alters(c, "SET.FILE")
delete_file(c) == Writes(c, "DELETE.FILE", LAMBDA keys : {})
set_dict(c) == Alters(c, "SET.DICT")
create_index(c) == Alters(c, "CREATE.INDEX")
set_index_exclude(c) == Alters(c, "SET.INDEX.EXCLUDE")
rebuild_index(c) == Alters(c, "REBUILD.INDEX")
delete_index(c) == Alters(c, "DELETE.INDEX")

\* LIST.ACCOUNTS runs in no account and shows the ones the client may reach.
list_accounts(c) == \E a \in Accounts :
    /\ RunsAny(c, "LIST.ACCOUNTS") /\ MayReach(conn[c].grant, a)
    /\ Forget(c) /\ Shows(a)
    /\ UNCHANGED <<regVars, lists, records>>

\* CREATE.ACCOUNT and CREATE.TEST.ACCOUNT make an account that was not there.
create_account(c) == \E command \in {"CREATE.ACCOUNT", "CREATE.TEST.ACCOUNT"} :
    /\ RunsAny(c, command)
    /\ Forget(c) /\ Silent
    /\ UNCHANGED <<regVars, lists, records>>

\* DELETE.ACCOUNT: whichever account it names, reached or not.
delete_account(c) == \E a \in Accounts :
    /\ RunsAny(c, "DELETE.ACCOUNT")
    /\ records' = [records EXCEPT ![a] = {}]
    /\ Forget(c) /\ Silent
    /\ UNCHANGED <<regVars, lists>>

server_stats(c) ==
    /\ RunsAny(c, "SERVER.STATS")
    /\ Forget(c) /\ Silent
    /\ UNCHANGED <<regVars, lists, records>>

\* EXPORT.FILE, EXPORT.ACCOUNT and EXPORT.ALL read any account; IMPORT puts
\* back what an archive of the first records holds.
export_archive(c) == \E command \in ArchiveCommands \ {"IMPORT"}, a \in Accounts :
    /\ RunsAny(c, command)
    /\ Forget(c) /\ Shows(a)
    /\ UNCHANGED <<regVars, lists, records>>
import_archive(c) == \E a \in Accounts :
    /\ RunsAny(c, "IMPORT")
    /\ records' = [records EXCEPT ![a] = @ \cup FirstRecords[a]]
    /\ Forget(c) /\ Silent
    /\ UNCHANGED <<regVars, lists>>

FileCommand(c) ==
    \/ list_files(c) \/ file_statistics(c) \/ list_dict(c) \/ index_stats(c) \/ list_indexes(c)
    \/ create_file(c) \/ set_file(c) \/ delete_file(c) \/ set_dict(c)
    \/ create_index(c) \/ set_index_exclude(c) \/ rebuild_index(c) \/ delete_index(c)

AccountCommand(c) ==
    \/ list_accounts(c) \/ create_account(c) \/ delete_account(c) \/ server_stats(c)
    \/ export_archive(c) \/ import_archive(c)

-----------------------------------------------------------------------------
(* Select lists.                                                           *)

\* The keys S in the order of their names.
InOrder(S) == {s \in [1..Cardinality(S) -> S] : \A i, j \in DOMAIN s : i < j => s[i] < s[j]}

NewList(account, keys) == [account |-> account, cursor |-> 0, handed |-> <<>>, keys |-> keys]

\* SELECT: the list is stored under its name with the account it was made in.
Select(c) == \E r \in Asking({"SELECT"}), l \in ListNames :
    /\ Runs(c, r)
    /\ \E keys \in InOrder(records[Account(c, r)]) :
         lists' = [lists EXCEPT ![l] = NewList(Account(c, r), keys)]
    /\ Forget(c) /\ Shows(Account(c, r))
    /\ UNCHANGED <<regVars, records>>

\* Mutant: the list is trusted.
ReadsAnyList(c, r, l) == lists[l] # None /\ r.account \in {None, lists[l].account}

\* GET.NEXT's own checks: the list is reached through its own account.
MayReadList(c, r, l) ==
    /\ lists[l] # None
    /\ MayReach(conn[c].grant, lists[l].account)
    /\ r.account \in {None, lists[l].account}

\* Where a batch ends.
BatchEnd(l, size) == LET n == lists[l].cursor + size IN
    IF n < Len(lists[l].keys) THEN n ELSE Len(lists[l].keys)

\* The entries of the batch, and whether a record is left under any of them.
Batch(l, size) == SubSeq(lists[l].keys, lists[l].cursor + 1, BatchEnd(l, size))
SomeRecord(l, size) == LET batch == Batch(l, size) IN
    \E i \in DOMAIN batch : batch[i] \in records[lists[l].account]

\* Mutant: a batch none of whose records are left does not move the cursor.
StaysOnEmpty(l, size) ==
    lists' = [lists EXCEPT ![l].cursor = IF SomeRecord(l, size) THEN BatchEnd(l, size) ELSE @,
                           ![l].handed = @ \o Batch(l, size)]

HandOut(l, size) ==
    lists' = [lists EXCEPT ![l].cursor = BatchEnd(l, size), ![l].handed = @ \o Batch(l, size)]

\* GET.NEXT: the cursor moves past the batch, and the keys of it that still
\* have a record come back.  A file that cannot be read then is an error, and
\* the batch is lost.
GetNext(c) == \E r \in Asking({"GET.NEXT"}), l \in ListNames, size \in Batches :
    /\ Runs(c, r)
    /\ \/ /\ MayReadList(c, r, l) /\ HandOut(l, size)
          /\ IF SomeRecord(l, size) THEN Shows(lists[l].account) ELSE Silent
       \/ /\ MayReadList(c, r, l) /\ lists[l].cursor < Len(lists[l].keys)
          /\ lists' = [lists EXCEPT ![l].cursor = BatchEnd(l, size)]
          /\ Silent
       \/ ~MayReadList(c, r, l) /\ UNCHANGED lists /\ Silent
    /\ Forget(c)
    /\ UNCHANGED <<regVars, records>>

-----------------------------------------------------------------------------
(* The clients.                                                            *)

\* The registry is replaced: every grant it gives is one that was held.
Load(t) == \E r \in Loads(t) :
    /\ registry' = r
    /\ held' = [c \in Conns |-> IF conn'[c].at = "idle" THEN {} ELSE held[c] \cup {r[c]}]

\* Mutant: the registry is left for the next start to load.
StoreOnly(c, t, writesCerts) ==
    /\ changes < MaxChanges /\ changes' = changes + 1
    /\ table' = t /\ saved' = t /\ Forget(c)
    /\ UNCHANGED <<registry, certs, astray>>

\* Mutant: certs.reg is written only when a client is authorized.
StoreAppending(c, t, writesCerts) ==
    /\ changes < MaxChanges /\ changes' = changes + 1
    /\ table' = t
    /\ saved' = t /\ Load(t) /\ astray' = FALSE
    /\ certs' = certs \cup {d \in Conns : registry'[d] # None}

\* The table is changed in memory and saved; then the registry is loaded and,
\* when it may have changed, certs.reg written.  A save that fails leaves the
\* change in memory, for whichever save is next; one of certs.reg, the old file.
Store(c, t, writesCerts) ==
    /\ changes < MaxChanges /\ changes' = changes + 1
    /\ table' = t
    /\ \/ /\ saved' = t /\ Load(t) /\ astray' = FALSE
          /\ \/ writesCerts /\ certs' = {d \in Conns : registry'[d] # None}
             \/ (~writesCerts \/ CertsFail) /\ UNCHANGED certs
       \/ Forget(c) /\ UNCHANGED <<saved, registry, certs>> /\ astray' = TRUE

\* add_authorized_client: the name's entry is replaced whole, whoever had it.
Entered(n, d, g) == [table EXCEPT ![n] = [thumb |-> d, grant |-> g]]

\* AUTHORIZE.CONN.  The grant must give something.
AuthorizeConn(c) == \E n \in GivenNames, d \in Conns, g \in Grants :
    /\ RunsAny(c, "AUTHORIZE.CONN")
    /\ Store(c, Entered(n, d, g), TRUE)
    /\ revoked' = revoked \ Thumbs(table')
    /\ Silent
    /\ UNCHANGED <<lists, records>>

\* GENERATE.CERT: a certificate no name has yet is made and authorized.
GenerateCert(c) == \E n \in GivenNames, d \in Conns \ Thumbs(table), g \in Grants :
    /\ RunsAny(c, "GENERATE.CERT")
    /\ Store(c, Entered(n, d, g), TRUE)
    /\ revoked' = revoked \ Thumbs(table')
    /\ Silent
    /\ UNCHANGED <<lists, records>>

\* What an acknowledged removal puts out: the certificates no name has any more.
PutOut(ok) == (IF ok THEN revoked \cup Thumbs(table) ELSE revoked) \ Thumbs(table')

\* remove_authorized_client.
DeauthorizeConn(c) == \E n \in Names :
    /\ RunsAny(c, "DEAUTHORIZE.CONN")
    /\ \/ /\ table[n] # None
          /\ Store(c, [table EXCEPT ![n] = None], TRUE)
          /\ revoked' = PutOut(~astray')
       \/ table[n] = None /\ Forget(c) /\ UNCHANGED regVars
    /\ Silent
    /\ UNCHANGED <<lists, records>>

\* add_client_account and remove_client_account: the accounts of a name become
\* these.  Nothing is saved, and OK is answered, when the name is unknown or its
\* accounts are as asked already.
GiveAccounts(c, n, accounts) ==
    /\ \/ /\ table[n] # None /\ table[n].grant.accounts # accounts
          /\ Store(c, [table EXCEPT ![n].grant.accounts = accounts], FALSE)
       \/ /\ ~(table[n] # None /\ table[n].grant.accounts # accounts)
          /\ Forget(c) /\ UNCHANGED <<table, saved, changes, certs, registry, astray>>
    /\ Silent
    /\ UNCHANGED <<revoked, lists, records>>

AccountsOf(n) == IF table[n] = None THEN {} ELSE table[n].grant.accounts

AddClientAccount(c) == \E n \in GivenNames, a \in Accounts :
    RunsAny(c, "ADD.CLIENT.ACCOUNT") /\ GiveAccounts(c, n, AccountsOf(n) \cup {a})

RemoveClientAccount(c) == \E n \in GivenNames, a \in Accounts :
    RunsAny(c, "REMOVE.CLIENT.ACCOUNT") /\ GiveAccounts(c, n, AccountsOf(n) \ {a})

\* refresh_clients_if_stale: a table that is as it is on disk is loaded again.
Refreshed(c) ==
    \/ table = saved /\ Load(table) /\ astray' = FALSE
    \/ table # saved /\ Forget(c) /\ UNCHANGED <<registry, astray>>

\* LIST.CONNS is the only command that refreshes.
ListConns(c) ==
    /\ RunsAny(c, "LIST.CONNS")
    /\ Refreshed(c)
    /\ Silent
    /\ UNCHANGED <<table, saved, changes, certs, revoked, lists, records>>

\* The command line, in a process of its own, authorizes or removes a client:
\* the table is reread when the server next uses it, the registry is not.
OtherProcess == \E n \in GivenNames, d \in Conns, g \in Grants :
    /\ table = saved /\ changes < MaxChanges /\ changes' = changes + 1
    /\ \E entry \in {None, [thumb |-> d, grant |-> g]} : saved' = [saved EXCEPT ![n] = entry]
    /\ saved' # saved
    /\ table' = saved'
    /\ certs' = Thumbs(saved')
    /\ revoked' = revoked \ Thumbs(saved')
    /\ astray' = TRUE
    /\ Silent
    /\ UNCHANGED <<conn, registry, lists, records, held>>

\* The clients certs.reg lists and the table does not.
Unlisted == certs \ Thumbs(saved)

\* The server stops and starts: migrate_legacy_certs makes an administrator of
\* every certificate in certs.reg that no name has, and puts the file away.
Restart ==
    /\ table' = [n \in Names |->
                   IF \E c \in Unlisted : MigratedName[c] = n
                   THEN [thumb |-> CHOOSE c \in Unlisted : MigratedName[c] = n, grant |-> Admin]
                   ELSE saved[n]]
    /\ saved' = table' /\ certs' = {}
    /\ registry' \in Loads(table') /\ astray' = FALSE
    /\ conn' = [c \in Conns |-> Idle]
    /\ held' = [c \in Conns |-> {}]
    /\ lists' = [l \in ListNames |-> None]
    /\ Silent
    /\ UNCHANGED <<records, changes, revoked>>

Command(c) ==
    /\ conn[c].at = "lock"
    /\ \/ Refuse(c) \/ RecordCommand(c) \/ FileCommand(c) \/ AccountCommand(c) \/ Select(c) \/ GetNext(c)
       \/ AuthorizeConn(c) \/ GenerateCert(c) \/ DeauthorizeConn(c)
       \/ AddClientAccount(c) \/ RemoveClientAccount(c) \/ ListConns(c)

Next == (\E c \in Conns : ReadRequest(c) \/ Dispatch(c) \/ Command(c)) \/ OtherProcess \/ Restart

Spec == Init /\ [][Next]_vars

-----------------------------------------------------------------------------
(* Properties.                                                             *)

\* A request runs with a grant its client held at some moment after the request
\* was read: one that was taken away before is never used.
GrantWasHeld == \A c \in Conns : conn[c].at = "lock" => conn[c].grant \in held[c]

\* Whatever a request shows or changes lies within the grant it runs with.  Data
\* comes from accounts it reaches, or from a queue it may feed; to such a queue it
\* may only add; records go from an account out of reach only with the account;
\* and the list it reads is one of an account it reaches, however often other
\* clients have replaced that list.
Confined == [][\A c \in Conns : conn[c].at = "lock" /\ conn'[c].at = "idle" =>
    LET g == conn[c].grant IN
    /\ shown' # None => MayReach(g, shown') \/ MayEnqueue(g, shown')
    /\ changed' # None => MayReach(g, changed')
    /\ \A a \in Accounts : records'[a] # records[a] =>
         \/ MayReach(g, a)
         \/ MayEnqueue(g, a) /\ records[a] \subseteq records'[a]
         \/ Can(g, "accounts:manage") /\ records'[a] = {}
    /\ \A l \in ListNames : lists'[l] # lists[l] /\ lists'[l] # None =>
         MayReach(g, lists'[l].account) /\ (shown' # None => shown' = lists'[l].account)]_vars

\* No entry of a select list is handed out twice, whoever pages it and whatever
\* becomes of the records: a list is handed out in its own order, front to back.
EveryEntryOnce == \A l \in ListNames : lists[l] # None =>
    \A i, j \in DOMAIN lists[l].handed : i < j => lists[l].handed[i] < lists[l].handed[j]

\* Unless a save has failed or another process has written the table, the
\* registry says what the table says.
RegistryFollows == ~astray => registry \in Loads(table)

\* A client that a DEAUTHORIZE.CONN was acknowledged for stays out until it is
\* authorized again: no other command, and no restart, lets it back in.
RevokedStaysOut == \A c \in revoked : registry[c] = None

=============================================================================
