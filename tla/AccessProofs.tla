---------------------------- MODULE AccessProofs ----------------------------
(***************************************************************************)
(* Proofs about Access, for any number of connections, accounts, clients   *)
(* and select lists: a request runs with a grant its client held since the *)
(* request was read, and stays within it; the registry follows the table;  *)
(* a select list hands out each entry at most once; and, as long as        *)
(* certs.reg is written when it should be, a client put out stays out.     *)
(***************************************************************************)
EXTENDS Access, FiniteSetTheorems, SequenceTheorems, TLAPS

-----------------------------------------------------------------------------
(* What the operators give.                                                *)

\* TypeOK, a variable or two at a time.
LEMMA TypeParts ==
    TypeOK <=> /\ conn \in [Conns -> [at : {"idle", "dispatch", "lock"}, grant : GrantType \cup {None}]]
               /\ table \in [Names -> [thumb : Conns, grant : GrantType] \cup {None}]
               /\ saved \in [Names -> [thumb : Conns, grant : GrantType] \cup {None}]
               /\ certs \subseteq Conns /\ changes \in 0..MaxChanges
               /\ registry \in [Conns -> GrantType \cup {None}]
               /\ lists \in [ListNames -> SelectLists \cup {None}]
               /\ \A l \in ListNames : lists[l] # None => lists[l].cursor <= Len(lists[l].keys)
               /\ records \in [Accounts -> SUBSET Keys]
               /\ held \in [Conns -> SUBSET (GrantType \cup {None})]
               /\ shown \in Accounts \cup {None} /\ changed \in Accounts \cup {None}
               /\ astray \in BOOLEAN /\ revoked \subseteq Conns
  BY DEF TypeOK

\* The one account of a client is one of its accounts.
LEMMA OnlyIsGranted ==
    ASSUME NEW g \in GrantType, Only(g) # None
    PROVE  Only(g) \in g.accounts
  <1>1. Cardinality(g.accounts) = 1
    BY DEF Only
  <1>2. g.accounts # {}
    BY <1>1, FS_EmptySet
  <1> QED BY <1>1, <1>2 DEF Only

\* A request that is permitted and runs in an account reaches that account, or
\* feeds its queue.
LEMMA TargetReached ==
    ASSUME NEW g \in GrantType, NEW r \in Asking(RecordCommands \cup FileCommands), Permitted(r, g)
    PROVE  /\ TargetAccount(r, g) \in Accounts
           /\ \/ MayReach(g, TargetAccount(r, g))
              \/ r.command \in {"ENQUEUE", "FILE.STATS"} /\ MayEnqueue(g, TargetAccount(r, g))
  <1>1. CASE EnqueueGrantTarget(r, g)
    BY <1>1 DEF EnqueueGrantTarget, TargetAccount, Asking
  <1>2. CASE ~EnqueueGrantTarget(r, g)
    <2>1. ~AccountRefused(r, g) /\ Gate(r, g)
      BY <1>2 DEF Permitted
    <2>2. TargetAccount(r, g) # None
      BY <2>1 DEF Gate, Asking, RecordCommands, FileCommands, AccountCommands, ClientCommands,
                  ObserverCommands, ArchiveCommands
    <2>3. CASE r.account # None
      BY <2>1, <2>3 DEF AccountRefused, TargetAccount, Asking
    <2>4. CASE r.account = None
      <3>1. TargetAccount(r, g) = Only(g)
        BY <2>4 DEF TargetAccount
      <3>2. Only(g) \in g.accounts
        BY <3>1, <2>2, OnlyIsGranted
      <3> QED BY <3>1, <3>2 DEF MayReach, GrantType
    <2> QED BY <2>3, <2>4
  <1> QED BY <1>1, <1>2

\* What a client is loaded with is what some name grants it, or nothing.
LEMMA LoadsGive ==
    ASSUME NEW t \in [Names -> [thumb : Conns, grant : GrantType] \cup {None}], NEW r \in Loads(t)
    PROVE  /\ r \in [Conns -> GrantType \cup {None}]
           /\ \A c \in Conns : r[c] # None => c \in Thumbs(t)
  <1>1. \A c \in Conns : GrantsOf(t, c) \subseteq GrantType
    BY DEF GrantsOf
  <1>2. \A c \in Conns : r[c] \in GrantType \cup {None}
    BY <1>1 DEF Loads
  <1>3. r \in [Conns -> GrantType \cup {None}]
    BY <1>2 DEF Loads
  <1>4. ASSUME NEW c \in Conns, r[c] # None PROVE c \in Thumbs(t)
    <2>1. GrantsOf(t, c) # {}
      BY <1>4 DEF Loads
    <2> QED BY <2>1 DEF GrantsOf, Thumbs
  <1> QED BY <1>3, <1>4

-----------------------------------------------------------------------------
(* The steps, by what they do to the clients and to the requests.          *)

\* A command that is about records, files or accounts, or a select list, leaves
\* the clients alone, and ends with the answer.
Other(c) == Refuse(c) \/ RecordCommand(c) \/ FileCommand(c) \/ AccountCommand(c) \/ Select(c) \/ GetNext(c)

\* One that may change the clients, or loads them.
Administers(c) ==
    \/ AuthorizeConn(c) \/ GenerateCert(c) \/ DeauthorizeConn(c)
    \/ AddClientAccount(c) \/ RemoveClientAccount(c) \/ ListConns(c)

LEMMA OtherAnswers ==
    ASSUME NEW c \in Conns, Other(c)
    PROVE  Answered(c) /\ Forget(c) /\ UNCHANGED regVars
  <1> USE DEF Reads, Writes, Alters, Runs, RunsAny
  <1>1. CASE Refuse(c)
    BY <1>1 DEF Refuse
  <1>2. CASE RecordCommand(c)
    BY <1>2 DEF RecordCommand, read_record, query_records, write_record, delete_record, transact,
       enqueue_record, dequeue_record, settle_ack, settle_nack, peek_record
  <1>3. CASE FileCommand(c)
    BY <1>3 DEF FileCommand, list_files, file_statistics, list_dict, index_stats, list_indexes,
       create_file, set_file, delete_file, set_dict, create_index, set_index_exclude, rebuild_index, delete_index
  <1>4. CASE AccountCommand(c)
    BY <1>4 DEF AccountCommand, list_accounts, create_account, delete_account, server_stats,
       export_archive, import_archive
  <1>5. CASE Select(c)
    BY <1>5 DEF Select
  <1>6. CASE GetNext(c)
    BY <1>6 DEF GetNext
  <1> QED BY <1>1, <1>2, <1>3, <1>4, <1>5, <1>6 DEF Other

Clients == [Names -> [thumb : Conns, grant : GrantType] \cup {None}]

\* A change of the table that was saved, and one that was not.
StoredAs(t) == table' = t /\ saved' = t /\ Load(t) /\ astray' = FALSE
Unsaved(c, t) == table' = t /\ Forget(c) /\ UNCHANGED <<saved, registry, certs>> /\ astray' = TRUE

\* Store, of a table that is one, is one or the other.
LEMMA StoreKinds ==
    ASSUME NEW c \in Conns, NEW t, NEW w \in BOOLEAN, Store(c, t, w)
    PROVE  /\ changes' = changes + 1 /\ changes < MaxChanges
           /\ \/ /\ StoredAs(t)
                 /\ \/ w /\ certs' = {d \in Conns : registry'[d] # None}
                    \/ (~w \/ CertsFail) /\ UNCHANGED certs
              \/ Unsaved(c, t)
  BY DEF Store, StoredAs, Unsaved

\* An entry put in the table leaves a table, and so does a change of accounts,
\* which leaves every name its certificate.
LEMMA TablesMade ==
    ASSUME TypeOK, NEW n \in Names
    PROVE  /\ \A d \in Conns, g \in GrantType : Entered(n, d, g) \in Clients
           /\ [table EXCEPT ![n] = None] \in Clients
           /\ \A accounts \in SUBSET Accounts : table[n] # None =>
                /\ [table EXCEPT ![n].grant.accounts = accounts] \in Clients
                /\ Thumbs([table EXCEPT ![n].grant.accounts = accounts]) \subseteq Thumbs(table)
           /\ AccountsOf(n) \subseteq Accounts
  <1>1. table \in Clients
    BY TypeParts DEF Clients
  <1>2. ASSUME NEW accounts \in SUBSET Accounts, table[n] # None
        PROVE  /\ [table EXCEPT ![n].grant.accounts = accounts] \in Clients
               /\ Thumbs([table EXCEPT ![n].grant.accounts = accounts]) \subseteq Thumbs(table)
    <2> DEFINE t == [table EXCEPT ![n].grant.accounts = accounts]
    <2>1. table[n] \in [thumb : Conns, grant : GrantType]
      BY <1>1, <1>2 DEF Clients
    <2>2. [table[n] EXCEPT !.grant.accounts = accounts] \in [thumb : Conns, grant : GrantType]
      BY <2>1 DEF GrantType
    <2>3. /\ t[n].thumb = table[n].thumb
          /\ \A m \in Names \ {n} : t[m] = table[m]
      BY <1>1, <2>1 DEF Clients
    <2>4. t \in Clients
      BY <1>1, <2>2 DEF Clients
    <2>5. Thumbs(t) \subseteq Thumbs(table)
      <3> HIDE DEF t
      <3> QED BY <2>3, <1>2 DEF Thumbs
    <2> QED BY <2>4, <2>5
  <1>3. AccountsOf(n) \subseteq Accounts
    BY <1>1 DEF Clients, AccountsOf, GrantType
  <1> QED BY <1>1, <1>2, <1>3 DEF Clients, Entered

\* What administering does to the table: nothing but what is stored.
LEMMA TableMoves ==
    ASSUME TypeOK, NEW c \in Conns, Administers(c)
    PROVE  /\ changes' \in 0..MaxChanges
           /\ revoked' \subseteq Conns
           /\ \/ \E t \in Clients : /\ StoredAs(t)
                                     /\ \/ certs' = {d \in Conns : registry'[d] # None}
                                        \/ UNCHANGED certs
              \/ \E t \in Clients : Unsaved(c, t)
              \/ Forget(c) /\ UNCHANGED <<table, saved, certs, registry, astray>>
              \/ table = saved /\ Load(table) /\ astray' = FALSE /\ UNCHANGED <<table, saved, certs>>
  <1>t. changes \in 0..MaxChanges /\ revoked \subseteq Conns /\ MaxChanges \in Nat /\ table \in Clients
    BY TypeParts, AccessAssumption DEF Clients
  <1>g. Grants \subseteq GrantType /\ GivenNames \subseteq Names
    BY AccessAssumption
  <1>th. \A t \in Clients : Thumbs(t) \subseteq Conns
    BY DEF Clients, Thumbs
  <1>s. ASSUME NEW t \in Clients, NEW w \in BOOLEAN, Store(c, t, w)
        PROVE  /\ changes' \in 0..MaxChanges
               /\ table' = t
               /\ \/ /\ StoredAs(t)
                     /\ \/ certs' = {d \in Conns : registry'[d] # None}
                        \/ UNCHANGED certs
                  \/ Unsaved(c, t)
    <2>1. changes' = changes + 1 /\ changes < MaxChanges
      BY <1>s, StoreKinds
    <2>2. changes' \in 0..MaxChanges
      BY <2>1, <1>t
    <2>3. table' = t
      BY <1>s DEF Store
    <2> QED BY <2>2, <2>3, <1>s, StoreKinds
  <1>1. CASE AuthorizeConn(c)
    <2>1. PICK n \in GivenNames, d \in Conns, g \in Grants :
            Store(c, Entered(n, d, g), TRUE) /\ revoked' = revoked \ Thumbs(table')
      BY <1>1 DEF AuthorizeConn
    <2>2. Entered(n, d, g) \in Clients
      BY <1>g, TablesMade
    <2> QED BY <2>1, <2>2, <1>s, <1>t
  <1>2. CASE GenerateCert(c)
    <2>1. PICK n \in GivenNames, d \in Conns, g \in Grants :
            Store(c, Entered(n, d, g), TRUE) /\ revoked' = revoked \ Thumbs(table')
      BY <1>2 DEF GenerateCert
    <2>2. Entered(n, d, g) \in Clients
      BY <1>g, TablesMade
    <2> QED BY <2>1, <2>2, <1>s, <1>t
  <1>3. CASE DeauthorizeConn(c)
    <2>1. PICK n \in Names :
            \/ /\ table[n] # None
               /\ Store(c, [table EXCEPT ![n] = None], TRUE)
               /\ revoked' = PutOut(~astray')
            \/ table[n] = None /\ Forget(c) /\ UNCHANGED regVars
      BY <1>3 DEF DeauthorizeConn
    <2>2. [table EXCEPT ![n] = None] \in Clients
      BY TablesMade
    <2>3. CASE Store(c, [table EXCEPT ![n] = None], TRUE) /\ revoked' = PutOut(~astray')
      <3>1. revoked' \subseteq Conns
        BY <2>3, <1>t, <1>th DEF PutOut
      <3> QED BY <2>2, <2>3, <3>1, <1>s
    <2>4. CASE Forget(c) /\ UNCHANGED regVars
      BY <2>4, <1>t DEF regVars
    <2> QED BY <2>1, <2>3, <2>4
  <1>4. ASSUME NEW n \in GivenNames, NEW accounts \in SUBSET Accounts, GiveAccounts(c, n, accounts)
        PROVE  /\ changes' \in 0..MaxChanges
               /\ revoked' \subseteq Conns
               /\ \/ \E t \in Clients : /\ StoredAs(t)
                                         /\ \/ certs' = {d \in Conns : registry'[d] # None}
                                            \/ UNCHANGED certs
                  \/ \E t \in Clients : Unsaved(c, t)
                  \/ Forget(c) /\ UNCHANGED <<table, saved, certs, registry, astray>>
    <2>1. CASE table[n] # None /\ Store(c, [table EXCEPT ![n].grant.accounts = accounts], FALSE)
      <3>1. [table EXCEPT ![n].grant.accounts = accounts] \in Clients
        BY <2>1, <1>g, TablesMade
      <3>2. UNCHANGED revoked
        BY <1>4 DEF GiveAccounts
      <3> QED BY <2>1, <3>1, <3>2, <1>s, <1>t
    <2>2. CASE Forget(c) /\ UNCHANGED <<table, saved, changes, certs, registry, astray>>
      BY <2>2, <1>4, <1>t DEF GiveAccounts
    <2> QED BY <1>4, <2>1, <2>2 DEF GiveAccounts
  <1>5. CASE AddClientAccount(c)
    <2>1. PICK n \in GivenNames, a \in Accounts : GiveAccounts(c, n, AccountsOf(n) \cup {a})
      BY <1>5 DEF AddClientAccount
    <2>2. AccountsOf(n) \cup {a} \in SUBSET Accounts
      BY <1>g, TablesMade
    <2> QED BY <2>1, <2>2, <1>4
  <1>6. CASE RemoveClientAccount(c)
    <2>1. PICK n \in GivenNames, a \in Accounts : GiveAccounts(c, n, AccountsOf(n) \ {a})
      BY <1>6 DEF RemoveClientAccount
    <2>2. AccountsOf(n) \ {a} \in SUBSET Accounts
      BY <1>g, TablesMade
    <2> QED BY <2>1, <2>2, <1>4
  <1>7. CASE ListConns(c)
    BY <1>7, <1>t DEF ListConns, Refreshed
  <1> QED BY <1>1, <1>2, <1>3, <1>5, <1>6, <1>7 DEF Administers

LEMMA AdministersAnswers ==
    ASSUME NEW c \in Conns, Administers(c)
    PROVE  /\ Answered(c) /\ Silent
           /\ UNCHANGED <<lists, records>>
  BY DEF Administers, AuthorizeConn, GenerateCert, DeauthorizeConn, AddClientAccount, RemoveClientAccount,
     ListConns, GiveAccounts, RunsAny

LEMMA StepKinds ==
    ASSUME Next
    PROVE  \/ \E c \in Conns : ReadRequest(c)
           \/ \E c \in Conns : Dispatch(c)
           \/ \E c \in Conns : conn[c].at = "lock" /\ Other(c)
           \/ \E c \in Conns : conn[c].at = "lock" /\ Administers(c)
           \/ OtherProcess
           \/ Restart
  BY DEF Next, Command, Other, Administers

-----------------------------------------------------------------------------
(* Types.                                                                  *)

\* A command that works in an account works in one there is.
LEMMA TargetsAreAccounts ==
    ASSUME TypeOK, NEW c \in Conns, conn[c].grant \in GrantType,
           NEW command \in RecordCommands \cup FileCommands, NEW a \in Targets(c, command)
    PROVE  /\ a \in Accounts
           /\ \/ MayReach(conn[c].grant, a)
              \/ command \in {"ENQUEUE", "FILE.STATS"} /\ MayEnqueue(conn[c].grant, a)
  <1>1. PICK r \in Asking({command}) : Allowed(c, r) /\ a = Account(c, r)
    BY DEF Targets
  <1>2. r \in Asking(RecordCommands \cup FileCommands) /\ r.command = command
    BY DEF Asking
  <1>3. Permitted(r, conn[c].grant) /\ a = TargetAccount(r, conn[c].grant)
    BY <1>1 DEF Allowed, Account
  <1> QED BY <1>2, <1>3, TargetReached

\* A request under way has a grant.
Granted == \A c \in Conns : conn[c].at = "lock" => conn[c].grant # None

\* What a command of c that leaves the select lists alone does, all within the
\* grant it runs with: it shows or alters something, or edits the records of an
\* account.
Looks(c) ==
    /\ UNCHANGED <<lists, records>>
    /\ shown' = None \/ (shown' \in Accounts /\ (MayReach(conn[c].grant, shown') \/ MayEnqueue(conn[c].grant, shown')))
    /\ changed' = None \/ (changed' \in Accounts /\ MayReach(conn[c].grant, changed'))

Within(c, a, S) ==
    \/ MayReach(conn[c].grant, a)
    \/ MayEnqueue(conn[c].grant, a) /\ records[a] \subseteq S
    \/ Can(conn[c].grant, "accounts:manage") /\ S = {}

Edits(c) == \E a \in Accounts, S \in SUBSET Keys :
    /\ records' = [records EXCEPT ![a] = S]
    /\ Within(c, a, S)
    /\ Silent /\ UNCHANGED lists

LEMMA EditsInside ==
    ASSUME TypeOK, NEW c \in Conns, conn[c].grant \in GrantType,
           NEW command \in RecordCommands \cup FileCommands, NEW a \in Targets(c, command), NEW S \in SUBSET Keys,
           command \in {"ENQUEUE", "FILE.STATS"} => records[a] \subseteq S,
           records' = [records EXCEPT ![a] = S], Silent, UNCHANGED lists
    PROVE  Edits(c)
  <1>1. a \in Accounts /\ Within(c, a, S)
    BY TargetsAreAccounts DEF Within
  <1> QED BY <1>1 DEF Edits

LEMMA ReadsInside ==
    ASSUME TypeOK, NEW c \in Conns, conn[c].grant \in GrantType,
           NEW command \in RecordCommands \cup FileCommands,
           \/ Reads(c, command)
           \/ command \notin {"ENQUEUE", "FILE.STATS"} /\ Alters(c, command)
    PROVE  Looks(c)
  <1>1. CASE Reads(c, command)
    <2>1. PICK a \in Targets(c, command) : Shows(a) /\ UNCHANGED <<lists, records>>
      BY <1>1 DEF Reads
    <2> QED BY <2>1, TargetsAreAccounts DEF Shows, Looks
  <1>2. CASE command \notin {"ENQUEUE", "FILE.STATS"} /\ Alters(c, command)
    <2>1. PICK a \in Targets(c, command) : Changes(a) /\ UNCHANGED <<lists, records>>
      BY <1>2 DEF Alters
    <2> QED BY <2>1, <1>2, TargetsAreAccounts DEF Changes, Looks
  <1> QED BY <1>1, <1>2

LEMMA RecordEffects ==
    ASSUME TypeOK, NEW c \in Conns, conn[c].grant \in GrantType, RecordCommand(c) \/ FileCommand(c)
    PROVE  Looks(c) \/ Edits(c)
  <1>t. /\ records \in [Accounts -> SUBSET Keys]
        /\ EditedKeys \subseteq Keys
    BY TypeParts, AccessAssumption
  <1>ta. \A command \in RecordCommands \cup FileCommands : Targets(c, command) \subseteq Accounts
    BY TargetsAreAccounts
  <1>c. /\ {"READ", "QUERY", "WRITE", "DELETE", "TRANSACT", "ENQUEUE", "DEQUEUE", "ACK", "NACK", "PEEK"}
              \subseteq RecordCommands \cup FileCommands
        /\ {"CREATE.FILE", "SET.FILE", "DELETE.FILE", "LIST.FILES", "FILE.STATS", "LIST.DICT", "SET.DICT",
            "CREATE.INDEX", "SET.INDEX.EXCLUDE", "INDEX.STATS", "REBUILD.INDEX", "DELETE.INDEX", "LIST.INDEXES"}
              \subseteq RecordCommands \cup FileCommands
    BY DEF RecordCommands, FileCommands
  <1>1. CASE read_record(c) \/ query_records(c) \/ peek_record(c) \/ settle_nack(c)
    BY <1>1, <1>c, ReadsInside DEF read_record, query_records, peek_record, settle_nack
  <1>2. ASSUME NEW command \in {"WRITE", "ENQUEUE"}, NEW k \in EditedKeys, NEW a \in Targets(c, command),
               records' = [records EXCEPT ![a] = @ \cup {k}], Silent, UNCHANGED lists
        PROVE  Edits(c)
    <2> DEFINE S == records[a] \cup {k}
    <2>1. S \in SUBSET Keys /\ records[a] \subseteq S
      BY <1>t, <1>ta, <1>c
    <2>2. records' = [records EXCEPT ![a] = S]
      BY <1>2
    <2> HIDE DEF S
    <2> QED BY <1>2, <1>c, <2>1, <2>2, EditsInside
  <1>3. ASSUME NEW command \in {"DELETE", "ACK"}, NEW k \in EditedKeys, NEW a \in Targets(c, command),
               records' = [records EXCEPT ![a] = @ \ {k}], Silent, UNCHANGED lists
        PROVE  Edits(c)
    <2> DEFINE S == records[a] \ {k}
    <2>1. S \in SUBSET Keys
      BY <1>t, <1>ta, <1>c
    <2>2. records' = [records EXCEPT ![a] = S]
      BY <1>3
    <2> HIDE DEF S
    <2> QED BY <1>3, <1>c, <2>1, <2>2, EditsInside
  <1>4. CASE write_record(c)
    <2>1. PICK k \in EditedKeys, a \in Targets(c, "WRITE") :
            records' = [records EXCEPT ![a] = @ \cup {k}] /\ Silent /\ UNCHANGED lists
      BY <1>4 DEF write_record, Writes
    <2> QED BY <2>1, <1>2
  <1>5. CASE enqueue_record(c)
    <2>1. PICK k \in EditedKeys, a \in Targets(c, "ENQUEUE") :
            records' = [records EXCEPT ![a] = @ \cup {k}] /\ Silent /\ UNCHANGED lists
      BY <1>5 DEF enqueue_record, Writes
    <2> QED BY <2>1, <1>2
  <1>6. CASE delete_record(c)
    <2>1. PICK k \in EditedKeys, a \in Targets(c, "DELETE") :
            records' = [records EXCEPT ![a] = @ \ {k}] /\ Silent /\ UNCHANGED lists
      BY <1>6 DEF delete_record, Writes
    <2> QED BY <2>1, <1>3
  <1>7. CASE settle_ack(c)
    <2>1. PICK k \in EditedKeys, a \in Targets(c, "ACK") :
            records' = [records EXCEPT ![a] = @ \ {k}] /\ Silent /\ UNCHANGED lists
      BY <1>7 DEF settle_ack, Writes
    <2> QED BY <2>1, <1>3
  <1>8. CASE transact(c)
    <2>1. PICK written \in SUBSET EditedKeys, a \in Targets(c, "TRANSACT") :
            /\ records' = [records EXCEPT ![a] = (@ \ EditedKeys) \cup written]
            /\ Silent /\ UNCHANGED lists
      BY <1>8 DEF transact, Writes
    <2> DEFINE S == (records[a] \ EditedKeys) \cup written
    <2>2. S \in SUBSET Keys
      BY <1>t, <1>ta, <1>c
    <2>3. records' = [records EXCEPT ![a] = S]
      BY <2>1
    <2>4. /\ "TRANSACT" \in RecordCommands \cup FileCommands
          /\ "TRANSACT" \notin {"ENQUEUE", "FILE.STATS"}
      BY <1>c
    <2> HIDE DEF S
    <2> QED BY <2>1, <2>2, <2>3, <2>4, EditsInside
  <1>9. CASE dequeue_record(c)
    <2>1. PICK a \in Targets(c, "DEQUEUE") : shown' = a /\ changed' = a /\ UNCHANGED <<lists, records>>
      BY <1>9 DEF dequeue_record
    <2> QED BY <2>1, <1>c, TargetsAreAccounts DEF Looks
  <1>10. CASE list_files(c) \/ file_statistics(c) \/ list_dict(c) \/ index_stats(c) \/ list_indexes(c)
    BY <1>10, <1>c, ReadsInside DEF list_files, file_statistics, list_dict, index_stats, list_indexes
  <1>11. CASE create_file(c) \/ set_file(c) \/ set_dict(c) \/ create_index(c) \/ set_index_exclude(c)
              \/ rebuild_index(c) \/ delete_index(c)
    BY <1>11, <1>c, ReadsInside DEF create_file, set_file, set_dict, create_index, set_index_exclude,
       rebuild_index, delete_index
  <1>12. CASE delete_file(c)
    <2>1. PICK a \in Targets(c, "DELETE.FILE") :
            records' = [records EXCEPT ![a] = {}] /\ Silent /\ UNCHANGED lists
      BY <1>12 DEF delete_file, Writes
    <2>2. /\ "DELETE.FILE" \in RecordCommands \cup FileCommands
          /\ "DELETE.FILE" \notin {"ENQUEUE", "FILE.STATS"}
      BY <1>c
    <2>3. {} \in SUBSET Keys
      OBVIOUS
    <2> QED BY <2>1, <2>2, <2>3, EditsInside
  <1> QED
    BY <1>1, <1>4, <1>5, <1>6, <1>7, <1>8, <1>9, <1>10, <1>11, <1>12 DEF RecordCommand, FileCommand

\* What a request of which only the command matters was permitted for.
LEMMA AnyPermitted ==
    ASSUME NEW c \in Conns, conn[c].grant \in GrantType, NEW command, RunsAny(c, command)
    PROVE  /\ command \in AccountCommands => Can(conn[c].grant, "accounts:manage")
           /\ command \in ArchiveCommands => conn[c].grant.admin
  <1>1. PICK r \in Asking({command}) : Permitted(r, conn[c].grant)
    BY DEF RunsAny, Allowed
  <1>2. r.command = command
    BY DEF Asking
  <1> QED
    BY <1>1, <1>2 DEF Permitted, EnqueueGrantTarget, Gate, RecordCommands, FileCommands, AccountCommands,
       ClientCommands, ObserverCommands, ArchiveCommands

LEMMA AccountEffects ==
    ASSUME TypeOK, NEW c \in Conns, conn[c].grant \in GrantType, AccountCommand(c) \/ Refuse(c)
    PROVE  Looks(c) \/ Edits(c)
  <1>t. /\ records \in [Accounts -> SUBSET Keys]
        /\ FirstRecords \in [Accounts -> SUBSET Keys]
    BY TypeParts, AccessAssumption
  <1>1. CASE list_accounts(c)
    BY <1>1 DEF list_accounts, Shows, Looks
  <1>2. CASE create_account(c) \/ server_stats(c) \/ Refuse(c)
    BY <1>2 DEF create_account, server_stats, Refuse, Silent, Looks
  <1>3. CASE delete_account(c)
    <2>1. PICK a \in Accounts : /\ RunsAny(c, "DELETE.ACCOUNT") /\ records' = [records EXCEPT ![a] = {}]
                                /\ Silent /\ UNCHANGED lists
      BY <1>3 DEF delete_account
    <2>2. Can(conn[c].grant, "accounts:manage")
      BY <2>1, AnyPermitted DEF AccountCommands
    <2> QED BY <2>1, <2>2 DEF Edits, Within
  <1>4. CASE export_archive(c)
    <2>1. PICK command \in ArchiveCommands \ {"IMPORT"}, a \in Accounts :
            RunsAny(c, command) /\ Shows(a) /\ UNCHANGED <<lists, records>>
      BY <1>4 DEF export_archive
    <2>2. conn[c].grant.admin
      BY <2>1, AnyPermitted
    <2> QED BY <2>1, <2>2 DEF Looks, Shows, MayReach
  <1>5. CASE import_archive(c)
    <2>1. PICK a \in Accounts :
            /\ RunsAny(c, "IMPORT") /\ records' = [records EXCEPT ![a] = @ \cup FirstRecords[a]]
            /\ Silent /\ UNCHANGED lists
      BY <1>5 DEF import_archive
    <2>2. conn[c].grant.admin
      BY <2>1, AnyPermitted DEF ArchiveCommands
    <2> DEFINE S == records[a] \cup FirstRecords[a]
    <2>3. S \in SUBSET Keys
      BY <1>t
    <2>4. records' = [records EXCEPT ![a] = S]
      BY <2>1
    <2>5. Within(c, a, S)
      BY <2>2 DEF Within, MayReach
    <2> HIDE DEF S
    <2> QED BY <2>1, <2>3, <2>4, <2>5 DEF Edits
  <1> QED BY <1>1, <1>2, <1>3, <1>4, <1>5 DEF AccountCommand

-----------------------------------------------------------------------------
(* Select lists.                                                           *)

\* A sequence is in order; one comes before the rest of another.
Ordered(s) == \A i, j \in 1..Len(s) : i < j => s[i] < s[j]
Before(h, ks, n) == \A i \in 1..Len(h), j \in 1..Len(ks) : n < j => h[i] < ks[j]

LEMMA OrderedJoin ==
    ASSUME NEW ks \in Seq(Keys), NEW h \in Seq(Keys), NEW cur \in Nat, NEW e \in Nat,
           cur <= e, e <= Len(ks), Ordered(ks), Ordered(h), Before(h, ks, cur)
    PROVE  LET hb == h \o SubSeq(ks, cur + 1, e)
           IN  hb \in Seq(Keys) /\ Ordered(hb) /\ Before(hb, ks, e) /\ Before(h, ks, e)
  <1> DEFINE b == SubSeq(ks, cur + 1, e)
             hb == h \o b
             n == e - cur
             m == Len(h)
  <1>k. Keys \subseteq Nat
    BY AccessAssumption
  <1>1. Len(ks) \in Nat /\ m \in Nat /\ n \in Nat
    BY LenProperties
  <1>2. b \in Seq(Keys) /\ Len(b) = n /\ \A i \in 1..n : b[i] = ks[cur + i]
    <2>1. cur + 1 \in 1..Len(ks) + 1 /\ e \in cur..Len(ks)
      BY <1>1
    <2>2. \A i \in 1..n : cur + 1 + i - 1 = cur + i
      BY <1>1
    <2> QED BY <2>1, <2>2, <1>1
  <1> HIDE DEF b
  <1>3. /\ hb \in Seq(Keys) /\ Len(hb) = m + n
        /\ \A i \in 1..m + n : hb[i] = IF i <= m THEN h[i] ELSE b[i - m]
    <2>1. /\ hb \in Seq(Keys) /\ Len(hb) = Len(h) + Len(b)
          /\ \A i \in 1..Len(h) + Len(b) : hb[i] = IF i <= Len(h) THEN h[i] ELSE b[i - Len(h)]
      BY <1>2, ConcatProperties, Zenon
    <2> HIDE DEF n, hb
    <2> QED BY <1>2, <2>1
  <1> HIDE DEF hb, m, n
  <1>4. /\ \A i \in 1..m : hb[i] = h[i] /\ i \in 1..Len(h)
        /\ \A i \in m + 1 .. m + n : hb[i] = ks[cur + (i - m)] /\ cur + (i - m) \in 1..Len(ks)
    <2>1. ASSUME NEW i \in m + 1 .. m + n PROVE i - m \in 1..n /\ i \in 1..m + n /\ ~(i <= m)
      BY <1>1
    <2>2. ASSUME NEW i \in 1..n PROVE cur + i \in 1..Len(ks)
      BY <1>1 DEF n
    <2>3. ASSUME NEW i \in m + 1 .. m + n PROVE hb[i] = ks[cur + (i - m)] /\ cur + (i - m) \in 1..Len(ks)
      BY <2>1, <2>2, <1>2, <1>3
    <2>4. ASSUME NEW i \in 1..m PROVE hb[i] = h[i] /\ i \in 1..Len(h)
      BY <1>1, <1>3 DEF m
    <2> QED BY <2>3, <2>4
  <1>5. \A i \in 1..Len(h) : h[i] \in Nat
    BY <1>k, ElementOfSeq
  <1>6. \A i \in 1..Len(ks) : ks[i] \in Nat
    BY <1>k, ElementOfSeq
  <1>7. ASSUME NEW i \in 1..m + n, NEW j \in 1..m + n, i < j PROVE hb[i] < hb[j]
    <2>1. CASE j <= m
      <3>1. i \in 1..m /\ j \in 1..m
        BY <2>1, <1>1, <1>7
      <3> QED BY <3>1, <1>4, <1>7 DEF Ordered
    <2>2. CASE i <= m /\ j > m
      <3>1. i \in 1..m /\ j \in m + 1 .. m + n /\ cur < cur + (j - m)
        BY <2>2, <1>1
      <3> QED BY <3>1, <1>4 DEF Before
    <2>3. CASE i > m /\ j > m
      <3>1. i \in m + 1 .. m + n /\ j \in m + 1 .. m + n /\ cur + (i - m) < cur + (j - m)
        BY <2>3, <1>1, <1>7
      <3> QED BY <3>1, <1>4 DEF Ordered
    <2> QED BY <2>1, <2>2, <2>3, <1>1, <1>7
  <1>8. ASSUME NEW i \in 1..m + n, NEW j \in 1..Len(ks), e < j PROVE hb[i] < ks[j]
    <2>1. CASE i <= m
      <3>1. i \in 1..m /\ cur < j
        BY <2>1, <1>1, <1>8
      <3> QED BY <3>1, <1>4 DEF Before
    <2>2. CASE i > m
      <3>1. i \in m + 1 .. m + n /\ cur + (i - m) < j
        BY <2>2, <1>1, <1>8 DEF n
      <3> QED BY <3>1, <1>4 DEF Ordered
    <2> QED BY <2>1, <2>2, <1>1
  <1>9. Before(h, ks, e)
    <2>1. \A j \in 1..Len(ks) : e < j => cur < j
      BY <1>1
    <2> QED BY <2>1 DEF Before
  <1>10. Ordered(hb) /\ Before(hb, ks, e)
    BY <1>3, <1>7, <1>8 DEF Ordered, Before
  <1> QED BY <1>3, <1>9, <1>10 DEF hb, b

\* A list is in order, what it has handed out is, and all of that comes before
\* what it has still to hand out: the strengthening that makes EveryEntryOnce
\* inductive.
InOrderSoFar(L) ==
    /\ L.cursor <= Len(L.keys)
    /\ Ordered(L.keys) /\ Ordered(L.handed)
    /\ Before(L.handed, L.keys, L.cursor)

ListsInv == \A l \in ListNames : lists[l] # None => InOrderSoFar(lists[l])

LEMMA NewListInOrder ==
    ASSUME NEW a \in Accounts, NEW S \in SUBSET Keys, NEW keys \in InOrder(S)
    PROVE  NewList(a, keys) \in SelectLists /\ InOrderSoFar(NewList(a, keys))
  <1>1. Cardinality(S) \in Nat
    BY AccessAssumption, FS_Subset, FS_CardinalityType
  <1>2. /\ keys \in [1..Cardinality(S) -> S]
        /\ \A i, j \in DOMAIN keys : i < j => keys[i] < keys[j]
    BY DEF InOrder
  <1>3. keys \in Seq(Keys) /\ Len(keys) = Cardinality(S) /\ DOMAIN keys = 1..Len(keys)
    BY <1>1, <1>2
  <1>4. /\ NewList(a, keys).account = a /\ NewList(a, keys).cursor = 0
        /\ NewList(a, keys).handed = <<>> /\ NewList(a, keys).keys = keys
    BY DEF NewList
  <1>5. NewList(a, keys) \in SelectLists
    BY <1>3 DEF NewList, SelectLists
  <1>6. Ordered(keys) /\ Ordered(<<>>) /\ Before(<<>>, keys, 0) /\ 0 <= Len(keys)
    BY <1>1, <1>2, <1>3 DEF Ordered, Before
  <1> QED BY <1>4, <1>5, <1>6 DEF InOrderSoFar

\* Paging on keeps the order, whether the batch is handed out or lost.
LEMMA PagedInOrder ==
    ASSUME NEW L \in SelectLists, InOrderSoFar(L), NEW e \in Nat, L.cursor <= e, e <= Len(L.keys)
    PROVE  /\ [L EXCEPT !.cursor = e] \in SelectLists
           /\ InOrderSoFar([L EXCEPT !.cursor = e])
           /\ [L EXCEPT !.cursor = e, !.handed = @ \o SubSeq(L.keys, L.cursor + 1, e)] \in SelectLists
           /\ InOrderSoFar([L EXCEPT !.cursor = e, !.handed = @ \o SubSeq(L.keys, L.cursor + 1, e)])
  <1>1. /\ L.account \in Accounts /\ L.cursor \in Nat /\ L.handed \in Seq(Keys) /\ L.keys \in Seq(Keys)
    BY DEF SelectLists
  <1> DEFINE hb == L.handed \o SubSeq(L.keys, L.cursor + 1, e)
             M == [L EXCEPT !.cursor = e, !.handed = hb]
             N == [L EXCEPT !.cursor = e]
  <1>2. hb \in Seq(Keys) /\ Ordered(hb) /\ Before(hb, L.keys, e) /\ Before(L.handed, L.keys, e)
    BY <1>1, OrderedJoin DEF InOrderSoFar
  <1> HIDE DEF hb
  <1>3. /\ M \in SelectLists
        /\ M.cursor = e /\ M.keys = L.keys /\ M.handed = hb
    BY <1>1, <1>2 DEF SelectLists
  <1>4. /\ N \in SelectLists
        /\ N.cursor = e /\ N.keys = L.keys /\ N.handed = L.handed
    BY <1>1 DEF SelectLists
  <1> HIDE DEF M, N
  <1>5. InOrderSoFar(M) /\ InOrderSoFar(N)
    BY <1>2, <1>3, <1>4 DEF InOrderSoFar
  <1> QED BY <1>3, <1>4, <1>5 DEF M, N, hb

\* What SELECT and GET.NEXT do: nothing, or to one list of an account within
\* reach, which is all they may show of.
Pages(c) ==
    /\ UNCHANGED records /\ changed' = None
    /\ \/ UNCHANGED lists /\ shown' = None
       \/ \E l \in ListNames, L \in SelectLists :
            /\ lists' = [lists EXCEPT ![l] = L]
            /\ InOrderSoFar(L)
            /\ MayReach(conn[c].grant, L.account)
            /\ shown' \in {None, L.account}

LEMMA SelectPages ==
    ASSUME TypeOK, NEW c \in Conns, conn[c].grant \in GrantType, Select(c)
    PROVE  Pages(c)
  <1>1. PICK r \in Asking({"SELECT"}), l \in ListNames :
          /\ Runs(c, r)
          /\ \E keys \in InOrder(records[Account(c, r)]) :
               lists' = [lists EXCEPT ![l] = NewList(Account(c, r), keys)]
          /\ Shows(Account(c, r))
          /\ UNCHANGED records
    BY DEF Select
  <1>2. PICK a : a = Account(c, r)
    OBVIOUS
  <1>3. PICK keys \in InOrder(records[a]) : lists' = [lists EXCEPT ![l] = NewList(a, keys)]
    BY <1>1, <1>2
  <1>4. r \in Asking(RecordCommands \cup FileCommands) /\ r.command = "SELECT"
    BY DEF Asking, FileCommands
  <1>5. Permitted(r, conn[c].grant) /\ a = TargetAccount(r, conn[c].grant)
    BY <1>1, <1>2 DEF Runs, Allowed, Account
  <1>6. a \in Accounts /\ MayReach(conn[c].grant, a)
    BY <1>4, <1>5, TargetReached
  <1>7. records[a] \in SUBSET Keys
    BY <1>6, TypeParts
  <1>8. NewList(a, keys) \in SelectLists /\ InOrderSoFar(NewList(a, keys))
    BY <1>6, <1>7, NewListInOrder
  <1>9. NewList(a, keys).account = a
    BY DEF NewList
  <1> QED BY <1>1, <1>2, <1>3, <1>6, <1>8, <1>9 DEF Pages, Shows

LEMMA GetNextPages ==
    ASSUME TypeOK, ListsInv, NEW c \in Conns, GetNext(c)
    PROVE  Pages(c)
  <1>1. PICK r \in Asking({"GET.NEXT"}), l \in ListNames, size \in Batches :
          /\ \/ /\ MayReadList(c, r, l) /\ HandOut(l, size)
                /\ IF SomeRecord(l, size) THEN Shows(lists[l].account) ELSE Silent
             \/ /\ MayReadList(c, r, l) /\ lists[l].cursor < Len(lists[l].keys)
                /\ lists' = [lists EXCEPT ![l].cursor = BatchEnd(l, size)]
                /\ Silent
             \/ ~MayReadList(c, r, l) /\ UNCHANGED lists /\ Silent
          /\ UNCHANGED records
    BY DEF GetNext
  <1>2. CASE ~MayReadList(c, r, l)
    BY <1>1, <1>2 DEF Pages, Silent
  <1>3. CASE MayReadList(c, r, l)
    <2> DEFINE L == lists[l]
               e == BatchEnd(l, size)
               M == [L EXCEPT !.cursor = e, !.handed = @ \o SubSeq(L.keys, L.cursor + 1, e)]
               N == [L EXCEPT !.cursor = e]
    <2>1. L # None /\ MayReach(conn[c].grant, L.account)
      BY <1>3 DEF MayReadList
    <2>2. L \in SelectLists /\ InOrderSoFar(L) /\ lists \in [ListNames -> SelectLists \cup {None}]
      BY <2>1, TypeParts DEF ListsInv
    <2>3. L.cursor \in Nat /\ L.keys \in Seq(Keys) /\ Len(L.keys) \in Nat /\ size \in Nat
      BY <2>2, AccessAssumption, LenProperties DEF SelectLists
    <2>4. L.cursor <= Len(L.keys)
      BY <2>2 DEF InOrderSoFar
    <2>5. e \in Nat /\ L.cursor <= e /\ e <= Len(L.keys)
      BY <2>3, <2>4 DEF BatchEnd
    <2>6. /\ M \in SelectLists /\ InOrderSoFar(M)
          /\ N \in SelectLists /\ InOrderSoFar(N)
      <3> HIDE DEF e, L
      <3> QED BY <2>2, <2>5, PagedInOrder
    <2>7. M.account = L.account /\ N.account = L.account
      BY <2>2 DEF SelectLists
    <2>8. CASE HandOut(l, size) /\ IF SomeRecord(l, size) THEN Shows(lists[l].account) ELSE Silent
      <3>1. lists' = [lists EXCEPT ![l] = M]
        BY <2>8, <2>2 DEF HandOut, Batch
      <3>2. shown' \in {None, L.account} /\ changed' = None
        BY <2>8 DEF Shows, Silent
      <3> HIDE DEF M, N, L
      <3> QED BY <1>1, <2>1, <2>6, <2>7, <3>1, <3>2 DEF Pages
    <2>9. CASE lists' = [lists EXCEPT ![l].cursor = BatchEnd(l, size)] /\ Silent
      <3>1. lists' = [lists EXCEPT ![l] = N]
        BY <2>9, <2>2
      <3> HIDE DEF M, N, L
      <3> QED BY <1>1, <2>1, <2>6, <2>7, <2>9, <3>1 DEF Pages, Silent
    <2> QED BY <1>1, <1>3, <2>8, <2>9
  <1> QED BY <1>2, <1>3

-----------------------------------------------------------------------------
(* The inductive invariant.                                                *)

\* The grant a request is about to be given, and the one it was given, are
\* grants its client held since the request was read.
GrantInv(c) ==
    /\ conn[c].at = "dispatch" => registry[c] \in held[c]
    /\ conn[c].at = "lock" => conn[c].grant # None /\ conn[c].grant \in held[c]

IInv ==
    /\ TypeOK
    /\ ListsInv
    /\ RegistryFollows
    /\ \A c \in Conns : GrantInv(c)

\* What the requests, the clients and the files each have to keep.
RequestTypes ==
    /\ conn \in [Conns -> [at : {"idle", "dispatch", "lock"}, grant : GrantType \cup {None}]]
    /\ held \in [Conns -> SUBSET (GrantType \cup {None})]
ClientTypes ==
    /\ table \in Clients /\ saved \in Clients
    /\ certs \subseteq Conns /\ changes \in 0..MaxChanges
    /\ registry \in [Conns -> GrantType \cup {None}]
    /\ astray \in BOOLEAN /\ revoked \subseteq Conns
DataTypes ==
    /\ lists \in [ListNames -> SelectLists \cup {None}]
    /\ records \in [Accounts -> SUBSET Keys]
    /\ shown \in Accounts \cup {None} /\ changed \in Accounts \cup {None}

LEMMA TypeGroups ==
    ASSUME ListsInv
    PROVE  TypeOK <=> RequestTypes /\ ClientTypes /\ DataTypes
  <1>1. \A l \in ListNames : lists[l] # None => lists[l].cursor <= Len(lists[l].keys)
    BY DEF ListsInv, InOrderSoFar
  <1> QED BY <1>1, TypeParts DEF RequestTypes, ClientTypes, DataTypes, Clients

LEMMA InitHolds ==
    ASSUME Init
    PROVE  IInv
  <1>1. ListsInv
    BY DEF Init, ListsInv
  <1>2. FirstClients \in Clients /\ FirstRecords \in [Accounts -> SUBSET Keys] /\ MaxChanges \in Nat
    BY AccessAssumption DEF Clients
  <1>3. registry \in [Conns -> GrantType \cup {None}]
    BY <1>2, LoadsGive DEF Init, Clients
  <1>4. certs \subseteq Conns
    BY <1>2 DEF Init, Thumbs, Clients
  <1>5. ClientTypes
    <2>1. table = FirstClients /\ saved = table /\ changes = 0 /\ astray = FALSE /\ revoked = {}
      BY DEF Init
    <2>2. changes \in 0..MaxChanges
      BY <2>1, <1>2
    <2> QED BY <2>1, <2>2, <1>2, <1>3, <1>4 DEF ClientTypes
  <1>6. RequestTypes /\ DataTypes
    BY <1>2 DEF Init, Idle, RequestTypes, DataTypes
  <1>7. RegistryFollows /\ \A c \in Conns : GrantInv(c)
    BY DEF Init, Idle, RegistryFollows, GrantInv
  <1> QED BY <1>1, <1>5, <1>6, <1>7, TypeGroups DEF IInv

\* The part of the invariant about lists and files.
LEMMA DataStep ==
    ASSUME IInv, NEW c \in Conns, conn[c].at = "lock", Other(c)
    PROVE  DataTypes' /\ ListsInv' /\ (Looks(c) \/ Edits(c) \/ Pages(c))
  <1>1. TypeOK /\ ListsInv /\ DataTypes
    BY TypeGroups DEF IInv
  <1>2. conn[c].grant \in GrantType
    BY <1>1, TypeParts DEF IInv, GrantInv
  <1>3. Looks(c) \/ Edits(c) \/ Pages(c)
    BY <1>1, <1>2, RecordEffects, AccountEffects, SelectPages, GetNextPages DEF Other
  <1>4. CASE Looks(c)
    BY <1>1, <1>4 DEF Looks, DataTypes, ListsInv
  <1>5. CASE Edits(c)
    BY <1>1, <1>5 DEF Edits, Silent, DataTypes, ListsInv
  <1>6. CASE Pages(c)
    <2>1. CASE UNCHANGED lists /\ shown' = None
      BY <1>1, <1>6, <2>1 DEF Pages, DataTypes, ListsInv
    <2>2. CASE \E l \in ListNames, L \in SelectLists :
                 /\ lists' = [lists EXCEPT ![l] = L]
                 /\ InOrderSoFar(L)
                 /\ shown' \in {None, L.account}
      <3>1. PICK l \in ListNames, L \in SelectLists :
              /\ lists' = [lists EXCEPT ![l] = L]
              /\ InOrderSoFar(L)
              /\ shown' \in {None, L.account}
        BY <2>2
      <3>2. L.account \in Accounts
        BY DEF SelectLists
      <3>3. DataTypes'
        BY <1>1, <1>6, <3>1, <3>2 DEF Pages, DataTypes
      <3>4. \A m \in ListNames : lists'[m] = IF m = l THEN L ELSE lists[m]
        BY <1>1, <3>1 DEF DataTypes
      <3>5. ListsInv'
        BY <1>1, <3>1, <3>4 DEF ListsInv
      <3> QED BY <3>3, <3>5, <1>3
    <2> QED BY <1>6, <2>1, <2>2 DEF Pages
  <1> QED BY <1>3, <1>4, <1>5, <1>6

\* Loading the registry keeps every request to a grant its client held.
LEMMA LoadStep ==
    ASSUME IInv, NEW c \in Conns, NEW t \in Clients, Answered(c), Load(t)
    PROVE  /\ registry' \in [Conns -> GrantType \cup {None}]
           /\ registry' \in Loads(t)
           /\ held' \in [Conns -> SUBSET (GrantType \cup {None})]
           /\ \A d \in Conns : GrantInv(d)'
  <1>1. PICK r \in Loads(t) :
          /\ registry' = r
          /\ held' = [d \in Conns |-> IF conn'[d].at = "idle" THEN {} ELSE held[d] \cup {r[d]}]
    BY DEF Load
  <1>2. r \in [Conns -> GrantType \cup {None}]
    BY LoadsGive DEF Clients
  <1>3. /\ conn \in [Conns -> [at : {"idle", "dispatch", "lock"}, grant : GrantType \cup {None}]]
        /\ held \in [Conns -> SUBSET (GrantType \cup {None})]
    BY TypeParts DEF IInv
  <1>4. held' \in [Conns -> SUBSET (GrantType \cup {None})]
    BY <1>1, <1>2, <1>3
  <1>5. ASSUME NEW d \in Conns PROVE GrantInv(d)'
    <2>1. GrantInv(d)
      BY DEF IInv
    <2>2. conn'[d] = IF d = c THEN Idle ELSE conn[d]
      BY <1>3 DEF Answered
    <2>3. held'[d] = IF conn'[d].at = "idle" THEN {} ELSE held[d] \cup {r[d]}
      BY <1>1
    <2> QED BY <1>1, <2>1, <2>2, <2>3 DEF GrantInv, Idle
  <1> QED BY <1>1, <1>2, <1>4, <1>5

\* So does an answer that leaves the registry alone.
LEMMA ForgetStep ==
    ASSUME IInv, NEW c \in Conns, Answered(c), Forget(c), UNCHANGED registry
    PROVE  /\ held' \in [Conns -> SUBSET (GrantType \cup {None})]
           /\ \A d \in Conns : GrantInv(d)'
  <1>3. /\ conn \in [Conns -> [at : {"idle", "dispatch", "lock"}, grant : GrantType \cup {None}]]
        /\ held \in [Conns -> SUBSET (GrantType \cup {None})]
    BY TypeParts DEF IInv
  <1>4. held' \in [Conns -> SUBSET (GrantType \cup {None})]
    BY <1>3 DEF Forget
  <1>5. ASSUME NEW d \in Conns PROVE GrantInv(d)'
    <2>1. GrantInv(d)
      BY DEF IInv
    <2>2. conn'[d] = IF d = c THEN Idle ELSE conn[d]
      BY <1>3 DEF Answered
    <2>3. held'[d] = IF d = c THEN {} ELSE held[d]
      BY <1>3 DEF Forget
    <2> QED BY <2>1, <2>2, <2>3 DEF GrantInv, Idle
  <1> QED BY <1>4, <1>5

LEMMA AnsweredTypes ==
    ASSUME TypeOK, NEW c \in Conns, Answered(c)
    PROVE  conn' \in [Conns -> [at : {"idle", "dispatch", "lock"}, grant : GrantType \cup {None}]]
  BY TypeParts DEF Answered, Idle

LEMMA StepHolds ==
    ASSUME IInv, [Next]_vars
    PROVE  IInv'
  <1>t. TypeOK /\ ListsInv /\ RegistryFollows /\ RequestTypes /\ ClientTypes /\ DataTypes
    BY TypeGroups DEF IInv
  <1>g. ASSUME ListsInv', RequestTypes', ClientTypes', DataTypes', RegistryFollows',
               \A d \in Conns : GrantInv(d)'
        PROVE  IInv'
    <2>1. TypeOK'
      BY <1>g, TypeGroups, PTL
    <2> QED BY <1>g, <2>1 DEF IInv
  <1>c. ASSUME UNCHANGED regVars PROVE ClientTypes' /\ RegistryFollows'
    BY <1>c, <1>t DEF regVars, ClientTypes, RegistryFollows
  <1>d. ASSUME UNCHANGED <<lists, records>>, Silent PROVE DataTypes' /\ ListsInv'
    BY <1>d, <1>t DEF DataTypes, ListsInv, Silent
  <1>1. ASSUME NEW c \in Conns, ReadRequest(c) PROVE IInv'
    <2>1. /\ conn' = [conn EXCEPT ![c].at = "dispatch"] /\ held' = [held EXCEPT ![c] = {registry[c]}]
          /\ Silent /\ UNCHANGED regVars /\ UNCHANGED <<lists, records>>
      BY <1>1 DEF ReadRequest
    <2>2. RequestTypes'
      BY <2>1, <1>t DEF RequestTypes, ClientTypes
    <2>3. ASSUME NEW d \in Conns PROVE GrantInv(d)'
      <3>1. GrantInv(d)
        BY DEF IInv
      <3>2. /\ conn'[d].at = IF d = c THEN "dispatch" ELSE conn[d].at
            /\ conn'[d].grant = conn[d].grant
            /\ held'[d] = IF d = c THEN {registry[d]} ELSE held[d]
            /\ registry' = registry
        BY <2>1, <1>t DEF RequestTypes, regVars
      <3> QED BY <3>1, <3>2 DEF GrantInv
    <2> QED BY <2>1, <2>2, <2>3, <1>c, <1>d, <1>g
  <1>2. ASSUME NEW c \in Conns, Dispatch(c) PROVE IInv'
    <2>1. conn[c].at = "dispatch" /\ Silent /\ UNCHANGED regVars /\ UNCHANGED <<lists, records>>
      BY <1>2 DEF Dispatch
    <2>2. CASE Answered(c) /\ Forget(c)
      <3>1. RequestTypes' /\ \A d \in Conns : GrantInv(d)'
        BY <2>1, <2>2, <1>t, ForgetStep, AnsweredTypes DEF RequestTypes, regVars
      <3> QED BY <2>1, <3>1, <1>c, <1>d, <1>g
    <2>3. CASE /\ registry[c] # None /\ UNCHANGED held
               /\ conn' = [conn EXCEPT ![c] = [at |-> "lock", grant |-> registry[c]]]
      <3>1. RequestTypes'
        BY <2>3, <1>t DEF RequestTypes, ClientTypes
      <3>2. ASSUME NEW d \in Conns PROVE GrantInv(d)'
        <4>1. GrantInv(d)
          BY DEF IInv
        <4>2. /\ conn'[d] = IF d = c THEN [at |-> "lock", grant |-> registry[c]] ELSE conn[d]
              /\ held' = held /\ registry' = registry
          BY <2>1, <2>3, <1>t DEF RequestTypes, regVars
        <4> QED BY <4>1, <4>2, <2>1, <2>3 DEF GrantInv
      <3> QED BY <2>1, <3>1, <3>2, <1>c, <1>d, <1>g
    <2> QED BY <1>2, <2>2, <2>3 DEF Dispatch, client_for_thumbprint
  <1>3. ASSUME NEW c \in Conns, conn[c].at = "lock", Other(c) PROVE IInv'
    <2>1. Answered(c) /\ Forget(c) /\ UNCHANGED regVars
      BY <1>3, OtherAnswers
    <2>2. RequestTypes' /\ \A d \in Conns : GrantInv(d)'
      BY <2>1, <1>t, ForgetStep, AnsweredTypes DEF RequestTypes, regVars
    <2>3. DataTypes' /\ ListsInv'
      BY <1>3, DataStep
    <2> QED BY <2>1, <2>2, <2>3, <1>c, <1>g
  <1>4. ASSUME NEW c \in Conns, Administers(c) PROVE IInv'
    <2>1. Answered(c) /\ Silent /\ UNCHANGED <<lists, records>>
      BY <1>4, AdministersAnswers
    <2>2. changes' \in 0..MaxChanges /\ revoked' \subseteq Conns
      BY <1>4, <1>t, TableMoves
    <2>3. conn' \in [Conns -> [at : {"idle", "dispatch", "lock"}, grant : GrantType \cup {None}]]
      BY <2>1, <1>t, AnsweredTypes
    <2>4. DataTypes' /\ ListsInv'
      BY <2>1, <1>d
    <2>5. ASSUME NEW t \in Clients, StoredAs(t), certs' = {d \in Conns : registry'[d] # None} \/ UNCHANGED certs
          PROVE  IInv'
      <3>1. Load(t) /\ table' = t /\ saved' = t /\ astray' = FALSE
        BY <2>5 DEF StoredAs
      <3>2. /\ registry' \in [Conns -> GrantType \cup {None}] /\ registry' \in Loads(t)
            /\ held' \in [Conns -> SUBSET (GrantType \cup {None})] /\ \A d \in Conns : GrantInv(d)'
        BY <2>1, <3>1, LoadStep
      <3>3. ClientTypes' /\ RequestTypes'
        BY <2>2, <2>3, <2>5, <3>1, <3>2, <1>t DEF ClientTypes, RequestTypes
      <3>4. RegistryFollows'
        BY <3>1, <3>2 DEF RegistryFollows
      <3> QED BY <2>4, <3>2, <3>3, <3>4, <1>g
    <2>6. ASSUME NEW t \in Clients, Unsaved(c, t) PROVE IInv'
      <3>1. Forget(c) /\ table' = t /\ UNCHANGED <<saved, registry, certs>> /\ astray' = TRUE
        BY <2>6 DEF Unsaved
      <3>2. held' \in [Conns -> SUBSET (GrantType \cup {None})] /\ \A d \in Conns : GrantInv(d)'
        BY <2>1, <3>1, ForgetStep
      <3>3. ClientTypes' /\ RequestTypes'
        BY <2>2, <2>3, <3>1, <3>2, <1>t DEF ClientTypes, RequestTypes
      <3>4. RegistryFollows'
        BY <3>1 DEF RegistryFollows
      <3> QED BY <2>4, <3>2, <3>3, <3>4, <1>g
    <2>7. CASE Forget(c) /\ UNCHANGED <<table, saved, certs, registry, astray>>
      <3>2. held' \in [Conns -> SUBSET (GrantType \cup {None})] /\ \A d \in Conns : GrantInv(d)'
        BY <2>1, <2>7, ForgetStep
      <3>3. ClientTypes' /\ RequestTypes'
        BY <2>2, <2>3, <2>7, <3>2, <1>t DEF ClientTypes, RequestTypes
      <3>4. RegistryFollows'
        BY <2>7, <1>t DEF RegistryFollows
      <3> QED BY <2>4, <3>2, <3>3, <3>4, <1>g
    <2>8. CASE Load(table) /\ astray' = FALSE /\ UNCHANGED <<table, saved, certs>>
      <3>1. table \in Clients
        BY <1>t DEF ClientTypes
      <3>2. /\ registry' \in [Conns -> GrantType \cup {None}] /\ registry' \in Loads(table)
            /\ held' \in [Conns -> SUBSET (GrantType \cup {None})] /\ \A d \in Conns : GrantInv(d)'
        BY <2>1, <2>8, <3>1, LoadStep
      <3>3. ClientTypes' /\ RequestTypes'
        BY <2>2, <2>3, <2>8, <3>2, <1>t DEF ClientTypes, RequestTypes
      <3>4. RegistryFollows'
        BY <2>8, <3>2 DEF RegistryFollows
      <3> QED BY <2>4, <3>2, <3>3, <3>4, <1>g
    <2> QED BY <1>4, <1>t, <2>5, <2>6, <2>7, <2>8, TableMoves
  <1>5. CASE OtherProcess
    <2>1. PICK n \in GivenNames, entry \in [thumb : Conns, grant : Grants] \cup {None} :
            /\ changes < MaxChanges /\ changes' = changes + 1
            /\ saved' = [saved EXCEPT ![n] = entry]
            /\ table' = saved' /\ certs' = Thumbs(saved')
            /\ revoked' = revoked \ Thumbs(saved') /\ astray' = TRUE
            /\ Silent /\ UNCHANGED <<lists, records>> /\ UNCHANGED <<conn, held, registry>>
      BY <1>5 DEF OtherProcess
    <2>2. Grants \subseteq GrantType /\ GivenNames \subseteq Names /\ MaxChanges \in Nat
      BY AccessAssumption
    <2>3. saved' \in Clients
      BY <2>1, <2>2, <1>t DEF ClientTypes, Clients
    <2>4. \A t \in Clients : Thumbs(t) \subseteq Conns
      BY DEF Clients, Thumbs
    <2>5. changes' \in 0..MaxChanges
      BY <2>1, <2>2, <1>t DEF ClientTypes
    <2>6. ClientTypes'
      BY <2>1, <2>3, <2>4, <2>5, <1>t DEF ClientTypes
    <2>7. RequestTypes' /\ RegistryFollows'
      BY <2>1, <1>t DEF RequestTypes, RegistryFollows
    <2>8. \A e \in Conns : GrantInv(e)'
      BY <2>1 DEF IInv, GrantInv
    <2> QED BY <2>1, <2>6, <2>7, <2>8, <1>d, <1>g
  <1>6. CASE Restart
    <2>1. /\ table' = [n \in Names |->
                   IF \E c \in Unlisted : MigratedName[c] = n
                   THEN [thumb |-> CHOOSE c \in Unlisted : MigratedName[c] = n, grant |-> Admin]
                   ELSE saved[n]]
          /\ saved' = table' /\ certs' = {} /\ registry' \in Loads(table') /\ astray' = FALSE
          /\ conn' = [c \in Conns |-> Idle] /\ held' = [c \in Conns |-> {}]
          /\ lists' = [l \in ListNames |-> None] /\ Silent /\ UNCHANGED <<records, changes, revoked>>
      BY <1>6 DEF Restart
    <2>2. Admin \in GrantType
      BY DEF Admin, GrantType
    <2>3. Unlisted \subseteq Conns
      BY <1>t DEF Unlisted, ClientTypes
    <2>4. table' \in Clients
      BY <2>1, <2>2, <2>3, <1>t DEF ClientTypes, Clients
    <2>5. registry' \in [Conns -> GrantType \cup {None}]
      BY <2>1, <2>4, LoadsGive DEF Clients
    <2>6. ClientTypes'
      BY <2>1, <2>4, <2>5, <1>t DEF ClientTypes
    <2>7. RequestTypes' /\ RegistryFollows'
      BY <2>1 DEF RequestTypes, RegistryFollows, Idle
    <2>8. \A e \in Conns : GrantInv(e)'
      BY <2>1 DEF GrantInv, Idle
    <2>9. DataTypes' /\ ListsInv'
      BY <2>1, <1>t DEF DataTypes, ListsInv, Silent
    <2> QED BY <2>6, <2>7, <2>8, <2>9, <1>g
  <1>7. CASE UNCHANGED vars
    <2>1. UNCHANGED regVars /\ UNCHANGED <<conn, lists, records, held, shown, changed>>
      BY <1>7 DEF vars
    <2>2. RequestTypes' /\ DataTypes' /\ ListsInv'
      BY <2>1, <1>t DEF RequestTypes, DataTypes, ListsInv
    <2>3. \A e \in Conns : GrantInv(e)'
      BY <2>1 DEF IInv, GrantInv, regVars
    <2> QED BY <2>1, <2>2, <2>3, <1>c, <1>g
  <1> QED BY <1>1, <1>2, <1>3, <1>4, <1>5, <1>6, <1>7, StepKinds

-----------------------------------------------------------------------------
(* The theorems.                                                           *)

LEMMA InvHolds == Spec => []IInv
  BY InitHolds, StepHolds, PTL DEF Spec

\* Every variable of the server's access control keeps to its type, whatever
\* the commands, the other process and the restarts do.
THEOREM TypeCorrect == Spec => []TypeOK
  <1>1. IInv => TypeOK
    BY DEF IInv
  <1> QED BY <1>1, InvHolds, PTL

\* dispatch reads the grant, lets the lock go and takes it again: however many
\* commands run in between, a request runs with a grant its client held at some
\* moment since the request was read.
THEOREM GrantsFresh == Spec => []GrantWasHeld
  <1>1. IInv => GrantWasHeld
    BY DEF IInv, GrantInv, GrantWasHeld
  <1> QED BY <1>1, InvHolds, PTL

\* Unless a save has failed or another process has written $CLIENTS, the map
\* connections are looked up in is what load_clients_from_table makes of it.
THEOREM RegistryKept == Spec => []RegistryFollows
  <1>1. IInv => RegistryFollows
    BY DEF IInv
  <1> QED BY <1>1, InvHolds, PTL

\* GET.NEXT hands out no entry of a select list twice, for any number of clients
\* that page and replace the same lists with any batch sizes.
THEOREM EntriesOnce == Spec => []EveryEntryOnce
  <1>1. ASSUME IInv PROVE EveryEntryOnce
    <2>1. ASSUME NEW l \in ListNames, lists[l] # None
          PROVE  \A i, j \in DOMAIN lists[l].handed : i < j => lists[l].handed[i] < lists[l].handed[j]
      <3>1. lists[l] \in SelectLists /\ InOrderSoFar(lists[l])
        BY <1>1, <2>1, TypeParts DEF IInv, ListsInv
      <3>2. lists[l].handed \in Seq(Keys)
        BY <3>1 DEF SelectLists
      <3>3. DOMAIN lists[l].handed = 1..Len(lists[l].handed)
        BY <3>2, LenProperties
      <3> QED BY <3>1, <3>3 DEF InOrderSoFar, Ordered
    <2> QED BY <2>1 DEF EveryEntryOnce
  <1> QED BY <1>1, InvHolds, PTL

-----------------------------------------------------------------------------
(* Confinement.                                                            *)

\* What Confined asks of the end of one request.
ConfinedTo(g) ==
    /\ shown' # None => MayReach(g, shown') \/ MayEnqueue(g, shown')
    /\ changed' # None => MayReach(g, changed')
    /\ \A a \in Accounts : records'[a] # records[a] =>
         \/ MayReach(g, a)
         \/ MayEnqueue(g, a) /\ records[a] \subseteq records'[a]
         \/ Can(g, "accounts:manage") /\ records'[a] = {}
    /\ \A l \in ListNames : lists'[l] # lists[l] /\ lists'[l] # None =>
         MayReach(g, lists'[l].account) /\ (shown' # None => shown' = lists'[l].account)

\* A command that leaves files and lists alone and shows nothing is confined to
\* any grant.
LEMMA NothingShown ==
    ASSUME NEW g, Silent, UNCHANGED records,
           UNCHANGED lists \/ \A l \in ListNames : lists'[l] = None
    PROVE  ConfinedTo(g)
  BY DEF Silent, ConfinedTo

LEMMA EffectsConfined ==
    ASSUME IInv, NEW c \in Conns, Looks(c) \/ Edits(c) \/ Pages(c)
    PROVE  ConfinedTo(conn[c].grant)
  <1>t. /\ records \in [Accounts -> SUBSET Keys]
        /\ lists \in [ListNames -> SelectLists \cup {None}]
    BY TypeParts DEF IInv
  <1>1. PICK g : g = conn[c].grant
    OBVIOUS
  <1>2. CASE Looks(c)
    BY <1>1, <1>2 DEF Looks, ConfinedTo
  <1>3. CASE Edits(c)
    <2>1. PICK a \in Accounts, S \in SUBSET Keys :
            records' = [records EXCEPT ![a] = S] /\ Within(c, a, S) /\ Silent /\ UNCHANGED lists
      BY <1>3 DEF Edits
    <2>2. \A b \in Accounts : records'[b] = IF b = a THEN S ELSE records[b]
      BY <2>1, <1>t
    <2>3. ASSUME NEW b \in Accounts, records'[b] # records[b]
          PROVE  \/ MayReach(g, b)
                 \/ MayEnqueue(g, b) /\ records[b] \subseteq records'[b]
                 \/ Can(g, "accounts:manage") /\ records'[b] = {}
      <3>1. b = a /\ records'[b] = S
        BY <2>2, <2>3
      <3> QED BY <2>1, <3>1, <1>1 DEF Within
    <2> QED BY <2>1, <2>3, <1>1 DEF ConfinedTo, Silent
  <1>4. CASE Pages(c)
    <2>1. CASE UNCHANGED lists /\ shown' = None
      BY <1>4, <2>1 DEF Pages, ConfinedTo
    <2>2. CASE \E l \in ListNames, L \in SelectLists :
                 /\ lists' = [lists EXCEPT ![l] = L]
                 /\ MayReach(conn[c].grant, L.account)
                 /\ shown' \in {None, L.account}
      <3>1. PICK l \in ListNames, L \in SelectLists :
                 /\ lists' = [lists EXCEPT ![l] = L]
                 /\ MayReach(conn[c].grant, L.account)
                 /\ shown' \in {None, L.account}
        BY <2>2
      <3>2. \A m \in ListNames : lists'[m] # lists[m] => m = l /\ lists'[m] = L
        BY <1>t, <3>1
      <3>3. UNCHANGED records /\ changed' = None
        BY <1>4 DEF Pages
      <3> QED BY <1>1, <3>1, <3>2, <3>3 DEF ConfinedTo
    <2> QED BY <1>4, <2>1, <2>2 DEF Pages
  <1> QED BY <1>2, <1>3, <1>4

LEMMA StepConfined ==
    ASSUME IInv, Next, NEW c \in Conns, conn[c].at = "lock", conn'[c].at = "idle"
    PROVE  ConfinedTo(conn[c].grant)
  <1>t. conn \in [Conns -> [at : {"idle", "dispatch", "lock"}, grant : GrantType \cup {None}]]
    BY TypeParts DEF IInv
  <1>1. ASSUME NEW d \in Conns, ReadRequest(d) PROVE ConfinedTo(conn[c].grant)
    BY <1>1, NothingShown DEF ReadRequest
  <1>2. ASSUME NEW d \in Conns, Dispatch(d) PROVE ConfinedTo(conn[c].grant)
    BY <1>2, NothingShown DEF Dispatch
  <1>3. ASSUME NEW d \in Conns, conn[d].at = "lock", Other(d) PROVE ConfinedTo(conn[c].grant)
    <2>1. Answered(d) /\ (Looks(d) \/ Edits(d) \/ Pages(d))
      BY <1>3, OtherAnswers, DataStep
    <2>2. c = d
      BY <1>t, <2>1 DEF Answered
    <2> QED BY <2>1, <2>2, EffectsConfined
  <1>4. ASSUME NEW d \in Conns, Administers(d) PROVE ConfinedTo(conn[c].grant)
    BY <1>4, AdministersAnswers, NothingShown
  <1>5. CASE OtherProcess
    BY <1>5, NothingShown DEF OtherProcess
  <1>6. CASE Restart
    BY <1>6, NothingShown DEF Restart
  <1> QED BY <1>1, <1>2, <1>3, <1>4, <1>5, <1>6, StepKinds

\* handle_request_locked gates every command: whatever a request shows or
\* changes lies within the grant it runs with, whoever else pages the same
\* select lists and whatever becomes of the grants meanwhile.
THEOREM Confinement == Spec => Confined
  <1>1. ASSUME IInv, [Next]_vars
        PROVE  [\A c \in Conns : conn[c].at = "lock" /\ conn'[c].at = "idle" => ConfinedTo(conn[c].grant)]_vars
    BY <1>1, StepConfined
  <1>2. Spec => [][\A c \in Conns : conn[c].at = "lock" /\ conn'[c].at = "idle" => ConfinedTo(conn[c].grant)]_vars
    BY <1>1, InvHolds, PTL DEF Spec
  <1> QED BY <1>2 DEF Confined, ConfinedTo

-----------------------------------------------------------------------------
(* Clients put out.                                                        *)

\* No copy of the clients has one that was put out: not certs.reg, which a
\* restart makes administrators of, nor the table in memory or on disk.
OutInv ==
    /\ IInv
    /\ \A c \in revoked :
         registry[c] = None /\ c \notin certs /\ c \notin Thumbs(table) /\ c \notin Thumbs(saved)

\* A table that has no client put out, once stored, or left unsaved.
LEMMA StoreKeepsOut ==
    ASSUME OutInv, IInv', NEW c \in Conns, NEW t \in Clients, NEW w \in BOOLEAN, ~CertsFail,
           Store(c, t, w), revoked' \cap Thumbs(t) = {},
           (w /\ ~astray') \/ revoked' \subseteq revoked
    PROVE  OutInv'
  <1>r. revoked' \subseteq Conns
    BY DEF IInv, TypeOK
  <1>1. CASE /\ StoredAs(t)
             /\ \/ w /\ certs' = {d \in Conns : registry'[d] # None}
                \/ (~w \/ CertsFail) /\ UNCHANGED certs
    <2>1. table' = t /\ saved' = t /\ ~astray'
      BY <1>1 DEF StoredAs
    <2>2. registry' \in Loads(t)
      BY <1>1 DEF StoredAs, Load
    <2>3. \A d \in revoked' : registry'[d] = None
      BY <2>2, <1>r, LoadsGive DEF Clients
    <2>4. \A d \in revoked' : d \notin certs'
      BY <1>1, <2>1, <2>3 DEF OutInv
    <2> QED BY <2>1, <2>3, <2>4 DEF OutInv
  <1>2. CASE Unsaved(c, t)
    <2>1. table' = t /\ UNCHANGED <<saved, registry, certs>> /\ astray' = TRUE
      BY <1>2 DEF Unsaved
    <2>2. \A d \in revoked' : registry'[d] = None /\ d \notin certs' /\ d \notin Thumbs(saved')
      BY <2>1 DEF OutInv
    <2> QED BY <2>1, <2>2 DEF OutInv
  <1>3. \/ /\ StoredAs(t)
           /\ \/ w /\ certs' = {d \in Conns : registry'[d] # None}
              \/ (~w \/ CertsFail) /\ UNCHANGED certs
        \/ Unsaved(c, t)
    BY StoreKinds
  <1> QED BY <1>1, <1>2, <1>3

LEMMA StepKeepsOut ==
    ASSUME OutInv, [Next]_vars, ~CertsFail
    PROVE  OutInv'
  <1>i. IInv /\ TypeOK /\ IInv'
    BY StepHolds DEF OutInv, IInv
  <1>t. /\ table \in Clients /\ saved \in Clients /\ certs \subseteq Conns /\ revoked \subseteq Conns
        /\ Grants \subseteq GrantType /\ GivenNames \subseteq Names
    BY <1>i, TypeParts, AccessAssumption DEF Clients
  <1>r. revoked' \subseteq Conns
    BY <1>i DEF IInv, TypeOK
  <1>u. ASSUME UNCHANGED regVars PROVE OutInv'
    BY <1>i, <1>u DEF regVars, OutInv
  <1>1. ASSUME NEW c \in Conns, ReadRequest(c) \/ Dispatch(c) \/ Other(c) PROVE OutInv'
    BY <1>1, <1>u, OtherAnswers DEF ReadRequest, Dispatch
  <1>2. ASSUME NEW c \in Conns, AuthorizeConn(c) \/ GenerateCert(c) PROVE OutInv'
    <2>1. PICK n \in GivenNames, d \in Conns, g \in Grants :
            Store(c, Entered(n, d, g), TRUE) /\ revoked' = revoked \ Thumbs(table')
      BY <1>2 DEF AuthorizeConn, GenerateCert
    <2>2. Entered(n, d, g) \in Clients
      BY <1>i, <1>t, TablesMade
    <2>3. table' = Entered(n, d, g)
      BY <2>1 DEF Store
    <2>4. revoked' \cap Thumbs(Entered(n, d, g)) = {} /\ revoked' \subseteq revoked
      BY <2>1, <2>3
    <2> QED BY <1>i, <2>1, <2>2, <2>4, StoreKeepsOut
  <1>3. ASSUME NEW c \in Conns, DeauthorizeConn(c) PROVE OutInv'
    <2>1. PICK n \in Names :
            \/ Store(c, [table EXCEPT ![n] = None], TRUE) /\ revoked' = PutOut(~astray')
            \/ UNCHANGED regVars
      BY <1>3 DEF DeauthorizeConn
    <2>2. CASE Store(c, [table EXCEPT ![n] = None], TRUE) /\ revoked' = PutOut(~astray')
      <3>1. [table EXCEPT ![n] = None] \in Clients
        BY <1>i, TablesMade
      <3>2. table' = [table EXCEPT ![n] = None]
        BY <2>2 DEF Store
      <3>3. revoked' \cap Thumbs([table EXCEPT ![n] = None]) = {} /\ (~astray' \/ revoked' \subseteq revoked)
        BY <2>2, <3>2 DEF PutOut
      <3> QED BY <1>i, <2>2, <3>1, <3>3, StoreKeepsOut
    <2> QED BY <2>1, <2>2, <1>u
  <1>4. ASSUME NEW c \in Conns, NEW n \in GivenNames, NEW accounts \in SUBSET Accounts,
               GiveAccounts(c, n, accounts)
        PROVE  OutInv'
    <2>1. UNCHANGED revoked
      BY <1>4 DEF GiveAccounts
    <2>2. CASE table[n] # None /\ Store(c, [table EXCEPT ![n].grant.accounts = accounts], FALSE)
      <3>1. /\ [table EXCEPT ![n].grant.accounts = accounts] \in Clients
            /\ Thumbs([table EXCEPT ![n].grant.accounts = accounts]) \subseteq Thumbs(table)
        BY <1>i, <1>t, <2>2, TablesMade
      <3>2. revoked' \cap Thumbs([table EXCEPT ![n].grant.accounts = accounts]) = {}
        BY <2>1, <3>1 DEF OutInv
      <3> QED BY <1>i, <2>1, <2>2, <3>1, <3>2, StoreKeepsOut
    <2>3. CASE UNCHANGED <<table, saved, changes, certs, registry, astray>>
      BY <2>1, <2>3, <1>u DEF regVars
    <2> QED BY <1>4, <2>2, <2>3 DEF GiveAccounts
  <1>5. ASSUME NEW c \in Conns, AddClientAccount(c) PROVE OutInv'
    <2>1. PICK n \in GivenNames, a \in Accounts : GiveAccounts(c, n, AccountsOf(n) \cup {a})
      BY <1>5 DEF AddClientAccount
    <2>2. AccountsOf(n) \cup {a} \in SUBSET Accounts
      BY <1>i, <1>t, TablesMade
    <2> QED BY <2>1, <2>2, <1>4
  <1>6. ASSUME NEW c \in Conns, RemoveClientAccount(c) PROVE OutInv'
    <2>1. PICK n \in GivenNames, a \in Accounts : GiveAccounts(c, n, AccountsOf(n) \ {a})
      BY <1>6 DEF RemoveClientAccount
    <2>2. AccountsOf(n) \ {a} \in SUBSET Accounts
      BY <1>i, <1>t, TablesMade
    <2> QED BY <2>1, <2>2, <1>4
  <1>7. ASSUME NEW c \in Conns, ListConns(c) PROVE OutInv'
    <2>1. UNCHANGED <<table, saved, certs, revoked>> /\ (registry' \in Loads(table) \/ UNCHANGED registry)
      BY <1>7 DEF ListConns, Refreshed, Load
    <2>2. \A d \in revoked' : registry'[d] = None
      BY <2>1, <1>t, LoadsGive DEF OutInv, Clients
    <2> QED BY <1>i, <2>1, <2>2 DEF OutInv
  <1>8. CASE OtherProcess
    <2>1. /\ table' = saved' /\ certs' = Thumbs(saved') /\ revoked' = revoked \ Thumbs(saved')
          /\ UNCHANGED registry
      BY <1>8 DEF OtherProcess
    <2> QED BY <1>i, <2>1 DEF OutInv
  <1>9. CASE Restart
    <2>1. /\ table' = [n \in Names |->
                   IF \E c \in Unlisted : MigratedName[c] = n
                   THEN [thumb |-> CHOOSE c \in Unlisted : MigratedName[c] = n, grant |-> Admin]
                   ELSE saved[n]]
          /\ saved' = table' /\ certs' = {} /\ registry' \in Loads(table') /\ UNCHANGED revoked
      BY <1>9 DEF Restart
    <2>2. Unlisted \subseteq certs
      BY DEF Unlisted
    <2>3. ASSUME NEW n \in Names, table'[n] # None
          PROVE  table'[n].thumb \in certs \/ (saved[n] # None /\ table'[n].thumb = saved[n].thumb)
      <3>1. CASE \E c \in Unlisted : MigratedName[c] = n
        BY <2>1, <2>2, <3>1
      <3>2. CASE ~\E c \in Unlisted : MigratedName[c] = n
        BY <2>1, <2>3, <3>2
      <3> QED BY <3>1, <3>2
    <2>4. ASSUME NEW d \in revoked' PROVE d \notin Thumbs(table')
      <3>1. d \notin certs /\ d \notin Thumbs(saved)
        BY <2>1, <2>4 DEF OutInv
      <3>2. \A n \in Names : saved[n] # None => saved[n].thumb # d
        BY <3>1 DEF Thumbs
      <3>3. \A n \in Names : table'[n] # None => table'[n].thumb # d
        BY <2>3, <3>1, <3>2
      <3> QED BY <3>3 DEF Thumbs
    <2>5. table' \in Clients
      BY <1>i DEF IInv, TypeOK, Clients
    <2>6. \A d \in revoked' : registry'[d] = None
      BY <2>1, <2>4, <2>5, <1>r, LoadsGive DEF Clients
    <2> QED BY <1>i, <2>1, <2>4, <2>6 DEF OutInv
  <1>10. CASE UNCHANGED vars
    BY <1>10, <1>u DEF vars
  <1> QED
    BY <1>1, <1>2, <1>3, <1>5, <1>6, <1>7, <1>8, <1>9, <1>10, StepKinds DEF Administers

\* A client that DEAUTHORIZE.CONN was acknowledged for stays out until it is
\* authorized again, through any commands, failed saves, changes by another
\* process and restarts, provided save_certs writes certs.reg whenever it is
\* called: without that a restart migrates the old file's clients back in.
THEOREM StaysOut ==
    ASSUME ~CertsFail
    PROVE  Spec => []RevokedStaysOut
  <1>1. Init => OutInv
    BY InitHolds DEF Init, OutInv
  <1>2. OutInv /\ [Next]_vars => OutInv'
    BY StepKeepsOut
  <1>3. OutInv => RevokedStaysOut
    BY DEF OutInv, RevokedStaysOut
  <1> QED BY <1>1, <1>2, <1>3, PTL DEF Spec

=============================================================================
