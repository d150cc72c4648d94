------------------------------ MODULE Archive ------------------------------
(***************************************************************************)
(* Archives: an export copies a set of files as they stand, an import puts *)
(* them back.  EXPORT and IMPORT hold the server's lock alone;             *)
(* EXPORT.BYTES and IMPORT.BYTES share it, and so run beside writes,       *)
(* transactions and dead letters.  An export holds every table it copies   *)
(* under a shared guard; an import replaces whole tables; the process may  *)
(* die at any step of either.  An export beside an import is left out: it  *)
(* copies what its handles point at, which the import may have replaced.   *)
(*                                                                         *)
(* What a file holds, its dictionary and indexes with it, is one value: 0  *)
(* for a new file, and a value of its own for each write.  A table is an   *)
(* object in memory: a file that is deleted and created again is another   *)
(* one, and a handle keeps pointing at the old.                            *)
(*                                                                         *)
(* The specification's names begin with Archive: ServerProofs, where the   *)
(* proofs about it are, extends Server too, which serves the commands.     *)
(***************************************************************************)
EXTENDS Integers, Sequences, FiniteSets, Functions

CONSTANTS
    Order,       \* the files, in (account, file) order
    Dirs,        \* those that are directory files: no guard holds them still
    Dead,        \* those that are dead-letter files: burying a record makes one
    First,       \* the files there at the start
    MaxWrites,   \* bound: writes, transactions and burials
    MaxGen,      \* bound: a file's table objects that handles may tell apart
    None

Files == Range(Order)
Tables == Files \ Dirs
Values == 0 .. MaxWrites

\* The file bury makes has no directory attribute: it is a table.
ASSUME ArchiveAssumption ==
    /\ Order \in Seq(Files) /\ IsInjective(Order)
    /\ Dirs \subseteq Files /\ Dead \subseteq Tables /\ First \subseteq Files
    /\ MaxWrites \in Nat /\ MaxGen \in Nat \ {0}

VARIABLES
    heap,      \* each file's table objects, the last of them the file's own
    disk,      \* what each file holds on disk, or None when it is not there
    clock,     \* the writes so far
    alone,     \* who holds the server's lock alone, or None
    ex,        \* the export in progress
    kept,      \* the last archive published, at a path or to a client, or None
    im,        \* the import in progress
    tx,        \* a transaction in progress over the tables
    moments,   \* history: what all files held since the export began
    promise    \* history: what a file was restored to, until it is changed

files == <<heap, disk, clock>>
archiveVars == <<files, alone, ex, kept, im, tx, moments, promise>>

Exists(f) == disk[f] # None
Gen(f) == Len(heap[f])
GenOf == [f \in Files |-> Gen(f)]

\* What a file holds now.  A directory file's records are on the host.
Held(f) == IF Exists(f) /\ f \in Tables THEN heap[f][Gen(f)] ELSE disk[f]
Now == [f \in Files |-> Held(f)]

Contents == [Files -> Values \cup {None}]
Blank == [f \in Files |-> None]
Archives == [whole : BOOLEAN, copy : Contents]

\* None stands for what is not there.
ASSUME NoneAssumption ==
    None \notin Int /\ None \notin {"export", "import"} /\ None \notin Archives

NoExport == [pc |-> "idle", plan |-> {}, handle |-> Blank, guards |-> {},
             staging |-> None]
NoImport == [pc |-> "idle", archive |-> None, replace |-> {}, todo |-> {}, touched |-> {}, wrote |-> FALSE]
NoTx == [pc |-> "idle", value |-> None, handle |-> Blank, guards |-> {}]
Applying == {"deleting", "creating", "filling", "saving"}

Handles == [Files -> Nat \cup {None}]
Exports == [pc : {"idle", "planned", "guarding", "writing", "finished"}, plan : SUBSET Files,
            handle : Handles, guards : SUBSET Tables, staging : Archives \cup {None}]
Imports == [pc : Applying \cup {"idle", "refused", "failed", "ok"}, archive : Archives \cup {None},
            replace : SUBSET Files, todo : SUBSET Files, touched : SUBSET Files, wrote : BOOLEAN]
Txs == [pc : {"idle", "guarding"}, value : Values \cup {None}, handle : Handles, guards : SUBSET Tables]

ArchiveTypeOK ==
    /\ heap \in [Files -> Seq(Values)] /\ disk \in Contents
    /\ \A f \in Files : Gen(f) \in 1 .. MaxGen
    /\ clock \in Values /\ alone \in {None, "export", "import"}
    /\ ex \in Exports /\ im \in Imports /\ tx \in Txs
    /\ kept \in Archives \cup {None}
    /\ moments \subseteq Contents /\ promise \in Contents
    /\ alone = "export" => ex.pc # "idle" /\ im.pc \notin Applying /\ tx.pc = "idle"
    /\ alone = "import" => ex.pc = "idle" /\ im.pc \in Applying /\ tx.pc = "idle"

ArchiveInit ==
    /\ heap = [f \in Files |-> <<0>>]
    /\ disk = [f \in Files |-> IF f \in First THEN 0 ELSE None]
    /\ clock = 0 /\ alone = None
    /\ ex = NoExport /\ im = NoImport /\ tx = NoTx
    /\ kept = None
    /\ moments = {} /\ promise = Blank

-----------------------------------------------------------------------------
(* What the commands are made of.                                          *)

FirstOf(set) == CHOOSE f \in set : \A g \in set :
    \E i, j \in DOMAIN Order : Order[i] = f /\ Order[j] = g /\ i <= j

\* Nobody holds a guard that keeps a writer off the file's table.
Free(f) ==
    /\ ~(f \in ex.guards /\ ex.handle[f] = Gen(f))
    /\ ~(f \in tx.guards /\ tx.handle[f] = Gen(f))

\* create_table: another object, where a handle may point at the last one.
Created(f, value) ==
    [heap EXCEPT ![f] = IF ex.pc = "idle" /\ tx.pc = "idle" THEN <<value>> ELSE Append(@, value)]
MayCreate(f) == (ex.pc = "idle" /\ tx.pc = "idle") \/ Gen(f) < MaxGen

\* What the histories are told when the files change from Now to this.
Noticed(contents) ==
    /\ moments' = IF ex.pc = "idle" THEN {} ELSE moments \cup {contents}
    /\ promise' = [f \in Files |-> IF contents[f] = Held(f) THEN promise[f] ELSE None]
Touch(set) == im' = [im EXCEPT !.touched = IF im.pc = "idle" THEN @ ELSE @ \cup set]

-----------------------------------------------------------------------------
(* Other work under the shared lock.                                       *)

\* A WRITE or DELETE of a record; a directory file's is on the host at once.
Write(f) ==
    /\ alone = None /\ clock < MaxWrites /\ Exists(f)
    /\ clock' = clock + 1
    /\ \/ f \in Dirs /\ disk' = [disk EXCEPT ![f] = clock'] /\ UNCHANGED heap
       \/ f \in Tables /\ Free(f) /\ heap' = [heap EXCEPT ![f][Gen(f)] = clock'] /\ UNCHANGED disk
    /\ Noticed([Now EXCEPT ![f] = clock'])
    /\ Touch({f})
    /\ UNCHANGED <<alone, ex, kept, tx>>

\* transact: handles first, then the guards in order, then every change.
TxBegin ==
    /\ alone = None /\ tx.pc = "idle" /\ clock < MaxWrites
    /\ Cardinality(Tables) >= 2 /\ \A f \in Tables : Exists(f)
    /\ clock' = clock + 1
    /\ tx' = [pc |-> "guarding", value |-> clock', handle |-> GenOf, guards |-> {}]
    /\ UNCHANGED <<heap, disk, alone, ex, kept, im, moments, promise>>

TxGuard == LET f == FirstOf(Tables \ tx.guards) IN
    /\ tx.pc = "guarding" /\ tx.guards # Tables
    /\ ~(f \in ex.guards /\ ex.handle[f] = tx.handle[f])
    /\ tx' = [tx EXCEPT !.guards = @ \cup {f}]
    /\ UNCHANGED <<files, alone, ex, kept, im, moments, promise>>

TxApply ==
    /\ tx.pc = "guarding" /\ tx.guards = Tables
    /\ heap' = [f \in Files |-> IF f \in Tables THEN [heap[f] EXCEPT ![tx.handle[f]] = tx.value] ELSE heap[f]]
    /\ LET current == {f \in Tables : Exists(f) /\ tx.handle[f] = Gen(f)} IN
          /\ Noticed([f \in Files |-> IF f \in current THEN tx.value ELSE Held(f)])
          /\ Touch(current)
    /\ tx' = NoTx
    /\ UNCHANGED <<disk, clock, alone, ex, kept>>

\* bury: the dead-letter file is created when its first record arrives.
Bury(f) ==
    /\ alone = None /\ clock < MaxWrites /\ f \in Dead /\ ~Exists(f) /\ MayCreate(f)
    /\ clock' = clock + 1
    /\ heap' = Created(f, clock') /\ disk' = [disk EXCEPT ![f] = 0]
    /\ Noticed([Now EXCEPT ![f] = clock'])
    /\ Touch({f})
    /\ UNCHANGED <<alone, ex, kept, tx>>

\* The flusher.  save writes every table out.
SaveAll ==
    /\ disk # Now /\ disk' = Now
    /\ UNCHANGED <<heap, clock, alone, ex, kept, im, tx, moments, promise>>

-----------------------------------------------------------------------------
(* Export.                                                                 *)

Quiet == tx.pc = "idle" /\ ex.pc = "idle" /\ im.pc \in {"idle", "refused", "failed", "ok"}

\* export_to_path's staging file, beside the path it was given, and export up to
\* its plan.
ExportBegins(form) == \E plan \in {p \in SUBSET Files : p # {} /\ \A f \in p : Exists(f)} :
    /\ ex.pc = "idle" /\ alone = None /\ (form = "path" => Quiet)
    /\ im.pc \notin Applying
    /\ Cardinality(plan) = 1 \/ plan = {f \in Files : Exists(f)}
    /\ alone' = IF form = "path" THEN "export" ELSE None
    /\ disk' = Now
    /\ ex' = [NoExport EXCEPT !.pc = "planned", !.plan = plan,
                              !.staging = [whole |-> FALSE, copy |-> Blank]]
    /\ moments' = {Now}
    /\ UNCHANGED <<heap, clock, kept, im, tx, promise>>

\* The end of an export: the staging file is gone, one way or the other.
ExportEnds ==
    /\ ex' = NoExport
    /\ alone' = None
    /\ moments' = {}

\* Handles are resolved with no guard held.
ExportResolves ==
    /\ ex.pc = "planned"
    /\ ex' = [ex EXCEPT !.pc = "guarding", !.handle = GenOf]
    /\ UNCHANGED <<files, alone, kept, im, tx, moments, promise>>

\* Mutant: each table is held only while it is copied.
OneAtATime == ex.pc = "guarding" /\ ex' = [ex EXCEPT !.pc = "writing"]

\* Mutant: the files in the reverse order.
Backwards(left) == CHOOSE f \in left : \A g \in left :
    \E i, j \in DOMAIN Order : Order[i] = f /\ Order[j] = g /\ j <= i

\* export_plan sorts what it lists.
NextToGuard(left) == FirstOf(left)

\* A shared guard waits for an exclusive one.
MayShare(f) == ~(f \in tx.guards /\ tx.handle[f] = ex.handle[f])

\* The guards, one after the other in order, and the manifest under them all.
TakeGuard == /\ ex.pc = "guarding"
             /\ LET left == (ex.plan \ Dirs) \ ex.guards
                    f == NextToGuard(left) IN
                \/ left # {} /\ MayShare(f) /\ ex' = [ex EXCEPT !.guards = @ \cup {f}]
                \/ left = {} /\ ex' = [ex EXCEPT !.pc = "writing"]

ExportGuards == TakeGuard /\ UNCHANGED <<files, alone, kept, im, tx, moments, promise>>

\* The next file's records, into the staging file.
ExportCopies == LET left == {f \in ex.plan : ex.staging.copy[f] = None}
                    f == FirstOf(left) IN
    /\ ex.pc = "writing" /\ left # {}
    /\ ex' = [ex EXCEPT !.staging.copy[f] = IF f \in Dirs THEN disk[f] ELSE heap[f][ex.handle[f]]]
    /\ UNCHANGED <<files, alone, kept, im, tx, moments, promise>>

\* finish and sync_all: the guards are let go.
ExportFinishes ==
    /\ ex.pc = "writing" /\ \A f \in ex.plan : ex.staging.copy[f] # None
    /\ ex' = [ex EXCEPT !.pc = "finished", !.staging.whole = TRUE, !.guards = {}]
    /\ UNCHANGED <<files, alone, kept, im, tx, moments, promise>>

\* The rename.  EXPORT.BYTES then sends what it opens, and removes it.
ExportPublishes ==
    /\ ex.pc = "finished"
    /\ kept' = ex.staging
    /\ ExportEnds
    /\ UNCHANGED <<files, im, tx, promise>>

\* A file cannot be read, or a write fails: the staging file is removed.
ExportFails ==
    /\ ex.pc \in {"planned", "writing"}
    /\ ExportEnds
    /\ UNCHANGED <<files, kept, im, tx, promise>>

-----------------------------------------------------------------------------
(* Import.                                                                 *)

\* Mutant: the archive is applied as it is read.
NotVerified(archive) == TRUE

\* The first pass, which reads the archive through for its checksum.
Verified(archive) == archive.whole

\* What an import may be given: an archive, or a damaged one.
Given == IF kept = None THEN {} ELSE {kept, [kept EXCEPT !.whole = FALSE]}

InArchive(archive) == {f \in Files : archive.copy[f] # None}

\* verify and import_plan, and the answer where they refuse.
ImportBegins(form) == \E archive \in Given, overwrite \in BOOLEAN :
    /\ im.pc = "idle" /\ alone = None /\ (form = "path" => Quiet)
    /\ ex.pc = "idle"
    /\ LET exist == {f \in InArchive(archive) : Exists(f)}
           refused == ~Verified(archive) \/ (exist # {} /\ ~overwrite) IN
       \/ refused /\ im' = [NoImport EXCEPT !.pc = "refused"] /\ UNCHANGED alone
       \/ /\ ~refused
          /\ im' = [NoImport EXCEPT !.pc = "deleting", !.archive = archive, !.replace = exist,
                                    !.todo = InArchive(archive)]
          /\ alone' = IF form = "path" THEN "import" ELSE None
    /\ UNCHANGED <<files, ex, kept, tx, moments, promise>>

\* The file the second pass has come to.
Turn == FirstOf(im.todo)
Goes(pc) ==
    /\ im' = IF pc \in {"failed", "ok"} THEN [NoImport EXCEPT !.pc = pc] ELSE [im EXCEPT !.pc = pc, !.wrote = TRUE]
    /\ alone' = IF pc \in Applying THEN alone ELSE None

\* delete_table_for_account.
DeleteTable(f) == disk' = [disk EXCEPT ![f] = None]

\* begin_file, of a file that was there when the import was planned.
ImportDeletes ==
    /\ im.pc = "deleting"
    /\ \/ Turn \notin im.replace /\ Goes("creating") /\ UNCHANGED <<disk, moments, promise>>
       \/ /\ Turn \in im.replace
          /\ DeleteTable(Turn) /\ Noticed([Now EXCEPT ![Turn] = None])
          /\ Goes("creating")
    /\ UNCHANGED <<heap, clock, ex, kept, tx>>

\* create_table_with: refused where somebody has made the file meanwhile.
\* Beside other connections it may also be refused for its own directory, which
\* a listing taken in between has found.
ImportCreates ==
    /\ im.pc = "creating"
    /\ \/ /\ ~Exists(Turn) /\ MayCreate(Turn)
          /\ heap' = Created(Turn, 0) /\ disk' = [disk EXCEPT ![Turn] = 0]
          /\ Noticed([Now EXCEPT ![Turn] = 0])
          /\ Goes("filling") \/ (alone = None /\ Goes("failed"))
       \/ Exists(Turn) /\ Goes("failed") /\ UNCHANGED <<heap, disk, moments, promise>>
    /\ UNCHANGED <<clock, ex, kept, tx>>

\* end_file: the records in one act, under the table's guard, with the indexes
\* built from them.  A directory file's records are in place as they arrive.
ImportFills == LET value == im.archive.copy[Turn]
                   left == im.todo \ {Turn} IN
    /\ im.pc = "filling"
    /\ \/ Turn \in Tables /\ Free(Turn) /\ heap' = [heap EXCEPT ![Turn][Gen(Turn)] = value] /\ UNCHANGED disk
       \/ Turn \in Dirs /\ disk' = [disk EXCEPT ![Turn] = value] /\ UNCHANGED heap
    /\ Noticed([Now EXCEPT ![Turn] = value])
    /\ im' = [im EXCEPT !.todo = left, !.wrote = TRUE, !.pc = IF left = {} THEN "saving" ELSE "deleting"]
    /\ UNCHANGED <<clock, alone, ex, kept, tx>>

\* Mutant: the restored tables are left for the flusher.
LeftToFlusher == disk' = disk

\* save, before a restore reports success.
SaveRestored == disk' = Now

\* The end of the second pass finds the checksum again, and everything is saved.
ImportSaves == LET whole == im.archive.whole IN
    /\ im.pc = "saving"
    /\ IF whole THEN SaveRestored ELSE UNCHANGED disk
    /\ promise' = [f \in Files |-> IF whole /\ f \in InArchive(im.archive) \ im.touched
                                   THEN im.archive.copy[f] ELSE promise[f]]
    /\ Goes(IF whole THEN "ok" ELSE "refused")
    /\ UNCHANGED <<heap, clock, ex, kept, tx, moments>>

\* A write of the second pass fails.
ImportFails ==
    /\ im.pc \in Applying /\ Goes("failed")
    /\ UNCHANGED <<files, ex, kept, tx, moments, promise>>

\* The answer is read, and the connection goes on.
ImportAnswered ==
    /\ im.pc \in {"refused", "failed", "ok"} /\ im' = NoImport
    /\ UNCHANGED <<files, alone, ex, kept, tx, moments, promise>>

-----------------------------------------------------------------------------

\* The process dies and is started again.  What was staged is debris.
Crash ==
    /\ heap' = [f \in Files |-> <<IF Exists(f) THEN disk[f] ELSE 0>>]
    /\ alone' = None /\ ex' = NoExport /\ im' = NoImport /\ tx' = NoTx
    /\ moments' = {}
    /\ UNCHANGED <<disk, clock, kept, promise>>

ArchiveNext ==
    \/ \E f \in Files : Write(f) \/ Bury(f)
    \/ TxBegin \/ TxGuard \/ TxApply
    \/ SaveAll
    \/ \E form \in {"path", "bytes"} : ExportBegins(form) \/ ImportBegins(form)
    \/ ExportResolves \/ ExportGuards \/ ExportCopies \/ ExportFinishes \/ ExportPublishes \/ ExportFails
    \/ ImportDeletes \/ ImportCreates \/ ImportFills \/ ImportSaves \/ ImportFails \/ ImportAnswered
    \/ Crash

\* A thread that can go on does: nothing it waits for but guards is held across
\* steps, and those who hold guards go on too.
ArchiveFairness ==
    /\ WF_archiveVars(TxGuard) /\ WF_archiveVars(TxApply)
    /\ WF_archiveVars(ExportResolves) /\ WF_archiveVars(ExportGuards) /\ WF_archiveVars(ExportCopies)
    /\ WF_archiveVars(ExportFinishes) /\ WF_archiveVars(ExportPublishes)
    /\ WF_archiveVars(ImportDeletes) /\ WF_archiveVars(ImportCreates) /\ WF_archiveVars(ImportFills)
    /\ WF_archiveVars(ImportSaves)

ArchiveSpec == ArchiveInit /\ [][ArchiveNext]_archiveVars /\ ArchiveFairness

-----------------------------------------------------------------------------
(* Properties.                                                             *)

\* A finished archive holds what its tables held together at one moment of the
\* export, so a transaction over two of them is in it whole or not at all.
\* Directory files have no guard, and are not promised.
OneMoment ==
    ex.pc = "finished" =>
        \E moment \in moments : \A f \in ex.plan \ Dirs : ex.staging.copy[f] = moment[f]

\* An import that is refused has changed no file: not for a damaged archive,
\* whose damage shows only at its end, and not for a file that is in the way.
RefusedChangesNothing ==
    im.pc = "refused" => ~im.wrote

\* A file an import restored and answered OK for holds what the archive does
\* and nothing else, in memory and on disk, until somebody changes it: also
\* after a crash, and where an earlier import had died half way.
Restored == \A f \in Files : promise[f] # None => Held(f) = promise[f] /\ disk[f] = promise[f]

\* An export comes to an end: its guards and a transaction's are taken in one
\* order, so neither waits for the other for ever.
ExportComesToAnEnd == ex.pc # "idle" ~> ex.pc = "idle"

=============================================================================
