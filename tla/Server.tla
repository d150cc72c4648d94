------------------------------- MODULE Server -------------------------------
(***************************************************************************)
(* The protocol server's connections: the accept loop and its slots, the   *)
(* handshake, the loop that reads request lines, the DEQUEUE that waits    *)
(* for a record, and the byte transfers whose bodies share the socket with *)
(* the lines.  Each connection is a task; whatever it awaits (a socket, a  *)
(* timer, a blocking thread) ends a step.                                  *)
(*                                                                         *)
(* Beneath the connections: one queue file, as the number of its claimable *)
(* records; one directory file with one key; and whether writes are still  *)
(* only in memory.  A body is counted in chunks, and a client sends        *)
(* exactly the body its line announces, or stops.  Which requests a client *)
(* may make is Access's subject: here a request says whether it is         *)
(* acceptable.                                                             *)
(***************************************************************************)
EXTENDS Integers, Sequences, FiniteSets

CONSTANTS
    Conns,           \* client sockets; each may connect again once it is closed
    MaxConnections,  \* max_connections
    Lines,           \* the request lines each client may send
    Revocable,       \* the clients an administrator deauthorizes, and lets in again
    Limit,           \* max_directory_record_bytes and max_archive_bytes
    NoLength,        \* a transfer line without a length
    RecordLength,    \* the chunks of whatever a GET.BYTES or EXPORT.BYTES sends
    MaxReady,        \* bound: claimable records in the queue
    MaxWire          \* bound: items a client may have in flight

ASSUME ConnsAssumption == IsFiniteSet(Conns)
ASSUME LimitAssumption ==
    /\ MaxConnections \in Nat /\ Limit \in Nat /\ RecordLength \in Nat
    /\ MaxReady \in Nat /\ MaxWire \in Nat
    /\ NoLength \notin Nat

\* What a client may send: a line that is not JSON, one that never ends, an
\* ENQUEUE, a DEQUEUE that waits, a transfer with the length of the body it
\* announces, in chunks.  "good" is whether the checks made before a body is
\* read accept the request.
Up == {"PUT.BYTES", "IMPORT.BYTES"}
Down == {"GET.BYTES", "EXPORT.BYTES"}
Commands == {"not JSON", "endless", "ENQUEUE", "DEQUEUE"} \cup Up \cup Down
Requests == [command : Commands, length : Nat \cup {NoLength}, good : BOOLEAN]
Request(command, length, good) == [command |-> command, length |-> length, good |-> good]
Idle == Request("none", NoLength, TRUE)

ASSUME LinesAssumption == Lines \in [Conns -> SUBSET Requests] /\ Revocable \subseteq Conns

\* One chunk of a body.
Chunk == Request("chunk", NoLength, TRUE)

VARIABLES
    slots,       \* free permits of connection_slots
    conn,        \* each connection's task: where it is and what it serves
    wire,        \* what its client has sent and the server has not read
    owes,        \* chunks of an announced body its client has yet to send
    expects,     \* chunks of an announced body its client has yet to receive
    hung,        \* its client has hung up
    deaf,        \* its client has stopped reading
    active,      \* stats: the registered connections
    authorized,  \* the clients of the registry
    unsaved,     \* connections with acknowledged writes that are only in memory
    queue,       \* claimable records: announced by the arrivals signal, or not
    staged,      \* temporaries and spools on disk, by the connection they are of
    record       \* what the directory file's one record lacks of its body

netVars == <<wire, owes, expects, hung, deaf>>
storeVars == <<unsaved, queue, staged, record>>
vars == <<slots, conn, netVars, active, authorized, storeVars>>

Waiting == {"register", "attempt", "empty", "nap"}
Places == {"none", "handshake", "authorize", "loop", "dispatch", "stage", "receive", "drain",
           "commit", "reply", "send", "close", "save"} \cup Waiting

\* request: the line being served.  need: chunks still to move.  arrived: what
\* the receiver reports.  lost: what the staging lacks of the body, if anything.
\* refused: the body is read to be thrown away.  torn: the connection is to be
\* closed once the reply is out.  late: the wait is over.  woken: the arrivals
\* signal came since the waiter registered.
Fresh(place) == [at |-> place, request |-> Idle, need |-> 0, arrived |-> 0, lost |-> "nothing",
                 refused |-> FALSE, torn |-> FALSE, late |-> FALSE, woken |-> FALSE]

TypeOK ==
    /\ slots \in 0..MaxConnections
    /\ conn \in [Conns -> [at : Places, request : Requests \cup {Idle}, need : Nat, arrived : Nat,
                           lost : {"nothing", "middle", "tail"}, refused : BOOLEAN, torn : BOOLEAN,
                           late : BOOLEAN, woken : BOOLEAN]]
    /\ wire \in [Conns -> Seq(Requests \cup {Chunk})]
    /\ owes \in [Conns -> Nat] /\ expects \in [Conns -> Nat]
    /\ hung \in [Conns -> BOOLEAN] /\ deaf \in [Conns -> BOOLEAN]
    /\ active \subseteq Conns /\ authorized \subseteq Conns /\ unsaved \subseteq Conns
    /\ queue \in [announced : 0..MaxReady, quiet : 0..MaxReady]
    /\ staged \subseteq Conns
    /\ record \in {"nothing", "middle", "tail"}

Init ==
    /\ slots = MaxConnections
    /\ conn = [c \in Conns |-> Fresh("none")]
    /\ wire = [c \in Conns |-> <<>>]
    /\ owes = [c \in Conns |-> 0] /\ expects = [c \in Conns |-> 0]
    /\ hung = [c \in Conns |-> FALSE] /\ deaf = [c \in Conns |-> FALSE]
    /\ active = {} /\ authorized = Conns /\ unsaved = {}
    /\ queue = [announced |-> 0, quiet |-> 0]
    /\ staged = {}
    /\ record = "nothing"

\* stage: the directory file takes a body of this length.
Stageable(r) == r.length <= Limit

\* stage_bytes and stage_archive: everything that can be refused from the line.
\* An archive's length is weighed after the rest, and by the transfer itself.
AcceptsRecord(r) == r.good /\ r.length # NoLength /\ Stageable(r)
AcceptsArchive(r) == r.good /\ r.length # NoLength
Accepts(r) == IF r.command = "PUT.BYTES" THEN AcceptsRecord(r) ELSE AcceptsArchive(r)

-----------------------------------------------------------------------------
(* The clients: external to the server, and under no obligation to go on.  *)

\* What a client does is seen by the server only where its task reads or writes
\* the socket, and so it is done there.
Reading(c) == conn[c].at \in {"loop", "receive", "drain"}
Writing(c) ==
    \/ conn[c].at \in {"reply", "send"}
    \/ conn[c].at = "stage" /\ ~Accepts(conn[c].request)
    \/ conn[c].at = "stage" /\ conn[c].request.command \in Down
AtRest(c) == wire[c] = <<>> /\ owes[c] = 0

\* A request line, once the last one is answered.  A body, if the line announces
\* one, is owed from here; one sent without an announcement is a chunk nobody
\* was told of.
SendLine(c) == \E r \in Lines[c] :
    /\ conn[c].at = "loop" /\ AtRest(c) /\ ~hung[c]
    /\ wire' = [wire EXCEPT ![c] = <<r>>]
    /\ owes' = [owes EXCEPT ![c] = IF r.command \notin Up THEN 0
                                   ELSE IF r.length = NoLength THEN 1 ELSE r.length]
    /\ UNCHANGED <<slots, conn, expects, hung, deaf, active, authorized, storeVars>>

SendChunk(c) ==
    /\ Reading(c) /\ owes[c] > 0 /\ Len(wire[c]) < MaxWire /\ ~hung[c]
    /\ wire' = [wire EXCEPT ![c] = Append(@, Chunk)]
    /\ owes' = [owes EXCEPT ![c] = @ - 1]
    /\ UNCHANGED <<slots, conn, expects, hung, deaf, active, authorized, storeVars>>

HangUp(c) ==
    /\ (Reading(c) \/ Writing(c)) /\ ~hung[c]
    /\ hung' = [hung EXCEPT ![c] = TRUE]
    /\ deaf' = [deaf EXCEPT ![c] = FALSE]
    /\ UNCHANGED <<slots, conn, wire, owes, expects, active, authorized, storeVars>>

StopOrResumeReading(c) ==
    /\ Writing(c) /\ ~hung[c]
    /\ deaf' = [deaf EXCEPT ![c] = ~@]
    /\ UNCHANGED <<slots, conn, wire, owes, expects, hung, active, authorized, storeVars>>

-----------------------------------------------------------------------------
(* The accept loop and the way in.                                         *)

\* Mutant: the permit is not given back.
KeepsPermit(c) ==
    /\ UNCHANGED slots
    /\ conn' = [conn EXCEPT ![c] = Fresh("none")]
    /\ wire' = [wire EXCEPT ![c] = <<>>]
    /\ owes' = [owes EXCEPT ![c] = 0] /\ expects' = [expects EXCEPT ![c] = 0]
    /\ hung' = [hung EXCEPT ![c] = FALSE] /\ deaf' = [deaf EXCEPT ![c] = FALSE]

\* Dropping the task's permit, with everything the socket still held.
Gone(c) ==
    /\ slots' = slots + 1
    /\ conn' = [conn EXCEPT ![c] = Fresh("none")]
    /\ wire' = [wire EXCEPT ![c] = <<>>]
    /\ owes' = [owes EXCEPT ![c] = 0] /\ expects' = [expects EXCEPT ![c] = 0]
    /\ hung' = [hung EXCEPT ![c] = FALSE] /\ deaf' = [deaf EXCEPT ![c] = FALSE]

Accept(c) ==
    /\ conn[c].at = "none" /\ slots > 0
    /\ slots' = slots - 1
    /\ conn' = [conn EXCEPT ![c] = Fresh("handshake")]
    /\ UNCHANGED <<netVars, active, authorized, storeVars>>

\* The handshake completes, or fails, or outlasts handshake_timeout_ms.
Handshake(c) ==
    /\ conn[c].at = "handshake"
    /\ \/ conn' = [conn EXCEPT ![c].at = "authorize"] /\ UNCHANGED <<slots, netVars>>
       \/ Gone(c)
    /\ UNCHANGED <<active, authorized, storeVars>>

\* client_for_thumbprint, read under the shared lock; stats::open.
CheckAuthorization(c) ==
    /\ conn[c].at = "authorize"
    /\ \/ /\ c \in authorized
          /\ conn' = [conn EXCEPT ![c].at = "loop"]
          /\ active' = active \cup {c}
          /\ UNCHANGED <<slots, netVars>>
       \/ c \notin authorized /\ Gone(c) /\ UNCHANGED active
    /\ UNCHANGED <<authorized, storeVars>>

\* AUTHORIZE.CONN and DEAUTHORIZE.CONN, from a connection of no concern here.
Authorize(c) ==
    /\ c \in Revocable
    /\ authorized' = IF c \in authorized THEN authorized \ {c} ELSE authorized \cup {c}
    /\ UNCHANGED <<slots, conn, netVars, active, storeVars>>

-----------------------------------------------------------------------------
(* The request loop.                                                       *)

\* Where the task of c is next, with the line it serves and whether the
\* connection ends there.
To(c, place, torn) == [Fresh(place) EXCEPT !.request = conn[c].request, !.torn = torn]
Go(c, place) == conn' = [conn EXCEPT ![c] = To(c, place, FALSE)]

\* Mutant: the reply never ends the connection.
AnswerOnly(c, torn) == conn' = [conn EXCEPT ![c] = To(c, "reply", FALSE)]

Answer(c, torn) == conn' = [conn EXCEPT ![c] = To(c, "reply", torn)]

\* A write to the socket returns: the client takes it, or has hung up.
CanWrite(c) == hung[c] \/ ~deaf[c]

\* The response line is written.  A transfer whose reply could not be written
\* ends the connection; any other command ignores that and reads on.
Reply(c) ==
    /\ conn[c].at = "reply" /\ CanWrite(c)
    /\ conn' = [conn EXCEPT ![c] =
                  Fresh(IF conn[c].torn \/ (hung[c] /\ conn[c].request.command \in Up \cup Down)
                          THEN "close" ELSE "loop")]
    /\ UNCHANGED <<slots, netVars, active, authorized, storeVars>>

\* Where the line just read is taken next.
NextPlace(r) ==
    CASE r.command \in {"not JSON", "endless"} -> "reply"
      [] r.command = "ENQUEUE" -> "dispatch"
      [] r.command = "DEQUEUE" -> "register"
      [] OTHER -> "stage"

\* A line without an end leaves unread bytes behind it, so it ends the connection.
ReadLine(c) ==
    /\ conn[c].at = "loop" /\ wire[c] # <<>> /\ Head(wire[c]) # Chunk
    /\ wire' = [wire EXCEPT ![c] = Tail(@)]
    /\ LET r == Head(wire[c]) IN
       conn' = [conn EXCEPT ![c] =
                  [Fresh(NextPlace(r)) EXCEPT !.request = r, !.torn = (r.command = "endless")]]
    /\ UNCHANGED <<slots, owes, expects, hung, deaf, active, authorized, storeVars>>

\* Mutant: no idle timeout.
WaitsForEver(c) ==
    /\ conn[c].at = "loop" /\ wire[c] = <<>> /\ hung[c]
    /\ Go(c, "close")
    /\ UNCHANGED <<slots, netVars, active, authorized, storeVars>>

\* The idle timeout, which is configured, or the end of what the client had to say.
StopReadingLines(c) ==
    /\ conn[c].at = "loop" /\ wire[c] = <<>>
    /\ Go(c, "close")
    /\ UNCHANGED <<slots, netVars, active, authorized, storeVars>>

\* Mutant: the signal reaches only the consumers that are already asleep.
AsleepOnly(c) == conn[c].at = "nap"

\* The waiters a notify_waiters reaches: every one registered and not yet gone.
Registered(c) == conn[c].at \in {"attempt", "empty", "nap"}

\* dispatch: the authorization is read again, and the command runs.  An
\* ENQUEUE adds a record, in memory until a flush, and raises the signal.
Dispatch(c) ==
    /\ conn[c].at = "dispatch"
    /\ \/ /\ c \in authorized /\ queue.announced + queue.quiet < MaxReady
          /\ queue' = [queue EXCEPT !.announced = @ + 1]
          /\ unsaved' = unsaved \cup {c}
          /\ conn' = [d \in Conns |->
                        IF d = c THEN To(c, "reply", FALSE)
                        ELSE IF Registered(d) THEN [conn[d] EXCEPT !.woken = TRUE] ELSE conn[d]]
       \/ c \in authorized /\ Answer(c, FALSE) /\ UNCHANGED <<queue, unsaved>>
       \/ c \notin authorized /\ Answer(c, TRUE) /\ UNCHANGED <<queue, unsaved>>
    /\ UNCHANGED <<slots, netVars, active, authorized, staged, record>>

\* A record becomes claimable without a signal: a claim lapses, a due time comes.
BecomesDue ==
    /\ queue.announced + queue.quiet < MaxReady
    /\ queue' = [queue EXCEPT !.quiet = @ + 1]
    /\ UNCHANGED <<slots, conn, netVars, active, authorized, unsaved, staged, record>>

-----------------------------------------------------------------------------
(* dequeue_waiting.                                                        *)

\* notified().enable(), before the attempt.
Register(c) ==
    /\ conn[c].at = "register"
    /\ conn' = [conn EXCEPT ![c].at = "attempt", ![c].woken = FALSE]
    /\ UNCHANGED <<slots, netVars, active, authorized, storeVars>>

\* One DEQUEUE: claims a record, or finds none.
Attempt(c) ==
    /\ conn[c].at = "attempt"
    /\ \/ /\ c \in authorized
          /\ \E kind \in {"announced", "quiet"} :
               /\ queue[kind] > 0
               /\ queue' = [queue EXCEPT ![kind] = @ - 1]
          /\ unsaved' = unsaved \cup {c}
          /\ Answer(c, FALSE)
       \/ /\ c \in authorized /\ queue.announced + queue.quiet = 0
          /\ conn' = [conn EXCEPT ![c].at = "empty"]
          /\ UNCHANGED <<queue, unsaved>>
       \/ c \notin authorized /\ Answer(c, TRUE) /\ UNCHANGED <<queue, unsaved>>
    /\ UNCHANGED <<slots, netVars, active, authorized, staged, record>>

\* EMPTY: answered when no time remains, slept on otherwise.
Sleep(c) ==
    /\ conn[c].at = "empty"
    /\ IF conn[c].late THEN Answer(c, FALSE) ELSE conn' = [conn EXCEPT ![c].at = "nap"]
    /\ UNCHANGED <<slots, netVars, active, authorized, storeVars>>

\* The signal, or the nap of at most WAIT_RECHECK, ends.
Wake(c) ==
    /\ conn[c].at = "nap"
    /\ conn' = [conn EXCEPT ![c].at = "register"]
    /\ UNCHANGED <<slots, netVars, active, authorized, storeVars>>

\* The deadline of the wait passes.
Deadline(c) ==
    /\ conn[c].at \in Waiting /\ ~conn[c].late
    /\ conn' = [conn EXCEPT ![c].late = TRUE]
    /\ UNCHANGED <<slots, netVars, active, authorized, storeVars>>

-----------------------------------------------------------------------------
(* Bodies up: PUT.BYTES into a temporary of the directory file, and        *)
(* IMPORT.BYTES into a spool.                                              *)

\* A refused body is discarded when its size is known and affordable.
Drainable(r) == r.length # NoLength /\ r.length <= Limit

\* The file the body goes to is created, or cannot be, and then the body is
\* read all the same.
ReceiveBody(c) == LET need == conn[c].request.length IN
    \/ /\ conn' = [conn EXCEPT ![c].at = "receive", ![c].need = need]
       /\ staged' = staged \cup {c}
    \/ /\ conn' = [conn EXCEPT ![c].at = "drain", ![c].need = need, ![c].lost = "middle"]
       /\ UNCHANGED staged

\* Refused with the body still to come: answered before it is drained.
RefuseBody(c) == LET r == conn[c].request IN
    /\ ~Accepts(r)
    /\ \/ ~Drainable(r) /\ Answer(c, TRUE)
       \/ /\ Drainable(r) /\ CanWrite(c)
          /\ conn' = [conn EXCEPT ![c].at = "drain", ![c].need = r.length, ![c].refused = TRUE]
    /\ UNCHANGED staged

put_bytes(c) == LET r == conn[c].request IN
    /\ conn[c].at = "stage" /\ r.command = "PUT.BYTES"
    /\ \/ Accepts(r) /\ ReceiveBody(c)
       \/ RefuseBody(c)
    /\ UNCHANGED <<slots, netVars, active, authorized, unsaved, queue, record>>

\* An archive over the limit is not drained: the answer ends the connection.
import_bytes(c) == LET r == conn[c].request IN
    /\ conn[c].at = "stage" /\ r.command = "IMPORT.BYTES"
    /\ \/ Accepts(r) /\ r.length <= Limit /\ ReceiveBody(c)
       \/ Accepts(r) /\ r.length > Limit /\ Answer(c, TRUE) /\ UNCHANGED staged
       \/ RefuseBody(c)
    /\ UNCHANGED <<slots, netVars, active, authorized, unsaved, queue, record>>

TakeChunk(c) ==
    /\ wire[c] # <<>> /\ Head(wire[c]) = Chunk
    /\ wire' = [wire EXCEPT ![c] = Tail(@)]

\* Mutant: no stall timeout.
StarvedByHangUp(c) == conn[c].need > 0 /\ wire[c] = <<>> /\ hung[c] /\ UNCHANGED wire

\* The stall timeout, an error, or an end of the stream inside a body.
Starved(c) == conn[c].need > 0 /\ wire[c] = <<>> /\ UNCHANGED wire

\* receive_into: a chunk is read and written, or its write fails and the rest
\* is drained.  What it then reports as arrived counts the chunk that was lost.
\* The last flush may fail as well.
Receive(c) ==
    /\ conn[c].at = "receive"
    /\ \/ /\ conn[c].need > 0 /\ TakeChunk(c)
          /\ \/ conn' = [conn EXCEPT ![c].need = @ - 1, ![c].arrived = @ + 1]
             \/ conn' = [conn EXCEPT ![c].at = "drain", ![c].need = @ - 1, ![c].arrived = @ + 1,
                                     ![c].lost = IF conn[c].need = 1 THEN "tail" ELSE "middle"]
       \/ /\ conn[c].need = 0 /\ UNCHANGED wire
          /\ \/ conn' = [conn EXCEPT ![c].at = "commit"]
             \/ conn[c].arrived > 0 /\ conn' = [conn EXCEPT ![c].at = "commit", ![c].lost = "tail"]
       \/ /\ Starved(c)
          /\ conn' = [conn EXCEPT ![c].at = "commit", ![c].lost = "middle", ![c].torn = TRUE]
    /\ UNCHANGED <<slots, owes, expects, hung, deaf, active, authorized, storeVars>>

\* drain: the rest of the body is read and thrown away.
Drain(c) ==
    /\ conn[c].at = "drain"
    /\ \/ /\ conn[c].need > 0 /\ TakeChunk(c)
          /\ conn' = [conn EXCEPT ![c].need = @ - 1]
       \/ /\ conn[c].need = 0 /\ UNCHANGED wire
          /\ IF conn[c].refused THEN Go(c, "loop") ELSE conn' = [conn EXCEPT ![c].at = "commit"]
       \/ /\ Starved(c)
          /\ IF conn[c].refused THEN Go(c, "close")
                                ELSE conn' = [conn EXCEPT ![c].at = "commit", ![c].torn = TRUE]
    /\ UNCHANGED <<slots, owes, expects, hung, deaf, active, authorized, storeVars>>

\* Mutant: whatever arrived is put in place.
ArrivedAtAll(c) == conn[c].arrived <= conn[c].request.length

\* commit_staged's test: as much arrived as was announced.
ArrivedWhole(c) == conn[c].arrived = conn[c].request.length

\* commit_staged: the temporary is renamed over the key, or refused and removed;
\* the rename fails where the temporary was swept away.
commit_staged(c) ==
    record' \in {record} \cup IF ArrivedWhole(c) /\ c \in staged THEN {conn[c].lost} ELSE {}

commit_bytes(c) ==
    /\ conn[c].at = "commit" /\ conn[c].request.command = "PUT.BYTES"
    /\ commit_staged(c)
    /\ staged' = staged \ {c}
    /\ Answer(c, conn[c].torn)
    /\ UNCHANGED <<slots, netVars, active, authorized, unsaved, queue>>

\* The spool is imported if it is whole, and removed either way.
commit_archive(c) ==
    /\ conn[c].at = "commit" /\ conn[c].request.command = "IMPORT.BYTES"
    /\ staged' = staged \ {c}
    /\ Answer(c, conn[c].torn)
    /\ UNCHANGED <<slots, netVars, active, authorized, unsaved, queue, record>>

\* A listing or a count of the directory file clears its temporaries away,
\* those of transfers still under way too.
SweepTmp ==
    /\ \E c \in staged : conn[c].request.command = "PUT.BYTES"
    /\ staged' = {c \in staged : conn[c].request.command # "PUT.BYTES"}
    /\ UNCHANGED <<slots, conn, netVars, active, authorized, unsaved, queue, record>>

\* A WRITE to the directory file, or a STORE by the command line, puts a whole
\* record in place by a rename of its own; a DELETE leaves none.  Neither lacks
\* anything.
WriteRecord ==
    /\ record # "nothing" /\ record' = "nothing"
    /\ UNCHANGED <<slots, conn, netVars, active, authorized, unsaved, queue, staged>>
RemoveRecord ==
    /\ record # "nothing" /\ record' = "nothing"
    /\ UNCHANGED <<slots, conn, netVars, active, authorized, unsaved, queue, staged>>

-----------------------------------------------------------------------------
(* Bodies down: GET.BYTES from the record's open handle, EXPORT.BYTES from *)
(* a spool built before a byte is announced.                               *)

\* open_archive builds the whole archive in a spool of the connection's own.
open_archive(c) == {c}

\* What is opened is announced, with its length, and then sent; a client that
\* is gone by then ends the connection.
OpenBody(c, spooled) ==
    \/ /\ ~conn[c].request.good
       /\ Answer(c, FALSE)
       /\ UNCHANGED <<expects, staged>>
    \/ /\ conn[c].request.good /\ CanWrite(c) /\ ~hung[c]
       /\ expects' = [expects EXCEPT ![c] = RecordLength]
       /\ conn' = [conn EXCEPT ![c].at = "send", ![c].need = RecordLength]
       /\ staged' = staged \cup spooled
    \/ /\ conn[c].request.good /\ hung[c]
       /\ Go(c, "close")
       /\ UNCHANGED <<expects, staged>>

get_bytes(c) ==
    /\ conn[c].at = "stage" /\ conn[c].request.command = "GET.BYTES"
    /\ OpenBody(c, {})
    /\ UNCHANGED <<slots, wire, owes, hung, deaf, active, authorized, unsaved, queue, record>>

export_bytes(c) ==
    /\ conn[c].at = "stage" /\ conn[c].request.command = "EXPORT.BYTES"
    /\ OpenBody(c, open_archive(c))
    /\ UNCHANGED <<slots, wire, owes, hung, deaf, active, authorized, unsaved, queue, record>>

\* A chunk is sent, or the socket fails.  Nothing bounds how long the client
\* may take to read it.
Send(c) ==
    /\ conn[c].at = "send"
    /\ \/ /\ conn[c].need > 0 /\ CanWrite(c) /\ ~hung[c]
          /\ conn' = [conn EXCEPT ![c].need = @ - 1]
          /\ expects' = [expects EXCEPT ![c] = @ - 1]
          /\ UNCHANGED staged
       \/ /\ conn[c].need = 0 \/ hung[c]
          /\ Go(c, IF conn[c].need = 0 THEN "loop" ELSE "close")
          /\ staged' = staged \ {c}
          /\ UNCHANGED expects
    /\ UNCHANGED <<slots, wire, owes, hung, deaf, active, authorized, unsaved, queue, record>>

\* The file comes up short of what was announced, and the connection is all
\* there is left to end.
SendFails(c) ==
    /\ conn[c].at = "send" /\ conn[c].need > 0
    /\ Go(c, "close")
    /\ staged' = staged \ {c}
    /\ UNCHANGED <<slots, netVars, active, authorized, unsaved, queue, record>>

-----------------------------------------------------------------------------
(* The way out.                                                            *)

\* stats::close, then has_pending_writes.
Close(c) ==
    /\ conn[c].at = "close"
    /\ active' = active \ {c}
    /\ IF unsaved = {} THEN Gone(c) ELSE Go(c, "save") /\ UNCHANGED <<slots, netVars>>
    /\ UNCHANGED <<authorized, storeVars>>

\* save, under the exclusive lock.
Save(c) ==
    /\ conn[c].at = "save"
    /\ unsaved' = {}
    /\ Gone(c)
    /\ UNCHANGED <<active, authorized, queue, staged, record>>

\* The flusher's tick.
Flush ==
    /\ unsaved # {}
    /\ unsaved' = {}
    /\ UNCHANGED <<slots, conn, netVars, active, authorized, queue, staged, record>>

-----------------------------------------------------------------------------

\* What a connection's own task does.
Step(c) ==
    \/ Handshake(c) \/ CheckAuthorization(c) \/ ReadLine(c) \/ StopReadingLines(c)
    \/ Dispatch(c) \/ Register(c) \/ Attempt(c) \/ Sleep(c) \/ Wake(c)
    \/ put_bytes(c) \/ import_bytes(c) \/ Receive(c) \/ Drain(c)
    \/ commit_bytes(c) \/ commit_archive(c) \/ get_bytes(c) \/ export_bytes(c) \/ Send(c)
    \/ Reply(c) \/ Close(c) \/ Save(c)

Client(c) == SendLine(c) \/ SendChunk(c) \/ HangUp(c) \/ StopOrResumeReading(c)

Next ==
    \/ \E c \in Conns : Accept(c) \/ Step(c) \/ Client(c) \/ Authorize(c) \/ Deadline(c) \/ SendFails(c)
    \/ BecomesDue \/ SweepTmp \/ WriteRecord \/ RemoveRecord \/ Flush

Spec == Init /\ [][Next]_vars

\* The runtime polls every task that is ready, timers fire and deadlines pass.
\* Nothing is assumed of the clients.
Fairness == \A c \in Conns : WF_vars(Step(c)) /\ WF_vars(Deadline(c))

FairSpec == Spec /\ Fairness

-----------------------------------------------------------------------------
(* Properties.                                                             *)

Live(c) == conn[c].at # "none"

\* Every way out of a connection gives back what the way in took: a permit per
\* live task, an entry in the registry from the authorization to the close, and
\* no temporary or spool once the transfer it was made for has ended.
EveryExitReleases ==
    /\ slots + Cardinality({c \in Conns : Live(c)}) = MaxConnections
    /\ active = {c \in Conns : conn[c].at \notin {"none", "handshake", "authorize", "save"}}
    /\ \A c \in staged : conn[c].at \in {"receive", "drain", "commit", "send"}

\* The line reader is never handed a socket in the middle of a body, and a
\* client that was promised a body is never sent a response line instead.
InStep == \A c \in Conns : conn[c].at = "loop" =>
    /\ expects[c] = 0
    /\ IF wire[c] = <<>> THEN owes[c] = 0 ELSE Head(wire[c]) # Chunk

\* A consumer that found the queue empty does not sleep past a record announced
\* since: it registers before it looks, so the signal reaches it.
NoLostWakeup == \A c \in Conns :
    conn[c].at \in {"empty", "nap"} /\ ~conn[c].woken => queue.announced = 0

\* A body cut short, by the socket or by a disk that failed before its last
\* chunk, is never put in place as a record.
ShortBodyRefused == record # "middle"

\* A connection whose client sends nothing more, but reads, is let go, wherever
\* it was: in the handshake, between requests, in the middle of a body, in a
\* DEQUEUE that waits.  Its permit is free again.  This is for servers that set
\* idle_timeout_ms, which is off by default.
SilentLeaves == \A c \in Conns : []<>(wire[c] # <<>> \/ deaf[c] \/ conn[c].at = "none")

\* Every request of a client that reads is answered, or ends its connection:
\* no wait, transfer or dispatch lasts for ever.
Answered == \A c \in Conns : []<>(deaf[c] \/ conn[c].at \in {"loop", "none"})

\* docs/protocol.md: a PUT.BYTES whose disk failed "sends the error"; a record
\* under a key is the whole of some body.
StoredWhole == record = "nothing"

=============================================================================
