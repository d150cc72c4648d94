---------------------------- MODULE ServerProofs ----------------------------
(***************************************************************************)
(* Proofs, for any number of connections and slots, any lines and any      *)
(* limit, that every way out of a connection releases what it took, that   *)
(* lines and bodies never get out of step on a socket, that no wakeup is   *)
(* lost and that no body cut short becomes a record.                       *)
(*                                                                         *)
(* And, for any files and any number of writes, of the archives whose      *)
(* commands the server serves: what an export shows, what a refused import *)
(* leaves alone and what a restored file holds.                            *)
(***************************************************************************)
EXTENDS Server, Archive, WellFoundedInduction, FiniteSetTheorems, SequenceTheorems, TLAPS

\* The body a line announces, in the chunks its client will send.
Due(r) == IF r.command \notin Up THEN 0 ELSE IF r.length = NoLength THEN 1 ELSE r.length

\* Nothing but chunks from position i on.
Chunks(w, i) == \A j \in i..Len(w) : w[j] = Chunk

\* A line is on the socket, its body behind it or still owed.
LineSent(c) ==
    /\ Len(wire[c]) > 0 /\ wire[c][1] \in Requests
    /\ Chunks(wire[c], 2)
    /\ Len(wire[c]) - 1 + owes[c] = Due(wire[c][1])

\* Between the line and its reply, n chunks are still to be read.
BodyDue(c, n) == Chunks(wire[c], 1) /\ Len(wire[c]) + owes[c] = n

\* Where a task may have a file of its own.
Staging == {"receive", "drain", "commit", "send"}

\* What the socket holds, wherever the task of c is: the strengthening that
\* makes InStep inductive.
SocketInv(c) == LET k == conn[c] IN
    /\ k.at \notin {"send", "close", "save"} => expects[c] = 0
    /\ k.at = "send" => expects[c] = k.need
    /\ k.at \in {"none", "handshake", "authorize", "dispatch", "send"} \cup Waiting => AtRest(c)
    /\ k.at \in {"commit", "reply"} => k.torn \/ AtRest(c)
    /\ k.at = "loop" => AtRest(c) \/ LineSent(c)
    /\ k.at = "stage" => BodyDue(c, Due(k.request)) /\ k.request.command \in Up \cup Down
    /\ k.at \in {"receive", "drain"} => BodyDue(c, k.need)

\* What the task knows of the body it is receiving: a chunk that was lost
\* before the last one is missing from the count, or from a file that is gone.
StagingInv(c) == LET k == conn[c] IN
    /\ c \in staged => k.at \in Staging
    /\ k.at = "stage" => k.arrived = 0 /\ k.lost = "nothing" /\ ~k.refused /\ ~k.torn
    /\ k.at = "receive" => /\ k.lost = "nothing" /\ ~k.refused
                           /\ k.request.length \in Nat /\ k.arrived + k.need = k.request.length
    /\ k.at = "drain" /\ k.refused => c \notin staged
    /\ k.at = "commit" => ~k.refused
    /\ k.at \in {"drain", "commit"} /\ k.lost = "middle" =>
          c \notin staged \/ (k.request.length \in Nat /\ k.arrived < k.request.length)

IInv ==
    /\ TypeOK
    /\ EveryExitReleases
    /\ NoLostWakeup
    /\ ShortBodyRefused
    /\ \A c \in Conns : SocketInv(c) /\ StagingInv(c)

-----------------------------------------------------------------------------
(***************************************************************************)
(* What a task and a socket are made of.                                   *)
(***************************************************************************)

\* What the task of a connection may hold.
Tasks == [at : Places, request : Requests \cup {Idle}, need : Nat, arrived : Nat,
          lost : {"nothing", "middle", "tail"}, refused : BOOLEAN, torn : BOOLEAN,
          late : BOOLEAN, woken : BOOLEAN]

Wires == Seq(Requests \cup {Chunk})

\* A task of c that has just gone somewhere, and what it carries with it.
LEMMA ToFacts ==
    ASSUME TypeOK, NEW c \in Conns, NEW place \in Places, NEW torn \in BOOLEAN
    PROVE  /\ To(c, place, torn) \in Tasks
           /\ To(c, place, torn).at = place
           /\ To(c, place, torn).request = conn[c].request
           /\ To(c, place, torn).lost = "nothing"
           /\ To(c, place, torn).need = 0 /\ To(c, place, torn).arrived = 0
           /\ To(c, place, torn).torn = torn
           /\ ~To(c, place, torn).refused
<1>1. conn[c].request \in Requests \cup {Idle}
    BY DEF TypeOK
<1> QED
    BY <1>1 DEF To, Fresh, Tasks

\* A task that starts over.
LEMMA FreshFacts ==
    ASSUME NEW place \in Places
    PROVE  /\ Fresh(place) \in Tasks
           /\ Fresh(place).at = place
           /\ Fresh(place).lost = "nothing"
           /\ Fresh(place).need = 0 /\ Fresh(place).arrived = 0
           /\ ~Fresh(place).torn /\ ~Fresh(place).refused
BY DEF Fresh, Tasks

\* A line is not a chunk, and announces a number of chunks.
LEMMA LineFacts ==
    ASSUME NEW r \in Requests
    PROVE  /\ r # Chunk
           /\ Due(r) \in Nat
           /\ r.command \notin Up => Due(r) = 0
           /\ r.length # NoLength => r.length \in Nat
           /\ r.command \in Up /\ r.length # NoLength => Due(r) = r.length
<1>1. r.command \in Commands /\ r.length \in Nat \cup {NoLength}
    BY DEF Requests
<1>2. r # Chunk
    <2>1. r.command # "chunk"
        BY <1>1 DEF Commands, Up, Down
    <2>2. Chunk.command = "chunk"
        BY DEF Chunk, Request
    <2> QED
        BY <2>1, <2>2
<1> QED
    BY <1>1, <1>2 DEF Due

\* Where a line is taken.
LEMMA PlaceFacts ==
    ASSUME NEW r \in Requests
    PROVE  /\ NextPlace(r) \in {"reply", "dispatch", "register", "stage"}
           /\ NextPlace(r) # "stage" => r.command \notin Up
           /\ NextPlace(r) = "stage" => r.command \in Up \cup Down
<1>1. r.command \in Commands
    BY DEF Requests
<1>2. CASE r.command \in {"not JSON", "endless"}
    BY <1>2 DEF NextPlace, Up
<1>3. CASE r.command = "ENQUEUE"
    BY <1>3 DEF NextPlace, Up
<1>4. CASE r.command = "DEQUEUE"
    BY <1>4 DEF NextPlace, Up
<1>5. CASE r.command \in Up \cup Down
    BY <1>5 DEF NextPlace, Up, Down
<1> QED
    BY <1>1, <1>2, <1>3, <1>4, <1>5 DEF Commands

\* Reading the first item of a socket.
LEMMA TailFacts ==
    ASSUME NEW w \in Wires, w # <<>>
    PROVE  /\ Len(w) \in Nat /\ Len(w) > 0 /\ Head(w) = w[1]
           /\ Tail(w) \in Wires /\ Len(Tail(w)) = Len(w) - 1
           /\ Chunks(w, 2) => Chunks(Tail(w), 1)
           /\ Chunks(w, 1) => Chunks(Tail(w), 1) /\ Head(w) = Chunk
BY DEF Wires, Chunks

\* A chunk arriving at the end of a socket.
LEMMA AppendFacts ==
    ASSUME NEW w \in Wires
    PROVE  /\ Append(w, Chunk) \in Wires
           /\ Len(w) \in Nat /\ Len(Append(w, Chunk)) = Len(w) + 1
           /\ Chunks(w, 1) => Chunks(Append(w, Chunk), 1)
           /\ Chunks(w, 2) => Chunks(Append(w, Chunk), 2)
           /\ Len(w) > 0 => Append(w, Chunk)[1] = w[1]
BY DEF Wires, Chunks

\* Nothing on the socket and nothing owed.
LEMMA NoneLeft ==
    ASSUME NEW w \in Wires, NEW o \in Nat, Len(w) + o = 0
    PROVE  w = <<>> /\ o = 0
BY DEF Wires

\* A connection at rest has sent all of a body of no chunks.
LEMMA RestFacts ==
    ASSUME TypeOK, NEW c \in Conns
    PROVE  /\ BodyDue(c, 0) => AtRest(c)
           /\ AtRest(c) => BodyDue(c, 0)
<1>1. wire[c] \in Wires /\ owes[c] \in Nat
    BY DEF TypeOK, Wires
<1>2. Len(wire[c]) \in Nat /\ (wire[c] = <<>> <=> Len(wire[c]) = 0)
    BY <1>1 DEF Wires
<1>3. BodyDue(c, 0) => AtRest(c)
    BY <1>1, <1>2 DEF BodyDue, AtRest
<1>4. AtRest(c) => BodyDue(c, 0)
    BY <1>1, <1>2 DEF BodyDue, AtRest, Chunks
<1> QED
    BY <1>3, <1>4

-----------------------------------------------------------------------------
(***************************************************************************)
(* One task's step.                                                        *)
(***************************************************************************)

\* Places outside the registry of connections.
Unregistered == {"none", "handshake", "authorize", "save"}

Weight(k) == IF k.at = "none" THEN 0 ELSE 1

\* The live connections change with the one task that steps.
LEMMA LiveFacts ==
    ASSUME TypeOK, NEW c \in Conns, NEW k \in Tasks, conn' = [conn EXCEPT ![c] = k]
    PROVE  LET L == {d \in Conns : Live(d)} IN
           /\ Cardinality(L) \in Nat /\ Cardinality(L') \in Nat
           /\ Cardinality(L') + Weight(conn[c]) = Cardinality(L) + Weight(k)
<1> DEFINE L == {d \in Conns : Live(d)}
           M == {d \in Conns : Live(d)'}
<1>1. IsFiniteSet(L) /\ IsFiniteSet(M)
    BY ConnsAssumption, FS_Subset, L \subseteq Conns, M \subseteq Conns
<1>2. Cardinality(L) \in Nat /\ Cardinality(M) \in Nat
    BY <1>1, FS_CardinalityType
<1>3. /\ c \in M <=> k.at # "none"
      /\ c \in L <=> conn[c].at # "none"
      /\ \A d \in Conns \ {c} : d \in M <=> d \in L
    BY DEF Live, TypeOK
<1> HIDE DEF L, M
<1>4. L \subseteq Conns /\ M \subseteq Conns
    BY DEF L, M
<1>5. CASE k.at # "none" /\ conn[c].at = "none"
    <2>1. M = L \cup {c} /\ c \notin L
        BY <1>3, <1>4, <1>5
    <2> QED
        BY <1>1, <1>2, <1>5, <2>1, FS_AddElement DEF Weight, L, M
<1>6. CASE k.at = "none" /\ conn[c].at # "none"
    <2>1. L = M \cup {c} /\ c \notin M
        BY <1>3, <1>4, <1>6
    <2> QED
        BY <1>1, <1>2, <1>6, <2>1, FS_AddElement DEF Weight, L, M
<1>7. CASE (k.at = "none") = (conn[c].at = "none")
    <2>1. M = L
        BY <1>3, <1>4, <1>7
    <2> QED
        BY <1>2, <1>7, <2>1 DEF Weight, L, M
<1> QED
    BY <1>5, <1>6, <1>7

\* A step of one task keeps the invariant when it keeps it of that task, and
\* moves its permit and its registration with it.
LEMMA OneTask ==
    ASSUME IInv, NEW c \in Conns, NEW k \in Tasks, conn' = [conn EXCEPT ![c] = k],
           wire' \in [Conns -> Wires], owes' \in [Conns -> Nat], expects' \in [Conns -> Nat],
           hung' \in [Conns -> BOOLEAN], deaf' \in [Conns -> BOOLEAN],
           \A d \in Conns \ {c} : wire'[d] = wire[d] /\ owes'[d] = owes[d] /\ expects'[d] = expects[d],
           staged' \subseteq staged \cup {c}, authorized' \subseteq Conns, unsaved' \subseteq Conns,
           queue' \in [announced : 0..MaxReady, quiet : 0..MaxReady],
           queue'.announced <= queue.announced,
           record' \in {"nothing", "tail"},
           slots' \in Nat, slots' + Weight(k) = slots + Weight(conn[c]),
           active' = IF k.at \in Unregistered THEN active \ {c} ELSE active \cup {c},
           k.at \in {"empty", "nap"} /\ ~k.woken => queue'.announced = 0,
           SocketInv(c)', StagingInv(c)'
    PROVE  IInv'
<1> DEFINE L == {d \in Conns : Live(d)}
<1>1. conn' \in [Conns -> Tasks] /\ conn'[c] = k /\ \A d \in Conns \ {c} : conn'[d] = conn[d]
    BY DEF IInv, TypeOK, Tasks
<1>2. /\ Cardinality(L) \in Nat /\ Cardinality(L') \in Nat
      /\ Cardinality(L') + Weight(conn[c]) = Cardinality(L) + Weight(k)
    BY LiveFacts DEF IInv
<1>3. slots' + Cardinality(L') = MaxConnections
    <2>1. slots \in Nat /\ slots + Cardinality(L) = MaxConnections
        BY LimitAssumption DEF IInv, TypeOK, EveryExitReleases
    <2>2. Weight(k) \in Nat /\ Weight(conn[c]) \in Nat
        BY DEF Weight
    <2> HIDE DEF L
    <2> QED
        BY <1>2, <2>1, <2>2, LimitAssumption
<1>4. slots' \in 0..MaxConnections
    <2> HIDE DEF L
    <2> QED
        BY <1>2, <1>3, LimitAssumption
<1>5. TypeOK'
    <2>1. active' \subseteq Conns /\ staged' \subseteq Conns
        BY DEF IInv, TypeOK
    <2>2. record' \in {"nothing", "middle", "tail"}
        OBVIOUS
    <2> QED
        BY <1>1, <1>4, <2>1, <2>2 DEF TypeOK, Tasks, Wires
<1>6. EveryExitReleases'
    <2>1. active' = {d \in Conns : conn'[d].at \notin Unregistered}
        BY <1>1 DEF IInv, EveryExitReleases, Unregistered
    <2>2. \A d \in staged' : conn'[d].at \in Staging
        BY <1>1 DEF IInv, TypeOK, EveryExitReleases, StagingInv, Staging
    <2> QED
        BY <1>3, <2>1, <2>2 DEF EveryExitReleases, Unregistered, Staging
<1>7. NoLostWakeup'
    <2>1. queue.announced \in Nat /\ queue'.announced \in Nat
        BY LimitAssumption DEF IInv, TypeOK
    <2> QED
        BY <1>1, <2>1 DEF IInv, NoLostWakeup
<1>8. ShortBodyRefused'
    BY DEF ShortBodyRefused
<1>9. ASSUME NEW d \in Conns
      PROVE  SocketInv(d)' /\ StagingInv(d)'
    <2>1. CASE d # c
        <3>1. SocketInv(d)'
            <4>1. conn'[d] = conn[d] /\ wire'[d] = wire[d] /\ owes'[d] = owes[d] /\ expects'[d] = expects[d]
                BY <1>1, <2>1
            <4>2. (AtRest(d)' <=> AtRest(d)) /\ (LineSent(d)' <=> LineSent(d))
                BY <4>1 DEF AtRest, LineSent
            <4>3. \A n : BodyDue(d, n)' <=> BodyDue(d, n)
                BY <4>1 DEF BodyDue
            <4>4. SocketInv(d)
                BY DEF IInv
            <4> QED
                BY <4>1, <4>2, <4>3, <4>4 DEF SocketInv
        <3>2. StagingInv(d)'
            BY <1>1, <2>1 DEF IInv, StagingInv
        <3> QED
            BY <3>1, <3>2
    <2> QED
        BY <2>1
<1> QED
    BY <1>5, <1>6, <1>7, <1>8, <1>9 DEF IInv

\* A step within the life of a registered connection: the permit, the socket
\* and the record stay as they are.
LEMMA TaskStep ==
    ASSUME IInv, NEW c \in Conns, NEW k \in Tasks, conn' = [conn EXCEPT ![c] = k],
           UNCHANGED <<slots, netVars, active, authorized, record>>,
           k.at \notin Unregistered, conn[c].at \notin Unregistered,
           staged' \subseteq staged \cup {c}, unsaved' \subseteq Conns,
           queue' \in [announced : 0..MaxReady, quiet : 0..MaxReady],
           queue'.announced <= queue.announced,
           k.at \in {"empty", "nap"} /\ ~k.woken => queue'.announced = 0,
           SocketInv(c)', StagingInv(c)'
    PROVE  IInv'
<1>1. /\ wire' \in [Conns -> Wires] /\ owes' \in [Conns -> Nat] /\ expects' \in [Conns -> Nat]
      /\ hung' \in [Conns -> BOOLEAN] /\ deaf' \in [Conns -> BOOLEAN]
      /\ authorized' \subseteq Conns
    BY DEF netVars, IInv, TypeOK, Wires
<1>2. record' \in {"nothing", "tail"}
    BY DEF IInv, TypeOK, ShortBodyRefused
<1>3. slots' \in Nat /\ slots' + Weight(k) = slots + Weight(conn[c])
    BY LimitAssumption DEF IInv, TypeOK, Weight, Unregistered
<1>4. active' = IF k.at \in Unregistered THEN active \ {c} ELSE active \cup {c}
    BY DEF IInv, EveryExitReleases, Unregistered
<1> QED
    BY <1>1, <1>2, <1>3, <1>4, OneTask DEF netVars

\* A step no task takes.
LEMMA NoTask ==
    ASSUME IInv, UNCHANGED <<slots, conn, wire, owes, expects, active>>,
           hung' \in [Conns -> BOOLEAN], deaf' \in [Conns -> BOOLEAN],
           staged' \subseteq staged, authorized' \subseteq Conns, unsaved' \subseteq Conns,
           queue' \in [announced : 0..MaxReady, quiet : 0..MaxReady],
           queue'.announced = queue.announced,
           record' \in {"nothing", "tail"}
    PROVE  IInv'
<1>1. TypeOK'
    <2>1. staged' \subseteq Conns
        BY DEF IInv, TypeOK
    <2>2. record' \in {"nothing", "middle", "tail"}
        OBVIOUS
    <2> QED
        BY <2>1, <2>2 DEF IInv, TypeOK
<1>2. EveryExitReleases'
    BY DEF IInv, EveryExitReleases, Live
<1>3. NoLostWakeup' /\ ShortBodyRefused'
    BY DEF IInv, NoLostWakeup, ShortBodyRefused
<1>4. ASSUME NEW d \in Conns
      PROVE  SocketInv(d)' /\ StagingInv(d)'
    <2>1. (AtRest(d)' <=> AtRest(d)) /\ (LineSent(d)' <=> LineSent(d))
        BY DEF AtRest, LineSent
    <2>2. \A n : BodyDue(d, n)' <=> BodyDue(d, n)
        BY DEF BodyDue
    <2>3. SocketInv(d)'
        BY <2>1, <2>2 DEF IInv, SocketInv
    <2>4. StagingInv(d)'
        BY DEF IInv, StagingInv
    <2> QED
        BY <2>3, <2>4
<1> QED
    BY <1>1, <1>2, <1>3, <1>4 DEF IInv

\* The task of a connection that is no longer registered, and has no file of
\* its own, ends: its permit is free and the socket forgotten.
LEMMA GoneStep ==
    ASSUME IInv, NEW c \in Conns, Gone(c), conn[c].at # "none", c \notin staged,
           active' = active \ {c}, unsaved' \subseteq Conns,
           UNCHANGED <<authorized, queue, staged, record>>
    PROVE  IInv'
<1> USE DEF Gone
<1>1. Fresh("none") \in Tasks /\ Fresh("none").at = "none"
    BY FreshFacts DEF Places
<1>2. /\ wire' \in [Conns -> Wires] /\ owes' \in [Conns -> Nat] /\ expects' \in [Conns -> Nat]
      /\ hung' \in [Conns -> BOOLEAN] /\ deaf' \in [Conns -> BOOLEAN]
      /\ wire'[c] = <<>> /\ owes'[c] = 0 /\ expects'[c] = 0
      /\ \A d \in Conns \ {c} : wire'[d] = wire[d] /\ owes'[d] = owes[d] /\ expects'[d] = expects[d]
    BY DEF IInv, TypeOK, Wires
<1>3. record' \in {"nothing", "tail"}
    BY DEF IInv, TypeOK, ShortBodyRefused
<1>4. slots' \in Nat /\ slots' + Weight(Fresh("none")) = slots + Weight(conn[c])
    BY <1>1, LimitAssumption DEF IInv, TypeOK, Weight
<1>5. conn'[c] = Fresh("none")
    BY DEF IInv, TypeOK
<1>6. SocketInv(c)'
    BY <1>1, <1>2, <1>5 DEF SocketInv, AtRest, Waiting
<1>7. StagingInv(c)'
    BY <1>1, <1>5 DEF StagingInv
<1>8. /\ authorized' \subseteq Conns
      /\ queue' \in [announced : 0..MaxReady, quiet : 0..MaxReady]
      /\ queue'.announced <= queue.announced
    BY LimitAssumption DEF IInv, TypeOK
<1> HIDE DEF Gone
<1> QED
    BY <1>1, <1>2, <1>3, <1>4, <1>6, <1>7, <1>8, OneTask DEF Gone, Unregistered

-----------------------------------------------------------------------------
(***************************************************************************)
(* The actions.                                                            *)
(***************************************************************************)

\* The clients' steps.
LEMMA ClientInv ==
    ASSUME IInv, NEW c \in Conns, Client(c)
    PROVE  IInv'
<1> DEFINE k == conn[c]
<1>0. /\ k \in Tasks /\ conn' = [conn EXCEPT ![c] = k] /\ conn'[c] = k
      /\ wire[c] \in Wires /\ owes[c] \in Nat
      /\ SocketInv(c) /\ StagingInv(c)
      /\ UNCHANGED <<slots, conn, expects, active, authorized, storeVars>>
    BY DEF Client, SendLine, SendChunk, HangUp, StopOrResumeReading, IInv, TypeOK, Tasks, Wires
<1>1. ASSUME HangUp(c) \/ StopOrResumeReading(c)
      PROVE  IInv'
    <2>1. hung' \in [Conns -> BOOLEAN] /\ deaf' \in [Conns -> BOOLEAN]
        BY <1>1 DEF HangUp, StopOrResumeReading, IInv, TypeOK
    <2> QED
        BY <1>0, <1>1, <2>1, NoTask
           DEF HangUp, StopOrResumeReading, storeVars, IInv, TypeOK, ShortBodyRefused
<1>2. ASSUME wire' \in [Conns -> Wires], owes' \in [Conns -> Nat], UNCHANGED <<hung, deaf>>,
             \A d \in Conns \ {c} : wire'[d] = wire[d] /\ owes'[d] = owes[d],
             SocketInv(c)'
      PROVE  IInv'
    <2>1. /\ expects' \in [Conns -> Nat] /\ hung' \in [Conns -> BOOLEAN] /\ deaf' \in [Conns -> BOOLEAN]
          /\ authorized' \subseteq Conns /\ unsaved' \subseteq Conns
          /\ queue' \in [announced : 0..MaxReady, quiet : 0..MaxReady]
          /\ queue'.announced <= queue.announced
          /\ staged' = staged /\ record' \in {"nothing", "tail"}
        BY <1>0, <1>2, LimitAssumption DEF storeVars, IInv, TypeOK, ShortBodyRefused
    <2>2. StagingInv(c)'
        BY <1>0, <2>1 DEF StagingInv
    <2>3. slots' \in Nat /\ slots' + Weight(k) = slots + Weight(conn[c])
        BY <1>0, LimitAssumption DEF IInv, TypeOK, Weight
    <2>4. active' = IF k.at \in Unregistered THEN active \ {c} ELSE active \cup {c}
        BY <1>0 DEF IInv, EveryExitReleases, Unregistered
    <2>5. k.at \in {"empty", "nap"} /\ ~k.woken => queue'.announced = 0
        BY <1>0 DEF storeVars, IInv, NoLostWakeup
    <2>6. expects'[c] = expects[c] /\ \A d \in Conns \ {c} : expects'[d] = expects[d]
        BY <1>0
    <2> HIDE DEF k
    <2> QED
        BY <1>0, <1>2, <2>1, <2>2, <2>3, <2>4, <2>5, <2>6, OneTask
<1>3. ASSUME SendLine(c)
      PROVE  IInv'
    <2>1. PICK r \in Lines[c] :
             /\ conn[c].at = "loop" /\ AtRest(c)
             /\ wire' = [wire EXCEPT ![c] = <<r>>]
             /\ owes' = [owes EXCEPT ![c] = Due(r)]
             /\ UNCHANGED <<hung, deaf>>
        BY <1>3 DEF SendLine, Due
    <2>2. r \in Requests
        BY LinesAssumption
    <2>3. Due(r) \in Nat
        BY <2>2, LineFacts
    <2>4. <<r>> \in Wires /\ Len(<<r>>) = 1 /\ <<r>>[1] = r /\ Chunks(<<r>>, 2)
        BY <2>2 DEF Wires, Chunks
    <2>5. /\ wire' \in [Conns -> Wires] /\ owes' \in [Conns -> Nat]
          /\ wire'[c] = <<r>> /\ owes'[c] = Due(r)
          /\ \A d \in Conns \ {c} : wire'[d] = wire[d] /\ owes'[d] = owes[d]
        BY <2>1, <2>3, <2>4 DEF IInv, TypeOK, Wires
    <2>6. LineSent(c)'
        BY <2>2, <2>3, <2>4, <2>5 DEF LineSent
    <2>7. SocketInv(c)'
        BY <1>0, <2>1, <2>6 DEF SocketInv, Waiting
    <2> QED
        BY <1>2, <2>1, <2>5, <2>7
<1>4. ASSUME SendChunk(c)
      PROVE  IInv'
    <2>1. /\ k.at \in {"loop", "receive", "drain"} /\ owes[c] > 0
          /\ wire' = [wire EXCEPT ![c] = Append(wire[c], Chunk)]
          /\ owes' = [owes EXCEPT ![c] = owes[c] - 1]
          /\ UNCHANGED <<hung, deaf>>
        BY <1>4 DEF SendChunk, Reading
    <2>2. /\ Append(wire[c], Chunk) \in Wires
          /\ Len(wire[c]) \in Nat /\ Len(Append(wire[c], Chunk)) = Len(wire[c]) + 1
          /\ Chunks(wire[c], 1) => Chunks(Append(wire[c], Chunk), 1)
          /\ Chunks(wire[c], 2) => Chunks(Append(wire[c], Chunk), 2)
          /\ Len(wire[c]) > 0 => Append(wire[c], Chunk)[1] = wire[c][1]
        BY <1>0, AppendFacts
    <2>3. owes[c] - 1 \in Nat
        BY <1>0, <2>1
    <2>4. /\ wire' \in [Conns -> Wires] /\ owes' \in [Conns -> Nat]
          /\ wire'[c] = Append(wire[c], Chunk) /\ owes'[c] = owes[c] - 1
          /\ \A d \in Conns \ {c} : wire'[d] = wire[d] /\ owes'[d] = owes[d]
        BY <2>1, <2>2, <2>3 DEF IInv, TypeOK, Wires
    <2>5. LineSent(c) => LineSent(c)'
        <3> SUFFICES ASSUME LineSent(c) PROVE LineSent(c)'
            OBVIOUS
        <3>1. Len(wire[c]) > 0 /\ wire[c][1] \in Requests /\ Chunks(wire[c], 2)
            BY DEF LineSent
        <3>2. Len(wire[c]) - 1 + owes[c] = Due(wire[c][1])
            BY DEF LineSent
        <3>3. wire'[c][1] = wire[c][1] /\ Len(wire'[c]) = Len(wire[c]) + 1 /\ Chunks(wire'[c], 2)
            BY <2>2, <2>4, <3>1
        <3>4. Len(wire'[c]) - 1 + owes'[c] = Len(wire[c]) - 1 + owes[c]
            BY <1>0, <2>2, <2>4, <3>3
        <3>5. Len(wire'[c]) > 0
            BY <2>2, <3>3
        <3> QED
            BY <3>1, <3>2, <3>3, <3>4, <3>5 DEF LineSent
    <2>6. BodyDue(c, k.need) => BodyDue(c, k.need)'
        BY <1>0, <2>2, <2>4 DEF BodyDue
    <2>7. ~AtRest(c)
        BY <1>0, <2>1 DEF AtRest
    <2>8. SocketInv(c)'
        BY <1>0, <2>1, <2>5, <2>6, <2>7 DEF SocketInv, Waiting
    <2> QED
        BY <1>2, <2>1, <2>4, <2>8
<1> QED
    BY <1>1, <1>3, <1>4 DEF Client

\* The way in: a permit is taken, and the handshake and the registry decide.
LEMMA WayInInv ==
    ASSUME IInv, NEW c \in Conns, Accept(c) \/ Handshake(c) \/ CheckAuthorization(c)
    PROVE  IInv'
<1>0. /\ conn[c] \in Tasks /\ SocketInv(c) /\ StagingInv(c)
      /\ conn[c].at \in {"none", "handshake", "authorize"}
      /\ AtRest(c) /\ expects[c] = 0 /\ c \notin staged /\ c \notin active
      /\ UNCHANGED <<authorized, storeVars>>
    <2>1. /\ conn[c] \in Tasks /\ SocketInv(c) /\ StagingInv(c)
          /\ conn[c].at \in {"none", "handshake", "authorize"}
          /\ UNCHANGED <<authorized, storeVars>>
        BY DEF Accept, Handshake, CheckAuthorization, IInv, TypeOK, Tasks
    <2> QED
        BY <2>1 DEF SocketInv, StagingInv, Staging, IInv, EveryExitReleases
<1>1. ASSUME NEW k \in Tasks, conn' = [conn EXCEPT ![c] = k], k.at \in {"handshake", "authorize", "loop"},
             UNCHANGED netVars, slots' \in Nat, slots' + Weight(k) = slots + Weight(conn[c]),
             active' = IF k.at \in Unregistered THEN active \ {c} ELSE active \cup {c}
      PROVE  IInv'
    <2>1. conn'[c] = k
        BY <1>1 DEF IInv, TypeOK
    <2>2. SocketInv(c)'
        BY <1>0, <1>1, <2>1 DEF SocketInv, AtRest, netVars, Waiting
    <2>3. StagingInv(c)'
        BY <1>0, <1>1, <2>1 DEF StagingInv, storeVars
    <2>4. /\ wire' \in [Conns -> Wires] /\ owes' \in [Conns -> Nat] /\ expects' \in [Conns -> Nat]
          /\ hung' \in [Conns -> BOOLEAN] /\ deaf' \in [Conns -> BOOLEAN]
          /\ \A d \in Conns \ {c} : wire'[d] = wire[d] /\ owes'[d] = owes[d] /\ expects'[d] = expects[d]
        BY <1>1 DEF netVars, IInv, TypeOK, Wires
    <2>5. /\ authorized' \subseteq Conns /\ unsaved' \subseteq Conns
          /\ queue' \in [announced : 0..MaxReady, quiet : 0..MaxReady]
          /\ queue'.announced <= queue.announced
          /\ staged' = staged /\ record' \in {"nothing", "tail"}
        BY <1>0, LimitAssumption DEF storeVars, IInv, TypeOK, ShortBodyRefused
    <2> QED
        BY <1>1, <2>2, <2>3, <2>4, <2>5, OneTask
<1>2. ASSUME Gone(c), active' = active, conn[c].at # "none"
      PROVE  IInv'
    <2>1. active' = active \ {c}
        BY <1>0, <1>2
    <2>2. unsaved' \subseteq Conns
        BY <1>0 DEF storeVars, IInv, TypeOK
    <2> QED
        BY <1>0, <1>2, <2>1, <2>2, GoneStep DEF storeVars
<1>3. ASSUME Accept(c)
      PROVE  IInv'
    <2>1. Fresh("handshake") \in Tasks /\ Fresh("handshake").at = "handshake"
        BY FreshFacts DEF Places
    <2>2. slots' \in Nat /\ slots' + Weight(Fresh("handshake")) = slots + Weight(conn[c])
        BY <1>3, <2>1, LimitAssumption DEF Accept, Weight, IInv, TypeOK
    <2>3. active' = IF Fresh("handshake").at \in Unregistered THEN active \ {c} ELSE active \cup {c}
        BY <1>0, <1>3, <2>1 DEF Accept, Unregistered
    <2> QED
        BY <1>1, <1>3, <2>1, <2>2, <2>3 DEF Accept
<1>4. ASSUME Handshake(c)
      PROVE  IInv'
    <2>1. CASE Gone(c)
        BY <1>2, <1>4, <2>1 DEF Handshake
    <2>2. CASE conn' = [conn EXCEPT ![c].at = "authorize"] /\ UNCHANGED <<slots, netVars>>
        <3> DEFINE k == [conn[c] EXCEPT !.at = "authorize"]
        <3>1. k \in Tasks /\ k.at = "authorize" /\ conn' = [conn EXCEPT ![c] = k]
            BY <1>0, <2>2 DEF Tasks, Places
        <3> HIDE DEF k
        <3>2. slots' \in Nat /\ slots' + Weight(k) = slots + Weight(conn[c])
            BY <1>4, <2>2, <3>1, LimitAssumption DEF Handshake, Weight, IInv, TypeOK
        <3>3. active' = IF k.at \in Unregistered THEN active \ {c} ELSE active \cup {c}
            BY <1>0, <1>4, <3>1 DEF Handshake, Unregistered
        <3> QED
            BY <1>1, <2>2, <3>1, <3>2, <3>3
    <2> QED
        BY <1>4, <2>1, <2>2 DEF Handshake
<1>5. ASSUME CheckAuthorization(c)
      PROVE  IInv'
    <2>1. CASE Gone(c) /\ UNCHANGED active
        BY <1>2, <1>5, <2>1 DEF CheckAuthorization
    <2>2. CASE conn' = [conn EXCEPT ![c].at = "loop"] /\ active' = active \cup {c} /\ UNCHANGED <<slots, netVars>>
        <3> DEFINE k == [conn[c] EXCEPT !.at = "loop"]
        <3>1. k \in Tasks /\ k.at = "loop" /\ conn' = [conn EXCEPT ![c] = k]
            BY <1>0, <2>2 DEF Tasks, Places
        <3> HIDE DEF k
        <3>2. slots' \in Nat /\ slots' + Weight(k) = slots + Weight(conn[c])
            BY <1>5, <2>2, <3>1, LimitAssumption DEF CheckAuthorization, Weight, IInv, TypeOK
        <3>3. active' = IF k.at \in Unregistered THEN active \ {c} ELSE active \cup {c}
            BY <2>2, <3>1 DEF Unregistered
        <3> QED
            BY <1>1, <2>2, <3>1, <3>2, <3>3
    <2> QED
        BY <1>5, <2>1, <2>2 DEF CheckAuthorization
<1> QED
    BY <1>3, <1>4, <1>5

\* A connection with nothing on its socket goes from a request to its reply, or
\* to wherever a waiter waits.
LEMMA RestStep ==
    ASSUME IInv, NEW c \in Conns, NEW k \in Tasks, conn' = [conn EXCEPT ![c] = k],
           UNCHANGED <<slots, netVars, active, authorized, staged, record>>,
           conn[c].at \notin Unregistered, c \notin staged, AtRest(c), expects[c] = 0,
           k.at \in Waiting \cup {"reply"}, unsaved' \subseteq Conns,
           queue' \in [announced : 0..MaxReady, quiet : 0..MaxReady],
           queue'.announced <= queue.announced,
           k.at \in {"empty", "nap"} /\ ~k.woken => queue'.announced = 0
    PROVE  IInv'
<1>1. conn'[c] = k
    BY DEF IInv, TypeOK
<1>2. SocketInv(c)'
    BY <1>1 DEF SocketInv, AtRest, netVars, Waiting
<1>3. StagingInv(c)'
    BY <1>1 DEF StagingInv, Waiting
<1>4. k.at \notin Unregistered
    BY DEF Waiting, Unregistered
<1> QED
    BY <1>2, <1>3, <1>4, TaskStep

\* dequeue_waiting: the socket is quiet throughout, and a consumer that finds
\* the queue empty is registered for the signal already.
LEMMA WaitInv ==
    ASSUME IInv, NEW c \in Conns,
           Register(c) \/ Attempt(c) \/ Sleep(c) \/ Wake(c) \/ Deadline(c)
    PROVE  IInv'
<1> DEFINE k == conn[c]
<1>0. /\ k \in Tasks /\ k.at \in Waiting /\ k.at \notin Unregistered
      /\ AtRest(c) /\ expects[c] = 0 /\ c \notin staged
      /\ UNCHANGED <<slots, netVars, active, authorized, staged, record>>
    <2>1. /\ k \in Tasks /\ SocketInv(c) /\ StagingInv(c) /\ k.at \in Waiting
          /\ UNCHANGED <<slots, netVars, active, authorized, staged, record>>
        BY DEF Register, Attempt, Sleep, Wake, Deadline, IInv, TypeOK, Tasks, Waiting, storeVars
    <2> QED
        BY <2>1 DEF SocketInv, StagingInv, Staging, Waiting, Unregistered
<1>1. /\ queue \in [announced : 0..MaxReady, quiet : 0..MaxReady] /\ queue.announced \in Nat
      /\ queue.quiet \in Nat /\ unsaved \subseteq Conns
      /\ k.at \in {"empty", "nap"} /\ ~k.woken => queue.announced = 0
    BY LimitAssumption DEF IInv, TypeOK, NoLostWakeup
<1>10. ASSUME UNCHANGED <<queue, unsaved>>
       PROVE  /\ queue' \in [announced : 0..MaxReady, quiet : 0..MaxReady]
              /\ queue'.announced <= queue.announced /\ unsaved' \subseteq Conns
    BY <1>1, <1>10
<1>2. ASSUME NEW torn \in BOOLEAN, Answer(c, torn), unsaved' \subseteq Conns,
             queue' \in [announced : 0..MaxReady, quiet : 0..MaxReady],
             queue'.announced <= queue.announced
      PROVE  IInv'
    <2>1. To(c, "reply", torn) \in Tasks /\ To(c, "reply", torn).at = "reply"
        BY ToFacts DEF IInv, Places
    <2> QED
        BY <1>0, <1>2, <2>1, RestStep DEF Answer
<1>3. ASSUME NEW place \in Waiting, NEW woken \in BOOLEAN, NEW late \in BOOLEAN,
             conn' = [conn EXCEPT ![c] = [k EXCEPT !.at = place, !.woken = woken, !.late = late]],
             place \in {"empty", "nap"} /\ ~woken => queue.announced = 0,
             UNCHANGED <<queue, unsaved>>
      PROVE  IInv'
    <2> DEFINE n == [k EXCEPT !.at = place, !.woken = woken, !.late = late]
    <2>1. n \in Tasks /\ n.at = place /\ n.woken = woken
        BY <1>0 DEF Tasks, Places
    <2> HIDE DEF n
    <2>2. n.at \in {"empty", "nap"} /\ ~n.woken => queue'.announced = 0
        BY <1>3, <2>1
    <2>3. conn' = [conn EXCEPT ![c] = n]
        BY <1>3 DEF n
    <2>4. n.at \in Waiting \cup {"reply"}
        BY <2>1
    <2> QED
        BY <1>0, <1>3, <1>10, <2>1, <2>2, <2>3, <2>4, RestStep
<1>4. k.woken \in BOOLEAN /\ k.late \in BOOLEAN
    BY <1>0 DEF Tasks
<1>5. ASSUME Register(c)
      PROVE  IInv'
    <2>1. conn' = [conn EXCEPT ![c] = [k EXCEPT !.at = "attempt", !.woken = FALSE, !.late = k.late]]
        BY <1>0, <1>5 DEF Register, Tasks
    <2> QED
        BY <1>3, <1>4, <1>5, <2>1 DEF Register, storeVars, Waiting
<1>6. ASSUME Sleep(c)
      PROVE  IInv'
    <2>1. CASE k.late
        BY <1>2, <1>6, <1>10, <2>1 DEF Sleep, storeVars
    <2>2. CASE ~k.late
        <3>1. conn' = [conn EXCEPT ![c] = [k EXCEPT !.at = "nap", !.woken = k.woken, !.late = k.late]]
            BY <1>0, <1>6, <2>2 DEF Sleep, Tasks
        <3> QED
            BY <1>1, <1>3, <1>4, <1>6, <3>1 DEF Sleep, storeVars, Waiting
    <2> QED
        BY <2>1, <2>2
<1>7. ASSUME Wake(c)
      PROVE  IInv'
    <2>1. conn' = [conn EXCEPT ![c] = [k EXCEPT !.at = "register", !.woken = k.woken, !.late = k.late]]
        BY <1>0, <1>7 DEF Wake, Tasks
    <2> QED
        BY <1>3, <1>4, <1>7, <2>1 DEF Wake, storeVars, Waiting
<1>8. ASSUME Deadline(c)
      PROVE  IInv'
    <2>1. conn' = [conn EXCEPT ![c] = [k EXCEPT !.at = k.at, !.woken = k.woken, !.late = TRUE]]
        BY <1>0, <1>8 DEF Deadline, Tasks
    <2> QED
        BY <1>0, <1>1, <1>3, <1>4, <1>8, <2>1 DEF Deadline, storeVars
<1>9. ASSUME Attempt(c)
      PROVE  IInv'
    <2>1. ASSUME NEW kind \in {"announced", "quiet"}, queue[kind] > 0,
                 queue' = [queue EXCEPT ![kind] = @ - 1], unsaved' = unsaved \cup {c}, Answer(c, FALSE)
          PROVE  IInv'
        <3>1. queue' \in [announced : 0..MaxReady, quiet : 0..MaxReady] /\ queue'.announced <= queue.announced
            BY <1>1, <2>1, LimitAssumption
        <3> QED
            BY <1>1, <1>2, <2>1, <3>1
    <2>2. CASE queue.announced + queue.quiet = 0 /\ conn' = [conn EXCEPT ![c].at = "empty"] /\ UNCHANGED <<queue, unsaved>>
        <3>1. conn' = [conn EXCEPT ![c] = [k EXCEPT !.at = "empty", !.woken = k.woken, !.late = k.late]]
            BY <1>0, <2>2 DEF Tasks
        <3>2. queue.announced = 0
            BY <1>1, <2>2
        <3> QED
            BY <1>3, <1>4, <2>2, <3>1, <3>2 DEF Waiting
    <2>3. CASE Answer(c, TRUE) /\ UNCHANGED <<queue, unsaved>>
        BY <1>2, <1>10, <2>3
    <2> QED
        BY <1>9, <2>1, <2>2, <2>3 DEF Attempt
<1> QED
    BY <1>5, <1>6, <1>7, <1>8, <1>9

\* A step within the life of a connection that is no wait: of the store it
\* touches only the connection's own file.
LEMMA MoveStep ==
    ASSUME IInv, NEW c \in Conns, NEW k \in Tasks, conn' = [conn EXCEPT ![c] = k],
           UNCHANGED <<slots, netVars, active, authorized, unsaved, queue, record>>,
           k.at \notin Unregistered, k.at \notin {"empty", "nap"}, conn[c].at \notin Unregistered,
           staged' \subseteq staged \cup {c},
           SocketInv(c)', StagingInv(c)'
    PROVE  IInv'
<1>1. /\ queue' \in [announced : 0..MaxReady, quiet : 0..MaxReady]
      /\ queue'.announced <= queue.announced /\ unsaved' \subseteq Conns
    <2>1. queue.announced \in Nat
        BY LimitAssumption DEF IInv, TypeOK
    <2> QED
        BY <2>1 DEF IInv, TypeOK
<1> QED
    BY <1>1, TaskStep

\* Reading lines, answering them and stopping: where a line's body is left on
\* the socket, the reply ends the connection.
LEMMA LoopInv ==
    ASSUME IInv, NEW c \in Conns, ReadLine(c) \/ StopReadingLines(c) \/ Reply(c)
    PROVE  IInv'
<1>0. /\ conn[c] \in Tasks /\ SocketInv(c) /\ StagingInv(c)
      /\ wire[c] \in Wires /\ owes[c] \in Nat
      /\ conn[c].at \in {"loop", "reply"} /\ c \notin staged
    <2>1. /\ conn[c] \in Tasks /\ SocketInv(c) /\ StagingInv(c) /\ conn[c].at \in {"loop", "reply"}
          /\ wire[c] \in Wires /\ owes[c] \in Nat
        BY DEF ReadLine, StopReadingLines, Reply, IInv, TypeOK, Tasks, Wires
    <2> QED
        BY <2>1 DEF StagingInv, Staging
<1>1. conn[c].at \notin Unregistered
    BY <1>0 DEF Unregistered
<1>2. ASSUME ReadLine(c)
      PROVE  IInv'
    <2>0. PICK r : r = Head(wire[c])
        OBVIOUS
    <2>1. /\ conn[c].at = "loop" /\ wire[c] # <<>> /\ r # Chunk
          /\ wire' = [wire EXCEPT ![c] = Tail(wire[c])]
          /\ conn' = [conn EXCEPT ![c] = [Fresh(NextPlace(r)) EXCEPT !.request = r,
                                                                     !.torn = (r.command = "endless")]]
          /\ UNCHANGED <<slots, owes, expects, hung, deaf, active, authorized, storeVars>>
        BY <1>2, <2>0 DEF ReadLine
    <2>2. LineSent(c)
        BY <1>0, <2>1 DEF SocketInv, AtRest
    <2>3. /\ Len(wire[c]) \in Nat /\ Len(wire[c]) > 0 /\ r = wire[c][1]
          /\ Tail(wire[c]) \in Wires /\ Len(Tail(wire[c])) = Len(wire[c]) - 1
          /\ Chunks(Tail(wire[c]), 1)
        BY <1>0, <2>0, <2>1, <2>2, TailFacts DEF LineSent
    <2>4. r \in Requests /\ Len(Tail(wire[c])) + owes[c] = Due(r)
        BY <2>2, <2>3 DEF LineSent
    <2>5. /\ NextPlace(r) \in {"reply", "dispatch", "register", "stage"}
          /\ NextPlace(r) # "stage" => r.command \notin Up
          /\ NextPlace(r) = "stage" => r.command \in Up \cup Down
        BY <2>4, PlaceFacts
    <2> DEFINE k == [Fresh(NextPlace(r)) EXCEPT !.request = r, !.torn = (r.command = "endless")]
    <2>6. /\ k \in Tasks /\ k.at = NextPlace(r) /\ k.request = r
          /\ k.lost = "nothing" /\ k.arrived = 0 /\ ~k.refused
          /\ k.at = "stage" => ~k.torn
        <3>1. NextPlace(r) \in Places
            BY <2>5 DEF Places, Waiting
        <3>2. r.command = "endless" => NextPlace(r) # "stage"
            BY <2>5 DEF Up, Down
        <3> QED
            BY <2>4, <3>1, <3>2 DEF Fresh, Tasks
    <2> HIDE DEF k
    <2>7. /\ conn'[c] = k
          /\ wire' \in [Conns -> Wires] /\ wire'[c] = Tail(wire[c])
          /\ \A d \in Conns \ {c} : wire'[d] = wire[d]
        BY <2>1, <2>3 DEF IInv, TypeOK, Wires, k
    <2>8. BodyDue(c, Due(r))'
        BY <2>1, <2>3, <2>4, <2>7 DEF BodyDue
    <2>9. k.at # "stage" => AtRest(c)'
        <3> SUFFICES ASSUME k.at # "stage" PROVE AtRest(c)'
            OBVIOUS
        <3>1. Len(Tail(wire[c])) + owes[c] = 0
            BY <2>4, <2>5, <2>6 DEF Due
        <3>2. Tail(wire[c]) = <<>> /\ owes[c] = 0
            BY <1>0, <2>3, <3>1, NoneLeft
        <3> QED
            BY <2>1, <2>7, <3>2 DEF AtRest
    <2>10. expects'[c] = 0
        BY <1>0, <2>1 DEF SocketInv
    <2>11. SocketInv(c)'
        <3>1. k.at \in {"reply", "dispatch", "register", "stage"}
            BY <2>5, <2>6
        <3>2. k.at = "stage" => BodyDue(c, Due(k.request))' /\ k.request.command \in Up \cup Down
            BY <2>5, <2>6, <2>8
        <3> QED
            BY <2>7, <2>9, <2>10, <3>1, <3>2 DEF SocketInv, Waiting
    <2>12. StagingInv(c)'
        BY <1>0, <2>1, <2>5, <2>6, <2>7 DEF StagingInv, storeVars
    <2>13. /\ owes' \in [Conns -> Nat] /\ expects' \in [Conns -> Nat]
           /\ hung' \in [Conns -> BOOLEAN] /\ deaf' \in [Conns -> BOOLEAN]
           /\ \A d \in Conns \ {c} : wire'[d] = wire[d] /\ owes'[d] = owes[d] /\ expects'[d] = expects[d]
           /\ authorized' \subseteq Conns /\ unsaved' \subseteq Conns
           /\ queue' \in [announced : 0..MaxReady, quiet : 0..MaxReady]
           /\ queue'.announced <= queue.announced
           /\ staged' = staged /\ record' \in {"nothing", "tail"}
        BY <2>1, <2>7, LimitAssumption DEF storeVars, IInv, TypeOK, ShortBodyRefused
    <2>14. slots' \in Nat /\ slots' + Weight(k) = slots + Weight(conn[c])
        BY <2>1, <2>5, <2>6, LimitAssumption DEF IInv, TypeOK, Weight
    <2>15. active' = IF k.at \in Unregistered THEN active \ {c} ELSE active \cup {c}
        BY <1>1, <2>1, <2>5, <2>6 DEF IInv, EveryExitReleases, Unregistered
    <2>16. k.at \notin {"empty", "nap"}
        BY <2>5, <2>6
    <2> QED
        BY <2>1, <2>6, <2>7, <2>11, <2>12, <2>13, <2>14, <2>15, <2>16, OneTask DEF k
<1>3. ASSUME StopReadingLines(c)
      PROVE  IInv'
    <2> DEFINE k == To(c, "close", FALSE)
    <2>1. k \in Tasks /\ k.at = "close"
        BY ToFacts DEF IInv, Places
    <2> HIDE DEF k
    <2>2. conn' = [conn EXCEPT ![c] = k] /\ UNCHANGED <<slots, netVars, active, authorized, storeVars>>
        BY <1>3 DEF StopReadingLines, Go, k
    <2>3. conn'[c] = k
        BY <2>2 DEF IInv, TypeOK
    <2>4. SocketInv(c)'
        BY <2>1, <2>3 DEF SocketInv, Waiting
    <2>5. StagingInv(c)'
        BY <1>0, <2>1, <2>2, <2>3 DEF StagingInv, storeVars
    <2> QED
        BY <1>1, <2>1, <2>2, <2>4, <2>5, MoveStep DEF Unregistered, storeVars
<1>4. ASSUME Reply(c)
      PROVE  IInv'
    <2> DEFINE place == IF conn[c].torn \/ (hung[c] /\ conn[c].request.command \in Up \cup Down)
                          THEN "close" ELSE "loop"
               k == Fresh(place)
    <2>1. place \in {"close", "loop"} /\ (place = "loop" => ~conn[c].torn)
        OBVIOUS
    <2>2. /\ conn[c].at = "reply" /\ conn' = [conn EXCEPT ![c] = k]
          /\ UNCHANGED <<slots, netVars, active, authorized, storeVars>>
        BY <1>4 DEF Reply
    <2> HIDE DEF place
    <2>3. k \in Tasks /\ k.at = place
        BY <2>1, FreshFacts DEF Places
    <2> HIDE DEF k
    <2>4. conn'[c] = k
        BY <2>2 DEF IInv, TypeOK
    <2>5. k.at = "loop" => AtRest(c)' /\ expects'[c] = 0
        BY <1>0, <2>1, <2>2, <2>3 DEF SocketInv, AtRest, netVars
    <2>6. SocketInv(c)'
        BY <2>1, <2>3, <2>4, <2>5 DEF SocketInv, Waiting
    <2>7. StagingInv(c)'
        BY <1>0, <2>1, <2>2, <2>3, <2>4 DEF StagingInv, storeVars
    <2> QED
        BY <1>1, <2>1, <2>2, <2>3, <2>6, <2>7, MoveStep DEF Unregistered, storeVars
<1> QED
    BY <1>2, <1>3, <1>4

\* ENQUEUE: every waiter that has registered hears of the record.
LEMMA DispatchInv ==
    ASSUME IInv, NEW c \in Conns, Dispatch(c)
    PROVE  IInv'
<1>0. /\ conn[c] \in Tasks /\ conn[c].at = "dispatch" /\ conn[c].at \notin Unregistered
      /\ AtRest(c) /\ expects[c] = 0 /\ c \notin staged
      /\ UNCHANGED <<slots, netVars, active, authorized, staged, record>>
    <2>1. /\ conn[c] \in Tasks /\ SocketInv(c) /\ StagingInv(c) /\ conn[c].at = "dispatch"
          /\ UNCHANGED <<slots, netVars, active, authorized, staged, record>>
        BY DEF Dispatch, IInv, TypeOK, Tasks
    <2> QED
        BY <2>1 DEF SocketInv, StagingInv, Staging, Unregistered
<1>1. /\ queue \in [announced : 0..MaxReady, quiet : 0..MaxReady]
      /\ queue.announced \in Nat /\ queue.quiet \in Nat /\ unsaved \subseteq Conns
    BY LimitAssumption DEF IInv, TypeOK
<1>2. ASSUME NEW torn \in BOOLEAN
      PROVE  /\ To(c, "reply", torn) \in Tasks /\ To(c, "reply", torn).at = "reply"
             /\ To(c, "reply", torn).request = conn[c].request
    BY ToFacts DEF IInv, Places
<1>3. ASSUME NEW torn \in BOOLEAN, Answer(c, torn), UNCHANGED <<queue, unsaved>>
      PROVE  IInv'
    <2>1. /\ queue' \in [announced : 0..MaxReady, quiet : 0..MaxReady]
          /\ queue'.announced <= queue.announced /\ unsaved' \subseteq Conns
        BY <1>1, <1>3
    <2> QED
        BY <1>0, <1>2, <1>3, <2>1, RestStep DEF Answer
<1>4. ASSUME queue.announced + queue.quiet < MaxReady,
             queue' = [queue EXCEPT !.announced = @ + 1],
             unsaved' = unsaved \cup {c},
             conn' = [d \in Conns |->
                        IF d = c THEN To(c, "reply", FALSE)
                        ELSE IF Registered(d) THEN [conn[d] EXCEPT !.woken = TRUE] ELSE conn[d]]
      PROVE  IInv'
    <2>1. conn'[c] = To(c, "reply", FALSE)
        BY <1>4
    <2>2. ASSUME NEW d \in Conns \ {c}
          PROVE  /\ conn'[d] \in Tasks
                 /\ conn'[d].at = conn[d].at /\ conn'[d].request = conn[d].request
                 /\ conn'[d].need = conn[d].need /\ conn'[d].arrived = conn[d].arrived
                 /\ conn'[d].lost = conn[d].lost /\ (conn'[d].refused <=> conn[d].refused)
                 /\ conn'[d].torn <=> conn[d].torn
                 /\ Registered(d) => conn'[d].woken
        <3>1. conn[d] \in Tasks
            BY DEF IInv, TypeOK, Tasks
        <3>2. conn'[d] = IF Registered(d) THEN [conn[d] EXCEPT !.woken = TRUE] ELSE conn[d]
            BY <1>4
        <3> QED
            BY <3>1, <3>2 DEF Tasks
    <2>3. TypeOK'
        <3>1. conn' \in [Conns -> Tasks]
            BY <1>2, <1>4, <2>1, <2>2
        <3>2. queue' \in [announced : 0..MaxReady, quiet : 0..MaxReady]
            BY <1>1, <1>4, LimitAssumption
        <3>3. unsaved' \subseteq Conns
            BY <1>1, <1>4
        <3> QED
            BY <1>0, <3>1, <3>2, <3>3 DEF IInv, TypeOK, netVars, Tasks
    <2>4. EveryExitReleases'
        <3>1. \A d \in Conns : /\ Live(d)' <=> Live(d)
                               /\ conn'[d].at \in Unregistered <=> conn[d].at \in Unregistered
            BY <1>0, <1>2, <2>1, <2>2 DEF Live, Unregistered
        <3>2. {d \in Conns : Live(d)'} = {d \in Conns : Live(d)}
            BY <3>1
        <3>3. slots' + Cardinality({d \in Conns : Live(d)'}) = MaxConnections
            BY <1>0, <3>2 DEF IInv, EveryExitReleases
        <3>4. active' = {d \in Conns : conn'[d].at \notin Unregistered}
            BY <1>0, <3>1 DEF IInv, EveryExitReleases, Unregistered
        <3>5. \A d \in staged' : conn'[d].at \in Staging
            BY <1>0, <2>2 DEF IInv, TypeOK, EveryExitReleases, Staging
        <3> QED
            BY <3>3, <3>4, <3>5 DEF EveryExitReleases, Unregistered, Staging
    <2>5. NoLostWakeup'
        BY <1>2, <2>1, <2>2 DEF NoLostWakeup, Registered
    <2>6. ShortBodyRefused'
        BY <1>0 DEF IInv, ShortBodyRefused
    <2>7. ASSUME NEW d \in Conns
          PROVE  SocketInv(d)' /\ StagingInv(d)'
        <3>1. wire'[d] = wire[d] /\ owes'[d] = owes[d] /\ expects'[d] = expects[d] /\ staged' = staged
            BY <1>0 DEF netVars
        <3>2. (AtRest(d)' <=> AtRest(d)) /\ (LineSent(d)' <=> LineSent(d))
            BY <3>1 DEF AtRest, LineSent
        <3>3. \A n : BodyDue(d, n)' <=> BodyDue(d, n)
            BY <3>1 DEF BodyDue
        <3>4. CASE d = c
            BY <1>0, <1>2, <2>1, <3>1, <3>2, <3>4 DEF SocketInv, StagingInv, Waiting
        <3>5. CASE d # c
            <4>1. SocketInv(d) /\ StagingInv(d)
                BY DEF IInv
            <4>2. SocketInv(d)'
                BY <2>2, <3>1, <3>2, <3>3, <3>5, <4>1 DEF SocketInv
            <4>3. StagingInv(d)'
                BY <2>2, <3>1, <3>5, <4>1 DEF StagingInv
            <4> QED
                BY <4>2, <4>3
        <3> QED
            BY <3>4, <3>5
    <2> QED
        BY <2>3, <2>4, <2>5, <2>6, <2>7 DEF IInv
<1> QED
    BY <1>3, <1>4 DEF Dispatch

\* A request at the point where it is staged.
LEMMA StageFacts ==
    ASSUME IInv, NEW c \in Conns, conn[c].at = "stage"
    PROVE  /\ conn[c] \in Tasks /\ conn[c].request \in Requests /\ conn[c].at \notin Unregistered
           /\ conn[c].arrived = 0 /\ conn[c].lost = "nothing" /\ ~conn[c].refused /\ ~conn[c].torn
           /\ c \notin staged /\ expects[c] = 0
           /\ conn[c].request.command \in Up \cup Down
           /\ BodyDue(c, Due(conn[c].request))
           /\ conn[c].request.command \notin Up => AtRest(c)
<1>1. conn[c] \in Tasks /\ SocketInv(c) /\ StagingInv(c) /\ TypeOK
    BY DEF IInv, TypeOK, Tasks
<1>2. /\ conn[c].arrived = 0 /\ conn[c].lost = "nothing" /\ ~conn[c].refused /\ ~conn[c].torn
      /\ c \notin staged /\ expects[c] = 0
      /\ conn[c].request.command \in Up \cup Down
      /\ BodyDue(c, Due(conn[c].request))
    BY <1>1 DEF SocketInv, StagingInv, Staging
<1>3. conn[c].request \in Requests
    <2>1. conn[c].request \in Requests \cup {Idle}
        BY <1>1 DEF Tasks
    <2>2. Idle.command = "none"
        BY DEF Idle, Request
    <2> QED
        BY <1>2, <2>1, <2>2 DEF Up, Down
<1>4. conn[c].request.command \notin Up => AtRest(c)
    BY <1>1, <1>2, RestFacts DEF Due
<1>5. conn[c].at \notin Unregistered
    BY DEF Unregistered
<1> QED
    BY <1>1, <1>2, <1>3, <1>4, <1>5

\* A reply that ends the connection, or finds its socket at rest.
LEMMA AnswerStep ==
    ASSUME IInv, NEW c \in Conns, NEW torn \in BOOLEAN, Answer(c, torn),
           conn[c].at \notin Unregistered, torn \/ AtRest(c), expects[c] = 0,
           staged' \subseteq staged, c \notin staged',
           UNCHANGED <<slots, netVars, active, authorized, unsaved, queue, record>>
    PROVE  IInv'
<1> DEFINE k == To(c, "reply", torn)
<1>1. k \in Tasks /\ k.at = "reply" /\ k.torn = torn
    BY ToFacts DEF IInv, Places
<1>2. conn' = [conn EXCEPT ![c] = k]
    BY DEF Answer
<1> HIDE DEF k
<1>3. conn'[c] = k
    BY <1>2 DEF IInv, TypeOK
<1>4. SocketInv(c)'
    BY <1>1, <1>3 DEF SocketInv, AtRest, netVars, Waiting
<1>5. StagingInv(c)'
    BY <1>1, <1>3 DEF StagingInv
<1> QED
    BY <1>1, <1>2, <1>4, <1>5, MoveStep DEF Unregistered

\* PUT.BYTES and IMPORT.BYTES take their body, or refuse it: a body that stays
\* on the socket ends the connection.
LEMMA StageInv ==
    ASSUME IInv, NEW c \in Conns, put_bytes(c) \/ import_bytes(c)
    PROVE  IInv'
<1> DEFINE r == conn[c].request
<1>0. /\ conn[c].at = "stage" /\ r.command \in Up
      /\ UNCHANGED <<slots, netVars, active, authorized, unsaved, queue, record>>
      /\ \/ Accepts(r) /\ ReceiveBody(c)
         \/ Answer(c, TRUE) /\ UNCHANGED staged
         \/ RefuseBody(c)
    BY DEF put_bytes, import_bytes, Up
<1>1. /\ conn[c] \in Tasks /\ r \in Requests /\ conn[c].at \notin Unregistered
      /\ conn[c].arrived = 0 /\ conn[c].lost = "nothing" /\ ~conn[c].refused
      /\ c \notin staged /\ expects[c] = 0
      /\ BodyDue(c, Due(r))
    BY <1>0, StageFacts
<1>2. ASSUME r.length # NoLength
      PROVE  r.length \in Nat /\ Due(r) = r.length
    BY <1>0, <1>1, <1>2, LineFacts
<1>3. ASSUME NEW k \in Tasks, conn' = [conn EXCEPT ![c] = k], r.length # NoLength,
             k.at \in {"receive", "drain"}, k.need = r.length,
             staged' \subseteq staged \cup {c}, StagingInv(c)'
      PROVE  IInv'
    <2>1. conn'[c] = k
        BY <1>3 DEF IInv, TypeOK
    <2>2. wire'[c] = wire[c] /\ owes'[c] = owes[c] /\ expects'[c] = 0
        BY <1>0, <1>1 DEF netVars
    <2>3. BodyDue(c, k.need)'
        BY <1>1, <1>2, <1>3, <2>2 DEF BodyDue
    <2>4. SocketInv(c)'
        BY <1>3, <2>1, <2>2, <2>3 DEF SocketInv, Waiting
    <2>5. k.at \notin Unregistered /\ k.at \notin {"empty", "nap"}
        BY <1>3 DEF Unregistered
    <2> QED
        BY <1>0, <1>1, <1>3, <2>4, <2>5, MoveStep
<1>4. CASE Answer(c, TRUE) /\ UNCHANGED staged
    BY <1>0, <1>1, <1>4, AnswerStep
<1>5. CASE Accepts(r) /\ ReceiveBody(c)
    <2>1. r.length # NoLength
        BY <1>5 DEF Accepts, AcceptsRecord, AcceptsArchive
    <2>2. r.length \in Nat
        BY <1>2, <2>1
    <2>3. CASE /\ conn' = [conn EXCEPT ![c].at = "receive", ![c].need = r.length]
               /\ staged' = staged \cup {c}
        <3> DEFINE k == [conn[c] EXCEPT !.at = "receive", !.need = r.length]
        <3>1. /\ k \in Tasks /\ k.at = "receive" /\ k.need = r.length /\ k.arrived = 0
              /\ k.lost = "nothing" /\ ~k.refused /\ k.request = r
            BY <1>1, <2>2 DEF Tasks, Places
        <3>2. conn' = [conn EXCEPT ![c] = k]
            BY <2>3
        <3> HIDE DEF k
        <3>3. conn'[c] = k
            BY <3>2 DEF IInv, TypeOK
        <3>4. StagingInv(c)'
            BY <2>2, <3>1, <3>3 DEF StagingInv, Staging
        <3> QED
            BY <1>3, <2>1, <2>3, <3>1, <3>2, <3>4
    <2>4. CASE /\ conn' = [conn EXCEPT ![c].at = "drain", ![c].need = r.length, ![c].lost = "middle"]
               /\ UNCHANGED staged
        <3> DEFINE k == [conn[c] EXCEPT !.at = "drain", !.need = r.length, !.lost = "middle"]
        <3>1. k \in Tasks /\ k.at = "drain" /\ k.need = r.length
            BY <1>1, <2>2 DEF Tasks, Places
        <3>2. conn' = [conn EXCEPT ![c] = k]
            BY <2>4
        <3> HIDE DEF k
        <3>3. conn'[c] = k
            BY <3>2 DEF IInv, TypeOK
        <3>4. StagingInv(c)'
            BY <1>1, <2>4, <3>1, <3>3 DEF StagingInv
        <3> QED
            BY <1>3, <2>1, <2>4, <3>1, <3>2, <3>4
    <2> QED
        BY <1>5, <2>3, <2>4 DEF ReceiveBody
<1>6. CASE RefuseBody(c)
    <2>1. CASE Answer(c, TRUE)
        BY <1>4, <1>6, <2>1 DEF RefuseBody
    <2>2. CASE /\ Drainable(r) /\ UNCHANGED staged
               /\ conn' = [conn EXCEPT ![c].at = "drain", ![c].need = r.length, ![c].refused = TRUE]
        <3>0. r.length # NoLength /\ r.length \in Nat
            BY <1>2, <2>2 DEF Drainable
        <3> DEFINE k == [conn[c] EXCEPT !.at = "drain", !.need = r.length, !.refused = TRUE]
        <3>1. k \in Tasks /\ k.at = "drain" /\ k.need = r.length
            BY <1>1, <3>0 DEF Tasks, Places
        <3>2. conn' = [conn EXCEPT ![c] = k]
            BY <2>2
        <3> HIDE DEF k
        <3>3. conn'[c] = k
            BY <3>2 DEF IInv, TypeOK
        <3>4. StagingInv(c)'
            BY <1>1, <2>2, <3>1, <3>3 DEF StagingInv
        <3> QED
            BY <1>3, <2>2, <3>0, <3>1, <3>2, <3>4
    <2> QED
        BY <1>6, <2>1, <2>2 DEF RefuseBody
<1> QED
    BY <1>0, <1>4, <1>5, <1>6

\* A task in the middle of a body.
LEMMA BodyFacts ==
    ASSUME IInv, NEW c \in Conns, conn[c].at \in {"receive", "drain"}
    PROVE  /\ conn[c] \in Tasks /\ conn[c].at \notin Unregistered
           /\ conn[c].need \in Nat /\ conn[c].arrived \in Nat
           /\ expects[c] = 0 /\ BodyDue(c, conn[c].need) /\ StagingInv(c)
           /\ conn[c].need = 0 => AtRest(c)
<1>1. conn[c] \in Tasks /\ SocketInv(c) /\ StagingInv(c) /\ TypeOK
    BY DEF IInv, TypeOK, Tasks
<1>2. BodyDue(c, conn[c].need) /\ expects[c] = 0
    BY <1>1 DEF SocketInv
<1>3. conn[c].need = 0 => AtRest(c)
    BY <1>1, <1>2, RestFacts
<1> QED
    BY <1>1, <1>2, <1>3 DEF Tasks, Unregistered

\* A chunk is read: one less on the socket, one less to come.
LEMMA ChunkStep ==
    ASSUME IInv, NEW c \in Conns, NEW k \in Tasks, conn' = [conn EXCEPT ![c] = k],
           conn[c].at \in {"receive", "drain"}, k.at \in {"receive", "drain"},
           k.need = conn[c].need - 1, TakeChunk(c),
           UNCHANGED <<slots, owes, expects, hung, deaf, active, authorized, storeVars>>,
           StagingInv(c)'
    PROVE  IInv'
<1>1. /\ conn[c].need \in Nat /\ expects[c] = 0 /\ BodyDue(c, conn[c].need)
      /\ conn[c].at \notin Unregistered
    BY BodyFacts
<1>2. wire[c] \in Wires /\ owes[c] \in Nat /\ wire[c] # <<>>
    BY DEF TakeChunk, IInv, TypeOK, Wires
<1>3. /\ Len(wire[c]) \in Nat /\ Len(wire[c]) > 0
      /\ Tail(wire[c]) \in Wires /\ Len(Tail(wire[c])) = Len(wire[c]) - 1
      /\ Chunks(Tail(wire[c]), 1)
    BY <1>1, <1>2, TailFacts DEF BodyDue
<1>4. /\ wire' \in [Conns -> Wires] /\ wire'[c] = Tail(wire[c])
      /\ \A d \in Conns \ {c} : wire'[d] = wire[d]
    BY <1>3 DEF TakeChunk, IInv, TypeOK, Wires
<1>5. conn'[c] = k
    BY DEF IInv, TypeOK
<1>6. BodyDue(c, k.need)'
    BY <1>1, <1>2, <1>3, <1>4 DEF BodyDue
<1>7. SocketInv(c)'
    BY <1>1, <1>5, <1>6 DEF SocketInv, Waiting
<1>8. /\ owes' \in [Conns -> Nat] /\ expects' \in [Conns -> Nat]
      /\ hung' \in [Conns -> BOOLEAN] /\ deaf' \in [Conns -> BOOLEAN]
      /\ \A d \in Conns \ {c} : wire'[d] = wire[d] /\ owes'[d] = owes[d] /\ expects'[d] = expects[d]
      /\ authorized' \subseteq Conns /\ unsaved' \subseteq Conns
      /\ queue' \in [announced : 0..MaxReady, quiet : 0..MaxReady]
      /\ queue'.announced <= queue.announced
      /\ staged' = staged /\ record' \in {"nothing", "tail"}
    BY <1>4, LimitAssumption DEF storeVars, IInv, TypeOK, ShortBodyRefused
<1>9. slots' \in Nat /\ slots' + Weight(k) = slots + Weight(conn[c])
    BY LimitAssumption DEF IInv, TypeOK, Weight
<1>10. active' = IF k.at \in Unregistered THEN active \ {c} ELSE active \cup {c}
    BY <1>1 DEF IInv, EveryExitReleases, Unregistered
<1>11. k.at \notin {"empty", "nap"}
    OBVIOUS
<1> QED
    BY <1>4, <1>7, <1>8, <1>9, <1>10, <1>11, OneTask

\* The body is over, or will never be: the socket is at rest, or the connection
\* is to end.
LEMMA OverStep ==
    ASSUME IInv, NEW c \in Conns, NEW k \in Tasks, conn' = [conn EXCEPT ![c] = k],
           conn[c].at \in {"receive", "drain"}, k.at \in {"commit", "loop", "close"},
           k.at = "commit" => k.torn \/ conn[c].need = 0,
           k.at = "loop" => conn[c].need = 0,
           UNCHANGED <<slots, netVars, active, authorized, storeVars>>,
           StagingInv(c)'
    PROVE  IInv'
<1>1. expects[c] = 0 /\ conn[c].at \notin Unregistered /\ (conn[c].need = 0 => AtRest(c))
    BY BodyFacts
<1>2. conn'[c] = k
    BY DEF IInv, TypeOK
<1>3. SocketInv(c)'
    BY <1>1, <1>2 DEF SocketInv, AtRest, netVars, Waiting
<1>4. k.at \notin Unregistered /\ k.at \notin {"empty", "nap"}
    BY DEF Unregistered
<1> QED
    BY <1>1, <1>3, <1>4, MoveStep DEF storeVars

\* receive_into: what has arrived and what is still to come make up the body,
\* until a chunk is lost, and then what has arrived falls short of it.
LEMMA ReceiveInv ==
    ASSUME IInv, NEW c \in Conns, Receive(c)
    PROVE  IInv'
<1> DEFINE k == conn[c]
<1>0. /\ k.at = "receive" /\ k \in Tasks /\ k.need \in Nat /\ k.arrived \in Nat
      /\ k.lost = "nothing" /\ ~k.refused
      /\ k.request.length \in Nat /\ k.arrived + k.need = k.request.length
      /\ UNCHANGED <<slots, owes, expects, hung, deaf, active, authorized, storeVars>>
    <2>1. k.at = "receive" /\ UNCHANGED <<slots, owes, expects, hung, deaf, active, authorized, storeVars>>
        BY DEF Receive
    <2> QED
        BY <2>1, BodyFacts DEF StagingInv
<1>1. CASE k.need > 0 /\ TakeChunk(c) /\ conn' = [conn EXCEPT ![c].need = @ - 1, ![c].arrived = @ + 1]
    <2> DEFINE n == [k EXCEPT !.need = k.need - 1, !.arrived = k.arrived + 1]
    <2>1. /\ n \in Tasks /\ n.at = "receive" /\ n.need = k.need - 1 /\ n.arrived = k.arrived + 1
          /\ n.lost = "nothing" /\ ~n.refused /\ n.request = k.request
        <3>1. k.need - 1 \in Nat /\ k.arrived + 1 \in Nat
            BY <1>0, <1>1
        <3> QED
            BY <1>0, <3>1 DEF Tasks
    <2>2. conn' = [conn EXCEPT ![c] = n]
        BY <1>1
    <2> HIDE DEF n
    <2>3. conn'[c] = n
        BY <2>2 DEF IInv, TypeOK
    <2>4. StagingInv(c)'
        BY <1>0, <1>1, <2>1, <2>3 DEF StagingInv, Staging
    <2> QED
        BY <1>0, <1>1, <2>1, <2>2, <2>4, ChunkStep
<1>2. CASE /\ k.need > 0 /\ TakeChunk(c)
           /\ conn' = [conn EXCEPT ![c].at = "drain", ![c].need = @ - 1, ![c].arrived = @ + 1,
                                   ![c].lost = IF k.need = 1 THEN "tail" ELSE "middle"]
    <2> DEFINE lost == IF k.need = 1 THEN "tail" ELSE "middle"
               n == [k EXCEPT !.at = "drain", !.need = k.need - 1, !.arrived = k.arrived + 1, !.lost = lost]
    <2>1. /\ n \in Tasks /\ n.at = "drain" /\ n.need = k.need - 1 /\ n.arrived = k.arrived + 1
          /\ ~n.refused /\ n.request = k.request /\ n.lost = lost
        <3>1. k.need - 1 \in Nat /\ k.arrived + 1 \in Nat
            BY <1>0, <1>2
        <3>2. lost \in {"nothing", "middle", "tail"}
            OBVIOUS
        <3> HIDE DEF lost
        <3> QED
            BY <1>0, <3>1, <3>2 DEF Tasks, Places
    <2>2. conn' = [conn EXCEPT ![c] = n]
        BY <1>2
    <2> HIDE DEF n
    <2>3. conn'[c] = n
        BY <2>2 DEF IInv, TypeOK
    <2>4. n.lost = "middle" => n.arrived < n.request.length
        BY <1>0, <1>2, <2>1
    <2>5. StagingInv(c)'
        BY <1>0, <2>1, <2>3, <2>4 DEF StagingInv, Staging
    <2> QED
        BY <1>0, <1>2, <2>1, <2>2, <2>5, ChunkStep
<1>3. ASSUME NEW n \in Tasks, conn' = [conn EXCEPT ![c] = n], n.at = "commit", UNCHANGED wire,
             n.torn \/ k.need = 0, ~n.refused,
             n.lost = "middle" => n.request.length \in Nat /\ n.arrived < n.request.length
      PROVE  IInv'
    <2>1. conn'[c] = n
        BY <1>3 DEF IInv, TypeOK
    <2>2. StagingInv(c)'
        BY <1>3, <2>1 DEF StagingInv, Staging
    <2> QED
        BY <1>0, <1>3, <2>2, OverStep DEF netVars
<1>4. CASE k.need = 0 /\ UNCHANGED wire /\ conn' = [conn EXCEPT ![c].at = "commit"]
    <2> DEFINE n == [k EXCEPT !.at = "commit"]
    <2>1. n \in Tasks /\ n.at = "commit" /\ ~n.refused /\ n.lost = "nothing"
        BY <1>0 DEF Tasks, Places
    <2>2. conn' = [conn EXCEPT ![c] = n]
        BY <1>4
    <2> HIDE DEF n
    <2> QED
        BY <1>3, <1>4, <2>1, <2>2
<1>5. CASE k.need = 0 /\ UNCHANGED wire /\ conn' = [conn EXCEPT ![c].at = "commit", ![c].lost = "tail"]
    <2> DEFINE n == [k EXCEPT !.at = "commit", !.lost = "tail"]
    <2>1. n \in Tasks /\ n.at = "commit" /\ ~n.refused /\ n.lost = "tail"
        BY <1>0 DEF Tasks, Places
    <2>2. conn' = [conn EXCEPT ![c] = n]
        BY <1>5
    <2> HIDE DEF n
    <2> QED
        BY <1>3, <1>5, <2>1, <2>2
<1>6. CASE Starved(c) /\ conn' = [conn EXCEPT ![c].at = "commit", ![c].lost = "middle", ![c].torn = TRUE]
    <2> DEFINE n == [k EXCEPT !.at = "commit", !.lost = "middle", !.torn = TRUE]
    <2>1. /\ n \in Tasks /\ n.at = "commit" /\ ~n.refused /\ n.torn
          /\ n.request = k.request /\ n.arrived = k.arrived
        BY <1>0 DEF Tasks, Places
    <2>2. conn' = [conn EXCEPT ![c] = n]
        BY <1>6
    <2> HIDE DEF n
    <2>3. n.arrived < n.request.length
        BY <1>0, <1>6, <2>1 DEF Starved
    <2> QED
        BY <1>0, <1>3, <1>6, <2>1, <2>2, <2>3 DEF Starved
<1> QED
    BY <1>1, <1>2, <1>4, <1>5, <1>6 DEF Receive

\* drain: what is thrown away is not counted.
LEMMA DrainInv ==
    ASSUME IInv, NEW c \in Conns, Drain(c)
    PROVE  IInv'
<1> DEFINE k == conn[c]
<1>0. /\ k.at = "drain" /\ k \in Tasks /\ k.need \in Nat
      /\ k.refused => c \notin staged
      /\ k.lost = "middle" => c \notin staged \/ (k.request.length \in Nat /\ k.arrived < k.request.length)
      /\ UNCHANGED <<slots, owes, expects, hung, deaf, active, authorized, storeVars>>
    <2>1. k.at = "drain" /\ UNCHANGED <<slots, owes, expects, hung, deaf, active, authorized, storeVars>>
        BY DEF Drain
    <2> QED
        BY <2>1, BodyFacts DEF StagingInv
<1>1. CASE k.need > 0 /\ TakeChunk(c) /\ conn' = [conn EXCEPT ![c].need = @ - 1]
    <2> DEFINE n == [k EXCEPT !.need = k.need - 1]
    <2>1. /\ n \in Tasks /\ n.at = "drain" /\ n.need = k.need - 1 /\ n.arrived = k.arrived
          /\ n.lost = k.lost /\ (n.refused <=> k.refused) /\ n.request = k.request
        <3>1. k.need - 1 \in Nat
            BY <1>0, <1>1
        <3> QED
            BY <1>0, <3>1 DEF Tasks
    <2>2. conn' = [conn EXCEPT ![c] = n]
        BY <1>1
    <2> HIDE DEF n
    <2>3. conn'[c] = n
        BY <2>2 DEF IInv, TypeOK
    <2>4. StagingInv(c)'
        BY <1>0, <2>1, <2>3 DEF StagingInv, Staging, storeVars
    <2> QED
        BY <1>0, <1>1, <2>1, <2>2, <2>4, ChunkStep
<1>2. ASSUME k.refused, NEW place \in {"loop", "close"}, Go(c, place), UNCHANGED wire,
             place = "loop" => k.need = 0
      PROVE  IInv'
    <2> DEFINE n == To(c, place, FALSE)
    <2>1. n \in Tasks /\ n.at = place
        BY ToFacts DEF IInv, Places
    <2>2. conn' = [conn EXCEPT ![c] = n]
        BY <1>2 DEF Go
    <2> HIDE DEF n
    <2>3. conn'[c] = n
        BY <2>2 DEF IInv, TypeOK
    <2>4. StagingInv(c)'
        BY <1>0, <1>2, <2>1, <2>3 DEF StagingInv, storeVars
    <2> QED
        BY <1>0, <1>2, <2>1, <2>2, <2>4, OverStep DEF netVars
<1>3. ASSUME ~k.refused, NEW torn \in BOOLEAN, torn \/ k.need = 0, UNCHANGED wire,
             conn' = [conn EXCEPT ![c] = [k EXCEPT !.at = "commit", !.torn = torn]]
      PROVE  IInv'
    <2> DEFINE n == [k EXCEPT !.at = "commit", !.torn = torn]
    <2>1. /\ n \in Tasks /\ n.at = "commit" /\ ~n.refused /\ n.torn = torn
          /\ n.request = k.request /\ n.arrived = k.arrived /\ n.lost = k.lost
        BY <1>0, <1>3 DEF Tasks, Places
    <2>2. conn' = [conn EXCEPT ![c] = n]
        BY <1>3
    <2> HIDE DEF n
    <2>3. conn'[c] = n
        BY <2>2 DEF IInv, TypeOK
    <2>4. StagingInv(c)'
        BY <1>0, <2>1, <2>3 DEF StagingInv, Staging, storeVars
    <2> QED
        BY <1>0, <1>3, <2>1, <2>2, <2>4, OverStep DEF netVars
<1>4. CASE k.need = 0 /\ UNCHANGED wire
           /\ IF k.refused THEN Go(c, "loop") ELSE conn' = [conn EXCEPT ![c].at = "commit"]
    <2>1. CASE k.refused
        BY <1>2, <1>4, <2>1
    <2>2. CASE ~k.refused
        <3>1. k.torn \in BOOLEAN /\ [k EXCEPT !.at = "commit"] = [k EXCEPT !.at = "commit", !.torn = k.torn]
            BY <1>0 DEF Tasks
        <3> QED
            BY <1>3, <1>4, <2>2, <3>1
    <2> QED
        BY <2>1, <2>2
<1>5. CASE Starved(c) /\ IF k.refused THEN Go(c, "close")
                         ELSE conn' = [conn EXCEPT ![c].at = "commit", ![c].torn = TRUE]
    <2>1. CASE k.refused
        BY <1>2, <1>5, <2>1 DEF Starved
    <2>2. CASE ~k.refused
        BY <1>3, <1>5, <2>2 DEF Starved
    <2> QED
        BY <2>1, <2>2
<1> QED
    BY <1>1, <1>4, <1>5 DEF Drain

\* commit_staged puts in place only what arrived whole, so nothing that lost a
\* chunk before its last.
LEMMA CommitInv ==
    ASSUME IInv, NEW c \in Conns, commit_bytes(c) \/ commit_archive(c)
    PROVE  IInv'
<1> DEFINE k == conn[c]
<1>0. /\ k \in Tasks /\ k.at = "commit" /\ k.at \notin Unregistered /\ k.torn \in BOOLEAN
      /\ expects[c] = 0 /\ (k.torn \/ AtRest(c))
      /\ k.lost = "middle" => c \notin staged \/ (k.request.length \in Nat /\ k.arrived < k.request.length)
      /\ k.arrived \in Nat
    <2>1. k \in Tasks /\ SocketInv(c) /\ StagingInv(c) /\ k.at = "commit"
        BY DEF commit_bytes, commit_archive, IInv, TypeOK, Tasks
    <2> QED
        BY <2>1 DEF SocketInv, StagingInv, Tasks, Unregistered
<1>1. /\ Answer(c, k.torn) /\ staged' = staged \ {c}
      /\ UNCHANGED <<slots, netVars, active, authorized, unsaved, queue>>
    BY DEF commit_bytes, commit_archive
<1>2. record' \in {"nothing", "tail"}
    <2>1. record \in {"nothing", "tail"}
        BY DEF IInv, TypeOK, ShortBodyRefused
    <2>2. CASE commit_bytes(c)
        <3>1. record' = record \/ (ArrivedWhole(c) /\ c \in staged /\ record' = k.lost)
            BY <2>2 DEF commit_bytes, commit_staged
        <3>2. ArrivedWhole(c) /\ c \in staged => k.lost # "middle"
            BY <1>0 DEF ArrivedWhole
        <3> QED
            BY <1>0, <2>1, <3>1, <3>2 DEF Tasks
    <2>3. CASE commit_archive(c)
        BY <2>1, <2>3 DEF commit_archive
    <2> QED
        BY <2>2, <2>3
<1>3. PICK n : n = To(c, "reply", k.torn)
    OBVIOUS
<1>4. n \in Tasks /\ n.at = "reply" /\ n.torn = k.torn
    BY <1>0, <1>3, ToFacts DEF IInv, Places
<1>5. conn' = [conn EXCEPT ![c] = n]
    BY <1>1, <1>3 DEF Answer
<1>6. conn'[c] = n
    BY <1>5 DEF IInv, TypeOK
<1>7. SocketInv(c)'
    BY <1>0, <1>1, <1>4, <1>6 DEF SocketInv, AtRest, netVars, Waiting
<1>8. StagingInv(c)'
    BY <1>1, <1>4, <1>6 DEF StagingInv
<1>9. /\ wire' \in [Conns -> Wires] /\ owes' \in [Conns -> Nat] /\ expects' \in [Conns -> Nat]
      /\ hung' \in [Conns -> BOOLEAN] /\ deaf' \in [Conns -> BOOLEAN]
      /\ \A d \in Conns \ {c} : wire'[d] = wire[d] /\ owes'[d] = owes[d] /\ expects'[d] = expects[d]
      /\ authorized' \subseteq Conns /\ unsaved' \subseteq Conns
      /\ queue' \in [announced : 0..MaxReady, quiet : 0..MaxReady]
      /\ queue'.announced <= queue.announced
    BY <1>1, LimitAssumption DEF netVars, IInv, TypeOK, Wires
<1>10. slots' \in Nat /\ slots' + Weight(n) = slots + Weight(conn[c])
    BY <1>0, <1>1, <1>4, LimitAssumption DEF IInv, TypeOK, Weight
<1>11. active' = IF n.at \in Unregistered THEN active \ {c} ELSE active \cup {c}
    BY <1>0, <1>1, <1>4 DEF IInv, EveryExitReleases, Unregistered
<1>12. n.at \notin {"empty", "nap"} /\ staged' \subseteq staged \cup {c}
    BY <1>1, <1>4
<1> QED
    BY <1>2, <1>4, <1>5, <1>7, <1>8, <1>9, <1>10, <1>11, <1>12, OneTask

\* A body going down: what the client expects is what is still to be sent.
LEMMA DownStep ==
    ASSUME IInv, NEW c \in Conns, NEW k \in Tasks, conn' = [conn EXCEPT ![c] = k],
           conn[c].at \in {"stage", "send"}, k.at \in {"send", "loop", "close"},
           AtRest(c), expects' \in [Conns -> Nat],
           \A d \in Conns \ {c} : expects'[d] = expects[d],
           k.at = "send" => expects'[c] = k.need, k.at = "loop" => expects'[c] = 0,
           staged' \subseteq staged \cup {c}, c \in staged' => k.at = "send",
           UNCHANGED <<slots, wire, owes, hung, deaf, active, authorized, unsaved, queue, record>>
    PROVE  IInv'
<1>1. conn'[c] = k
    BY DEF IInv, TypeOK
<1>2. SocketInv(c)'
    BY <1>1 DEF SocketInv, AtRest, Waiting
<1>3. StagingInv(c)'
    BY <1>1 DEF StagingInv, Staging
<1>4. /\ wire' \in [Conns -> Wires] /\ owes' \in [Conns -> Nat]
      /\ hung' \in [Conns -> BOOLEAN] /\ deaf' \in [Conns -> BOOLEAN]
      /\ \A d \in Conns \ {c} : wire'[d] = wire[d] /\ owes'[d] = owes[d] /\ expects'[d] = expects[d]
      /\ authorized' \subseteq Conns /\ unsaved' \subseteq Conns
      /\ queue' \in [announced : 0..MaxReady, quiet : 0..MaxReady]
      /\ queue'.announced <= queue.announced
      /\ record' \in {"nothing", "tail"}
    BY LimitAssumption DEF IInv, TypeOK, ShortBodyRefused, Wires
<1>5. slots' \in Nat /\ slots' + Weight(k) = slots + Weight(conn[c])
    BY LimitAssumption DEF IInv, TypeOK, Weight
<1>6. active' = IF k.at \in Unregistered THEN active \ {c} ELSE active \cup {c}
    BY DEF IInv, EveryExitReleases, Unregistered
<1>7. k.at \notin {"empty", "nap"}
    OBVIOUS
<1> QED
    BY <1>2, <1>3, <1>4, <1>5, <1>6, <1>7, OneTask

\* GET.BYTES and EXPORT.BYTES: announced, sent chunk by chunk, and a client
\* that was promised more than it got is hung up on.
LEMMA DownInv ==
    ASSUME IInv, NEW c \in Conns, get_bytes(c) \/ export_bytes(c) \/ Send(c) \/ SendFails(c)
    PROVE  IInv'
<1> DEFINE k == conn[c]
<1>0. k \in Tasks /\ expects \in [Conns -> Nat] /\ TypeOK
    BY DEF IInv, TypeOK, Tasks
<1>1. ASSUME get_bytes(c) \/ export_bytes(c)
      PROVE  IInv'
    <2>1. PICK spooled \in SUBSET {c} :
             /\ k.at = "stage" /\ k.request.command \in Down /\ OpenBody(c, spooled)
             /\ UNCHANGED <<slots, wire, owes, hung, deaf, active, authorized, unsaved, queue, record>>
        <3>1. CASE get_bytes(c)
            <4>1. {} \in SUBSET {c}
                OBVIOUS
            <4> QED
                BY <3>1, <4>1 DEF get_bytes, Down
        <3>2. CASE export_bytes(c)
            <4>1. open_archive(c) \in SUBSET {c}
                BY DEF open_archive
            <4> QED
                BY <3>2, <4>1 DEF export_bytes, Down
        <3> QED
            BY <1>1, <3>1, <3>2
    <2>2. AtRest(c) /\ expects[c] = 0 /\ c \notin staged /\ k.at \notin Unregistered
        <3>1. k.request.command \notin Up
            BY <2>1 DEF Up, Down
        <3> QED
            BY <2>1, <3>1, StageFacts
    <2>3. CASE Answer(c, FALSE) /\ UNCHANGED <<expects, staged>>
        BY <2>1, <2>2, <2>3, AnswerStep DEF netVars
    <2>4. CASE /\ expects' = [expects EXCEPT ![c] = RecordLength]
               /\ conn' = [conn EXCEPT ![c].at = "send", ![c].need = RecordLength]
               /\ staged' = staged \cup spooled
        <3> DEFINE n == [k EXCEPT !.at = "send", !.need = RecordLength]
        <3>1. n \in Tasks /\ n.at = "send" /\ n.need = RecordLength
            BY <1>0, LimitAssumption DEF Tasks, Places
        <3>2. conn' = [conn EXCEPT ![c] = n]
            BY <2>4
        <3> HIDE DEF n
        <3>3. expects' \in [Conns -> Nat] /\ expects'[c] = RecordLength /\ \A d \in Conns \ {c} : expects'[d] = expects[d]
            BY <1>0, <2>4, LimitAssumption
        <3>4. staged' \subseteq staged \cup {c}
            BY <2>4
        <3> QED
            BY <2>1, <2>2, <3>1, <3>2, <3>3, <3>4, DownStep
    <2>5. CASE Go(c, "close") /\ UNCHANGED <<expects, staged>>
        <3> DEFINE n == To(c, "close", FALSE)
        <3>1. n \in Tasks /\ n.at = "close"
            BY <1>0, ToFacts DEF Places
        <3>2. conn' = [conn EXCEPT ![c] = n]
            BY <2>5 DEF Go
        <3> HIDE DEF n
        <3> QED
            BY <1>0, <2>1, <2>2, <2>5, <3>1, <3>2, DownStep
    <2> QED
        BY <2>1, <2>3, <2>4, <2>5 DEF OpenBody
<1>2. ASSUME k.at = "send"
      PROVE  AtRest(c) /\ expects[c] = k.need /\ k.need \in Nat
    BY <1>0, <1>2 DEF IInv, SocketInv, Tasks
<1>3. ASSUME k.at = "send", NEW place \in {"loop", "close"}, Go(c, place), place = "loop" => k.need = 0,
             staged' = staged \ {c},
             UNCHANGED <<slots, netVars, active, authorized, unsaved, queue, record>>
      PROVE  IInv'
    <2> DEFINE n == To(c, place, FALSE)
    <2>1. n \in Tasks /\ n.at = place
        BY <1>0, ToFacts DEF Places
    <2>2. conn' = [conn EXCEPT ![c] = n]
        BY <1>3 DEF Go
    <2> HIDE DEF n
    <2>3. staged' \subseteq staged \cup {c} /\ c \notin staged'
        BY <1>3
    <2> QED
        BY <1>0, <1>2, <1>3, <2>1, <2>2, <2>3, DownStep DEF netVars
<1>4. ASSUME Send(c)
      PROVE  IInv'
    <2>1. CASE /\ k.need > 0 /\ conn' = [conn EXCEPT ![c].need = @ - 1]
               /\ expects' = [expects EXCEPT ![c] = @ - 1] /\ UNCHANGED staged
        <3>0. k.at = "send"
            BY <1>4 DEF Send
        <3>1. k.need - 1 \in Nat /\ expects[c] = k.need /\ AtRest(c)
            BY <1>2, <2>1, <3>0
        <3> DEFINE n == [k EXCEPT !.need = k.need - 1]
        <3>2. n \in Tasks /\ n.at = "send" /\ n.need = k.need - 1
            BY <1>0, <3>0, <3>1 DEF Tasks
        <3>3. conn' = [conn EXCEPT ![c] = n]
            BY <2>1
        <3> HIDE DEF n
        <3>4. expects' \in [Conns -> Nat] /\ expects'[c] = k.need - 1 /\ \A d \in Conns \ {c} : expects'[d] = expects[d]
            BY <1>0, <2>1, <3>1
        <3>5. staged' \subseteq staged \cup {c}
            BY <2>1
        <3> QED
            BY <1>4, <3>0, <3>1, <3>2, <3>3, <3>4, <3>5, DownStep DEF Send
    <2>2. CASE /\ Go(c, IF k.need = 0 THEN "loop" ELSE "close")
               /\ staged' = staged \ {c} /\ UNCHANGED expects
        <3>1. CASE k.need = 0
            BY <1>3, <1>4, <2>2, <3>1 DEF Send, netVars
        <3>2. CASE k.need # 0
            BY <1>3, <1>4, <2>2, <3>2 DEF Send, netVars
        <3> QED
            BY <3>1, <3>2
    <2> QED
        BY <1>4, <2>1, <2>2 DEF Send
<1>5. ASSUME SendFails(c)
      PROVE  IInv'
    BY <1>3, <1>5 DEF SendFails
<1> QED
    BY <1>1, <1>4, <1>5

\* The way out: the registry first, the permit last.
LEMMA WayOutInv ==
    ASSUME IInv, NEW c \in Conns, Close(c) \/ Save(c)
    PROVE  IInv'
<1>0. conn[c].at \in {"close", "save"} /\ conn[c].at # "none" /\ c \notin staged
    <2>1. conn[c].at \in {"close", "save"} /\ StagingInv(c)
        BY DEF Close, Save, IInv
    <2> QED
        BY <2>1 DEF StagingInv, Staging
<1>1. CASE Save(c)
    <2>1. active' = active \ {c}
        BY <1>1 DEF Save, IInv, EveryExitReleases
    <2>2. unsaved' \subseteq Conns
        BY <1>1 DEF Save
    <2> QED
        BY <1>0, <1>1, <2>1, <2>2, GoneStep DEF Save
<1>2. CASE Close(c) /\ unsaved = {}
    <2>1. unsaved' \subseteq Conns
        BY <1>2 DEF Close, storeVars
    <2> QED
        BY <1>0, <1>2, <2>1, GoneStep DEF Close, storeVars
<1>3. CASE Close(c) /\ unsaved # {}
    <2> DEFINE n == To(c, "save", FALSE)
    <2>1. n \in Tasks /\ n.at = "save"
        BY ToFacts DEF IInv, Places
    <2>2. conn' = [conn EXCEPT ![c] = n]
        BY <1>3 DEF Close, Go
    <2> HIDE DEF n
    <2>3. /\ conn[c].at = "close" /\ active' = active \ {c}
          /\ UNCHANGED <<slots, netVars, authorized, storeVars>>
        BY <1>3 DEF Close
    <2>4. conn'[c] = n
        BY <2>2 DEF IInv, TypeOK
    <2>5. SocketInv(c)' /\ StagingInv(c)'
        BY <1>0, <2>1, <2>3, <2>4 DEF SocketInv, StagingInv, storeVars, Waiting
    <2>6. /\ wire' \in [Conns -> Wires] /\ owes' \in [Conns -> Nat] /\ expects' \in [Conns -> Nat]
          /\ hung' \in [Conns -> BOOLEAN] /\ deaf' \in [Conns -> BOOLEAN]
          /\ \A d \in Conns \ {c} : wire'[d] = wire[d] /\ owes'[d] = owes[d] /\ expects'[d] = expects[d]
        BY <2>3 DEF netVars, IInv, TypeOK, Wires
    <2>7. /\ authorized' \subseteq Conns /\ unsaved' \subseteq Conns
          /\ queue' \in [announced : 0..MaxReady, quiet : 0..MaxReady]
          /\ queue'.announced <= queue.announced
          /\ staged' = staged /\ record' \in {"nothing", "tail"}
        BY <2>3, LimitAssumption DEF storeVars, IInv, TypeOK, ShortBodyRefused
    <2>8. slots' \in Nat /\ slots' + Weight(n) = slots + Weight(conn[c])
        BY <2>1, <2>3, LimitAssumption DEF IInv, TypeOK, Weight
    <2>9. active' = IF n.at \in Unregistered THEN active \ {c} ELSE active \cup {c}
        BY <2>1, <2>3 DEF Unregistered
    <2> QED
        BY <2>1, <2>2, <2>5, <2>6, <2>7, <2>8, <2>9, OneTask
<1> QED
    BY <1>1, <1>2, <1>3

\* What happens around the connections.
LEMMA AroundInv ==
    ASSUME IInv, \/ \E c \in Conns : Authorize(c)
                 \/ BecomesDue \/ SweepTmp \/ WriteRecord \/ RemoveRecord \/ Flush
    PROVE  IInv'
<1>1. /\ UNCHANGED <<slots, conn, wire, owes, expects, active, hung, deaf>>
      /\ staged' \subseteq staged
      /\ record' \in {record, "nothing"} /\ unsaved' \in {unsaved, {}}
    BY DEF Authorize, BecomesDue, SweepTmp, WriteRecord, RemoveRecord, Flush, netVars, storeVars
<1>2. record' \in {"nothing", "tail"} /\ unsaved' \subseteq Conns
    BY <1>1 DEF IInv, TypeOK, ShortBodyRefused
<1>3. authorized' \subseteq Conns
    BY LinesAssumption DEF Authorize, BecomesDue, SweepTmp, WriteRecord, RemoveRecord, Flush, IInv, TypeOK
<1>4. queue' \in [announced : 0..MaxReady, quiet : 0..MaxReady] /\ queue'.announced = queue.announced
    <2>1. /\ queue \in [announced : 0..MaxReady, quiet : 0..MaxReady]
          /\ queue.announced \in Nat /\ queue.quiet \in Nat
        BY LimitAssumption DEF IInv, TypeOK
    <2>2. CASE BecomesDue
        BY <2>1, <2>2, LimitAssumption DEF BecomesDue
    <2>3. CASE ~BecomesDue
        <3>1. queue' = queue
            BY <2>3 DEF Authorize, SweepTmp, WriteRecord, RemoveRecord, Flush, storeVars
        <3> QED
            BY <2>1, <3>1
    <2> QED
        BY <2>2, <2>3
<1>5. hung' \in [Conns -> BOOLEAN] /\ deaf' \in [Conns -> BOOLEAN]
    BY <1>1 DEF IInv, TypeOK
<1> QED
    BY <1>1, <1>2, <1>3, <1>4, <1>5, NoTask

\* No connection, every slot free.
LEMMA InitInv == Init => IInv
<1> SUFFICES ASSUME Init PROVE IInv
    OBVIOUS
<1>1. Fresh("none") \in Tasks /\ Fresh("none").at = "none"
    BY FreshFacts DEF Places
<1>2. <<>> \in Wires
    BY DEF Wires
<1>3. TypeOK
    <2>1. conn \in [Conns -> Tasks] /\ wire \in [Conns -> Wires]
        BY <1>1, <1>2 DEF Init
    <2>2. slots \in 0..MaxConnections /\ queue \in [announced : 0..MaxReady, quiet : 0..MaxReady]
        BY LimitAssumption DEF Init
    <2>3. /\ owes \in [Conns -> Nat] /\ expects \in [Conns -> Nat]
          /\ hung \in [Conns -> BOOLEAN] /\ deaf \in [Conns -> BOOLEAN]
        BY DEF Init
    <2>4. /\ active \subseteq Conns /\ authorized \subseteq Conns /\ unsaved \subseteq Conns
          /\ staged \subseteq Conns /\ record \in {"nothing", "middle", "tail"}
        BY DEF Init
    <2> QED
        BY <2>1, <2>2, <2>3, <2>4 DEF TypeOK, Tasks, Wires
<1>4. EveryExitReleases
    <2>1. \A c \in Conns : conn[c].at = "none"
        BY <1>1 DEF Init
    <2>2. {c \in Conns : Live(c)} = {}
        BY <2>1 DEF Live
    <2>3. Cardinality({c \in Conns : Live(c)}) = 0
        BY <2>2, FS_EmptySet
    <2>4. active = {c \in Conns : conn[c].at \notin {"none", "handshake", "authorize", "save"}}
        BY <2>1 DEF Init
    <2>5. slots = MaxConnections /\ staged = {}
        BY DEF Init
    <2> QED
        BY <2>3, <2>4, <2>5, LimitAssumption DEF EveryExitReleases
<1>5. NoLostWakeup /\ ShortBodyRefused
    BY DEF Init, NoLostWakeup, ShortBodyRefused
<1>6. ASSUME NEW c \in Conns
      PROVE  SocketInv(c) /\ StagingInv(c)
    BY <1>1 DEF Init, SocketInv, StagingInv, AtRest
<1> QED
    BY <1>3, <1>4, <1>5, <1>6 DEF IInv

\* Every step keeps the invariant.
LEMMA NextInv == IInv /\ [Next]_vars => IInv'
<1> SUFFICES ASSUME IInv, [Next]_vars PROVE IInv'
    OBVIOUS
<1>1. ASSUME NEW c \in Conns, Step(c)
      PROVE  IInv'
    BY <1>1, WayInInv, LoopInv, DispatchInv, WaitInv, StageInv, ReceiveInv, DrainInv, CommitInv,
       DownInv, WayOutInv DEF Step
<1>2. ASSUME NEW c \in Conns, Accept(c) \/ Client(c) \/ Deadline(c) \/ SendFails(c)
      PROVE  IInv'
    BY <1>2, WayInInv, ClientInv, WaitInv, DownInv
<1>3. ASSUME NEW c \in Conns, Authorize(c)
      PROVE  IInv'
    BY <1>3, AroundInv
<1>4. CASE BecomesDue \/ SweepTmp \/ WriteRecord \/ RemoveRecord \/ Flush
    BY <1>4, AroundInv
<1>5. CASE UNCHANGED vars
    BY <1>5, NoTask, LimitAssumption
       DEF vars, netVars, storeVars, IInv, TypeOK, ShortBodyRefused
<1> QED
    BY <1>1, <1>2, <1>3, <1>4, <1>5 DEF Next

-----------------------------------------------------------------------------

\* IInv is an invariant of every behaviour.
LEMMA InvHolds == Spec => []IInv
BY InitInv, NextInv, PTL DEF Spec

\* Type correctness, for any number of connections: no count of chunks, slots
\* or records goes below zero.
THEOREM TypeCorrect == Spec => []TypeOK
<1>1. IInv => TypeOK
    BY DEF IInv
<1> QED
    BY <1>1, InvHolds, PTL

\* No path through handle_connection, the transfers, the waits, the refusals
\* and the failures leaks a permit, a registry entry or a temporary.
THEOREM Released == Spec => []EveryExitReleases
<1>1. IInv => EveryExitReleases
    BY DEF IInv
<1> QED
    BY <1>1, InvHolds, PTL

\* Whatever is announced, refused, cut short or lost, the request loop reads
\* lines only where lines begin, and put_bytes, import_bytes, get_bytes and
\* export_bytes leave no body half read or half sent before it.
THEOREM NeverOutOfStep == Spec => []InStep
<1>1. IInv => InStep
    <2> SUFFICES ASSUME IInv, NEW c \in Conns, conn[c].at = "loop"
                 PROVE  expects[c] = 0 /\ IF wire[c] = <<>> THEN owes[c] = 0 ELSE Head(wire[c]) # Chunk
        BY DEF InStep
    <2>1. expects[c] = 0 /\ (AtRest(c) \/ LineSent(c)) /\ wire[c] \in Wires
        BY DEF IInv, SocketInv, TypeOK, Wires
    <2>2. CASE wire[c] = <<>>
        <3>1. ~LineSent(c)
            BY <2>2 DEF LineSent
        <3> QED
            BY <2>1, <2>2, <3>1 DEF AtRest
    <2>3. CASE wire[c] # <<>>
        <3>1. wire[c][1] \in Requests
            BY <2>1, <2>3 DEF AtRest, LineSent
        <3>2. Head(wire[c]) = wire[c][1]
            BY <2>1, <2>3, TailFacts
        <3>3. wire[c][1] # Chunk
            BY <3>1, LineFacts
        <3> QED
            BY <2>1, <2>3, <3>2, <3>3
    <2> QED
        BY <2>2, <2>3
<1> QED
    BY <1>1, InvHolds, PTL

\* dequeue_waiting registers for the arrivals signal before it looks, so no
\* announced record is slept past, however many consumers race for it.
THEOREM WakeupKept == Spec => []NoLostWakeup
<1>1. IInv => NoLostWakeup
    BY DEF IInv
<1> QED
    BY <1>1, InvHolds, PTL

\* commit_staged never renames over a key a body that lost a chunk before its
\* last one, whichever of socket, disk and sweep failed.
THEOREM NoShortBody == Spec => []ShortBodyRefused
<1>1. IInv => ShortBodyRefused
    BY DEF IInv
<1> QED
    BY <1>1, InvHolds, PTL

-----------------------------------------------------------------------------
(***************************************************************************)
(* Archive.                                                                *)
(***************************************************************************)

\* Every value is the number of a write that has been: the next one is new.  An
\* archive that was published has a file in it.
Past(v) == v = None \/ v <= clock
ValuesInv ==
    /\ \A f \in Files : Past(disk[f]) /\ \A i \in 1..Len(heap[f]) : Past(heap[f][i])
    /\ Past(tx.value) /\ (tx.pc = "guarding" => tx.value # None)
    /\ \A a \in {ex.staging, kept, im.archive} : a # None => \A f \in Files : Past(a.copy[f])
    /\ kept # None => \E f \in Files : kept.copy[f] # None

\* Of an export in progress the files stay, its handles are to their tables and
\* what they all hold now is among the moments it may show.
PlanInv ==
    ex.pc # "idle" =>
        /\ im.pc \notin Applying /\ Now \in moments
        /\ ex.plan # {} /\ \A f \in ex.plan : Exists(f)
        /\ ex.staging # None /\ ex.guards \subseteq ex.plan \ Dirs
        /\ ex.pc = "planned" => ex.guards = {}
        /\ ex.pc \in {"planned", "guarding"} => ex.staging.copy = Blank
        /\ ex.pc \in {"guarding", "writing"} => \A f \in ex.plan : ex.handle[f] = Gen(f)
        /\ ex.pc = "writing" => ex.guards = ex.plan \ Dirs
        /\ ex.pc = "finished" => \A f \in ex.plan : ex.staging.copy[f] # None

\* A table under a shared guard is not under an exclusive one.
GuardInv == \A f \in ex.guards \cap tx.guards : ex.handle[f] # tx.handle[f]

\* So what has been copied is what the table still holds.
CopyInv ==
    ex.pc = "writing" => \A f \in ex.plan \ Dirs : ex.staging.copy[f] # None => ex.staging.copy[f] = Held(f)

\* An import applies only what was verified, and each file it has done holds
\* what the archive does unless somebody else has changed it since.
ImportInv ==
    /\ im.pc = "refused" => ~im.wrote
    /\ im.pc \in Applying =>
        /\ im.archive # None /\ im.archive.whole
        /\ im.todo \subseteq InArchive(im.archive)
        /\ im.todo = {} <=> im.pc = "saving"
        /\ im.pc = "filling" => Exists(Turn)
        /\ \A f \in InArchive(im.archive) \ (im.todo \cup im.touched) : Held(f) = im.archive.copy[f]

ArchiveInv ==
    /\ ArchiveTypeOK /\ ValuesInv /\ PlanInv /\ GuardInv
    /\ CopyInv /\ OneMoment /\ ImportInv /\ Restored

-----------------------------------------------------------------------------
(* What a file holds, and the file whose turn it is.                       *)

\* A set of naturals has a least one.
LEMMA HasLeast ==
    ASSUME NEW S \in SUBSET Nat, S # {}
    PROVE  \E x \in S : \A y \in S : x <= y
  <1> DEFINE less == {p \in Nat \X Nat : p[1] < p[2]}
  <1>1. IsWellFoundedOn(less, Nat)
    BY NatLessThanWellFounded DEF OpToRel
  <1>2. \E x \in S : \A y \in S : <<y, x>> \notin less
    <2> HIDE DEF less
    <2> QED BY <1>1, WFMin
  <1>3. PICK x \in S : \A y \in S : <<y, x>> \notin less
    BY <1>2
  <1>4. \A y \in S : ~(y < x)
    BY <1>3
  <1> QED BY <1>4

\* The first file of a set is one of it.
LEMMA FirstIn ==
    ASSUME NEW S \in SUBSET Files, S # {}
    PROVE  FirstOf(S) \in S
  <1> DEFINE places == {i \in DOMAIN Order : Order[i] \in S}
  <1>1. DOMAIN Order \subseteq Nat
    BY ArchiveAssumption
  <1>2. \A g \in S : \E i \in places : Order[i] = g
    BY DEF Files, Range
  <1>3. places \in SUBSET Nat /\ places # {}
    BY <1>1, <1>2
  <1>4. PICK i \in places : \A j \in places : i <= j
    <2> HIDE DEF places
    <2> QED BY <1>3, HasLeast
  <1>5. \A g \in S : \E k, j \in DOMAIN Order : Order[k] = Order[i] /\ Order[j] = g /\ k <= j
    BY <1>2, <1>4
  <1>6. \E f \in S : \A g \in S : \E k, j \in DOMAIN Order : Order[k] = f /\ Order[j] = g /\ k <= j
    BY <1>4, <1>5
  <1> QED BY <1>6 DEF FirstOf

\* Of the files in memory and on disk: what is there holds a value.
HeldOK ==
    /\ \A f \in Files :
        /\ heap[f] \in Seq(Values) /\ Gen(f) \in 1..MaxGen /\ Gen(f) \in 1..Len(heap[f])
        /\ heap[f][Gen(f)] \in Values /\ disk[f] \in Values \cup {None}
        /\ Held(f) \in Values \cup {None}
        /\ Held(f) = None <=> ~Exists(f)
        /\ Now[f] = Held(f)
    /\ Now \in Contents

\* What a file holds is a value where the file is there, and None where it is not.
LEMMA HeldFacts == ArchiveTypeOK => HeldOK
  <1> SUFFICES ASSUME ArchiveTypeOK PROVE HeldOK
    OBVIOUS
  <1>1. None \notin Values
    BY NoneAssumption DEF Values
  <1>2. \A f \in Files :
            /\ heap[f] \in Seq(Values) /\ Gen(f) \in 1..MaxGen /\ Gen(f) \in 1..Len(heap[f])
            /\ disk[f] \in Values \cup {None} /\ Now[f] = Held(f)
    BY ArchiveAssumption DEF ArchiveTypeOK, Contents, Gen, Now
  <1>3. \A f \in Files : heap[f][Gen(f)] \in Values
    BY <1>2
  <1>4. \A f \in Files : Held(f) \in Values \cup {None} /\ (Held(f) = None <=> ~Exists(f))
    BY <1>1, <1>2, <1>3 DEF Held, Exists
  <1>5. Now \in Contents
    BY <1>4 DEF Now, Contents
  <1> QED BY <1>2, <1>3, <1>4, <1>5 DEF HeldOK

\* The same of the state after a step.
LEMMA HeldFactsNext == ArchiveTypeOK' => HeldOK'
  BY HeldFacts, PTL

\* Writing everything out changes nothing that a file holds.
LEMMA SavedFacts ==
    ASSUME ArchiveTypeOK, heap' = heap, disk' \in {disk, Now}
    PROVE  /\ \A f \in Files : Held(f)' = Held(f) /\ Exists(f)' = Exists(f) /\ Gen(f)' = Gen(f)
           /\ Now' = Now /\ GenOf' = GenOf /\ disk' \in Contents
           /\ \A f \in Files : disk'[f] \in {disk[f], Held(f)}
  <1>1. \A f \in Files : disk'[f] \in {disk[f], Held(f)}
    BY DEF Now
  <1>2. \A f \in Files : Exists(f)' = Exists(f)
    BY <1>1, HeldFacts DEF HeldOK, Exists, Now
  <1>3. \A f \in Files : Gen(f)' = Gen(f)
    BY DEF Gen
  <1>4. \A f \in Files : Held(f)' = Held(f)
    BY <1>1, <1>2, <1>3 DEF Held, Exists
  <1>5. Now' = Now
    BY <1>4 DEF Now
  <1>6. disk' \in Contents
    BY HeldFacts DEF HeldOK, ArchiveTypeOK
  <1> QED BY <1>1, <1>2, <1>3, <1>4, <1>5, <1>6 DEF GenOf

\* Values of the past stay of the past.
LEMMA PastGrows ==
    ASSUME ArchiveTypeOK, clock' \in {clock, clock + 1}, NEW v \in Values \cup {None}, Past(v)
    PROVE  Past(v)'
  BY DEF Past, Values, ArchiveTypeOK

-----------------------------------------------------------------------------
(* What changes a file.                                                    *)

\* What a file that is there holds is replaced: in its table object, or on the
\* host where it is a directory file.
LEMMA PutFacts ==
    ASSUME ArchiveTypeOK, NEW f \in Files, NEW v \in Values, Exists(f),
           \/ f \in Dirs /\ disk' = [disk EXCEPT ![f] = v] /\ heap' = heap
           \/ f \in Tables /\ heap' = [heap EXCEPT ![f][Gen(f)] = v] /\ disk' = disk
    PROVE  /\ heap' \in [Files -> Seq(Values)] /\ disk' \in Contents
           /\ \A g \in Files : Gen(g)' = Gen(g) /\ Exists(g)' = Exists(g)
           /\ \A g \in Files : \A i \in 1..Len(heap'[g]) : i \in 1..Len(heap[g]) /\ heap'[g][i] \in {heap[g][i], v}
           /\ \A g \in Files : disk'[g] = disk[g] \/ (g = f /\ disk'[g] = v)
           /\ Now' = [Now EXCEPT ![f] = v]
  <1>1. None \notin Values /\ heap \in [Files -> Seq(Values)] /\ disk \in Contents
    BY NoneAssumption DEF Values, ArchiveTypeOK
  <1>2. HeldOK
    BY HeldFacts
  <1>3. CASE f \in Dirs /\ disk' = [disk EXCEPT ![f] = v] /\ heap' = heap
    <2>1. disk' \in Contents /\ \A g \in Files : disk'[g] = IF g = f THEN v ELSE disk[g]
      BY <1>1, <1>3 DEF Contents
    <2>2. \A g \in Files : Gen(g)' = Gen(g) /\ Exists(g)' = Exists(g)
      BY <1>1, <1>3, <2>1 DEF Gen, Exists
    <2>3. \A g \in Files : Held(g)' = IF g = f THEN v ELSE Held(g)
      BY <1>3, <2>1, <2>2 DEF Held, Tables
    <2>4. Now' = [Now EXCEPT ![f] = v]
      BY <2>3 DEF Now
    <2> QED BY <1>1, <1>3, <2>1, <2>2, <2>4
  <1>4. CASE f \in Tables /\ heap' = [heap EXCEPT ![f][Gen(f)] = v] /\ disk' = disk
    <2>1. heap[f] \in Seq(Values) /\ Gen(f) \in 1..Len(heap[f])
      BY <1>2 DEF HeldOK
    <2> DEFINE s == [heap[f] EXCEPT ![Gen(f)] = v]
    <2>2. /\ s \in Seq(Values) /\ Len(s) = Len(heap[f])
          /\ \A i \in 1..Len(heap[f]) : s[i] = IF i = Gen(f) THEN v ELSE heap[f][i]
      BY <2>1
    <2>3. heap' = [heap EXCEPT ![f] = s]
      BY <1>4
    <2> HIDE DEF s
    <2>4. heap' \in [Files -> Seq(Values)] /\ \A g \in Files : heap'[g] = IF g = f THEN s ELSE heap[g]
      BY <1>1, <2>2, <2>3
    <2>5. \A g \in Files : Gen(g)' = Gen(g) /\ Exists(g)' = Exists(g)
      BY <1>4, <2>2, <2>4 DEF Gen, Exists
    <2>6. heap'[f][Gen(f)'] = v
      BY <2>1, <2>2, <2>4, <2>5
    <2>7. \A g \in Files : Held(g)' = IF g = f THEN v ELSE Held(g)
      <3>1. Held(f)' = v
        BY <1>4, <2>5, <2>6 DEF Held
      <3>2. \A g \in Files \ {f} : Held(g)' = Held(g)
        BY <1>4, <2>4, <2>5 DEF Held
      <3> QED BY <3>1, <3>2
    <2>8. Now' = [Now EXCEPT ![f] = v]
      BY <2>7 DEF Now
    <2>9. \A g \in Files : \A i \in 1..Len(heap'[g]) : i \in 1..Len(heap[g]) /\ heap'[g][i] \in {heap[g][i], v}
      BY <2>2, <2>4
    <2> QED BY <1>1, <1>4, <2>4, <2>5, <2>8, <2>9
  <1> QED BY <1>3, <1>4

\* A file that is not there is created.
LEMMA MakeFacts ==
    ASSUME ArchiveTypeOK, NEW f \in Files, NEW v \in Values, ~Exists(f), MayCreate(f),
           f \in Tables \/ v = 0,
           heap' = Created(f, v), disk' = [disk EXCEPT ![f] = 0]
    PROVE  /\ heap' \in [Files -> Seq(Values)] /\ disk' \in Contents
           /\ \A g \in Files : Gen(g)' \in 1..MaxGen /\ (g # f => Gen(g)' = Gen(g))
           /\ \A g \in Files : Exists(g)' = (g = f \/ Exists(g))
           /\ \A g \in Files : \A i \in 1..Len(heap'[g]) :
                 heap'[g][i] = v \/ (i \in 1..Len(heap[g]) /\ heap'[g][i] = heap[g][i])
           /\ \A g \in Files : disk'[g] = IF g = f THEN 0 ELSE disk[g]
           /\ Now' = [Now EXCEPT ![f] = v]
  <1>1. /\ None \notin Values /\ heap \in [Files -> Seq(Values)] /\ disk \in Contents /\ 0 \in Values
        /\ Values \subseteq Nat /\ MaxGen \in Nat \ {0}
    BY NoneAssumption, ArchiveAssumption DEF Values, ArchiveTypeOK
  <1>2. HeldOK
    BY HeldFacts
  <1> DEFINE s == IF ex.pc = "idle" /\ tx.pc = "idle" THEN <<v>> ELSE Append(heap[f], v)
  <1>3. heap[f] \in Seq(Values) /\ Len(heap[f]) = Gen(f)
    BY <1>2 DEF HeldOK, Gen
  <1>4. /\ s \in Seq(Values) /\ Len(s) \in 1..MaxGen /\ s[Len(s)] = v
        /\ \A i \in 1..Len(s) : s[i] = v \/ (i \in 1..Len(heap[f]) /\ s[i] = heap[f][i])
    <2>1. CASE ex.pc = "idle" /\ tx.pc = "idle"
      <3>1. s = <<v>>
        BY <2>1
      <3> HIDE DEF s
      <3>2. s \in Seq(Values) /\ Len(s) = 1 /\ s[1] = v
        BY <3>1
      <3> QED BY <1>1, <3>2
    <2>2. CASE ~(ex.pc = "idle" /\ tx.pc = "idle")
      <3>1. s = Append(heap[f], v) /\ Len(heap[f]) < MaxGen
        BY <1>3, <2>2 DEF MayCreate
      <3> HIDE DEF s
      <3>2. s \in Seq(Values) /\ Len(s) = Len(heap[f]) + 1 /\ s[Len(s)] = v
        BY <1>3, <3>1
      <3>3. \A i \in 1..Len(s) : i = Len(s) \/ (i \in 1..Len(heap[f]) /\ s[i] = heap[f][i])
        BY <1>3, <3>1, <3>2
      <3> QED BY <1>1, <1>3, <3>1, <3>2, <3>3
    <2> QED BY <2>1, <2>2
  <1>5. heap' = [heap EXCEPT ![f] = s]
    BY DEF Created
  <1> HIDE DEF s
  <1>6. heap' \in [Files -> Seq(Values)] /\ \A g \in Files : heap'[g] = IF g = f THEN s ELSE heap[g]
    BY <1>1, <1>4, <1>5
  <1>7. disk' \in Contents /\ \A g \in Files : disk'[g] = IF g = f THEN 0 ELSE disk[g]
    BY <1>1 DEF Contents
  <1>8. \A g \in Files : Gen(g)' \in 1..MaxGen /\ (g # f => Gen(g)' = Gen(g))
    BY <1>2, <1>4, <1>6 DEF Gen, HeldOK
  <1>9. \A g \in Files : Exists(g)' = (g = f \/ Exists(g))
    BY <1>1, <1>7 DEF Exists
  <1>10. Held(f)' = v
    <2>1. heap'[f][Gen(f)'] = v
      BY <1>4, <1>6 DEF Gen
    <2> QED BY <2>1, <1>7, <1>9 DEF Held
  <1>11. \A g \in Files \ {f} : Held(g)' = Held(g)
    BY <1>6, <1>7, <1>8, <1>9 DEF Held
  <1>12. Now' = [Now EXCEPT ![f] = v]
    BY <1>10, <1>11 DEF Now
  <1>13. \A g \in Files : \A i \in 1..Len(heap'[g]) :
                 heap'[g][i] = v \/ (i \in 1..Len(heap[g]) /\ heap'[g][i] = heap[g][i])
    BY <1>4, <1>6
  <1> QED BY <1>6, <1>7, <1>8, <1>9, <1>12, <1>13

\* What the histories say after a change that leaves the export's files where
\* they are and, once it writes, its tables as they are.
LEMMA ChangeStep ==
    ASSUME ArchiveInv, ArchiveTypeOK', NEW C \in Contents, Now' = C, Noticed(C), ex' = ex,
           ex.pc # "idle" => im'.pc \notin Applying,
           \A f \in Files : C[f] = Held(f) => disk'[f] \in {disk[f], C[f]},
           ex.pc # "idle" => \A f \in ex.plan : C[f] # None /\ Gen(f)' = Gen(f),
           ex.pc = "writing" => \A f \in ex.guards : C[f] = Held(f)
    PROVE  PlanInv' /\ CopyInv' /\ OneMoment' /\ Restored'
  <1>1. HeldOK /\ HeldOK'
    BY HeldFacts, HeldFactsNext DEF ArchiveInv
  <1>2. ArchiveTypeOK /\ PlanInv /\ CopyInv /\ OneMoment /\ Restored
    BY DEF ArchiveInv
  <1>3. \A f \in Files : Held(f)' = C[f] /\ (Exists(f)' <=> C[f] # None)
    BY <1>1 DEF HeldOK
  <1>4. /\ moments' = IF ex.pc = "idle" THEN {} ELSE moments \cup {C}
        /\ promise' = [f \in Files |-> IF C[f] = Held(f) THEN promise[f] ELSE None]
    BY DEF Noticed
  <1>5. ex.plan \subseteq Files /\ ex.guards \subseteq Files
    BY <1>2 DEF ArchiveTypeOK, Exports, Tables
  <1>6. PlanInv'
    <2> SUFFICES ASSUME ex.pc # "idle" PROVE PlanInv'
      BY DEF PlanInv
    <2>1. Now' \in moments' /\ im'.pc \notin Applying
      BY <1>4
    <2>2. \A f \in ex.plan : Exists(f)' /\ Gen(f)' = Gen(f)
      BY <1>3, <1>5
    <2> QED BY <1>2, <2>1, <2>2 DEF PlanInv
  <1>7. CopyInv'
    <2> SUFFICES ASSUME ex.pc = "writing", NEW f \in ex.plan \ Dirs, ex.staging.copy[f] # None
                 PROVE  ex.staging.copy[f] = Held(f)'
      BY DEF CopyInv
    <2>1. f \in ex.guards
      BY <1>2 DEF PlanInv
    <2> QED BY <1>2, <1>3, <1>5, <2>1 DEF CopyInv
  <1>8. OneMoment'
    BY <1>2, <1>4 DEF OneMoment
  <1>9. Restored'
    BY <1>2, <1>3, <1>4 DEF Restored
  <1> QED BY <1>6, <1>7, <1>8, <1>9

\* The import goes on beside what others change.
LEMMA TouchStep ==
    ASSUME ArchiveInv, NEW S \in SUBSET Files, Touch(S),
           \A f \in Files \ S : Held(f)' = Held(f),
           \A f \in Files : Exists(f) => Exists(f)'
    PROVE  /\ ImportInv' /\ im' \in Imports /\ im'.pc = im.pc /\ im'.archive = im.archive
  <1>1. ArchiveTypeOK /\ ImportInv
    BY DEF ArchiveInv
  <1>2. im \in Imports
    BY <1>1 DEF ArchiveTypeOK
  <1>3. /\ im' \in Imports /\ im'.pc = im.pc /\ im'.archive = im.archive /\ im'.todo = im.todo /\ im'.wrote = im.wrote
        /\ im.pc \in Applying => im'.touched = im.touched \cup S
    BY <1>2 DEF Touch, Imports, Applying
  <1>4. InArchive(im.archive)' = InArchive(im.archive) /\ Turn' = Turn
    BY <1>3 DEF InArchive, Turn, FirstOf
  <1>5. im.pc = "filling" => Turn \in Files
    <2>1. im.pc = "filling" => im.todo # {} /\ im.todo \in SUBSET Files
      BY <1>1, <1>2 DEF ImportInv, Imports, Applying
    <2> QED BY <2>1, FirstIn DEF Turn
  <1>6. InArchive(im.archive) \subseteq Files
    BY DEF InArchive
  <1>7. im.pc \in Applying =>
            \A f \in InArchive(im.archive) \ (im.todo \cup im.touched \cup S) : Held(f)' = im.archive.copy[f]
    BY <1>1, <1>6 DEF ImportInv
  <1>8. ImportInv'
    <2>1. im'.pc = "refused" => ~im'.wrote
      BY <1>1, <1>3 DEF ImportInv
    <2>2. im.pc = "filling" => Exists(Turn)'
      BY <1>1, <1>4, <1>5 DEF ImportInv, Applying, Exists
    <2> QED BY <1>1, <1>3, <1>4, <1>7, <2>1, <2>2 DEF ImportInv
  <1> QED BY <1>3, <1>8

\* Values stay of the past, and a step adds none but the write it counts.
LEMMA ValuesStep ==
    ASSUME ArchiveInv, ArchiveTypeOK', clock' \in {clock, clock + 1},
           \A f \in Files : Past(disk'[f]) \/ disk'[f] = clock',
           \A f \in Files : \A i \in 1..Len(heap'[f]) : Past(heap'[f][i]) \/ heap'[f][i] = clock',
           Past(tx'.value) \/ tx'.value = clock', tx'.pc = "guarding" => tx'.value # None,
           \A a \in {ex'.staging, kept', im'.archive} : a # None => \A f \in Files : Past(a.copy[f]),
           kept' = kept \/ \E f \in Files : kept'.copy[f] # None
    PROVE  ValuesInv'
  <1>1. ArchiveTypeOK /\ clock \in Values /\ clock' \in Values
    BY DEF ArchiveInv, ArchiveTypeOK
  <1>2. \A v \in Values \cup {None} : Past(v) \/ v = clock' => Past(v)'
    BY <1>1 DEF Past, Values
  <1>3. \A f \in Files : Past(disk[f])'
    <2>1. \A f \in Files : disk'[f] \in Values \cup {None}
      BY DEF ArchiveTypeOK, Contents
    <2> QED BY <1>2, <2>1 DEF Past
  <1>4. \A f \in Files : \A i \in 1..Len(heap'[f]) : Past(heap[f][i])'
    <2>1. \A f \in Files : \A i \in 1..Len(heap'[f]) : heap'[f][i] \in Values \cup {None}
      BY DEF ArchiveTypeOK
    <2> QED BY <1>2, <2>1 DEF Past
  <1>5. Past(tx.value)'
    <2>1. tx'.value \in Values \cup {None}
      BY DEF ArchiveTypeOK, Txs
    <2> QED BY <1>2, <2>1 DEF Past
  <1>6. \A a \in {ex'.staging, kept', im'.archive} : 
           a # None => \A f \in Files : a.copy[f] = None \/ a.copy[f] <= clock'
    <2> SUFFICES ASSUME NEW a \in {ex'.staging, kept', im'.archive}, a # None, NEW f \in Files
                 PROVE  a.copy[f] = None \/ a.copy[f] <= clock'
      OBVIOUS
    <2>1. a \in Archives
      BY DEF ArchiveTypeOK, Exports, Imports
    <2>2. a.copy[f] \in Values \cup {None}
      BY <2>1 DEF Archives, Contents
    <2> QED BY <1>2, <2>2 DEF Past
  <1>7. kept' # None => \E f \in Files : kept'.copy[f] # None
    BY DEF ArchiveInv, ValuesInv
  <1> QED BY <1>3, <1>4, <1>5, <1>6, <1>7 DEF ValuesInv, Past

\* What a file holds is of the past.
LEMMA HeldPast ==
    ASSUME ArchiveInv
    PROVE  \A f \in Files : Past(Held(f)) /\ Past(disk[f]) /\ Past(0)
  <1>1. HeldOK /\ ValuesInv
    BY HeldFacts DEF ArchiveInv
  <1>2. Past(0)
    BY DEF Past, ArchiveInv, ArchiveTypeOK, Values
  <1> QED BY <1>1, <1>2 DEF HeldOK, ValuesInv, Held

\* What the histories are told keeps their types.
LEMMA NoticedType ==
    ASSUME ArchiveTypeOK, NEW C \in Contents, Noticed(C)
    PROVE  moments' \subseteq Contents /\ promise' \in Contents
  <1>1. promise \in Contents /\ moments \subseteq Contents
    BY DEF ArchiveTypeOK
  <1>2. promise' \in Contents
    BY <1>1 DEF Noticed, Contents
  <1> QED BY <1>1, <1>2 DEF Noticed

\* Content that no step has changed, in memory or on disk.
LEMMA StillHeld ==
    ASSUME ArchiveInv, heap' = heap, disk' \in {disk, Now}
    PROVE  /\ heap' \in [Files -> Seq(Values)] /\ disk' \in Contents /\ \A f \in Files : Gen(f)' \in 1..MaxGen
           /\ \A f \in Files : Past(disk'[f])
           /\ \A f \in Files : \A i \in 1..Len(heap'[f]) : Past(heap'[f][i])
           /\ \A f \in Files : Held(f)' = Held(f) /\ (Exists(f)' = Exists(f)) /\ Gen(f)' = Gen(f)
           /\ Now' = Now
           /\ promise' = promise => Restored'
  <1>1. ArchiveTypeOK /\ ValuesInv /\ Restored
    BY DEF ArchiveInv
  <1>2. /\ \A f \in Files : Held(f)' = Held(f) /\ (Exists(f)' = Exists(f)) /\ Gen(f)' = Gen(f)
        /\ Now' = Now /\ disk' \in Contents
        /\ \A f \in Files : disk'[f] \in {disk[f], Held(f)}
    BY <1>1, SavedFacts
  <1>3. \A f \in Files : Past(disk'[f])
    BY <1>2, HeldPast
  <1>4. \A f \in Files : \A i \in 1..Len(heap'[f]) : Past(heap'[f][i])
    BY <1>1 DEF ValuesInv
  <1>5. \A f \in Files : Gen(f)' \in 1..MaxGen
    BY <1>1, <1>2 DEF ArchiveTypeOK
  <1>6. promise' = promise => Restored'
    BY <1>1, <1>2 DEF Restored
  <1>7. heap' \in [Files -> Seq(Values)]
    BY <1>1 DEF ArchiveTypeOK
  <1> QED BY <1>2, <1>3, <1>4, <1>5, <1>6, <1>7

\* The export goes on beside what leaves the files as they are.
LEMMA StillExporting ==
    ASSUME ArchiveInv, heap' = heap, disk' \in {disk, Now}, ex' = ex, moments' = moments,
           ex.pc # "idle" => im'.pc \notin Applying
    PROVE  PlanInv' /\ CopyInv' /\ OneMoment'
  <1>1. /\ \A f \in Files : Held(f)' = Held(f) /\ (Exists(f)' = Exists(f)) /\ Gen(f)' = Gen(f)
        /\ Now' = Now
    BY StillHeld
  <1>2. PlanInv /\ CopyInv /\ OneMoment /\ ex.plan \subseteq Files
    BY DEF ArchiveInv, ArchiveTypeOK, Exports
  <1>3. \A f \in ex.plan : Held(f)' = Held(f) /\ (Exists(f)' = Exists(f)) /\ Gen(f)' = Gen(f)
    BY <1>1, <1>2
  <1>4. PlanInv'
    BY <1>1, <1>2, <1>3 DEF PlanInv
  <1>5. CopyInv'
    BY <1>2, <1>3 DEF CopyInv
  <1>6. OneMoment'
    BY <1>2 DEF OneMoment
  <1> QED BY <1>4, <1>5, <1>6

\* So does the import.
LEMMA StillImporting ==
    ASSUME ArchiveInv, heap' = heap, disk' \in {disk, Now}, im' = im
    PROVE  ImportInv'
  <1>1. Touch({})
    <2>1. im \in Imports
      BY DEF ArchiveInv, ArchiveTypeOK
    <2> QED BY <2>1 DEF Touch, Imports
  <1>2. \A f \in Files : Held(f)' = Held(f) /\ (Exists(f)' = Exists(f))
    BY StillHeld
  <1> QED BY <1>1, <1>2, TouchStep

-----------------------------------------------------------------------------
(* The steps of others.                                                    *)

\* A write's value is new, so a promise to the file it changes is dropped; a table
\* the export copies is under its guard, which the write waits for.
LEMMA WriteInv ==
    ASSUME ArchiveInv, NEW f \in Files, Write(f)
    PROVE  ArchiveInv'
  <1> DEFINE v == clock + 1
             C == [Now EXCEPT ![f] = v]
  <1>1. /\ alone = None /\ clock < MaxWrites /\ Exists(f) /\ clock' = v
        /\ \/ f \in Dirs /\ disk' = [disk EXCEPT ![f] = v] /\ heap' = heap
           \/ f \in Tables /\ Free(f) /\ heap' = [heap EXCEPT ![f][Gen(f)] = v] /\ disk' = disk
        /\ Noticed(C) /\ Touch({f})
        /\ alone' = alone /\ ex' = ex /\ kept' = kept /\ tx' = tx
    BY DEF Write
  <1>2. ArchiveTypeOK /\ ValuesInv /\ PlanInv /\ GuardInv /\ HeldOK
    BY HeldFacts DEF ArchiveInv
  <1>3. v \in Values /\ v # None /\ ~Past(v)
    BY <1>1, <1>2, ArchiveAssumption, NoneAssumption DEF Values, ArchiveTypeOK, Past
  <1> HIDE DEF v
  <1>4. /\ heap' \in [Files -> Seq(Values)] /\ disk' \in Contents
        /\ \A g \in Files : Gen(g)' = Gen(g) /\ Exists(g)' = Exists(g)
        /\ \A g \in Files : \A i \in 1..Len(heap'[g]) : i \in 1..Len(heap[g]) /\ heap'[g][i] \in {heap[g][i], v}
        /\ \A g \in Files : disk'[g] = disk[g] \/ (g = f /\ disk'[g] = v)
        /\ Now' = C
    BY <1>1, <1>2, <1>3, PutFacts
  <1>5. C \in Contents /\ \A g \in Files : C[g] = IF g = f THEN v ELSE Held(g)
    BY <1>2, <1>3 DEF HeldOK, Contents
  <1> HIDE DEF C
  <1>6. \A g \in Files : g # f => Held(g)' = Held(g)
    BY <1>4, <1>5 DEF Now
  <1>7. ImportInv' /\ im' \in Imports /\ im'.pc = im.pc /\ im'.archive = im.archive
    <2>1. \A g \in Files \ {f} : Held(g)' = Held(g)
      BY <1>6
    <2>2. {f} \in SUBSET Files
      OBVIOUS
    <2> QED BY <1>1, <1>4, <2>1, <2>2, TouchStep
  <1>8. ArchiveTypeOK'
    <2>1. moments' \subseteq Contents /\ promise' \in Contents
      BY <1>1, <1>2, <1>5, NoticedType
    <2> QED BY <1>1, <1>2, <1>3, <1>4, <1>7, <2>1, NoneAssumption DEF ArchiveTypeOK
  <1>9. PlanInv' /\ CopyInv' /\ OneMoment' /\ Restored'
    <2>1. \A g \in Files : C[g] = Held(g) => disk'[g] \in {disk[g], C[g]}
      BY <1>3, <1>4, <1>5, HeldPast
    <2>2. ex.plan \subseteq Files /\ ex.guards \subseteq Tables /\ Dirs \cap Tables = {}
      BY <1>2 DEF ArchiveTypeOK, Exports, Tables
    <2>3. ex.pc # "idle" => \A g \in ex.plan : C[g] # None /\ Gen(g)' = Gen(g)
      BY <1>2, <1>3, <1>4, <1>5, <2>2 DEF PlanInv, HeldOK
    <2>4. ex.pc = "writing" => \A g \in ex.guards : C[g] = Held(g)
      <3>1. ex.pc = "writing" => f \notin ex.guards
        BY <1>1, <1>2, <2>2 DEF PlanInv, Free
      <3> QED BY <1>5, <2>2, <3>1 DEF Tables
    <2>5. ex.pc # "idle" => im'.pc \notin Applying
      BY <1>2, <1>7 DEF PlanInv
    <2> QED BY <1>1, <1>4, <1>5, <1>8, <2>1, <2>3, <2>4, <2>5, ChangeStep
  <1>10. ValuesInv'
    <2>1. clock' \in {clock, clock + 1}
      BY <1>1 DEF v
    <2>2. \A g \in Files : Past(disk'[g]) \/ disk'[g] = clock'
      BY <1>1, <1>4, HeldPast
    <2>3. \A g \in Files : \A i \in 1..Len(heap'[g]) : Past(heap'[g][i]) \/ heap'[g][i] = clock'
      BY <1>1, <1>2, <1>4 DEF ValuesInv
    <2>4. Past(tx'.value) /\ (tx'.pc = "guarding" => tx'.value # None)
      BY <1>1, <1>2 DEF ValuesInv
    <2>5. \A a \in {ex'.staging, kept', im'.archive} : a # None => \A g \in Files : Past(a.copy[g])
      BY <1>1, <1>2, <1>7 DEF ValuesInv
    <2> QED BY <1>1, <1>8, <2>1, <2>2, <2>3, <2>4, <2>5, ValuesStep
  <1>11. GuardInv'
    BY <1>1, <1>2 DEF GuardInv
  <1> QED BY <1>7, <1>8, <1>9, <1>10, <1>11 DEF ArchiveInv

\* A dead-letter file is made where none was: no export has it in its plan.
LEMMA BuryInv ==
    ASSUME ArchiveInv, NEW f \in Files, Bury(f)
    PROVE  ArchiveInv'
  <1> DEFINE v == clock + 1
             C == [Now EXCEPT ![f] = v]
  <1>1. /\ alone = None /\ clock < MaxWrites /\ ~Exists(f) /\ MayCreate(f) /\ clock' = v
        /\ heap' = Created(f, v) /\ disk' = [disk EXCEPT ![f] = 0]
        /\ Noticed(C) /\ Touch({f})
        /\ alone' = alone /\ ex' = ex /\ kept' = kept /\ tx' = tx
    BY DEF Bury, Created
  <1>2. ArchiveTypeOK /\ ValuesInv /\ PlanInv /\ GuardInv /\ HeldOK
    BY HeldFacts DEF ArchiveInv
  <1>3. v \in Values /\ v # None /\ f \in Tables
    BY <1>1, <1>2, ArchiveAssumption, NoneAssumption DEF Values, ArchiveTypeOK, Bury
  <1> HIDE DEF v
  <1>4. /\ heap' \in [Files -> Seq(Values)] /\ disk' \in Contents
        /\ \A g \in Files : Gen(g)' \in 1..MaxGen /\ (g # f => Gen(g)' = Gen(g))
        /\ \A g \in Files : Exists(g)' = (g = f \/ Exists(g))
        /\ \A g \in Files : \A i \in 1..Len(heap'[g]) :
              heap'[g][i] = v \/ (i \in 1..Len(heap[g]) /\ heap'[g][i] = heap[g][i])
        /\ \A g \in Files : disk'[g] = IF g = f THEN 0 ELSE disk[g]
        /\ Now' = C
    BY <1>1, <1>2, <1>3, MakeFacts
  <1>5. C \in Contents /\ \A g \in Files : C[g] = IF g = f THEN v ELSE Held(g)
    BY <1>2, <1>3 DEF HeldOK, Contents
  <1> HIDE DEF C
  <1>6. \A g \in Files : g # f => Held(g)' = Held(g)
    BY <1>4, <1>5 DEF Now
  <1>7. ImportInv' /\ im' \in Imports /\ im'.pc = im.pc /\ im'.archive = im.archive
    <2>1. \A g \in Files \ {f} : Held(g)' = Held(g)
      BY <1>6
    <2>2. {f} \in SUBSET Files
      OBVIOUS
    <2> QED BY <1>1, <1>4, <2>1, <2>2, TouchStep
  <1>8. ArchiveTypeOK'
    <2>1. moments' \subseteq Contents /\ promise' \in Contents
      BY <1>1, <1>2, <1>5, NoticedType
    <2> QED BY <1>1, <1>2, <1>3, <1>4, <1>7, <2>1, NoneAssumption DEF ArchiveTypeOK
  <1>9. PlanInv' /\ CopyInv' /\ OneMoment' /\ Restored'
    <2>1. \A g \in Files : C[g] = Held(g) => disk'[g] \in {disk[g], C[g]}
      BY <1>1, <1>2, <1>3, <1>4, <1>5 DEF HeldOK
    <2>2. ex.plan \subseteq Files /\ ex.guards \subseteq Files
      BY <1>2 DEF ArchiveTypeOK, Exports, Tables
    <2>3. ex.pc # "idle" => f \notin ex.plan /\ ex.guards \subseteq ex.plan
      BY <1>1, <1>2 DEF PlanInv
    <2>4. ex.pc # "idle" => \A g \in ex.plan : C[g] # None /\ Gen(g)' = Gen(g)
      BY <1>2, <1>4, <1>5, <2>2, <2>3 DEF PlanInv, HeldOK
    <2>5. ex.pc = "writing" => \A g \in ex.guards : C[g] = Held(g)
      BY <1>5, <2>2, <2>3
    <2>6. ex.pc # "idle" => im'.pc \notin Applying
      BY <1>2, <1>7 DEF PlanInv
    <2> QED BY <1>1, <1>4, <1>5, <1>8, <2>1, <2>4, <2>5, <2>6, ChangeStep
  <1>10. ValuesInv'
    <2>1. clock' \in {clock, clock + 1}
      BY <1>1 DEF v
    <2>2. \A g \in Files : Past(disk'[g]) \/ disk'[g] = clock'
      BY <1>1, <1>4, HeldPast
    <2>3. \A g \in Files : \A i \in 1..Len(heap'[g]) : Past(heap'[g][i]) \/ heap'[g][i] = clock'
      BY <1>1, <1>2, <1>4 DEF ValuesInv
    <2>4. Past(tx'.value) /\ (tx'.pc = "guarding" => tx'.value # None)
      BY <1>1, <1>2 DEF ValuesInv
    <2>5. \A a \in {ex'.staging, kept', im'.archive} : a # None => \A g \in Files : Past(a.copy[g])
      BY <1>1, <1>2, <1>7 DEF ValuesInv
    <2> QED BY <1>1, <1>8, <2>1, <2>2, <2>3, <2>4, <2>5, ValuesStep
  <1>11. GuardInv'
    BY <1>1, <1>2 DEF GuardInv
  <1> QED BY <1>7, <1>8, <1>9, <1>10, <1>11 DEF ArchiveInv

\* A transaction resolves its handles, and holds no guard yet.
LEMMA TxBeginInv ==
    ASSUME ArchiveInv, TxBegin
    PROVE  ArchiveInv'
  <1>1. /\ alone = None /\ clock < MaxWrites /\ clock' = clock + 1
        /\ tx' = [pc |-> "guarding", value |-> clock', handle |-> GenOf, guards |-> {}]
        /\ heap' = heap /\ disk' = disk /\ alone' = alone /\ ex' = ex /\ kept' = kept /\ im' = im
        /\ moments' = moments /\ promise' = promise
    BY DEF TxBegin
  <1>2. ArchiveTypeOK /\ ValuesInv /\ PlanInv /\ HeldOK
    BY HeldFacts DEF ArchiveInv
  <1>3. clock' \in Values /\ clock' # None
    BY <1>1, <1>2, ArchiveAssumption, NoneAssumption DEF Values, ArchiveTypeOK
  <1>4. GenOf \in Handles
    BY <1>2 DEF GenOf, Handles, HeldOK
  <1>5. tx' \in Txs /\ tx'.value = clock' /\ tx'.guards = {}
    BY <1>1, <1>3, <1>4 DEF Txs
  <1>6. ArchiveTypeOK'
    <2>1. \A f \in Files : Gen(f)' = Gen(f)
      BY <1>1 DEF Gen
    <2> QED BY <1>1, <1>2, <1>3, <1>5, <2>1, NoneAssumption DEF ArchiveTypeOK
  <1>7. PlanInv' /\ CopyInv' /\ OneMoment'
    BY <1>1, <1>2, StillExporting DEF PlanInv
  <1>8. ImportInv' /\ Restored'
    BY <1>1, StillImporting, StillHeld
  <1>9. GuardInv'
    BY <1>5 DEF GuardInv
  <1>10. ValuesInv'
    <2>1. /\ \A f \in Files : Past(disk'[f])
          /\ \A f \in Files : \A i \in 1..Len(heap'[f]) : Past(heap'[f][i])
      BY <1>1, StillHeld
    <2>2. \A a \in {ex'.staging, kept', im'.archive} : a # None => \A g \in Files : Past(a.copy[g])
      BY <1>1, <1>2 DEF ValuesInv
    <2> QED BY <1>1, <1>3, <1>5, <1>6, <2>1, <2>2, ValuesStep
  <1> QED BY <1>6, <1>7, <1>8, <1>9, <1>10 DEF ArchiveInv

\* A step that changes no file and no archive, beside the export and the import.
LEMMA AsideValues ==
    ASSUME ArchiveInv, ArchiveTypeOK', heap' = heap, disk' \in {disk, Now}, clock' = clock, kept' = kept,
           tx'.value \in {tx.value, None}, tx'.pc = "guarding" => tx.pc = "guarding" /\ tx'.value = tx.value,
           \A a \in {ex'.staging, kept', im'.archive} :
              a # None => \E b \in {ex.staging, kept, im.archive} : b # None /\ a.copy = b.copy
    PROVE  ValuesInv'
  <1>1. ValuesInv
    BY DEF ArchiveInv
  <1>2. /\ \A f \in Files : Past(disk'[f])
        /\ \A f \in Files : \A i \in 1..Len(heap'[f]) : Past(heap'[f][i])
    BY StillHeld
  <1>3. Past(tx'.value) /\ (tx'.pc = "guarding" => tx'.value # None)
    BY <1>1 DEF ValuesInv, Past
  <1>4. \A a \in {ex'.staging, kept', im'.archive} : a # None => \A f \in Files : Past(a.copy[f])
    BY <1>1 DEF ValuesInv
  <1> QED BY <1>2, <1>3, <1>4, ValuesStep

\* It takes no guard that the export holds on the same table object.
LEMMA TxGuardInv ==
    ASSUME ArchiveInv, TxGuard
    PROVE  ArchiveInv'
  <1> DEFINE f == FirstOf(Tables \ tx.guards)
  <1>1. /\ tx.pc = "guarding" /\ tx.guards # Tables
        /\ ~(f \in ex.guards /\ ex.handle[f] = tx.handle[f])
        /\ tx' = [tx EXCEPT !.guards = @ \cup {f}]
        /\ heap' = heap /\ disk' = disk /\ clock' = clock /\ alone' = alone /\ ex' = ex /\ kept' = kept /\ im' = im
        /\ moments' = moments /\ promise' = promise
    BY DEF TxGuard, files
  <1>2. ArchiveTypeOK /\ PlanInv /\ GuardInv /\ tx \in Txs
    BY DEF ArchiveInv, ArchiveTypeOK
  <1>3. f \in Tables
    <2>1. Tables \ tx.guards \in SUBSET Files /\ Tables \ tx.guards # {}
      BY <1>1, <1>2 DEF Txs, Tables
    <2> QED BY <2>1, FirstIn
  <1> HIDE DEF f
  <1>4. /\ tx' \in Txs /\ tx'.pc = tx.pc /\ tx'.value = tx.value /\ tx'.handle = tx.handle
        /\ tx'.guards = tx.guards \cup {f}
    BY <1>1, <1>2, <1>3 DEF Txs
  <1>5. ArchiveTypeOK'
    <2>1. \A g \in Files : Gen(g)' = Gen(g)
      BY <1>1 DEF Gen
    <2> QED BY <1>1, <1>2, <1>4, <2>1 DEF ArchiveTypeOK
  <1>6. PlanInv' /\ CopyInv' /\ OneMoment'
    BY <1>1, <1>2, StillExporting DEF PlanInv
  <1>7. ImportInv' /\ Restored'
    BY <1>1, StillImporting, StillHeld
  <1>8. GuardInv'
    BY <1>1, <1>2, <1>4 DEF GuardInv
  <1>9. ValuesInv'
    BY <1>1, <1>4, <1>5, AsideValues
  <1> QED BY <1>5, <1>6, <1>7, <1>8, <1>9 DEF ArchiveInv

\* The flusher puts on disk what the files hold.
LEMMA SaveAllInv ==
    ASSUME ArchiveInv, SaveAll
    PROVE  ArchiveInv'
  <1>1. /\ heap' = heap /\ disk' = Now /\ clock' = clock /\ alone' = alone /\ ex' = ex /\ kept' = kept /\ im' = im
        /\ tx' = tx /\ moments' = moments /\ promise' = promise
    BY DEF SaveAll
  <1>2. ArchiveTypeOK /\ PlanInv /\ GuardInv
    BY DEF ArchiveInv
  <1>3. disk' \in Contents /\ \A f \in Files : Gen(f)' \in 1..MaxGen
    BY <1>1, StillHeld
  <1>4. ArchiveTypeOK'
    BY <1>1, <1>2, <1>3 DEF ArchiveTypeOK
  <1>5. PlanInv' /\ CopyInv' /\ OneMoment'
    BY <1>1, <1>2, StillExporting DEF PlanInv
  <1>6. ImportInv' /\ Restored'
    BY <1>1, StillImporting, StillHeld
  <1>7. GuardInv'
    BY <1>1, <1>2 DEF GuardInv
  <1>8. ValuesInv'
    BY <1>1, <1>4, AsideValues
  <1> QED BY <1>4, <1>5, <1>6, <1>7, <1>8 DEF ArchiveInv

\* A function on the places of a sequence is a sequence of its length.
LEMMA SameLength ==
    ASSUME NEW n \in Nat, NEW t \in [1..n -> Values]
    PROVE  t \in Seq(Values) /\ Len(t) = n
  <1>1. t \in Seq(Values)
    BY SeqDef
  <1>2. DOMAIN t = 1..n
    OBVIOUS
  <1> QED BY <1>1, <1>2

\* A transaction writes through its handles: where the file has been made again
\* since, into an object nobody reads.
LEMMA TxApplyInv ==
    ASSUME ArchiveInv, TxApply
    PROVE  ArchiveInv'
  <1> DEFINE v == tx.value
             S == {f \in Tables : Exists(f) /\ tx.handle[f] = Gen(f)}
             C == [f \in Files |-> IF f \in S THEN v ELSE Held(f)]
  <1>1. /\ tx.pc = "guarding" /\ tx.guards = Tables
        /\ heap' = [f \in Files |-> IF f \in Tables THEN [heap[f] EXCEPT ![tx.handle[f]] = v] ELSE heap[f]]
        /\ Noticed(C) /\ Touch(S)
        /\ tx' = NoTx
        /\ disk' = disk /\ clock' = clock /\ alone' = alone /\ ex' = ex /\ kept' = kept
    BY DEF TxApply
  <1>2. ArchiveTypeOK /\ ValuesInv /\ PlanInv /\ GuardInv /\ HeldOK
    BY HeldFacts DEF ArchiveInv
  <1>3. v \in Values /\ v # None /\ Past(v) /\ S \in SUBSET Files
    BY <1>1, <1>2 DEF ValuesInv, ArchiveTypeOK, Txs, Tables
  <1>4. \A f \in S : f \in Tables /\ Exists(f) /\ tx.handle[f] = Gen(f)
    OBVIOUS
  <1>5. \A f \in Tables : Exists(f) /\ f \notin S => tx.handle[f] # Gen(f)
    OBVIOUS
  <1>6. C \in Contents /\ \A f \in Files : C[f] = IF f \in S THEN v ELSE Held(f)
    BY <1>2, <1>3 DEF HeldOK, Contents
  <1> HIDE DEF v, S, C
  <1>7. \A f \in Files :
           /\ heap'[f] \in Seq(Values) /\ Len(heap'[f]) = Len(heap[f])
           /\ \A i \in 1..Len(heap[f]) : heap'[f][i] = IF f \in Tables /\ i = tx.handle[f] THEN v ELSE heap[f][i]
    <2> SUFFICES ASSUME NEW f \in Files
                 PROVE  /\ heap'[f] \in Seq(Values) /\ Len(heap'[f]) = Len(heap[f])
                        /\ \A i \in 1..Len(heap[f]) :
                              heap'[f][i] = IF f \in Tables /\ i = tx.handle[f] THEN v ELSE heap[f][i]
      OBVIOUS
    <2>1. heap[f] \in Seq(Values)
      BY <1>2 DEF HeldOK
    <2> DEFINE t == [heap[f] EXCEPT ![tx.handle[f]] = v]
    <2>2. heap'[f] = IF f \in Tables THEN t ELSE heap[f]
      BY <1>1
    <2>3. /\ t \in Seq(Values) /\ Len(t) = Len(heap[f])
          /\ \A i \in 1..Len(heap[f]) : t[i] = IF i = tx.handle[f] THEN v ELSE heap[f][i]
      <3>1. /\ Len(heap[f]) \in Nat /\ DOMAIN heap[f] = 1..Len(heap[f])
            /\ \A i \in 1..Len(heap[f]) : heap[f][i] \in Values
        BY <2>1
      <3>2. t = [i \in 1..Len(heap[f]) |-> IF i = tx.handle[f] THEN v ELSE heap[f][i]]
        BY <3>1
      <3> HIDE DEF t
      <3>3. t \in [1..Len(heap[f]) -> Values]
        BY <1>3, <3>1, <3>2
      <3>4. t \in Seq(Values) /\ Len(t) = Len(heap[f])
        BY <3>1, <3>3, SameLength
      <3> QED BY <3>2, <3>4
    <2> HIDE DEF t
    <2> QED BY <2>1, <2>2, <2>3
  <1>8. heap' \in [Files -> Seq(Values)]
    <2>1. DOMAIN heap' = Files /\ heap' = [f \in Files |-> heap'[f]]
      BY <1>1
    <2> QED BY <1>7, <2>1
  <1>9. \A f \in Files : Gen(f)' = Gen(f) /\ (Exists(f)' = Exists(f))
    BY <1>1, <1>7 DEF Gen, Exists
  <1>10. \A f \in Files : Held(f)' = C[f]
    <2> SUFFICES ASSUME NEW f \in Files PROVE Held(f)' = C[f]
      OBVIOUS
    <2>1. Gen(f) \in 1..Len(heap[f])
      BY <1>2 DEF HeldOK
    <2>2. heap'[f][Gen(f)'] = IF f \in Tables /\ Gen(f) = tx.handle[f] THEN v ELSE heap[f][Gen(f)]
      BY <1>7, <1>9, <2>1
    <2>3. CASE f \in S
      BY <1>4, <1>6, <1>9, <2>2, <2>3 DEF Held
    <2>4. CASE f \notin S
      BY <1>1, <1>5, <1>6, <1>9, <2>2, <2>4 DEF Held
    <2> QED BY <2>3, <2>4
  <1>11. Now' = C
    <2>1. C = [f \in Files |-> C[f]]
      BY <1>6 DEF Contents
    <2> QED BY <1>10, <2>1 DEF Now
  <1>12. ImportInv' /\ im' \in Imports /\ im'.pc = im.pc /\ im'.archive = im.archive
    <2>1. \A f \in Files \ S : Held(f)' = Held(f)
      BY <1>6, <1>10
    <2> QED BY <1>1, <1>3, <1>9, <2>1, TouchStep
  <1>13. ArchiveTypeOK'
    <2>1. moments' \subseteq Contents /\ promise' \in Contents
      BY <1>1, <1>2, <1>6, NoticedType
    <2>2. tx' \in Txs /\ tx'.pc = "idle"
      BY <1>1, NoneAssumption DEF NoTx, Txs, Blank, Handles
    <2> QED BY <1>1, <1>2, <1>8, <1>9, <1>12, <2>1, <2>2 DEF ArchiveTypeOK
  <1>14. PlanInv' /\ CopyInv' /\ OneMoment' /\ Restored'
    <2>1. \A f \in Files : C[f] = Held(f) => disk'[f] \in {disk[f], C[f]}
      BY <1>1
    <2>2. ex.plan \subseteq Files /\ ex.guards \subseteq Tables
      BY <1>2 DEF ArchiveTypeOK, Exports
    <2>3. ex.pc # "idle" => \A f \in ex.plan : C[f] # None /\ Gen(f)' = Gen(f)
      BY <1>2, <1>3, <1>6, <1>9, <2>2 DEF PlanInv, HeldOK
    <2>4. ex.pc = "writing" => \A f \in ex.guards : C[f] = Held(f)
      <3>1. ex.pc = "writing" => \A f \in ex.guards : f \notin S
        BY <1>1, <1>2, <1>4, <2>2 DEF PlanInv, GuardInv
      <3> QED BY <1>6, <2>2, <3>1 DEF Tables
    <2>5. ex.pc # "idle" => im'.pc \notin Applying
      BY <1>2, <1>12 DEF PlanInv
    <2> QED BY <1>1, <1>6, <1>11, <1>13, <2>1, <2>3, <2>4, <2>5, ChangeStep
  <1>15. ValuesInv'
    <2>1. \A f \in Files : Past(disk'[f])
      BY <1>1, HeldPast
    <2>2. \A f \in Files : \A i \in 1..Len(heap'[f]) : Past(heap'[f][i])
      BY <1>2, <1>3, <1>7 DEF ValuesInv
    <2>3. Past(tx'.value) /\ tx'.pc # "guarding"
      BY <1>1 DEF NoTx, Past
    <2>4. \A a \in {ex'.staging, kept', im'.archive} : a # None => \A g \in Files : Past(a.copy[g])
      BY <1>1, <1>2, <1>12 DEF ValuesInv
    <2> QED BY <1>1, <1>13, <2>1, <2>2, <2>3, <2>4, ValuesStep
  <1>16. GuardInv'
    BY <1>1 DEF GuardInv, NoTx
  <1> QED BY <1>12, <1>13, <1>14, <1>15, <1>16 DEF ArchiveInv

-----------------------------------------------------------------------------
(* The steps of an export.                                                 *)

\* Nothing is held and nothing pointed at.
LEMMA BlankFacts ==
    Blank \in Contents /\ Blank \in Handles /\ \A f \in Files : Blank[f] = None
  BY DEF Blank, Contents, Handles

\* An export begins with what the files hold now as the first of its moments.
LEMMA ExportBeginsInv ==
    ASSUME ArchiveInv, NEW form \in {"path", "bytes"}, ExportBegins(form)
    PROVE  ArchiveInv'
  <1>1. PICK plan \in SUBSET Files :
           /\ plan # {} /\ \A f \in plan : Exists(f)
           /\ ex.pc = "idle" /\ alone = None /\ (form = "path" => Quiet) /\ im.pc \notin Applying
           /\ alone' = IF form = "path" THEN "export" ELSE None
           /\ disk' = Now
           /\ ex' = [NoExport EXCEPT !.pc = "planned", !.plan = plan,
                                     !.staging = [whole |-> FALSE, copy |-> Blank]]
           /\ moments' = {Now}
           /\ heap' = heap /\ clock' = clock /\ kept' = kept /\ im' = im /\ tx' = tx /\ promise' = promise
    BY DEF ExportBegins
  <1>2. ArchiveTypeOK /\ ValuesInv /\ HeldOK
    BY HeldFacts DEF ArchiveInv
  <1> DEFINE blank == [whole |-> FALSE, copy |-> Blank]
  <1>3. blank \in Archives /\ blank # None /\ blank.copy = Blank
    <2>1. blank \in Archives /\ blank.copy = Blank
      BY BlankFacts DEF Archives
    <2> HIDE DEF blank
    <2> QED BY <2>1, NoneAssumption
  <1>4. /\ ex'.pc = "planned" /\ ex'.plan = plan /\ ex'.handle = Blank /\ ex'.guards = {} /\ ex'.staging = blank
        /\ ex' \in Exports
    BY <1>1, <1>3, BlankFacts DEF NoExport, Exports
  <1> HIDE DEF blank
  <1>5. /\ heap' \in [Files -> Seq(Values)] /\ disk' \in Contents /\ \A f \in Files : Gen(f)' \in 1..MaxGen
        /\ \A f \in Files : Past(disk'[f])
        /\ \A f \in Files : \A i \in 1..Len(heap'[f]) : Past(heap'[f][i])
        /\ \A f \in Files : (Exists(f)' = Exists(f))
        /\ Now' = Now /\ Restored'
    BY <1>1, StillHeld
  <1>6. ArchiveTypeOK'
    <2>1. moments' \subseteq Contents
      BY <1>1, <1>2 DEF HeldOK
    <2>2. alone' \in {None, "export"} /\ (alone' = "export" => tx.pc = "idle")
      BY <1>1, NoneAssumption DEF Quiet
    <2> QED BY <1>1, <1>2, <1>4, <1>5, <2>1, <2>2, NoneAssumption DEF ArchiveTypeOK
  <1>7. PlanInv'
    <2>1. Now' \in moments' /\ im'.pc \notin Applying
      BY <1>1, <1>5
    <2>2. \A f \in ex'.plan : Exists(f)'
      BY <1>1, <1>4, <1>5
    <2> QED BY <1>1, <1>3, <1>4, <2>1, <2>2 DEF PlanInv
  <1>8. GuardInv' /\ CopyInv' /\ OneMoment'
    BY <1>4 DEF GuardInv, CopyInv, OneMoment
  <1>9. ImportInv'
    BY <1>1, StillImporting
  <1>10. ValuesInv'
    <2>1. \A a \in {ex'.staging, kept', im'.archive} : a # None => \A g \in Files : Past(a.copy[g])
      BY <1>1, <1>2, <1>3, <1>4, BlankFacts DEF ValuesInv, Past
    <2>2. Past(tx'.value) /\ (tx'.pc = "guarding" => tx'.value # None)
      BY <1>1, <1>2 DEF ValuesInv
    <2> QED BY <1>1, <1>5, <1>6, <2>1, <2>2, ValuesStep
  <1> QED BY <1>5, <1>6, <1>7, <1>8, <1>9, <1>10 DEF ArchiveInv

\* A step of the export alone, which changes no file.
LEMMA OwnStep ==
    ASSUME ArchiveInv, UNCHANGED <<files, im, tx, promise>>,
           ex' \in Exports, kept' \in Archives \cup {None}, moments' \subseteq Contents,
           alone' \in {None, alone}, alone' = "export" => ex'.pc # "idle", ex'.pc # "idle" => ex.pc # "idle",
           \A a \in {ex'.staging, kept'} : a # None => \A f \in Files : Past(a.copy[f]),
           kept' = kept \/ \E f \in Files : kept'.copy[f] # None
    PROVE  /\ ArchiveTypeOK' /\ ValuesInv' /\ ImportInv' /\ Restored'
           /\ \A f \in Files : Held(f)' = Held(f) /\ (Exists(f)' = Exists(f)) /\ Gen(f)' = Gen(f)
           /\ Now' = Now
  <1>1. heap' = heap /\ disk' = disk /\ clock' = clock /\ im' = im /\ tx' = tx /\ promise' = promise
    BY DEF files
  <1>2. ArchiveTypeOK /\ ValuesInv
    BY DEF ArchiveInv
  <1>3. /\ \A f \in Files : Held(f)' = Held(f) /\ (Exists(f)' = Exists(f)) /\ Gen(f)' = Gen(f)
        /\ Now' = Now /\ Restored'
        /\ \A f \in Files : Past(disk'[f])
        /\ \A f \in Files : \A i \in 1..Len(heap'[f]) : Past(heap'[f][i])
    BY <1>1, StillHeld
  <1>4. ImportInv'
    BY <1>1, StillImporting
  <1>5. ArchiveTypeOK'
    BY <1>1, <1>2, <1>3, NoneAssumption DEF ArchiveTypeOK
  <1>6. ValuesInv'
    <2>1. \A a \in {ex'.staging, kept', im'.archive} : a # None => \A g \in Files : Past(a.copy[g])
      BY <1>1, <1>2 DEF ValuesInv
    <2>2. Past(tx'.value) /\ (tx'.pc = "guarding" => tx'.value # None)
      BY <1>1, <1>2 DEF ValuesInv
    <2> QED BY <1>1, <1>3, <1>5, <2>1, <2>2, ValuesStep
  <1> QED BY <1>3, <1>4, <1>5, <1>6

\* What the export knows, as its own steps need it.
LEMMA ExportFacts ==
    ASSUME ArchiveInv
    PROVE  /\ ex \in Exports /\ ex.plan \subseteq Files /\ ex.guards \subseteq Tables
           /\ kept \in Archives \cup {None} /\ moments \subseteq Contents
           /\ \A a \in {ex.staging, kept} : a # None => \A f \in Files : Past(a.copy[f])
           /\ ex.pc # "idle" => ex.staging \in Archives /\ Now \in moments /\ im.pc \notin Applying
           /\ alone = "export" => ex.pc # "idle"
           /\ alone = "import" => ex.pc = "idle"
  BY DEF ArchiveInv, ArchiveTypeOK, Exports, ValuesInv, PlanInv

\* With the server's lock held and the files there, the handles are to their tables.
LEMMA ExportResolvesInv ==
    ASSUME ArchiveInv, ExportResolves
    PROVE  ArchiveInv'
  <1>1. /\ ex.pc = "planned" /\ ex' = [ex EXCEPT !.pc = "guarding", !.handle = GenOf]
        /\ UNCHANGED <<files, alone, kept, im, tx, moments, promise>>
    BY DEF ExportResolves
  <1>2. PlanInv /\ ex \in Exports /\ HeldOK /\ ex.plan \subseteq Files
    BY ExportFacts, HeldFacts DEF ArchiveInv
  <1>3. GenOf \in Handles /\ \A f \in Files : GenOf[f] = Gen(f)
    BY <1>2 DEF GenOf, Handles, HeldOK
  <1>4. /\ ex' \in Exports /\ ex'.pc = "guarding" /\ ex'.plan = ex.plan /\ ex'.handle = GenOf
        /\ ex'.guards = ex.guards /\ ex'.staging = ex.staging
    BY <1>1, <1>2, <1>3 DEF Exports
  <1>5. /\ ArchiveTypeOK' /\ ValuesInv' /\ ImportInv' /\ Restored'
        /\ \A f \in Files : (Exists(f)' = Exists(f)) /\ Gen(f)' = Gen(f)
        /\ Now' = Now
    BY <1>1, <1>4, ExportFacts, OwnStep
  <1>6. PlanInv'
    <2>1. \A f \in ex.plan : Exists(f)' /\ GenOf[f] = Gen(f)'
      BY <1>1, <1>2, <1>3, <1>5 DEF PlanInv
    <2> QED BY <1>1, <1>2, <1>4, <1>5, <2>1 DEF PlanInv
  <1>7. GuardInv' /\ CopyInv' /\ OneMoment'
    BY <1>1, <1>2, <1>4 DEF GuardInv, CopyInv, OneMoment, PlanInv
  <1> QED BY <1>5, <1>6, <1>7 DEF ArchiveInv

\* The last guard is taken before anything is copied.
LEMMA ExportGuardsInv ==
    ASSUME ArchiveInv, ExportGuards
    PROVE  ArchiveInv'
  <1> DEFINE left == (ex.plan \ Dirs) \ ex.guards
             f == FirstOf(left)
  <1>1. /\ ex.pc = "guarding"
        /\ \/ left # {} /\ MayShare(f) /\ ex' = [ex EXCEPT !.guards = @ \cup {f}]
           \/ left = {} /\ ex' = [ex EXCEPT !.pc = "writing"]
        /\ UNCHANGED <<files, alone, kept, im, tx, moments, promise>>
    BY DEF ExportGuards, TakeGuard, NextToGuard
  <1>2. PlanInv /\ GuardInv /\ CopyInv /\ ex \in Exports /\ ex.plan \subseteq Files
    BY ExportFacts DEF ArchiveInv
  <1>3. left # {} => f \in left
    <2>1. left \in SUBSET Files
      BY <1>2
    <2> HIDE DEF left
    <2> QED BY <2>1, FirstIn
  <1>4. left # {} => f \in ex.plan \ Dirs /\ f \in Tables
    BY <1>2, <1>3 DEF Tables
  <1>5. left = {} => ex.plan \ Dirs \subseteq ex.guards
    OBVIOUS
  <1> HIDE DEF left, f
  <1>6. /\ ex' \in Exports /\ ex'.plan = ex.plan /\ ex'.handle = ex.handle /\ ex'.staging = ex.staging
        /\ \/ left # {} /\ MayShare(f) /\ ex'.pc = "guarding" /\ ex'.guards = ex.guards \cup {f}
           \/ left = {} /\ ex'.pc = "writing" /\ ex'.guards = ex.guards
    BY <1>1, <1>2, <1>4 DEF Exports
  <1>7. /\ ArchiveTypeOK' /\ ValuesInv' /\ ImportInv' /\ Restored'
        /\ \A g \in Files : (Exists(g)' = Exists(g)) /\ Gen(g)' = Gen(g)
        /\ Now' = Now
    BY <1>1, <1>6, ExportFacts, OwnStep
  <1>8. PlanInv'
    <2>1. \A g \in ex.plan : Exists(g)' /\ ex.handle[g] = Gen(g)'
      BY <1>1, <1>2, <1>7 DEF PlanInv
    <2>2. ex'.guards \subseteq ex.plan \ Dirs /\ (ex'.pc = "writing" => ex'.guards = ex.plan \ Dirs)
      BY <1>1, <1>2, <1>4, <1>5, <1>6 DEF PlanInv
    <2>3. ex'.staging # None /\ ex'.staging.copy = Blank /\ ex'.pc \in {"guarding", "writing"}
      BY <1>1, <1>2, <1>6 DEF PlanInv
    <2>4. Now' \in moments' /\ im'.pc \notin Applying
      BY <1>1, <1>2, <1>7 DEF PlanInv
    <2> QED BY <1>1, <1>2, <1>6, <2>1, <2>2, <2>3, <2>4 DEF PlanInv
  <1>9. GuardInv'
    BY <1>1, <1>2, <1>6 DEF GuardInv, MayShare
  <1>10. CopyInv' /\ OneMoment'
    <2>1. ex'.staging.copy = Blank
      BY <1>1, <1>2, <1>6 DEF PlanInv
    <2> QED BY <1>2, <1>6, <2>1, BlankFacts DEF CopyInv, OneMoment
  <1> QED BY <1>7, <1>8, <1>9, <1>10 DEF ArchiveInv

\* What is copied through a handle is what the guarded table holds.
LEMMA ExportCopiesInv ==
    ASSUME ArchiveInv, ExportCopies
    PROVE  ArchiveInv'
  <1> DEFINE left == {g \in ex.plan : ex.staging.copy[g] = None}
             f == FirstOf(left)
             v == IF f \in Dirs THEN disk[f] ELSE heap[f][ex.handle[f]]
  <1>1. /\ ex.pc = "writing" /\ left # {}
        /\ ex' = [ex EXCEPT !.staging.copy[f] = v]
        /\ UNCHANGED <<files, alone, kept, im, tx, moments, promise>>
    BY DEF ExportCopies
  <1>2. /\ PlanInv /\ GuardInv /\ CopyInv /\ HeldOK /\ ValuesInv
        /\ ex \in Exports /\ ex.plan \subseteq Files /\ ex.staging \in Archives
    BY <1>1, ExportFacts, HeldFacts DEF ArchiveInv
  <1>3. f \in ex.plan
    <2>1. left \in SUBSET Files
      BY <1>2
    <2>2. f \in left
      <3> HIDE DEF left
      <3> QED BY <1>1, <2>1, FirstIn
    <2> QED BY <2>2
  <1> HIDE DEF left, f
  <1>4. v \in Values \cup {None} /\ Past(v) /\ (f \notin Dirs => v = Held(f))
    <2>1. Exists(f) /\ ex.handle[f] = Gen(f) /\ f \in Files
      BY <1>1, <1>2, <1>3 DEF PlanInv
    <2>2. /\ disk[f] \in Values \cup {None} /\ heap[f][Gen(f)] \in Values /\ Gen(f) \in 1..Len(heap[f])
      BY <1>2, <2>1 DEF HeldOK
    <2>3. Past(disk[f]) /\ Past(heap[f][Gen(f)])
      BY <1>2, <2>1, <2>2 DEF ValuesInv
    <2> QED BY <2>1, <2>2, <2>3 DEF Held, Tables
  <1> HIDE DEF v
  <1>5. /\ ex' = [ex EXCEPT !.staging = [ex.staging EXCEPT !.copy = [ex.staging.copy EXCEPT ![f] = v]]]
    BY <1>1
  <1> DEFINE c == [ex.staging.copy EXCEPT ![f] = v]
  <1>6. c \in Contents /\ \A g \in Files : c[g] = IF g = f THEN v ELSE ex.staging.copy[g]
    BY <1>2, <1>4 DEF Archives, Contents
  <1> HIDE DEF c
  <1>7. LET s == [ex.staging EXCEPT !.copy = c] IN s \in Archives /\ s.copy = c
    BY <1>2, <1>6 DEF Archives
  <1>8. /\ ex' \in Exports /\ ex'.pc = "writing" /\ ex'.plan = ex.plan /\ ex'.handle = ex.handle
        /\ ex'.guards = ex.guards /\ ex'.staging \in Archives /\ ex'.staging.copy = c
    BY <1>1, <1>2, <1>5, <1>7 DEF Exports, c
  <1>9. /\ ArchiveTypeOK' /\ ValuesInv' /\ ImportInv' /\ Restored'
        /\ \A g \in Files : Held(g)' = Held(g) /\ (Exists(g)' = Exists(g)) /\ Gen(g)' = Gen(g)
        /\ Now' = Now
    <2>1. \A a \in {ex'.staging, kept'} : a # None => \A g \in Files : Past(a.copy[g])
      BY <1>1, <1>2, <1>4, <1>6, <1>8, NoneAssumption DEF ValuesInv
    <2> QED BY <1>1, <1>8, <2>1, ExportFacts, OwnStep
  <1>10. PlanInv'
    <2>1. \A g \in ex.plan : Exists(g)' /\ ex.handle[g] = Gen(g)'
      BY <1>1, <1>2, <1>9 DEF PlanInv
    <2>2. ex'.staging # None
      BY <1>8, NoneAssumption
    <2>3. Now' \in moments' /\ im'.pc \notin Applying
      BY <1>1, <1>2, <1>9 DEF PlanInv
    <2> QED BY <1>1, <1>2, <1>8, <2>1, <2>2, <2>3 DEF PlanInv
  <1>11. GuardInv'
    BY <1>1, <1>2, <1>8 DEF GuardInv
  <1>12. CopyInv' /\ OneMoment'
    <2>1. \A g \in ex.plan \ Dirs : c[g] # None => c[g] = Held(g)
      BY <1>1, <1>2, <1>4, <1>6 DEF CopyInv
    <2>2. \A g \in ex.plan \ Dirs : c[g] # None => c[g] = Held(g)'
      BY <1>2, <1>9, <2>1
    <2> QED BY <1>8, <2>2 DEF CopyInv, OneMoment
  <1> QED BY <1>9, <1>10, <1>11, <1>12 DEF ArchiveInv

\* At the end the copies are what the tables hold now, which is one of the moments.
LEMMA ExportFinishesInv ==
    ASSUME ArchiveInv, ExportFinishes
    PROVE  ArchiveInv'
  <1>1. /\ ex.pc = "writing" /\ \A f \in ex.plan : ex.staging.copy[f] # None
        /\ ex' = [ex EXCEPT !.pc = "finished", !.staging.whole = TRUE, !.guards = {}]
        /\ UNCHANGED <<files, alone, kept, im, tx, moments, promise>>
    BY DEF ExportFinishes
  <1>2. /\ PlanInv /\ CopyInv /\ HeldOK /\ ValuesInv
        /\ ex \in Exports /\ ex.plan \subseteq Files /\ ex.staging \in Archives /\ Now \in moments
    BY <1>1, ExportFacts, HeldFacts DEF ArchiveInv
  <1>3. /\ ex' \in Exports /\ ex'.pc = "finished" /\ ex'.plan = ex.plan /\ ex'.handle = ex.handle
        /\ ex'.guards = {} /\ ex'.staging \in Archives /\ ex'.staging.copy = ex.staging.copy
    BY <1>1, <1>2 DEF Exports, Archives
  <1>4. /\ ArchiveTypeOK' /\ ValuesInv' /\ ImportInv' /\ Restored'
        /\ \A g \in Files : Held(g)' = Held(g) /\ (Exists(g)' = Exists(g)) /\ Gen(g)' = Gen(g)
        /\ Now' = Now
    <2>1. \A a \in {ex'.staging, kept'} : a # None => \A g \in Files : Past(a.copy[g])
      BY <1>1, <1>2, <1>3, NoneAssumption DEF ValuesInv
    <2> QED BY <1>1, <1>3, <2>1, ExportFacts, OwnStep
  <1>5. PlanInv'
    <2>1. \A g \in ex.plan : Exists(g)'
      BY <1>1, <1>2, <1>4 DEF PlanInv
    <2>2. ex'.staging # None
      BY <1>3, NoneAssumption
    <2>3. Now' \in moments' /\ im'.pc \notin Applying
      BY <1>1, <1>2, <1>4 DEF PlanInv
    <2> QED BY <1>1, <1>2, <1>3, <2>1, <2>2, <2>3 DEF PlanInv
  <1>6. GuardInv' /\ CopyInv'
    BY <1>3 DEF GuardInv, CopyInv
  <1>7. OneMoment'
    <2>1. \A f \in ex.plan \ Dirs : ex.staging.copy[f] = Now[f]
      BY <1>1, <1>2 DEF CopyInv, HeldOK
    <2>2. \E moment \in moments : \A f \in ex.plan \ Dirs : ex.staging.copy[f] = moment[f]
      BY <1>2, <2>1
    <2>3. moments' = moments
      BY <1>1
    <2> QED BY <1>3, <2>2, <2>3 DEF OneMoment
  <1> QED BY <1>4, <1>5, <1>6, <1>7 DEF ArchiveInv

\* A finished archive is published or a staging file removed, and no file touched.
LEMMA ExportEndsInv ==
    ASSUME ArchiveInv, ExportEnds, kept' = kept \/ (kept' = ex.staging /\ ex.pc = "finished"),
           UNCHANGED <<files, im, tx, promise>>
    PROVE  ArchiveInv'
  <1>1. ex' = NoExport /\ alone' = None /\ moments' = {}
    BY DEF ExportEnds
  <1>2. /\ ex' \in Exports /\ ex'.pc = "idle" /\ ex'.guards = {} /\ ex'.staging = None
    BY <1>1, BlankFacts DEF Exports, NoExport
  <1>3. kept' \in Archives \cup {None}
    BY ExportFacts DEF Exports
  <1>4. ArchiveTypeOK' /\ ValuesInv' /\ ImportInv' /\ Restored'
    <2>1. \A a \in {ex'.staging, kept'} : a # None => \A g \in Files : Past(a.copy[g])
      BY <1>2, ExportFacts
    <2>2. kept' = kept \/ \E f \in Files : kept'.copy[f] # None
      BY DEF ArchiveInv, PlanInv, ArchiveTypeOK, Exports
    <2> QED BY <1>1, <1>2, <1>3, <2>1, <2>2, NoneAssumption, OwnStep
  <1>5. PlanInv' /\ GuardInv' /\ CopyInv' /\ OneMoment'
    BY <1>2 DEF PlanInv, GuardInv, CopyInv, OneMoment
  <1> QED BY <1>4, <1>5 DEF ArchiveInv

-----------------------------------------------------------------------------
(* The steps of an import.                                                 *)

\* Only an archive that was verified is applied, and it has a file to begin with.
LEMMA ImportBeginsInv ==
    ASSUME ArchiveInv, NEW form \in {"path", "bytes"}, ImportBegins(form)
    PROVE  ArchiveInv'
  <1>1. PICK archive \in Given : \E overwrite \in BOOLEAN :
           LET exist == {f \in InArchive(archive) : Exists(f)}
               refused == ~Verified(archive) \/ (exist # {} /\ ~overwrite) IN
           \/ refused /\ im' = [NoImport EXCEPT !.pc = "refused"] /\ UNCHANGED alone
           \/ /\ ~refused
              /\ im' = [NoImport EXCEPT !.pc = "deleting", !.archive = archive, !.replace = exist,
                                        !.todo = InArchive(archive)]
              /\ alone' = IF form = "path" THEN "import" ELSE None
    BY DEF ImportBegins
  <1>2. /\ im.pc = "idle" /\ alone = None /\ (form = "path" => Quiet) /\ ex.pc = "idle"
        /\ UNCHANGED <<files, ex, kept, tx, moments, promise>>
    BY DEF ImportBegins
  <1> DEFINE S == {f \in InArchive(archive) : Exists(f)}
             D == InArchive(archive)
  <1>3. S \subseteq Files /\ D \subseteq Files
    BY DEF InArchive
  <1>4. \/ im' = [NoImport EXCEPT !.pc = "refused"] /\ alone' = alone
        \/ /\ archive.whole
           /\ im' = [NoImport EXCEPT !.pc = "deleting", !.archive = archive, !.replace = S, !.todo = D]
           /\ alone' = IF form = "path" THEN "import" ELSE None
    BY <1>1 DEF Verified
  <1> HIDE DEF S, D
  <1>5. ArchiveTypeOK /\ ValuesInv /\ PlanInv /\ GuardInv /\ CopyInv /\ OneMoment
    BY DEF ArchiveInv
  <1>6. kept \in Archives /\ archive \in Archives /\ archive.copy = kept.copy
    <2>1. kept \in Archives
      BY <1>1, <1>5 DEF Given, ArchiveTypeOK
    <2>2. archive \in {kept, [kept EXCEPT !.whole = FALSE]}
      BY <1>1 DEF Given
    <2> QED BY <2>1, <2>2 DEF Archives
  <1>7. /\ im' \in Imports /\ im'.archive \in {None, archive} /\ im'.touched = {}
        /\ \/ im'.pc = "refused" /\ ~im'.wrote /\ alone' = None
           \/ /\ im'.pc = "deleting" /\ im'.archive = archive /\ archive.whole
              /\ im'.todo = D /\ alone' = IF form = "path" THEN "import" ELSE None
    BY <1>2, <1>3, <1>4, <1>6 DEF Imports, NoImport, Applying
  <1>8. heap' = heap /\ disk' = disk /\ clock' = clock /\ ex' = ex /\ kept' = kept /\ tx' = tx
        /\ moments' = moments /\ promise' = promise
    BY <1>2 DEF files
  <1>9. \A f \in Files : Gen(f)' = Gen(f)
    BY <1>8 DEF Gen
  <1>10. ArchiveTypeOK'
    <2>1. /\ alone' \in {None, "import"}
          /\ (alone' = "import" => ex.pc = "idle" /\ im'.pc \in Applying /\ tx.pc = "idle")
      BY <1>2, <1>7, NoneAssumption DEF Quiet, Applying
    <2> QED BY <1>5, <1>7, <1>8, <1>9, <2>1, NoneAssumption DEF ArchiveTypeOK
  <1>11. PlanInv' /\ CopyInv' /\ OneMoment'
    BY <1>2, <1>8 DEF PlanInv, CopyInv, OneMoment
  <1>12. Restored'
    BY <1>8, StillHeld
  <1>13. GuardInv'
    BY <1>5, <1>8 DEF GuardInv
  <1>14. ValuesInv'
    <2>1. \A a \in {ex'.staging, kept', im'.archive} :
             a # None => \E b \in {ex.staging, kept, im.archive} : b # None /\ a.copy = b.copy
      BY <1>6, <1>7, <1>8, NoneAssumption
    <2> QED BY <1>8, <1>10, <2>1, AsideValues
  <1>15. ImportInv'
    <2>1. CASE im'.pc = "refused" /\ ~im'.wrote
      BY <2>1 DEF ImportInv, Applying
    <2>2. CASE im'.pc = "deleting" /\ im'.archive = archive /\ archive.whole /\ im'.todo = D
      <3>1. InArchive(im.archive)' = D
        BY <2>2 DEF InArchive, D
      <3>2. D # {}
        BY <1>5, <1>6, NoneAssumption DEF D, InArchive, ValuesInv
      <3> QED BY <2>2, <3>1, <3>2, <1>6, NoneAssumption DEF ImportInv
    <2> QED BY <1>7, <2>1, <2>2
  <1> QED BY <1>10, <1>11, <1>12, <1>13, <1>14, <1>15 DEF ArchiveInv

\* What an import that applies its archive knows.
LEMMA ImportFacts ==
    ASSUME ArchiveInv, im.pc \in Applying
    PROVE  /\ ex.pc = "idle" /\ im \in Imports /\ alone \in {None, "import"}
           /\ im.archive \in Archives /\ im.archive.whole
           /\ im.pc # "saving" => /\ Turn \in im.todo /\ Turn \in Files
                                  /\ im.archive.copy[Turn] \in Values /\ Past(im.archive.copy[Turn])
  <1>1. ArchiveTypeOK /\ ValuesInv /\ PlanInv /\ ImportInv /\ im \in Imports
    BY DEF ArchiveInv, ArchiveTypeOK
  <1>2. ex.pc = "idle" /\ alone \in {None, "import"}
    BY <1>1 DEF PlanInv, ArchiveTypeOK
  <1>3. im.archive \in Archives /\ im.archive.whole /\ im.archive # None
    BY <1>1 DEF ImportInv, Imports
  <1>4. im.pc # "saving" => im.todo # {} /\ im.todo \in SUBSET Files /\ im.todo \subseteq InArchive(im.archive)
    BY <1>1 DEF ImportInv, Imports
  <1>5. im.pc # "saving" => Turn \in im.todo
    BY <1>4, FirstIn DEF Turn
  <1>6. im.pc # "saving" => Turn \in Files /\ im.archive.copy[Turn] # None
    BY <1>4, <1>5 DEF InArchive
  <1>7. im.pc # "saving" => im.archive.copy[Turn] \in Values
    BY <1>3, <1>6 DEF Archives, Contents
  <1>8. im.pc # "saving" => Past(im.archive.copy[Turn])
    BY <1>1, <1>3, <1>6 DEF ValuesInv
  <1> QED BY <1>1, <1>2, <1>3, <1>5, <1>6, <1>7, <1>8

\* An import that has come to its end holds nothing.
LEMMA GoesToEnd ==
    ASSUME NEW pc \in {"failed", "ok"}, Goes(pc)
    PROVE  im' \in Imports /\ im'.pc = pc /\ im'.archive = None /\ alone' = None /\ ImportInv'
  <1>1. im' = [NoImport EXCEPT !.pc = pc] /\ alone' = None
    BY DEF Goes, Applying
  <1>2. im' \in Imports /\ im'.pc = pc /\ im'.archive = None
    BY <1>1 DEF NoImport, Imports
  <1> QED BY <1>1, <1>2 DEF ImportInv, Applying

\* One that goes on has written.
LEMMA GoesOn ==
    ASSUME im \in Imports, NEW pc \in {"creating", "filling"}, Goes(pc)
    PROVE  /\ im' \in Imports /\ im'.pc = pc /\ im'.archive = im.archive /\ im'.todo = im.todo
           /\ im'.touched = im.touched /\ alone' = alone
           /\ InArchive(im.archive)' = InArchive(im.archive) /\ Turn' = Turn
  <1>1. im' = [im EXCEPT !.pc = pc, !.wrote = TRUE] /\ alone' = alone
    BY DEF Goes, Applying
  <1>2. /\ im' \in Imports /\ im'.pc = pc /\ im'.archive = im.archive /\ im'.todo = im.todo
        /\ im'.touched = im.touched
    BY <1>1 DEF Imports, Applying
  <1> QED BY <1>1, <1>2 DEF InArchive, Turn, FirstOf

\* A step of the import, which no export runs beside.
LEMMA ImportStep ==
    ASSUME ArchiveInv, im.pc \in Applying, UNCHANGED <<clock, ex, kept, tx>>,
           heap' \in [Files -> Seq(Values)], disk' \in Contents, \A f \in Files : Gen(f)' \in 1..MaxGen,
           im' \in Imports, im'.archive \in {None, im.archive},
           alone' = None \/ (alone' = alone /\ im'.pc \in Applying),
           moments' \subseteq Contents, promise' \in Contents,
           \A f \in Files : Past(disk'[f]),
           \A f \in Files : \A i \in 1..Len(heap'[f]) : Past(heap'[f][i])
    PROVE  ArchiveTypeOK' /\ ValuesInv' /\ PlanInv' /\ GuardInv' /\ CopyInv' /\ OneMoment'
  <1>1. ArchiveTypeOK /\ ValuesInv /\ GuardInv /\ ex.pc = "idle"
    BY ImportFacts DEF ArchiveInv
  <1>2. ArchiveTypeOK'
    BY <1>1, NoneAssumption DEF ArchiveTypeOK
  <1>3. PlanInv' /\ GuardInv' /\ CopyInv' /\ OneMoment'
    BY <1>1 DEF PlanInv, GuardInv, CopyInv, OneMoment
  <1>4. ValuesInv'
    <2>1. \A a \in {ex'.staging, kept', im'.archive} : a # None => \A g \in Files : Past(a.copy[g])
      BY <1>1 DEF ValuesInv
    <2>2. Past(tx'.value) /\ (tx'.pc = "guarding" => tx'.value # None)
      BY <1>1 DEF ValuesInv
    <2> QED BY <1>2, <2>1, <2>2, ValuesStep
  <1> QED BY <1>2, <1>3, <1>4

\* Where it changes files, nothing that it leaves unlike what it was is promised.
LEMMA ImportChange ==
    ASSUME ArchiveInv, ArchiveTypeOK', im.pc \in Applying, ex' = ex,
           NEW C \in Contents, Now' = C, Noticed(C),
           \A f \in Files : C[f] = Held(f) => disk'[f] \in {disk[f], C[f]}
    PROVE  Restored'
  BY ImportFacts, ChangeStep

\* The file whose turn it is was not done yet, and a promise to it is dropped.
LEMMA ImportDeletesInv ==
    ASSUME ArchiveInv, ImportDeletes
    PROVE  ArchiveInv'
  <1>1. im.pc = "deleting" /\ im.pc \in Applying /\ Goes("creating") /\ UNCHANGED <<heap, clock, ex, kept, tx>>
    BY DEF ImportDeletes, Applying
  <1>2. PICK t \in Files : t = Turn /\ t \in im.todo
    BY <1>1, ImportFacts
  <1>3. ArchiveTypeOK /\ ValuesInv /\ ImportInv /\ HeldOK /\ im \in Imports
    BY <1>1, ImportFacts, HeldFacts DEF ArchiveInv
  <1>4. /\ im' \in Imports /\ im'.pc = "creating" /\ im'.archive = im.archive /\ im'.todo = im.todo
        /\ im'.touched = im.touched /\ alone' = alone /\ im'.pc \in Applying
        /\ InArchive(im.archive)' = InArchive(im.archive)
    BY <1>1, <1>3, GoesOn DEF Applying
  <1>5. ASSUME \A f \in Files : f # t => Held(f)' = Held(f)
        PROVE  ImportInv'
    <2>1. \A f \in InArchive(im.archive) \ (im.todo \cup im.touched) : Held(f)' = im.archive.copy[f]
      BY <1>1, <1>2, <1>3, <1>5 DEF ImportInv, InArchive
    <2> QED BY <1>1, <1>3, <1>4, <2>1 DEF ImportInv
  <1>6. CASE UNCHANGED <<disk, moments, promise>>
    <2>1. heap' = heap /\ disk' = disk /\ promise' = promise /\ moments' = moments
      BY <1>1, <1>6
    <2>2. /\ heap' \in [Files -> Seq(Values)] /\ disk' \in Contents /\ \A f \in Files : Gen(f)' \in 1..MaxGen
          /\ \A f \in Files : Past(disk'[f])
          /\ \A f \in Files : \A i \in 1..Len(heap'[f]) : Past(heap'[f][i])
          /\ \A f \in Files : Held(f)' = Held(f)
          /\ Restored'
      BY <2>1, StillHeld
    <2>3. moments' \subseteq Contents /\ promise' \in Contents
      BY <1>3, <2>1 DEF ArchiveTypeOK
    <2>4. ArchiveTypeOK' /\ ValuesInv' /\ PlanInv' /\ GuardInv' /\ CopyInv' /\ OneMoment'
      BY <1>1, <1>4, <2>2, <2>3, ImportStep
    <2> QED BY <1>5, <2>2, <2>4 DEF ArchiveInv
  <1>7. CASE disk' = [disk EXCEPT ![t] = None] /\ Noticed([Now EXCEPT ![t] = None])
    <2> DEFINE C == [Now EXCEPT ![t] = None]
    <2>1. C \in Contents /\ Noticed(C) /\ \A f \in Files : C[f] = IF f = t THEN None ELSE Held(f)
      BY <1>3, <1>7 DEF HeldOK, Contents
    <2> HIDE DEF C
    <2>2. disk' \in Contents /\ \A f \in Files : disk'[f] = IF f = t THEN None ELSE disk[f]
      BY <1>3, <1>7 DEF ArchiveTypeOK, Contents
    <2>3. \A f \in Files : Held(f)' = C[f]
      BY <1>1, <2>1, <2>2 DEF Held, Exists, Gen
    <2>4. Now' = C
      <3>1. C = [f \in Files |-> C[f]]
        BY <2>1 DEF Contents
      <3> QED BY <2>3, <3>1 DEF Now
    <2>5. moments' \subseteq Contents /\ promise' \in Contents
      BY <1>3, <2>1, NoticedType
    <2>6. \A f \in Files : Past(disk'[f])
      BY <2>2, HeldPast DEF Past
    <2>7. \A f \in Files : \A i \in 1..Len(heap'[f]) : Past(heap'[f][i])
      BY <1>1, <1>3 DEF ValuesInv
    <2>8. heap' \in [Files -> Seq(Values)] /\ \A f \in Files : Gen(f)' \in 1..MaxGen
      BY <1>1, <1>3 DEF ArchiveTypeOK, Gen
    <2>9. ArchiveTypeOK' /\ ValuesInv' /\ PlanInv' /\ GuardInv' /\ CopyInv' /\ OneMoment'
      BY <1>1, <1>4, <2>2, <2>5, <2>6, <2>7, <2>8, ImportStep
    <2>10. Restored'
      <3>1. \A f \in Files : C[f] = Held(f) => disk'[f] \in {disk[f], C[f]}
        BY <2>1, <2>2
      <3> QED BY <1>1, <2>1, <2>4, <2>9, <3>1, ImportChange
    <2>11. ImportInv'
      BY <1>5, <2>1, <2>3
    <2> QED BY <2>9, <2>10, <2>11 DEF ArchiveInv
  <1> QED BY <1>2, <1>6, <1>7 DEF ImportDeletes, DeleteTable

\* It is made empty, and a name that somebody took meanwhile ends the import.
LEMMA ImportCreatesInv ==
    ASSUME ArchiveInv, ImportCreates
    PROVE  ArchiveInv'
  <1>1. im.pc = "creating" /\ im.pc \in Applying /\ UNCHANGED <<clock, ex, kept, tx>>
    BY DEF ImportCreates, Applying
  <1>2. PICK t \in Files : t = Turn /\ t \in im.todo
    BY <1>1, ImportFacts
  <1>3. ArchiveTypeOK /\ ValuesInv /\ ImportInv /\ HeldOK /\ im \in Imports
    BY <1>1, ImportFacts, HeldFacts DEF ArchiveInv
  <1>4. CASE /\ ~Exists(t) /\ MayCreate(t)
             /\ heap' = Created(t, 0) /\ disk' = [disk EXCEPT ![t] = 0]
             /\ Noticed([Now EXCEPT ![t] = 0])
             /\ Goes("filling") \/ Goes("failed")
    <2> DEFINE C == [Now EXCEPT ![t] = 0]
    <2>1. 0 \in Values /\ Past(0) /\ 0 # None
      BY <1>3, NoneAssumption, ArchiveAssumption DEF Values, Past, ArchiveTypeOK
    <2>2. /\ heap' \in [Files -> Seq(Values)] /\ disk' \in Contents
          /\ \A g \in Files : Gen(g)' \in 1..MaxGen
          /\ \A g \in Files : Exists(g)' = (g = t \/ Exists(g))
          /\ \A g \in Files : \A i \in 1..Len(heap'[g]) :
                heap'[g][i] = 0 \/ (i \in 1..Len(heap[g]) /\ heap'[g][i] = heap[g][i])
          /\ \A g \in Files : disk'[g] = IF g = t THEN 0 ELSE disk[g]
          /\ Now' = C
      BY <1>3, <1>4, <2>1, MakeFacts
    <2>3. C \in Contents /\ Noticed(C) /\ \A f \in Files : C[f] = IF f = t THEN 0 ELSE Held(f)
      BY <1>3, <1>4, <2>1 DEF HeldOK, Contents
    <2> HIDE DEF C
    <2>4. moments' \subseteq Contents /\ promise' \in Contents
      BY <1>3, <2>3, NoticedType
    <2>5. \A f \in Files : Past(disk'[f])
      BY <2>1, <2>2, HeldPast
    <2>6. \A f \in Files : \A i \in 1..Len(heap'[f]) : Past(heap'[f][i])
      BY <1>3, <2>1, <2>2 DEF ValuesInv
    <2>7. \/ im' \in Imports /\ im'.archive = im.archive /\ alone' = alone /\ im'.pc \in Applying
          \/ im' \in Imports /\ im'.archive = None /\ alone' = None
      BY <1>3, <1>4, GoesOn, GoesToEnd DEF Applying
    <2>8. ArchiveTypeOK' /\ ValuesInv' /\ PlanInv' /\ GuardInv' /\ CopyInv' /\ OneMoment'
      BY <1>1, <2>2, <2>4, <2>5, <2>6, <2>7, ImportStep
    <2>9. Restored'
      <3>1. \A f \in Files : C[f] = Held(f) => disk'[f] \in {disk[f], C[f]}
        BY <2>2, <2>3
      <3> QED BY <1>1, <2>2, <2>3, <2>8, <3>1, ImportChange
    <2>10. ASSUME Goes("filling") PROVE ImportInv'
      <3>1. /\ im'.pc = "filling" /\ im'.archive = im.archive /\ im'.todo = im.todo
            /\ im'.touched = im.touched
            /\ InArchive(im.archive)' = InArchive(im.archive) /\ Turn' = Turn
        BY <1>3, <2>10, GoesOn
      <3>2. Exists(Turn)'
        BY <1>2, <2>2, <3>1 DEF Exists
      <3>3. \A f \in Files : f # t => Held(f)' = Held(f)
        BY <2>2, <2>3 DEF Now
      <3>4. \A f \in InArchive(im.archive) \ (im.todo \cup im.touched) : Held(f)' = im.archive.copy[f]
        BY <1>1, <1>2, <1>3, <3>3 DEF ImportInv, InArchive
      <3> QED BY <1>1, <1>3, <3>1, <3>2, <3>4 DEF ImportInv
    <2>11. ImportInv'
      BY <1>4, <2>10, GoesToEnd
    <2> QED BY <2>8, <2>9, <2>11 DEF ArchiveInv
  <1>5. CASE Goes("failed") /\ UNCHANGED <<heap, disk, moments, promise>>
    <2>1. /\ heap' \in [Files -> Seq(Values)] /\ disk' \in Contents /\ \A f \in Files : Gen(f)' \in 1..MaxGen
          /\ \A f \in Files : Past(disk'[f])
          /\ \A f \in Files : \A i \in 1..Len(heap'[f]) : Past(heap'[f][i])
          /\ Restored'
      BY <1>5, StillHeld
    <2>2. im' \in Imports /\ im'.archive = None /\ alone' = None /\ ImportInv'
      BY <1>5, GoesToEnd
    <2>3. moments' \subseteq Contents /\ promise' \in Contents
      BY <1>3, <1>5 DEF ArchiveTypeOK
    <2>4. ArchiveTypeOK' /\ ValuesInv' /\ PlanInv' /\ GuardInv' /\ CopyInv' /\ OneMoment'
      BY <1>1, <2>1, <2>2, <2>3, ImportStep
    <2> QED BY <2>1, <2>2, <2>4 DEF ArchiveInv
  <1> QED BY <1>2, <1>4, <1>5 DEF ImportCreates

\* With its records in place it is done, and holds what the archive does.
LEMMA ImportFillsInv ==
    ASSUME ArchiveInv, ImportFills
    PROVE  ArchiveInv'
  <1>1. im.pc = "filling" /\ im.pc \in Applying /\ UNCHANGED <<clock, alone, ex, kept, tx>>
    BY DEF ImportFills, Applying
  <1>2. PICK t \in Files : t = Turn /\ t \in im.todo
    BY <1>1, ImportFacts
  <1>3. PICK v \in Values : v = im.archive.copy[t] /\ Past(v)
    BY <1>1, <1>2, ImportFacts
  <1>4. ArchiveTypeOK /\ ValuesInv /\ ImportInv /\ HeldOK /\ im \in Imports /\ Exists(t)
    BY <1>1, <1>2, ImportFacts, HeldFacts DEF ArchiveInv, ImportInv
  <1> DEFINE left == im.todo \ {t}
             C == [Now EXCEPT ![t] = v]
  <1>5. /\ \/ t \in Tables /\ heap' = [heap EXCEPT ![t][Gen(t)] = v] /\ disk' = disk
           \/ t \in Dirs /\ disk' = [disk EXCEPT ![t] = v] /\ heap' = heap
        /\ Noticed(C)
        /\ im' = [im EXCEPT !.todo = left, !.wrote = TRUE, !.pc = IF left = {} THEN "saving" ELSE "deleting"]
    BY <1>2, <1>3 DEF ImportFills
  <1>6. /\ heap' \in [Files -> Seq(Values)] /\ disk' \in Contents
        /\ \A g \in Files : Gen(g)' = Gen(g) /\ Exists(g)' = Exists(g)
        /\ \A g \in Files : \A i \in 1..Len(heap'[g]) : i \in 1..Len(heap[g]) /\ heap'[g][i] \in {heap[g][i], v}
        /\ \A g \in Files : disk'[g] = disk[g] \/ (g = t /\ disk'[g] = v)
        /\ Now' = C
    BY <1>4, <1>5, PutFacts
  <1>7. C \in Contents /\ Noticed(C) /\ \A f \in Files : C[f] = IF f = t THEN v ELSE Held(f)
    BY <1>4, <1>5 DEF HeldOK, Contents
  <1> HIDE DEF C
  <1>8. /\ im' \in Imports /\ im'.archive = im.archive /\ im'.todo = left /\ im'.touched = im.touched
        /\ im'.pc = IF left = {} THEN "saving" ELSE "deleting"
    BY <1>4, <1>5 DEF Imports, Applying
  <1>9. ArchiveTypeOK' /\ ValuesInv' /\ PlanInv' /\ GuardInv' /\ CopyInv' /\ OneMoment'
    <2>1. moments' \subseteq Contents /\ promise' \in Contents
      BY <1>4, <1>7, NoticedType
    <2>2. \A f \in Files : Past(disk'[f])
      BY <1>3, <1>6, HeldPast
    <2>3. \A f \in Files : \A i \in 1..Len(heap'[f]) : Past(heap'[f][i])
      BY <1>3, <1>4, <1>6 DEF ValuesInv
    <2>4. \A f \in Files : Gen(f)' \in 1..MaxGen
      BY <1>4, <1>6 DEF HeldOK
    <2>5. im'.pc \in Applying
      BY <1>8 DEF Applying
    <2> QED BY <1>1, <1>6, <1>8, <2>1, <2>2, <2>3, <2>4, <2>5, ImportStep
  <1>10. Restored'
    <2>1. \A f \in Files : C[f] = Held(f) => disk'[f] \in {disk[f], C[f]}
      BY <1>6, <1>7
    <2> QED BY <1>1, <1>6, <1>7, <1>9, <2>1, ImportChange
  <1>11. ImportInv'
    <2>1. InArchive(im.archive)' = InArchive(im.archive) /\ InArchive(im.archive) \subseteq Files
      BY <1>8 DEF InArchive
    <2>2. \A f \in Files : Held(f)' = C[f]
      BY <1>6 DEF Now
    <2>3. \A f \in InArchive(im.archive) \ (left \cup im.touched) : Held(f)' = im.archive.copy[f]
      BY <1>1, <1>3, <1>4, <1>7, <2>1, <2>2 DEF ImportInv
    <2>4. im.archive # None /\ im.archive.whole /\ left \subseteq InArchive(im.archive)
      BY <1>1, <1>4 DEF ImportInv
    <2>5. left = {} <=> im'.pc = "saving"
      BY <1>8
    <2>6. im'.pc \notin {"refused", "filling"}
      BY <1>8
    <2> HIDE DEF left
    <2> QED BY <1>8, <2>1, <2>3, <2>4, <2>5, <2>6 DEF ImportInv
  <1> QED BY <1>9, <1>10, <1>11 DEF ArchiveInv

\* All files are done, so those nobody touched hold the archive's records, and the
\* save before the answer puts them on disk: the promise is made with both true.
LEMMA ImportSavesInv ==
    ASSUME ArchiveInv, ImportSaves
    PROVE  ArchiveInv'
  <1>1. im.pc = "saving" /\ im.pc \in Applying /\ UNCHANGED <<heap, clock, ex, kept, tx, moments>>
    BY DEF ImportSaves, Applying
  <1>2. /\ ArchiveTypeOK /\ ImportInv /\ Restored /\ HeldOK
        /\ im \in Imports /\ im.archive \in Archives /\ im.archive.whole
    BY <1>1, ImportFacts, HeldFacts DEF ArchiveInv
  <1> DEFINE done == InArchive(im.archive) \ im.touched
  <1>3. /\ disk' = Now /\ Goes("ok")
        /\ promise' = [f \in Files |-> IF f \in done THEN im.archive.copy[f] ELSE promise[f]]
    BY <1>2 DEF ImportSaves, SaveRestored
  <1>4. \A f \in done : f \in Files /\ Held(f) = im.archive.copy[f]
    BY <1>1, <1>2 DEF ImportInv, InArchive
  <1> HIDE DEF done
  <1>5. /\ heap' \in [Files -> Seq(Values)] /\ disk' \in Contents /\ \A f \in Files : Gen(f)' \in 1..MaxGen
        /\ \A f \in Files : Past(disk'[f])
        /\ \A f \in Files : \A i \in 1..Len(heap'[f]) : Past(heap'[f][i])
        /\ \A f \in Files : Held(f)' = Held(f)
    BY <1>1, <1>3, StillHeld
  <1>6. promise' \in Contents /\ moments' \subseteq Contents
    <2>1. im.archive.copy \in Contents /\ promise \in Contents /\ moments' \subseteq Contents
      BY <1>1, <1>2 DEF Archives, ArchiveTypeOK
    <2> QED BY <1>3, <2>1 DEF Contents
  <1>7. im' \in Imports /\ im'.archive = None /\ alone' = None /\ ImportInv'
    BY <1>3, GoesToEnd
  <1>8. ArchiveTypeOK' /\ ValuesInv' /\ PlanInv' /\ GuardInv' /\ CopyInv' /\ OneMoment'
    BY <1>1, <1>5, <1>6, <1>7, ImportStep
  <1>9. Restored'
    <2>1. \A f \in Files : disk'[f] = Held(f)
      BY <1>2, <1>3 DEF HeldOK
    <2>2. \A f \in Files : promise'[f] # None => promise'[f] = Held(f)
      BY <1>2, <1>3, <1>4 DEF Restored
    <2> QED BY <1>5, <2>1, <2>2 DEF Restored
  <1> QED BY <1>7, <1>8, <1>9 DEF ArchiveInv

\* A failure leaves the files as far as the import has come, and promises nothing.
LEMMA ImportFailsInv ==
    ASSUME ArchiveInv, ImportFails
    PROVE  ArchiveInv'
  <1>1. /\ im.pc \in Applying /\ Goes("failed")
        /\ heap' = heap /\ disk' = disk /\ moments' = moments /\ promise' = promise
        /\ UNCHANGED <<clock, ex, kept, tx>>
    BY DEF ImportFails, files
  <1>2. /\ heap' \in [Files -> Seq(Values)] /\ disk' \in Contents /\ \A f \in Files : Gen(f)' \in 1..MaxGen
        /\ \A f \in Files : Past(disk'[f])
        /\ \A f \in Files : \A i \in 1..Len(heap'[f]) : Past(heap'[f][i])
        /\ Restored'
    BY <1>1, StillHeld
  <1>3. im' \in Imports /\ im'.archive = None /\ alone' = None /\ ImportInv'
    BY <1>1, GoesToEnd
  <1>4. moments' \subseteq Contents /\ promise' \in Contents
    BY <1>1 DEF ArchiveInv, ArchiveTypeOK
  <1>5. ArchiveTypeOK' /\ ValuesInv' /\ PlanInv' /\ GuardInv' /\ CopyInv' /\ OneMoment'
    BY <1>1, <1>2, <1>3, <1>4, ImportStep
  <1> QED BY <1>2, <1>3, <1>5 DEF ArchiveInv

\* The answer is read with the server's lock released.
LEMMA ImportAnsweredInv ==
    ASSUME ArchiveInv, ImportAnswered
    PROVE  ArchiveInv'
  <1>1. /\ im.pc \in {"refused", "failed", "ok"} /\ im' = NoImport
        /\ heap' = heap /\ disk' = disk /\ clock' = clock /\ alone' = alone /\ ex' = ex /\ kept' = kept
        /\ tx' = tx /\ moments' = moments /\ promise' = promise
    BY DEF ImportAnswered, files
  <1>2. ArchiveTypeOK /\ GuardInv
    BY DEF ArchiveInv
  <1>3. im' \in Imports /\ im'.pc = "idle" /\ im'.archive = None
    BY <1>1 DEF NoImport, Imports
  <1>4. ArchiveTypeOK'
    <2>1. \A f \in Files : Gen(f)' = Gen(f)
      BY <1>1 DEF Gen
    <2> QED BY <1>1, <1>2, <1>3, <2>1 DEF ArchiveTypeOK, Applying
  <1>5. PlanInv' /\ CopyInv' /\ OneMoment'
    BY <1>1, <1>3, StillExporting DEF Applying
  <1>6. Restored'
    BY <1>1, StillHeld
  <1>7. GuardInv' /\ ImportInv'
    BY <1>1, <1>2, <1>3 DEF GuardInv, ImportInv, Applying
  <1>8. ValuesInv'
    BY <1>1, <1>3, <1>4, AsideValues
  <1> QED BY <1>4, <1>5, <1>6, <1>7, <1>8 DEF ArchiveInv

-----------------------------------------------------------------------------
(* The start, a restart, and the theorems.                                 *)

\* The records of nothing in progress.
LEMMA NothingGoesOn ==
    /\ NoExport \in Exports /\ NoExport.pc = "idle" /\ NoExport.guards = {} /\ NoExport.staging = None
    /\ NoImport \in Imports /\ NoImport.pc = "idle" /\ NoImport.archive = None
    /\ NoTx \in Txs /\ NoTx.pc = "idle" /\ NoTx.value = None /\ NoTx.guards = {}
  BY BlankFacts DEF NoExport, NoImport, NoTx, Exports, Imports, Txs

\* Where nothing goes on, there is nothing to say but of the files.
LEMMA AtRestInv ==
    ASSUME ex = NoExport, im = NoImport, tx = NoTx
    PROVE  PlanInv /\ GuardInv /\ CopyInv /\ OneMoment /\ ImportInv
  BY NothingGoesOn DEF PlanInv, GuardInv, CopyInv, OneMoment, ImportInv, Applying

\* The same of the state after a step.
LEMMA AtRestInvNext ==
    ASSUME ex' = NoExport, im' = NoImport, tx' = NoTx
    PROVE  PlanInv' /\ GuardInv' /\ CopyInv' /\ OneMoment' /\ ImportInv'
  BY NothingGoesOn DEF PlanInv, GuardInv, CopyInv, OneMoment, ImportInv, Applying

\* After a restart a table is what its section on disk says, as promises are.
LEMMA CrashInv ==
    ASSUME ArchiveInv, Crash
    PROVE  ArchiveInv'
  <1>1. /\ heap' = [f \in Files |-> <<IF Exists(f) THEN disk[f] ELSE 0>>]
        /\ alone' = None /\ ex' = NoExport /\ im' = NoImport /\ tx' = NoTx
        /\ moments' = {} /\ disk' = disk /\ clock' = clock /\ kept' = kept /\ promise' = promise
    BY DEF Crash
  <1>2. ArchiveTypeOK /\ ValuesInv /\ Restored /\ HeldOK
    BY HeldFacts DEF ArchiveInv
  <1>3. 0 \in Values /\ \A f \in Files : Exists(f) => disk[f] \in Values
    BY <1>2, ArchiveAssumption DEF HeldOK, Exists, Values
  <1> DEFINE w(f) == IF Exists(f) THEN disk[f] ELSE 0
  <1>4. \A f \in Files : w(f) \in Values /\ Past(w(f)) /\ (Exists(f) => w(f) = disk[f])
    BY <1>3, HeldPast
  <1>5. \A f \in Files : heap'[f] = <<w(f)>>
    BY <1>1
  <1> HIDE DEF w
  <1>6. \A f \in Files : heap'[f] \in Seq(Values) /\ Len(heap'[f]) = 1 /\ heap'[f][1] = w(f)
    <2> SUFFICES ASSUME NEW f \in Files
                 PROVE  heap'[f] \in Seq(Values) /\ Len(heap'[f]) = 1 /\ heap'[f][1] = w(f)
      OBVIOUS
    <2>1. PICK v \in Values : v = w(f)
      BY <1>4
    <2>2. heap'[f] = <<v>>
      BY <1>5, <2>1
    <2> QED BY <2>1, <2>2
  <1>7. heap' \in [Files -> Seq(Values)]
    <2>1. heap' = [f \in Files |-> heap'[f]]
      BY <1>1
    <2> QED BY <1>6, <2>1
  <1>8. \A f \in Files : Gen(f)' = 1
    BY <1>6 DEF Gen
  <1>9. ArchiveTypeOK'
    BY <1>1, <1>2, <1>7, <1>8, NothingGoesOn, ArchiveAssumption, NoneAssumption DEF ArchiveTypeOK
  <1>10. ValuesInv'
    <2>1. \A f \in Files : \A i \in 1..Len(heap'[f]) : Past(heap'[f][i])
      BY <1>4, <1>6
    <2>2. \A f \in Files : Past(disk'[f])
      BY <1>1, HeldPast
    <2>3. \A a \in {ex'.staging, kept', im'.archive} : a # None => \A g \in Files : Past(a.copy[g])
      BY <1>1, <1>2, NothingGoesOn DEF ValuesInv
    <2>4. Past(tx'.value) /\ tx'.pc # "guarding"
      BY <1>1, NothingGoesOn DEF Past
    <2> QED BY <1>1, <1>9, <2>1, <2>2, <2>3, <2>4, ValuesStep
  <1>11. PlanInv' /\ GuardInv' /\ CopyInv' /\ OneMoment' /\ ImportInv'
    BY <1>1, AtRestInvNext
  <1>12. Restored'
    <2>1. \A f \in Files : Held(f)' = disk[f]
      BY <1>1, <1>4, <1>6, <1>8 DEF Held, Exists
    <2> QED BY <1>1, <1>2, <2>1 DEF Restored
  <1> QED BY <1>9, <1>10, <1>11, <1>12 DEF ArchiveInv

\* At the start nothing has been written, copied or promised.
LEMMA ArchiveInitInv == ArchiveInit => ArchiveInv
  <1> SUFFICES ASSUME ArchiveInit PROVE ArchiveInv
    OBVIOUS
  <1>1. /\ heap = [f \in Files |-> <<0>>]
        /\ disk = [f \in Files |-> IF f \in First THEN 0 ELSE None]
        /\ clock = 0 /\ alone = None
        /\ ex = NoExport /\ im = NoImport /\ tx = NoTx
        /\ kept = None /\ moments = {} /\ promise = Blank
    BY DEF ArchiveInit
  <1>2. 0 \in Values
    BY ArchiveAssumption DEF Values
  <1>3. /\ heap \in [Files -> Seq(Values)] /\ disk \in Contents
        /\ \A f \in Files : Gen(f) = 1 /\ Len(heap[f]) = 1 /\ heap[f][1] = 0 /\ disk[f] \in {0, None}
    BY <1>1, <1>2 DEF Contents, Gen
  <1>4. ArchiveTypeOK
    BY <1>1, <1>2, <1>3, NothingGoesOn, BlankFacts, ArchiveAssumption, NoneAssumption DEF ArchiveTypeOK
  <1>5. ValuesInv
    <2>1. Past(0) /\ Past(None)
      BY <1>1 DEF Past
    <2> QED BY <1>1, <1>3, <2>1, NothingGoesOn DEF ValuesInv
  <1>6. PlanInv /\ GuardInv /\ CopyInv /\ OneMoment /\ ImportInv
    BY <1>1, AtRestInv
  <1>7. Restored
    BY <1>1, BlankFacts DEF Restored
  <1> QED BY <1>4, <1>5, <1>6, <1>7 DEF ArchiveInv

\* Every step keeps the invariant.
LEMMA ArchiveNextInv == ArchiveInv /\ [ArchiveNext]_archiveVars => ArchiveInv'
  <1> SUFFICES ASSUME ArchiveInv, [ArchiveNext]_archiveVars PROVE ArchiveInv'
    OBVIOUS
  <1>1. ASSUME NEW f \in Files, Write(f) \/ Bury(f) PROVE ArchiveInv'
    BY <1>1, WriteInv, BuryInv
  <1>2. ASSUME TxBegin \/ TxGuard \/ TxApply \/ SaveAll PROVE ArchiveInv'
    BY <1>2, TxBeginInv, TxGuardInv, TxApplyInv, SaveAllInv
  <1>3. ASSUME NEW form \in {"path", "bytes"}, ExportBegins(form) \/ ImportBegins(form) PROVE ArchiveInv'
    BY <1>3, ExportBeginsInv, ImportBeginsInv
  <1>4. ASSUME ExportResolves \/ ExportGuards \/ ExportCopies \/ ExportFinishes PROVE ArchiveInv'
    BY <1>4, ExportResolvesInv, ExportGuardsInv, ExportCopiesInv, ExportFinishesInv
  <1>5. ASSUME ExportPublishes \/ ExportFails PROVE ArchiveInv'
    BY <1>5, ExportEndsInv DEF ExportPublishes, ExportFails
  <1>6. ASSUME ImportDeletes \/ ImportCreates \/ ImportFills \/ ImportSaves \/ ImportFails \/ ImportAnswered
        PROVE  ArchiveInv'
    BY <1>6, ImportDeletesInv, ImportCreatesInv, ImportFillsInv, ImportSavesInv, ImportFailsInv, ImportAnsweredInv
  <1>7. ASSUME Crash PROVE ArchiveInv'
    BY <1>7, CrashInv
  <1>8. ASSUME UNCHANGED archiveVars PROVE ArchiveInv'
    BY <1>8 DEF archiveVars, files, ArchiveInv, ArchiveTypeOK, ValuesInv, PlanInv, GuardInv, CopyInv, OneMoment,
        ImportInv, Restored, Past, Now, Held, Exists, Gen, InArchive, Turn, FirstOf
  <1> QED BY <1>1, <1>2, <1>3, <1>4, <1>5, <1>6, <1>7, <1>8 DEF ArchiveNext

\* Archives: the inductive invariant holds in every state.
LEMMA ArchiveInvHolds == ArchiveSpec => []ArchiveInv
  BY ArchiveInitInv, ArchiveNextInv, PTL DEF ArchiveSpec

\* Archives: the variables keep their types, and who holds the server's lock
\* alone is at work with no transaction and no other archive beside it.
THEOREM ArchiveTypeCorrect == ArchiveSpec => []ArchiveTypeOK
  <1>1. ArchiveInv => ArchiveTypeOK
    BY DEF ArchiveInv
  <1> QED BY <1>1, ArchiveInvHolds, PTL

\* Archives: what export has written when it lets its guards go is what its
\* tables held together at one moment, whatever writes, transactions and dead
\* letters ran beside it: every table is under its shared guard before the first
\* record is copied, and the guard is on the table the file still has.
THEOREM ArchiveOfOneMoment == ArchiveSpec => []OneMoment
  <1>1. ArchiveInv => OneMoment
    BY DEF ArchiveInv
  <1> QED BY <1>1, ArchiveInvHolds, PTL

\* Archives: an import that answers with a refusal has changed no file, because
\* what the second pass reads is what the first one verified.
THEOREM RefusalHarmless == ArchiveSpec => []RefusedChangesNothing
  <1>1. ArchiveInv => RefusedChangesNothing
    BY DEF ArchiveInv, ImportInv, RefusedChangesNothing
  <1> QED BY <1>1, ArchiveInvHolds, PTL

\* Archives: a file that an import answered OK for stays restored, in memory and
\* on disk, until somebody changes it: a flush, another command or a crash at any
\* step leaves it what the archive says.
THEOREM RestoredStays == ArchiveSpec => []Restored
  <1>1. ArchiveInv => Restored
    BY DEF ArchiveInv
  <1> QED BY <1>1, ArchiveInvHolds, PTL

=============================================================================
