------------------------------ MODULE Reactor ------------------------------
(***************************************************************************)
(* The network side of the server: its event loop (net/TcpServer.hpp,      *)
(* Epoll.hpp, IOEvent.hpp), the connections (net/TcpConnection.hpp,        *)
(* Buffer.hpp) and what server/SdbServer.hpp does in their callbacks.      *)
(*                                                                         *)
(* The server is one thread; a step is one of its system calls with what   *)
(* it computes up to the next one.  Between two steps clients connect,     *)
(* ask, read and quit, and the kernel gives a new connection the lowest    *)
(* descriptor that is free, which may be one closed in the same round.     *)
(***************************************************************************)
EXTENDS Integers, Sequences, FiniteSets, FiniteSetsExt, Functions

CONSTANTS
    Conns,           \* the connections clients make, each once
    Fds,             \* the descriptors the kernel has for connections
    Listener,        \* the descriptor of the listening socket
    None,            \* no connection
    InitialCapacity, \* the argument of the first EpollEvents::reserve
    ReplySizes,      \* the lengths of replies, in units
    Window,          \* the units of a reply that the kernel takes unread
    MaxRequests,     \* bound: the requests of all connections
    MaxEvents,       \* bound: maxEvent is counted up to here
    Signals          \* whether a signal may interrupt a wait

ASSUME FdsAssumption ==
    Fds \subseteq Nat /\ IsFiniteSet(Fds) /\ Listener \in Nat \ Fds
ASSUME NoneAssumption == None \notin Conns \cup [conn : Conns \cup {None}, out : Nat]
ASSUME SizesAssumption ==
    /\ InitialCapacity \in Nat \ {0}
    /\ ReplySizes \subseteq Nat \ {0}
    /\ Window \in Nat \ {0}
    /\ MaxRequests \in Nat
    /\ MaxEvents \in Nat /\ MaxEvents > Cardinality(Fds)
    /\ Signals \in BOOLEAN

VARIABLES
    \* the clients and the kernel
    sock,        \* what the clients have done with their connections
    asks,        \* how many requests they have sent
    inbox,       \* requests the server has not read
    due,         \* units of the reply to its last request that a client lacks
    outbox,      \* those of them the kernel holds
    backlog,     \* connections not accepted yet
    owner,       \* the connection behind each descriptor
    interest,    \* what epoll watches a descriptor for, {} where it does not
    \* the server
    connections, \* the tables connections and eventpool, which share their keys
    maxEvent,    \* how many events a wait may report
    capcity,     \* the length of the array they are reported in
    pc,          \* waiting, or in a round of events
    fired,       \* the events of the round that are still to be handled
    job,         \* the event being handled
    fdtoClose,   \* descriptors closed in this round
    fate,        \* whether the process runs
    lost         \* history: connections accepted under a number in the tables

clients == << sock, asks, inbox, due, outbox >>
kernel == << backlog, owner, interest >>
events == << maxEvent, capcity >>
round == << pc, fired, job, fdtoClose >>
vars == << clients, kernel, connections, events, round, fate, lost >>

(* What accept returns when no descriptor is free; nobody looks. *)
Failed == -1

Idle == [fd |-> Failed, calls |-> << >>]

Calls == {"accept", "close", "read", "write", "push"}
Flags == {"in", "out", "err", "hup"}

(* Every table holds connections, every queue descriptors the kernel gave. *)
TypeOK ==
    /\ sock \in [Conns -> {"new", "open", "finished", "reset", "broken"}]
    /\ asks \in 0 .. MaxRequests
    /\ inbox \in [Conns -> Nat]
    /\ due \in [Conns -> Nat]
    /\ outbox \in [Conns -> Nat]
    /\ backlog \in Seq(Conns)
    /\ owner \in [Fds -> Conns \cup {None}]
    /\ interest \in [Fds -> SUBSET {"in", "out"}]
    /\ connections \in [Fds \cup {Failed} ->
                          [conn : Conns \cup {None}, out : Nat] \cup {None}]
    /\ maxEvent \in 1 .. MaxEvents
    /\ capcity \in Nat
    /\ pc \in {"wait", "round"}
    /\ fired \in Seq([fd : Fds \cup {Listener}, flags : SUBSET Flags])
    /\ job \in [fd : Fds \cup {Listener, Failed}, calls : Seq(Calls)]
    /\ fdtoClose \in Seq(Fds)
    /\ fate \in {"up", "interrupted", "died"}
    /\ lost \subseteq Conns

(* TcpServer::TcpServer: one event for the listener in an array of ten. *)
Init ==
    /\ sock = [c \in Conns |-> "new"]
    /\ asks = 0
    /\ inbox = [c \in Conns |-> 0]
    /\ due = [c \in Conns |-> 0]
    /\ outbox = [c \in Conns |-> 0]
    /\ backlog = << >>
    /\ owner = [fd \in Fds |-> None]
    /\ interest = [fd \in Fds |-> {}]
    /\ connections = [fd \in Fds \cup {Failed} |-> None]
    /\ maxEvent = 1
    /\ capcity = InitialCapacity
    /\ pc = "wait"
    /\ fired = << >>
    /\ job = Idle
    /\ fdtoClose = << >>
    /\ fate = "up"
    /\ lost = {}

Up == fate = "up"
-----------------------------------------------------------------------------
(* Clients.  The client program sends a request when it has read the reply  *)
(* to the one before.                                                       *)
Asking(c) == inbox[c] > 0 \/ due[c] > 0

Connect(c) ==
    /\ Up /\ sock[c] = "new"
    /\ sock' = [sock EXCEPT ![c] = "open"]
    /\ backlog' = Append(backlog, c)
    /\ UNCHANGED << asks, inbox, due, outbox, owner, interest, connections,
                    events, round, fate, lost >>

Ask(c) ==
    /\ Up /\ sock[c] = "open"
    /\ ~Asking(c)
    /\ asks < MaxRequests
    /\ asks' = asks + 1
    /\ inbox' = [inbox EXCEPT ![c] = 1]
    /\ UNCHANGED << sock, due, outbox, kernel, connections, events, round,
                    fate, lost >>

Receive(c) ==
    /\ Up /\ sock[c] = "open" /\ outbox[c] > 0
    /\ outbox' = [outbox EXCEPT ![c] = @ - 1]
    /\ due' = [due EXCEPT ![c] = @ - 1]
    /\ UNCHANGED << sock, asks, inbox, kernel, connections, events, round,
                    fate, lost >>

(* A client may quit at any time, in the middle of a request too.  With a    *)
(* reply unread in its kernel the server's gets a reset, else the end of the *)
(* stream.                                                                   *)
Quit(c) ==
    /\ Up /\ sock[c] = "open"
    /\ sock' = [sock EXCEPT ![c] = IF outbox[c] > 0 THEN "reset" ELSE "finished"]
    /\ due' = [due EXCEPT ![c] = 0]
    /\ outbox' = [outbox EXCEPT ![c] = 0]
    /\ UNCHANGED << asks, inbox, kernel, connections, events, round, fate, lost >>

(* What is written to a client that is gone is answered by a reset. *)
Refuse(c) ==
    /\ Up /\ sock[c] = "finished" /\ outbox[c] > 0
    /\ sock' = [sock EXCEPT ![c] = "broken"]
    /\ outbox' = [outbox EXCEPT ![c] = 0]
    /\ UNCHANGED << asks, inbox, due, kernel, connections, events, round,
                    fate, lost >>
-----------------------------------------------------------------------------
(* What epoll has to say of a descriptor.  A reset shuts down both ways, and *)
(* its error is told until a call has returned it.                           *)
Told(fd) ==
    LET c == owner[fd] IN
    IF interest[fd] = {} THEN {}
    ELSE {f \in Flags :
            CASE f = "in" -> inbox[c] > 0 \/ sock[c] # "open"
              [] f = "out" -> /\ "out" \in interest[fd]
                              /\ outbox[c] < Window
              [] f = "err" -> sock[c] \in {"reset", "broken"}
              [] f = "hup" -> sock[c] \in {"reset", "broken"}}

Ready ==
    {[fd |-> fd, flags |-> Told(fd)] : fd \in {f \in Fds : Told(f) # {}}}
      \cup (IF backlog = << >> THEN {}
            ELSE {[fd |-> Listener, flags |-> {"in"}]})

(* Epoll::waitEvents: as many of the ready descriptors as the array was said *)
(* to hold, in some order.                                                   *)
waitEvents ==
    /\ Up /\ pc = "wait" /\ Ready # {}
    /\ \E n \in 1 .. Cardinality(Ready) :
         /\ n = Cardinality(Ready) \/ n = maxEvent
         /\ n <= maxEvent
         /\ \E f \in [1 .. n -> Ready] :
              /\ \A i, j \in 1 .. n : f[i] = f[j] => i = j
              /\ fired' = f
    /\ pc' = "round"
    /\ UNCHANGED << clients, kernel, connections, events, job, fdtoClose, fate, lost >>

(* epoll_wait fails with EINTR, and nothing catches what waitEvents throws. *)
interrupted ==
    /\ Up /\ pc = "wait" /\ Ready = {}
    /\ Signals
    /\ fate' = "interrupted"
    /\ UNCHANGED << clients, kernel, connections, events, round, lost >>

(* Bug: the end of the stream is taken for a hang-up. *)
closesOnHup(flags) ==
    (IF "in" \in flags THEN << "close" >> ELSE << >>)
      \o (IF "in" \in flags THEN << "read" >> ELSE << >>)
      \o (IF "out" \in flags THEN << "write" >> ELSE << >>)

(* IOEvent::handleEvent: the handlers an event calls, one after the other. *)
handleEvent(flags) ==
    (IF "hup" \in flags /\ "in" \notin flags THEN << "close" >> ELSE << >>)
      \o (IF "err" \in flags THEN << "close" >> ELSE << >>)
      \o (IF "in" \in flags THEN << "read" >> ELSE << >>)
      \o (IF "out" \in flags THEN << "write" >> ELSE << >>)

(* TcpServer::run looks the event's descriptor up and skips what it does not *)
(* know.                                                                     *)
dispatch ==
    /\ Up /\ pc = "round" /\ job = Idle /\ fired # << >>
    /\ LET e == Head(fired) IN
       job' = IF e.fd = Listener THEN [fd |-> Listener, calls |-> << "accept" >>]
              ELSE IF connections[e.fd] = None THEN Idle
              ELSE [fd |-> e.fd, calls |-> handleEvent(e.flags)]
    /\ fired' = Tail(fired)
    /\ UNCHANGED << clients, kernel, connections, events, pc, fdtoClose, fate, lost >>

Now(call) == Up /\ job.calls # << >> /\ Head(job.calls) = call

Finished == IF Len(job.calls) = 1 THEN Idle ELSE [job EXCEPT !.calls = Tail(@)]

Die ==
    /\ fate' = "died"
    /\ UNCHANGED << clients, kernel, connections, events, round, lost >>
-----------------------------------------------------------------------------
neverGrows ==       \* bug
    /\ maxEvent' = IF maxEvent < MaxEvents THEN maxEvent + 1 ELSE maxEvent
    /\ UNCHANGED capcity

(* EpollEvents::addEvent doubles an array that is full; nothing shrinks it. *)
addEvent ==
    /\ maxEvent' = IF maxEvent < MaxEvents THEN maxEvent + 1 ELSE maxEvent
    /\ capcity' = IF maxEvent + 1 > capcity THEN (maxEvent + 1) * 2 ELSE capcity

Free == {fd \in Fds : owner[fd] = None}

startsPastEnd(fd, c) ==     \* bug: readstart of a new buffer is not 0
    IF connections[fd] = None
    THEN [connections EXCEPT ![fd] = [conn |-> c, out |-> 0 - 1]] ELSE connections

(* map::insert leaves an entry that is there alone. *)
Inserted(fd, c) ==
    IF connections[fd] = None
    THEN [connections EXCEPT ![fd] = [conn |-> c, out |-> 0]] ELSE connections

newConnectionHandle ==
    /\ Now("accept")
    /\ IF Free = {}
       THEN /\ connections' = Inserted(Failed, None)
            /\ UNCHANGED << kernel, lost >>
       ELSE LET fd == Min(Free)
                c == Head(backlog)
            IN
            /\ owner' = [owner EXCEPT ![fd] = c]
            /\ interest' = [interest EXCEPT ![fd] = {"in"}]
            /\ backlog' = Tail(backlog)
            /\ connections' = Inserted(fd, c)
            /\ lost' = IF connections[fd] = None THEN lost ELSE lost \cup {c}
    /\ addEvent
    /\ job' = Finished
    /\ UNCHANGED << clients, pc, fired, fdtoClose, fate >>

(* TcpServer::notifyClose.  The entry stays until the round is over. *)
notifyClose(fd) ==
    /\ fdtoClose' = Append(fdtoClose, fd)
    /\ owner' = [owner EXCEPT ![fd] = None]
    /\ interest' = [interest EXCEPT ![fd] = {}]

closeConnection ==
    /\ Now("close")
    /\ notifyClose(job.fd)
    /\ job' = Finished
    /\ UNCHANGED << clients, backlog, connections, events, pc, fired, fate, lost >>

replyUnwatched(fd, n) ==    \* bug: epoll is not told
    /\ connections' = [connections EXCEPT ![fd].out = @ + n]
    /\ UNCHANGED interest

(* The length of a reply is added to the write buffer and epoll told to wait *)
(* for room (SdbServer::onMessageCallback).                                  *)
Reply(fd, n) ==
    /\ connections' = [connections EXCEPT ![fd].out = @ + n]
    /\ interest' = [interest EXCEPT ![fd] = @ \cup {"out"}]

(* Buffer::readFromFd takes the -1 of a failed read for a length, and the    *)
(* string it appends to throws; 0 is the end of the stream.                  *)
read ==
    /\ Now("read")
    /\ LET c == owner[job.fd] IN
       IF c = None \/ (sock[c] = "reset" /\ inbox[c] = 0)
       THEN Die
       ELSE \/ /\ inbox[c] > 0
               /\ inbox' = [inbox EXCEPT ![c] = @ - 1]
               /\ \E n \in ReplySizes :
                    /\ Reply(job.fd, n)
                    /\ due' = [due EXCEPT ![c] = IF sock[c] = "open" THEN n ELSE 0]
               /\ job' = Finished
               /\ UNCHANGED << sock, asks, outbox, backlog, owner, events, pc,
                               fired, fdtoClose, fate, lost >>
            \/ /\ inbox[c] = 0 /\ sock[c] # "open"
               /\ notifyClose(job.fd)
               /\ job' = Finished
               /\ UNCHANGED << clients, backlog, connections, events, pc,
                               fired, fate, lost >>

(* Bugs: the rest of a reply is dropped; epoll is left to watch for room. *)
dropsRest(fd, left) ==
    /\ connections' = [connections EXCEPT ![fd].out = 0]
    /\ interest' = [interest EXCEPT ![fd] = @ \ {"out"}]
keepsWatching(fd, left) ==
    connections' = [connections EXCEPT ![fd].out = left] /\ UNCHANGED interest

(* Some, or all, of the reply is with the kernel.  Only when the buffer is   *)
(* empty is the interest in writing given up (SdbServer::onWriteCallback).   *)
Wrote(fd, left) ==
    /\ connections' = [connections EXCEPT ![fd].out = left]
    /\ interest' = [interest EXCEPT ![fd] = IF left = 0 THEN @ \ {"out"} ELSE @]

(* A failed write is taken for one of many bytes: readstart falls behind the *)
(* buffer, which then counts one more, and the connection is not closed.     *)
Miscount(fd) == connections' = [connections EXCEPT ![fd].out = @ + 1]

(* One unit after another, for the descriptors block: the write returns when *)
(* the last is with the kernel, or with fewer when the connection breaks.    *)
(* When it begins the kernel holds nothing for the client, which has read    *)
(* the reply before; so it cannot fail at once for a reset.                  *)
write ==
    /\ Now("write") \/ Now("push")
    /\ LET fd == job.fd
           c == owner[fd]
           out == connections[fd].out
       IN
       \/ /\ out = 0 \/ c = None
          /\ IF out = 0 THEN UNCHANGED connections ELSE Miscount(fd)
          /\ job' = Finished
          /\ UNCHANGED << outbox, interest >>
       \/ /\ out > 0 /\ c # None
          /\ sock[c] \in {"open", "finished"} /\ outbox[c] < Window
          /\ outbox' = [outbox EXCEPT ![c] = @ + 1]
          /\ Wrote(fd, out - 1)
          /\ job' = IF out = 1 THEN Finished
                    ELSE [job EXCEPT !.calls = << "push" >> \o Tail(@)]
       \/ /\ Now("push") /\ c # None /\ sock[c] \in {"reset", "broken"}
          /\ job' = Finished
          /\ UNCHANGED << outbox, interest, connections >>
    /\ UNCHANGED << sock, asks, inbox, due, backlog, owner, events, pc, fired,
                    fdtoClose, fate, lost >>

(* Bugs: the tables are not cleaned; they are emptied. *)
forgetsToErase ==
    /\ Up /\ pc = "round" /\ job = Idle /\ fired = << >>
    /\ fdtoClose' = << >>
    /\ pc' = "wait"
    /\ UNCHANGED << clients, kernel, connections, events, fired, job, fate, lost >>

erasesAll ==
    /\ Up /\ pc = "round" /\ job = Idle /\ fired = << >>
    /\ connections' = IF fdtoClose = << >> THEN connections
                      ELSE [fd \in DOMAIN connections |-> None]
    /\ fdtoClose' = << >>
    /\ pc' = "wait"
    /\ UNCHANGED << clients, kernel, events, fired, job, fate, lost >>

(* The round is over: only now are the closed descriptors' entries erased. *)
sweep ==
    /\ Up /\ pc = "round" /\ job = Idle /\ fired = << >>
    /\ connections' = [fd \in DOMAIN connections |->
                         IF fd \in Range(fdtoClose) THEN None ELSE connections[fd]]
    /\ fdtoClose' = << >>
    /\ pc' = "wait"
    /\ UNCHANGED << clients, kernel, events, fired, job, fate, lost >>

run ==
    \/ waitEvents
    \/ dispatch
    \/ newConnectionHandle
    \/ closeConnection
    \/ read
    \/ write
    \/ sweep

Next ==
    \/ \E c \in Conns : Connect(c) \/ Ask(c) \/ Receive(c) \/ Quit(c) \/ Refuse(c)
    \/ run
    \/ interrupted

(* The server never rests while it can go on, a client that stays reads, and *)
(* the kernel of one that is gone answers.                                   *)
Spec ==
    /\ Init /\ [][Next]_vars
    /\ WF_vars(run)
    /\ \A c \in Conns : WF_vars(Receive(c)) /\ WF_vars(Refuse(c))
-----------------------------------------------------------------------------
(* The connection is in the tables under its own descriptor, and open. *)
Serves(fd, c) ==
    /\ owner[fd] = c
    /\ connections[fd] # None
    /\ connections[fd].conn = c
    /\ fd \notin Range(fdtoClose)

Served(c) == \E fd \in Fds : Serves(fd, c)

(* The tables name the connections behind the descriptors.  An entry whose   *)
(* descriptor has been closed, and perhaps given away again, lasts only to   *)
(* the end of the round, and the handlers that run meanwhile, on events from *)
(* before, touch no connection but their own: nobody reads another client's  *)
(* request or gets its reply (TcpServer::run, notifyClose).                  *)
TableSound ==
    /\ \A fd \in Fds :
         connections[fd] # None => fd \in Range(fdtoClose) \/ Serves(fd, owner[fd])
    /\ job.fd \in Fds => owner[job.fd] \in {None, connections[job.fd].conn}
    /\ pc = "wait" => fdtoClose = << >>

(* A connection is out of reach of the tables only if it was accepted in the *)
(* round that closed its number: map::insert then leaves the old entry, and  *)
(* the end of the round erases it (TcpServer.hpp:75-77,99).                  *)
OnlyReuseLoses ==
    \A fd \in Fds : owner[fd] # None => Served(owner[fd]) \/ owner[fd] \in lost

(* The array of events has room for every descriptor epoll watches, so that  *)
(* one wait reports all that are ready, although it grows in the middle of a *)
(* round and nothing is ever taken off maxEvent (EpollEvents, addEvent).     *)
Roomy ==
    /\ Cardinality({fd \in Fds : interest[fd] # {}}) < maxEvent
    /\ Len(fired) <= maxEvent
    /\ maxEvent <= capcity

(* Units of a reply are neither lost nor doubled: what a client lacks is in  *)
(* its kernel or in the write buffer of its own connection.                  *)
RepliesConserved ==
    \A c \in Conns : sock[c] = "open" =>
        /\ due[c] > 0 => Served(c)
        /\ \A fd \in Fds : Serves(fd, c) => due[c] = outbox[c] + connections[fd].out

(* While the server waits it waits for room exactly where it has something   *)
(* to write: no reply is forgotten, and no wait returns because of room that *)
(* nobody needs (one may for other reasons: a connection that the tables     *)
(* have lost, or one that cannot be accepted, is ready again at once).       *)
InterestExact ==
    pc = "wait" =>
        \A fd \in Fds : connections[fd] # None =>
            ("out" \in interest[fd] <=> connections[fd].out > 0)

(* A descriptor is closed once in a round, although an event may run three   *)
(* handlers that each can close it. The server dies only in the read handler *)
(* of a connection that was reset: by a client that quit with a reply        *)
(* unread, or by the kernel of one that had quit and was written to. That    *)
(* handlers may run on a descriptor which one before them has closed is not  *)
(* excluded: a read does after a reset, and then the server dies; a write    *)
(* does after the end of the stream too, fails, and is taken for one that    *)
(* did not (Miscount; IOEvent.hpp:49-63, Buffer.hpp:119-145).                *)
ClosesOnce ==
    /\ \A i, j \in DOMAIN fdtoClose : fdtoClose[i] = fdtoClose[j] => i = j
    /\ fate = "died" =>
         /\ job.calls # << >> /\ Head(job.calls) = "read"
         /\ sock[connections[job.fd].conn] \in {"reset", "broken"}

(* Every request of a client that stays is answered in full, and the         *)
(* descriptor of one that has quit is given back, whatever the others do but *)
(* stop reading, unless the tables lost it.                                  *)
Waits(c) == Served(c) /\ (Asking(c) \/ sock[c] # "open")

ServesAll == \A c \in Conns : Waits(c) ~> ~Waits(c) \/ fate # "up"
=============================================================================
