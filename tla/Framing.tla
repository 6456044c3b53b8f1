------------------------------ MODULE Framing ------------------------------
(***************************************************************************)
(* Requests and replies on one connection: the client program              *)
(* (client/SdbClient.hpp), the stream, the two buffers of the connection   *)
(* (net/Buffer.hpp) and the callbacks of server/SdbServer.hpp.  A message  *)
(* is the word "sdb", its length in eight bytes, and a text; the stream    *)
(* delivers it in pieces of any size, and a read takes at most one chunk.  *)
(*                                                                         *)
(* A unit stands for some bytes: it knows its message, its place in it and *)
(* what the header of that message says.                                   *)
(***************************************************************************)
EXTENDS Integers, Sequences, FiniteSetsExt

CONSTANTS
    HeaderLen,      \* "sdb" and the length
    TextLens,       \* the lengths of requests' texts
    AnswerLens,     \* the lengths of answers' texts, which may be empty
    Chunk,          \* the most one read takes
    Garbage,        \* the lengths that bytes which are no header may spell
    Manners,        \* whether clients may be eager: send before they have read
    MaxRequests,    \* bound: the requests of the client
    MaxServed       \* bound: the executions of the server

ASSUME LengthAssumption ==
    /\ HeaderLen \in Nat \ {0}
    /\ Chunk \in Nat \ {0}
    /\ TextLens \subseteq Nat \ {0}
    /\ AnswerLens \subseteq Nat
    /\ Garbage \subseteq Nat
    /\ Manners \subseteq BOOLEAN
    /\ MaxRequests \in Nat /\ MaxServed \in Nat

VARIABLES
    eager,      \* this client does not wait
    phase,      \* where SdbClient::send and read are
    asked,      \* how many requests the client has begun
    size,       \* the length of the last of them
    toServer,   \* what is on its way to the server
    readbuf,    \* the read buffer
    writebuf,   \* what the write buffer has beyond readstart
    writing,    \* epoll watches for room to write
    toClient,   \* what is on its way to the client
    res,        \* what read has of the reply so far
    screen,     \* what the client last printed
    \* history
    sent, took, \* all that was sent, and all that was taken out of readbuf
    served,     \* for each execution, the request it was the text of
    said, got,  \* all that was answered, and all that read has returned
    heard       \* for each return, the execution it was the reply of

client == << eager, phase, asked, size, res, screen, sent, got, heard >>
server == << readbuf, writebuf, writing, took, served, said >>
vars == << client, server, toServer, toClient >>

Units == [m : Nat \ {0}, i : Nat \ {0}, n : Nat]
Garbled == 0

(* Every buffer holds units, and send is at a place in its two loops. *)
FramingTypeOK ==
    /\ eager \in BOOLEAN
    /\ phase \in {"idle", "header", "await", "dead"}
    /\ asked \in 0 .. MaxRequests
    /\ size \in Nat
    /\ {toServer, readbuf, writebuf, toClient, res, sent, took, said, got}
         \subseteq Seq(Units)
    /\ writing \in BOOLEAN
    /\ screen \in {"blank", "reply", "garbage"}
    /\ served \in Seq(Nat) /\ heard \in Seq(Nat)

Init ==
    /\ eager \in Manners
    /\ phase = "idle"
    /\ asked = 0
    /\ size = 0
    /\ toServer = << >> /\ readbuf = << >> /\ writebuf = << >>
    /\ toClient = << >> /\ res = << >>
    /\ writing = FALSE
    /\ screen = "blank"
    /\ sent = << >> /\ took = << >> /\ said = << >> /\ got = << >>
    /\ served = << >> /\ heard = << >>

(* The units from a to b of the m-th message, n units long. *)
Part(m, n, a, b) == [j \in 1 .. (b - a + 1) |-> [m |-> m, i |-> a + j - 1, n |-> n]]

First(s, n) == SubSeq(s, 1, n)
Rest(s, n) == SubSeq(s, n + 1, Len(s))

(* The whole of a message and nothing else. *)
IsMessage(s, m) ==
    s # << >> /\ Len(s) = s[1].n /\ \A j \in DOMAIN s : s[j].m = m /\ s[j].i = j
-----------------------------------------------------------------------------
(* SdbClient::send: a loop over the header, then one over the text. *)
Send(units) ==
    /\ toServer' = toServer \o units
    /\ sent' = sent \o units

sendHeader ==
    /\ phase = "idle" \/ (eager /\ phase = "await")
    /\ asked < MaxRequests
    /\ asked' = asked + 1
    /\ \E n \in TextLens : size' = HeaderLen + n
    /\ Send(Part(asked', size', 1, HeaderLen))
    /\ phase' = "header"
    /\ UNCHANGED << eager, res, screen, got, heard, server, toClient >>

sendText ==
    /\ phase = "header"
    /\ Send(Part(asked, size, HeaderLen + 1, size))
    /\ phase' = "await"
    /\ UNCHANGED << eager, asked, size, res, screen, got, heard, server, toClient >>
-----------------------------------------------------------------------------
(* What the eight bytes behind the first three spell. *)
Spelled(buf) ==
    IF buf[1].i = 1 /\ buf[HeaderLen].m = buf[1].m THEN {buf[1].n} ELSE Garbage

(* Bug: a request is taken a unit too early. *)
takesEarly(buf) == \E len \in Spelled(buf) : Len(buf) + 1 >= len

Complete(buf) == \E len \in Spelled(buf) : Len(buf) >= len
Incomplete(buf) == \E len \in Spelled(buf) : Len(buf) < len

(* Bug: epoll is not told to watch for room. *)
forgetsToWrite(units) ==
    writebuf' = writebuf \o units /\ said' = said \o units /\ UNCHANGED writing

(* The reply joins what is not written yet, and epoll is to watch for room. *)
Answer(units) ==
    /\ writebuf' = writebuf \o units
    /\ said' = said \o units
    /\ writing' = TRUE

(* The whole buffer is the text of one request, whatever is behind it. *)
Execute(buf) ==
    /\ readbuf' = << >>
    /\ took' = took \o buf
    /\ served' = Append(served, IF IsMessage(buf, buf[1].m) THEN buf[1].m ELSE Garbled)
    /\ \E n \in AnswerLens :
         Answer(Part(Len(served'), HeaderLen + n, 1, HeaderLen + n))

(* TcpConnection::read and SdbServer::onMessageCallback. *)
onMessage ==
    /\ toServer # << >>
    /\ Len(served) < MaxServed
    /\ \E n \in 1 .. Min({Chunk, Len(toServer)}) :
         LET buf == readbuf \o First(toServer, n) IN
         /\ toServer' = Rest(toServer, n)
         /\ \/ /\ Len(buf) >= HeaderLen /\ Complete(buf)
               /\ Execute(buf)
            \/ /\ Len(buf) >= HeaderLen => Incomplete(buf)
               /\ readbuf' = buf
               /\ UNCHANGED << writebuf, writing, took, served, said >>
    /\ UNCHANGED << client, toClient >>

(* Bug: the interest is dropped with part of the reply still to go. *)
dropsRest(n) == writebuf' = << >> /\ writing' = FALSE

(* Buffer::writeToFd and SdbServer::onWriteCallback. *)
Wrote(n) ==
    /\ writebuf' = Rest(writebuf, n)
    /\ writing' = (n < Len(writebuf))

onWrite ==
    /\ writing /\ writebuf # << >>
    /\ \E n \in 1 .. Len(writebuf) :
         /\ toClient' = toClient \o First(writebuf, n)
         /\ Wrote(n)
    /\ UNCHANGED << client, toServer, readbuf, took, served, said >>
-----------------------------------------------------------------------------
(* SdbClient::read goes on until it has as much as the header said; all that *)
(* came with it is the reply.                                                *)
Enough(r) == \E len \in Spelled(r) : Len(r) >= len
Lacking(r) == \E len \in Spelled(r) : Len(r) < len

receive ==
    /\ phase = "await" /\ toClient # << >>
    /\ \E n \in 1 .. Min({Chunk, Len(toClient)}) :
         LET r == res \o First(toClient, n) IN
         /\ toClient' = Rest(toClient, n)
         /\ \/ /\ Len(r) >= HeaderLen /\ Enough(r)
               /\ got' = got \o r
               /\ heard' = Append(heard, IF IsMessage(r, r[1].m) THEN r[1].m ELSE Garbled)
               /\ res' = << >>
               /\ \/ screen' \in {"reply", "garbage"} /\ phase' = "idle"
                  \/ screen' = "garbage" /\ phase' = "dead"
            \/ /\ Len(r) >= HeaderLen => Lacking(r)
               /\ res' = r
               /\ UNCHANGED << got, heard, screen, phase >>
    /\ UNCHANGED << eager, asked, size, sent, server, toServer >>

Next == sendHeader \/ sendText \/ onMessage \/ onWrite \/ receive

Spec ==
    /\ Init /\ [][Next]_vars
    /\ WF_vars(sendText) /\ WF_vars(onMessage) /\ WF_vars(onWrite) /\ WF_vars(receive)
-----------------------------------------------------------------------------
(* Nothing that was sent is lost, doubled or put out of order, either way:   *)
(* all of it has been taken, or is in a buffer or on its way (Buffer.hpp).   *)
(* A cut may fall anywhere, and a client need not wait.                      *)
StreamsIntact ==
    /\ sent = took \o readbuf \o toServer
    /\ said = got \o res \o toClient \o writebuf

(* Both: the buffers hold the units of messages, each in its place. *)
FramingInv == FramingTypeOK /\ StreamsIntact

(* A client that waits for each reply before the next request has a session: *)
(* each request is executed once, alone, and answered in its turn, although  *)
(* the server takes all it has read for the text of one request.             *)
S == INSTANCE Session
ImplementsSession == S!Spec

(* What is executed, for a client that does not wait too: unless the text    *)
(* executed last ended inside a request, the next one begins where a request *)
(* begins and holds all of it. It is executed as that request if that is all *)
(* it holds; the beginning of the next one behind it makes another of it     *)
(* (SdbServer.hpp:34), and then nothing is said of what comes after.         *)
TakesWhole ==
    LET text == Rest(took', Len(took))
        whole == First(text, text[1].n)
    IN
    took' # took /\ (took = << >> \/ took[Len(took)].i = took[Len(took)].n) =>
        /\ Len(text) >= text[1].n /\ IsMessage(whole, text[1].m)
        /\ served' = Append(served, IF text = whole THEN text[1].m ELSE Garbled)

BeginsWhole == [][TakesWhole]_vars

(* A client that waits for its replies gets every one. *)
Replied == asked > Len(heard) /\ ~eager ~> asked = Len(heard)

(* README.md:62 of the client program, "one input, one execution, and the    *)
(* result comes back": what it prints is the reply.  Violated: read returns  *)
(* a reference to its own local string.                                      *)
PrintsReply == screen # "garbage"
=============================================================================
