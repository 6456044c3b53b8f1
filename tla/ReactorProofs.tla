---------------------------- MODULE ReactorProofs ----------------------------
(***************************************************************************)
(* For any number of clients and descriptors, any lengths of replies and   *)
(* any order of events: the tables of the reactor name the connections     *)
(* behind the descriptors, and no reply is lost while its connection lasts.*)
(***************************************************************************)
EXTENDS Reactor, FiniteSetTheorems, SequenceTheorems, WellFoundedInduction, TLAPS

Gone == {"reset", "broken"}
Closed == Range(fdtoClose)

(* A connection is new, waits to be accepted, or has one descriptor. *)
Owners ==
    /\ \A f, g \in Fds : owner[f] # None /\ owner[f] = owner[g] => f = g
    /\ \A i, j \in DOMAIN backlog : backlog[i] = backlog[j] => i = j
    /\ \A i \in DOMAIN backlog :
         sock[backlog[i]] # "new" /\ \A f \in Fds : owner[f] # backlog[i]
    /\ \A f \in Fds : owner[f] # None => sock[owner[f]] # "new"
    /\ \A f \in Fds : IF owner[f] = None THEN interest[f] = {}
                      ELSE "in" \in interest[f]

(* An entry that has not been closed in this round is its owner's, and epoll *)
(* waits for room for it if it has something to write.                       *)
Entries ==
    \A f \in Fds :
        /\ connections[f] # None =>
             /\ connections[f].conn \in Conns
             /\ f \notin Closed =>
                  /\ owner[f] = connections[f].conn
                  /\ "out" \in interest[f] <=> connections[f].out > 0
        /\ f \in Closed => connections[f] # None
        /\ owner[f] # None => Serves(f, owner[f]) \/ owner[f] \in lost

Events == [fd : Fds \cup {Listener}, flags : SUBSET Flags]

(* An event still to be handled is of a descriptor that was watched when the *)
(* wait returned; nobody but its own handlers, which come later, closes it.  *)
Pending ==
    /\ pc = "wait" => fired = << >> /\ job = Idle /\ fdtoClose = << >>
    /\ \A i, j \in DOMAIN fired : fired[i].fd = fired[j].fd => i = j
    /\ \A i \in DOMAIN fired :
         /\ fired[i].fd # job.fd
         /\ fired[i].fd = Listener => backlog # << >> /\ fired[i].flags = {"in"}
         /\ fired[i].fd \in Fds =>
              /\ owner[fired[i].fd] # None /\ fired[i].fd \notin Closed
              /\ fired[i].flags \cap {"err", "hup"} # {} =>
                   "in" \in fired[i].flags /\ sock[owner[fired[i].fd]] \in Gone

(* The handlers left to an event, in the order handleEvent calls them: one   *)
(* closes before it reads only where there was a reset.                      *)
CallLists == {<< >>, << "close", "read" >>, << "close", "read", "write" >>,
              << "read" >>, << "read", "write" >>, << "write" >>, << "push" >>}

Handling ==
    /\ job.fd = Failed => job.calls = << >>
    /\ job.fd = Listener => job.calls = << "accept" >> /\ backlog # << >>
    /\ job.fd \in Fds =>
         /\ job.calls \in CallLists
         /\ connections[job.fd] # None
         /\ owner[job.fd] = None <=> job.fd \in Closed
         /\ job.calls # << >> /\ Head(job.calls) = "close" =>
              owner[job.fd] # None /\ sock[owner[job.fd]] \in Gone
         /\ job.calls # << >> /\ Head(job.calls) = "read" /\ owner[job.fd] = None =>
              sock[connections[job.fd].conn] \in Gone

(* A client has at most one request on its way, and lacks what the kernel    *)
(* and the write buffer of its connection hold.                              *)
Conserved ==
    \A c \in Conns :
        /\ inbox[c] <= 1
        /\ sock[c] = "open" /\ inbox[c] > 0 => due[c] = 0
        /\ sock[c] \in {"new", "open"} /\ ~Served(c) => due[c] = 0 /\ outbox[c] = 0
        /\ sock[c] = "open" =>
             \A f \in Fds : Serves(f, c) => due[c] = outbox[c] + connections[f].out

Inv ==
    /\ TypeOK /\ Owners /\ Entries /\ Pending /\ Handling /\ Conserved
    /\ Roomy /\ ClosesOnce

-----------------------------------------------------------------------------
LEMMA Descriptors ==
    /\ \A f \in Fds : f \in Nat /\ f # Listener /\ f # Failed
    /\ Listener # Failed /\ Listener \notin Fds /\ Failed \notin Fds
    /\ None \notin Conns
    /\ \A c \in Conns \cup {None}, n \in Nat : [conn |-> c, out |-> n] # None
BY FdsAssumption, NoneAssumption DEF Failed

LEMMA InitInv == Init => Inv
<1> SUFFICES ASSUME Init PROVE Inv
  OBVIOUS
<1>1. TypeOK
  <2>1. MaxEvents \in Nat /\ MaxEvents >= 1 /\ InitialCapacity \in Nat
    BY SizesAssumption, FdsAssumption, FS_CardinalityType
  <2>2. job \in [fd : Fds \cup {Listener, Failed}, calls : Seq(Calls)]
    BY DEF Init, Idle
  <2> QED
    BY <2>1, <2>2, SizesAssumption DEF Init, TypeOK
<1>2. Closed = {} /\ DOMAIN fired = {} /\ DOMAIN backlog = {}
  BY DEF Init, Closed, Range
<1>3. Owners /\ Entries /\ Pending
  BY <1>2 DEF Init, Owners, Entries, Pending
<1>4. Handling /\ Conserved
  BY Descriptors DEF Init, Handling, Conserved, Idle, Served, Serves
<1>5. Roomy /\ ClosesOnce
  <2>1. {f \in Fds : interest[f] # {}} = {}
    BY DEF Init
  <2>2. Cardinality({f \in Fds : interest[f] # {}}) = 0
    BY <2>1, FS_EmptySet
  <2> QED
    BY <2>2, SizesAssumption DEF Init, Roomy, ClosesOnce
<1> QED
  BY <1>1, <1>3, <1>4, <1>5 DEF Inv
-----------------------------------------------------------------------------
(* The clients.  What they do shows only in sock and in the queues. *)
Tables == << owner, interest, connections, fdtoClose, lost >>

LEMMA SameTables ==
    ASSUME UNCHANGED Tables
    PROVE  /\ Closed' = Closed
           /\ \A f, c : Serves(f, c)' <=> Serves(f, c)
           /\ \A c : Served(c)' <=> Served(c)
BY DEF Tables, Closed, Range, Serves, Served

LEMMA SameEntries ==
    ASSUME Entries, UNCHANGED Tables
    PROVE  Entries'
BY SameTables DEF Entries, Tables

(* A server that lives has only its closed descriptors to account for. *)
LEMMA Lives ==
    ASSUME ClosesOnce, UNCHANGED fdtoClose, fate' # "died"
    PROVE  ClosesOnce'
BY DEF ClosesOnce

(* What a step that leaves the tables and the round alone has to show. *)
LEMMA ClientStep ==
    ASSUME Inv, Up, UNCHANGED << Tables, events, pc, fired, job, fate >>,
           \A c \in Conns : sock[c] \in Gone => sock'[c] \in Gone,
           \A i \in DOMAIN backlog : i \in DOMAIN backlog',
           TypeOK', Owners', Conserved'
    PROVE  Inv'
<1>1. Entries'
  BY SameEntries DEF Inv
<1>2. \A f \in Fds : owner[f] # None => owner[f] \in Conns
  BY DEF Inv, TypeOK
<1>3. backlog # << >> => backlog' # << >>
  BY DEF Inv, TypeOK
<1>4. Pending'
  <2>1. ASSUME NEW i \in DOMAIN fired
        PROVE  /\ fired[i].fd # job.fd
               /\ fired[i].fd = Listener => backlog' # << >> /\ fired[i].flags = {"in"}
               /\ fired[i].fd \in Fds =>
                    /\ owner[fired[i].fd] # None /\ fired[i].fd \notin Closed
                    /\ fired[i].flags \cap {"err", "hup"} # {} =>
                         "in" \in fired[i].flags /\ sock'[owner[fired[i].fd]] \in Gone
    BY <1>2, <1>3 DEF Inv, Pending
  <2> QED
    BY <2>1, SameTables DEF Inv, Pending, Tables
<1>5. Handling'
  <2>1. \A f \in Fds : connections[f] # None => connections[f].conn \in Conns
    BY DEF Inv, Entries
  <2> QED
    BY <1>2, <1>3, <2>1, SameTables DEF Inv, Handling, Tables
<1>6. Roomy' /\ ClosesOnce'
  BY Lives DEF Inv, Roomy, Tables, events, Up
<1> QED
  BY <1>1, <1>4, <1>5, <1>6 DEF Inv

LEMMA ConnectInv ==
    ASSUME Inv, NEW c \in Conns, Connect(c)
    PROVE  Inv'
<1>1. backlog \in Seq(Conns) /\ backlog' = Append(backlog, c)
  BY DEF Inv, TypeOK, Connect
<1>2. /\ Len(backlog) \in Nat
      /\ DOMAIN backlog' = 1 .. (Len(backlog) + 1)
      /\ \A i \in 1 .. Len(backlog) : backlog'[i] = backlog[i]
      /\ backlog'[Len(backlog) + 1] = c
  BY <1>1
<1>3. TypeOK'
  BY <1>1 DEF Inv, TypeOK, Connect, events, round
<1>4. Owners'
  <2>1. \A d \in Conns : sock[d] # "new" => sock'[d] # "new" /\ d # c
    BY DEF Connect, Inv, TypeOK
  <2>2. \A f \in Fds : owner[f] # None => owner[f] \in Conns /\ owner[f] # c
    BY <2>1 DEF Inv, Owners, TypeOK
  <2>3. sock'[c] # "new"
    BY DEF Connect, Inv, TypeOK
  <2>4. \A i \in 1 .. Len(backlog) : backlog[i] \in Conns /\ backlog[i] # c
    BY <1>1, <2>1 DEF Inv, Owners
  <2>5. DOMAIN backlog = 1 .. Len(backlog) /\ Len(backlog) \in Nat
    BY <1>1
  <2>6. \A i, j \in DOMAIN backlog' : backlog'[i] = backlog'[j] => i = j
    BY <1>2, <2>4, <2>5 DEF Inv, Owners
  <2>7. ASSUME NEW i \in DOMAIN backlog'
        PROVE  sock'[backlog'[i]] # "new" /\ \A f \in Fds : owner[f] # backlog'[i]
    <3>1. CASE i = Len(backlog) + 1
      BY <1>2, <2>2, <2>3, <3>1, Descriptors
    <3>2. CASE i \in 1 .. Len(backlog)
      BY <1>2, <2>1, <2>4, <2>5, <3>2 DEF Inv, Owners
    <3> QED
      BY <1>2, <3>1, <3>2
  <2> QED
    BY <2>1, <2>2, <2>6, <2>7 DEF Inv, Owners, Connect
<1>5. Conserved'
  <2>1. ~ Served(c)
    BY Descriptors DEF Inv, Owners, Served, Serves, Connect
  <2>2. UNCHANGED Tables
    BY DEF Connect, Tables, round
  <2> QED
    BY <2>1, <2>2, SameTables
    DEF Inv, Conserved, Connect, TypeOK, Tables, Served
<1>6. \A i \in DOMAIN backlog : i \in DOMAIN backlog'
  BY <1>1, <1>2
<1> QED
  BY <1>3, <1>4, <1>5, <1>6, ClientStep
  DEF Connect, Up, Tables, events, round, Inv, TypeOK, Gone

LEMMA AskInv ==
    ASSUME Inv, NEW c \in Conns, Ask(c)
    PROVE  Inv'
<1>1. TypeOK'
  BY SizesAssumption DEF Inv, TypeOK, Ask, events, round, kernel
<1>2. Owners'
  BY DEF Inv, Owners, Ask, kernel
<1>3. Conserved'
  <2>1. inbox[c] = 0 /\ due[c] = 0
    BY DEF Inv, TypeOK, Ask, Asking
  <2>2. UNCHANGED Tables
    BY DEF Ask, Tables, round, kernel
  <2> QED
    BY <2>1, <2>2, SameTables DEF Inv, Conserved, Ask, TypeOK, Tables, Served
<1> QED
  BY <1>1, <1>2, <1>3, ClientStep DEF Ask, Up, Tables, events, round, kernel

LEMMA ReceiveInv ==
    ASSUME Inv, NEW c \in Conns, Receive(c)
    PROVE  Inv'
<1>1. outbox[c] \in Nat /\ due[c] \in Nat /\ outbox[c] > 0 /\ sock[c] = "open"
  BY DEF Inv, TypeOK, Receive
<1>2. PICK f \in Fds : Serves(f, c)
  BY <1>1 DEF Inv, Conserved, Served
<1>3. due[c] = outbox[c] + connections[f].out /\ connections[f].out \in Nat
  BY <1>1, <1>2 DEF Inv, TypeOK, Conserved, Serves
<1>4. TypeOK'
  <2>1. outbox[c] - 1 \in Nat /\ due[c] - 1 \in Nat
    BY <1>1, <1>3
  <2>2. outbox' \in [Conns -> Nat] /\ due' \in [Conns -> Nat]
    BY <2>1 DEF Inv, TypeOK, Receive
  <2>3. UNCHANGED << sock, asks, inbox, backlog, owner, interest, connections,
                     maxEvent, capcity, pc, fired, job, fdtoClose, fate, lost >>
    BY DEF Receive, events, round, kernel
  <2> QED
    BY <2>2, <2>3 DEF Inv, TypeOK
<1>5. Owners'
  BY DEF Inv, Owners, Receive, kernel
<1>6. Conserved'
  <2>1. UNCHANGED Tables
    BY DEF Receive, Tables, round, kernel
  <2>2. \A g \in Fds : Serves(g, c) => g = f
    BY <1>2, Descriptors DEF Inv, Owners, Serves
  <2>3. due'[c] = outbox'[c] + connections[f].out
    BY <1>1, <1>3 DEF Receive, Inv, TypeOK
  <2>4. inbox[c] > 0 => due'[c] = 0
    BY <1>1, <1>3 DEF Inv, Conserved
  <2>5. ASSUME NEW d \in Conns, d # c
        PROVE  due'[d] = due[d] /\ outbox'[d] = outbox[d]
    BY <2>5 DEF Receive, Inv, TypeOK
  <2> QED
    BY <1>1, <1>2, <2>1, <2>2, <2>3, <2>4, <2>5, SameTables
    DEF Inv, Conserved, Receive, Tables, Served, kernel
<1> QED
  BY <1>4, <1>5, <1>6, ClientStep DEF Receive, Up, Tables, events, round, kernel

LEMMA QuitInv ==
    ASSUME Inv, NEW c \in Conns, Quit(c)
    PROVE  Inv'
<1>1. sock[c] = "open" /\ sock'[c] \in {"reset", "finished"}
      /\ \A d \in Conns : d # c => sock'[d] = sock[d]
  BY DEF Inv, TypeOK, Quit
<1>2. TypeOK'
  BY DEF Inv, TypeOK, Quit, events, round, kernel
<1>3. Owners'
  <2>1. \A d \in Conns : sock[d] # "new" => sock'[d] # "new"
    BY <1>1
  <2> QED
    BY <2>1 DEF Inv, Owners, Quit, kernel, TypeOK
<1>4. Conserved'
  <2>1. UNCHANGED Tables
    BY DEF Quit, Tables, round, kernel
  <2> QED
    BY <1>1, <2>1, SameTables DEF Inv, Conserved, Quit, TypeOK, Tables, Served, kernel
<1> QED
  BY <1>1, <1>2, <1>3, <1>4, ClientStep
  DEF Quit, Up, Tables, events, round, kernel, Gone

LEMMA RefuseInv ==
    ASSUME Inv, NEW c \in Conns, Refuse(c)
    PROVE  Inv'
<1>1. sock[c] = "finished" /\ sock'[c] = "broken"
      /\ \A d \in Conns : d # c => sock'[d] = sock[d]
  BY DEF Inv, TypeOK, Refuse
<1>2. TypeOK'
  BY DEF Inv, TypeOK, Refuse, events, round, kernel
<1>3. Owners'
  <2>1. \A d \in Conns : sock[d] # "new" => sock'[d] # "new"
    BY <1>1
  <2> QED
    BY <2>1 DEF Inv, Owners, Refuse, kernel, TypeOK
<1>4. Conserved'
  <2>1. UNCHANGED Tables
    BY DEF Refuse, Tables, round, kernel
  <2> QED
    BY <1>1, <2>1, SameTables DEF Inv, Conserved, Refuse, TypeOK, Tables, Served, kernel
<1> QED
  BY <1>1, <1>2, <1>3, <1>4, ClientStep
  DEF Refuse, Up, Tables, events, round, kernel, Gone
-----------------------------------------------------------------------------
LEMMA FiredTyped ==
    ASSUME Inv
    PROVE  /\ fired \in Seq(Events) /\ Len(fired) \in Nat
           /\ DOMAIN fired = 1 .. Len(fired)
           /\ \A i \in DOMAIN fired : fired[i].fd \in Fds \cup {Listener}
<1>1. fired \in Seq(Events)
  BY DEF Inv, TypeOK, Events
<1>2. \A e \in Events : e.fd \in Fds \cup {Listener}
  BY DEF Events
<1> QED
  BY <1>1, <1>2, LenProperties

LEMMA ArraysAreSequences ==
    ASSUME NEW S, NEW n \in Nat, NEW f \in [1 .. n -> S]
    PROVE  f \in Seq(S) /\ Len(f) = n /\ DOMAIN f = 1 .. n
OBVIOUS

(* The server.  A wait reports descriptors that are watched, each once. *)
LEMMA ReadyEvents ==
    ASSUME Inv, NEW e \in Ready
    PROVE  /\ e \in Events /\ e.fd \in Fds \cup {Listener} /\ e.flags \subseteq Flags
           /\ e.fd = Listener => backlog # << >> /\ e.flags = {"in"}
           /\ e.fd \in Fds =>
                /\ owner[e.fd] # None
                /\ e.flags \cap {"err", "hup"} # {} =>
                     "in" \in e.flags /\ sock[owner[e.fd]] \in Gone
<1>1. CASE e \in {[fd |-> fd, flags |-> Told(fd)] : fd \in {f \in Fds : Told(f) # {}}}
  <2>1. PICK f \in Fds : Told(f) # {} /\ e = [fd |-> f, flags |-> Told(f)]
    BY <1>1
  <2>2. interest[f] # {} /\ owner[f] # None
    BY <2>1 DEF Told, Inv, Owners
  <2>3. /\ Told(f) \subseteq Flags
        /\ "err" \in Told(f) \/ "hup" \in Told(f) =>
             "in" \in Told(f) /\ sock[owner[f]] \in Gone
    BY <2>2 DEF Told, Flags, Gone
  <2> QED
    BY <2>1, <2>2, <2>3, Descriptors DEF Events
<1>2. CASE backlog # << >> /\ e = [fd |-> Listener, flags |-> {"in"}]
  BY <1>2, Descriptors DEF Flags, Events
<1> QED
  BY <1>1, <1>2 DEF Ready

LEMMA ReadyOnce ==
    /\ IsFiniteSet(Ready)
    /\ \A d, e \in Ready : d.fd = e.fd => d = e
<1> DEFINE Told1 == {f \in Fds : Told(f) # {}}
           Fired == {[fd |-> fd, flags |-> Told(fd)] : fd \in Told1}
           event == [fd \in Told1 |-> [fd |-> fd, flags |-> Told(fd)]]
<1>1. IsFiniteSet(Told1)
  BY FdsAssumption, FS_Subset
<1>2. IsFiniteSet(Fired)
  <2>1. event \in Surjection(Told1, Fired)
    BY DEF Surjection
  <2> QED
    BY <1>1, <2>1, FS_Surjection
<1>3. IsFiniteSet({[fd |-> Listener, flags |-> {"in"}]})
  BY FS_Singleton
<1>4. IsFiniteSet(Ready)
  BY <1>2, <1>3, FS_Union, FS_EmptySet DEF Ready
<1>5. \A d, e \in Ready : d.fd = e.fd => d = e
  <2>1. \A e \in Ready : \/ e.fd \in Fds /\ e = [fd |-> e.fd, flags |-> Told(e.fd)]
                         \/ e = [fd |-> Listener, flags |-> {"in"}]
    BY DEF Ready
  <2>2. [fd |-> Listener, flags |-> {"in"}].fd = Listener
    OBVIOUS
  <2> QED
    BY <2>1, <2>2, Descriptors
<1> QED
  BY <1>4, <1>5

LEMMA WaitInv ==
    ASSUME Inv, waitEvents
    PROVE  Inv'
<1>1. pc = "wait" /\ fired = << >> /\ job = Idle /\ fdtoClose = << >>
      /\ UNCHANGED << Tables, clients, kernel, events, job, fate >>
  BY DEF waitEvents, Inv, Pending, Tables, kernel
<1>2. PICK n \in 1 .. Cardinality(Ready) :
         /\ n <= maxEvent
         /\ \E f \in [1 .. n -> Ready] :
              /\ \A i, j \in 1 .. n : f[i] = f[j] => i = j
              /\ fired' = f
  BY DEF waitEvents
<1>3. PICK f \in [1 .. n -> Ready] :
         (\A i, j \in 1 .. n : f[i] = f[j] => i = j) /\ fired' = f
  BY <1>2
<1>4. n \in Nat
  BY ReadyOnce, FS_CardinalityType
<1>5. fired' \in Seq(Events)
      /\ Len(fired') = n /\ DOMAIN fired' = 1 .. n
  <2>1. f \in [1 .. n -> Events]
    BY <1>3, ReadyEvents
  <2> QED
    BY <1>3, <1>4, <2>1, ArraysAreSequences
<1>6. TypeOK'
  BY <1>1, <1>5 DEF Inv, TypeOK, waitEvents, clients, kernel, events, Tables, Events
<1>7. Owners' /\ Entries' /\ Conserved'
  BY <1>1, SameTables, SameEntries
  DEF Inv, Owners, Conserved, Tables, clients, kernel, Served
<1>8. Pending'
  <2>1. \A i, j \in DOMAIN fired' : fired'[i].fd = fired'[j].fd => i = j
    BY <1>3, <1>5, ReadyOnce
  <2>2. Closed = {}
    BY <1>1 DEF Closed, Range
  <2>3. ASSUME NEW i \in DOMAIN fired'
        PROVE  /\ fired'[i].fd # job.fd
               /\ fired'[i].fd = Listener => backlog # << >> /\ fired'[i].flags = {"in"}
               /\ fired'[i].fd \in Fds =>
                    /\ owner[fired'[i].fd] # None
                    /\ fired'[i].flags \cap {"err", "hup"} # {} =>
                         "in" \in fired'[i].flags /\ sock[owner[fired'[i].fd]] \in Gone
    <3>1. fired'[i] \in Ready
      BY <1>3, <1>5
    <3> QED
      BY <1>1, <3>1, ReadyEvents, Descriptors DEF Idle
  <2> QED
    BY <1>1, <2>1, <2>2, <2>3, SameTables
    DEF Pending, waitEvents, Tables, clients, kernel
<1>9. Handling'
  BY <1>1, Descriptors DEF Handling, Idle
<1>10. Roomy' /\ ClosesOnce'
  BY <1>1, <1>2, <1>5, Lives DEF waitEvents, Inv, Roomy, Tables, events, clients, Up
<1> QED
  BY <1>6, <1>7, <1>8, <1>9, <1>10 DEF Inv

LEMMA InterruptedInv ==
    ASSUME Inv, interrupted
    PROVE  Inv'
<1>1. UNCHANGED << Tables, clients, kernel, events, round >>
  BY DEF interrupted, Tables, kernel, round
<1>2. TypeOK' /\ Owners' /\ Conserved'
  BY <1>1, SameTables
  DEF Inv, TypeOK, interrupted, clients, kernel, events, round, Tables, Owners,
      Conserved, Served
<1>3. Entries' /\ Pending' /\ Handling'
  BY <1>1, SameTables, SameEntries
  DEF Inv, Pending, Handling, clients, kernel, round, Tables
<1>4. Roomy' /\ ClosesOnce'
  BY <1>1, Lives DEF interrupted, Inv, Roomy, Tables, events, round, clients
<1> QED
  BY <1>2, <1>3, <1>4 DEF Inv

LEMMA Concats ==
    ASSUME NEW a, NEW b, NEW c
    PROVE  /\ << >> \o << a >> = << a >> /\ << a >> \o << >> = << a >>
           /\ << a, b >> \o << >> = << a, b >>
           /\ << a >> \o << b >> = << a, b >>
           /\ << a, b >> \o << c >> = << a, b, c >>
<1> DEFINE S == {a, b, c}
<1>1. /\ << a >> \in Seq(S) /\ << b >> \in Seq(S) /\ << c >> \in Seq(S)
      /\ << a, b >> \in Seq(S) /\ << a, b, c >> \in Seq(S)
  OBVIOUS
<1>2. /\ Len(<< a >>) = 1 /\ Len(<< b >>) = 1 /\ Len(<< c >>) = 1
      /\ Len(<< a, b >>) = 2 /\ Len(<< a, b, c >>) = 3
  OBVIOUS
<1> HIDE DEF S
<1>3. << a >> \o << b >> = << a, b >>
  <2>1. << a >> \o << b >> \in Seq(S) /\ Len(<< a >> \o << b >>) = 2
    BY <1>1, <1>2, ConcatProperties
  <2>2. \A i \in 1 .. 2 : (<< a >> \o << b >>)[i] = << a, b >>[i]
    BY <1>1, <1>2, ConcatProperties
  <2> QED
    BY <1>1, <1>2, <2>1, <2>2, SeqEqual
<1>4. << a, b >> \o << c >> = << a, b, c >>
  <2>1. << a, b >> \o << c >> \in Seq(S) /\ Len(<< a, b >> \o << c >>) = 3
    BY <1>1, <1>2, ConcatProperties
  <2>2. \A i \in 1 .. 3 : (<< a, b >> \o << c >>)[i] = << a, b, c >>[i]
    BY <1>1, <1>2, ConcatProperties
  <2> QED
    BY <1>1, <1>2, <2>1, <2>2, SeqEqual
<1> QED
  BY <1>1, <1>3, <1>4, ConcatEmptySeq

(* The handlers of an event: without a reset there is no close. *)
LEMMA HandlersOf ==
    ASSUME NEW flags \in SUBSET Flags,
           flags \cap {"err", "hup"} # {} => "in" \in flags
    PROVE  /\ handleEvent(flags) \in CallLists
           /\ handleEvent(flags) # << >> /\ Head(handleEvent(flags)) = "close" =>
                "err" \in flags
<1>1. CASE "err" \in flags
  <2>1. "in" \in flags
    BY <1>1
  <2>2. handleEvent(flags) = ((<< >> \o << "close" >>) \o << "read" >>)
                               \o (IF "out" \in flags THEN << "write" >> ELSE << >>)
    BY <1>1, <2>1 DEF handleEvent
  <2> QED
    BY <1>1, <2>2, Concats DEF CallLists
<1>2. CASE "err" \notin flags
  <2>1. ~ ("hup" \in flags /\ "in" \notin flags)
    OBVIOUS
  <2>2. handleEvent(flags) = ((<< >> \o << >>)
                                \o (IF "in" \in flags THEN << "read" >> ELSE << >>))
                               \o (IF "out" \in flags THEN << "write" >> ELSE << >>)
    BY <1>2, <2>1 DEF handleEvent
  <2>3. << >> \o << >> = << >>
    OBVIOUS
  <2>5. handleEvent(flags)
          \in {<< >>, << "read" >>, << "read", "write" >>, << "write" >>}
    BY <2>2, <2>3, Concats
  <2> QED
    BY <2>5 DEF CallLists
<1> QED
  BY <1>1, <1>2

LEMMA CallsTyped == CallLists \subseteq Seq(Calls)
BY DEF CallLists, Calls

LEMMA DispatchInv ==
    ASSUME Inv, dispatch
    PROVE  Inv'
<1> DEFINE e == Head(fired)
<1>1. /\ job = Idle /\ fired # << >> /\ pc = "round" /\ fired' = Tail(fired)
      /\ UNCHANGED << Tables, clients, kernel, events, pc, fdtoClose, fate >>
  BY DEF dispatch, Inv, Pending, Tables, kernel
<1>2. /\ 1 \in DOMAIN fired /\ e = fired[1]
      /\ e \in Events
  <2>1. fired \in Seq(Events)
    BY FiredTyped
  <2> QED
    BY <1>1, <2>1
<1>3. job' = IF e.fd = Listener THEN [fd |-> Listener, calls |-> << "accept" >>]
             ELSE IF connections[e.fd] = None THEN Idle
             ELSE [fd |-> e.fd, calls |-> handleEvent(e.flags)]
  BY DEF dispatch
<1>4. /\ fired' \in Seq(Events)
      /\ Len(fired') = Len(fired) - 1 /\ Len(fired) \in Nat
      /\ \A i \in DOMAIN fired' :
            i + 1 \in DOMAIN fired /\ fired'[i] = fired[i + 1] /\ i \in Nat /\ i > 0
  BY <1>1, FiredTyped, HeadTailProperties, LenProperties
<1>5. /\ e.fd = Listener => backlog # << >> /\ e.flags = {"in"}
      /\ e.fd \in Fds =>
           /\ owner[e.fd] # None /\ e.fd \notin Closed
           /\ e.flags \cap {"err", "hup"} # {} =>
                "in" \in e.flags /\ sock[owner[e.fd]] \in Gone
  BY <1>2 DEF Inv, Pending
<1> HIDE DEF e
<1>12. e.fd \in Fds \cup {Listener} /\ e.flags \subseteq Flags
  BY <1>2 DEF Events
<1>6. job' \in [fd : Fds \cup {Listener, Failed}, calls : Seq(Calls)]
      /\ job'.fd \in {e.fd, Failed}
  <2>1. << "accept" >> \in Seq(Calls) /\ << >> \in Seq(Calls)
    BY DEF Calls
  <2>2. e.fd \in Fds => handleEvent(e.flags) \in Seq(Calls)
    BY <1>5, <1>12, HandlersOf, CallsTyped
  <2> QED
    BY <1>3, <1>12, <2>1, <2>2 DEF Idle
<1>7. TypeOK'
  BY <1>1, <1>4, <1>6 DEF Inv, TypeOK, Events, clients, kernel, events, Tables
<1>8. Owners' /\ Entries' /\ Conserved'
  BY <1>1, SameTables, SameEntries
  DEF Inv, Owners, Conserved, Tables, clients, kernel, Served
<1>9. Pending'
  <2>1. \A i, j \in DOMAIN fired' : fired'[i].fd = fired'[j].fd => i = j
    BY <1>4 DEF Inv, Pending
  <2>2. ASSUME NEW i \in DOMAIN fired'
        PROVE  /\ fired'[i].fd # job'.fd
               /\ fired'[i].fd = Listener => backlog # << >> /\ fired'[i].flags = {"in"}
               /\ fired'[i].fd \in Fds =>
                    /\ owner[fired'[i].fd] # None /\ fired'[i].fd \notin Closed
                    /\ fired'[i].flags \cap {"err", "hup"} # {} =>
                         "in" \in fired'[i].flags /\ sock[owner[fired'[i].fd]] \in Gone
    <3>1. i + 1 \in DOMAIN fired /\ fired'[i] = fired[i + 1] /\ i + 1 # 1
      BY <1>4
    <3>2. fired'[i].fd # e.fd
      BY <1>2, <3>1 DEF Inv, Pending
    <3>3. fired'[i].fd \in Fds \cup {Listener}
      BY <3>1, FiredTyped
    <3> QED
      BY <1>6, <3>1, <3>2, <3>3, Descriptors DEF Inv, Pending
  <2> QED
    BY <1>1, <2>1, <2>2, SameTables DEF Pending, Tables, clients, kernel
<1>10. Handling'
  <2>1. CASE e.fd = Listener
    BY <1>1, <1>3, <1>5, <2>1, Descriptors DEF Handling, kernel
  <2>2. CASE job' = Idle
    BY <2>2, Descriptors DEF Handling, Idle
  <2>3. CASE e.fd \in Fds /\ connections[e.fd] # None
    <3>1. job' = [fd |-> e.fd, calls |-> handleEvent(e.flags)]
      BY <1>3, <2>3, Descriptors
    <3>2. /\ handleEvent(e.flags) \in CallLists
          /\ handleEvent(e.flags) # << >> /\ Head(handleEvent(e.flags)) = "close" =>
               "err" \in e.flags
      BY <1>5, <1>12, <2>3, HandlersOf
    <3>3. "err" \in e.flags => sock[owner[e.fd]] \in Gone
      BY <1>5, <2>3
    <3> QED
      BY <1>1, <1>5, <2>3, <3>1, <3>2, <3>3, SameTables, Descriptors
      DEF Handling, Tables, clients
  <2> QED
    BY <1>3, <1>12, <2>1, <2>2, <2>3
<1>11. Roomy' /\ ClosesOnce'
  <2>1. Len(fired') <= maxEvent
    BY <1>4 DEF Inv, Roomy, TypeOK
  <2> QED
    BY <1>1, <2>1, Lives DEF dispatch, Inv, Roomy, Tables, events, clients, Up
<1> QED
  BY <1>7, <1>8, <1>9, <1>10, <1>11 DEF Inv
-----------------------------------------------------------------------------
(* The listener's handler. *)
LEMMA LeastElement ==
    ASSUME NEW S, S \subseteq Nat, S # {}
    PROVE  \E x \in S : \A y \in S : x <= y
<1> DEFINE Less == {p \in Nat \X Nat : p[1] < p[2]}
<1>1. IsWellFoundedOn(Less, Nat)
  BY NatLessThanWellFounded DEF OpToRel
<1>2. PICK x \in S : \A y \in S : ~ (<< y, x >> \in Less)
  <2> HIDE DEF Less
  <2> QED
    BY <1>1, WFMin
<1>3. ASSUME NEW y \in S
      PROVE  x <= y
  <2>1. << y, x >> \in Nat \X Nat /\ x \in Nat /\ y \in Nat
    OBVIOUS
  <2>2. ~ (y < x)
    BY <1>2, <2>1
  <2> QED
    BY <2>1, <2>2
<1> QED
  BY <1>3

LEMMA LowestFree == Free # {} => Min(Free) \in Free
<1> SUFFICES ASSUME Free # {} PROVE Min(Free) \in Free
  OBVIOUS
<1>1. \E x \in Free : \A y \in Free : x <= y
  BY FdsAssumption, LeastElement DEF Free
<1> QED
  BY <1>1 DEF Min

LEMMA RoomAdded ==
    ASSUME Inv, addEvent
    PROVE  /\ maxEvent' \in 1 .. MaxEvents /\ capcity' \in Nat
           /\ maxEvent <= maxEvent' /\ maxEvent' <= capcity'
           /\ maxEvent' = maxEvent + 1 \/ maxEvent' = MaxEvents
<1>1. maxEvent \in 1 .. MaxEvents /\ capcity \in Nat /\ maxEvent <= capcity
      /\ MaxEvents \in Nat
  BY SizesAssumption DEF Inv, TypeOK, Roomy
<1> QED
  BY <1>1 DEF addEvent

LEMMA WatchedFinite ==
    /\ IsFiniteSet({f \in Fds : interest[f] # {}})
    /\ Cardinality({f \in Fds : interest[f] # {}}) \in Nat
    /\ Cardinality(Fds) \in Nat
    /\ Cardinality({f \in Fds : interest[f] # {}}) <= Cardinality(Fds)
<1>1. {f \in Fds : interest[f] # {}} \subseteq Fds
  OBVIOUS
<1> QED
  BY <1>1, FdsAssumption, FS_Subset, FS_CardinalityType

LEMMA IdleTyped == Idle \in [fd : Fds \cup {Listener, Failed}, calls : Seq(Calls)]
BY DEF Idle

LEMMA AcceptJob ==
    ASSUME Inv, newConnectionHandle
    PROVE  /\ job.fd = Listener /\ backlog # << >> /\ job' = Idle /\ pc # "wait"
           /\ Finished = Idle
<1>1. job.calls # << >> /\ Head(job.calls) = "accept"
  BY DEF newConnectionHandle, Now
<1>2. << "accept" >> \notin CallLists /\ Len(<< "accept" >>) = 1
  BY DEF CallLists
<1>3. \A l \in CallLists : l # << >> => Head(l) # "accept"
  BY DEF CallLists
<1>4. job.fd = Listener
  BY <1>1, <1>3 DEF Inv, Handling, TypeOK
<1>5. job.calls = << "accept" >> /\ backlog # << >>
  BY <1>4 DEF Inv, Handling
<1>6. Finished = Idle
  BY <1>2, <1>5 DEF Finished
<1>7. pc # "wait"
  BY <1>4, Descriptors DEF Inv, Pending, Idle
<1> QED
  BY <1>4, <1>5, <1>6, <1>7 DEF newConnectionHandle

(* Without a descriptor the tables get an entry under -1. *)
LEMMA AcceptFailsInv ==
    ASSUME Inv, newConnectionHandle, Free = {}
    PROVE  Inv'
<1>1. /\ connections' = Inserted(Failed, None) /\ addEvent /\ job' = Idle /\ pc # "wait"
      /\ job.fd = Listener
      /\ UNCHANGED << kernel, lost, clients, pc, fired, fdtoClose, fate >>
  BY AcceptJob DEF newConnectionHandle
<1>2. \A f \in Fds : connections'[f] = connections[f]
  BY <1>1, Descriptors DEF Inserted, Inv, TypeOK
<1>3. /\ Closed' = Closed
      /\ \A f \in Fds : \A c : Serves(f, c)' <=> Serves(f, c)
      /\ \A c : Served(c)' <=> Served(c)
  BY <1>1, <1>2 DEF Closed, Range, Serves, Served, kernel
<1>4. connections' \in [Fds \cup {Failed} ->
                          [conn : Conns \cup {None}, out : Nat] \cup {None}]
  BY <1>1 DEF Inserted, Inv, TypeOK
<1>5. TypeOK'
  BY <1>1, <1>4, RoomAdded, IdleTyped DEF Inv, TypeOK, clients, kernel
<1>6. Owners' /\ Conserved'
  BY <1>1, <1>2, <1>3 DEF Inv, Owners, Conserved, clients, kernel
<1>7. Entries'
  BY <1>1, <1>2, <1>3 DEF Inv, Entries, kernel
<1>8. Pending'
  <2>1. \A i \in DOMAIN fired : fired[i].fd # Failed
    BY FiredTyped, Descriptors
  <2> QED
    BY <1>1, <1>3, <2>1 DEF Inv, Pending, Idle, clients, kernel
<1>9. Handling'
  BY <1>1, Descriptors DEF Handling, Idle
<1>10. Roomy' /\ ClosesOnce'
  <2>1. Cardinality({f \in Fds : interest[f] # {}}) < maxEvent'
        /\ Len(fired) <= maxEvent'
    BY <1>1, RoomAdded, WatchedFinite, SizesAssumption, FiredTyped
    DEF Inv, Roomy, TypeOK
  <2> QED
    BY <1>1, <2>1, RoomAdded, Lives
    DEF newConnectionHandle, Now, Up, Inv, Roomy, kernel, clients
<1> QED
  BY <1>5, <1>6, <1>7, <1>8, <1>9, <1>10 DEF Inv

LEMMA AcceptInv ==
    ASSUME Inv, newConnectionHandle, Free # {}
    PROVE  Inv'
<1>1. PICK fd \in Fds : fd = Min(Free) /\ owner[fd] = None
  BY LowestFree DEF Free
<1>3. /\ backlog \in Seq(Conns) /\ backlog # << >> /\ Len(backlog) \in Nat
      /\ 1 \in DOMAIN backlog
      /\ \E c \in Conns : c = Head(backlog) /\ c = backlog[1]
  BY AcceptJob DEF Inv, TypeOK
<1>19. PICK c \in Conns : c = Head(backlog) /\ c = backlog[1]
  BY <1>3
<1>2. /\ owner' = [owner EXCEPT ![fd] = c]
      /\ interest' = [interest EXCEPT ![fd] = {"in"}]
      /\ backlog' = Tail(backlog)
      /\ connections' = Inserted(fd, c)
      /\ lost' = IF connections[fd] = None THEN lost ELSE lost \cup {c}
      /\ addEvent /\ job' = Idle /\ pc # "wait" /\ job.fd = Listener
      /\ UNCHANGED << clients, pc, fired, fdtoClose, fate >>
  BY <1>1, <1>19, AcceptJob DEF newConnectionHandle
<1>4. /\ Tail(backlog) \in Seq(Conns)
      /\ \A i \in DOMAIN Tail(backlog) :
           /\ i + 1 \in DOMAIN backlog /\ i + 1 # 1
           /\ Tail(backlog)[i] = backlog[i + 1] /\ i \in Nat
  BY <1>3, HeadTailProperties, LenProperties
<1>5. \A f \in Fds : owner[f] # c
  BY <1>3, <1>19 DEF Inv, Owners
<1>6. /\ owner'[fd] = c /\ interest'[fd] = {"in"}
      /\ \A f \in Fds : f # fd => owner'[f] = owner[f] /\ interest'[f] = interest[f]
      /\ owner' \in [Fds -> Conns \cup {None}]
      /\ interest' \in [Fds -> SUBSET {"in", "out"}]
  BY <1>1, <1>2, <1>3 DEF Inv, TypeOK
<1>7. /\ \A f \in Fds : f # fd => connections'[f] = connections[f]
      /\ connections[fd] # None => connections'[fd] = connections[fd]
      /\ connections[fd] = None => connections'[fd] = [conn |-> c, out |-> 0]
      /\ connections' \in [Fds \cup {Failed} ->
                             [conn : Conns \cup {None}, out : Nat] \cup {None}]
  BY <1>1, <1>2, <1>3 DEF Inserted, Inv, TypeOK
<1>8. Closed' = Closed /\ (connections[fd] # None <=> fd \in Closed)
  BY <1>1, <1>2, Descriptors DEF Closed, Range, Inv, Entries
<1>9. connections'[fd] # None
  BY <1>3, <1>7, NoneAssumption
<1>10. /\ \A f \in Fds : \A d : f # fd => (Serves(f, d)' <=> Serves(f, d))
       /\ \A d \in Conns : ~ Serves(fd, d)
       /\ \A d \in Conns : d # c => ~ Serves(fd, d)'
       /\ fd \notin Closed => Serves(fd, c)'
  <2>1. \A f \in Fds : \A d : f # fd => (Serves(f, d)' <=> Serves(f, d))
    BY <1>6, <1>7, <1>8 DEF Serves, Closed
  <2>2. \A d \in Conns : ~ Serves(fd, d)
    BY <1>1, Descriptors DEF Serves
  <2>3. \A d \in Conns : d # c => ~ Serves(fd, d)'
    BY <1>6 DEF Serves
  <2>4. fd \notin Closed => Serves(fd, c)'
    BY <1>6, <1>7, <1>8, <1>9 DEF Serves, Closed
  <2> QED
    BY <2>1, <2>2, <2>3, <2>4
<1>11. \A d \in Conns : d # c => (Served(d)' <=> Served(d))
  BY <1>1, <1>10 DEF Served
<1>12. TypeOK'
  BY <1>2, <1>3, <1>4, <1>6, <1>7, RoomAdded, IdleTyped DEF Inv, TypeOK, clients
<1>13. Owners'
  <2>1. \A f, g \in Fds : owner'[f] # None /\ owner'[f] = owner'[g] => f = g
    BY <1>5, <1>6 DEF Inv, Owners
  <2>2. \A i, j \in DOMAIN backlog' : backlog'[i] = backlog'[j] => i = j
    BY <1>2, <1>4 DEF Inv, Owners
  <2>3. ASSUME NEW i \in DOMAIN backlog'
        PROVE  sock[backlog'[i]] # "new" /\ \A f \in Fds : owner'[f] # backlog'[i]
    <3>1. backlog'[i] = backlog[i + 1] /\ i + 1 \in DOMAIN backlog /\ i + 1 # 1
      BY <1>2, <1>4
    <3>2. backlog'[i] # c
      BY <1>3, <1>19, <3>1 DEF Inv, Owners
    <3> QED
      BY <1>6, <3>1, <3>2 DEF Inv, Owners
  <2>4. \A f \in Fds : owner'[f] # None => sock[owner'[f]] # "new"
    BY <1>3, <1>19, <1>6 DEF Inv, Owners
  <2>5. \A f \in Fds : IF owner'[f] = None THEN interest'[f] = {}
                        ELSE "in" \in interest'[f]
    BY <1>3, <1>6, Descriptors DEF Inv, Owners
  <2> QED
    BY <1>2, <2>1, <2>2, <2>3, <2>4, <2>5 DEF Owners, clients
<1>14. Entries'
  <2> SUFFICES ASSUME NEW f \in Fds
               PROVE  /\ connections'[f] # None =>
                           /\ connections'[f].conn \in Conns
                           /\ f \notin Closed =>
                                /\ owner'[f] = connections'[f].conn
                                /\ "out" \in interest'[f] <=> connections'[f].out > 0
                      /\ f \in Closed => connections'[f] # None
                      /\ (owner[f] # None => Serves(f, owner[f]) \/ owner[f] \in lost)'
    BY <1>8 DEF Entries
  <2>1. CASE f # fd
    <3>1. owner[f] # None => Serves(f, owner[f]) \/ owner[f] \in lost
      BY DEF Inv, Entries
    <3>2. lost \subseteq lost'
      BY <1>2
    <3>3. (owner[f] # None => Serves(f, owner[f]) \/ owner[f] \in lost)'
      BY <1>6, <1>7, <1>8, <2>1, <3>1, <3>2 DEF Serves, Closed
    <3> QED
      BY <1>6, <1>7, <2>1, <3>3 DEF Inv, Entries
  <2>2. CASE f = fd
    <3>1. CASE connections[fd] = None
      <4>1. connections'[fd].conn = c /\ connections'[fd].out = 0 /\ fd \notin Closed
        BY <1>7, <1>8, <3>1
      <4> QED
        BY <1>3, <1>6, <1>7, <1>8, <1>9, <2>2, <4>1 DEF Serves, Closed
    <3>2. CASE connections[fd] # None
      <4>1. connections'[fd] = connections[fd] /\ fd \in Closed /\ c \in lost'
        BY <1>2, <1>7, <1>8, <3>2
      <4> QED
        BY <1>6, <2>2, <3>2, <4>1 DEF Inv, Entries
    <3> QED
      BY <3>1, <3>2
  <2> QED
    BY <2>1, <2>2
<1>15. Pending'
  <2>1. ASSUME NEW i \in DOMAIN fired
        PROVE  /\ fired[i].fd # Failed /\ fired[i].fd # Listener
               /\ fired[i].fd \in Fds => owner'[fired[i].fd] = owner[fired[i].fd]
    <3>1. fired[i].fd # Failed /\ fired[i].fd # Listener
      BY <1>2, FiredTyped, Descriptors DEF Inv, Pending
    <3>2. fired[i].fd \in Fds => owner[fired[i].fd] # None
      BY DEF Inv, Pending
    <3> QED
      BY <1>1, <1>6, <3>1, <3>2
  <2> QED
    BY <1>2, <1>8, <2>1 DEF Inv, Pending, Idle, clients
<1>16. Handling'
  BY <1>2, Descriptors DEF Handling, Idle
<1>17. Conserved'
  <2>1. ASSUME NEW d \in Conns, d # c
        PROVE  /\ sock[d] \in {"new", "open"} /\ ~Served(d)' => due[d] = 0 /\ outbox[d] = 0
               /\ sock[d] = "open" => \A f \in Fds : Serves(f, d)' =>
                                        due[d] = outbox[d] + connections'[f].out
    BY <1>7, <1>10, <1>11, <2>1 DEF Inv, Conserved
  <2>2. ~ Served(c)
    BY <1>5 DEF Served, Serves
  <2>3. sock[c] = "open" => due[c] = 0 /\ outbox[c] = 0
    BY <1>3, <2>2 DEF Inv, Conserved
  <2>4. \A f \in Fds : Serves(f, c)' => f = fd /\ connections'[f].out = 0
    <3>1. \A f \in Fds : Serves(f, c)' => f = fd
      BY <1>5, <1>10 DEF Serves
    <3>2. Serves(fd, c)' => fd \notin Closed
      BY <1>8 DEF Serves, Closed
    <3> QED
      BY <1>7, <1>8, <3>1, <3>2
  <2>5. sock[c] # "new"
    BY <1>3, <1>19 DEF Inv, Owners
  <2> QED
    BY <1>2, <1>3, <2>1, <2>3, <2>4, <2>5 DEF Inv, Conserved, clients
<1>18. Roomy' /\ ClosesOnce'
  <2> DEFINE W == {f \in Fds : interest[f] # {}}
             X == {f \in Fds : interest'[f] # {}}
  <2>1. X = W \cup {fd}
    BY <1>1, <1>6
  <2>2. IsFiniteSet(W) /\ Cardinality(W) \in Nat
    BY WatchedFinite
  <2>4. X \subseteq Fds
    OBVIOUS
  <2>3. Cardinality(X) <= Cardinality(W) + 1 /\ Cardinality(X) \in Nat
    <3> HIDE DEF W, X
    <3>1. Cardinality(X) = IF fd \in W THEN Cardinality(W) ELSE Cardinality(W) + 1
      BY <2>1, <2>2, FS_AddElement
    <3> QED
      BY <2>2, <3>1
  <2>5. Cardinality(X) <= Cardinality(Fds) /\ Cardinality(Fds) \in Nat
    BY <2>4, FdsAssumption, FS_Subset, FS_CardinalityType
  <2>6. Cardinality(W) < maxEvent /\ maxEvent \in Nat
    BY DEF Inv, Roomy, TypeOK
  <2> HIDE DEF W, X
  <2>7. Cardinality(X) < maxEvent'
    BY <2>2, <2>3, <2>5, <2>6, RoomAdded, <1>2, SizesAssumption
  <2>8. Len(fired) <= maxEvent'
    BY <1>2, <2>6, RoomAdded, FiredTyped, SizesAssumption DEF Inv, Roomy
  <2> QED
    BY <1>2, <2>7, <2>8, RoomAdded, Lives
    DEF newConnectionHandle, Now, Up, Inv, Roomy, clients, X
<1> QED
  BY <1>12, <1>13, <1>14, <1>15, <1>16, <1>17, <1>18 DEF Inv
-----------------------------------------------------------------------------
(* The handlers of a connection.  What is left to an event after one. *)
JobAfter(call, j) ==
    /\ j \in [fd : Fds \cup {Listener, Failed}, calls : Seq(Calls)]
    /\ j.fd \in {job.fd, Failed}
    /\ j.fd = Failed => j.calls = << >>
    /\ j.fd # Failed =>
         /\ j.calls \in CallLists
         /\ j.calls # << >> => Head(j.calls) # "close"
         /\ j.calls # << >> /\ Head(j.calls) = "read" => call = "close"

LEMMA Tails ==
    ASSUME NEW l \in CallLists, l # << >>
    PROVE  /\ Len(l) = 1 \/ Tail(l) \in CallLists \ {<< >>}
           /\ Len(l) # 1 => Head(Tail(l)) \in {"read", "write"}
           /\ Len(l) # 1 /\ Head(Tail(l)) = "read" => Head(l) = "close"
           /\ Head(l) \in {"write", "push"} => Tail(l) = << >>
<1>1. ASSUME NEW a, l = << a >>
      PROVE  Len(l) = 1 /\ Tail(l) = << >> /\ Head(l) = a
  BY <1>1
<1>2. ASSUME NEW a, NEW b, l = << a, b >>
      PROVE  Len(l) = 2 /\ Tail(l) = << b >> /\ Head(l) = a
  BY <1>2
<1>3. ASSUME NEW a, NEW b, NEW c, l = << a, b, c >>
      PROVE  Len(l) = 3 /\ Tail(l) = << b, c >> /\ Head(l) = a
  BY <1>3
<1>4. /\ Head(<< "read" >>) = "read" /\ Head(<< "write" >>) = "write"
      /\ Head(<< "read", "write" >>) = "read"
      /\ << "read" >> # << >> /\ << "write" >> # << >> /\ << "read", "write" >> # << >>
  OBVIOUS
<1>5. /\ << "read" >> \in CallLists /\ << "write" >> \in CallLists
      /\ << "read", "write" >> \in CallLists
  BY DEF CallLists
<1>6. CASE l \in {<< "read" >>, << "write" >>, << "push" >>}
  BY <1>1, <1>6
<1>7. CASE l \in {<< "close", "read" >>, << "read", "write" >>}
  <2>1. CASE l = << "close", "read" >>
    <3>1. Len(l) = 2 /\ Tail(l) = << "read" >> /\ Head(l) = "close"
      BY <1>2, <2>1
    <3> QED
      BY <1>4, <1>5, <3>1
  <2>2. CASE l = << "read", "write" >>
    <3>1. Len(l) = 2 /\ Tail(l) = << "write" >> /\ Head(l) = "read"
      BY <1>2, <2>2
    <3> QED
      BY <1>4, <1>5, <3>1
  <2> QED
    BY <1>7, <2>1, <2>2
<1>8. CASE l = << "close", "read", "write" >>
  BY <1>3, <1>4, <1>5, <1>8
<1> QED
  BY <1>6, <1>7, <1>8 DEF CallLists

LEMMA HandlerJob ==
    ASSUME NEW call \in {"close", "read", "write", "push"}, Inv, Now(call)
    PROVE  /\ job.fd \in Fds /\ pc # "wait" /\ connections[job.fd] # None
           /\ job.calls \in CallLists /\ job.calls # << >> /\ Head(job.calls) = call
           /\ JobAfter(call, Finished)
           /\ call \in {"write", "push"} =>
                JobAfter(call, [job EXCEPT !.calls = << "push" >> \o Tail(@)])
<1>1. /\ job \in [fd : Fds \cup {Listener, Failed}, calls : Seq(Calls)]
      /\ job.calls # << >> /\ Head(job.calls) = call
  BY DEF Inv, TypeOK, Now
<1>2. Head(<< "accept" >>) # call
  OBVIOUS
<1>3. job.fd \in Fds
  BY <1>1, <1>2 DEF Inv, Handling
<1>4. job.calls \in CallLists /\ connections[job.fd] # None
  BY <1>3 DEF Inv, Handling
<1>5. pc # "wait"
  BY <1>3, Descriptors DEF Inv, Pending, Idle
<1>6. JobAfter(call, Idle)
  BY IdleTyped DEF JobAfter, Idle
<1>7. ASSUME NEW l \in CallLists, l # << >> => Head(l) # "close",
             l # << >> /\ Head(l) = "read" => call = "close"
      PROVE  JobAfter(call, [job EXCEPT !.calls = l])
  <2>1. /\ [job EXCEPT !.calls = l].fd = job.fd
        /\ [job EXCEPT !.calls = l].calls = l
        /\ [job EXCEPT !.calls = l] = [fd |-> job.fd, calls |-> l]
    BY <1>1
  <2>2. l \in Seq(Calls)
    BY CallsTyped
  <2> QED
    BY <1>3, <1>7, <2>1, <2>2, Descriptors DEF JobAfter
<1>8. JobAfter(call, Finished)
  <2>1. CASE Len(job.calls) = 1
    BY <1>6, <2>1 DEF Finished
  <2>2. CASE Len(job.calls) # 1
    <3>1. Finished = [job EXCEPT !.calls = Tail(job.calls)]
      BY <1>1, <2>2 DEF Finished
    <3> QED
      BY <1>1, <1>4, <1>7, <2>2, <3>1, Tails
  <2> QED
    BY <2>1, <2>2
<1>9. ASSUME call \in {"write", "push"}
      PROVE  JobAfter(call, [job EXCEPT !.calls = << "push" >> \o Tail(@)])
  <2>1. Tail(job.calls) = << >>
    BY <1>1, <1>4, <1>9, Tails
  <2>2. << "push" >> \o << >> = << "push" >>
    BY Concats
  <2>3. << "push" >> \in CallLists /\ Head(<< "push" >>) = "push"
    BY DEF CallLists
  <2>4. [job EXCEPT !.calls = << "push" >> \o Tail(@)]
          = [job EXCEPT !.calls = << "push" >>]
    BY <1>1, <2>1, <2>2
  <2> QED
    BY <1>7, <2>3, <2>4
<1> QED
  BY <1>1, <1>3, <1>4, <1>5, <1>8, <1>9

(* The handlers that run on a closed descriptor come after a reset. *)
LEMMA HandlingAfter ==
    ASSUME NEW call \in {"close", "read", "write", "push"}, Inv, Now(call),
           JobAfter(call, job'), connections'[job.fd] # None, UNCHANGED sock,
           connections'[job.fd].conn = connections[job.fd].conn,
           owner'[job.fd] = None <=> job.fd \in Closed'
    PROVE  Handling'
<1>1. job.fd \in Fds /\ Head(job.calls) = call /\ job.calls # << >>
  BY HandlerJob
<1>2. call = "close" => sock[connections[job.fd].conn] \in Gone
  BY <1>1 DEF Inv, Handling, Entries
<1>3. CASE job'.fd = Failed
  BY <1>3, Descriptors DEF Handling, JobAfter
<1>4. CASE job'.fd # Failed
  <2>1. job'.fd = job.fd
    BY <1>4 DEF JobAfter
  <2>2. /\ job'.calls \in CallLists
        /\ job'.calls # << >> => Head(job'.calls) # "close"
        /\ job'.calls # << >> /\ Head(job'.calls) = "read" => call = "close"
    BY <1>4 DEF JobAfter
  <2>3. /\ job'.fd \in Fds /\ job'.fd # Failed /\ job'.fd # Listener
        /\ connections'[job'.fd] # None
        /\ owner'[job'.fd] = None <=> job'.fd \in Closed'
    BY <1>1, <2>1, Descriptors
  <2>4. job'.calls # << >> /\ Head(job'.calls) = "read" =>
          sock'[connections'[job'.fd].conn] \in Gone
    BY <1>2, <2>1, <2>2
  <2> QED
    BY <2>2, <2>3, <2>4 DEF Handling
<1> QED
  BY <1>3, <1>4

(* notifyClose, called by the close handler or at the end of the stream. *)
LEMMA Closes ==
    ASSUME NEW call \in {"close", "read"}, Inv, Now(call), JobAfter(call, job'),
           owner[job.fd] # None, sock[owner[job.fd]] \notin {"new", "open"},
           notifyClose(job.fd),
           UNCHANGED << clients, backlog, connections, events, pc, fired, fate, lost >>
    PROVE  Inv'
<1>1. PICK fd \in Fds : fd = job.fd
  BY HandlerJob
<1>2. PICK c \in Conns : c = owner[fd]
  BY <1>1 DEF Inv, TypeOK
<1>3. /\ fdtoClose' = Append(fdtoClose, fd)
      /\ owner' = [owner EXCEPT ![fd] = None]
      /\ interest' = [interest EXCEPT ![fd] = {}]
      /\ pc # "wait" /\ connections[fd] # None
  BY <1>1, HandlerJob DEF notifyClose
<1>4. /\ fdtoClose \in Seq(Fds) /\ fdtoClose' \in Seq(Fds)
      /\ Len(fdtoClose) \in Nat /\ DOMAIN fdtoClose = 1 .. Len(fdtoClose)
      /\ DOMAIN fdtoClose' = 1 .. (Len(fdtoClose) + 1)
      /\ \A i \in DOMAIN fdtoClose : fdtoClose'[i] = fdtoClose[i]
      /\ fdtoClose'[Len(fdtoClose) + 1] = fd
  BY <1>3 DEF Inv, TypeOK
<1>5. /\ owner'[fd] = None /\ interest'[fd] = {}
      /\ \A f \in Fds : f # fd => owner'[f] = owner[f] /\ interest'[f] = interest[f]
      /\ owner' \in [Fds -> Conns \cup {None}]
      /\ interest' \in [Fds -> SUBSET {"in", "out"}]
  BY <1>3 DEF Inv, TypeOK
<1>6. Closed' = Closed \cup {fd}
  BY <1>4 DEF Closed, Range
<1>7. fd \notin Closed
  BY <1>1 DEF Inv, Handling
<1>8. /\ \A f \in Fds : \A d : f # fd => (Serves(f, d)' <=> Serves(f, d))
      /\ \A d \in Conns : ~ Serves(fd, d)'
      /\ \A d \in Conns : d # c => ~ Serves(fd, d)
  <2>1. \A f \in Fds : \A d : f # fd => (Serves(f, d)' <=> Serves(f, d))
    BY <1>5, <1>6 DEF Serves, Closed
  <2>2. \A d \in Conns : ~ Serves(fd, d)'
    BY <1>5, Descriptors DEF Serves
  <2>3. \A d \in Conns : d # c => ~ Serves(fd, d)
    BY <1>2 DEF Serves
  <2> QED
    BY <2>1, <2>2, <2>3
<1>9. job' \in [fd : Fds \cup {Listener, Failed}, calls : Seq(Calls)]
      /\ job'.fd \in {fd, Failed}
  BY <1>1 DEF JobAfter
<1>10. TypeOK'
  BY <1>4, <1>5, <1>9 DEF Inv, TypeOK, clients, events
<1>11. Owners'
  <2>1. \A f, g \in Fds : owner'[f] # None /\ owner'[f] = owner'[g] => f = g
    BY <1>5 DEF Inv, Owners
  <2>2. \A i \in DOMAIN backlog :
          backlog[i] \in Conns /\ sock[backlog[i]] # "new"
          /\ \A f \in Fds : owner'[f] # backlog[i]
    BY <1>5, Descriptors DEF Inv, Owners, TypeOK
  <2>3. \A f \in Fds : owner'[f] # None => sock[owner'[f]] # "new"
    BY <1>5 DEF Inv, Owners
  <2>4. \A f \in Fds : IF owner'[f] = None THEN interest'[f] = {}
                        ELSE "in" \in interest'[f]
    BY <1>5 DEF Inv, Owners
  <2> QED
    BY <2>1, <2>2, <2>3, <2>4 DEF Inv, Owners, clients
<1>12. Entries'
  <2> SUFFICES ASSUME NEW f \in Fds
               PROVE  (/\ connections[f] # None =>
                            /\ connections[f].conn \in Conns
                            /\ f \notin Closed =>
                                 /\ owner[f] = connections[f].conn
                                 /\ "out" \in interest[f] <=> connections[f].out > 0
                       /\ f \in Closed => connections[f] # None
                       /\ owner[f] # None => Serves(f, owner[f]) \/ owner[f] \in lost)'
    BY DEF Entries
  <2>1. CASE f = fd
    BY <1>3, <1>5, <1>6, <2>1 DEF Inv, Entries
  <2>2. CASE f # fd
    <3>1. owner'[f] = owner[f] /\ interest'[f] = interest[f] /\ (f \in Closed' <=> f \in Closed)
      BY <1>5, <1>6, <2>2
    <3>2. (owner[f] # None => Serves(f, owner[f]) \/ owner[f] \in lost)'
      BY <1>8, <2>2, <3>1 DEF Inv, Entries
    <3> QED
      BY <3>1, <3>2 DEF Inv, Entries
  <2> QED
    BY <2>1, <2>2
<1>13. Pending'
  <2>1. ASSUME NEW i \in DOMAIN fired
        PROVE  /\ fired[i].fd # Failed /\ fired[i].fd # fd
               /\ fired[i].fd \in Fds =>
                    owner'[fired[i].fd] = owner[fired[i].fd]
                    /\ (fired[i].fd \in Closed' <=> fired[i].fd \in Closed)
    <3>1. fired[i].fd # Failed /\ fired[i].fd # fd
      BY <1>1, FiredTyped, Descriptors DEF Inv, Pending
    <3> QED
      BY <1>5, <1>6, <3>1
  <2> QED
    BY <1>3, <1>9, <2>1 DEF Inv, Pending, clients
<1>14. Handling'
  <2>1. connections'[job.fd] # None /\ owner'[job.fd] = None /\ job.fd \in Closed'
    BY <1>1, <1>3, <1>5, <1>6
  <2> QED
    BY <2>1, HandlingAfter DEF clients
<1>15. Conserved'
  <2>1. ASSUME NEW d \in Conns, sock[d] \in {"new", "open"}
        PROVE  /\ \A f \in Fds : Serves(f, d)' <=> Serves(f, d)
               /\ Served(d)' <=> Served(d)
    <3>1. d # c
      BY <1>1, <1>2, <2>1
    <3>2. \A f \in Fds : Serves(f, d)' <=> Serves(f, d)
      BY <1>8, <3>1
    <3> QED
      BY <3>2 DEF Served
  <2> QED
    BY <2>1 DEF Inv, Conserved, clients
<1>16. Roomy'
  <2>1. {f \in Fds : interest'[f] # {}} \subseteq {f \in Fds : interest[f] # {}}
    BY <1>5
  <2>2. /\ Cardinality({f \in Fds : interest'[f] # {}}) \in Nat
        /\ Cardinality({f \in Fds : interest'[f] # {}})
             <= Cardinality({f \in Fds : interest[f] # {}})
    BY <2>1, WatchedFinite, FS_Subset, FS_CardinalityType
  <2> QED
    BY <2>2, WatchedFinite DEF Inv, Roomy, TypeOK, events
<1>17. ClosesOnce'
  <2>1. \A i \in DOMAIN fdtoClose : fdtoClose[i] # fd
    BY <1>7 DEF Closed, Range
  <2>2. \A i, j \in DOMAIN fdtoClose' : fdtoClose'[i] = fdtoClose'[j] => i = j
    BY <1>4, <2>1 DEF Inv, ClosesOnce
  <2> QED
    BY <2>2 DEF ClosesOnce, Now, Up
<1> QED
  BY <1>10, <1>11, <1>12, <1>13, <1>14, <1>15, <1>16, <1>17 DEF Inv

LEMMA CloseInv ==
    ASSUME Inv, closeConnection
    PROVE  Inv'
<1>1. Now("close") /\ notifyClose(job.fd) /\ job' = Finished
      /\ UNCHANGED << clients, backlog, connections, events, pc, fired, fate, lost >>
  BY DEF closeConnection
<1>2. JobAfter("close", job') /\ job.fd \in Fds /\ job.calls # << >>
      /\ Head(job.calls) = "close"
  BY <1>1, HandlerJob
<1>3. owner[job.fd] # None /\ sock[owner[job.fd]] \in Gone
  BY <1>2 DEF Inv, Handling
<1> QED
  BY <1>1, <1>2, <1>3, Closes DEF Gone

(* A handler that changes one entry and what epoll watches its descriptor    *)
(* for leaves the rest as it is.                                             *)
LEMMA SameServes ==
    ASSUME NEW fd \in Fds, connections \in [Fds \cup {Failed} ->
                          [conn : Conns \cup {None}, out : Nat] \cup {None}],
           UNCHANGED << owner, fdtoClose >>,
           \A f \in Fds : f # fd => connections'[f] = connections[f],
           connections[fd] # None, connections'[fd] # None,
           connections'[fd].conn = connections[fd].conn
    PROVE  /\ Closed' = Closed
           /\ \A f \in Fds : \A d : Serves(f, d)' <=> Serves(f, d)
           /\ \A d : Served(d)' <=> Served(d)
<1>1. Closed' = Closed
  BY DEF Closed, Range
<1>2. ASSUME NEW f \in Fds, NEW d
      PROVE  Serves(f, d)' <=> Serves(f, d)
  BY <1>1 DEF Serves, Closed
<1> QED
  BY <1>1, <1>2 DEF Served

LEMMA Handles ==
    ASSUME NEW call \in {"read", "write", "push"}, Inv, Now(call), JobAfter(call, job'),
           UNCHANGED << sock, asks, backlog, owner, events, pc, fired, fdtoClose,
                        fate, lost >>,
           inbox' \in [Conns -> Nat], due' \in [Conns -> Nat], outbox' \in [Conns -> Nat],
           connections' \in [Fds \cup {Failed} ->
                               [conn : Conns \cup {None}, out : Nat] \cup {None}],
           interest' \in [Fds -> SUBSET {"in", "out"}],
           \A f \in Fds : f # job.fd =>
              connections'[f] = connections[f] /\ interest'[f] = interest[f],
           connections'[job.fd] # None,
           connections'[job.fd].conn = connections[job.fd].conn,
           owner[job.fd] = None => interest'[job.fd] = {},
           owner[job.fd] # None =>
              /\ "in" \in interest'[job.fd]
              /\ "out" \in interest'[job.fd] <=> connections'[job.fd].out > 0,
           Conserved'
    PROVE  Inv'
<1>1. PICK fd \in Fds : fd = job.fd
  BY HandlerJob
<1>2. connections[fd] # None /\ pc # "wait"
  BY <1>1, HandlerJob
<1>3. /\ Closed' = Closed
      /\ \A f \in Fds : \A d : Serves(f, d)' <=> Serves(f, d)
      /\ \A d : Served(d)' <=> Served(d)
  BY <1>1, <1>2, SameServes DEF Inv, TypeOK
<1>4. owner[fd] = None <=> fd \in Closed
  BY <1>1 DEF Inv, Handling
<1>5. job' \in [fd : Fds \cup {Listener, Failed}, calls : Seq(Calls)]
      /\ job'.fd \in {fd, Failed}
  BY <1>1 DEF JobAfter
<1>6. TypeOK'
  BY <1>5 DEF Inv, TypeOK, events
<1>7. Owners'
  BY <1>1 DEF Inv, Owners
<1>8. Entries'
  <2> SUFFICES ASSUME NEW f \in Fds
               PROVE  (/\ connections[f] # None =>
                            /\ connections[f].conn \in Conns
                            /\ f \notin Closed =>
                                 /\ owner[f] = connections[f].conn
                                 /\ "out" \in interest[f] <=> connections[f].out > 0
                       /\ f \in Closed => connections[f] # None
                       /\ owner[f] # None => Serves(f, owner[f]) \/ owner[f] \in lost)'
    BY DEF Entries
  <2>1. (owner[f] # None => Serves(f, owner[f]) \/ owner[f] \in lost)'
    BY <1>3 DEF Inv, Entries
  <2>2. CASE f = fd
    BY <1>1, <1>2, <1>3, <1>4, <2>1, <2>2 DEF Inv, Entries
  <2>3. CASE f # fd
    BY <1>1, <1>3, <2>1, <2>3 DEF Inv, Entries
  <2> QED
    BY <2>2, <2>3
<1>9. Pending'
  <2>1. \A i \in DOMAIN fired : fired[i].fd # Failed /\ fired[i].fd # fd
    BY <1>1, FiredTyped, Descriptors DEF Inv, Pending
  <2> QED
    BY <1>2, <1>3, <1>5, <2>1 DEF Inv, Pending
<1>10. Handling'
  BY <1>1, <1>3, <1>4, HandlingAfter
<1>11. Roomy' /\ ClosesOnce'
  <2>1. {f \in Fds : interest'[f] # {}} = {f \in Fds : interest[f] # {}}
    BY <1>1 DEF Inv, Owners
  <2> QED
    BY <2>1, Lives DEF Inv, Roomy, events, Now, Up
<1> QED
  BY <1>6, <1>7, <1>8, <1>9, <1>10, <1>11 DEF Inv

LEMMA DieInv ==
    ASSUME Inv, Die, Now("read"), sock[connections[job.fd].conn] \in Gone
    PROVE  Inv'
<1>1. UNCHANGED << Tables, clients, kernel, events, round >>
  BY DEF Die, Tables, kernel, round
<1>2. TypeOK' /\ Owners' /\ Conserved'
  BY <1>1, SameTables
  DEF Inv, TypeOK, Die, clients, kernel, events, round, Tables, Owners,
      Conserved, Served
<1>3. Entries' /\ Pending' /\ Handling'
  BY <1>1, SameTables, SameEntries
  DEF Inv, Pending, Handling, clients, kernel, round, Tables
<1>4. Roomy' /\ ClosesOnce'
  BY <1>1 DEF Gone, Inv, Roomy, ClosesOnce, Tables, events, round, clients, Now
<1> QED
  BY <1>2, <1>3, <1>4 DEF Inv

(* An open descriptor is in the tables under its own connection. *)
LEMMA OwnEntry ==
    ASSUME Inv, NEW fd \in Fds, fd = job.fd, owner[fd] # None
    PROVE  /\ owner[fd] \in Conns /\ fd \notin Closed /\ connections[fd] # None
           /\ connections[fd] \in [conn : Conns \cup {None}, out : Nat]
           /\ connections[fd].out \in Nat /\ Serves(fd, owner[fd])
           /\ "out" \in interest[fd] <=> connections[fd].out > 0
           /\ \A f \in Fds : Serves(f, owner[fd]) => f = fd
           /\ sock[owner[fd]] # "new" /\ "in" \in interest[fd]
<1>1. /\ owner[fd] \in Conns /\ fd \notin Closed /\ connections[fd] # None
  BY DEF Inv, Handling, TypeOK
<1>2. connections[fd] \in [conn : Conns \cup {None}, out : Nat]
  BY <1>1 DEF Inv, TypeOK
<1>3. owner[fd] = connections[fd].conn /\ ("out" \in interest[fd] <=> connections[fd].out > 0)
  BY <1>1 DEF Inv, Entries
<1>4. Serves(fd, owner[fd])
  BY <1>1, <1>3 DEF Serves, Closed
<1>5. \A f \in Fds : Serves(f, owner[fd]) => f = fd
  BY <1>1 DEF Serves, Inv, Owners
<1>6. sock[owner[fd]] # "new" /\ "in" \in interest[fd]
  BY <1>1 DEF Inv, Owners
<1> QED
  BY <1>1, <1>2, <1>3, <1>4, <1>5, <1>6

(* A client that asks has read all of the reply before, so that its buffer   *)
(* is empty when the next one is put into it.                                *)
LEMMA ReplyInv ==
    ASSUME Inv, Now("read"), NEW fd \in Fds, fd = job.fd,
           NEW c \in Conns, c = owner[fd], inbox[c] > 0,
           inbox' = [inbox EXCEPT ![c] = @ - 1],
           NEW n \in ReplySizes, Reply(fd, n),
           due' = [due EXCEPT ![c] = IF sock[c] = "open" THEN n ELSE 0],
           job' = Finished,
           UNCHANGED << sock, asks, outbox, backlog, owner, events, pc, fired,
                        fdtoClose, fate, lost >>
    PROVE  Inv'
<1>1. n \in Nat /\ n > 0
  BY SizesAssumption
<1>2. owner[fd] # None
  BY Descriptors
<1>3. /\ inbox[c] = 1 /\ inbox'[c] = 0 /\ due'[c] \in Nat
      /\ inbox' \in [Conns -> Nat] /\ due' \in [Conns -> Nat]
      /\ sock[c] = "open" => due'[c] = n
      /\ \A d \in Conns : d # c => inbox'[d] = inbox[d] /\ due'[d] = due[d]
  <2>1. inbox[c] \in Nat /\ inbox[c] <= 1
    BY DEF Inv, TypeOK, Conserved
  <2> QED
    BY <1>1, <2>1 DEF Inv, TypeOK
<1>4. /\ connections' = [connections EXCEPT ![fd].out = @ + n]
      /\ interest' = [interest EXCEPT ![fd] = @ \cup {"out"}]
  BY DEF Reply
<1>5. /\ connections[fd] \in [conn : Conns \cup {None}, out : Nat]
      /\ connections[fd] # None
  BY <1>2, OwnEntry
<1>6. /\ connections'[fd] = [connections[fd] EXCEPT !.out = @ + n]
      /\ \A f \in Fds : f # fd => connections'[f] = connections[f]
  BY <1>4 DEF Inv, TypeOK
<1>7. /\ connections'[fd] \in [conn : Conns \cup {None}, out : Nat]
      /\ connections'[fd].conn = connections[fd].conn
      /\ connections'[fd].out = connections[fd].out + n
      /\ connections'[fd] # None
  <2>1. connections[fd].out + n \in Nat
    BY <1>1, <1>5
  <2>2. connections'[fd] = [conn |-> connections[fd].conn, out |-> connections[fd].out + n]
    BY <1>5, <1>6
  <2> QED
    BY <1>5, <2>1, <2>2, Descriptors
<1>8. connections' \in [Fds \cup {Failed} ->
                          [conn : Conns \cup {None}, out : Nat] \cup {None}]
  BY <1>4, <1>7 DEF Inv, TypeOK
<1>9. /\ interest' \in [Fds -> SUBSET {"in", "out"}]
      /\ \A f \in Fds : f # fd => interest'[f] = interest[f]
      /\ "in" \in interest'[fd] /\ "out" \in interest'[fd]
  BY <1>2, <1>4, OwnEntry DEF Inv, TypeOK
<1>10. /\ \A f \in Fds : \A d : Serves(f, d)' <=> Serves(f, d)
       /\ \A d : Served(d)' <=> Served(d)
  BY <1>5, <1>6, <1>7, SameServes DEF Inv, TypeOK
<1>11. Conserved'
  <2>1. ASSUME NEW d \in Conns, d # c
        PROVE  \A f \in Fds : Serves(f, d) => connections'[f] = connections[f]
    BY <1>6, <2>1 DEF Serves
  <2>2. sock[c] = "open" => due'[c] = outbox[c] + connections'[fd].out
    <3>1. ASSUME sock[c] = "open"
          PROVE  outbox[c] = 0 /\ connections[fd].out = 0
      <4>1. due[c] = 0 /\ due[c] = outbox[c] + connections[fd].out
        BY <1>2, <1>3, <3>1, OwnEntry DEF Inv, Conserved
      <4>2. outbox[c] \in Nat /\ connections[fd].out \in Nat
        BY <1>2, OwnEntry DEF Inv, TypeOK
      <4> QED
        BY <4>1, <4>2
    <3> QED
      BY <1>1, <1>3, <1>7, <3>1
  <2>3. Served(c) /\ \A f \in Fds : Serves(f, c) => f = fd
    BY <1>2, OwnEntry DEF Served
  <2>4. ASSUME NEW d \in Conns, d # c
        PROVE  (/\ inbox[d] <= 1
                /\ sock[d] = "open" /\ inbox[d] > 0 => due[d] = 0
                /\ sock[d] \in {"new", "open"} /\ ~Served(d) => due[d] = 0 /\ outbox[d] = 0
                /\ sock[d] = "open" =>
                     \A f \in Fds : Serves(f, d) => due[d] = outbox[d] + connections[f].out)'
    BY <1>3, <1>10, <2>1, <2>4 DEF Inv, Conserved
  <2>5. (/\ inbox[c] <= 1
         /\ sock[c] = "open" /\ inbox[c] > 0 => due[c] = 0
         /\ sock[c] \in {"new", "open"} /\ ~Served(c) => due[c] = 0 /\ outbox[c] = 0
         /\ sock[c] = "open" =>
              \A f \in Fds : Serves(f, c) => due[c] = outbox[c] + connections[f].out)'
    <3>1. Served(c)' /\ \A f \in Fds : Serves(f, c)' => f = fd
      BY <1>10, <2>3
    <3> QED
      BY <1>3, <2>2, <3>1
  <2> QED
    BY <2>4, <2>5 DEF Conserved
<1>12. JobAfter("read", job')
  BY HandlerJob
<1>13. connections'[fd].out > 0
  BY <1>1, <1>5, <1>7
<1>14. outbox' \in [Conns -> Nat]
  BY DEF Inv, TypeOK
<1>15. \A f \in Fds : f # job.fd =>
          connections'[f] = connections[f] /\ interest'[f] = interest[f]
  BY <1>6, <1>9
<1>16. /\ connections'[job.fd] # None /\ owner[job.fd] # None
       /\ connections'[job.fd].conn = connections[job.fd].conn
       /\ "in" \in interest'[job.fd]
       /\ "out" \in interest'[job.fd] <=> connections'[job.fd].out > 0
  BY <1>2, <1>7, <1>9, <1>13
<1> QED
  BY <1>3, <1>8, <1>9, <1>11, <1>12, <1>14, <1>15, <1>16, Handles

LEMMA ReadInv ==
    ASSUME Inv, read
    PROVE  Inv'
<1>1. Now("read")
  BY DEF read
<1>2. PICK fd \in Fds : fd = job.fd
  BY <1>1, HandlerJob
<1>3. job.calls # << >> /\ Head(job.calls) = "read" /\ JobAfter("read", Finished)
  BY <1>1, HandlerJob
<1>4. CASE owner[fd] = None \/ (sock[owner[fd]] = "reset" /\ inbox[owner[fd]] = 0)
  <2>1. Die
    BY <1>2, <1>4 DEF read
  <2>2. owner[fd] # None => owner[fd] = connections[fd].conn
    BY <1>2 DEF Inv, Handling, Entries
  <2>3. sock[connections[fd].conn] \in Gone
    BY <1>2, <1>3, <1>4, <2>2 DEF Inv, Handling, Gone
  <2> QED
    BY <1>1, <1>2, <2>1, <2>3, DieInv
<1>5. CASE ~ (owner[fd] = None \/ (sock[owner[fd]] = "reset" /\ inbox[owner[fd]] = 0))
  <2>1. PICK c \in Conns : c = owner[fd]
    BY <1>5 DEF Inv, TypeOK
  <2>2. CASE inbox[c] > 0
    BY <1>1, <1>2, <1>5, <2>1, <2>2, ReplyInv DEF read
  <2>3. CASE ~ (inbox[c] > 0)
    <3>1. /\ inbox[c] = 0 /\ sock[c] # "open" /\ notifyClose(job.fd) /\ job' = Finished
          /\ UNCHANGED << clients, backlog, connections, events, pc, fired, fate, lost >>
      BY <1>2, <1>5, <2>1, <2>3 DEF read
    <3>2. owner[fd] # None /\ sock[c] # "new"
      BY <1>5, <2>1 DEF Inv, Owners
    <3> QED
      BY <1>1, <1>2, <1>3, <2>1, <3>1, <3>2, Closes
  <2> QED
    BY <2>2, <2>3
<1> QED
  BY <1>4, <1>5

(* What a write that puts nothing into the kernel has to show: only on a     *)
(* descriptor that is closed may it change the count.                        *)
LEMMA PutsNothing ==
    ASSUME NEW call \in {"write", "push"}, Inv, Now(call), job' = Finished,
           UNCHANGED << clients, kernel, events, pc, fired, fdtoClose, fate, lost >>,
           UNCHANGED connections \/ (Miscount(job.fd) /\ owner[job.fd] = None)
    PROVE  Inv'
<1>1. PICK fd \in Fds : fd = job.fd
  BY HandlerJob
<1>2. JobAfter(call, job') /\ connections[fd] # None
  BY <1>1, HandlerJob
<1>3. connections[fd] \in [conn : Conns \cup {None}, out : Nat]
  BY <1>2 DEF Inv, TypeOK
<1>4. /\ \A f \in Fds : f # fd => connections'[f] = connections[f]
      /\ owner[fd] # None => connections'[fd] = connections[fd]
      /\ connections'[fd].conn = connections[fd].conn
      /\ connections'[fd] # None
      /\ connections' \in [Fds \cup {Failed} ->
                             [conn : Conns \cup {None}, out : Nat] \cup {None}]
  <2>1. CASE UNCHANGED connections
    BY <1>2, <2>1 DEF Inv, TypeOK
  <2>2. CASE Miscount(job.fd) /\ owner[job.fd] = None
    <3>1. connections' = [connections EXCEPT ![fd].out = @ + 1]
      BY <1>1, <2>2 DEF Miscount
    <3>2. /\ connections'[fd] = [connections[fd] EXCEPT !.out = @ + 1]
          /\ \A f \in Fds : f # fd => connections'[f] = connections[f]
      BY <3>1 DEF Inv, TypeOK
    <3>3. connections'[fd] = [conn |-> connections[fd].conn, out |-> connections[fd].out + 1]
          /\ connections[fd].out + 1 \in Nat
      BY <1>3, <3>2
    <3>4. connections'[fd] \in [conn : Conns \cup {None}, out : Nat]
          /\ connections'[fd] # None /\ connections'[fd].conn = connections[fd].conn
      BY <1>3, <3>3, Descriptors
    <3> QED
      BY <1>1, <2>2, <3>1, <3>2, <3>4 DEF Inv, TypeOK
  <2> QED
    BY <2>1, <2>2
<1>5. /\ \A f \in Fds : \A d : Serves(f, d)' <=> Serves(f, d)
      /\ \A d : Served(d)' <=> Served(d)
  BY <1>2, <1>4, SameServes DEF Inv, TypeOK, kernel
<1>6. Conserved'
  <2>1. ASSUME NEW d \in Conns, NEW f \in Fds, Serves(f, d)
        PROVE  connections'[f] = connections[f]
    BY <1>4, <2>1, Descriptors DEF Serves
  <2> QED
    BY <1>5, <2>1 DEF Inv, Conserved, clients
<1>7. /\ inbox' \in [Conns -> Nat] /\ due' \in [Conns -> Nat] /\ outbox' \in [Conns -> Nat]
      /\ interest' \in [Fds -> SUBSET {"in", "out"}]
  BY DEF Inv, TypeOK, clients, kernel
<1>8. owner[fd] = None => interest'[fd] = {}
  BY DEF Inv, Owners, kernel
<1>9. owner[fd] # None =>
        /\ "in" \in interest'[fd]
        /\ "out" \in interest'[fd] <=> connections'[fd].out > 0
  BY <1>1, <1>4, OwnEntry DEF kernel
<1>10. /\ UNCHANGED << sock, asks, backlog, owner, events, pc, fired, fdtoClose,
                       fate, lost >>
       /\ \A f \in Fds : interest'[f] = interest[f]
  BY DEF clients, kernel
<1> QED
  BY <1>1, <1>2, <1>4, <1>6, <1>7, <1>8, <1>9, <1>10, Handles

(* A unit moves from the write buffer of a connection to its kernel. *)
LEMMA PutsOne ==
    ASSUME NEW call \in {"write", "push"}, Inv, Now(call), JobAfter(call, job'),
           NEW fd \in Fds, fd = job.fd, NEW c \in Conns, c = owner[fd],
           connections[fd].out > 0, outbox' = [outbox EXCEPT ![c] = @ + 1],
           Wrote(fd, connections[fd].out - 1),
           UNCHANGED << sock, asks, inbox, due, backlog, owner, events, pc, fired,
                        fdtoClose, fate, lost >>
    PROVE  Inv'
<1>1. owner[fd] # None
  BY Descriptors
<1>2. PICK out \in Nat : out = connections[fd].out /\ out > 0 /\ out - 1 \in Nat
  BY <1>1, OwnEntry
<1>3. /\ connections' = [connections EXCEPT ![fd].out = out - 1]
      /\ interest' = [interest EXCEPT ![fd] = IF out - 1 = 0 THEN @ \ {"out"} ELSE @]
  BY <1>2 DEF Wrote
<1>4. /\ connections[fd] \in [conn : Conns \cup {None}, out : Nat]
      /\ connections[fd] # None
  BY <1>1, OwnEntry
<1>5. /\ connections'[fd] = [connections[fd] EXCEPT !.out = out - 1]
      /\ \A f \in Fds : f # fd => connections'[f] = connections[f]
  BY <1>3 DEF Inv, TypeOK
<1>6. /\ connections'[fd] \in [conn : Conns \cup {None}, out : Nat]
      /\ connections'[fd].conn = connections[fd].conn
      /\ connections'[fd].out = out - 1
      /\ connections'[fd] # None
  <2>1. connections'[fd] = [conn |-> connections[fd].conn, out |-> out - 1]
    BY <1>4, <1>5
  <2> QED
    BY <1>2, <1>4, <2>1, Descriptors
<1>7. connections' \in [Fds \cup {Failed} ->
                          [conn : Conns \cup {None}, out : Nat] \cup {None}]
  BY <1>3, <1>6 DEF Inv, TypeOK
<1>8. /\ interest' \in [Fds -> SUBSET {"in", "out"}]
      /\ \A f \in Fds : f # fd => interest'[f] = interest[f]
      /\ "in" \in interest'[fd]
      /\ "out" \in interest'[fd] <=> out - 1 # 0
  <2>1. "in" \in interest[fd] /\ "out" \in interest[fd]
    BY <1>1, <1>2, OwnEntry
  <2>2. "in" # "out"
    OBVIOUS
  <2> QED
    BY <1>3, <2>1, <2>2 DEF Inv, TypeOK
<1>9. /\ \A f \in Fds : \A d : Serves(f, d)' <=> Serves(f, d)
      /\ \A d : Served(d)' <=> Served(d)
  BY <1>4, <1>5, <1>6, SameServes DEF Inv, TypeOK
<1>10. /\ outbox' \in [Conns -> Nat] /\ outbox[c] \in Nat /\ outbox'[c] = outbox[c] + 1
       /\ \A d \in Conns : d # c => outbox'[d] = outbox[d]
  BY DEF Inv, TypeOK
<1>11. Conserved'
  <2>1. ASSUME NEW d \in Conns, d # c
        PROVE  (/\ inbox[d] <= 1
                /\ sock[d] = "open" /\ inbox[d] > 0 => due[d] = 0
                /\ sock[d] \in {"new", "open"} /\ ~Served(d) => due[d] = 0 /\ outbox[d] = 0
                /\ sock[d] = "open" =>
                     \A f \in Fds : Serves(f, d) => due[d] = outbox[d] + connections[f].out)'
    <3>1. \A f \in Fds : Serves(f, d) => connections'[f] = connections[f]
      BY <1>5, <2>1 DEF Serves
    <3> QED
      BY <1>9, <1>10, <2>1, <3>1 DEF Inv, Conserved
  <2>2. Served(c)' /\ \A f \in Fds : Serves(f, c)' => f = fd
    BY <1>1, <1>9, OwnEntry DEF Served
  <2>3. sock[c] = "open" => due[c] = outbox[c] + out
    BY <1>1, <1>2, OwnEntry DEF Inv, Conserved
  <2>4. sock[c] = "open" => due[c] = outbox'[c] + connections'[fd].out
    BY <1>2, <1>6, <1>10, <2>3
  <2>5. inbox[c] <= 1 /\ (sock[c] = "open" /\ inbox[c] > 0 => due[c] = 0)
    BY DEF Inv, Conserved
  <2>6. (/\ inbox[c] <= 1
         /\ sock[c] = "open" /\ inbox[c] > 0 => due[c] = 0
         /\ sock[c] \in {"new", "open"} /\ ~Served(c) => due[c] = 0 /\ outbox[c] = 0
         /\ sock[c] = "open" =>
              \A f \in Fds : Serves(f, c) => due[c] = outbox[c] + connections[f].out)'
    BY <2>2, <2>4, <2>5
  <2> QED
    BY <2>1, <2>6 DEF Conserved
<1>12. /\ connections'[job.fd] # None /\ owner[job.fd] # None
       /\ connections'[job.fd].conn = connections[job.fd].conn
       /\ "in" \in interest'[job.fd]
       /\ "out" \in interest'[job.fd] <=> connections'[job.fd].out > 0
  BY <1>1, <1>2, <1>6, <1>8
<1>13. inbox' \in [Conns -> Nat] /\ due' \in [Conns -> Nat]
  BY DEF Inv, TypeOK
<1>14. \A f \in Fds : f # job.fd =>
          connections'[f] = connections[f] /\ interest'[f] = interest[f]
  BY <1>5, <1>8
<1> QED
  BY <1>7, <1>8, <1>10, <1>11, <1>12, <1>13, <1>14, Handles

LEMMA WriteInv ==
    ASSUME Inv, write
    PROVE  Inv'
<1>1. PICK call \in {"write", "push"} : Now(call)
  BY DEF write
<1>2. PICK fd \in Fds : fd = job.fd
  BY <1>1, HandlerJob
<1>3. UNCHANGED << sock, asks, inbox, due, backlog, owner, events, pc, fired,
                   fdtoClose, fate, lost >>
  BY DEF write
<1>4. CASE /\ connections[fd].out = 0 \/ owner[fd] = None
           /\ IF connections[fd].out = 0 THEN UNCHANGED connections ELSE Miscount(fd)
           /\ job' = Finished
           /\ UNCHANGED << outbox, interest >>
  BY <1>1, <1>2, <1>3, <1>4, PutsNothing DEF clients, kernel
<1>5. CASE /\ connections[fd].out > 0 /\ owner[fd] # None
           /\ outbox' = [outbox EXCEPT ![owner[fd]] = @ + 1]
           /\ Wrote(fd, connections[fd].out - 1)
           /\ job' = IF connections[fd].out = 1 THEN Finished
                     ELSE [job EXCEPT !.calls = << "push" >> \o Tail(@)]
  <2>1. PICK c \in Conns : c = owner[fd]
    BY <1>5 DEF Inv, TypeOK
  <2>2. JobAfter(call, job')
    BY <1>1, <1>5, HandlerJob
  <2> QED
    BY <1>1, <1>2, <1>3, <1>5, <2>1, <2>2, PutsOne
<1>6. CASE job' = Finished /\ UNCHANGED << outbox, interest, connections >>
  BY <1>1, <1>2, <1>3, <1>6, PutsNothing DEF clients, kernel
<1> QED
  BY <1>2, <1>4, <1>5, <1>6 DEF write

(* The end of a round: what was closed leaves the tables, and no handler is  *)
(* left that could ask for it.                                               *)
LEMMA SweepInv ==
    ASSUME Inv, sweep
    PROVE  Inv'
<1>1. /\ job = Idle /\ fired = << >> /\ fdtoClose' = << >> /\ pc' = "wait"
      /\ connections' = [fd \in DOMAIN connections |->
                           IF fd \in Closed THEN None ELSE connections[fd]]
      /\ UNCHANGED << clients, kernel, events, fired, job, fate, lost >>
  BY DEF sweep, Closed
<1>2. /\ \A f \in Fds : connections'[f] = IF f \in Closed THEN None ELSE connections[f]
      /\ connections' \in [Fds \cup {Failed} ->
                             [conn : Conns \cup {None}, out : Nat] \cup {None}]
  BY <1>1 DEF Inv, TypeOK
<1>3. Closed' = {}
  BY <1>1 DEF Closed, Range
<1>4. \A f \in Fds : \A d : Serves(f, d)' <=> Serves(f, d)
  BY <1>1, <1>2, <1>3 DEF Serves, Closed, kernel
<1>5. \A d : Served(d)' <=> Served(d)
  BY <1>4 DEF Served
<1>6. TypeOK'
  BY <1>1, <1>2 DEF Inv, TypeOK, clients, kernel, events
<1>7. Owners'
  BY <1>1 DEF Inv, Owners, clients, kernel
<1>8. Entries'
  <2> SUFFICES ASSUME NEW f \in Fds
               PROVE  (/\ connections[f] # None =>
                            /\ connections[f].conn \in Conns
                            /\ f \notin Closed =>
                                 /\ owner[f] = connections[f].conn
                                 /\ "out" \in interest[f] <=> connections[f].out > 0
                       /\ f \in Closed => connections[f] # None
                       /\ owner[f] # None => Serves(f, owner[f]) \/ owner[f] \in lost)'
    BY DEF Entries
  <2>1. (owner[f] # None => Serves(f, owner[f]) \/ owner[f] \in lost)'
    BY <1>1, <1>4 DEF Inv, Entries, kernel
  <2> QED
    BY <1>1, <1>2, <1>3, <2>1 DEF Inv, Entries, kernel
<1>9. Pending' /\ Handling'
  BY <1>1, Descriptors DEF Pending, Handling, Idle
<1>10. Conserved'
  <2>1. ASSUME NEW d \in Conns, NEW f \in Fds, Serves(f, d)
        PROVE  connections'[f] = connections[f]
    BY <1>2, <2>1 DEF Serves, Closed
  <2> QED
    BY <1>1, <1>4, <1>5, <2>1 DEF Inv, Conserved, clients
<1>11. Roomy' /\ ClosesOnce'
  BY <1>1 DEF sweep, Inv, Roomy, ClosesOnce, clients, kernel, events, Up
<1> QED
  BY <1>6, <1>7, <1>8, <1>9, <1>10, <1>11 DEF Inv
-----------------------------------------------------------------------------
LEMMA StutterInv ==
    ASSUME Inv, UNCHANGED vars
    PROVE  Inv'
<1>1. UNCHANGED << Tables, clients, kernel, events, round, fate >>
  BY DEF vars, Tables, kernel, round
<1>2. TypeOK' /\ Owners' /\ Conserved'
  BY <1>1, SameTables
  DEF Inv, TypeOK, clients, kernel, events, round, Tables, Owners, Conserved, Served
<1>3. Entries' /\ Pending' /\ Handling'
  BY <1>1, SameTables, SameEntries
  DEF Inv, Pending, Handling, clients, kernel, round, Tables
<1>4. Roomy' /\ ClosesOnce'
  BY <1>1 DEF Inv, Roomy, ClosesOnce, Tables, events, round, clients
<1> QED
  BY <1>2, <1>3, <1>4 DEF Inv

LEMMA NextInv == Inv /\ [Next]_vars => Inv'
<1> SUFFICES ASSUME Inv, [Next]_vars PROVE Inv'
  OBVIOUS
<1>1. ASSUME NEW c \in Conns,
             Connect(c) \/ Ask(c) \/ Receive(c) \/ Quit(c) \/ Refuse(c)
      PROVE  Inv'
  BY <1>1, ConnectInv, AskInv, ReceiveInv, QuitInv, RefuseInv
<1>2. CASE newConnectionHandle
  BY <1>2, AcceptFailsInv, AcceptInv
<1>3. CASE run
  BY <1>2, <1>3, WaitInv, DispatchInv, CloseInv, ReadInv, WriteInv, SweepInv DEF run
<1>4. CASE interrupted
  BY <1>4, InterruptedInv
<1>5. CASE UNCHANGED vars
  BY <1>5, StutterInv
<1> QED
  BY <1>1, <1>3, <1>4, <1>5 DEF Next

(* The inductive invariant holds in every state (TcpServer::run with its     *)
(* callbacks, whatever the clients do).                                      *)
THEOREM InvHolds == Spec => []Inv
<1>1. Init => Inv
  BY InitInv
<1>2. Inv /\ [Next]_vars => Inv'
  BY NextInv
<1> QED
  BY <1>1, <1>2, PTL DEF Spec

(* Every table holds connections and every queue descriptors of the kernel   *)
(* (TcpServer.hpp, the members connections, eventpool and fdtoClose).        *)
THEOREM TypeCorrect == Spec => []TypeOK
<1>1. Inv => TypeOK
  BY DEF Inv
<1> QED
  BY <1>1, InvHolds, PTL

(* An entry of the tables names the connection behind its descriptor or was  *)
(* closed in this round, and a handler only ever touches its own connection, *)
(* although descriptors are given away again in the middle of a round        *)
(* (TcpServer::run, notifyClose).                                            *)
THEOREM TablesAreSound == Spec => []TableSound
<1>1. Inv => TableSound
  <2> SUFFICES ASSUME Inv PROVE TableSound
    OBVIOUS
  <2>1. ASSUME NEW f \in Fds, connections[f] # None
        PROVE  f \in Range(fdtoClose) \/ Serves(f, owner[f])
    BY <2>1 DEF Inv, Entries, Serves, Closed
  <2>2. job.fd \in Fds => owner[job.fd] \in {None, connections[job.fd].conn}
    BY DEF Inv, Handling, Entries
  <2>3. pc = "wait" => fdtoClose = << >>
    BY DEF Inv, Pending
  <2> QED
    BY <2>1, <2>2, <2>3 DEF TableSound
<1> QED
  BY <1>1, InvHolds, PTL

(* The only way for a connection out of the reach of the tables is to have   *)
(* been accepted under a number closed in the same round (map::insert in     *)
(* TcpServer::addNewConnection keeps the old entry).                         *)
THEOREM ReuseAloneLoses == Spec => []OnlyReuseLoses
<1>1. Inv => OnlyReuseLoses
  BY DEF Inv, Entries, OnlyReuseLoses, Served
<1> QED
  BY <1>1, InvHolds, PTL

(* One wait has room for an event of every descriptor that is watched        *)
(* (EpollEvents::addEvent, Epoll::waitEvents).                               *)
THEOREM EventsHaveRoom == Spec => []Roomy
<1>1. Inv => Roomy
  BY DEF Inv
<1> QED
  BY <1>1, InvHolds, PTL

(* What a client lacks of a reply is in its kernel or in the write buffer of *)
(* its own connection (SdbServer's callbacks, Buffer::writeToFd).            *)
THEOREM RepliesAreConserved == Spec => []RepliesConserved
<1>1. Inv => RepliesConserved
  BY DEF Inv, Conserved, RepliesConserved, TypeOK
<1> QED
  BY <1>1, InvHolds, PTL

(* While it waits the server waits for room exactly where it has something   *)
(* to write (setWriteable and unsetWriteable in SdbServer.hpp).              *)
THEOREM InterestIsExact == Spec => []InterestExact
<1>1. Inv => InterestExact
  <2>1. ASSUME Inv, pc = "wait"
        PROVE  Closed = {}
    BY <2>1 DEF Inv, Pending, Closed, Range
  <2> QED
    BY <2>1 DEF Inv, Entries, InterestExact
<1> QED
  BY <1>1, InvHolds, PTL

(* No descriptor is closed twice in a round, and the server dies only while  *)
(* it reads from a connection that was reset (IOEvent::handleEvent,          *)
(* Buffer::readFromFd).                                                      *)
THEOREM DescriptorsCloseOnce == Spec => []ClosesOnce
<1>1. Inv => ClosesOnce
  BY DEF Inv
<1> QED
  BY <1>1, InvHolds, PTL
=============================================================================
