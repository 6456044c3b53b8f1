---------------------------- MODULE FramingProofs ----------------------------
(***************************************************************************)
(* For all lengths of headers, texts, answers and chunks, and however the  *)
(* stream cuts them: no byte of a request or an answer is lost, doubled or *)
(* moved, and a client that waits for its replies has a session.           *)
(***************************************************************************)
EXTENDS Framing, SequenceTheorems, TLAPS

Unit(m, i, n) == [m |-> m, i |-> i, n |-> n]

(* The first units of a message. *)
Begins(s, m, n) == \A j \in 1 .. Len(s) : s[j] = Unit(m, j, n)

(* Without eagerness a request is under way, or its answer is, or nothing.   *)
Unanswered == writebuf = << >> /\ toClient = << >> /\ res = << >>
Unasked == readbuf = << >> /\ toServer = << >>

Asking(b) ==
    /\ Unanswered
    /\ Len(served) = asked - 1 /\ Len(heard) = asked - 1
    /\ Len(readbuf \o toServer) = b /\ Begins(readbuf \o toServer, asked, size)
    /\ Len(readbuf) < size /\ HeaderLen < size

Answering ==
    /\ Unasked
    /\ Len(served) = asked /\ Len(heard) = asked - 1
    /\ \E n \in AnswerLens :
         LET answer == (res \o toClient) \o writebuf IN
         /\ Len(answer) = HeaderLen + n
         /\ Begins(answer, asked, HeaderLen + n)
         /\ Len(res) < HeaderLen + n

InSession ==
    ~eager =>
        /\ phase \in {"idle", "dead"} =>
             Unanswered /\ Unasked /\ Len(served) = asked /\ Len(heard) = asked
        /\ phase = "header" => Asking(HeaderLen)
        /\ phase = "await" => Asking(size) \/ Answering

(* What was sent is whole messages, one after the other, but for the last,   *)
(* of which the text is missing while the client is between its two loops.   *)
Runs(s) ==
    /\ s # << >> => s[1].i = 1
    /\ \A j \in DOMAIN s : HeaderLen < s[j].n /\ s[j].i <= s[j].n
    /\ \A j, l \in DOMAIN s :
         j <= l /\ l - j <= s[j].n - s[j].i =>
             s[l] = Unit(s[j].m, s[j].i + (l - j), s[j].n)
    /\ \A j \in DOMAIN s : j < Len(s) /\ s[j].i = s[j].n => s[j + 1].i = 1

Border ==
    IF phase = "header"
    THEN /\ asked > 0 /\ HeaderLen < size
         /\ sent # << >> /\ sent[Len(sent)] = Unit(asked, HeaderLen, size)
    ELSE sent # << >> => sent[Len(sent)].i = sent[Len(sent)].n

Inv ==
    /\ FramingTypeOK /\ StreamsIntact
    /\ InSession /\ Runs(sent) /\ Border
-----------------------------------------------------------------------------
(* Cutting a sequence, and moving the front of one piece to the next. *)
LEMMA MinOfTwo ==
    ASSUME NEW a \in Int, NEW b \in Int
    PROVE  Min({a, b}) \in Int /\ Min({a, b}) <= a /\ Min({a, b}) <= b
<1>1. \E x \in {a, b} : \A y \in {a, b} : x <= y
  OBVIOUS
<1>2. Min({a, b}) \in {a, b} /\ \A y \in {a, b} : Min({a, b}) <= y
  BY <1>1 DEF Min
<1> QED
  BY <1>2

Streams == Seq(Units)
Cat(s, t) == s \o t

LEMMA Cut ==
    ASSUME NEW U, NEW s \in Seq(U), NEW n \in 0 .. Len(s)
    PROVE  /\ First(s, n) \in Seq(U) /\ Rest(s, n) \in Seq(U)
           /\ Len(First(s, n)) = n /\ Len(Rest(s, n)) = Len(s) - n
           /\ First(s, n) \o Rest(s, n) = s
<1>1. Len(s) \in Nat /\ n \in Int
  OBVIOUS
<1>2. \A i \in 1 .. Len(s) : s[i] \in U
  BY ElementOfSeq
<1>3. First(s, n) \in Seq(U) /\ Len(First(s, n)) = n
  BY <1>1, <1>2, SubSeqProperties DEF First
<1>4. Rest(s, n) \in Seq(U) /\ Len(Rest(s, n)) = Len(s) - n
  BY <1>1, <1>2, SubSeqProperties DEF Rest
<1>5. First(s, n) \o Rest(s, n) = SubSeq(s, 1, Len(s))
  <2>1. 1 \in 1 .. Len(s) + 1 /\ n \in (1 - 1) .. Len(s) /\ Len(s) \in n .. Len(s)
    BY <1>1
  <2>2. SubSeq(s, 1, n) \o SubSeq(s, n + 1, Len(s)) = SubSeq(s, 1, Len(s))
    BY <2>1, ConcatAdjacentSubSeq
  <2> QED
    BY <2>2 DEF First, Rest
<1> QED
  BY <1>3, <1>4, <1>5, SubSeqFull

LEMMA Typed ==
    /\ << >> \in Streams /\ Len(<< >>) = 0
    /\ \A s \in Streams : /\ Len(s) \in Nat /\ (s = << >> <=> Len(s) = 0)
                         /\ DOMAIN s = 1 .. Len(s)
                         /\ \A j \in 1 .. Len(s) : s[j] \in Units
<1>1. << >> \in Streams /\ Len(<< >>) = 0
  BY DEF Streams
<1>2. ASSUME NEW s \in Seq(Units)
      PROVE  /\ Len(s) \in Nat /\ (s = << >> <=> Len(s) = 0)
             /\ DOMAIN s = 1 .. Len(s)
             /\ \A j \in 1 .. Len(s) : s[j] \in Units
  BY EmptySeq, LenProperties, ElementOfSeq
<1> QED
  BY <1>1, <1>2 DEF Streams

LEMMA CatTyped ==
    ASSUME NEW s \in Streams, NEW t \in Streams
    PROVE  /\ Cat(s, t) \in Streams
           /\ Len(Cat(s, t)) = Len(s) + Len(t)
           /\ \A j \in 1 .. Len(s) : Cat(s, t)[j] = s[j]
           /\ \A j \in 1 .. Len(t) : Cat(s, t)[Len(s) + j] = t[j]
<1>1. s \in Seq(Units) /\ t \in Seq(Units)
  BY DEF Streams
<1>2. /\ s \o t \in Seq(Units) /\ Len(s \o t) = Len(s) + Len(t)
      /\ \A j \in 1 .. Len(s) + Len(t) :
           (s \o t)[j] = IF j <= Len(s) THEN s[j] ELSE t[j - Len(s)]
  BY <1>1, ConcatProperties
<1>3. Len(s) \in Nat /\ Len(t) \in Nat
  BY <1>1
<1> QED
  BY <1>2, <1>3 DEF Cat, Streams

LEMMA CatAssociates ==
    ASSUME NEW s \in Streams, NEW t \in Streams, NEW u \in Streams
    PROVE  Cat(Cat(s, t), u) = Cat(s, Cat(t, u))
<1>1. s \in Seq(Units) /\ t \in Seq(Units) /\ u \in Seq(Units)
  BY DEF Streams
<1>2. (s \o t) \o u = s \o (t \o u)
  BY <1>1, ConcatAssociative
<1> QED
  BY <1>2 DEF Cat

LEMMA CatNothing ==
    ASSUME NEW s \in Streams
    PROVE  Cat(s, << >>) = s /\ Cat(<< >>, s) = s
BY ConcatEmptySeq DEF Cat, Streams

LEMMA CutTyped ==
    ASSUME NEW s \in Streams, NEW n \in 0 .. Len(s)
    PROVE  /\ First(s, n) \in Streams /\ Rest(s, n) \in Streams
           /\ Len(First(s, n)) = n /\ Len(Rest(s, n)) = Len(s) - n
           /\ Cat(First(s, n), Rest(s, n)) = s
BY Cut DEF Streams, Cat

LEMMA FrontOf ==
    ASSUME NEW s \in Streams
    PROVE  /\ First(s, Len(s)) = s
           /\ \A n \in 0 .. Len(s) :
                /\ First(s, n) \in Streams /\ Len(First(s, n)) = n
                /\ \A j \in 1 .. n : First(s, n)[j] = s[j]
<1>1. First(s, Len(s)) = s
  BY SubSeqFull DEF Streams, First
<1>2. ASSUME NEW n \in 0 .. Len(s), NEW j \in 1 .. n
      PROVE  First(s, n)[j] = s[j]
  <2>1. PICK f \in Streams, r \in Streams :
          f = First(s, n) /\ Len(f) = n /\ Cat(f, r) = s
    BY CutTyped
  <2>2. \A l \in 1 .. Len(f) : Cat(f, r)[l] = f[l]
    BY CatTyped
  <2> QED
    BY <2>1, <2>2
<1> QED
  BY <1>1, <1>2, CutTyped

LEMMA CutAfter ==
    ASSUME NEW s \in Streams, NEW t \in Streams
    PROVE  Rest(Cat(s, t), Len(s)) = t
<1> DEFINE w == Cat(s, t)
<1>1. /\ w \in Streams /\ Len(w) = Len(s) + Len(t)
      /\ \A j \in 1 .. Len(t) : w[Len(s) + j] = t[j]
  BY CatTyped
<1>2. Len(s) \in Nat /\ Len(t) \in Nat /\ s \in Seq(Units) /\ t \in Seq(Units)
  BY Typed DEF Streams
<1>3. Rest(w, Len(s)) \in Seq(Units) /\ Len(Rest(w, Len(s))) = Len(t)
  BY <1>1, <1>2, Cut DEF Streams
<1>4. \A j \in 1 .. Len(t) : Rest(w, Len(s))[j] = w[Len(s) + j]
  <2>1. \A j \in 1 .. Len(t) : Len(s) + j \in 1 .. Len(w)
    BY <1>1, <1>2
  <2> QED
    BY <1>1, <1>2, <2>1, SubSeqProperties, ElementOfSeq DEF Rest, Streams
<1> QED
  BY <1>1, <1>2, <1>3, <1>4, SeqEqual

(* The front of one piece may join the one before it. *)
LEMMA Moved ==
    ASSUME NEW a \in Streams, NEW b \in Streams, NEW c \in Streams,
           NEW n \in 0 .. Len(c)
    PROVE  Cat(Cat(a, Cat(b, First(c, n))), Rest(c, n)) = Cat(Cat(a, b), c)
<1>1. PICK f \in Streams, r \in Streams :
        f = First(c, n) /\ r = Rest(c, n) /\ Cat(f, r) = c
  BY CutTyped
<1>2. Cat(a, Cat(b, f)) = Cat(Cat(a, b), f)
  BY CatAssociates
<1>3. Cat(Cat(Cat(a, b), f), r) = Cat(Cat(a, b), c)
  <2>1. PICK x \in Streams : x = Cat(a, b)
    BY CatTyped
  <2>2. Cat(Cat(x, f), r) = Cat(x, Cat(f, r))
    BY <2>1, CatAssociates
  <2> QED
    BY <1>1, <2>1, <2>2
<1> QED
  BY <1>1, <1>2, <1>3

(* A part of a message is a sequence of its units. *)
LEMMA PartTyped ==
    ASSUME NEW m \in Nat \ {0}, NEW n \in Nat, NEW a \in Nat \ {0},
           NEW b \in Nat, a - 1 <= b
    PROVE  /\ Part(m, n, a, b) \in Streams
           /\ Len(Part(m, n, a, b)) = b - a + 1
           /\ \A j \in 1 .. (b - a + 1) : Part(m, n, a, b)[j] = Unit(m, a + j - 1, n)
<1>1. \A j \in 1 .. (b - a + 1) : Unit(m, a + j - 1, n) \in Units
  BY DEF Unit, Units
<1>2. b - a + 1 \in Nat
  OBVIOUS
<1>3. Part(m, n, a, b) = [j \in 1 .. (b - a + 1) |-> Unit(m, a + j - 1, n)]
  BY DEF Part, Unit
<1>4. Part(m, n, a, b) \in [1 .. (b - a + 1) -> Units]
  BY <1>1, <1>3
<1>5. Part(m, n, a, b) \in Seq(Units)
  BY <1>2, <1>4, SeqDef
<1>6. Len(Part(m, n, a, b)) = b - a + 1
  BY <1>2, <1>4, <1>5
<1> QED
  BY <1>3, <1>5, <1>6 DEF Streams
-----------------------------------------------------------------------------
(* The state in these terms. *)
LEMMA Flows ==
    ASSUME FramingTypeOK
    PROVE  /\ toServer \in Streams /\ readbuf \in Streams /\ writebuf \in Streams
           /\ toClient \in Streams /\ res \in Streams /\ sent \in Streams
           /\ took \in Streams /\ said \in Streams /\ got \in Streams
           /\ asked \in Nat /\ size \in Nat
BY LengthAssumption DEF FramingTypeOK, Streams

LEMMA Intact ==
    /\ StreamsIntact <=> /\ sent = Cat(Cat(took, readbuf), toServer)
                         /\ said = Cat(Cat(Cat(got, res), toClient), writebuf)
    /\ StreamsIntact' <=> /\ sent' = Cat(Cat(took', readbuf'), toServer')
                          /\ said' = Cat(Cat(Cat(got', res'), toClient'), writebuf')
BY DEF StreamsIntact, Cat

(* What each action does to the streams. *)
LEMMA SendsHeader ==
    ASSUME Inv, sendHeader
    PROVE  /\ phase' = "header" /\ asked' = asked + 1 /\ HeaderLen < size'
           /\ size' \in Nat /\ asked' \in 0 .. MaxRequests
           /\ Part(asked', size', 1, HeaderLen) \in Streams
           /\ sent' = Cat(sent, Part(asked', size', 1, HeaderLen))
           /\ toServer' = Cat(toServer, Part(asked', size', 1, HeaderLen))
           /\ UNCHANGED << eager, res, screen, got, heard, server, toClient >>
<1>1. asked \in 0 .. MaxRequests /\ asked < MaxRequests /\ asked' = asked + 1
  BY DEF Inv, FramingTypeOK, sendHeader
<1>2. PICK n \in TextLens : size' = HeaderLen + n
  BY DEF sendHeader
<1>3. n \in Nat \ {0} /\ HeaderLen \in Nat \ {0} /\ MaxRequests \in Nat
  BY LengthAssumption
<1>4. size' \in Nat /\ HeaderLen < size' /\ asked' \in Nat \ {0}
      /\ asked' \in 0 .. MaxRequests
  BY <1>1, <1>2, <1>3
<1>5. Part(asked', size', 1, HeaderLen) \in Streams
  BY <1>3, <1>4, PartTyped
<1> QED
  BY <1>1, <1>4, <1>5 DEF sendHeader, Send, Cat

LEMMA SendsText ==
    ASSUME Inv, sendText
    PROVE  /\ phase' = "await" /\ HeaderLen < size /\ asked > 0
           /\ Part(asked, size, HeaderLen + 1, size) \in Streams
           /\ sent' = Cat(sent, Part(asked, size, HeaderLen + 1, size))
           /\ toServer' = Cat(toServer, Part(asked, size, HeaderLen + 1, size))
           /\ UNCHANGED << eager, asked, size, res, screen, got, heard, server,
                           toClient >>
<1>1. HeaderLen < size /\ asked > 0
  BY DEF Inv, Border, sendText
<1>2. asked \in Nat \ {0} /\ size \in Nat /\ HeaderLen + 1 \in Nat \ {0}
      /\ (HeaderLen + 1) - 1 <= size
  BY <1>1, Flows, LengthAssumption DEF Inv
<1>3. Part(asked, size, HeaderLen + 1, size) \in Streams
  BY <1>2, PartTyped
<1> QED
  BY <1>1, <1>3 DEF sendText, Send, Cat

(* A message that comes in whole is executed, and its answer appended; what  *)
(* is not whole is kept.                                                     *)
Executes(n) ==
    LET buf == Cat(readbuf, First(toServer, n)) IN
    /\ Len(buf) >= HeaderLen /\ Complete(buf)
    /\ readbuf' = << >>
    /\ took' = Cat(took, buf)
    /\ served' = Append(served, IF IsMessage(buf, buf[1].m) THEN buf[1].m ELSE Garbled)
    /\ writing' = TRUE
    /\ \E a \in AnswerLens :
         LET answer == Part(Len(served'), HeaderLen + a, 1, HeaderLen + a) IN
         /\ writebuf' = Cat(writebuf, answer)
         /\ said' = Cat(said, answer)

Waits(n) ==
    LET buf == Cat(readbuf, First(toServer, n)) IN
    /\ Len(buf) >= HeaderLen => Incomplete(buf)
    /\ readbuf' = buf
    /\ UNCHANGED << writebuf, writing, took, served, said >>

LEMMA Messages ==
    ASSUME Inv, onMessage
    PROVE  \E n \in 1 .. Len(toServer) :
              /\ toServer' = Rest(toServer, n)
              /\ Executes(n) \/ Waits(n)
              /\ UNCHANGED << client, toClient >>
<1>1. Chunk \in Int /\ Len(toServer) \in Int
  BY LengthAssumption, Flows, Typed DEF Inv
<1>2. PICK n \in 1 .. Min({Chunk, Len(toServer)}) :
         LET b == Cat(readbuf, First(toServer, n)) IN
         /\ toServer' = Rest(toServer, n)
         /\ \/ Len(b) >= HeaderLen /\ Complete(b) /\ Execute(b)
            \/ /\ Len(b) >= HeaderLen => Incomplete(b)
               /\ readbuf' = b
               /\ UNCHANGED << writebuf, writing, took, served, said >>
  BY DEF onMessage, Cat
<1>3. n \in 1 .. Len(toServer)
  <2>1. Min({Chunk, Len(toServer)}) \in Int
    BY <1>1, MinOfTwo
  <2>2. Min({Chunk, Len(toServer)}) <= Len(toServer)
    BY <1>1, MinOfTwo
  <2> QED
    BY <1>1, <2>1, <2>2
<1> DEFINE b == Cat(readbuf, First(toServer, n))
<1>4. ASSUME Len(b) >= HeaderLen, Complete(b), Execute(b)
      PROVE  Executes(n)
  <2> HIDE DEF b
  <2>1. PICK a \in AnswerLens : Answer(Part(Len(served'), HeaderLen + a, 1, HeaderLen + a))
    BY <1>4 DEF Execute
  <2>2. /\ readbuf' = << >> /\ took' = Cat(took, b)
        /\ served' = Append(served, IF IsMessage(b, b[1].m) THEN b[1].m ELSE Garbled)
    BY <1>4 DEF Execute, Cat
  <2> USE DEF b
  <2> QED
    BY <1>4, <2>1, <2>2 DEF Executes, Answer, Cat
<1>5. ASSUME Len(b) >= HeaderLen => Incomplete(b), readbuf' = b,
             UNCHANGED << writebuf, writing, took, served, said >>
      PROVE  Waits(n)
  BY <1>5 DEF Waits
<1>6. Executes(n) \/ Waits(n)
  BY <1>2, <1>4, <1>5
<1> QED
  BY <1>2, <1>3, <1>6 DEF onMessage

LEMMA Writes ==
    ASSUME Inv, onWrite
    PROVE  \E n \in 1 .. Len(writebuf) :
              /\ toClient' = Cat(toClient, First(writebuf, n))
              /\ writebuf' = Rest(writebuf, n)
              /\ writing' \in BOOLEAN
              /\ UNCHANGED << client, toServer, readbuf, took, served, said >>
BY DEF onWrite, Wrote, Cat

(* An answer that comes in whole is returned, what is not whole is kept. *)
Hears(n) ==
    LET r == Cat(res, First(toClient, n)) IN
    /\ Len(r) >= HeaderLen /\ Enough(r)
    /\ got' = Cat(got, r)
    /\ heard' = Append(heard, IF IsMessage(r, r[1].m) THEN r[1].m ELSE Garbled)
    /\ res' = << >>
    /\ screen' \in {"reply", "garbage"} /\ phase' \in {"idle", "dead"}

Lacks(n) ==
    LET r == Cat(res, First(toClient, n)) IN
    /\ Len(r) >= HeaderLen => Lacking(r)
    /\ res' = r
    /\ UNCHANGED << got, heard, screen, phase >>

LEMMA Receives ==
    ASSUME Inv, receive
    PROVE  \E n \in 1 .. Len(toClient) :
              /\ toClient' = Rest(toClient, n)
              /\ Hears(n) \/ Lacks(n)
              /\ phase = "await"
              /\ UNCHANGED << eager, asked, size, sent, server, toServer >>
<1>1. Chunk \in Int /\ Len(toClient) \in Int
  BY LengthAssumption, Flows, Typed DEF Inv
<1>2. PICK n \in 1 .. Min({Chunk, Len(toClient)}) :
         LET b == Cat(res, First(toClient, n)) IN
         /\ toClient' = Rest(toClient, n)
         /\ \/ /\ Len(b) >= HeaderLen /\ Enough(b)
               /\ got' = Cat(got, b)
               /\ heard' = Append(heard, IF IsMessage(b, b[1].m) THEN b[1].m ELSE Garbled)
               /\ res' = << >>
               /\ \/ screen' \in {"reply", "garbage"} /\ phase' = "idle"
                  \/ screen' = "garbage" /\ phase' = "dead"
            \/ /\ Len(b) >= HeaderLen => Lacking(b)
               /\ res' = b
               /\ UNCHANGED << got, heard, screen, phase >>
  BY DEF receive, Cat
<1>3. n \in 1 .. Len(toClient)
  <2>1. Min({Chunk, Len(toClient)}) \in Int
    BY <1>1, MinOfTwo
  <2>2. Min({Chunk, Len(toClient)}) <= Len(toClient)
    BY <1>1, MinOfTwo
  <2> QED
    BY <1>1, <2>1, <2>2
<1>4. Hears(n) \/ Lacks(n)
  BY <1>2 DEF Hears, Lacks
<1> QED
  BY <1>2, <1>3, <1>4 DEF receive
-----------------------------------------------------------------------------
(* The streams stay typed, and nothing is lost, doubled or moved. *)
AllStreams ==
    /\ toServer \in Streams /\ readbuf \in Streams /\ writebuf \in Streams
    /\ toClient \in Streams /\ res \in Streams /\ sent \in Streams
    /\ took \in Streams /\ said \in Streams /\ got \in Streams

Counts ==
    /\ eager \in BOOLEAN
    /\ phase \in {"idle", "header", "await", "dead"}
    /\ asked \in 0 .. MaxRequests
    /\ size \in Nat
    /\ writing \in BOOLEAN
    /\ screen \in {"blank", "reply", "garbage"}
    /\ served \in Seq(Nat) /\ heard \in Seq(Nat)

LEMMA TypedParts ==
    /\ FramingTypeOK <=> AllStreams /\ Counts
    /\ FramingTypeOK' <=> AllStreams' /\ Counts'
BY DEF FramingTypeOK, AllStreams, Counts, Streams

LEMMA WholeNumbered ==
    ASSUME NEW s \in Streams
    PROVE  (IF IsMessage(s, s[1].m) THEN s[1].m ELSE Garbled) \in Nat
<1>1. CASE ~IsMessage(s, s[1].m)
  BY <1>1 DEF Garbled
<1>2. CASE IsMessage(s, s[1].m)
  <2>1. s[1] \in Units
    BY <1>2, Typed DEF IsMessage
  <2> QED
    BY <1>2, <2>1 DEF Units
<1> QED
  BY <1>1, <1>2

LEMMA AnswerTyped ==
    ASSUME NEW c \in Nat \ {0}, NEW a \in AnswerLens
    PROVE  /\ Part(c, HeaderLen + a, 1, HeaderLen + a) \in Streams
           /\ Len(Part(c, HeaderLen + a, 1, HeaderLen + a)) = HeaderLen + a
           /\ \A j \in 1 .. HeaderLen + a :
                Part(c, HeaderLen + a, 1, HeaderLen + a)[j] = Unit(c, j, HeaderLen + a)
<1>1. PICK len \in Nat : len = HeaderLen + a
  BY LengthAssumption
<1>2. PICK one \in Nat \ {0} : one = 1
  OBVIOUS
<1>3. one - 1 <= len
  BY <1>2
<1>4. /\ Part(c, len, one, len) \in Streams
      /\ Len(Part(c, len, one, len)) = len - one + 1
      /\ \A j \in 1 .. (len - one + 1) :
           Part(c, len, one, len)[j] = Unit(c, one + j - 1, len)
  BY <1>3, PartTyped
<1>5. len - one + 1 = len /\ \A j \in 1 .. len : one + j - 1 = j
  BY <1>2
<1> QED
  BY <1>1, <1>2, <1>4, <1>5

(* What an execution adds. *)
LEMMA ExecutesTyped ==
    ASSUME Inv, NEW n \in 1 .. Len(toServer), Executes(n)
    PROVE  /\ served' \in Seq(Nat) /\ Len(served') = Len(served) + 1
           /\ \E a \in AnswerLens :
                LET answer == Part(Len(served) + 1, HeaderLen + a, 1, HeaderLen + a) IN
                /\ answer \in Streams
                /\ writebuf' = Cat(writebuf, answer)
                /\ said' = Cat(said, answer)
<1>1. /\ AllStreams /\ served \in Seq(Nat)
  BY TypedParts DEF Inv, Counts
<1>2. First(toServer, n) \in Streams
  BY <1>1, Typed, CutTyped DEF AllStreams
<1>3. Cat(readbuf, First(toServer, n)) \in Streams
  BY <1>1, <1>2, CatTyped DEF AllStreams
<1>4. served' \in Seq(Nat) /\ Len(served') = Len(served) + 1
  <2>1. PICK e \in Nat : served' = Append(served, e)
    BY <1>3, WholeNumbered DEF Executes
  <2> QED
    BY <1>1, <2>1
<1>5. Len(served) + 1 \in Nat \ {0}
  BY <1>1
<1> QED
  BY <1>4, <1>5, AnswerTyped DEF Executes

LEMMA TypesKept ==
    ASSUME Inv, Next
    PROVE  FramingTypeOK'
<1>1. AllStreams /\ Counts
  BY TypedParts DEF Inv
<1>2. << >> \in Streams
  BY Typed
<1>3. CASE sendHeader
  <2>1. AllStreams'
    BY <1>1, <1>3, SendsHeader, CatTyped DEF AllStreams, server
  <2>2. Counts'
    BY <1>1, <1>3, SendsHeader DEF Counts, server
  <2> QED
    BY <2>1, <2>2, TypedParts
<1>4. CASE sendText
  <2>1. AllStreams'
    BY <1>1, <1>4, SendsText, CatTyped DEF AllStreams, server
  <2>2. Counts'
    BY <1>1, <1>4, SendsText DEF Counts, server
  <2> QED
    BY <2>1, <2>2, TypedParts
<1>5. CASE onMessage
  <2>1. PICK n \in 1 .. Len(toServer) :
          /\ toServer' = Rest(toServer, n)
          /\ Executes(n) \/ Waits(n)
          /\ UNCHANGED << client, toClient >>
    BY <1>5, Messages
  <2>2. First(toServer, n) \in Streams /\ Rest(toServer, n) \in Streams
    BY <1>1, Typed, CutTyped DEF AllStreams
  <2>3. Cat(readbuf, First(toServer, n)) \in Streams
    BY <1>1, <2>2, CatTyped DEF AllStreams
  <2>4. CASE Executes(n)
    <3>1. AllStreams'
      <4>1. PICK answer \in Streams :
              writebuf' = Cat(writebuf, answer) /\ said' = Cat(said, answer)
        BY <2>4, ExecutesTyped
      <4>2. writebuf' \in Streams /\ said' \in Streams
        BY <1>1, <4>1, CatTyped DEF AllStreams
      <4>3. readbuf' = << >> /\ took' \in Streams
        BY <1>1, <2>3, <2>4, CatTyped DEF AllStreams, Executes
      <4> QED
        BY <1>1, <1>2, <2>1, <2>2, <4>2, <4>3 DEF AllStreams, client
    <3>2. Counts'
      BY <1>1, <2>1, <2>4, ExecutesTyped DEF Counts, Executes, client
    <3> QED
      BY <3>1, <3>2, TypedParts
  <2>5. CASE Waits(n)
    <3>1. AllStreams' /\ Counts'
      BY <1>1, <2>1, <2>2, <2>3, <2>5 DEF AllStreams, Counts, Waits, client
    <3> QED
      BY <3>1, TypedParts
  <2> QED
    BY <2>1, <2>4, <2>5
<1>6. CASE onWrite
  <2>1. PICK n \in 1 .. Len(writebuf) :
          /\ toClient' = Cat(toClient, First(writebuf, n))
          /\ writebuf' = Rest(writebuf, n)
          /\ writing' \in BOOLEAN
          /\ UNCHANGED << client, toServer, readbuf, took, served, said >>
    BY <1>6, Writes
  <2>2. First(writebuf, n) \in Streams /\ Rest(writebuf, n) \in Streams
    BY <1>1, Typed, CutTyped DEF AllStreams
  <2>3. AllStreams' /\ Counts'
    BY <1>1, <2>1, <2>2, CatTyped DEF AllStreams, Counts, client
  <2> QED
    BY <2>3, TypedParts
<1>7. CASE receive
  <2>1. PICK n \in 1 .. Len(toClient) :
          /\ toClient' = Rest(toClient, n)
          /\ Hears(n) \/ Lacks(n)
          /\ phase = "await"
          /\ UNCHANGED << eager, asked, size, sent, server, toServer >>
    BY <1>7, Receives
  <2>2. First(toClient, n) \in Streams /\ Rest(toClient, n) \in Streams
    BY <1>1, Typed, CutTyped DEF AllStreams
  <2>3. Cat(res, First(toClient, n)) \in Streams
    BY <1>1, <2>2, CatTyped DEF AllStreams
  <2>4. CASE Hears(n)
    <3>1. AllStreams'
      BY <1>1, <1>2, <2>1, <2>2, <2>3, <2>4, CatTyped DEF AllStreams, Hears, server
    <3>2. heard' \in Seq(Nat)
      <4>1. PICK e \in Nat : heard' = Append(heard, e)
        BY <2>3, <2>4, WholeNumbered DEF Hears
      <4> QED
        BY <1>1, <4>1 DEF Counts
    <3>3. Counts'
      BY <1>1, <2>1, <2>4, <3>2 DEF Counts, Hears, server
    <3> QED
      BY <3>1, <3>3, TypedParts
  <2>5. CASE Lacks(n)
    <3>1. AllStreams' /\ Counts'
      BY <1>1, <2>1, <2>2, <2>3, <2>5 DEF AllStreams, Counts, Lacks, server
    <3> QED
      BY <3>1, TypedParts
  <2> QED
    BY <2>1, <2>4, <2>5
<1> QED
  BY <1>3, <1>4, <1>5, <1>6, <1>7 DEF Next

LEMMA StreamsKept ==
    ASSUME Inv, Next
    PROVE  StreamsIntact'
<1>1. AllStreams
  BY TypedParts DEF Inv
<1>2. /\ sent = Cat(Cat(took, readbuf), toServer)
      /\ said = Cat(Cat(Cat(got, res), toClient), writebuf)
  BY Intact DEF Inv
<1>3. SUFFICES /\ sent' = Cat(Cat(took', readbuf'), toServer')
               /\ said' = Cat(Cat(Cat(got', res'), toClient'), writebuf')
  BY Intact
<1>4. /\ Cat(took, readbuf) \in Streams
      /\ Cat(got, res) \in Streams /\ Cat(Cat(got, res), toClient) \in Streams
  BY <1>1, CatTyped DEF AllStreams
<1>5. CASE sendHeader
  BY <1>1, <1>2, <1>4, <1>5, SendsHeader, CatAssociates DEF AllStreams, server
<1>6. CASE sendText
  BY <1>1, <1>2, <1>4, <1>6, SendsText, CatAssociates DEF AllStreams, server
<1>7. CASE onMessage
  <2>1. PICK n \in 1 .. Len(toServer) :
          /\ toServer' = Rest(toServer, n)
          /\ Executes(n) \/ Waits(n)
          /\ UNCHANGED << client, toClient >>
    BY <1>7, Messages
  <2>2. First(toServer, n) \in Streams
    BY <1>1, Typed, CutTyped DEF AllStreams
  <2>3. Cat(Cat(took, Cat(readbuf, First(toServer, n))), Rest(toServer, n)) = sent
    BY <1>1, <1>2, Typed, Moved DEF AllStreams
  <2>4. CASE Executes(n)
    <3>1. Cat(took, Cat(readbuf, First(toServer, n))) \in Streams
      BY <1>1, <2>2, CatTyped DEF AllStreams
    <3>2. Cat(took', readbuf') = took'
      BY <2>4, <3>1, CatNothing DEF Executes
    <3>3. sent' = Cat(Cat(took', readbuf'), toServer')
      BY <2>1, <2>3, <2>4, <3>2 DEF Executes, client
    <3>4. PICK answer \in Streams :
            writebuf' = Cat(writebuf, answer) /\ said' = Cat(said, answer)
      BY <2>4, ExecutesTyped
    <3>5. said' = Cat(Cat(Cat(got, res), toClient), writebuf')
      BY <1>1, <1>2, <1>4, <3>4, CatAssociates DEF AllStreams
    <3> QED
      BY <2>1, <3>3, <3>5 DEF client
  <2>5. CASE Waits(n)
    BY <1>2, <2>1, <2>3, <2>5 DEF Waits, client
  <2> QED
    BY <2>1, <2>4, <2>5
<1>8. CASE onWrite
  <2>1. PICK n \in 1 .. Len(writebuf) :
          /\ toClient' = Cat(toClient, First(writebuf, n))
          /\ writebuf' = Rest(writebuf, n)
          /\ writing' \in BOOLEAN
          /\ UNCHANGED << client, toServer, readbuf, took, served, said >>
    BY <1>8, Writes
  <2>2. Cat(Cat(Cat(got, res), Cat(toClient, First(writebuf, n))), Rest(writebuf, n))
          = said
    BY <1>1, <1>2, <1>4, Typed, Moved DEF AllStreams
  <2> QED
    BY <1>2, <2>1, <2>2 DEF client
<1>9. CASE receive
  <2>1. PICK n \in 1 .. Len(toClient) :
          /\ toClient' = Rest(toClient, n)
          /\ Hears(n) \/ Lacks(n)
          /\ phase = "await"
          /\ UNCHANGED << eager, asked, size, sent, server, toServer >>
    BY <1>9, Receives
  <2>2. First(toClient, n) \in Streams
    BY <1>1, Typed, CutTyped DEF AllStreams
  <2>3. Cat(Cat(got, Cat(res, First(toClient, n))), Rest(toClient, n))
          = Cat(Cat(got, res), toClient)
    BY <1>1, Typed, Moved DEF AllStreams
  <2>4. CASE Hears(n)
    <3>1. Cat(got, Cat(res, First(toClient, n))) \in Streams
      BY <1>1, <2>2, CatTyped DEF AllStreams
    <3>2. Cat(got', res') = got'
      BY <2>4, <3>1, CatNothing DEF Hears
    <3> QED
      BY <1>2, <2>1, <2>3, <2>4, <3>2 DEF Hears, server
  <2>5. CASE Lacks(n)
    BY <1>2, <2>1, <2>3, <2>5 DEF Lacks, server
  <2> QED
    BY <2>1, <2>4, <2>5
<1> QED
  BY <1>5, <1>6, <1>7, <1>8, <1>9 DEF Next
-----------------------------------------------------------------------------
(* Where requests begin and end in what was sent. *)
LEMMA UnitParts ==
    ASSUME NEW m, NEW i, NEW n
    PROVE  Unit(m, i, n).m = m /\ Unit(m, i, n).i = i /\ Unit(m, i, n).n = n
BY DEF Unit

LEMMA UnitsTyped ==
    ASSUME NEW s \in Streams
    PROVE  \A j \in 1 .. Len(s) :
             s[j].m \in Nat \ {0} /\ s[j].i \in Nat \ {0} /\ s[j].n \in Nat
BY Typed DEF Units

(* Units joined to a run of messages, of which the last has c units so far. *)
LEMMA RunsOn ==
    ASSUME NEW s \in Streams, Runs(s), NEW p \in Streams,
           NEW m \in Nat \ {0}, NEW n \in Nat, NEW c \in Nat,
           \A j \in 1 .. Len(p) : p[j] = Unit(m, c + j, n),
           HeaderLen < n, c + Len(p) <= n, c < n,
           c = 0 => (s # << >> => s[Len(s)].i = s[Len(s)].n),
           c # 0 => s # << >> /\ s[Len(s)] = Unit(m, c, n)
    PROVE  Runs(Cat(s, p))
<1> DEFINE w == Cat(s, p)
           L == Len(s)
<1>0. /\ c \in Nat /\ n \in Nat /\ c < n /\ c + Len(p) <= n
      /\ \A j \in 1 .. Len(p) : p[j] = Unit(m, c + j, n)
  OBVIOUS
<1>1. /\ w \in Streams /\ L \in Nat /\ Len(p) \in Nat /\ Len(w) = L + Len(p)
      /\ DOMAIN w = 1 .. Len(w) /\ DOMAIN s = 1 .. L
      /\ w # << >> <=> Len(w) # 0
      /\ s # << >> <=> L # 0
  BY CatTyped, Typed
<1>2. \A j \in 1 .. L : w[j] = s[j]
  BY CatTyped
<1>3. \A j \in 1 .. Len(p) : w[L + j] = p[j]
  BY CatTyped
<1> HIDE DEF w, L
<1>4. \A j \in (L + 1) .. Len(w) : w[j] = Unit(m, c + (j - L), n)
  <2> TAKE j \in (L + 1) .. Len(w)
  <2>1. j - L \in 1 .. Len(p)
    BY <1>1
  <2>2. L + (j - L) = j
    BY <1>1
  <2>3. w[L + (j - L)] = p[j - L]
    BY <1>3, <2>1
  <2> QED
    BY <2>1, <2>2, <2>3
<1>5. \A j \in (L + 1) .. Len(w) :
        w[j].m = m /\ w[j].i = c + (j - L) /\ w[j].n = n
  BY <1>4, UnitParts
<1>6. \A j \in 1 .. L : /\ s[j].i \in Nat \ {0} /\ s[j].n \in Nat
                        /\ HeaderLen < s[j].n /\ s[j].i <= s[j].n
  BY <1>1, UnitsTyped DEF Runs, L
<1>7. HeaderLen \in Nat
  BY LengthAssumption
<1>8. w # << >> => w[1].i = 1
  <2> SUFFICES ASSUME w # << >> PROVE w[1].i = 1
    OBVIOUS
  <2>1. CASE L = 0
    <3>1. c = 0
      BY <1>1, <2>1
    <3>2. 1 \in (L + 1) .. Len(w)
      BY <1>1, <2>1
    <3>3. w[1].i = c + (1 - L)
      BY <1>5, <3>2
    <3> QED
      BY <2>1, <3>1, <3>3
  <2>2. CASE L # 0
    <3>1. 1 \in 1 .. L
      BY <1>1, <2>2
    <3> QED
      BY <1>1, <1>2, <2>2, <3>1 DEF Runs
  <2> QED
    BY <2>1, <2>2
<1>9. \A j \in DOMAIN w : HeaderLen < w[j].n /\ w[j].i <= w[j].n
  <2> TAKE j \in DOMAIN w
  <2>1. CASE j <= L
    <3>1. j \in 1 .. L
      BY <1>1, <2>1
    <3> QED
      BY <1>2, <1>6, <3>1
  <2>2. CASE j > L
    <3>1. j \in (L + 1) .. Len(w) /\ j - L <= Len(p)
      BY <1>1, <2>2
    <3>2. w[j].i = c + (j - L) /\ w[j].n = n
      BY <1>5, <3>1
    <3>3. c + (j - L) <= c + Len(p)
      BY <1>1, <3>1
    <3> QED
      BY <1>1, <3>1, <3>2, <3>3
  <2> QED
    BY <1>1, <2>1, <2>2
<1>10. ASSUME NEW j \in DOMAIN w, NEW l \in DOMAIN w,
              j <= l, l - j <= w[j].n - w[j].i
       PROVE  w[l] = Unit(w[j].m, w[j].i + (l - j), w[j].n)
  <2>1. CASE l <= L
    <3>1. j \in 1 .. L /\ l \in 1 .. L
      BY <1>1, <1>10, <2>1
    <3> QED
      BY <1>1, <1>2, <1>10, <3>1 DEF Runs
  <2>2. CASE j > L
    <3>1. j \in (L + 1) .. Len(w) /\ l \in (L + 1) .. Len(w)
      BY <1>1, <1>10, <2>2
    <3>2. w[j].m = m /\ w[j].i = c + (j - L) /\ w[j].n = n
      BY <1>5, <3>1
    <3>3. w[l] = Unit(m, c + (l - L), n)
      BY <1>4, <3>1
    <3>4. c + (l - L) = (c + (j - L)) + (l - j)
      BY <1>1, <3>1
    <3> QED
      BY <3>2, <3>3, <3>4
  <2>3. CASE j <= L /\ l > L
    <3>1. j \in 1 .. L /\ L \in 1 .. L /\ l \in (L + 1) .. Len(w)
      BY <1>1, <1>10, <2>3
    <3>2. w[j] = s[j] /\ s[j].i \in Nat \ {0} /\ s[j].n \in Nat
      BY <1>2, <1>6, <3>1
    <3>3. j <= L /\ L - j < s[j].n - s[j].i
      BY <1>1, <1>10, <3>1, <3>2
    <3>4. s[L] = Unit(s[j].m, s[j].i + (L - j), s[j].n)
      <4>1. L - j <= s[j].n - s[j].i
        BY ONLY <1>1, <3>1, <3>2, <3>3
      <4> QED
        BY <1>1, <3>1, <3>3, <4>1 DEF Runs
    <3>5. s[L].i = s[j].i + (L - j) /\ s[L].n = s[j].n /\ s[L].m = s[j].m
      BY <3>4, UnitParts
    <3>6. s[L].i < s[L].n
      BY <1>1, <3>1, <3>2, <3>3, <3>5
    <3>7. c # 0 /\ s[L] = Unit(m, c, n)
      BY <1>1, <1>6, <3>1, <3>6 DEF L
    <3>8. s[L].m = m /\ s[L].i = c /\ s[L].n = n
      BY <3>7, UnitParts
    <3>9. w[l] = Unit(m, c + (l - L), n)
      BY <1>4, <3>1
    <3>10. c + (l - L) = s[j].i + (l - j)
      <4>1. c = s[j].i + (L - j)
        BY ONLY <3>5, <3>8
      <4> QED
        BY ONLY <1>1, <3>1, <3>2, <4>1
    <3> QED
      BY <3>2, <3>5, <3>8, <3>9, <3>10
  <2> QED
    BY <1>1, <2>1, <2>2, <2>3
<1>11. ASSUME NEW j \in DOMAIN w, j < Len(w), w[j].i = w[j].n
       PROVE  w[j + 1].i = 1
  <2>1. CASE j < L
    <3>1. j \in 1 .. L /\ j + 1 \in 1 .. L
      BY <1>1, <2>1
    <3> QED
      BY <1>1, <1>2, <1>11, <2>1, <3>1 DEF Runs, L
  <2>2. CASE j = L
    <3>1. j \in 1 .. L /\ j + 1 \in (L + 1) .. Len(w)
      BY <1>1, <1>11, <2>2
    <3>2. s[L].i = s[L].n
      BY <1>2, <1>11, <2>2, <3>1
    <3>3. c = 0
      <4> SUFFICES ASSUME c # 0 PROVE FALSE
        OBVIOUS
      <4>1. s[L].i = c /\ s[L].n = n
        BY UnitParts DEF L
      <4> QED
        <5>1. c = n
          BY ONLY <3>2, <4>1
        <5>2. c \in Nat /\ n \in Nat /\ c < n
          BY ONLY <1>0
        <5> QED
          BY ONLY <5>1, <5>2
    <3>4. w[j + 1].i = c + ((j + 1) - L)
      BY <1>5, <3>1
    <3> QED
      BY <1>1, <2>2, <3>3, <3>4
  <2>3. CASE j > L
    <3>1. j \in (L + 1) .. Len(w)
      BY <1>1, <2>3
    <3>2. w[j].i = c + (j - L) /\ w[j].n = n
      BY <1>5, <3>1
    <3>3. c + (j - L) < c + Len(p)
      BY <1>1, <1>11, <3>1
    <3> QED
      <4>1. n = c + (j - L)
        BY ONLY <1>11, <3>2
      <4>2. c \in Nat /\ n \in Nat /\ c + Len(p) <= n
        BY ONLY <1>0
      <4>3. j \in Int /\ L \in Int /\ Len(p) \in Int
        BY <1>1
      <4> QED
        BY ONLY <3>3, <4>1, <4>2, <4>3
  <2> QED
    BY <1>1, <2>1, <2>2, <2>3
<1>12. Runs(w)
  BY <1>8, <1>9, <1>10, <1>11 DEF Runs
<1> QED
  BY <1>12 DEF w

LEMMA HeaderPart ==
    ASSUME NEW m \in Nat \ {0}, NEW n \in Nat
    PROVE  /\ Part(m, n, 1, HeaderLen) \in Streams
           /\ Len(Part(m, n, 1, HeaderLen)) = HeaderLen
           /\ \A j \in 1 .. HeaderLen : Part(m, n, 1, HeaderLen)[j] = Unit(m, j, n)
<1>1. HeaderLen \in Nat
  BY LengthAssumption
<1>2. PICK one \in Nat \ {0} : one = 1
  OBVIOUS
<1>3. one - 1 <= HeaderLen
  BY <1>1, <1>2
<1>4. /\ Part(m, n, one, HeaderLen) \in Streams
      /\ Len(Part(m, n, one, HeaderLen)) = HeaderLen - one + 1
      /\ \A j \in 1 .. (HeaderLen - one + 1) :
           Part(m, n, one, HeaderLen)[j] = Unit(m, one + j - 1, n)
  BY <1>1, <1>3, PartTyped
<1>5. HeaderLen - one + 1 = HeaderLen /\ \A j \in 1 .. HeaderLen : one + j - 1 = j
  BY <1>1, <1>2
<1> QED
  BY <1>2, <1>4, <1>5

LEMMA TextPart ==
    ASSUME NEW m \in Nat \ {0}, NEW n \in Nat, HeaderLen < n
    PROVE  /\ Part(m, n, HeaderLen + 1, n) \in Streams
           /\ Len(Part(m, n, HeaderLen + 1, n)) = n - HeaderLen
           /\ \A j \in 1 .. (n - HeaderLen) :
                Part(m, n, HeaderLen + 1, n)[j] = Unit(m, HeaderLen + j, n)
<1>1. HeaderLen \in Nat
  BY LengthAssumption
<1>2. PICK b \in Nat \ {0} : b = HeaderLen + 1
  BY <1>1
<1>3. b - 1 <= n
  BY <1>1, <1>2
<1>4. /\ Part(m, n, b, n) \in Streams
      /\ Len(Part(m, n, b, n)) = n - b + 1
      /\ \A j \in 1 .. (n - b + 1) : Part(m, n, b, n)[j] = Unit(m, b + j - 1, n)
  BY <1>3, PartTyped
<1>5. n - b + 1 = n - HeaderLen
      /\ \A j \in 1 .. (n - HeaderLen) : b + j - 1 = HeaderLen + j
  BY <1>1, <1>2
<1> QED
  BY <1>2, <1>4, <1>5

LEMMA LastOf ==
    ASSUME NEW s \in Streams, NEW p \in Streams, p # << >>
    PROVE  /\ Cat(s, p) # << >>
           /\ Cat(s, p)[Len(Cat(s, p))] = p[Len(p)]
<1>1. Len(p) \in 1 .. Len(p) /\ Len(s) \in Nat /\ Len(p) \in Nat \ {0}
  BY Typed
<1>2. Cat(s, p) \in Streams /\ Len(Cat(s, p)) = Len(s) + Len(p)
  BY CatTyped
<1>3. Cat(s, p)[Len(s) + Len(p)] = p[Len(p)]
  BY <1>1, CatTyped
<1> QED
  BY <1>1, <1>2, <1>3, Typed

LEMMA RunsKept ==
    ASSUME Inv, Next
    PROVE  Runs(sent)' /\ Border'
<1>1. sent \in Streams /\ Runs(sent) /\ HeaderLen \in Nat \ {0}
  BY Flows, LengthAssumption DEF Inv
<1>2. CASE sendHeader
  <2>1. phase # "header"
    BY <1>2 DEF sendHeader
  <2>2. sent # << >> => sent[Len(sent)].i = sent[Len(sent)].n
    BY <2>1 DEF Inv, Border
  <2>3. PICK m \in Nat \ {0}, n \in Nat : m = asked' /\ n = size' /\ HeaderLen < n
    BY <1>2, SendsHeader, Flows DEF Inv
  <2>4. PICK p \in Streams : p = Part(m, n, 1, HeaderLen)
    BY <2>3, HeaderPart
  <2>5. Len(p) = HeaderLen /\ \A j \in 1 .. HeaderLen : p[j] = Unit(m, j, n)
    BY <2>3, <2>4, HeaderPart
  <2>6. sent' = Cat(sent, p)
    BY <1>2, <2>3, <2>4, SendsHeader
  <2>7. PICK c \in Nat : c = 0
    OBVIOUS
  <2>8. \A j \in 1 .. Len(p) : p[j] = Unit(m, c + j, n)
    <3> TAKE j \in 1 .. Len(p)
    <3>1. c + j = j
      BY <2>7
    <3> QED
      BY <2>5, <3>1
  <2>9. HeaderLen < n /\ c + Len(p) <= n /\ c < n
    BY <1>1, <2>3, <2>5, <2>7
  <2>10. Runs(Cat(sent, p))
    <3>1. c # 0 => sent # << >> /\ sent[Len(sent)] = Unit(m, c, n)
      BY <2>7
    <3> QED
      BY <1>1, <2>2, <2>8, <2>9, <3>1, RunsOn
  <2>11. p # << >> /\ p[Len(p)] = Unit(m, HeaderLen, n)
    BY <1>1, <2>5, Typed
  <2>12. sent' # << >> /\ sent'[Len(sent')] = Unit(m, HeaderLen, n)
    BY <1>1, <2>6, <2>11, LastOf
  <2>13. Border'
    BY <1>2, <2>3, <2>12, SendsHeader DEF Border
  <2> QED
    BY <2>6, <2>10, <2>13
<1>3. CASE sendText
  <2>1. /\ asked > 0 /\ HeaderLen < size
        /\ sent # << >> /\ sent[Len(sent)] = Unit(asked, HeaderLen, size)
    BY <1>3 DEF sendText, Inv, Border
  <2>2. PICK m \in Nat \ {0}, n \in Nat : m = asked /\ n = size /\ HeaderLen < n
    BY <2>1, Flows DEF Inv
  <2>3. PICK p \in Streams : p = Part(m, n, HeaderLen + 1, n)
    BY <2>2, TextPart
  <2>4. Len(p) = n - HeaderLen
        /\ \A j \in 1 .. Len(p) : p[j] = Unit(m, HeaderLen + j, n)
    BY <2>2, <2>3, TextPart
  <2>5. sent' = Cat(sent, p)
    BY <1>3, <2>2, <2>3, SendsText
  <2>6. HeaderLen + Len(p) <= n /\ Len(p) \in 1 .. Len(p) /\ HeaderLen + Len(p) = n
    BY <1>1, <2>2, <2>4
  <2>7. Runs(Cat(sent, p))
    <3>1. PICK c \in Nat : c = HeaderLen
      BY <1>1
    <3>2. /\ \A j \in 1 .. Len(p) : p[j] = Unit(m, c + j, n)
          /\ HeaderLen < n /\ c + Len(p) <= n /\ c < n
          /\ c = 0 => (sent # << >> => sent[Len(sent)].i = sent[Len(sent)].n)
          /\ c # 0 => sent # << >> /\ sent[Len(sent)] = Unit(m, c, n)
      BY <1>1, <2>1, <2>2, <2>4, <2>6, <3>1
    <3> QED
      BY <1>1, <3>2, RunsOn
  <2>8. p # << >> /\ p[Len(p)] = Unit(m, n, n)
    <3>1. p[Len(p)] = Unit(m, HeaderLen + Len(p), n)
      BY <2>4, <2>6
    <3> QED
      BY <2>6, <3>1, Typed
  <2>9. sent' # << >> /\ sent'[Len(sent')] = Unit(m, n, n)
    BY <1>1, <2>5, <2>8, LastOf
  <2>10. Border'
    BY <1>3, <2>9, SendsText, UnitParts DEF Border
  <2> QED
    BY <2>5, <2>7, <2>10
<1>4. CASE onMessage \/ onWrite
  <2>1. UNCHANGED client
    BY <1>4 DEF onMessage, onWrite
  <2> QED
    BY <1>1, <2>1 DEF client, Inv, Border
<1>5. CASE receive
  <2>1. sent' = sent /\ phase = "await" /\ phase' # "header"
    BY <1>5, Receives DEF Hears, Lacks
  <2> QED
    BY <1>1, <2>1 DEF Inv, Border
<1> QED
  BY <1>2, <1>3, <1>4, <1>5 DEF Next
-----------------------------------------------------------------------------
(* A buffer that begins with a header is measured by it. *)
LEMMA HeaderSpells ==
    ASSUME NEW s, s[1].i = 1, s[HeaderLen].m = s[1].m
    PROVE  /\ Spelled(s) = {s[1].n}
           /\ Complete(s) => Len(s) >= s[1].n
           /\ Incomplete(s) => Len(s) < s[1].n
           /\ Enough(s) => Len(s) >= s[1].n
           /\ Lacking(s) => Len(s) < s[1].n
<1>1. Spelled(s) = {s[1].n}
  BY DEF Spelled
<1> QED
  BY <1>1 DEF Complete, Incomplete, Enough, Lacking

(* Where the last text ended with a request, the buffer begins one. *)
LEMMA BufferBegins ==
    ASSUME Inv, NEW n \in 1 .. Len(toServer),
           took = << >> \/ took[Len(took)].i = took[Len(took)].n,
           NEW b, b = Cat(readbuf, First(toServer, n))
    PROVE  /\ b \in Streams /\ Len(b) \in Nat \ {0}
           /\ b[1].n \in Nat /\ HeaderLen < b[1].n
           /\ \A j \in 1 .. Len(b) :
                j <= b[1].n => b[j] = Unit(b[1].m, j, b[1].n)
<1>1. AllStreams /\ HeaderLen \in Nat \ {0}
  BY TypedParts, LengthAssumption DEF Inv
<1>2. PICK f \in Streams, r \in Streams :
         /\ f = First(toServer, n) /\ Len(f) = n
         /\ r = Rest(toServer, n)
  BY <1>1, Typed, CutTyped DEF AllStreams
<1>3. b \in Streams /\ Len(b) = Len(readbuf) + n
  <2>1. readbuf \in Streams /\ f \in Streams /\ Len(f) = n
    BY <1>1, <1>2 DEF AllStreams
  <2>2. Cat(readbuf, f) \in Streams /\ Len(Cat(readbuf, f)) = Len(readbuf) + Len(f)
    BY ONLY <2>1, CatTyped
  <2>3. b = Cat(readbuf, f)
    BY <1>2
  <2> QED
    BY ONLY <2>1, <2>2, <2>3
<1>4. sent = Cat(Cat(took, b), r)
  <2>1. sent = Cat(Cat(took, readbuf), toServer)
    BY Intact DEF Inv
  <2>2. Cat(Cat(took, Cat(readbuf, First(toServer, n))), Rest(toServer, n)) = sent
    BY <1>1, <2>1, Typed, Moved DEF AllStreams
  <2> QED
    BY <1>2, <2>2
<1>5. PICK w \in Streams : w = sent /\ Runs(w)
  BY <1>1 DEF AllStreams, Inv
<1>6. PICK t \in Nat : t = Len(took)
  BY <1>1, Typed DEF AllStreams
<1>7. /\ Cat(took, b) \in Streams /\ Len(Cat(took, b)) = t + Len(b)
      /\ \A j \in 1 .. Len(b) : Cat(took, b)[t + j] = b[j]
      /\ \A j \in 1 .. t : Cat(took, b)[j] = took[j]
  <2>1. took \in Streams /\ b \in Streams
    BY <1>1, <1>3 DEF AllStreams
  <2>2. /\ Cat(took, b) \in Streams /\ Len(Cat(took, b)) = Len(took) + Len(b)
        /\ \A j \in 1 .. Len(b) : Cat(took, b)[Len(took) + j] = b[j]
        /\ \A j \in 1 .. Len(took) : Cat(took, b)[j] = took[j]
    BY ONLY <2>1, CatTyped
  <2> QED
    BY ONLY <1>6, <2>2
<1>8. /\ \A j \in 1 .. t + Len(b) : w[j] = Cat(took, b)[j]
      /\ Len(w) = t + Len(b) + Len(r)
  <2>1. Cat(took, b) \in Streams /\ r \in Streams
    BY <1>7
  <2>2. /\ Len(Cat(Cat(took, b), r)) = Len(Cat(took, b)) + Len(r)
        /\ \A j \in 1 .. Len(Cat(took, b)) :
             Cat(Cat(took, b), r)[j] = Cat(took, b)[j]
    BY ONLY <2>1, CatTyped
  <2>3. w = Cat(Cat(took, b), r) /\ Len(Cat(took, b)) = t + Len(b)
    BY ONLY <1>4, <1>5, <1>7
  <2> QED
    BY ONLY <2>2, <2>3
<1>9. Len(b) \in Nat \ {0} /\ Len(r) \in Nat /\ DOMAIN w = 1 .. Len(w)
  BY <1>1, <1>3, Typed DEF AllStreams
<1>10. \A j \in 1 .. Len(b) : w[t + j] = b[j] /\ t + j \in DOMAIN w
  BY <1>7, <1>8, <1>9
<1>11. \A j \in 1 .. t : w[j] = took[j] /\ j \in DOMAIN w /\ j < Len(w)
  BY <1>7, <1>8, <1>9
<1>12. 1 \in 1 .. Len(b) /\ w[t + 1] = b[1] /\ t + 1 \in DOMAIN w
  BY <1>9, <1>10
<1>13. b[1].i = 1
  <2>1. CASE t = 0
    <3>1. w[1].i = 1
      BY <1>5, <1>8, <1>9, Typed DEF Runs
    <3> QED
      BY <1>12, <2>1, <3>1
  <2>2. CASE t # 0
    <3>1. t \in 1 .. t /\ took # << >>
      BY <1>1, <1>6, <2>2, Typed DEF AllStreams
    <3>2. w[t].i = w[t].n /\ t \in DOMAIN w /\ t < Len(w)
      BY <1>6, <1>11, <3>1
    <3>3. w[t + 1].i = 1
      BY <1>5, <3>2 DEF Runs
    <3> QED
      BY <1>12, <3>3
  <2> QED
    BY <2>1, <2>2
<1>14. PICK N \in Nat : N = b[1].n /\ HeaderLen < N
  <2>1. b[1].n \in Nat
    BY <1>3, <1>12, UnitsTyped
  <2>2. HeaderLen < w[t + 1].n
    BY <1>5, <1>12 DEF Runs
  <2> QED
    BY <1>12, <2>1, <2>2
<1>15. ASSUME NEW j \in 1 .. Len(b), j <= N
       PROVE  b[j] = Unit(b[1].m, j, N)
  <2>1. w[t + j] = b[j] /\ t + j \in DOMAIN w
    BY <1>10
  <2>2. (t + j) - (t + 1) <= w[t + 1].n - w[t + 1].i /\ t + 1 <= t + j
    BY <1>12, <1>13, <1>14, <1>15
  <2>3. w[t + j] = Unit(w[t + 1].m, w[t + 1].i + ((t + j) - (t + 1)), w[t + 1].n)
    BY <1>5, <1>12, <2>1, <2>2 DEF Runs
  <2>4. w[t + 1].i + ((t + j) - (t + 1)) = j
    BY <1>12, <1>13
  <2> QED
    BY <1>12, <1>14, <2>1, <2>3, <2>4
<1> QED
  BY <1>3, <1>9, <1>14, <1>15

-----------------------------------------------------------------------------
(* The session of a client that waits. *)
LEMMA Front ==
    ASSUME NEW s \in Streams, NEW t \in Streams, NEW m, NEW n,
           Begins(Cat(s, t), m, n)
    PROVE  Begins(s, m, n)
<1>1. Len(Cat(s, t)) = Len(s) + Len(t) /\ \A j \in 1 .. Len(s) : Cat(s, t)[j] = s[j]
  BY CatTyped
<1>2. Len(s) \in Nat /\ Len(t) \in Nat
  BY Typed
<1>3. \A j \in 1 .. Len(s) : j \in 1 .. Len(Cat(s, t))
  BY ONLY <1>1, <1>2
<1> QED
  BY <1>1, <1>3 DEF Begins

LEMMA BeginsMeasured ==
    ASSUME NEW s \in Streams, NEW m, NEW n \in Nat, Begins(s, m, n),
           Len(s) >= HeaderLen
    PROVE  /\ Complete(s) \/ Enough(s) => Len(s) >= n
           /\ Incomplete(s) \/ Lacking(s) => Len(s) < n
<1>1. HeaderLen \in Nat \ {0} /\ Len(s) \in Nat
  BY LengthAssumption, Typed
<1>2. 1 \in 1 .. Len(s) /\ HeaderLen \in 1 .. Len(s)
  BY ONLY <1>1, Len(s) >= HeaderLen
<1>3. s[1] = Unit(m, 1, n) /\ s[HeaderLen] = Unit(m, HeaderLen, n)
  BY <1>2 DEF Begins
<1>4. s[1].i = 1 /\ s[HeaderLen].m = s[1].m /\ s[1].n = n
  BY <1>3, UnitParts
<1> QED
  BY <1>4, HeaderSpells

LEMMA BeginsMessage ==
    ASSUME NEW s \in Streams, NEW m, NEW n \in Nat \ {0}, Begins(s, m, n), Len(s) = n
    PROVE  IsMessage(s, s[1].m) /\ s[1].m = m
<1>1. 1 \in 1 .. Len(s) /\ s # << >> /\ DOMAIN s = 1 .. Len(s)
  BY Typed
<1>2. \A j \in 1 .. Len(s) : s[j].m = m /\ s[j].i = j /\ s[j].n = n
  BY UnitParts DEF Begins
<1> QED
  BY <1>1, <1>2 DEF IsMessage

(* What an execution takes when the last one ended with a request. *)
LEMMA TextsBegin ==
    ASSUME Inv, [Next]_vars
    PROVE  [TakesWhole]_vars
<1> DEFINE text == Rest(took', Len(took))
           N == text[1].n
<1>1. SUFFICES ASSUME Next, took' # took,
                      took = << >> \/ took[Len(took)].i = took[Len(took)].n
               PROVE  /\ Len(text) >= N /\ IsMessage(First(text, N), text[1].m)
                      /\ served' = Append(served,
                           IF text = First(text, N) THEN text[1].m ELSE Garbled)
  BY DEF TakesWhole, vars, server
<1>2. AllStreams /\ HeaderLen \in Nat \ {0}
  BY TypedParts, LengthAssumption DEF Inv
<1>3. onMessage
  BY <1>1 DEF Next, sendHeader, sendText, onWrite, receive, server
<1>4. PICK n \in 1 .. Len(toServer) : Executes(n)
  BY <1>1, <1>3, Messages DEF Waits
<1>5. PICK b : b = Cat(readbuf, First(toServer, n))
  OBVIOUS
<1>6. /\ b \in Streams /\ Len(b) \in Nat \ {0}
      /\ b[1].n \in Nat /\ HeaderLen < b[1].n
      /\ \A j \in 1 .. Len(b) : j <= b[1].n => b[j] = Unit(b[1].m, j, b[1].n)
  BY <1>1, <1>5, BufferBegins
<1>7. /\ took' = Cat(took, b)
      /\ Len(b) >= HeaderLen /\ Complete(b)
      /\ served' = Append(served, IF IsMessage(b, b[1].m) THEN b[1].m ELSE Garbled)
  BY <1>4, <1>5 DEF Executes
<1>8. text = b
  BY <1>2, <1>6, <1>7, CutAfter DEF AllStreams
<1>9. 1 \in 1 .. Len(b) /\ HeaderLen \in 1 .. Len(b) /\ HeaderLen <= b[1].n /\ 1 <= b[1].n
  BY <1>2, <1>6, <1>7
<1>10. b[1].i = 1 /\ b[HeaderLen].m = b[1].m
  BY <1>6, <1>9, UnitParts
<1>11. Len(b) >= b[1].n
  BY <1>7, <1>10, HeaderSpells
<1>12. /\ First(b, b[1].n) \in Streams /\ Len(First(b, b[1].n)) = b[1].n
       /\ \A j \in 1 .. b[1].n : First(b, b[1].n)[j] = b[j]
  BY <1>6, <1>11, Typed, FrontOf
<1>13. Begins(First(b, b[1].n), b[1].m, b[1].n) /\ First(b, b[1].n)[1] = b[1]
  BY <1>6, <1>9, <1>11, <1>12 DEF Begins
<1>14. IsMessage(First(b, b[1].n), b[1].m)
  BY <1>2, <1>6, <1>12, <1>13, BeginsMessage
<1>15. b = First(b, b[1].n) <=> IsMessage(b, b[1].m)
  <2>1. ASSUME IsMessage(b, b[1].m) PROVE b = First(b, b[1].n)
    <3>1. Len(b) = b[1].n
      BY <2>1 DEF IsMessage
    <3> QED
      BY <1>6, <3>1, FrontOf
  <2> QED
    BY <1>14, <2>1
<1> QED
  BY <1>7, <1>8, <1>11, <1>14, <1>15

LEMMA SessionState ==
    ASSUME Inv, ~eager
    PROVE  /\ AllStreams /\ HeaderLen \in Nat \ {0} /\ size \in Nat
           /\ asked \in Nat /\ Len(served) \in Nat /\ Len(heard) \in Nat
           /\ served \in Seq(Nat) /\ heard \in Seq(Nat)
           /\ phase \in {"idle", "header", "await", "dead"}
           /\ phase \in {"idle", "dead"} =>
                Unanswered /\ Unasked /\ Len(served) = asked /\ Len(heard) = asked
           /\ phase = "header" => Asking(HeaderLen)
           /\ phase = "await" => Asking(size) \/ Answering
<1>1. AllStreams /\ Counts /\ InSession
  BY TypedParts DEF Inv
<1>2. asked \in Nat /\ Len(served) \in Nat /\ Len(heard) \in Nat
  BY <1>1, LengthAssumption DEF Counts
<1> QED
  BY <1>1, <1>2, LengthAssumption DEF InSession, Counts

LEMMA AskStep ==
    ASSUME Inv, ~eager, sendHeader
    PROVE  InSession' /\ S!Ask /\ eager' = eager
<1>1. phase = "idle"
  BY DEF sendHeader
<1>2. Unanswered /\ Unasked /\ Len(served) = asked /\ Len(heard) = asked
  BY <1>1, SessionState
<1>3. PICK m \in Nat \ {0}, n \in Nat : m = asked' /\ n = size' /\ HeaderLen < n
  BY SendsHeader, Flows DEF Inv
<1>4. PICK p \in Streams : p = Part(m, n, 1, HeaderLen)
  BY <1>3, HeaderPart
<1>5. Len(p) = HeaderLen /\ Begins(p, m, n)
  BY <1>4, HeaderPart DEF Begins
<1>6. readbuf' = << >> /\ toServer' = p
  BY <1>2, <1>3, <1>4, SendsHeader, CatNothing DEF Unasked, server
<1>7. Cat(readbuf', toServer') = p
  BY <1>6, CatNothing
<1>8. Len(readbuf') < n
  BY <1>3, <1>6, Typed, LengthAssumption
<1>9. asked' = asked + 1 /\ Len(served') = m - 1 /\ Len(heard') = m - 1
  BY <1>2, <1>3, SendsHeader, SessionState DEF server
<1>10. Unanswered'
  BY <1>2, SendsHeader DEF Unanswered, server
<1>11. /\ Len(readbuf' \o toServer') = HeaderLen
       /\ Begins(readbuf' \o toServer', asked', size')
  BY <1>3, <1>5, <1>7 DEF Cat
<1>12. phase' = "header"
  BY SendsHeader
<1>13. /\ Len(served') = asked' - 1 /\ Len(heard') = asked' - 1
       /\ Len(readbuf') < size' /\ HeaderLen < size'
  BY <1>3, <1>8, <1>9
<1>14. InSession'
  BY <1>10, <1>11, <1>12, <1>13 DEF InSession, Asking
<1> QED
  BY <1>2, <1>9, <1>14, SendsHeader DEF S!Ask, server

LEMMA TextStep ==
    ASSUME Inv, ~eager, sendText
    PROVE  InSession' /\ UNCHANGED << eager, asked, served, heard >>
<1>1. phase = "header" /\ Asking(HeaderLen)
  BY SessionState DEF sendText
<1>2. PICK m \in Nat \ {0}, n \in Nat : m = asked /\ n = size /\ HeaderLen < n
  BY SendsText, Flows DEF Inv
<1>3. PICK p \in Streams : p = Part(m, n, HeaderLen + 1, n)
  BY <1>2, TextPart
<1>4. Len(p) = n - HeaderLen /\ \A j \in 1 .. Len(p) : p[j] = Unit(m, HeaderLen + j, n)
  BY <1>2, <1>3, TextPart
<1>5. readbuf \in Streams /\ toServer \in Streams
  BY SessionState DEF AllStreams
<1>6. PICK w \in Streams : w = Cat(readbuf, toServer)
  BY <1>5, CatTyped
<1>7. Len(w) = HeaderLen /\ Begins(w, m, n)
  BY <1>1, <1>2, <1>6 DEF Asking, Cat
<1>8. /\ toServer' = Cat(toServer, p)
      /\ UNCHANGED << readbuf, writebuf, toClient, res, served, heard, asked, size >>
      /\ eager' = eager /\ phase' = "await"
  BY <1>2, <1>3, SendsText DEF server
<1>9. Cat(readbuf', toServer') = Cat(w, p)
  BY <1>5, <1>6, <1>8, CatAssociates
<1>10. /\ Len(Cat(w, p)) = Len(w) + Len(p)
       /\ \A j \in 1 .. Len(w) : Cat(w, p)[j] = w[j]
       /\ \A j \in 1 .. Len(p) : Cat(w, p)[Len(w) + j] = p[j]
  BY CatTyped
<1>11. Len(Cat(w, p)) = n /\ HeaderLen \in Nat \ {0}
  BY <1>2, <1>4, <1>7, <1>10, LengthAssumption
<1>12. Begins(Cat(w, p), m, n)
  <2> SUFFICES ASSUME NEW j \in 1 .. n
               PROVE  Cat(w, p)[j] = Unit(m, j, n)
    BY <1>11 DEF Begins
  <2>1. CASE j <= HeaderLen
    <3>1. j \in 1 .. Len(w)
      BY <1>7, <1>11, <2>1
    <3> QED
      BY <1>7, <1>10, <3>1 DEF Begins
  <2>2. CASE j > HeaderLen
    <3>1. j - HeaderLen \in 1 .. Len(p) /\ HeaderLen + (j - HeaderLen) = j
      BY <1>2, <1>4, <1>11, <2>2
    <3>2. Cat(w, p)[HeaderLen + (j - HeaderLen)] = p[j - HeaderLen]
      BY <1>7, <1>10, <3>1
    <3>3. p[j - HeaderLen] = Unit(m, HeaderLen + (j - HeaderLen), n)
      BY <1>4, <3>1
    <3> QED
      BY <3>1, <3>2, <3>3
  <2> QED
    BY <1>11, <2>1, <2>2
<1>13. /\ Len(readbuf' \o toServer') = size'
       /\ Begins(readbuf' \o toServer', asked', size')
  BY <1>2, <1>8, <1>9, <1>11, <1>12 DEF Cat
<1>14. /\ Unanswered' /\ Len(served') = asked' - 1 /\ Len(heard') = asked' - 1
       /\ Len(readbuf') < size' /\ HeaderLen < size'
  BY <1>1, <1>8 DEF Asking, Unanswered
<1>15. InSession'
  BY <1>8, <1>13, <1>14 DEF InSession, Asking
<1> QED
  BY <1>8, <1>15

(* What is on its way to the server belongs to the one request. *)
LEMMA OneRequest ==
    ASSUME Inv, ~eager, toServer # << >>
    PROVE  /\ Unanswered /\ asked \in Nat \ {0} /\ size \in Nat
           /\ Len(served) = asked - 1 /\ Len(heard) = asked - 1
           /\ Cat(readbuf, toServer) \in Streams
           /\ Begins(Cat(readbuf, toServer), asked, size)
           /\ Len(readbuf) < size /\ HeaderLen < size
           /\ \/ phase = "header" /\ Len(Cat(readbuf, toServer)) = HeaderLen
              \/ phase = "await" /\ Len(Cat(readbuf, toServer)) = size
<1>1. ~Unasked /\ ~Answering
  BY DEF Unasked, Answering
<1>2. (phase = "header" /\ Asking(HeaderLen)) \/ (phase = "await" /\ Asking(size))
  BY <1>1, SessionState
<1>3. Cat(readbuf, toServer) \in Streams
  BY SessionState, CatTyped DEF AllStreams
<1>4. asked \in Nat /\ Len(served) \in Nat /\ size \in Nat
  BY SessionState
<1>5. Len(served) = asked - 1
  BY <1>2 DEF Asking
<1>6. asked \in Nat \ {0}
  BY <1>4, <1>5
<1> QED
  BY <1>2, <1>3, <1>4, <1>6 DEF Asking, Cat

(* The next units of it stay in its order. *)
LEMMA TakesFront ==
    ASSUME Inv, ~eager, toServer # << >>, NEW n \in 1 .. Len(toServer)
    PROVE  \E x \in Streams, r \in Streams :
              /\ x = Cat(readbuf, First(toServer, n)) /\ r = Rest(toServer, n)
              /\ Cat(x, r) = Cat(readbuf, toServer)
              /\ Begins(x, asked, size)
              /\ Len(x) + Len(r) = Len(Cat(readbuf, toServer))
<1>1. readbuf \in Streams /\ toServer \in Streams
  BY SessionState DEF AllStreams
<1>2. PICK f \in Streams, r \in Streams :
        f = First(toServer, n) /\ r = Rest(toServer, n) /\ Cat(f, r) = toServer
  BY <1>1, Typed, CutTyped
<1>3. PICK x \in Streams : x = Cat(readbuf, f)
  BY <1>1, CatTyped
<1>4. Cat(x, r) = Cat(readbuf, toServer)
  BY <1>1, <1>2, <1>3, CatAssociates
<1>5. Begins(Cat(x, r), asked, size)
  BY <1>4, OneRequest
<1>6. Begins(x, asked, size)
  BY <1>5, Front
<1>7. Len(x) + Len(r) = Len(Cat(readbuf, toServer))
  BY <1>4, CatTyped
<1> QED
  BY <1>2, <1>3, <1>4, <1>6, <1>7

LEMMA WaitStep ==
    ASSUME Inv, ~eager, toServer # << >>, NEW n \in 1 .. Len(toServer),
           toServer' = Rest(toServer, n), Waits(n), UNCHANGED << client, toClient >>
    PROVE  InSession' /\ UNCHANGED << eager, asked, served, heard >>
<1>1. PICK x \in Streams, r \in Streams :
        /\ x = Cat(readbuf, First(toServer, n)) /\ r = Rest(toServer, n)
        /\ Cat(x, r) = Cat(readbuf, toServer)
        /\ Begins(x, asked, size)
  BY TakesFront
<1>2. /\ Unanswered /\ size \in Nat
      /\ Len(served) = asked - 1 /\ Len(heard) = asked - 1
      /\ Begins(Cat(readbuf, toServer), asked, size)
      /\ HeaderLen < size
      /\ \/ phase = "header" /\ Len(Cat(readbuf, toServer)) = HeaderLen
         \/ phase = "await" /\ Len(Cat(readbuf, toServer)) = size
  BY OneRequest
<1>3. /\ readbuf' = x /\ toServer' = r
      /\ UNCHANGED << writebuf, writing, took, served, said >>
      /\ UNCHANGED << eager, phase, asked, size, res, screen, sent, got, heard,
                      toClient >>
  BY <1>1 DEF Waits, client
<1>4. Len(x) < size
  <2>1. CASE Len(x) >= HeaderLen
    <3>1. Incomplete(x)
      BY <1>1, <2>1 DEF Waits
    <3> QED
      BY <1>1, <1>2, <2>1, <3>1, BeginsMeasured
  <2>2. CASE ~(Len(x) >= HeaderLen)
    BY <1>2, <2>2, Typed, LengthAssumption
  <2> QED
    BY <2>1, <2>2
<1>5. /\ Cat(readbuf', toServer') = Cat(readbuf, toServer)
      /\ Len(readbuf') < size
  BY <1>1, <1>3, <1>4
<1>6. Unanswered'
  BY <1>2, <1>3 DEF Unanswered
<1>7. /\ Begins(readbuf' \o toServer', asked', size')
      /\ \/ phase' = "header" /\ Len(readbuf' \o toServer') = HeaderLen
         \/ phase' = "await" /\ Len(readbuf' \o toServer') = size'
  BY <1>2, <1>3, <1>5 DEF Cat
<1>8. /\ Len(served') = asked' - 1 /\ Len(heard') = asked' - 1
      /\ Len(readbuf') < size' /\ HeaderLen < size'
  BY <1>2, <1>3, <1>5
<1>9. InSession'
  BY <1>6, <1>7, <1>8 DEF InSession, Asking
<1> QED
  BY <1>3, <1>9

(* The whole request is executed, and its answer is all there is. *)
LEMMA ServeStep ==
    ASSUME Inv, ~eager, toServer # << >>, NEW n \in 1 .. Len(toServer),
           toServer' = Rest(toServer, n), Executes(n), UNCHANGED << client, toClient >>
    PROVE  InSession' /\ S!Serve /\ eager' = eager
<1>1. PICK x \in Streams, r \in Streams :
        /\ x = Cat(readbuf, First(toServer, n)) /\ r = Rest(toServer, n)
        /\ Begins(x, asked, size)
        /\ Len(x) + Len(r) = Len(Cat(readbuf, toServer))
  BY TakesFront
<1>2. /\ Unanswered /\ asked \in Nat \ {0} /\ size \in Nat
      /\ Len(served) = asked - 1 /\ Len(heard) = asked - 1
      /\ HeaderLen < size
      /\ \/ phase = "header" /\ Len(Cat(readbuf, toServer)) = HeaderLen
         \/ phase = "await" /\ Len(Cat(readbuf, toServer)) = size
  BY OneRequest
<1>3. Len(x) >= HeaderLen /\ Complete(x)
  BY <1>1 DEF Executes
<1>4. Len(x) >= size
  BY <1>1, <1>2, <1>3, BeginsMeasured
<1>5. Len(x) \in Nat /\ Len(r) \in Nat /\ HeaderLen \in Nat
  BY Typed, LengthAssumption
<1>6. phase = "await" /\ Len(x) = size /\ Len(r) = 0
  BY <1>1, <1>2, <1>4, <1>5
<1>7. r = << >>
  BY <1>6, Typed
<1>8. IsMessage(x, x[1].m) /\ x[1].m = asked
  <2>1. size \in Nat \ {0}
    BY <1>2, <1>5
  <2> QED
    BY <1>1, <1>6, <2>1, BeginsMessage
<1>9. /\ served' = Append(served, asked) /\ readbuf' = << >> /\ toServer' = << >>
      /\ UNCHANGED << eager, phase, asked, size, res, screen, sent, got, heard,
                      toClient >>
  BY <1>1, <1>7, <1>8 DEF Executes, client
<1>10. PICK a \in AnswerLens :
         LET answer == Part(Len(served) + 1, HeaderLen + a, 1, HeaderLen + a) IN
         /\ answer \in Streams
         /\ writebuf' = Cat(writebuf, answer)
  BY ExecutesTyped
<1>11. Len(served) + 1 = asked /\ Len(served') = asked
  BY <1>2, ExecutesTyped, SessionState
<1>12. PICK answer \in Streams : answer = Part(asked, HeaderLen + a, 1, HeaderLen + a)
  BY <1>10, <1>11
<1>13. Len(answer) = HeaderLen + a /\ Begins(answer, asked, HeaderLen + a)
  BY <1>2, <1>12, AnswerTyped DEF Begins
<1>14. writebuf' = answer /\ res' = << >> /\ toClient' = << >>
  BY <1>2, <1>9, <1>10, <1>11, <1>12, CatNothing DEF Unanswered
<1>15. Cat(Cat(res', toClient'), writebuf') = answer
  BY <1>14, CatNothing, Typed
<1>16. Len(res') < HeaderLen + a
  BY <1>14, Typed, LengthAssumption
<1>17. /\ Len((res' \o toClient') \o writebuf') = HeaderLen + a
       /\ Begins((res' \o toClient') \o writebuf', asked', HeaderLen + a)
  BY <1>9, <1>13, <1>15 DEF Cat
<1>18. Answering'
  BY <1>2, <1>9, <1>11, <1>16, <1>17 DEF Answering, Unasked
<1>19. InSession'
  BY <1>6, <1>9, <1>18 DEF InSession
<1>20. Len(served) < asked
  BY <1>2
<1> QED
  BY <1>9, <1>19, <1>20 DEF S!Serve

(* What is on its way to the client belongs to the one answer. *)
LEMMA OneAnswer ==
    ASSUME Inv, ~eager, phase = "await", writebuf # << >> \/ toClient # << >>
    PROVE  /\ Unasked /\ asked \in Nat \ {0}
           /\ Len(served) = asked /\ Len(heard) = asked - 1
           /\ \E a \in AnswerLens :
                /\ Len(Cat(Cat(res, toClient), writebuf)) = HeaderLen + a
                /\ Begins(Cat(Cat(res, toClient), writebuf), asked, HeaderLen + a)
                /\ Len(res) < HeaderLen + a
<1>1. Answering
  BY SessionState DEF Asking, Unanswered
<1>2. asked \in Nat /\ Len(heard) \in Nat
  BY SessionState
<1>3. Unasked /\ Len(served) = asked /\ Len(heard) = asked - 1
  BY <1>1 DEF Answering
<1>4. asked \in Nat \ {0}
  BY <1>2, <1>3
<1> QED
  BY <1>1, <1>3, <1>4 DEF Answering, Cat

LEMMA WriteStep ==
    ASSUME Inv, ~eager, onWrite
    PROVE  InSession' /\ UNCHANGED << eager, asked, served, heard >>
<1>1. /\ AllStreams /\ writebuf # << >>
  BY SessionState DEF onWrite
<1>2. phase = "await"
  BY <1>1, SessionState DEF Asking, Unanswered
<1>3. PICK n \in 1 .. Len(writebuf) :
        /\ toClient' = Cat(toClient, First(writebuf, n))
        /\ writebuf' = Rest(writebuf, n)
        /\ UNCHANGED << client, toServer, readbuf, took, served, said >>
  BY Writes
<1>4. n \in 0 .. Len(writebuf)
  BY <1>1, Typed DEF AllStreams
<1>5. Cat(Cat(res, Cat(toClient, First(writebuf, n))), Rest(writebuf, n))
        = Cat(Cat(res, toClient), writebuf)
  BY <1>1, <1>4, Moved DEF AllStreams
<1>6. /\ UNCHANGED << eager, phase, asked, size, res, heard, toServer, readbuf, served >>
      /\ Cat(Cat(res', toClient'), writebuf') = Cat(Cat(res, toClient), writebuf)
  BY <1>3, <1>5 DEF client
<1>7. /\ Unasked /\ Len(served) = asked /\ Len(heard) = asked - 1
  BY <1>1, <1>2, OneAnswer
<1>8. PICK a \in AnswerLens :
        /\ Len(Cat(Cat(res, toClient), writebuf)) = HeaderLen + a
        /\ Begins(Cat(Cat(res, toClient), writebuf), asked, HeaderLen + a)
        /\ Len(res) < HeaderLen + a
  BY <1>1, <1>2, OneAnswer
<1>9. /\ Len((res' \o toClient') \o writebuf') = HeaderLen + a
      /\ Begins((res' \o toClient') \o writebuf', asked', HeaderLen + a)
      /\ Len(res') < HeaderLen + a
  BY <1>6, <1>8 DEF Cat
<1>10. Answering'
  BY <1>6, <1>7, <1>9 DEF Answering, Unasked
<1>11. InSession'
  BY <1>2, <1>6, <1>10 DEF InSession
<1> QED
  BY <1>6, <1>11

(* What read has with the next units is the front of the answer. *)
LEMMA ReadsFront ==
    ASSUME Inv, ~eager, phase = "await", toClient # << >>,
           NEW n \in 1 .. Len(toClient)
    PROVE  \E x \in Streams, r \in Streams, a \in AnswerLens :
              /\ x = Cat(res, First(toClient, n)) /\ r = Rest(toClient, n)
              /\ Cat(Cat(x, r), writebuf) = Cat(Cat(res, toClient), writebuf)
              /\ Begins(Cat(Cat(res, toClient), writebuf), asked, HeaderLen + a)
              /\ Begins(x, asked, HeaderLen + a)
              /\ Len(Cat(Cat(res, toClient), writebuf)) = HeaderLen + a
              /\ Len(x) + Len(r) + Len(writebuf) = HeaderLen + a
<1>1. res \in Streams /\ toClient \in Streams /\ writebuf \in Streams
  BY SessionState DEF AllStreams
<1>2. PICK f \in Streams, r \in Streams :
        f = First(toClient, n) /\ r = Rest(toClient, n) /\ Cat(f, r) = toClient
  BY <1>1, Typed, CutTyped
<1>3. PICK x \in Streams : x = Cat(res, f)
  BY <1>1, CatTyped
<1>4. PICK a \in AnswerLens :
        /\ Len(Cat(Cat(res, toClient), writebuf)) = HeaderLen + a
        /\ Begins(Cat(Cat(res, toClient), writebuf), asked, HeaderLen + a)
  BY OneAnswer
<1>5. Cat(x, r) = Cat(res, toClient)
  BY <1>1, <1>2, <1>3, CatAssociates
<1>6. Begins(Cat(Cat(x, r), writebuf), asked, HeaderLen + a)
  BY <1>4, <1>5
<1>7. Cat(x, r) \in Streams
  BY CatTyped
<1>8. Begins(Cat(x, r), asked, HeaderLen + a)
  BY <1>1, <1>6, <1>7, Front
<1>9. Begins(x, asked, HeaderLen + a)
  BY <1>8, Front
<1>10. /\ Len(Cat(Cat(x, r), writebuf)) = Len(Cat(x, r)) + Len(writebuf)
       /\ Len(Cat(x, r)) = Len(x) + Len(r)
  BY <1>1, <1>7, CatTyped
<1>11. Len(x) + Len(r) + Len(writebuf) = HeaderLen + a
  BY <1>4, <1>5, <1>10
<1> QED
  BY <1>2, <1>3, <1>4, <1>5, <1>9, <1>11

LEMMA LackStep ==
    ASSUME Inv, ~eager, phase = "await", toClient # << >>,
           NEW n \in 1 .. Len(toClient), toClient' = Rest(toClient, n), Lacks(n),
           UNCHANGED << eager, asked, size, sent, server, toServer >>
    PROVE  InSession' /\ UNCHANGED << eager, asked, served, heard >>
<1>1. PICK x \in Streams, r \in Streams, a \in AnswerLens :
        /\ x = Cat(res, First(toClient, n)) /\ r = Rest(toClient, n)
        /\ Cat(Cat(x, r), writebuf) = Cat(Cat(res, toClient), writebuf)
        /\ Begins(Cat(Cat(res, toClient), writebuf), asked, HeaderLen + a)
        /\ Begins(x, asked, HeaderLen + a)
        /\ Len(Cat(Cat(res, toClient), writebuf)) = HeaderLen + a
  BY ReadsFront
<1>2. PICK len \in Nat : len = HeaderLen + a
  BY LengthAssumption
<1>3. Len(x) < len
  <2>1. CASE Len(x) >= HeaderLen
    <3>1. Lacking(x)
      BY <1>1, <2>1 DEF Lacks
    <3> QED
      BY <1>1, <1>2, <2>1, <3>1, BeginsMeasured
  <2>2. CASE ~(Len(x) >= HeaderLen)
    <3>1. Len(x) \in Nat /\ HeaderLen \in Nat /\ a \in Nat
      BY Typed, LengthAssumption
    <3> QED
      BY <1>2, <2>2, <3>1
  <2> QED
    BY <2>1, <2>2
<1>4. /\ res' = x /\ toClient' = r
      /\ UNCHANGED << eager, phase, asked, size, heard, toServer, readbuf, writebuf,
                      served >>
  BY <1>1 DEF Lacks, server
<1>5. /\ Len((res' \o toClient') \o writebuf') = HeaderLen + a
      /\ Begins((res' \o toClient') \o writebuf', asked', HeaderLen + a)
      /\ Len(res') < HeaderLen + a
  BY <1>1, <1>2, <1>3, <1>4 DEF Cat
<1>6. Unasked /\ Len(served) = asked /\ Len(heard) = asked - 1
  BY OneAnswer
<1>7. Answering'
  BY <1>4, <1>5, <1>6 DEF Answering, Unasked
<1>8. InSession'
  BY <1>4, <1>7 DEF InSession
<1> QED
  BY <1>4, <1>8

(* The whole answer is returned, and nothing is left of it. *)
LEMMA HearStep ==
    ASSUME Inv, ~eager, phase = "await", toClient # << >>,
           NEW n \in 1 .. Len(toClient), toClient' = Rest(toClient, n), Hears(n),
           UNCHANGED << eager, asked, size, sent, server, toServer >>
    PROVE  InSession' /\ S!Hear /\ eager' = eager
<1>1. PICK x \in Streams, r \in Streams, a \in AnswerLens :
        /\ x = Cat(res, First(toClient, n)) /\ r = Rest(toClient, n)
        /\ Begins(x, asked, HeaderLen + a)
        /\ Len(x) + Len(r) + Len(writebuf) = HeaderLen + a
  BY ReadsFront
<1>2. PICK len \in Nat \ {0} : len = HeaderLen + a
  BY LengthAssumption
<1>3. Len(x) >= HeaderLen /\ Enough(x)
  BY <1>1 DEF Hears
<1>4. Len(x) >= len
  BY <1>1, <1>2, <1>3, BeginsMeasured
<1>5. writebuf \in Streams /\ heard \in Seq(Nat)
  BY SessionState DEF AllStreams
<1>6. Len(x) \in Nat /\ Len(r) \in Nat /\ Len(writebuf) \in Nat
  BY <1>5, Typed
<1>7. Len(x) = len /\ Len(r) = 0 /\ Len(writebuf) = 0
  BY <1>1, <1>2, <1>4, <1>6
<1>8. r = << >> /\ writebuf = << >>
  BY <1>5, <1>7, Typed
<1>9. IsMessage(x, x[1].m) /\ x[1].m = asked
  BY <1>1, <1>2, <1>7, BeginsMessage
<1>10. /\ heard' = Append(heard, asked) /\ res' = << >> /\ toClient' = << >>
       /\ phase' \in {"idle", "dead"}
       /\ UNCHANGED << eager, asked, toServer, readbuf, writebuf, served >>
  BY <1>1, <1>8, <1>9 DEF Hears, server
<1>11. Unasked /\ Len(served) = asked /\ Len(heard) = asked - 1 /\ asked \in Nat \ {0}
  BY OneAnswer
<1>12. Len(heard') = asked
  BY <1>5, <1>10, <1>11
<1>13. Unanswered' /\ Unasked'
  BY <1>8, <1>10, <1>11 DEF Unanswered, Unasked
<1>14. InSession'
  BY <1>10, <1>11, <1>12, <1>13 DEF InSession
<1>15. Len(heard) < Len(served)
  BY <1>11
<1> QED
  BY <1>10, <1>11, <1>14, <1>15 DEF S!Hear

(* One step of either side, and what it is of the session. *)
LEMMA SessionStep ==
    ASSUME Inv, Next, ~eager
    PROVE  InSession' /\ [S!Next]_(S!vars)
<1>1. CASE sendHeader
  BY <1>1, AskStep DEF S!Next
<1>2. CASE sendText
  BY <1>2, TextStep DEF S!vars
<1>3. CASE onMessage
  <2>1. toServer # << >>
    BY <1>3 DEF onMessage
  <2>2. PICK n \in 1 .. Len(toServer) :
          /\ toServer' = Rest(toServer, n)
          /\ Executes(n) \/ Waits(n)
          /\ UNCHANGED << client, toClient >>
    BY <1>3, Messages
  <2>3. CASE Executes(n)
    BY <2>1, <2>2, <2>3, ServeStep DEF S!Next
  <2>4. CASE Waits(n)
    BY <2>1, <2>2, <2>4, WaitStep DEF S!vars
  <2> QED
    BY <2>2, <2>3, <2>4
<1>4. CASE onWrite
  BY <1>4, WriteStep DEF S!vars
<1>5. CASE receive
  <2>1. phase = "await" /\ toClient # << >>
    BY <1>5 DEF receive
  <2>2. PICK n \in 1 .. Len(toClient) :
          /\ toClient' = Rest(toClient, n)
          /\ Hears(n) \/ Lacks(n)
          /\ UNCHANGED << eager, asked, size, sent, server, toServer >>
    BY <1>5, Receives
  <2>3. CASE Hears(n)
    BY <2>1, <2>2, <2>3, HearStep DEF S!Next
  <2>4. CASE Lacks(n)
    BY <2>1, <2>2, <2>4, LackStep DEF S!vars
  <2> QED
    BY <2>2, <2>3, <2>4
<1> QED
  BY <1>1, <1>2, <1>3, <1>4, <1>5 DEF Next
-----------------------------------------------------------------------------
LEMMA MannersKept ==
    ASSUME Next
    PROVE  eager' = eager
BY DEF Next, sendHeader, sendText, onMessage, onWrite, receive, client

LEMMA InvInit ==
    ASSUME Init
    PROVE  Inv
<1>1. << >> \in Seq(Units) /\ << >> \in Seq(Nat) /\ Len(<< >>) = 0 /\ DOMAIN << >> = {}
  OBVIOUS
<1>2. FramingTypeOK
  <2>1. eager \in BOOLEAN /\ 0 \in 0 .. MaxRequests
    BY LengthAssumption DEF Init
  <2> QED
    BY <1>1, <2>1 DEF Init, FramingTypeOK
<1>3. StreamsIntact
  BY <1>1, CatNothing, Typed DEF Init, StreamsIntact, Cat
<1>4. InSession
  BY <1>1 DEF Init, InSession, Unanswered, Unasked
<1>5. Runs(sent) /\ Border
  BY <1>1 DEF Init, Runs, Border
<1> QED
  BY <1>2, <1>3, <1>4, <1>5 DEF Inv

LEMMA InvInductive ==
    ASSUME Inv, [Next]_vars
    PROVE  Inv'
<1>1. CASE Next
  <2>1. InSession'
    <3>1. CASE eager
      BY <1>1, <3>1, MannersKept DEF InSession
    <3> QED
      BY <1>1, <3>1, SessionStep
  <2>2. FramingTypeOK' /\ StreamsIntact' /\ Runs(sent)' /\ Border'
    BY <1>1, TypesKept, StreamsKept, RunsKept
  <2> QED
    BY <2>1, <2>2 DEF Inv
<1>2. CASE UNCHANGED vars
  BY <1>2 DEF vars, client, server, Inv, FramingTypeOK, StreamsIntact,
     InSession, Asking, Answering, Unanswered, Unasked, Begins, Runs, Border
<1> QED
  BY <1>1, <1>2

THEOREM InvHolds == Spec => []Inv
BY InvInit, InvInductive, PTL DEF Spec

(* However the streams are cut and whatever the client does: all that was    *)
(* sent has been taken or is in a buffer or on its way, in its order, and    *)
(* so is all that was answered (net/Buffer.hpp).                             *)
THEOREM NothingIsLost == Spec => []FramingInv
<1>1. Inv => FramingInv
  BY DEF Inv, FramingInv
<1> QED
  BY <1>1, InvHolds, PTL

(* For eager clients too, unless the text executed last ended inside a       *)
(* request the next one is a whole request from its first byte on, alone or  *)
(* with something behind it (SdbServer::onMessageCallback).                  *)
THEOREM RequestsBeginWhole == Spec => BeginsWhole
<1>1. Inv /\ [Next]_vars => [TakesWhole]_vars
  BY TextsBegin
<1> QED
  BY <1>1, InvHolds, PTL DEF Spec, BeginsWhole

(* For a client that waits for its replies each request is executed once,    *)
(* alone and in its turn, and its reply is the next thing it hears: every    *)
(* step of the buffers and the callbacks is a step of the session or none.   *)
THEOREM IsASession == Spec => ImplementsSession
<1>1. Init => S!Init
  BY LengthAssumption DEF Init, S!Init
<1>2. ASSUME Inv, [Next]_vars
      PROVE  [S!Next]_(S!vars)
  <2>1. CASE Next
    <3>1. CASE eager
      <4>1. eager' = eager
        BY <2>1, MannersKept
      <4>2. S!Next
        BY ONLY <3>1, <4>1 DEF S!Next
      <4> QED
        BY <4>2
    <3> QED
      BY <1>2, <2>1, <3>1, SessionStep
  <2>2. CASE UNCHANGED vars
    BY <2>2 DEF vars, client, server, S!vars
  <2> QED
    BY <1>2, <2>1, <2>2
<1> QED
  BY <1>1, <1>2, InvHolds, PTL DEF Spec, ImplementsSession, S!Spec
=============================================================================
