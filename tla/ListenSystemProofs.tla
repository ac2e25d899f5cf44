-------------------------- MODULE ListenSystemProofs --------------------------
(***************************************************************************)
(* Proofs about ListenSystem, for every number of clients, connections,    *)
(* texts and levels:                                                       *)
(*   ListenTypeCorrect   TypeOK                                            *)
(*   ListenTextComplete  TextComplete                                      *)
(*   ListenLevelLast     LevelLast                                         *)
(*   ListenInOrder       InOrder                                           *)
(* The first three rest on what the server knows of its connections; the   *)
(* last follows a text from the queue where it was added to the inbox of a *)
(* client, over one connection or over several.                            *)
(***************************************************************************)
EXTENDS ListenSystem, SequenceTheorems, FiniteSetTheorems, TLAPS

(* A connection that is not accepted is not known to the server, nothing   *)
(* has been sent over it, and those in the backlog are all different.      *)
Unaccepted ==
  /\ \A i \in 1..Len(backlog) : backlog[i] <= made /\ server[backlog[i]] = "none"
  /\ \A i, j \in 1..Len(backlog) : backlog[i] = backlog[j] => i = j
  /\ \A c \in Conn : c > made => server[c] = "none"
  /\ \A c \in Conn : server[c] = "none" =>
       /\ c \notin listed /\ c \notin wpend /\ c \notin rpend
       /\ got[c] = <<>> /\ queue[c] = <<>> /\ down[c] = <<>>

(* The worker of a client reads only once it is connected.                 *)
Reading == \A k \in Clients : cpc[k] = "read" => conn[k] \in Conn

Marked == \A c \in Conn : mark[c] <= Len(handled)

ServerInv == TypeOK /\ Unaccepted /\ Reading /\ Marked

Complete == \A c \in Conn : Serves(c) => AllDestined(c)

ServedInv == Complete /\ LevelLast

(* Only levels come from the clients. *)
UpLevels == \A c \in Conn : \A i \in 1..Len(up[c]) : IsLevel(up[c][i])

(* The texts of the sequences p and q: none twice, none in both.           *)
Distinct(q) ==
  \A i, j \in 1..Len(q) : IsText(q[i]) /\ q[i] = q[j] => i = j

Apart(p, q) ==
  \A i \in 1..Len(p), j \in 1..Len(q) : IsText(p[i]) => p[i] # q[j]

Added(q) == \A i \in 1..Len(q) : IsText(q[i]) => q[i][2] <= texts

(* A text is in one place of the server at a time, until it is handled.    *)
Once ==
  /\ Added(handled) /\ Added(inq) /\ Added(shared)
  /\ Distinct(handled) /\ Distinct(inq) /\ Distinct(shared)
  /\ Apart(handled, inq) /\ Apart(handled, shared) /\ Apart(inq, shared)

OnceInv == UpLevels /\ Once

(* The texts of the sequences s and t, by their places in h: each has one; *)
(* those of s are in the order of their places; those of s come before     *)
(* those of t.                                                             *)
Placed(h, s) == \A i \in 1..Len(s) : IsText(s[i]) => \E p \in 1..Len(h) : h[p] = s[i]

Earlier(h, m, n) == \E p, q \in 1..Len(h) : p < q /\ h[p] = m /\ h[q] = n

Ordered(h, s) ==
  \A i, j \in 1..Len(s) : i < j /\ IsText(s[i]) /\ IsText(s[j]) => Earlier(h, s[i], s[j])

Before(h, s, t) ==
  \A i \in 1..Len(s), j \in 1..Len(t) :
    IsText(s[i]) /\ IsText(t[j]) => Earlier(h, s[i], t[j])

(* What is on its way over a connection was handled, in the order in which *)
(* it travels; what a client has is older than what is still to come.      *)
Flows(h, d, q) ==
  Placed(h, d) /\ Placed(h, q) /\ Ordered(h, d) /\ Ordered(h, q) /\ Before(h, d, q)

FlowInv == \A c \in Conn : Flows(handled, down[c], queue[c])

InboxInv ==
  \A k \in Clients :
    /\ \A i \in 1..Len(inbox[k]) : IsText(inbox[k][i])
    /\ Placed(handled, inbox[k]) /\ Ordered(handled, inbox[k])
    /\ conn[k] # 0 =>
         /\ Before(handled, inbox[k], down[conn[k]])
         /\ Before(handled, inbox[k], queue[conn[k]])

(* A client has a connection of its own, which is open at its end.  What   *)
(* has been written to it is in the inbox or on the way.                   *)
Linked ==
  \A k \in Clients : conn[k] # 0 =>
    /\ conn[k] <= made /\ client[conn[k]] = "open"
    /\ \A j \in Clients : conn[j] = conn[k] => j = k

Covered(g, b, d) == \A m : Has(g, m) /\ IsText(m) => Has(b, m) \/ Has(d, m)

Arrived ==
  \A k \in Clients : conn[k] # 0 /\ ~reset[conn[k]] =>
    Covered(got[conn[k]], inbox[k], down[conn[k]])

TravelInv == Linked /\ Arrived

ListenInv == ServerInv /\ ServedInv /\ OnceInv /\ FlowInv /\ InboxInv /\ TravelInv

-----------------------------------------------------------------------------
(* Facts of sequences and of messages. *)
LEMMA AddedLast ==
  ASSUME NEW S, NEW q \in Seq(S), NEW x \in S
  PROVE  /\ Append(q, x) \in Seq(S)
         /\ Append(q, x) = q \o <<x>>
         /\ Len(Append(q, x)) = Len(q) + 1
         /\ \A i \in 1..Len(q) : Append(q, x)[i] = q[i]
         /\ Append(q, x)[Len(q) + 1] = x
BY AppendProperties, AppendIsConcat, LenProperties

LEMMA WithoutFirst ==
  ASSUME NEW S, NEW q \in Seq(S), q # <<>>
  PROVE  /\ Tail(q) \in Seq(S) /\ Head(q) \in S
         /\ Len(q) \in Nat /\ Len(q) >= 1 /\ 1 \in 1..Len(q) /\ Head(q) = q[1]
         /\ Len(Tail(q)) = Len(q) - 1
         /\ \A i \in 1..Len(Tail(q)) : i + 1 \in 1..Len(q) /\ Tail(q)[i] = q[i + 1]
<1>1. Len(q) \in Nat /\ Len(q) >= 1
  BY EmptySeq, LenProperties
<1>. QED  BY <1>1, HeadTailProperties

LEMMA Messages ==
  /\ \A l \in Levels \cup {0} :
       Level(l) \in Message /\ IsLevel(Level(l)) /\ ~IsText(Level(l))
  /\ \A t \in Text : TextMsg(t) \in Message /\ IsText(TextMsg(t)) /\ TextMsg(t)[2] = t
  /\ \A m \in Message : IsLevel(m) <=> ~IsText(m)
  /\ \A m \in Message : IsText(m) => m[2] \in Text /\ m = TextMsg(m[2])
BY DEF Message, Level, TextMsg, IsText, IsLevel

LEMMA Conns == \A c \in Conn : c \in Nat /\ c # 0
BY DEF Conn

LEMMA Bytes == \A l \in Levels \cup {0} : ByteLevel(l) \in 0..255
BY ListenAssumption DEF ByteLevel

-----------------------------------------------------------------------------
(* The types. *)
LEMMA SentTypes ==
  ASSUME NEW stream \in [Conn -> Seq(Message)], NEW c \in Conn, NEW peer, NEW m \in Message
  PROVE  Sent(stream, c, peer, m) \in [Conn -> Seq(Message)]
<1>1. Append(stream[c], m) \in Seq(Message)
  BY AddedLast
<1>. QED  BY <1>1 DEF Sent

LEMMA WriteTypes ==
  ASSUME TypeOK, NEW c \in Conn, NEW q \in Seq(Message), NEW pending \in SUBSET Conn,
         Write(c, q, pending)
  PROVE  /\ queue' \in [Conn -> Seq(Message)] /\ got' \in [Conn -> Seq(Message)]
         /\ down' \in [Conn -> Seq(Message)] /\ wpend' \subseteq Conn
<1> USE DEF TypeOK, TcpTypeOK, ServerTypeOK
<1>1. CASE q = <<>>
  BY <1>1 DEF Write
<1>2. CASE q # <<>>
  <2>1. Tail(q) \in Seq(Message) /\ Head(q) \in Message
    BY <1>2, WithoutFirst
  <2>2. Append(got[c], Head(q)) \in Seq(Message)
    BY <2>1, AddedLast
  <2>3. Sent(down, c, client[c], Head(q)) \in [Conn -> Seq(Message)]
    BY <2>1, SentTypes
  <2>4. /\ queue' = [queue EXCEPT ![c] = Tail(q)] /\ wpend' = pending \cup {c}
        /\ down' = Sent(down, c, client[c], Head(q))
        /\ got' = [got EXCEPT ![c] = Append(@, Head(q))]
    BY <1>2 DEF Write
  <2>5. queue' \in [Conn -> Seq(Message)] /\ wpend' \subseteq Conn
    BY <2>1, <2>4
  <2>6. got' \in [Conn -> Seq(Message)]
    BY <2>2, <2>4
  <2>. QED  BY <2>3, <2>4, <2>5, <2>6
<1>. QED  BY <1>1, <1>2

LEMMA AcceptTypes ==
  ASSUME TypeOK, Accept
  PROVE  TcpTypeOK' /\ ServerTypeOK'
<1> DEFINE c == Head(backlog)
<1>1. c \in Conn /\ Tail(backlog) \in Seq(Conn)
  BY WithoutFirst DEF Accept, TypeOK, TcpTypeOK
<1>2. Greeting \in Seq(Message)
  BY Messages DEF Greeting, TypeOK, ServerTypeOK
<1>3. /\ queue' \in [Conn -> Seq(Message)] /\ got' \in [Conn -> Seq(Message)]
      /\ down' \in [Conn -> Seq(Message)] /\ wpend' \subseteq Conn
  BY <1>1, <1>2, WriteTypes DEF Accept, TypeOK, ServerTypeOK
<1>4. Len(handled) \in Nat
  BY LenProperties DEF TypeOK, ServerTypeOK
<1> HIDE DEF c
<1>5. TcpTypeOK'
  BY <1>1, <1>3 DEF Accept, TypeOK, TcpTypeOK, c
<1>6. ServerTypeOK'
  BY <1>1, <1>3, <1>4 DEF Accept, TypeOK, ServerTypeOK, c
<1>. QED  BY <1>5, <1>6

LEMMA DistributeTypes ==
  ASSUME TypeOK, Distribute
  PROVE  TcpTypeOK' /\ ServerTypeOK'
<1> DEFINE batch == inq \o shared
<1> USE DEF TypeOK, ServerTypeOK
<1>1. batch \in Seq(Message) /\ handled \o batch \in Seq(Message)
  BY ConcatProperties
<1>2. \A c \in Conn : Appended(queue[c], batch) \in Seq(Message)
  BY <1>1, ConcatProperties DEF Appended
<1>3. queue' \in [Conn -> Seq(Message)] /\ handled' \in Seq(Message)
  BY <1>1, <1>2 DEF Distribute
<1>4. level' \in Levels \cup {0} /\ shmLevel' \in 0..255
  BY Bytes DEF Distribute
<1>5. inq' \in Seq(Message) /\ shared' \in Seq(Message)
  BY DEF Distribute
<1>. QED  BY <1>3, <1>4, <1>5 DEF Distribute, TcpTypeOK, tcp

LEMMA HandlerTypes ==
  ASSUME TypeOK, Handler
  PROVE  TcpTypeOK' /\ ServerTypeOK'
<1> USE DEF TypeOK, TcpTypeOK, ServerTypeOK
<1>1. CASE Accept
  BY <1>1, AcceptTypes
<1>2. CASE AcceptError
  BY <1>2 DEF AcceptError, tcp
<1>3. CASE Cleanup
  BY <1>3 DEF Cleanup, tcp
<1>4. CASE Distribute
  BY <1>4, DistributeTypes
<1>5. ASSUME NEW c \in Conn, QueueTimer(c) \/ Written(c)
      PROVE  TcpTypeOK' /\ ServerTypeOK'
  <2>1. /\ queue' \in [Conn -> Seq(Message)] /\ got' \in [Conn -> Seq(Message)]
        /\ down' \in [Conn -> Seq(Message)] /\ wpend' \subseteq Conn
    <3>1. queue[c] \in Seq(Message) /\ wpend \in SUBSET Conn /\ wpend \ {c} \in SUBSET Conn
      OBVIOUS
    <3>2. Write(c, queue[c], wpend) \/ Write(c, queue[c], wpend \ {c})
      BY <1>5 DEF QueueTimer, Written
    <3>. QED  BY <3>1, <3>2, WriteTypes
  <2>2. /\ UNCHANGED <<acceptor, made, backlog, client, server, reset, up>>
        /\ UNCHANGED <<spc, listed, rpend, gone, inq, shared, level, shmLevel>>
        /\ UNCHANGED <<active, accepting, broken, texts, handled, mark>>
    BY <1>5 DEF QueueTimer, Written
  <2>3. TcpTypeOK'
    BY <2>1, <2>2
  <2>4. ServerTypeOK'
    BY <2>1, <2>2
  <2>. QED  BY <2>3, <2>4
<1>6. ASSUME NEW c \in Conn, WriteError(c) \/ ReadError(c)
      PROVE  TcpTypeOK' /\ ServerTypeOK'
  <2>1. wpend' \subseteq Conn /\ rpend' \subseteq Conn /\ Close(c)
    BY <1>6 DEF WriteError, ReadError
  <2>2. <<>> \in Seq(Message) /\ 0 \in Nat
    OBVIOUS
  <2>3. TcpTypeOK'
    BY <2>1, <2>2 DEF Close
  <2>4. ServerTypeOK'
    BY <2>1, <2>2 DEF Close
  <2>. QED  BY <2>3, <2>4
<1>7. ASSUME NEW c \in Conn, ReadLevel(c) PROVE TcpTypeOK' /\ ServerTypeOK'
  <2>1. Tail(up[c]) \in Seq(Message) /\ Append(inq, Head(up[c])) \in Seq(Message)
    BY <1>7, WithoutFirst, AddedLast DEF ReadLevel
  <2>. QED  BY <1>7, <2>1 DEF ReadLevel
<1>. QED  BY <1>1, <1>2, <1>3, <1>4, <1>5, <1>6, <1>7 DEF Handler

LEMMA CallTypes ==
  ASSUME TypeOK,
         \/ AddText \/ ProxyAdd \/ StopActive \/ StopJoin \/ Destroy
         \/ \E c \in Conn : NetBreak(c) /\ UNCHANGED serving
  PROVE  TcpTypeOK' /\ ServerTypeOK'
<1> USE DEF TypeOK, TcpTypeOK, ServerTypeOK
<1>1. CASE AddText \/ ProxyAdd
  <2>1. texts' \in 0..MaxText /\ texts' \in Text
    BY <1>1, ListenAssumption DEF AddText, ProxyAdd, Text
  <2>2. TextMsg(texts') \in Message
    BY <2>1, Messages
  <2>3. Append(inq, TextMsg(texts')) \in Seq(Message)
        /\ Append(shared, TextMsg(texts')) \in Seq(Message)
    BY <2>2, AddedLast
  <2>4. CASE AddText
    BY <2>1, <2>3, <2>4 DEF AddText, tcp
  <2>5. CASE ProxyAdd
    BY <2>1, <2>3, <2>5 DEF ProxyAdd, tcp
  <2>. QED  BY <1>1, <2>4, <2>5
<1>2. CASE StopActive
  BY <1>2 DEF StopActive, tcp
<1>3. <<>> \in Seq(Message) /\ <<>> \in Seq(Conn) /\ 0 \in Nat
  OBVIOUS
<1>4. CASE StopJoin
  <2>1. TcpTypeOK'
    BY <1>3, <1>4 DEF StopJoin
  <2>2. ServerTypeOK'
    BY <1>3, <1>4 DEF StopJoin
  <2>. QED  BY <2>1, <2>2
<1>5. CASE Destroy
  BY <1>3, <1>5 DEF Destroy
<1>6. ASSUME NEW c \in Conn, NetBreak(c), UNCHANGED serving
      PROVE  TcpTypeOK' /\ ServerTypeOK'
  <2>1. TcpTypeOK'
    BY <1>3, <1>6 DEF NetBreak
  <2>2. ServerTypeOK'
    BY <1>6 DEF serving
  <2>. QED  BY <2>1, <2>2
<1>. QED  BY <1>1, <1>2, <1>4, <1>5, <1>6

(* The steps of a client. *)
ClientStep(k) ==
  Worker(k) \/ EndClient(k) \/ \E l \in Levels : SendLogLevel(k, l)

LEMMA ShutTypes ==
  ASSUME TypeOK, NEW k \in Clients, Shut(k)
  PROVE  /\ client' \in [Conn -> {"open", "closed"}]
         /\ down' \in [Conn -> Seq(Message)]
<1>1. <<>> \in Seq(Message)
  OBVIOUS
<1>. QED  BY <1>1 DEF Shut, TypeOK, TcpTypeOK

LEMMA ClientTypes ==
  ASSUME TypeOK, Reading, NEW k \in Clients, ClientStep(k)
  PROVE  TcpTypeOK' /\ ClientTypeOK' /\ Reading'
<1> USE DEF TypeOK, TcpTypeOK, ClientTypeOK, Reading
<1>1. CASE Lookup(k) \/ EndClient(k)
  BY <1>1, ShutTypes DEF Lookup, EndClient
<1>2. CASE Connect(k)
  <2>1. made' \in Conn /\ made' \in 0..MaxConn
    BY <1>2, ListenAssumption DEF Connect, NetConnect, Conn
  <2>2. Append(backlog, made') \in Seq(Conn)
    BY <2>1, AddedLast
  <2>3. TcpTypeOK'
    BY <1>2, <2>1, <2>2 DEF Connect, NetConnect
  <2>. QED  BY <1>2, <2>1, <2>3 DEF Connect
<1>3. CASE ConnectError(k) \/ ReadFails(k)
  BY <1>3 DEF ConnectError, ReadFails, RetryWait, tcp
<1>4. CASE Read(k)
  <2>1. conn[k] \in Conn
    BY <1>4 DEF Read
  <2>2. Tail(down[conn[k]]) \in Seq(Message)
        /\ Append(inbox[k], Head(down[conn[k]])) \in Seq(Message)
    BY <1>4, <2>1, WithoutFirst, AddedLast DEF Read
  <2>3. TcpTypeOK'
    BY <1>4, <2>1, <2>2 DEF Read
  <2>4. ClientTypeOK' /\ Reading'
    BY <1>4, <2>2 DEF Read
  <2>. QED  BY <2>3, <2>4
<1>5. ASSUME NEW l \in Levels, SendLogLevel(k, l) PROVE TcpTypeOK' /\ ClientTypeOK' /\ Reading'
  <2>1. conn[k] \in Conn
    BY <1>5 DEF SendLogLevel, IsOpen
  <2>2. Level(l) \in Message
    BY Messages
  <2>3. up' \in [Conn -> Seq(Message)]
    BY <1>5, <2>1, <2>2, SentTypes DEF SendLogLevel
  <2>4. sends' \in [Clients -> 0..MaxSend]
    BY <1>5, ClientAssumption DEF SendLogLevel
  <2>. QED  BY <1>5, <2>3, <2>4 DEF SendLogLevel
<1>. QED  BY <1>1, <1>2, <1>3, <1>4, <1>5 DEF ClientStep, Worker

-----------------------------------------------------------------------------
(* The connections before they are accepted. *)
LEMMA ListenSteps ==
  ASSUME [Next]_vars
  PROVE  \/ UNCHANGED vars
         \/ /\ UNCHANGED listening
            /\ \/ Handler \/ AddText \/ ProxyAdd \/ StopActive \/ StopJoin \/ Destroy
               \/ \E c \in Conn : NetBreak(c) /\ UNCHANGED serving
         \/ UNCHANGED serving /\ \E k \in Clients : ClientStep(k)
BY DEF Next, Serving, Listening, ClientStep

LEMMA AcceptUnaccepted ==
  ASSUME TypeOK, Unaccepted, Accept
  PROVE  Unaccepted'
<1> USE DEF TypeOK, TcpTypeOK, ServerTypeOK
<1> PICK c \in Conn : c = Head(backlog)
  BY WithoutFirst DEF Accept
<1>1. /\ Len(backlog) \in Nat /\ Len(backlog) >= 1 /\ 1 \in 1..Len(backlog) /\ c = backlog[1]
      /\ Len(Tail(backlog)) = Len(backlog) - 1
      /\ \A i \in 1..Len(Tail(backlog)) : i + 1 \in 1..Len(backlog) /\ Tail(backlog)[i] = backlog[i + 1]
  BY WithoutFirst DEF Accept
<1>2. c <= made /\ server[c] = "none"
  BY <1>1 DEF Unaccepted
<1>3. \A i \in 1..Len(backlog) : backlog[i] \in Conn
  BY ElementOfSeq
<1>4. /\ backlog' = Tail(backlog) /\ made' = made /\ listed' = listed \cup {c}
      /\ rpend' = rpend \cup {c}
      /\ \A d \in Conn : server'[d] = IF d = c THEN "open" ELSE server[d]
  BY DEF Accept
<1>5. /\ wpend' \subseteq wpend \cup {c}
      /\ \A d \in Conn : d # c => queue'[d] = queue[d] /\ got'[d] = got[d] /\ down'[d] = down[d]
  BY DEF Accept, Write, Sent
<1>6. \A i \in 1..Len(backlog') :
        /\ i \in Nat /\ i + 1 \in 1..Len(backlog) /\ backlog'[i] = backlog[i + 1]
        /\ backlog'[i] \in Conn /\ backlog'[i] # c
  <2> TAKE i \in 1..Len(backlog')
  <2>1. i \in Nat /\ i + 1 \in 1..Len(backlog) /\ backlog'[i] = backlog[i + 1]
    BY <1>1, <1>4
  <2>2. i + 1 # 1
    BY <1>1, <2>1
  <2>. QED  BY <1>1, <1>3, <2>1, <2>2 DEF Unaccepted
<1>7. \A i \in 1..Len(backlog') : backlog'[i] <= made' /\ server'[backlog'[i]] = "none"
  <2>1. \A i \in 1..Len(backlog) : backlog[i] <= made /\ server[backlog[i]] = "none"
    BY DEF Unaccepted
  <2> TAKE i \in 1..Len(backlog')
  <2>2. i + 1 \in 1..Len(backlog) /\ backlog'[i] = backlog[i + 1] /\ backlog'[i] # c
    BY <1>6
  <2>3. backlog[i + 1] <= made /\ server[backlog[i + 1]] = "none" /\ backlog[i + 1] \in Conn
    BY <1>3, <2>1, <2>2
  <2>. QED  BY <1>4, <2>2, <2>3
<1>8. \A i, j \in 1..Len(backlog') : backlog'[i] = backlog'[j] => i = j
  <2> TAKE i, j \in 1..Len(backlog')
  <2>1. i + 1 = j + 1 => i = j
    BY <1>6
  <2>. QED  BY <1>6, <2>1 DEF Unaccepted
<1>9. \A d \in Conn : d > made' => server'[d] = "none"
  <2> TAKE d \in Conn
  <2>1. d \in Nat /\ made \in Nat /\ (d > made => d # c)
    BY <1>2, ListenAssumption, Conns
  <2>. QED  BY <1>4, <2>1 DEF Unaccepted
<1>10. \A d \in Conn : server'[d] = "none" =>
         /\ d \notin listed' /\ d \notin wpend' /\ d \notin rpend'
         /\ got'[d] = <<>> /\ queue'[d] = <<>> /\ down'[d] = <<>>
  BY <1>4, <1>5 DEF Unaccepted
<1>. QED  BY <1>7, <1>8, <1>9, <1>10 DEF Unaccepted

LEMMA ConnectUnaccepted ==
  ASSUME TypeOK, Unaccepted, NetConnect, UNCHANGED serving
  PROVE  Unaccepted'
<1>1. made \in Nat /\ made' = made + 1 /\ made' \in Conn
  BY ListenAssumption DEF NetConnect, Conn, TypeOK, TcpTypeOK
<1>2. /\ Len(backlog) \in Nat /\ Len(backlog') = Len(backlog) + 1
      /\ \A i \in 1..Len(backlog) : backlog'[i] = backlog[i]
      /\ backlog'[Len(backlog) + 1] = made'
  BY <1>1, AddedLast, LenProperties DEF NetConnect, TypeOK, TcpTypeOK
<1>3. UNCHANGED <<server, got, queue, down, listed, wpend, rpend>>
  BY DEF NetConnect, serving
<1>4. \A i \in 1..Len(backlog') : i \in 1..Len(backlog) \/ i = Len(backlog) + 1
  BY <1>2
<1>5. \A i \in 1..Len(backlog) :
        /\ backlog'[i] = backlog[i] /\ backlog'[i] # made'
        /\ backlog'[i] <= made' /\ server'[backlog'[i]] = "none"
  <2> TAKE i \in 1..Len(backlog)
  <2>1. backlog[i] \in Conn
    BY ElementOfSeq DEF TypeOK, TcpTypeOK
  <2>2. backlog[i] <= made /\ server[backlog[i]] = "none"
    BY DEF Unaccepted
  <2>3. backlog[i] \in Nat
    BY <2>1, Conns
  <2>4. backlog'[i] = backlog[i]
    BY <1>2
  <2>5. backlog[i] # made + 1 /\ backlog[i] <= made + 1
    BY <1>1, <2>2, <2>3
  <2>. QED  BY <1>1, <1>3, <2>2, <2>4, <2>5
<1>6. server[made'] = "none"
  BY <1>1 DEF Unaccepted
<1>7. \A i \in 1..Len(backlog') : backlog'[i] <= made' /\ server'[backlog'[i]] = "none"
  <2> TAKE i \in 1..Len(backlog')
  <2>1. CASE i \in 1..Len(backlog)
    BY <1>5, <2>1
  <2>2. CASE i = Len(backlog) + 1
    BY <1>1, <1>2, <1>3, <1>6, <2>2
  <2>. QED  BY <1>4, <2>1, <2>2
<1>8. \A i, j \in 1..Len(backlog') : backlog'[i] = backlog'[j] => i = j
  <2>1. \A i, j \in 1..Len(backlog) : backlog[i] = backlog[j] => i = j
    BY DEF Unaccepted
  <2> TAKE i, j \in 1..Len(backlog')
  <2>2. CASE i \in 1..Len(backlog) /\ j \in 1..Len(backlog)
    BY <1>5, <2>1, <2>2
  <2>3. CASE i = Len(backlog) + 1 \/ j = Len(backlog) + 1
    BY <1>2, <1>4, <1>5, <2>3
  <2>. QED  BY <1>4, <2>2, <2>3
<1>9. \A d \in Conn : d > made' => server'[d] = "none"
  <2> TAKE d \in Conn
  <2>1. d \in Nat
    BY Conns
  <2>. QED  BY <1>1, <1>3, <2>1 DEF Unaccepted
<1>. QED  BY <1>3, <1>7, <1>8, <1>9 DEF Unaccepted

(* The other steps: the backlog stays or is emptied, a connection that is  *)
(* accepted stays so, and one that is not is left alone.                   *)
LEMMA RestUnaccepted ==
  ASSUME TypeOK, Unaccepted,
         made' = made /\ (backlog' = backlog \/ backlog' = <<>>),
         \A c \in Conn : server'[c] = "none" =>
           /\ server[c] = "none"
           /\ (c \in listed' => c \in listed)
           /\ (c \in wpend' => c \in wpend) /\ (c \in rpend' => c \in rpend)
           /\ (got[c] = <<>> => got'[c] = <<>>)
           /\ (queue[c] = <<>> => queue'[c] = <<>>)
           /\ (down[c] = <<>> => down'[c] = <<>>),
         \A c \in Conn : server[c] = "none" /\ server'[c] # "none" =>
           backlog' = <<>> /\ c <= made
  PROVE  Unaccepted'
<1>1. \A i \in 1..Len(backlog) : backlog[i] \in Conn
  BY ElementOfSeq DEF TypeOK, TcpTypeOK
<1>2. Len(<<>>) = 0
  OBVIOUS
<1>3. \A c \in Conn : c > made' => server'[c] = "none"
  <2> TAKE c \in Conn
  <2>1. c \in Nat /\ made \in Nat
    BY Conns, ListenAssumption DEF TypeOK, TcpTypeOK
  <2>. QED  BY <2>1 DEF Unaccepted
<1>4. \A i \in 1..Len(backlog') : backlog' = backlog
  BY <1>2
<1>. QED  BY <1>1, <1>3, <1>4 DEF Unaccepted

LEMMA ServingUnaccepted ==
  ASSUME TypeOK, Unaccepted, UNCHANGED listening,
         \/ Handler \/ AddText \/ ProxyAdd \/ StopActive \/ StopJoin \/ Destroy
         \/ \E c \in Conn : NetBreak(c) /\ UNCHANGED serving
  PROVE  Unaccepted'
<1> USE DEF TypeOK, TcpTypeOK, ServerTypeOK
<1>1. CASE Accept
  BY <1>1, AcceptUnaccepted
<1>2. CASE AcceptError
  BY <1>2, RestUnaccepted DEF AcceptError, tcp
<1>3. CASE Cleanup
  BY <1>3, RestUnaccepted DEF Cleanup, tcp
<1>4. CASE Distribute
  <2>1. \A c \in Conn : server[c] = "none" => queue'[c] = queue[c]
    BY <1>4 DEF Distribute, Receivers
  <2>. QED  BY <1>4, <2>1, RestUnaccepted DEF Distribute, tcp
<1>5. ASSUME NEW c \in Conn, QueueTimer(c) \/ Written(c)
      PROVE  Unaccepted'
  <2>1. /\ server[c] = "open" /\ wpend' \subseteq wpend \cup {c}
        /\ \A d \in Conn : d # c => queue'[d] = queue[d] /\ got'[d] = got[d] /\ down'[d] = down[d]
    BY <1>5 DEF QueueTimer, Due, Written, Write, Sent
  <2>2. UNCHANGED <<made, backlog, server, listed, rpend>>
    BY <1>5 DEF QueueTimer, Written
  <2>. QED  BY <2>1, <2>2, RestUnaccepted
<1>6. ASSUME NEW c \in Conn, WriteError(c) \/ ReadError(c)
      PROVE  Unaccepted'
  <2>1. wpend' \subseteq wpend /\ rpend' \subseteq rpend /\ Close(c)
    BY <1>6 DEF WriteError, ReadError
  <2>2. c \in wpend \/ c \in rpend
    BY <1>6 DEF WriteError, ReadError
  <2>3. server[c] # "none"
    BY <2>2 DEF Unaccepted
  <2>4. \A d \in Conn :
          /\ server'[d] = IF d = c THEN "closed" ELSE server[d]
          /\ d # c => queue'[d] = queue[d] /\ got'[d] = got[d] /\ down'[d] = down[d]
    BY <2>1 DEF Close
  <2>5. UNCHANGED <<made, backlog, listed>>
    BY <2>1 DEF Close
  <2>. QED  BY <2>1, <2>3, <2>4, <2>5, RestUnaccepted
<1>7. ASSUME NEW c \in Conn, ReadLevel(c) PROVE Unaccepted'
  BY <1>7, RestUnaccepted DEF ReadLevel
<1>8. CASE AddText \/ ProxyAdd \/ StopActive
  BY <1>8, RestUnaccepted DEF AddText, ProxyAdd, StopActive, tcp
<1>9. CASE StopJoin
  <2>1. \A c \in Conn : server'[c] = "none" <=> server[c] = "none"
    BY <1>9 DEF StopJoin, Unaccepted
  <2>. QED  BY <1>9, <2>1, RestUnaccepted DEF StopJoin
<1>10. CASE Destroy
  <2>1. \A c \in Conn : Waits(c) => c <= made
    BY DEF Waits, Unaccepted
  <2>2. \A c \in Conn : server'[c] = IF Waits(c) THEN "closed" ELSE server[c]
    BY <1>10 DEF Destroy
  <2>3. backlog' = <<>> /\ UNCHANGED <<made, down, listed, queue, wpend, rpend, got>>
    BY <1>10 DEF Destroy
  <2>. QED  BY <2>1, <2>2, <2>3, RestUnaccepted
<1>11. ASSUME NEW c \in Conn, NetBreak(c), UNCHANGED serving
       PROVE  Unaccepted'
  BY <1>11, RestUnaccepted DEF NetBreak, serving
<1>. QED  BY <1>1, <1>2, <1>3, <1>4, <1>5, <1>6, <1>7, <1>8, <1>9, <1>10, <1>11 DEF Handler

LEMMA ClientUnaccepted ==
  ASSUME TypeOK, Unaccepted, Reading, UNCHANGED serving, NEW k \in Clients, ClientStep(k)
  PROVE  Unaccepted'
<1> USE DEF TypeOK, TcpTypeOK, ServerTypeOK, ClientTypeOK
<1>1. CASE Lookup(k) \/ EndClient(k)
  <2>1. /\ UNCHANGED <<made, backlog, server>>
        /\ \A c \in Conn : down'[c] = down[c] \/ down'[c] = <<>>
    BY <1>1 DEF Lookup, EndClient, Shut
  <2>. QED  BY <2>1, RestUnaccepted DEF serving
<1>2. CASE Connect(k)
  BY <1>2, ConnectUnaccepted DEF Connect
<1>3. CASE ConnectError(k) \/ ReadFails(k)
  BY <1>3, RestUnaccepted DEF ConnectError, ReadFails, RetryWait, tcp, serving
<1>4. CASE Read(k)
  <2>1. conn[k] \in Conn /\ down[conn[k]] # <<>>
    BY <1>4 DEF Read, Reading
  <2>2. \A c \in Conn : c # conn[k] => down'[c] = down[c]
    BY <1>4, <2>1 DEF Read
  <2>. QED  BY <1>4, <2>1, <2>2, RestUnaccepted DEF Read, serving
<1>5. ASSUME NEW l \in Levels, SendLogLevel(k, l) PROVE Unaccepted'
  BY <1>5, RestUnaccepted DEF SendLogLevel, serving
<1>. QED  BY <1>1, <1>2, <1>3, <1>4, <1>5 DEF ClientStep, Worker

(* What was handled stays so, and what is handled comes behind it.         *)
LEMMA HandledGrows ==
  ASSUME TypeOK, [Next]_vars
  PROVE  /\ Len(handled) \in Nat /\ Len(handled') \in Nat /\ Len(handled) <= Len(handled')
         /\ \A i \in 1..Len(handled) : i \in 1..Len(handled') /\ handled'[i] = handled[i]
<1>1. handled \in Seq(Message) /\ inq \o shared \in Seq(Message)
  BY ConcatProperties DEF TypeOK, ServerTypeOK
<1>2. handled' = handled \/ (Distribute /\ handled' = handled \o (inq \o shared))
  BY ListenSteps DEF vars, Handler, Accept, AcceptError, Cleanup, Distribute, QueueTimer,
     Written, WriteError, ReadError, Close, ReadLevel, AddText, ProxyAdd, StopActive,
     StopJoin, Destroy, serving
<1>3. ASSUME handled' = handled \o (inq \o shared)
      PROVE  /\ Len(handled') \in Nat /\ Len(handled) <= Len(handled')
             /\ \A i \in 1..Len(handled) : i \in 1..Len(handled') /\ handled'[i] = handled[i]
  <2>1. /\ Len(handled') = Len(handled) + Len(inq \o shared)
        /\ \A i \in 1..Len(handled') :
             handled'[i] = IF i <= Len(handled) THEN handled[i] ELSE (inq \o shared)[i - Len(handled)]
    BY <1>1, <1>3, ConcatProperties
  <2>2. Len(handled) \in Nat /\ Len(inq \o shared) \in Nat
    BY <1>1, LenProperties
  <2>. QED  BY <2>1, <2>2
<1>4. Len(handled) \in Nat
  BY <1>1, LenProperties
<1>. QED  BY <1>2, <1>3, <1>4

LEMMA ServerStep ==
  ASSUME ServerInv, [Next]_vars
  PROVE  ServerInv'
<1>1. CASE UNCHANGED vars
  BY <1>1 DEF ServerInv, TypeOK, TcpTypeOK, ServerTypeOK, ClientTypeOK, Unaccepted, Reading,
     Marked, vars, tcp, serving, listening
<1>2. ASSUME UNCHANGED listening,
             \/ Handler \/ AddText \/ ProxyAdd \/ StopActive \/ StopJoin \/ Destroy
             \/ \E c \in Conn : NetBreak(c) /\ UNCHANGED serving
      PROVE  TypeOK' /\ Unaccepted' /\ Reading'
  <2>1. TcpTypeOK' /\ ServerTypeOK'
    BY <1>2, HandlerTypes, CallTypes DEF ServerInv
  <2>2. ClientTypeOK' /\ Reading'
    BY <1>2 DEF ServerInv, TypeOK, ClientTypeOK, Reading, listening
  <2>. QED  BY <1>2, <2>1, <2>2, ServingUnaccepted DEF ServerInv, TypeOK
<1>3. ASSUME UNCHANGED serving, NEW k \in Clients, ClientStep(k)
      PROVE  TypeOK' /\ Unaccepted' /\ Reading'
  <2>1. ServerTypeOK'
    BY <1>3 DEF ServerInv, TypeOK, ServerTypeOK, serving
  <2>. QED  BY <1>3, <2>1, ClientTypes, ClientUnaccepted DEF ServerInv, TypeOK
<1>4. Marked'
  <2>1. \A c \in Conn : mark'[c] = mark[c] \/ mark'[c] = 0 \/ mark'[c] = Len(handled)
    BY ListenSteps DEF vars, Handler, Accept, AcceptError, Cleanup, Distribute, QueueTimer,
       Written, WriteError, ReadError, Close, ReadLevel, AddText, ProxyAdd, StopActive,
       StopJoin, Destroy, serving, ServerInv, TypeOK, ServerTypeOK
  <2>2. \A c \in Conn : mark[c] \in Nat /\ mark[c] <= Len(handled)
    BY DEF ServerInv, Marked, TypeOK, ServerTypeOK
  <2>3. Len(handled) \in Nat /\ Len(handled') \in Nat /\ Len(handled) <= Len(handled')
    BY HandledGrows DEF ServerInv
  <2>4. ASSUME NEW c \in Conn PROVE mark'[c] <= Len(handled')
    BY <2>1, <2>2, <2>3
  <2>. QED  BY <2>4 DEF Marked
<1>. QED  BY <1>1, <1>2, <1>3, <1>4, ListenSteps DEF ServerInv

-----------------------------------------------------------------------------
(* What a connection gets.  Some facts of sequences first. *)
LEMMA MoveFirst ==
  ASSUME NEW S, NEW g \in Seq(S), NEW q \in Seq(S), q # <<>>
  PROVE  Append(g, Head(q)) \o Tail(q) = g \o q
<1>1. /\ Tail(q) \in Seq(S) /\ Head(q) \in S /\ Head(q) = q[1]
      /\ Len(Tail(q)) = Len(q) - 1
      /\ \A i \in 1..Len(Tail(q)) : Tail(q)[i] = q[i + 1]
  BY WithoutFirst
<1>2. /\ Append(g, Head(q)) \in Seq(S) /\ Len(Append(g, Head(q))) = Len(g) + 1
      /\ \A i \in 1..Len(g) : Append(g, Head(q))[i] = g[i]
      /\ Append(g, Head(q))[Len(g) + 1] = q[1]
  BY <1>1, AddedLast
<1> DEFINE s == Append(g, Head(q)) \o Tail(q)  t == g \o q
<1>3. Len(g) \in Nat /\ Len(q) \in Nat /\ Len(q) >= 1
  BY WithoutFirst, LenProperties
<1>4. /\ s \in Seq(S) /\ t \in Seq(S) /\ Len(s) = Len(g) + Len(q) /\ Len(t) = Len(g) + Len(q)
      /\ \A i \in 1..(Len(g) + Len(q)) :
           /\ s[i] = IF i <= Len(g) + 1 THEN Append(g, Head(q))[i] ELSE Tail(q)[i - (Len(g) + 1)]
           /\ t[i] = IF i <= Len(g) THEN g[i] ELSE q[i - Len(g)]
  <2>1. Len(g) + 1 + (Len(q) - 1) = Len(g) + Len(q)
    BY <1>3
  <2>. QED  BY <1>1, <1>2, <2>1, ConcatProperties
<1>5. ASSUME NEW i \in 1..(Len(g) + Len(q)) PROVE s[i] = t[i]
  <2>1. CASE i <= Len(g)
    BY <1>2, <1>3, <1>4, <2>1
  <2>2. CASE i = Len(g) + 1
    BY <1>2, <1>3, <1>4, <2>2
  <2>3. CASE i > Len(g) + 1
    <3>1. i - (Len(g) + 1) \in 1..Len(Tail(q)) /\ (i - (Len(g) + 1)) + 1 = i - Len(g)
      BY <1>1, <1>3, <2>3
    <3>2. Tail(q)[i - (Len(g) + 1)] = q[(i - (Len(g) + 1)) + 1]
      BY <1>1, <3>1
    <3>. QED  BY <1>3, <1>4, <2>3, <3>1, <3>2
  <2>. QED  BY <1>3, <2>1, <2>2, <2>3
<1> HIDE DEF s, t
<1>6. s = t
  BY <1>4, <1>5, SeqEqual
<1>. QED  BY <1>6 DEF s, t

LEMMA ConcatThree ==
  ASSUME NEW p \in Seq(Message), NEW q \in Seq(Message), NEW r \in Seq(Message)
  PROVE  p \o (q \o r) = (p \o q) \o r
BY ConcatAssociative

LEMMA LaterPart ==
  ASSUME NEW S, NEW h \in Seq(S), NEW b \in Seq(S), NEW m \in 0..Len(h)
  PROVE  /\ SubSeq(h, m + 1, Len(h)) \in Seq(S)
         /\ SubSeq(h \o b, m + 1, Len(h \o b)) = SubSeq(h, m + 1, Len(h)) \o b
<1>1. Len(h) \in Nat /\ Len(b) \in Nat /\ m \in Nat /\ m <= Len(h)
  BY LenProperties
<1>2. /\ h \o b \in Seq(S) /\ Len(h \o b) = Len(h) + Len(b)
      /\ \A i \in 1..(Len(h) + Len(b)) : (h \o b)[i] = IF i <= Len(h) THEN h[i] ELSE b[i - Len(h)]
  BY ConcatProperties
<1> DEFINE p == SubSeq(h, m + 1, Len(h))  s == SubSeq(h \o b, m + 1, Len(h \o b))
<1>3. /\ p \in Seq(S) /\ Len(p) = Len(h) - m
      /\ \A i \in 1..(Len(h) - m) : p[i] = h[m + i]
  <2>1. \A i \in (m + 1)..Len(h) : h[i] \in S
    BY <1>1, ElementOfSeq
  <2>2. /\ p \in Seq(S) /\ Len(p) = IF m + 1 <= Len(h) THEN Len(h) - (m + 1) + 1 ELSE 0
        /\ \A i \in 1..(Len(h) - (m + 1) + 1) : p[i] = h[(m + 1) + i - 1]
    BY <1>1, <2>1, SubSeqProperties
  <2> HIDE DEF p
  <2>3. Len(p) = Len(h) - m
    BY <1>1, <2>2
  <2>4. ASSUME NEW i \in 1..(Len(h) - m) PROVE p[i] = h[m + i]
    <3>1. i \in 1..(Len(h) - (m + 1) + 1) /\ (m + 1) + i - 1 = m + i
      BY <1>1
    <3>2. p[i] = h[(m + 1) + i - 1]
      BY <2>2, <3>1
    <3>. QED  BY <3>1, <3>2
  <2>. QED  BY <2>2, <2>3, <2>4
<1>4. /\ s \in Seq(S) /\ Len(s) = Len(h) + Len(b) - m
      /\ \A i \in 1..(Len(h) + Len(b) - m) : s[i] = (h \o b)[m + i]
  <2>1. \A i \in (m + 1)..Len(h \o b) : (h \o b)[i] \in S
    BY <1>1, <1>2, ElementOfSeq
  <2>2. /\ s \in Seq(S) /\ Len(s) = IF m + 1 <= Len(h \o b) THEN Len(h \o b) - (m + 1) + 1 ELSE 0
        /\ \A i \in 1..(Len(h \o b) - (m + 1) + 1) : s[i] = (h \o b)[(m + 1) + i - 1]
    BY <1>1, <1>2, <2>1, SubSeqProperties
  <2> HIDE DEF s
  <2>3. Len(s) = Len(h) + Len(b) - m
    BY <1>1, <1>2, <2>2
  <2>4. ASSUME NEW i \in 1..(Len(h) + Len(b) - m) PROVE s[i] = (h \o b)[m + i]
    <3>1. i \in 1..(Len(h \o b) - (m + 1) + 1) /\ (m + 1) + i - 1 = m + i
      BY <1>1, <1>2
    <3>2. s[i] = (h \o b)[(m + 1) + i - 1]
      BY <2>2, <3>1
    <3>. QED  BY <3>1, <3>2
  <2>. QED  BY <2>2, <2>3, <2>4
<1> HIDE DEF p, s
<1>5. /\ p \o b \in Seq(S) /\ Len(p \o b) = Len(h) - m + Len(b)
      /\ \A i \in 1..(Len(h) - m + Len(b)) :
           (p \o b)[i] = IF i <= Len(h) - m THEN p[i] ELSE b[i - (Len(h) - m)]
  <2>1. /\ p \o b \in Seq(S) /\ Len(p \o b) = Len(p) + Len(b)
        /\ \A i \in 1..(Len(p) + Len(b)) : (p \o b)[i] = IF i <= Len(p) THEN p[i] ELSE b[i - Len(p)]
    BY <1>3, ConcatProperties
  <2>2. Len(p) = Len(h) - m
    BY <1>3
  <2>. QED  BY <2>1, <2>2
<1>6. Len(s) = Len(p \o b)
  BY <1>1, <1>4, <1>5
<1>7. ASSUME NEW i \in 1..Len(s) PROVE s[i] = (p \o b)[i]
  <2>1. /\ i \in Nat /\ i >= 1 /\ i <= Len(h) + Len(b) - m /\ i \in 1..(Len(h) + Len(b) - m)
        /\ i \in 1..(Len(h) - m + Len(b)) /\ m + i \in 1..(Len(h) + Len(b))
    BY <1>1, <1>4
  <2>2. s[i] = IF m + i <= Len(h) THEN h[m + i] ELSE b[(m + i) - Len(h)]
    BY <1>2, <1>4, <2>1
  <2>3. CASE i <= Len(h) - m
    <3>1. i \in 1..(Len(h) - m) /\ m + i <= Len(h)
      BY <1>1, <2>1, <2>3
    <3>. QED  BY <1>3, <1>5, <2>1, <2>2, <3>1
  <2>4. CASE ~(i <= Len(h) - m)
    <3>1. ~(m + i <= Len(h)) /\ (m + i) - Len(h) = i - (Len(h) - m)
      BY <1>1, <2>1, <2>4
    <3>. QED  BY <1>5, <2>1, <2>2, <2>4, <3>1
  <2>. QED  BY <2>3, <2>4
<1>8. s = p \o b
  BY <1>4, <1>5, <1>6, <1>7, SeqEqual
<1>. QED  BY <1>3, <1>8 DEF p, s

(* The last level in what is put behind q; without one, that of q. *)
LEMMA LastLevelBehind ==
  ASSUME NEW q \in Seq(Message), NEW b \in Seq(Message), NEW l,
         \/ LastLevel(b, l)
         \/ LastLevel(q, l) /\ \A i \in 1..Len(b) : IsText(b[i])
  PROVE  LastLevel(q \o b, l)
<1>1. Len(q) \in Nat /\ Len(b) \in Nat
  BY LenProperties
<1>2. /\ Len(q \o b) = Len(q) + Len(b)
      /\ \A i \in 1..(Len(q) + Len(b)) : (q \o b)[i] = IF i <= Len(q) THEN q[i] ELSE b[i - Len(q)]
  BY ConcatProperties
<1>3. CASE LastLevel(b, l)
  <2> PICK i \in 1..Len(b) : b[i] = Level(l) /\ \A j \in (i + 1)..Len(b) : IsText(b[j])
    BY <1>3 DEF LastLevel
  <2>1. /\ Len(q) + i \in 1..(Len(q) + Len(b)) /\ ~(Len(q) + i <= Len(q))
        /\ (Len(q) + i) - Len(q) = i
    BY <1>1
  <2>2. (q \o b)[Len(q) + i] = Level(l)
    BY <1>2, <2>1
  <2>3. ASSUME NEW j \in (Len(q) + i + 1)..Len(q \o b) PROVE IsText((q \o b)[j])
    <3>1. /\ j \in 1..(Len(q) + Len(b)) /\ ~(j <= Len(q))
          /\ j - Len(q) \in (i + 1)..Len(b)
      BY <1>1, <1>2
    <3>. QED  BY <1>2, <3>1
  <2>. QED  BY <1>2, <2>1, <2>2, <2>3 DEF LastLevel
<1>4. CASE LastLevel(q, l) /\ \A i \in 1..Len(b) : IsText(b[i])
  <2> PICK i \in 1..Len(q) : q[i] = Level(l) /\ \A j \in (i + 1)..Len(q) : IsText(q[j])
    BY <1>4 DEF LastLevel
  <2>1. i \in 1..(Len(q) + Len(b)) /\ (q \o b)[i] = Level(l)
    BY <1>1, <1>2
  <2>2. ASSUME NEW j \in (i + 1)..Len(q \o b) PROVE IsText((q \o b)[j])
    <3>1. j \in 1..(Len(q) + Len(b)) /\ j \in Nat /\ j >= i + 1 /\ i \in Nat
      BY <1>1, <1>2
    <3>2. CASE j <= Len(q)
      BY <1>1, <1>2, <3>1, <3>2
    <3>3. CASE ~(j <= Len(q))
      <4>1. j - Len(q) \in 1..Len(b)
        BY <1>1, <3>1, <3>3
      <4>. QED  BY <1>2, <1>4, <3>1, <3>3, <4>1
    <3>. QED  BY <3>2, <3>3
  <2>. QED  BY <1>2, <2>1, <2>2 DEF LastLevel
<1>. QED  BY <1>3, <1>4

(* A step that leaves what a connection gets as it is. *)
LEMMA ServedKept ==
  ASSUME ServedInv, level' = level, handled' = handled,
         \A c \in Conn : Serves(c)' =>
           Serves(c) /\ mark'[c] = mark[c] /\ got'[c] \o queue'[c] = Destined(c)
  PROVE  ServedInv'
BY DEF ServedInv, Complete, AllDestined, LevelLast, Destined

LEMMA WriteDestined ==
  ASSUME TypeOK, NEW c \in Conn, NEW pending, Write(c, queue[c], pending)
  PROVE  \A d \in Conn : got'[d] \o queue'[d] = Destined(d)
<1>1. got[c] \in Seq(Message) /\ queue[c] \in Seq(Message)
      /\ got \in [Conn -> Seq(Message)] /\ queue \in [Conn -> Seq(Message)]
  BY DEF TypeOK, ServerTypeOK
<1>2. CASE queue[c] = <<>>
  BY <1>1, <1>2 DEF Write, Destined
<1>3. CASE queue[c] # <<>>
  <2>1. Append(got[c], Head(queue[c])) \o Tail(queue[c]) = got[c] \o queue[c]
    BY <1>1, <1>3, MoveFirst
  <2>2. /\ got'[c] = Append(got[c], Head(queue[c])) /\ queue'[c] = Tail(queue[c])
        /\ \A d \in Conn : d # c => got'[d] = got[d] /\ queue'[d] = queue[d]
    BY <1>1, <1>3 DEF Write
  <2>. QED  BY <2>1, <2>2 DEF Destined
<1>. QED  BY <1>2, <1>3

LEMMA AcceptServed ==
  ASSUME ServerInv, ServedInv, Accept
  PROVE  ServedInv'
<1> USE DEF ServerInv, TypeOK, TcpTypeOK, ServerTypeOK
<1> PICK c \in Conn : c = Head(backlog)
  BY WithoutFirst DEF Accept
<1>1. server[c] = "none" /\ got[c] = <<>>
  BY WithoutFirst DEF Accept, Unaccepted
<1>2. Level(level) \in Message /\ Greeting # <<>> /\ Head(Greeting) = Level(level) /\ Tail(Greeting) = <<>>
  BY Messages DEF Greeting
<1>3. /\ got'[c] = <<Level(level)>> /\ queue'[c] = <<>>
      /\ \A d \in Conn : d # c => got'[d] = got[d] /\ queue'[d] = queue[d]
  <2>1. Write(c, Greeting, wpend)
    BY DEF Accept
  <2>2. /\ queue' = [queue EXCEPT ![c] = Tail(Greeting)]
        /\ got' = [got EXCEPT ![c] = Append(@, Head(Greeting))]
    BY <1>2, <2>1 DEF Write
  <2>3. Append(<<>>, Level(level)) = <<Level(level)>>
    OBVIOUS
  <2>. QED  BY <1>1, <1>2, <2>2, <2>3
<1>4. /\ level' = level /\ handled' = handled /\ mark'[c] = Len(handled)
      /\ \A d \in Conn : d # c => mark'[d] = mark[d] /\ (Serves(d)' => Serves(d))
  BY DEF Accept, Serves
<1>5. Destined(c)' = <<Level(level)>>
  BY <1>3 DEF Destined
<1>6. LastLevel(Destined(c)', level)
  <2>1. LastLevel(<<Level(level)>>, level)
    <3>1. Len(<<Level(level)>>) = 1 /\ <<Level(level)>>[1] = Level(level)
      OBVIOUS
    <3>2. 1 \in 1..1 /\ (1 + 1)..1 = {}
      OBVIOUS
    <3> HIDE DEF Level
    <3>. QED  BY <3>1, <3>2 DEF LastLevel
  <2>. QED  BY <1>5, <2>1
<1>7. Destined(c)' = <<Level(level)>> \o SubSeq(handled', mark'[c] + 1, Len(handled'))
  <2>1. Len(handled) \in Nat
    BY LenProperties
  <2>2. SubSeq(handled, Len(handled) + 1, Len(handled)) = <<>>
    BY <2>1, SubSeqEmpty
  <2>3. <<Level(level)>> \in Seq(Message)
    BY <1>2
  <2>4. <<Level(level)>> \o <<>> = <<Level(level)>>
    BY <2>3, ConcatEmptySeq
  <2>. QED  BY <1>4, <1>5, <2>2, <2>4
<1>8. \A d \in Conn : d # c => Destined(d)' = Destined(d)
  BY <1>3 DEF Destined
<1>9. LevelLast'
  BY <1>4, <1>6, <1>8 DEF ServedInv, LevelLast
<1>10. Complete'
  BY <1>4, <1>7, <1>8 DEF ServedInv, Complete, AllDestined
<1>. QED  BY <1>9, <1>10 DEF ServedInv

LEMMA DistributeServed ==
  ASSUME ServerInv, ServedInv, Distribute
  PROVE  ServedInv'
<1> DEFINE batch == inq \o shared
<1>1. batch \in Seq(Message) /\ handled \in Seq(Message) /\ Len(handled) \in Nat
  BY ConcatProperties, LenProperties DEF ServerInv, TypeOK, ServerTypeOK
<1>2. /\ handled' = handled \o batch /\ UNCHANGED <<server, listed, got, mark>>
      /\ \A c \in Conn : Serves(c) => queue'[c] = queue[c] \o batch
  BY DEF Distribute, tcp, Receivers, Serves, Appended, ServerInv, TypeOK, ServerTypeOK
<1>3. \/ level' = level /\ \A i \in 1..Len(batch) : IsText(batch[i])
      \/ LastLevel(batch, level')
  BY DEF Distribute
<1> HIDE DEF batch
<1>4. \A c \in Conn : Serves(c) => Destined(c)' = Destined(c) \o batch
  <2> SUFFICES ASSUME NEW c \in Conn, Serves(c)
               PROVE  got[c] \o (queue[c] \o batch) = (got[c] \o queue[c]) \o batch
    BY <1>2 DEF Destined
  <2>1. got[c] \in Seq(Message) /\ queue[c] \in Seq(Message)
    BY DEF ServerInv, TypeOK, ServerTypeOK
  <2>. QED  BY <1>1, <2>1, ConcatThree
<1>5. \A c \in Conn : Serves(c)' => Serves(c)
  BY <1>2 DEF Serves
<1>6. \A c \in Conn : Destined(c) \in Seq(Message)
  BY ConcatProperties DEF Destined, ServerInv, TypeOK, ServerTypeOK
<1>7. LevelLast'
  <2> SUFFICES ASSUME NEW c \in Conn, Serves(c) PROVE LastLevel(Destined(c) \o batch, level')
    BY <1>4, <1>5 DEF LevelLast
  <2>1. LastLevel(Destined(c), level)
    BY DEF ServedInv, LevelLast
  <2>. QED  BY <1>1, <1>3, <1>6, <2>1, LastLevelBehind
<1>8. Complete'
  <2> SUFFICES ASSUME NEW c \in Conn, Serves(c)
               PROVE  \E l \in Levels \cup {0} :
                        Destined(c) \o batch =
                          <<Level(l)>> \o SubSeq(handled \o batch, mark[c] + 1, Len(handled \o batch))
    BY <1>2, <1>4, <1>5 DEF Complete, AllDestined
  <2>1. PICK l \in Levels \cup {0} :
          Destined(c) = <<Level(l)>> \o SubSeq(handled, mark[c] + 1, Len(handled))
    BY DEF ServedInv, Complete, AllDestined
  <2>2. mark[c] \in 0..Len(handled)
    BY <1>1 DEF Marked, ServerInv, TypeOK, ServerTypeOK
  <2>3. /\ SubSeq(handled, mark[c] + 1, Len(handled)) \in Seq(Message)
        /\ SubSeq(handled \o batch, mark[c] + 1, Len(handled \o batch)) =
             SubSeq(handled, mark[c] + 1, Len(handled)) \o batch
    BY <1>1, <2>2, LaterPart
  <2>4. <<Level(l)>> \in Seq(Message)
    BY Messages
  <2>5. (<<Level(l)>> \o SubSeq(handled, mark[c] + 1, Len(handled))) \o batch =
          <<Level(l)>> \o (SubSeq(handled, mark[c] + 1, Len(handled)) \o batch)
    BY <1>1, <2>3, <2>4, ConcatThree
  <2>. QED  BY <2>1, <2>3, <2>5
<1>. QED  BY <1>7, <1>8 DEF ServedInv

LEMMA ServedStep ==
  ASSUME ServerInv, ServedInv, [Next]_vars
  PROVE  ServedInv'
<1> USE DEF ServerInv, TypeOK, TcpTypeOK, ServerTypeOK
<1>1. CASE Accept
  BY <1>1, AcceptServed
<1>2. CASE Distribute
  BY <1>2, DistributeServed
<1>3. ASSUME NEW c \in Conn, QueueTimer(c) \/ Written(c)
      PROVE  ServedInv'
  <2>1. \A d \in Conn : got'[d] \o queue'[d] = Destined(d)
    BY <1>3, WriteDestined DEF QueueTimer, Written
  <2>2. UNCHANGED <<server, listed, level, handled, mark>>
    BY <1>3 DEF QueueTimer, Written
  <2>. QED  BY <2>1, <2>2, ServedKept DEF Serves
<1>4. ASSUME NEW c \in Conn, WriteError(c) \/ ReadError(c)
      PROVE  ServedInv'
  <2>1. /\ UNCHANGED <<listed, level, handled>> /\ server'[c] = "closed"
        /\ \A d \in Conn : d # c =>
             /\ server'[d] = server[d] /\ queue'[d] = queue[d] /\ got'[d] = got[d]
             /\ mark'[d] = mark[d]
    BY <1>4 DEF WriteError, ReadError, Close
  <2>. QED  BY <2>1, ServedKept DEF Serves, Destined
<1>5. CASE StopJoin
  <2>1. listed' = {} /\ UNCHANGED <<level, handled>>
    BY <1>5 DEF StopJoin
  <2>. QED  BY <2>1, ServedKept DEF Serves
<1>6. CASE Destroy
  <2>1. /\ UNCHANGED <<listed, level, handled, got, queue, mark>>
        /\ \A c \in Conn : server'[c] = "open" => server[c] = "open"
    BY <1>6 DEF Destroy
  <2>. QED  BY <2>1, ServedKept DEF Serves, Destined
<1>7. CASE AcceptError \/ Cleanup \/ AddText \/ ProxyAdd \/ StopActive \/ \E c \in Conn : ReadLevel(c)
  <2>1. UNCHANGED <<server, level, handled, got, queue, mark>> /\ listed' \subseteq listed
    BY <1>7 DEF AcceptError, Cleanup, AddText, ProxyAdd, StopActive, ReadLevel, tcp
  <2>. QED  BY <2>1, ServedKept DEF Serves, Destined
<1>8. ASSUME UNCHANGED serving,
             \/ \E c \in Conn : NetBreak(c)
             \/ \E k \in Clients : ClientStep(k)
             \/ UNCHANGED vars
      PROVE  ServedInv'
  <2>1. server' = server
    BY <1>8 DEF NetBreak, ClientStep, Worker, Lookup, Connect, NetConnect, ConnectError,
       RetryWait, Read, ReadFails, EndClient, SendLogLevel, tcp, vars
  <2>2. UNCHANGED <<listed, level, handled, got, queue, mark>>
    BY <1>8 DEF serving
  <2>. QED  BY <2>1, <2>2, ServedKept DEF Serves, Destined
<1>9. UNCHANGED vars => UNCHANGED serving
  BY DEF vars
<1>. QED
  BY <1>1, <1>2, <1>3, <1>4, <1>5, <1>6, <1>7, <1>8, <1>9, ListenSteps DEF Handler

-----------------------------------------------------------------------------
(* A text is in one place.  Facts of sequences of messages. *)
Fresh(q, m) == \A i \in 1..Len(q) : q[i] # m

LEMMA EmptyApart ==
  /\ Distinct(<<>>)
  /\ \A q : Apart(q, <<>>) /\ Apart(<<>>, q)
BY DEF Distinct, Apart

LEMMA AppendDistinct ==
  ASSUME NEW q \in Seq(Message), NEW m \in Message, ~IsText(m) \/ Fresh(q, m), Distinct(q)
  PROVE  Distinct(Append(q, m))
<1>1. /\ Len(q) \in Nat /\ Len(Append(q, m)) = Len(q) + 1
      /\ \A i \in 1..Len(q) : Append(q, m)[i] = q[i]
      /\ Append(q, m)[Len(q) + 1] = m
  BY AddedLast, LenProperties
<1> DEFINE s == Append(q, m)
<1> HIDE DEF s
<1>2. ASSUME NEW i \in 1..Len(s), NEW j \in 1..Len(s), IsText(s[i]), s[i] = s[j]
      PROVE  i = j
  <2>1. (i \in 1..Len(q) \/ i = Len(q) + 1) /\ (j \in 1..Len(q) \/ j = Len(q) + 1)
    BY <1>1 DEF s
  <2>2. CASE i \in 1..Len(q) /\ j \in 1..Len(q)
    BY <1>1, <1>2, <2>2 DEF Distinct, s
  <2>3. CASE i = Len(q) + 1 /\ j = Len(q) + 1
    BY <2>3
  <2>4. CASE i \in 1..Len(q) /\ j = Len(q) + 1
    BY <1>1, <1>2, <2>4 DEF Fresh, s
  <2>5. CASE i = Len(q) + 1 /\ j \in 1..Len(q)
    BY <1>1, <1>2, <2>5 DEF Fresh, s
  <2>. QED  BY <2>1, <2>2, <2>3, <2>4, <2>5
<1>. QED  BY <1>2 DEF Distinct, s

LEMMA AppendApart ==
  ASSUME NEW p \in Seq(Message), NEW q \in Seq(Message), NEW m \in Message, Apart(p, q)
  PROVE  /\ ~IsText(m) \/ Fresh(p, m) => Apart(p, Append(q, m))
         /\ ~IsText(m) \/ Fresh(q, m) => Apart(Append(p, m), q)
<1>1. /\ Len(q) \in Nat /\ Len(Append(q, m)) = Len(q) + 1
      /\ \A i \in 1..Len(q) : Append(q, m)[i] = q[i]
      /\ Append(q, m)[Len(q) + 1] = m
  BY AddedLast, LenProperties
<1>2. /\ Len(p) \in Nat /\ Len(Append(p, m)) = Len(p) + 1
      /\ \A i \in 1..Len(p) : Append(p, m)[i] = p[i]
      /\ Append(p, m)[Len(p) + 1] = m
  BY AddedLast, LenProperties
<1>3. ASSUME ~IsText(m) \/ Fresh(p, m), NEW i \in 1..Len(p), NEW j \in 1..Len(Append(q, m)),
             IsText(p[i])
      PROVE  p[i] # Append(q, m)[j]
  <2>1. j \in 1..Len(q) \/ j = Len(q) + 1
    BY <1>1
  <2>2. CASE j \in 1..Len(q)
    BY <1>1, <1>3, <2>2 DEF Apart
  <2>3. CASE j = Len(q) + 1
    BY <1>1, <1>3, <2>3 DEF Fresh
  <2>. QED  BY <2>1, <2>2, <2>3
<1>4. ASSUME ~IsText(m) \/ Fresh(q, m), NEW i \in 1..Len(Append(p, m)), NEW j \in 1..Len(q),
             IsText(Append(p, m)[i])
      PROVE  Append(p, m)[i] # q[j]
  <2>1. i \in 1..Len(p) \/ i = Len(p) + 1
    BY <1>2
  <2>2. CASE i \in 1..Len(p)
    BY <1>2, <1>4, <2>2 DEF Apart
  <2>3. CASE i = Len(p) + 1
    BY <1>2, <1>4, <2>3 DEF Fresh
  <2>. QED  BY <2>1, <2>2, <2>3
<1>. QED  BY <1>3, <1>4 DEF Apart

(* The places of p \o q: one of p, or one of q. *)
LEMMA Joined ==
  ASSUME NEW S, NEW p \in Seq(S), NEW q \in Seq(S)
  PROVE  /\ p \o q \in Seq(S)
         /\ Len(p) \in Nat /\ Len(q) \in Nat /\ Len(p \o q) = Len(p) + Len(q)
         /\ \A i \in 1..Len(p \o q) :
              \/ i \in 1..Len(p) /\ (p \o q)[i] = p[i]
              \/ /\ i > Len(p) /\ i - Len(p) \in 1..Len(q)
                 /\ (p \o q)[i] = q[i - Len(p)]
         /\ \A i \in 1..Len(p) : i \in 1..Len(p \o q) /\ (p \o q)[i] = p[i]
         /\ \A i \in 1..Len(q) :
              Len(p) + i \in 1..Len(p \o q) /\ (p \o q)[Len(p) + i] = q[i]
<1>1. Len(p) \in Nat /\ Len(q) \in Nat
  BY LenProperties
<1>2. /\ p \o q \in Seq(S) /\ Len(p \o q) = Len(p) + Len(q)
      /\ \A i \in 1..(Len(p) + Len(q)) : (p \o q)[i] = IF i <= Len(p) THEN p[i] ELSE q[i - Len(p)]
  BY ConcatProperties
<1>3. ASSUME NEW i \in 1..Len(p \o q)
      PROVE  \/ i \in 1..Len(p) /\ (p \o q)[i] = p[i]
             \/ /\ i > Len(p) /\ i - Len(p) \in 1..Len(q)
                /\ (p \o q)[i] = q[i - Len(p)]
  BY <1>1, <1>2
<1>4. ASSUME NEW i \in 1..Len(p) PROVE i \in 1..Len(p \o q) /\ (p \o q)[i] = p[i]
  BY <1>1, <1>2
<1>5. ASSUME NEW i \in 1..Len(q)
      PROVE  Len(p) + i \in 1..Len(p \o q) /\ (p \o q)[Len(p) + i] = q[i]
  <2>1. /\ Len(p) + i \in 1..(Len(p) + Len(q)) /\ ~(Len(p) + i <= Len(p))
        /\ (Len(p) + i) - Len(p) = i
    BY <1>1
  <2>. QED  BY <1>2, <2>1
<1>. QED  BY <1>1, <1>2, <1>3, <1>4, <1>5

LEMMA JoinedDistinct ==
  ASSUME NEW p \in Seq(Message), NEW q \in Seq(Message), Distinct(p), Distinct(q), Apart(p, q)
  PROVE  Distinct(p \o q)
<1> DEFINE s == p \o q
<1>1. /\ Len(p) \in Nat
      /\ \A i \in 1..Len(s) :
           \/ i \in 1..Len(p) /\ s[i] = p[i]
           \/ i > Len(p) /\ i - Len(p) \in 1..Len(q) /\ s[i] = q[i - Len(p)]
  BY Joined
<1> HIDE DEF s
<1>2. ASSUME NEW i \in 1..Len(s), NEW j \in 1..Len(s), IsText(s[i]), s[i] = s[j]
      PROVE  i = j
  <2>1. CASE i \in 1..Len(p) /\ j \in 1..Len(p) /\ s[i] = p[i] /\ s[j] = p[j]
    BY <1>2, <2>1 DEF Distinct
  <2>2. CASE /\ i - Len(p) \in 1..Len(q) /\ j - Len(p) \in 1..Len(q)
             /\ s[i] = q[i - Len(p)] /\ s[j] = q[j - Len(p)]
    <3>1. i - Len(p) = j - Len(p)
      BY <1>2, <2>2 DEF Distinct
    <3>. QED  BY <1>1, <3>1
  <2>3. CASE i \in 1..Len(p) /\ s[i] = p[i] /\ j - Len(p) \in 1..Len(q) /\ s[j] = q[j - Len(p)]
    BY <1>2, <2>3 DEF Apart
  <2>4. CASE j \in 1..Len(p) /\ s[j] = p[j] /\ i - Len(p) \in 1..Len(q) /\ s[i] = q[i - Len(p)]
    BY <1>2, <2>4 DEF Apart
  <2>. QED  BY <1>1, <2>1, <2>2, <2>3, <2>4
<1>. QED  BY <1>2 DEF Distinct, s

LEMMA JoinedApart ==
  ASSUME NEW p \in Seq(Message), NEW q \in Seq(Message), NEW r \in Seq(Message),
         Apart(p, q), Apart(p, r)
  PROVE  Apart(p, q \o r)
<1> DEFINE s == q \o r
<1>1. \A i \in 1..Len(s) :
        \/ i \in 1..Len(q) /\ s[i] = q[i]
        \/ i - Len(q) \in 1..Len(r) /\ s[i] = r[i - Len(q)]
  BY Joined
<1> HIDE DEF s
<1>2. ASSUME NEW i \in 1..Len(p), NEW j \in 1..Len(s), IsText(p[i]) PROVE p[i] # s[j]
  BY <1>1, <1>2 DEF Apart
<1>. QED  BY <1>2 DEF Apart, s

LEMMA FreshText ==
  ASSUME TypeOK, texts < MaxText, NEW q \in Seq(Message), Added(q)
  PROVE  TextMsg(texts + 1) \in Message /\ Fresh(q, TextMsg(texts + 1))
<1>1. texts + 1 \in Text /\ texts \in Nat
  BY ListenAssumption DEF TypeOK, ServerTypeOK, Text
<1>2. TextMsg(texts + 1) \in Message /\ IsText(TextMsg(texts + 1)) /\ TextMsg(texts + 1)[2] = texts + 1
  BY <1>1, Messages
<1>3. ASSUME NEW i \in 1..Len(q), q[i] = TextMsg(texts + 1) PROVE FALSE
  <2>1. q[i][2] <= texts /\ q[i][2] = texts + 1
    BY <1>2, <1>3 DEF Added
  <2>. QED  BY <1>1, <2>1
<1>. QED  BY <1>2, <1>3 DEF Fresh

LEMMA UpStep ==
  ASSUME ServerInv, UpLevels, [Next]_vars
  PROVE  UpLevels'
<1>1. ASSUME NEW c \in Conn
      PROVE  \/ up'[c] = up[c] \/ up'[c] = <<>>
             \/ up[c] # <<>> /\ up'[c] = Tail(up[c])
             \/ \E l \in Levels : up'[c] = Append(up[c], Level(l))
  <2> USE DEF ServerInv, TypeOK, TcpTypeOK
  <2>1. CASE Handler
    <3>1. CASE Accept \/ AcceptError \/ Cleanup \/ Distribute
      BY <3>1 DEF Accept, AcceptError, Cleanup, Distribute, tcp
    <3>2. ASSUME NEW d \in Conn, QueueTimer(d) \/ Written(d) \/ WriteError(d) \/ ReadError(d) \/ ReadLevel(d)
          PROVE  up'[c] = up[c] \/ up'[c] = <<>> \/ (up[c] # <<>> /\ up'[c] = Tail(up[c]))
      BY <3>2 DEF QueueTimer, Written, WriteError, ReadError, Close, ReadLevel
    <3>. QED  BY <2>1, <3>1, <3>2 DEF Handler
  <2>2. CASE AddText \/ ProxyAdd \/ StopActive \/ StopJoin \/ Destroy \/ \E d \in Conn : NetBreak(d)
    BY <2>2 DEF AddText, ProxyAdd, StopActive, StopJoin, Destroy, NetBreak, tcp
  <2>3. ASSUME NEW k \in Clients, ClientStep(k)
        PROVE  up'[c] = up[c] \/ \E l \in Levels : up'[c] = Append(up[c], Level(l))
    <3>1. CASE Worker(k) \/ EndClient(k)
      BY <3>1 DEF Worker, Lookup, Connect, NetConnect, ConnectError, RetryWait, Read, ReadFails,
         EndClient, tcp
    <3>2. ASSUME NEW l \in Levels, SendLogLevel(k, l)
          PROVE  up'[c] = up[c] \/ up'[c] = Append(up[c], Level(l))
      BY <3>2 DEF SendLogLevel, Sent
    <3>. QED  BY <2>3, <3>1, <3>2 DEF ClientStep
  <2>4. CASE UNCHANGED vars
    BY <2>4 DEF vars, tcp
  <2>. QED  BY <2>1, <2>2, <2>3, <2>4, ListenSteps
<1>2. ASSUME NEW c \in Conn, NEW i \in 1..Len(up'[c]) PROVE IsLevel(up'[c][i])
  <2>1. up[c] \in Seq(Message) /\ \A j \in 1..Len(up[c]) : IsLevel(up[c][j])
    BY DEF UpLevels, ServerInv, TypeOK, TcpTypeOK
  <2>2. CASE up'[c] = up[c]
    BY <2>1, <2>2
  <2>3. CASE up'[c] = <<>>
    BY <2>3
  <2>4. CASE up[c] # <<>> /\ up'[c] = Tail(up[c])
    BY <2>1, <2>4, WithoutFirst
  <2>5. ASSUME NEW l \in Levels, up'[c] = Append(up[c], Level(l)) PROVE IsLevel(up'[c][i])
    <3>1. Level(l) \in Message /\ IsLevel(Level(l))
      BY Messages
    <3>2. /\ Len(up[c]) \in Nat /\ Len(up'[c]) = Len(up[c]) + 1
          /\ \A j \in 1..Len(up[c]) : up'[c][j] = up[c][j]
          /\ up'[c][Len(up[c]) + 1] = Level(l)
      BY <2>1, <2>5, <3>1, AddedLast, LenProperties
    <3>3. i \in 1..Len(up[c]) \/ i = Len(up[c]) + 1
      BY <3>2
    <3>. QED  BY <2>1, <3>1, <3>2, <3>3
  <2>. QED  BY <1>1, <2>2, <2>3, <2>4, <2>5
<1>. QED  BY <1>2 DEF UpLevels

LEMMA AddOnce ==
  ASSUME ServerInv, Once, AddText \/ ProxyAdd
  PROVE  Once'
<1> DEFINE m == TextMsg(texts + 1)
<1>1. inq \in Seq(Message) /\ shared \in Seq(Message) /\ handled \in Seq(Message) /\ texts \in Nat
  BY DEF ServerInv, TypeOK, ServerTypeOK
<1>2. texts < MaxText /\ texts' = texts + 1 /\ handled' = handled
  BY DEF AddText, ProxyAdd
<1>3. m \in Message /\ Fresh(inq, m) /\ Fresh(shared, m) /\ Fresh(handled, m)
  BY <1>1, <1>2, FreshText DEF ServerInv, Once
<1>4. m[2] = texts'
  BY <1>2 DEF TextMsg
<1>5. \/ inq' = Append(inq, m) /\ shared' = shared
      \/ inq' = inq /\ shared' = Append(shared, m)
  BY <1>2 DEF AddText, ProxyAdd
<1> HIDE DEF m
<1>6. \A t \in Text : t <= texts => t <= texts'
  BY <1>1, <1>2 DEF Text
<1>7. ASSUME NEW q \in Seq(Message), Added(q)
      PROVE  /\ \A i \in 1..Len(q) : IsText(q[i]) => q[i][2] <= texts'
             /\ \A i \in 1..Len(Append(q, m)) :
                  IsText(Append(q, m)[i]) => Append(q, m)[i][2] <= texts'
  <2>1. ASSUME NEW i \in 1..Len(q), IsText(q[i]) PROVE q[i][2] <= texts'
    <3>1. q[i] \in Message
      BY <1>7, ElementOfSeq
    <3>2. q[i][2] \in Text
      BY <2>1, <3>1, Messages
    <3>. QED  BY <1>6, <1>7, <2>1, <3>2 DEF Added
  <2>2. /\ Len(q) \in Nat /\ Len(Append(q, m)) = Len(q) + 1
        /\ \A i \in 1..Len(q) : Append(q, m)[i] = q[i]
        /\ Append(q, m)[Len(q) + 1] = m
    BY <1>3, <1>7, AddedLast, LenProperties
  <2>3. texts' <= texts'
    BY <1>1, <1>2
  <2>4. \A i \in 1..Len(Append(q, m)) : i \in 1..Len(q) \/ i = Len(q) + 1
    BY <2>2
  <2>. QED  BY <1>4, <2>1, <2>2, <2>3, <2>4
<1>8. Added(handled)' /\ Added(inq)' /\ Added(shared)'
  <2>1. \A q \in Seq(Message) : Added(q) =>
          /\ \A i \in 1..Len(q) : IsText(q[i]) => q[i][2] <= texts'
          /\ \A i \in 1..Len(Append(q, m)) :
               IsText(Append(q, m)[i]) => Append(q, m)[i][2] <= texts'
    BY <1>7
  <2>2. /\ Added(handled) /\ Added(inq) /\ Added(shared)
    BY DEF Once
  <2>. QED  BY <1>1, <1>2, <1>5, <2>1, <2>2 DEF Added
<1>9. Distinct(handled') /\ Distinct(inq') /\ Distinct(shared')
  BY <1>1, <1>2, <1>3, <1>5, AppendDistinct DEF Once
<1>10. Apart(handled', inq') /\ Apart(handled', shared') /\ Apart(inq', shared')
  <2>1. Apart(handled, inq) /\ Apart(handled, shared) /\ Apart(inq, shared)
    BY DEF Once
  <2>. QED  BY <1>1, <1>2, <1>3, <1>5, <2>1, AppendApart
<1>. QED  BY <1>8, <1>9, <1>10 DEF Once, Added

LEMMA ReadLevelOnce ==
  ASSUME ServerInv, UpLevels, Once, NEW c \in Conn, ReadLevel(c)
  PROVE  Once'
<1> DEFINE m == Head(up[c])
<1>1. inq \in Seq(Message) /\ shared \in Seq(Message) /\ handled \in Seq(Message)
      /\ up[c] \in Seq(Message) /\ up[c] # <<>>
  BY DEF ServerInv, TypeOK, ServerTypeOK, TcpTypeOK, ReadLevel
<1>2. m \in Message /\ IsLevel(m)
  BY <1>1, WithoutFirst DEF UpLevels
<1>3. ~IsText(m)
  BY <1>2, Messages
<1>4. inq' = Append(inq, m) /\ UNCHANGED <<shared, handled, texts>>
  BY DEF ReadLevel
<1> HIDE DEF m
<1>5. Added(inq)'
  <2>1. /\ Len(inq) \in Nat /\ Len(inq') = Len(inq) + 1
        /\ \A i \in 1..Len(inq) : inq'[i] = inq[i]
        /\ inq'[Len(inq) + 1] = m
    BY <1>1, <1>2, <1>4, AddedLast, LenProperties
  <2>2. \A i \in 1..Len(inq') : i \in 1..Len(inq) \/ i = Len(inq) + 1
    BY <2>1
  <2>. QED  BY <1>3, <1>4, <2>1, <2>2 DEF Added, Once
<1>6. Distinct(inq')
  BY <1>1, <1>2, <1>3, <1>4, AppendDistinct DEF Once
<1>7. Apart(handled', inq') /\ Apart(inq', shared')
  <2>1. Apart(handled, inq) /\ Apart(inq, shared)
    BY DEF Once
  <2>. QED  BY <1>1, <1>2, <1>3, <1>4, <2>1, AppendApart
<1>. QED  BY <1>4, <1>5, <1>6, <1>7 DEF Once, Added, Distinct, Apart

LEMMA DistributeOnce ==
  ASSUME ServerInv, Once, Distribute
  PROVE  Once'
<1>1. inq \in Seq(Message) /\ shared \in Seq(Message) /\ handled \in Seq(Message)
      /\ inq \o shared \in Seq(Message)
  BY ConcatProperties DEF ServerInv, TypeOK, ServerTypeOK
<1>2. handled' = handled \o (inq \o shared) /\ inq' = <<>> /\ shared' = <<>> /\ texts' = texts
  BY DEF Distribute
<1>3. Distinct(handled')
  <2>1. Distinct(inq \o shared)
    BY <1>1, JoinedDistinct DEF Once
  <2>2. Apart(handled, inq \o shared)
    BY <1>1, JoinedApart DEF Once
  <2>. QED  BY <1>1, <1>2, <2>1, <2>2, JoinedDistinct DEF Once
<1>4. ASSUME NEW p \in Seq(Message), NEW q \in Seq(Message), Added(p), Added(q)
      PROVE  Added(p \o q)
  <2>1. \A i \in 1..Len(p \o q) :
          \/ i \in 1..Len(p) /\ (p \o q)[i] = p[i]
          \/ i - Len(p) \in 1..Len(q) /\ (p \o q)[i] = q[i - Len(p)]
    BY <1>4, Joined
  <2>. QED  BY <1>4, <2>1 DEF Added
<1>5. Added(handled)'
  <2>1. Added(inq \o shared)
    BY <1>1, <1>4 DEF Once
  <2>2. Added(handled \o (inq \o shared))
    BY <1>1, <1>4, <2>1 DEF Once
  <2>. QED  BY <1>2, <2>2 DEF Added
<1>6. Added(inq)' /\ Added(shared)'
  BY <1>2 DEF Added
<1>. QED  BY <1>2, <1>3, <1>5, <1>6, EmptyApart DEF Once

LEMMA OnceStep ==
  ASSUME ServerInv, OnceInv, [Next]_vars
  PROVE  OnceInv'
<1>1. Once /\ UpLevels
  BY DEF OnceInv
<1>. SUFFICES Once'
  BY <1>1, UpStep DEF OnceInv
<1>2. CASE AddText \/ ProxyAdd
  BY <1>1, <1>2, AddOnce
<1>3. ASSUME NEW c \in Conn, ReadLevel(c) PROVE Once'
  BY <1>1, <1>3, ReadLevelOnce
<1>4. CASE Distribute
  BY <1>1, <1>4, DistributeOnce
<1>5. CASE StopJoin
  <2>1. inq' = <<>> /\ shared' = <<>> /\ UNCHANGED <<handled, texts>>
    BY <1>5 DEF StopJoin
  <2>2. Added(handled)' /\ Added(inq)' /\ Added(shared)'
    BY <1>1, <2>1 DEF Once, Added
  <2>. QED  BY <1>1, <2>1, <2>2, EmptyApart DEF Once
<1>6. ASSUME UNCHANGED <<inq, shared, handled, texts>> PROVE Once'
  BY <1>1, <1>6 DEF Once, Added, Distinct, Apart
<1>7. ASSUME Accept \/ AcceptError \/ Cleanup
             \/ \E c \in Conn : QueueTimer(c) \/ Written(c) \/ WriteError(c) \/ ReadError(c)
      PROVE  UNCHANGED <<inq, shared, handled, texts>>
  BY <1>7 DEF Accept, AcceptError, Cleanup, QueueTimer, Written, WriteError, ReadError, Close
<1>8. StopActive \/ Destroy \/ UNCHANGED vars \/ UNCHANGED serving
        => UNCHANGED <<inq, shared, handled, texts>>
  BY DEF StopActive, Destroy, vars, serving
<1>. QED
  BY <1>2, <1>3, <1>4, <1>5, <1>6, <1>7, <1>8, ListenSteps DEF Handler

-----------------------------------------------------------------------------
(* The way of a text.  Facts of sequences of messages and their places. *)
LEMMA EmptyFlow ==
  /\ \A h : Placed(h, <<>>) /\ Ordered(h, <<>>)
  /\ \A h, s : Before(h, s, <<>>) /\ Before(h, <<>>, s)
BY DEF Placed, Ordered, Before

LEMMA GrownFlow ==
  ASSUME NEW h, NEW g, \A i \in 1..Len(h) : i \in 1..Len(g) /\ g[i] = h[i]
  PROVE  /\ \A s : Placed(h, s) => Placed(g, s)
         /\ \A s : Ordered(h, s) => Ordered(g, s)
         /\ \A s, t : Before(h, s, t) => Before(g, s, t)
<1>1. ASSUME NEW m, NEW n, Earlier(h, m, n) PROVE Earlier(g, m, n)
  BY <1>1 DEF Earlier
<1>2. \A s : Placed(h, s) => Placed(g, s)
  BY DEF Placed
<1>. QED  BY <1>1, <1>2 DEF Ordered, Before

LEMMA TailFlow ==
  ASSUME NEW h, NEW q \in Seq(Message), q # <<>>
  PROVE  /\ Placed(h, q) => Placed(h, Tail(q))
         /\ Ordered(h, q) => Ordered(h, Tail(q))
         /\ \A s : Before(h, s, q) => Before(h, s, Tail(q))
         /\ \A s : Before(h, q, s) => Before(h, Tail(q), s)
<1>1. /\ Len(Tail(q)) = Len(q) - 1 /\ Len(q) \in Nat
      /\ \A i \in 1..Len(Tail(q)) : i \in Nat /\ i + 1 \in 1..Len(q) /\ Tail(q)[i] = q[i + 1]
  BY WithoutFirst
<1> DEFINE r == Tail(q)
<1> HIDE DEF r
<1>2. \A i \in 1..Len(r) : i \in Nat /\ i + 1 \in 1..Len(q) /\ r[i] = q[i + 1]
  BY <1>1 DEF r
<1>3. Placed(h, q) => Placed(h, r)
  BY <1>2 DEF Placed
<1>4. Ordered(h, q) => Ordered(h, r)
  <2> SUFFICES ASSUME Ordered(h, q), NEW i \in 1..Len(r), NEW j \in 1..Len(r),
                      i < j, IsText(r[i]), IsText(r[j])
               PROVE  Earlier(h, r[i], r[j])
    BY DEF Ordered
  <2>1. i + 1 < j + 1
    BY <1>2
  <2>. QED  BY <1>2, <2>1 DEF Ordered
<1>5. \A s : Before(h, s, q) => Before(h, s, r)
  BY <1>2 DEF Before
<1>6. \A s : Before(h, q, s) => Before(h, r, s)
  BY <1>2 DEF Before
<1>. QED  BY <1>3, <1>4, <1>5, <1>6 DEF r

(* The first of q goes behind s. *)
LEMMA MovedFlow ==
  ASSUME NEW h, NEW s \in Seq(Message), NEW q \in Seq(Message), q # <<>>
  PROVE  LET r == Append(s, Head(q)) IN
         /\ Placed(h, s) /\ Placed(h, q) => Placed(h, r)
         /\ Ordered(h, s) /\ Before(h, s, q) => Ordered(h, r)
         /\ Ordered(h, q) /\ Before(h, s, q) => Before(h, r, Tail(q))
         /\ \A t : Before(h, t, s) /\ Before(h, t, q) => Before(h, t, r)
         /\ \A t : Before(h, s, t) /\ Before(h, q, t) => Before(h, r, t)
<1> DEFINE r == Append(s, Head(q))
<1>1. /\ Head(q) \in Message /\ Head(q) = q[1] /\ 1 \in 1..Len(q)
      /\ \A i \in 1..Len(Tail(q)) : i + 1 \in 1..Len(q) /\ Tail(q)[i] = q[i + 1]
  BY WithoutFirst
<1>2. /\ Len(s) \in Nat /\ Len(r) = Len(s) + 1
      /\ \A i \in 1..Len(s) : r[i] = s[i]
      /\ r[Len(s) + 1] = q[1]
  BY <1>1, AddedLast, LenProperties
<1> HIDE DEF r
<1>3. \A i \in 1..Len(r) :
        \/ i \in 1..Len(s) /\ r[i] = s[i]
        \/ i = Len(s) + 1 /\ r[i] = q[1]
  BY <1>2
<1>4. Placed(h, s) /\ Placed(h, q) => Placed(h, r)
  BY <1>1, <1>3 DEF Placed
<1>5. Ordered(h, s) /\ Before(h, s, q) => Ordered(h, r)
  <2> SUFFICES ASSUME Ordered(h, s), Before(h, s, q), NEW i \in 1..Len(r), NEW j \in 1..Len(r),
                      i < j, IsText(r[i]), IsText(r[j])
               PROVE  Earlier(h, r[i], r[j])
    BY DEF Ordered
  <2>1. i \in 1..Len(s) /\ r[i] = s[i]
    BY <1>2, <1>3
  <2>2. CASE j \in 1..Len(s) /\ r[j] = s[j]
    BY <2>1, <2>2 DEF Ordered
  <2>3. CASE r[j] = q[1]
    BY <1>1, <2>1, <2>3 DEF Before
  <2>. QED  BY <1>3, <2>2, <2>3
<1>6. Ordered(h, q) /\ Before(h, s, q) => Before(h, r, Tail(q))
  <2> SUFFICES ASSUME Ordered(h, q), Before(h, s, q), NEW i \in 1..Len(r), NEW j \in 1..Len(Tail(q)),
                      IsText(r[i]), IsText(Tail(q)[j])
               PROVE  Earlier(h, r[i], Tail(q)[j])
    BY DEF Before
  <2>1. j + 1 \in 1..Len(q) /\ Tail(q)[j] = q[j + 1] /\ 1 < j + 1
    BY <1>1
  <2>2. CASE i \in 1..Len(s) /\ r[i] = s[i]
    BY <2>1, <2>2 DEF Before
  <2>3. CASE r[i] = q[1]
    BY <1>1, <2>1, <2>3 DEF Ordered
  <2>. QED  BY <1>3, <2>2, <2>3
<1>7. \A t : Before(h, t, s) /\ Before(h, t, q) => Before(h, t, r)
  BY <1>1, <1>3 DEF Before
<1>8. \A t : Before(h, s, t) /\ Before(h, q, t) => Before(h, r, t)
  BY <1>1, <1>3 DEF Before
<1>. QED  BY <1>4, <1>5, <1>6, <1>7, <1>8 DEF r

LEMMA JoinedFlow ==
  ASSUME NEW h, NEW p \in Seq(Message), NEW q \in Seq(Message)
  PROVE  /\ Placed(h, p) /\ Placed(h, q) => Placed(h, p \o q)
         /\ Ordered(h, p) /\ Ordered(h, q) /\ Before(h, p, q) => Ordered(h, p \o q)
         /\ \A s : Before(h, s, p) /\ Before(h, s, q) => Before(h, s, p \o q)
<1> DEFINE r == p \o q
<1>1. /\ Len(p) \in Nat
      /\ \A i \in 1..Len(r) :
           \/ i \in 1..Len(p) /\ r[i] = p[i]
           \/ i > Len(p) /\ i - Len(p) \in 1..Len(q) /\ r[i] = q[i - Len(p)]
  BY Joined
<1> HIDE DEF r
<1>2. Placed(h, p) /\ Placed(h, q) => Placed(h, r)
  BY <1>1 DEF Placed
<1>3. Ordered(h, p) /\ Ordered(h, q) /\ Before(h, p, q) => Ordered(h, r)
  <2> SUFFICES ASSUME Ordered(h, p), Ordered(h, q), Before(h, p, q),
                      NEW i \in 1..Len(r), NEW j \in 1..Len(r),
                      i < j, IsText(r[i]), IsText(r[j])
               PROVE  Earlier(h, r[i], r[j])
    BY DEF Ordered
  <2>1. CASE i \in 1..Len(p) /\ r[i] = p[i] /\ j \in 1..Len(p) /\ r[j] = p[j]
    BY <2>1 DEF Ordered
  <2>2. CASE i \in 1..Len(p) /\ r[i] = p[i] /\ j - Len(p) \in 1..Len(q) /\ r[j] = q[j - Len(p)]
    BY <2>2 DEF Before
  <2>3. CASE /\ i - Len(p) \in 1..Len(q) /\ r[i] = q[i - Len(p)]
             /\ j - Len(p) \in 1..Len(q) /\ r[j] = q[j - Len(p)]
    <3>1. i - Len(p) < j - Len(p)
      BY <1>1
    <3>. QED  BY <2>3, <3>1 DEF Ordered
  <2>4. ~(i > Len(p) /\ j \in 1..Len(p))
    BY <1>1
  <2>. QED  BY <1>1, <2>1, <2>2, <2>3, <2>4
<1>4. \A s : Before(h, s, p) /\ Before(h, s, q) => Before(h, s, r)
  BY <1>1 DEF Before
<1>. QED  BY <1>2, <1>3, <1>4 DEF r

(* What is handled comes behind all that was. *)
LEMMA HandledFlow ==
  ASSUME NEW h \in Seq(Message), NEW b \in Seq(Message)
  PROVE  LET g == h \o b IN
         /\ Placed(g, b) /\ Ordered(g, b)
         /\ \A s : Placed(h, s) => Before(g, s, b)
         /\ \A i \in 1..Len(h) : i \in 1..Len(g) /\ g[i] = h[i]
<1> DEFINE g == h \o b
<1>1. /\ Len(h) \in Nat
      /\ \A i \in 1..Len(h) : i \in 1..Len(g) /\ g[i] = h[i]
      /\ \A i \in 1..Len(b) : Len(h) + i \in 1..Len(g) /\ g[Len(h) + i] = b[i]
  BY Joined
<1> HIDE DEF g
<1>2. Placed(g, b)
  BY <1>1 DEF Placed
<1>3. Ordered(g, b)
  <2> SUFFICES ASSUME NEW i \in 1..Len(b), NEW j \in 1..Len(b), i < j
               PROVE  Earlier(g, b[i], b[j])
    BY DEF Ordered
  <2>1. Len(h) + i < Len(h) + j
    BY <1>1
  <2>. QED  BY <1>1, <2>1 DEF Earlier
<1>4. ASSUME NEW s, Placed(h, s) PROVE Before(g, s, b)
  <2> SUFFICES ASSUME NEW i \in 1..Len(s), NEW j \in 1..Len(b), IsText(s[i])
               PROVE  Earlier(g, s[i], b[j])
    BY DEF Before
  <2>1. PICK p \in 1..Len(h) : h[p] = s[i]
    BY <1>4 DEF Placed
  <2>2. p < Len(h) + j
    BY <1>1
  <2>. QED  BY <1>1, <2>1, <2>2 DEF Earlier
<1>. QED  BY <1>1, <1>2, <1>3, <1>4 DEF g

(* The steps: what is on its way is dropped, *)
LEMMA DroppedFlow ==
  ASSUME FlowInv, InboxInv, handled' = handled, inbox' = inbox,
         \A c \in Conn : down'[c] = down[c] \/ down'[c] = <<>>,
         \A c \in Conn : queue'[c] = queue[c] \/ queue'[c] = <<>>,
         \A k \in Clients : conn'[k] = 0 \/ (conn'[k] = conn[k] /\ conn[k] \in Conn \cup {0})
  PROVE  FlowInv' /\ InboxInv'
<1>1. ASSUME NEW c \in Conn PROVE Flows(handled, down'[c], queue'[c])
  <2>1. Flows(handled, down[c], queue[c])
    BY DEF FlowInv
  <2>. QED  BY <2>1, EmptyFlow DEF Flows
<1>2. FlowInv'
  BY <1>1 DEF FlowInv
<1>3. ASSUME NEW k \in Clients, conn'[k] # 0
      PROVE  Before(handled, inbox[k], down'[conn'[k]]) /\ Before(handled, inbox[k], queue'[conn'[k]])
  <2>1. conn'[k] = conn[k] /\ conn[k] \in Conn
    BY <1>3
  <2>2. Before(handled, inbox[k], down[conn[k]]) /\ Before(handled, inbox[k], queue[conn[k]])
    BY <1>3, <2>1 DEF InboxInv
  <2>. QED  BY <2>1, <2>2, EmptyFlow
<1>4. InboxInv'
  BY <1>3 DEF InboxInv
<1>. QED  BY <1>2, <1>4

(* written, *)
LEMMA WriteFlow ==
  ASSUME ServerInv, FlowInv, InboxInv, UNCHANGED <<handled, inbox, conn>>,
         NEW c \in Conn, NEW q \in Seq(Message), NEW pending, Write(c, q, pending),
         Flows(handled, down[c], q),
         \A k \in Clients : conn[k] = c => Before(handled, inbox[k], q)
  PROVE  FlowInv' /\ InboxInv'
<1>1. /\ down \in [Conn -> Seq(Message)] /\ queue \in [Conn -> Seq(Message)]
      /\ conn \in [Clients -> Conn \cup {0}] /\ down[c] \in Seq(Message)
  BY DEF ServerInv, TypeOK, TcpTypeOK, ServerTypeOK, ClientTypeOK
<1>2. /\ \/ q = <<>> /\ down'[c] = down[c] /\ queue'[c] = q
         \/ /\ q # <<>> /\ queue'[c] = Tail(q)
            /\ down'[c] = down[c] \/ down'[c] = Append(down[c], Head(q))
      /\ \A d \in Conn : d # c => down'[d] = down[d] /\ queue'[d] = queue[d]
  BY <1>1 DEF Write, Sent
<1>3. /\ Placed(handled, down[c]) /\ Placed(handled, q) /\ Ordered(handled, down[c])
      /\ Ordered(handled, q) /\ Before(handled, down[c], q)
  BY DEF Flows
<1>4. /\ Flows(handled, down'[c], queue'[c])
      /\ \A s : Before(handled, s, down[c]) /\ Before(handled, s, q)
                  => Before(handled, s, down'[c]) /\ Before(handled, s, queue'[c])
  <2>1. CASE q = <<>> /\ down'[c] = down[c] /\ queue'[c] = q
    BY <1>3, <2>1 DEF Flows
  <2>2. CASE q # <<>> /\ queue'[c] = Tail(q) /\ down'[c] = down[c]
    BY <1>3, <2>2, TailFlow DEF Flows
  <2>3. CASE q # <<>> /\ queue'[c] = Tail(q) /\ down'[c] = Append(down[c], Head(q))
    <3>1. /\ Placed(handled, down'[c]) /\ Ordered(handled, down'[c])
          /\ Before(handled, down'[c], queue'[c])
          /\ \A s : Before(handled, s, down[c]) /\ Before(handled, s, q) => Before(handled, s, down'[c])
      BY <1>1, <1>3, <2>3, MovedFlow
    <3>. QED  BY <1>3, <2>3, <3>1, TailFlow DEF Flows
  <2>. QED  BY <1>2, <2>1, <2>2, <2>3
<1>5. FlowInv'
  BY <1>2, <1>4 DEF FlowInv
<1>6. ASSUME NEW k \in Clients, conn[k] # 0
      PROVE  Before(handled, inbox[k], down'[conn[k]]) /\ Before(handled, inbox[k], queue'[conn[k]])
  <2>1. conn[k] \in Conn
    BY <1>1, <1>6
  <2>2. Before(handled, inbox[k], down[conn[k]]) /\ Before(handled, inbox[k], queue[conn[k]])
    BY <1>6 DEF InboxInv
  <2>3. CASE conn[k] = c
    BY <1>4, <2>2, <2>3
  <2>4. CASE conn[k] # c
    BY <1>2, <2>1, <2>2, <2>4
  <2>. QED  BY <2>3, <2>4
<1>7. InboxInv'
  BY <1>6 DEF InboxInv
<1>. QED  BY <1>5, <1>7

LEMMA AcceptFlow ==
  ASSUME ServerInv, FlowInv, InboxInv, Accept, UNCHANGED listening
  PROVE  FlowInv' /\ InboxInv'
<1> PICK c \in Conn : c = Head(backlog)
  BY WithoutFirst DEF Accept, ServerInv, TypeOK, TcpTypeOK
<1>1. down[c] \in Seq(Message) /\ Placed(handled, down[c]) /\ Ordered(handled, down[c])
  BY DEF ServerInv, TypeOK, TcpTypeOK, FlowInv, Flows
<1>2. Greeting \in Seq(Message) /\ \A i \in 1..Len(Greeting) : ~IsText(Greeting[i])
  <2>1. Level(level) \in Message /\ ~IsText(Level(level))
    BY Messages DEF ServerInv, TypeOK, ServerTypeOK
  <2>2. Len(Greeting) = 1 /\ Greeting[1] = Level(level)
    BY DEF Greeting
  <2>3. Greeting \in Seq(Message)
    BY <2>1 DEF Greeting
  <2>. QED  BY <2>1, <2>2, <2>3
<1>3. /\ Placed(handled, Greeting) /\ Ordered(handled, Greeting)
      /\ \A s : Before(handled, s, Greeting)
  BY <1>2 DEF Placed, Ordered, Before
<1>4. Flows(handled, down[c], Greeting)
  BY <1>1, <1>3 DEF Flows
<1>5. Write(c, Greeting, wpend) /\ UNCHANGED <<handled, inbox, conn>>
  BY DEF Accept, listening
<1>. QED  BY <1>2, <1>3, <1>4, <1>5, WriteFlow

(* handled, *)
LEMMA DistributeFlow ==
  ASSUME ServerInv, FlowInv, InboxInv, Distribute, UNCHANGED listening
  PROVE  FlowInv' /\ InboxInv'
<1> DEFINE b == inq \o shared
           g == handled \o b
<1>1. b \in Seq(Message) /\ handled \in Seq(Message)
  BY ConcatProperties DEF ServerInv, TypeOK, ServerTypeOK
<1>2. /\ handled' = g /\ down' = down /\ inbox' = inbox /\ conn' = conn
      /\ \A c \in Conn : queue'[c] = queue[c] \/ queue'[c] = queue[c] \o b
  BY DEF Distribute, tcp, listening, Appended
<1> HIDE DEF b
<1>3. /\ Placed(g, b) /\ Ordered(g, b)
      /\ \A s : Placed(handled, s) => Before(g, s, b)
      /\ \A i \in 1..Len(handled) : i \in 1..Len(g) /\ g[i] = handled[i]
  BY <1>1, HandledFlow
<1> HIDE DEF g
<1>4. /\ \A s : Placed(handled, s) => Placed(g, s)
      /\ \A s : Ordered(handled, s) => Ordered(g, s)
      /\ \A s, t : Before(handled, s, t) => Before(g, s, t)
  BY <1>3, GrownFlow
<1>5. ASSUME NEW c \in Conn
      PROVE  /\ Flows(g, down[c], queue'[c])
             /\ \A s : Placed(handled, s) /\ Before(handled, s, queue[c]) => Before(g, s, queue'[c])
  <2>1. Flows(handled, down[c], queue[c]) /\ queue[c] \in Seq(Message)
    BY DEF FlowInv, ServerInv, TypeOK, ServerTypeOK
  <2>2. /\ Placed(g, down[c]) /\ Ordered(g, down[c]) /\ Placed(g, queue[c]) /\ Ordered(g, queue[c])
        /\ Before(g, down[c], queue[c]) /\ Before(g, down[c], b) /\ Before(g, queue[c], b)
    BY <1>3, <1>4, <2>1 DEF Flows
  <2>3. /\ Placed(g, queue[c] \o b) /\ Ordered(g, queue[c] \o b)
        /\ \A s : Before(g, s, queue[c]) /\ Before(g, s, b) => Before(g, s, queue[c] \o b)
    BY <1>1, <1>3, <2>1, <2>2, JoinedFlow
  <2>4. CASE queue'[c] = queue[c]
    BY <1>4, <2>2, <2>4 DEF Flows
  <2>5. CASE queue'[c] = queue[c] \o b
    BY <1>3, <1>4, <2>2, <2>3, <2>5 DEF Flows
  <2>. QED  BY <1>2, <2>4, <2>5
<1>6. FlowInv'
  BY <1>2, <1>5 DEF FlowInv
<1>7. ASSUME NEW k \in Clients
      PROVE  /\ \A i \in 1..Len(inbox[k]) : IsText(inbox[k][i])
             /\ Placed(g, inbox[k]) /\ Ordered(g, inbox[k])
             /\ conn[k] # 0 =>
                  Before(g, inbox[k], down[conn[k]]) /\ Before(g, inbox[k], queue'[conn[k]])
  <2>1. /\ \A i \in 1..Len(inbox[k]) : IsText(inbox[k][i])
        /\ Placed(handled, inbox[k]) /\ Ordered(handled, inbox[k])
        /\ conn[k] # 0 =>
             Before(handled, inbox[k], down[conn[k]]) /\ Before(handled, inbox[k], queue[conn[k]])
    BY DEF InboxInv
  <2>2. conn[k] # 0 => conn[k] \in Conn
    BY DEF ServerInv, TypeOK, ClientTypeOK
  <2>. QED  BY <1>4, <1>5, <2>1, <2>2
<1>8. InboxInv'
  BY <1>2, <1>7 DEF InboxInv
<1>. QED  BY <1>6, <1>8

(* read, *)
LEMMA ReadFlow ==
  ASSUME ServerInv, FlowInv, InboxInv, UNCHANGED serving, NEW k \in Clients, Read(k)
  PROVE  FlowInv' /\ InboxInv'
<1>1. PICK c \in Conn : c = conn[k]
  BY DEF Read, ServerInv, Reading
<1> DEFINE d == down[c]
           m == Head(d)
<1>2. /\ d \in Seq(Message) /\ d # <<>> /\ inbox[k] \in Seq(Message)
      /\ down \in [Conn -> Seq(Message)] /\ inbox \in [Clients -> Seq(Message)]
      /\ conn \in [Clients -> Conn \cup {0}]
  BY <1>1 DEF Read, ServerInv, TypeOK, TcpTypeOK, ClientTypeOK
<1>3. /\ handled' = handled /\ queue' = queue /\ conn' = conn
      /\ down'[c] = Tail(d) /\ \A e \in Conn : e # c => down'[e] = down[e]
      /\ inbox'[k] = IF IsText(m) THEN Append(inbox[k], m) ELSE inbox[k]
      /\ \A j \in Clients : j # k => inbox'[j] = inbox[j]
  BY <1>1, <1>2 DEF Read, serving
<1>4. /\ Flows(handled, d, queue[c])
      /\ \A i \in 1..Len(inbox[k]) : IsText(inbox[k][i])
      /\ Placed(handled, inbox[k]) /\ Ordered(handled, inbox[k])
      /\ Before(handled, inbox[k], d) /\ Before(handled, inbox[k], queue[c])
  BY <1>1, Conns DEF FlowInv, InboxInv
<1>5. /\ Placed(handled, Tail(d)) /\ Ordered(handled, Tail(d)) /\ Before(handled, Tail(d), queue[c])
      /\ \A s : Before(handled, s, d) => Before(handled, s, Tail(d))
  BY <1>2, <1>4, TailFlow DEF Flows
<1>6. FlowInv'
  BY <1>3, <1>4, <1>5 DEF FlowInv, Flows
<1>7. /\ \A i \in 1..Len(inbox'[k]) : IsText(inbox'[k][i])
      /\ Placed(handled, inbox'[k]) /\ Ordered(handled, inbox'[k])
      /\ Before(handled, inbox'[k], Tail(d)) /\ Before(handled, inbox'[k], queue[c])
  <2>1. CASE ~IsText(m)
    BY <1>3, <1>4, <1>5, <2>1
  <2>2. CASE IsText(m)
    <3>1. inbox'[k] = Append(inbox[k], m)
      BY <1>3, <2>2
    <3>2. /\ Len(inbox[k]) \in Nat /\ Len(inbox'[k]) = Len(inbox[k]) + 1
          /\ \A i \in 1..Len(inbox[k]) : inbox'[k][i] = inbox[k][i]
          /\ inbox'[k][Len(inbox[k]) + 1] = m
      BY <1>2, <3>1, WithoutFirst, AddedLast, LenProperties
    <3>3. \A i \in 1..Len(inbox'[k]) : i \in 1..Len(inbox[k]) \/ i = Len(inbox[k]) + 1
      BY <3>2
    <3>4. \A i \in 1..Len(inbox'[k]) : IsText(inbox'[k][i])
      BY <1>4, <2>2, <3>2, <3>3
    <3>5. /\ Placed(handled, d) /\ Ordered(handled, d) /\ Before(handled, d, queue[c])
      BY <1>4 DEF Flows
    <3> HIDE DEF d
    <3>6. /\ Placed(handled, inbox'[k]) /\ Ordered(handled, inbox'[k])
          /\ Before(handled, inbox'[k], Tail(d)) /\ Before(handled, inbox'[k], queue[c])
      BY <1>2, <1>4, <3>1, <3>5, MovedFlow
    <3>. QED  BY <3>4, <3>6
  <2>. QED  BY <2>1, <2>2
<1>8. ASSUME NEW j \in Clients
      PROVE  /\ \A i \in 1..Len(inbox'[j]) : IsText(inbox'[j][i])
             /\ Placed(handled, inbox'[j]) /\ Ordered(handled, inbox'[j])
             /\ conn[j] # 0 =>
                  Before(handled, inbox'[j], down'[conn[j]]) /\ Before(handled, inbox'[j], queue[conn[j]])
  <2>1. CASE j = k
    BY <1>1, <1>3, <1>7, <2>1
  <2>2. CASE j # k
    <3>1. inbox'[j] = inbox[j]
      BY <1>3, <2>2
    <3>2. /\ \A i \in 1..Len(inbox[j]) : IsText(inbox[j][i])
          /\ Placed(handled, inbox[j]) /\ Ordered(handled, inbox[j])
          /\ conn[j] # 0 =>
               Before(handled, inbox[j], down[conn[j]]) /\ Before(handled, inbox[j], queue[conn[j]])
      BY DEF InboxInv
    <3>3. CASE conn[j] = c
      BY <1>3, <1>5, <3>1, <3>2, <3>3
    <3>4. CASE conn[j] # c
      <4>1. conn[j] # 0 => conn[j] \in Conn
        BY <1>2
      <4>. QED  BY <1>3, <3>1, <3>2, <3>4, <4>1
    <3>. QED  BY <3>3, <3>4
  <2>. QED  BY <2>1, <2>2
<1>9. InboxInv'
  BY <1>3, <1>8 DEF InboxInv
<1>. QED  BY <1>6, <1>9

(* and a new connection has nothing on its way. *)
LEMMA ConnectFlow ==
  ASSUME ServerInv, FlowInv, InboxInv, UNCHANGED serving, NEW k \in Clients, Connect(k)
  PROVE  FlowInv' /\ InboxInv'
<1>1. /\ UNCHANGED <<handled, queue, down, inbox>>
      /\ \A j \in Clients : j # k => conn'[j] = conn[j]
  BY DEF Connect, NetConnect, serving, ServerInv, TypeOK, ClientTypeOK
<1>2. conn'[k] \in Conn /\ conn'[k] > made
  BY ListenAssumption DEF Connect, NetConnect, ServerInv, TypeOK, TcpTypeOK, ClientTypeOK, Conn
<1>3. down[conn'[k]] = <<>> /\ queue[conn'[k]] = <<>>
  BY <1>2 DEF ServerInv, Unaccepted
<1>4. FlowInv'
  BY <1>1 DEF FlowInv
<1>5. InboxInv'
  BY <1>1, <1>3, EmptyFlow DEF InboxInv
<1>. QED  BY <1>4, <1>5

LEMMA FlowStep ==
  ASSUME ServerInv, FlowInv, InboxInv, [Next]_vars
  PROVE  FlowInv' /\ InboxInv'
<1>1. /\ down \in [Conn -> Seq(Message)] /\ queue \in [Conn -> Seq(Message)]
      /\ conn \in [Clients -> Conn \cup {0}]
  BY DEF ServerInv, TypeOK, TcpTypeOK, ServerTypeOK, ClientTypeOK
<1>2. ASSUME handled' = handled, inbox' = inbox,
             down' = down \/ \E c \in Conn : down' = [down EXCEPT ![c] = <<>>],
             \/ queue' = queue \/ queue' = [c \in Conn |-> <<>>]
             \/ \E c \in Conn : queue' = [queue EXCEPT ![c] = <<>>],
             conn' = conn \/ \E k \in Clients : conn' = [conn EXCEPT ![k] = 0]
      PROVE  FlowInv' /\ InboxInv'
  <2>1. \A c \in Conn : down'[c] = down[c] \/ down'[c] = <<>>
    BY <1>1, <1>2
  <2>2. \A c \in Conn : queue'[c] = queue[c] \/ queue'[c] = <<>>
    BY <1>1, <1>2
  <2>3. \A k \in Clients : conn'[k] = 0 \/ (conn'[k] = conn[k] /\ conn[k] \in Conn \cup {0})
    BY <1>1, <1>2
  <2>. QED  BY <1>2, <2>1, <2>2, <2>3, DroppedFlow
<1>3. ASSUME UNCHANGED listening, Handler PROVE FlowInv' /\ InboxInv'
  <2>1. CASE Accept
    BY <1>3, <2>1, AcceptFlow
  <2>2. CASE Distribute
    BY <1>3, <2>2, DistributeFlow
  <2>3. CASE AcceptError \/ Cleanup
    BY <1>2, <1>3, <2>3 DEF AcceptError, Cleanup, tcp, listening
  <2>4. ASSUME NEW c \in Conn, QueueTimer(c) \/ Written(c) PROVE FlowInv' /\ InboxInv'
    <3>1. /\ Write(c, queue[c], wpend) \/ Write(c, queue[c], wpend \ {c})
          /\ UNCHANGED <<handled, inbox, conn>>
      BY <1>3, <2>4 DEF QueueTimer, Written, listening
    <3>2. Flows(handled, down[c], queue[c]) /\ queue[c] \in Seq(Message)
      BY <1>1 DEF FlowInv
    <3>3. \A k \in Clients : conn[k] = c => Before(handled, inbox[k], queue[c])
      BY Conns DEF InboxInv
    <3>. QED  BY <3>1, <3>2, <3>3, WriteFlow
  <2>5. ASSUME NEW c \in Conn, WriteError(c) \/ ReadError(c) \/ ReadLevel(c) PROVE FlowInv' /\ InboxInv'
    <3>1. /\ UNCHANGED <<handled, inbox, down, conn>>
          /\ queue' = queue \/ queue' = [queue EXCEPT ![c] = <<>>]
      BY <1>3, <2>5 DEF WriteError, ReadError, Close, ReadLevel, listening
    <3>. QED  BY <1>2, <3>1
  <2>. QED  BY <1>3, <2>1, <2>2, <2>3, <2>4, <2>5 DEF Handler
<1>4. ASSUME UNCHANGED listening, AddText \/ ProxyAdd \/ StopActive \/ StopJoin \/ Destroy
      PROVE  FlowInv' /\ InboxInv'
  <2>1. /\ UNCHANGED <<handled, inbox, down, conn>>
        /\ queue' = queue \/ queue' = [c \in Conn |-> <<>>]
    BY <1>4 DEF AddText, ProxyAdd, StopActive, StopJoin, Destroy, tcp, listening
  <2>. QED  BY <1>2, <2>1
<1>5. ASSUME UNCHANGED listening, UNCHANGED serving, NEW c \in Conn, NetBreak(c)
      PROVE  FlowInv' /\ InboxInv'
  <2>1. UNCHANGED <<handled, inbox, queue, conn>> /\ down' = [down EXCEPT ![c] = <<>>]
    BY <1>5 DEF NetBreak, serving, listening
  <2>. QED  BY <1>2, <2>1
<1>6. ASSUME UNCHANGED serving, NEW k \in Clients, ClientStep(k)
      PROVE  FlowInv' /\ InboxInv'
  <2>1. CASE Read(k)
    BY <1>6, <2>1, ReadFlow
  <2>2. CASE Connect(k)
    BY <1>6, <2>2, ConnectFlow
  <2>3. CASE Lookup(k) \/ EndClient(k)
    <3>1. UNCHANGED <<handled, inbox, queue>> /\ conn' = [conn EXCEPT ![k] = 0]
      BY <1>6, <2>3 DEF Lookup, EndClient, serving
    <3>2. down' = down \/ \E c \in Conn : down' = [down EXCEPT ![c] = <<>>]
      BY <1>1, <2>3 DEF Lookup, EndClient, Shut, IsOpen
    <3>. QED  BY <1>2, <3>1, <3>2
  <2>4. CASE ConnectError(k) \/ ReadFails(k) \/ \E l \in Levels : SendLogLevel(k, l)
    <3>1. UNCHANGED <<handled, inbox, queue, down, conn>>
      BY <1>6, <2>4 DEF ConnectError, ReadFails, RetryWait, SendLogLevel, tcp, serving
    <3>. QED  BY <1>2, <3>1
  <2>. QED  BY <1>6, <2>1, <2>2, <2>3, <2>4 DEF ClientStep, Worker
<1>7. CASE UNCHANGED vars
  <2>1. UNCHANGED <<handled, inbox, queue, down, conn>>
    BY <1>7 DEF vars, tcp, serving, listening
  <2>. QED  BY <1>2, <2>1
<1>. QED  BY <1>3, <1>4, <1>5, <1>6, <1>7, ListenSteps

-----------------------------------------------------------------------------
(* A text that has been written to a connection is in the inbox of its     *)
(* client or on the way there.                                             *)
LEMMA HasAppended ==
  ASSUME NEW S, NEW q \in Seq(S), NEW x \in S, NEW m
  PROVE  Has(Append(q, x), m) <=> Has(q, m) \/ x = m
<1>1. /\ Len(q) \in Nat /\ Len(Append(q, x)) = Len(q) + 1
      /\ \A i \in 1..Len(q) : Append(q, x)[i] = q[i]
      /\ Append(q, x)[Len(q) + 1] = x
  BY AddedLast, LenProperties
<1>2. \A i : i \in 1..Len(Append(q, x)) <=> i \in 1..Len(q) \/ i = Len(q) + 1
  BY <1>1
<1>. QED  BY <1>1, <1>2 DEF Has

LEMMA HasFirst ==
  ASSUME NEW S, NEW q \in Seq(S), q # <<>>, NEW m, Has(q, m)
  PROVE  Has(Tail(q), m) \/ Head(q) = m
<1>1. PICK i \in 1..Len(q) : q[i] = m
  BY DEF Has
<1>2. CASE i = 1
  BY <1>1, <1>2, WithoutFirst
<1>3. CASE i # 1
  <2>1. i - 1 \in 1..Len(Tail(q)) /\ Tail(q)[i - 1] = q[i]
    BY <1>1, <1>3, WithoutFirst
  <2>. QED  BY <1>1, <2>1 DEF Has
<1>. QED  BY <1>2, <1>3

LEMMA HasJoined ==
  ASSUME NEW S, NEW p \in Seq(S), NEW q \in Seq(S), NEW m
  PROVE  Has(p \o q, m) <=> Has(p, m) \/ Has(q, m)
<1>1. ASSUME Has(p \o q, m) PROVE Has(p, m) \/ Has(q, m)
  <2>1. PICK i \in 1..Len(p \o q) : (p \o q)[i] = m
    BY <1>1 DEF Has
  <2>2. \/ i \in 1..Len(p) /\ p[i] = m
        \/ i - Len(p) \in 1..Len(q) /\ q[i - Len(p)] = m
    BY <2>1, Joined
  <2>. QED  BY <2>2 DEF Has
<1>2. ASSUME Has(p, m) PROVE Has(p \o q, m)
  BY <1>2, Joined DEF Has
<1>3. ASSUME Has(q, m) PROVE Has(p \o q, m)
  <2>1. PICK i \in 1..Len(q) : q[i] = m
    BY <1>3 DEF Has
  <2>2. Len(p) + i \in 1..Len(p \o q) /\ (p \o q)[Len(p) + i] = m
    BY <2>1, Joined
  <2>. QED  BY <2>2 DEF Has
<1>. QED  BY <1>1, <1>2, <1>3

LEMMA WriteArrived ==
  ASSUME TypeOK, TravelInv, NEW c \in Conn, NEW q \in Seq(Message), NEW pending,
         Write(c, q, pending), UNCHANGED <<made, client, reset, listening>>
  PROVE  TravelInv'
<1>1. /\ got \in [Conn -> Seq(Message)] /\ down \in [Conn -> Seq(Message)]
      /\ conn \in [Clients -> Conn \cup {0}]
      /\ got[c] \in Seq(Message) /\ down[c] \in Seq(Message)
  BY DEF TypeOK, TcpTypeOK, ServerTypeOK, ClientTypeOK
<1>2. UNCHANGED <<conn, inbox>>
  BY DEF listening
<1>3. \A d \in Conn : d # c => got'[d] = got[d] /\ down'[d] = down[d]
  BY <1>1 DEF Write, Sent
<1>4. ASSUME NEW k \in Clients, conn[k] = c, ~reset[c]
      PROVE  Covered(got'[c], inbox[k], down'[c])
  <2>1. client[c] = "open" /\ Covered(got[c], inbox[k], down[c])
    BY <1>4, Conns DEF TravelInv, Linked, Arrived
  <2>2. CASE q = <<>>
    BY <2>1, <2>2 DEF Write
  <2>3. CASE q # <<>>
    <3>1. Head(q) \in Message
      BY <2>3, WithoutFirst
    <3>2. got'[c] = Append(got[c], Head(q)) /\ down'[c] = Append(down[c], Head(q))
      BY <1>1, <1>4, <2>1, <2>3 DEF Write, Sent
    <3>3. ASSUME NEW m, Has(got'[c], m), IsText(m)
          PROVE  Has(inbox[k], m) \/ Has(down'[c], m)
      <4>1. Has(got[c], m) \/ Head(q) = m
        BY <1>1, <3>1, <3>2, <3>3, HasAppended
      <4>2. Has(got[c], m) => Has(inbox[k], m) \/ Has(down[c], m)
        BY <2>1, <3>3 DEF Covered
      <4>3. Has(down[c], m) \/ Head(q) = m => Has(down'[c], m)
        BY <1>1, <3>1, <3>2, HasAppended
      <4>. QED  BY <4>1, <4>2, <4>3
    <3>. QED  BY <3>3 DEF Covered
  <2>. QED  BY <2>2, <2>3
<1>5. Linked'
  BY <1>2 DEF TravelInv, Linked
<1>6. Arrived'
  <2> SUFFICES ASSUME NEW k \in Clients, conn[k] # 0, ~reset[conn[k]]
               PROVE  Covered(got'[conn[k]], inbox[k], down'[conn[k]])
    BY <1>2 DEF Arrived
  <2>1. CASE conn[k] = c
    BY <1>4, <2>1
  <2>2. CASE conn[k] # c
    <3>1. conn[k] \in Conn
      BY <1>1
    <3>. QED  BY <1>3, <2>2, <3>1 DEF TravelInv, Arrived
  <2>. QED  BY <2>1, <2>2
<1>. QED  BY <1>5, <1>6 DEF TravelInv

(* A client takes a text from the way to its inbox, and ignores a level.   *)
LEMMA ReadArrived ==
  ASSUME TypeOK, TravelInv, UNCHANGED serving, NEW k \in Clients, Read(k)
  PROVE  TravelInv'
<1>1. /\ down \in [Conn -> Seq(Message)] /\ inbox \in [Clients -> Seq(Message)]
      /\ conn \in [Clients -> Conn \cup {0}] /\ inbox[k] \in Seq(Message)
  BY DEF TypeOK, TcpTypeOK, ClientTypeOK
<1>2. PICK c \in Conn : c = conn[k]
  BY <1>1 DEF Read, IsOpen
<1>3. /\ down[c] # <<>> /\ down'[c] = Tail(down[c])
      /\ \A d \in Conn : d # c => down'[d] = down[d]
      /\ inbox'[k] = IF IsText(Head(down[c])) THEN Append(inbox[k], Head(down[c])) ELSE inbox[k]
      /\ \A j \in Clients : j # k => inbox'[j] = inbox[j]
      /\ UNCHANGED <<got, made, client, reset, conn>>
  BY <1>1, <1>2 DEF Read, serving
<1>4. down[c] \in Seq(Message) /\ Head(down[c]) \in Message
  BY <1>1, <1>3, WithoutFirst
<1>5. ASSUME ~reset[c]
      PROVE  Covered(got[c], inbox'[k], down'[c])
  <2>1. Covered(got[c], inbox[k], down[c])
    BY <1>2, <1>5, Conns DEF TravelInv, Arrived
  <2>2. ASSUME NEW m, Has(got[c], m), IsText(m)
        PROVE  Has(inbox'[k], m) \/ Has(down'[c], m)
    <3>1. Has(inbox[k], m) \/ Has(down[c], m)
      BY <2>1, <2>2 DEF Covered
    <3>2. Has(down[c], m) => Has(Tail(down[c]), m) \/ Head(down[c]) = m
      BY <1>3, <1>4, HasFirst
    <3>3. Has(inbox[k], m) => Has(inbox'[k], m)
      BY <1>1, <1>3, <1>4, HasAppended
    <3>4. Head(down[c]) = m => Has(inbox'[k], m)
      BY <1>1, <1>3, <1>4, <2>2, HasAppended
    <3>. QED  BY <1>3, <3>1, <3>2, <3>3, <3>4
  <2>. QED  BY <2>2 DEF Covered
<1>6. Linked'
  BY <1>3 DEF TravelInv, Linked
<1>7. Arrived'
  <2> SUFFICES ASSUME NEW j \in Clients, conn[j] # 0, ~reset[conn[j]]
               PROVE  Covered(got[conn[j]], inbox'[j], down'[conn[j]])
    BY <1>3 DEF Arrived
  <2>1. CASE j = k
    BY <1>2, <1>5, <2>1
  <2>2. CASE j # k
    <3>1. conn[j] \in Conn /\ conn[j] # c
      BY <1>1, <1>2, <2>2, Conns DEF TravelInv, Linked
    <3>2. Covered(got[conn[j]], inbox[j], down[conn[j]])
      BY DEF TravelInv, Arrived
    <3>. QED  BY <1>3, <2>2, <3>1, <3>2
  <2>. QED  BY <2>1, <2>2
<1>. QED  BY <1>6, <1>7 DEF TravelInv

(* A new connection is the client's own, and nothing has been written. *)
LEMMA ConnectArrived ==
  ASSUME ServerInv, TravelInv, UNCHANGED serving, NEW k \in Clients, Connect(k)
  PROVE  TravelInv'
<1>1. /\ made' = made + 1 /\ made \in Nat /\ made' \in Conn
      /\ client' = [client EXCEPT ![made'] = "open"] /\ client \in [Conn -> {"open", "closed"}]
      /\ conn' = [conn EXCEPT ![k] = made'] /\ conn \in [Clients -> Conn \cup {0}]
      /\ UNCHANGED <<got, reset, down, inbox>>
  BY ListenAssumption
  DEF Connect, NetConnect, serving, ServerInv, TypeOK, TcpTypeOK, ClientTypeOK, Conn
<1>2. got[made'] = <<>>
  BY <1>1, Conns DEF ServerInv, Unaccepted
<1>3. \A j \in Clients : conn[j] # 0 => conn[j] \in Conn /\ conn[j] <= made /\ conn[j] # made'
  BY <1>1, Conns DEF TravelInv, Linked
<1>4. Linked'
  <2> SUFFICES ASSUME NEW j \in Clients, conn'[j] # 0
               PROVE  /\ conn'[j] <= made' /\ client'[conn'[j]] = "open"
                      /\ \A i \in Clients : conn'[i] = conn'[j] => i = j
    BY DEF Linked
  <2>1. CASE j = k
    BY <1>1, <1>3, <2>1, Conns
  <2>2. CASE j # k
    <3>1. conn'[j] = conn[j] /\ conn[j] \in Conn /\ conn[j] <= made /\ conn[j] # made'
      BY <1>1, <1>3, <2>2
    <3>2. client[conn[j]] = "open" /\ \A i \in Clients : conn[i] = conn[j] => i = j
      BY <3>1, Conns DEF TravelInv, Linked
    <3>3. conn[j] \in Nat /\ conn[j] <= made'
      <4>1. conn[j] \in Nat /\ made \in Nat /\ made' = made + 1 /\ conn[j] <= made
        BY <1>1, <3>1, Conns
      <4>. QED  BY <4>1
    <3>4. client'[conn[j]] = "open"
      BY <1>1, <3>1, <3>2
    <3>. QED  BY <1>1, <3>1, <3>2, <3>3, <3>4
  <2>. QED  BY <2>1, <2>2
<1>5. Arrived'
  <2> SUFFICES ASSUME NEW j \in Clients, conn'[j] # 0, ~reset[conn'[j]]
               PROVE  Covered(got[conn'[j]], inbox[j], down[conn'[j]])
    BY <1>1 DEF Arrived
  <2>1. CASE j = k
    BY <1>1, <1>2, <2>1 DEF Covered, Has
  <2>2. CASE j # k
    BY <1>1, <2>2 DEF TravelInv, Arrived
  <2>. QED  BY <2>1, <2>2
<1>. QED  BY <1>4, <1>5 DEF TravelInv

(* A client that gives its connection up has none. *)
LEMMA LeaveArrived ==
  ASSUME TypeOK, TravelInv, UNCHANGED serving, NEW k \in Clients, Lookup(k) \/ EndClient(k)
  PROVE  TravelInv'
<1>1. /\ Shut(k) /\ conn' = [conn EXCEPT ![k] = 0]
      /\ UNCHANGED <<got, made, reset, inbox>>
  BY DEF Lookup, EndClient, serving
<1>2. /\ conn \in [Clients -> Conn \cup {0}] /\ client \in [Conn -> {"open", "closed"}]
      /\ down \in [Conn -> Seq(Message)]
  BY DEF TypeOK, TcpTypeOK, ClientTypeOK
<1>3. \A c \in Conn : c # conn[k] => client'[c] = client[c] /\ down'[c] = down[c]
  BY <1>1, <1>2 DEF Shut
<1>4. ASSUME NEW j \in Clients, conn'[j] # 0
      PROVE  /\ j # k /\ conn'[j] = conn[j] /\ conn[j] \in Conn
             /\ client'[conn[j]] = client[conn[j]] /\ down'[conn[j]] = down[conn[j]]
  <2>1. j # k /\ conn'[j] = conn[j] /\ conn[j] \in Conn
    BY <1>1, <1>2, <1>4
  <2>2. conn[j] # conn[k]
    BY <1>4, <2>1 DEF TravelInv, Linked
  <2>. QED  BY <1>3, <2>1, <2>2
<1>5. Linked'
  BY <1>1, <1>4 DEF TravelInv, Linked
<1>6. Arrived'
  BY <1>1, <1>4 DEF TravelInv, Arrived
<1>. QED  BY <1>5, <1>6 DEF TravelInv

(* Nothing else changes what a client has or has still to get, except that *)
(* a connection ends.                                                      *)
LEMMA RestArrived ==
  ASSUME TypeOK, TravelInv, UNCHANGED <<made, client, conn, inbox>>,
         \A c \in Conn : /\ got'[c] = got[c] \/ got'[c] = <<>>
                         /\ ~reset'[c] => ~reset[c] /\ down'[c] = down[c]
  PROVE  TravelInv'
<1>1. Linked'
  BY DEF TravelInv, Linked
<1>2. Arrived'
  <2> SUFFICES ASSUME NEW k \in Clients, conn[k] # 0, ~reset'[conn[k]]
               PROVE  Covered(got'[conn[k]], inbox[k], down'[conn[k]])
    BY DEF Arrived
  <2>1. conn[k] \in Conn
    BY DEF TypeOK, ClientTypeOK
  <2>2. CASE got'[conn[k]] = <<>>
    BY <2>2 DEF Covered, Has
  <2>3. CASE got'[conn[k]] = got[conn[k]]
    BY <2>1, <2>3 DEF TravelInv, Arrived
  <2>. QED  BY <2>1, <2>2, <2>3
<1>. QED  BY <1>1, <1>2 DEF TravelInv

LEMMA TravelStep ==
  ASSUME ServerInv, TravelInv, [Next]_vars
  PROVE  TravelInv'
<1>1. /\ TypeOK /\ got \in [Conn -> Seq(Message)] /\ down \in [Conn -> Seq(Message)]
      /\ queue \in [Conn -> Seq(Message)] /\ reset \in [Conn -> BOOLEAN]
  BY DEF ServerInv, TypeOK, TcpTypeOK, ServerTypeOK
<1>2. ASSUME UNCHANGED listening, Handler PROVE TravelInv'
  <2>1. CASE Accept
    <3>1. PICK c \in Conn : c = Head(backlog)
      BY <2>1, WithoutFirst DEF Accept, ServerInv, TypeOK, TcpTypeOK
    <3>2. Greeting \in Seq(Message)
      BY Messages DEF Greeting, ServerInv, TypeOK, ServerTypeOK
    <3>. QED  BY <1>1, <1>2, <2>1, <3>1, <3>2, WriteArrived DEF Accept
  <2>2. ASSUME NEW c \in Conn, QueueTimer(c) \/ Written(c) PROVE TravelInv'
    <3>1. /\ Write(c, queue[c], wpend) \/ Write(c, queue[c], wpend \ {c})
          /\ UNCHANGED <<made, client, reset>>
      BY <2>2 DEF QueueTimer, Written
    <3>. QED  BY <1>1, <1>2, <3>1, WriteArrived
  <2>3. CASE AcceptError \/ Cleanup \/ Distribute \/ \E c \in Conn : ReadLevel(c)
    <3>1. UNCHANGED <<made, client, reset, down, got>>
      BY <2>3 DEF AcceptError, Cleanup, Distribute, ReadLevel, tcp
    <3>. QED  BY <1>1, <1>2, <3>1, RestArrived DEF listening
  <2>4. ASSUME NEW c \in Conn, WriteError(c) \/ ReadError(c) PROVE TravelInv'
    <3>1. UNCHANGED <<made, client, reset, down>> /\ got' = [got EXCEPT ![c] = <<>>]
      BY <2>4 DEF WriteError, ReadError, Close
    <3>. QED  BY <1>1, <1>2, <3>1, RestArrived DEF listening
  <2>. QED  BY <1>2, <2>1, <2>2, <2>3, <2>4 DEF Handler
<1>3. ASSUME UNCHANGED listening, AddText \/ ProxyAdd \/ StopActive \/ StopJoin \/ Destroy
      PROVE  TravelInv'
  <2>1. UNCHANGED <<made, client, down>>
    BY <1>3 DEF AddText, ProxyAdd, StopActive, StopJoin, Destroy, tcp
  <2>2. \A c \in Conn : (got'[c] = got[c] \/ got'[c] = <<>>) /\ (~reset'[c] => ~reset[c])
    BY <1>3 DEF AddText, ProxyAdd, StopActive, StopJoin, Destroy, tcp
  <2>. QED  BY <1>1, <1>3, <2>1, <2>2, RestArrived DEF listening
<1>4. ASSUME UNCHANGED listening, UNCHANGED serving, NEW c \in Conn, NetBreak(c)
      PROVE  TravelInv'
  <2>1. /\ UNCHANGED <<made, client, got>>
        /\ reset' = [reset EXCEPT ![c] = TRUE] /\ down' = [down EXCEPT ![c] = <<>>]
    BY <1>4 DEF NetBreak, serving
  <2>2. \A d \in Conn : ~reset'[d] => ~reset[d] /\ down'[d] = down[d]
    BY <1>1, <2>1
  <2>. QED  BY <1>1, <1>4, <2>1, <2>2, RestArrived DEF listening
<1>5. ASSUME UNCHANGED serving, NEW k \in Clients, ClientStep(k)
      PROVE  TravelInv'
  <2>1. CASE Read(k)
    BY <1>1, <1>5, <2>1, ReadArrived
  <2>2. CASE Connect(k)
    BY <1>5, <2>2, ConnectArrived
  <2>3. CASE Lookup(k) \/ EndClient(k)
    BY <1>1, <1>5, <2>3, LeaveArrived
  <2>4. CASE ConnectError(k) \/ ReadFails(k) \/ \E l \in Levels : SendLogLevel(k, l)
    <3>1. UNCHANGED <<made, client, conn, inbox, got, reset, down>>
      BY <1>5, <2>4 DEF ConnectError, ReadFails, RetryWait, SendLogLevel, tcp, serving
    <3>. QED  BY <1>1, <3>1, RestArrived
  <2>. QED  BY <1>5, <2>1, <2>2, <2>3, <2>4 DEF ClientStep, Worker
<1>6. CASE UNCHANGED vars
  <2>1. UNCHANGED <<made, client, conn, inbox, got, reset, down>>
    BY <1>6 DEF vars, tcp, serving, listening
  <2>. QED  BY <1>1, <2>1, RestArrived
<1>. QED  BY <1>2, <1>3, <1>4, <1>5, <1>6, ListenSteps

LEMMA PartIndex ==
  ASSUME NEW a \in Nat, NEW n \in Nat, NEW i \in Nat, a + 1 <= i, i <= n
  PROVE  i - a \in 1..(n - (a + 1) + 1) /\ (a + 1) + (i - a) - 1 = i
OBVIOUS

(* So the client of a served connection has all that was handled for it,   *)
(* or it is on its way.                                                    *)
LEMMA NoneIsMissing ==
  ASSUME ListenInv, NEW k \in Clients, conn[k] # 0, Serves(conn[k]), ~reset[conn[k]]
  PROVE  NoneMissing(k)
<1> SUFFICES ASSUME NEW i \in (mark[conn[k]] + 1)..Len(handled), IsText(handled[i])
             PROVE  Has(inbox[k] \o down[conn[k]] \o queue[conn[k]], handled[i])
  BY DEF NoneMissing
<1>1. PICK c \in Conn : c = conn[k]
  BY DEF ListenInv, ServerInv, TypeOK, ClientTypeOK
<1>2. /\ got[c] \in Seq(Message) /\ queue[c] \in Seq(Message) /\ down[c] \in Seq(Message)
      /\ inbox[k] \in Seq(Message) /\ handled \in Seq(Message) /\ mark[c] \in Nat
      /\ mark[c] <= Len(handled) /\ Len(handled) \in Nat
  BY LenProperties DEF ListenInv, ServerInv, Marked, TypeOK, TcpTypeOK, ServerTypeOK, ClientTypeOK
<1>3. Has(got[c] \o queue[c], handled[i])
  <2> DEFINE later == SubSeq(handled, mark[c] + 1, Len(handled))
  <2>1. PICK l \in Levels \cup {0} : Destined(c) = <<Level(l)>> \o later
    BY <1>1 DEF ListenInv, ServedInv, Complete, AllDestined
  <2>2. later \in Seq(Message) /\ <<Level(l)>> \in Seq(Message)
    BY <1>2, Messages, SubSeqProperties
  <2>3. i - mark[c] \in 1..Len(later) /\ later[i - mark[c]] = handled[i]
    <3>1. /\ i \in Nat /\ mark[c] + 1 \in Int /\ Len(handled) \in Int
          /\ mark[c] + 1 <= i /\ i <= Len(handled)
          /\ \A j \in (mark[c] + 1)..Len(handled) : handled[j] \in Message
      BY <1>1, <1>2, ElementOfSeq
    <3>2. /\ Len(later) = Len(handled) - (mark[c] + 1) + 1
          /\ \A j \in 1..(Len(handled) - (mark[c] + 1) + 1) :
               later[j] = handled[(mark[c] + 1) + j - 1]
      BY <3>1, SubSeqProperties
    <3> HIDE DEF later
    <3>3. i - mark[c] \in 1..(Len(handled) - (mark[c] + 1) + 1)
          /\ (mark[c] + 1) + (i - mark[c]) - 1 = i
      BY <1>2, <3>1, PartIndex
    <3>4. later[i - mark[c]] = handled[(mark[c] + 1) + (i - mark[c]) - 1]
      BY <3>2, <3>3
    <3>5. Len(later) = Len(handled) - (mark[c] + 1) + 1
      BY <3>2
    <3>6. i - mark[c] \in 1..Len(later)
      BY <3>3, <3>5
    <3>7. later[i - mark[c]] = handled[i]
      BY <3>3, <3>4
    <3>. QED  BY <3>6, <3>7
  <2> HIDE DEF later
  <2>4. Has(later, handled[i])
    BY <2>3 DEF Has
  <2>5. Has(<<Level(l)>> \o later, handled[i])
    BY <2>2, <2>4, HasJoined
  <2>. QED  BY <2>1, <2>5 DEF Destined
<1>4. Has(got[c], handled[i]) => Has(inbox[k], handled[i]) \/ Has(down[c], handled[i])
  BY <1>1 DEF ListenInv, TravelInv, Arrived, Covered
<1>5. inbox[k] \o down[c] \in Seq(Message)
  BY <1>2, ConcatProperties
<1>. QED  BY <1>1, <1>2, <1>3, <1>4, <1>5, HasJoined

-----------------------------------------------------------------------------
(* The invariant. *)
LEMMA ListenInitially ==
  ASSUME Init
  PROVE  ListenInv
<1> USE DEF Init, TcpInit, ServerInit, ClientInit
<1>1. /\ <<>> \in Seq(Message) /\ <<>> \in Seq(Conn) /\ 0 \in Nat /\ Len(<<>>) = 0
      /\ 0 \in 0..MaxConn /\ 0 \in 0..MaxText /\ 0 \in 0..MaxSend /\ 0 \in 0..255
  BY ListenAssumption, ClientAssumption
<1>2. TypeOK
  <2>1. TcpTypeOK
    BY <1>1 DEF TcpTypeOK
  <2>2. ServerTypeOK
    BY <1>1 DEF ServerTypeOK
  <2>3. ClientTypeOK
    BY <1>1 DEF ClientTypeOK
  <2>. QED  BY <2>1, <2>2, <2>3 DEF TypeOK
<1>3. Unaccepted /\ Reading /\ Marked
  BY <1>1 DEF Unaccepted, Reading, Marked
<1>4. ServedInv
  BY DEF ServedInv, Complete, LevelLast, Serves
<1>5. OnceInv
  BY <1>1, EmptyApart DEF OnceInv, Once, UpLevels, Added
<1>6. FlowInv /\ InboxInv
  BY <1>1, EmptyFlow DEF FlowInv, Flows, InboxInv
<1>7. TravelInv
  BY DEF TravelInv, Linked, Arrived
<1>. QED  BY <1>2, <1>3, <1>4, <1>5, <1>6, <1>7 DEF ListenInv, ServerInv

LEMMA ListenInvariant == Spec => []ListenInv
<1>1. ListenInv /\ [Next]_vars => ListenInv'
  BY ServerStep, ServedStep, OnceStep, FlowStep, TravelStep DEF ListenInv
<1>. QED  BY ListenInitially, <1>1, PTL DEF Spec

(* Every variable of the server, of its clients and of the connections     *)
(* between them keeps its type, in particular: a message that is written,  *)
(* read or queued is a text that was added or a level, and a connection    *)
(* number is one that was made (src/src/listenserver.cpp,                  *)
(* src/src/listenserverconnection.cpp, src/src/listenclient.cpp).          *)
THEOREM ListenTypeCorrect == Spec => []TypeOK
<1>1. ListenInv => TypeOK
  BY DEF ListenInv, ServerInv
<1>. QED  BY ListenInvariant, <1>1, PTL

(* A connection gets a level, and then every message that the server's     *)
(* HandleMessage has taken since DoAccept put it in the list, once and in  *)
(* order, whatever other connections join and leave and whether its timer  *)
(* or the end of a write sends the next one.  As long as the connection    *)
(* holds, the client has each of the texts among them, or it is on its     *)
(* way (ListenClient::HandleMessage).                                      *)
THEOREM ListenTextComplete == Spec => []TextComplete
<1>1. ListenInv => TextComplete
  BY NoneIsMissing DEF TextComplete, ListenInv, ServedInv, Complete
<1>. QED  BY ListenInvariant, <1>1, PTL

(* The last level on the way to a connection is the level of the server:   *)
(* neither a level that comes while a connection joins nor one that comes  *)
(* among texts is lost to it (ListenServer::SetLogLevel, DoAccept).        *)
THEOREM ListenLevelLast == Spec => []LevelLast
<1>1. ListenInv => LevelLast
  BY DEF ListenInv, ServedInv
<1>. QED  BY ListenInvariant, <1>1, PTL

LEMMA PlaceOrder ==
  ASSUME Distinct(handled), NEW m, NEW n, IsText(m), IsText(n), Earlier(handled, m, n)
  PROVE  Place(m) < Place(n)
<1>1. PICK p \in 1..Len(handled), q \in 1..Len(handled) : p < q /\ handled[p] = m /\ handled[q] = n
  BY DEF Earlier
<1>2. \A i \in 1..Len(handled) : handled[i] = m => i = p
  BY <1>1 DEF Distinct
<1>3. \A i \in 1..Len(handled) : handled[i] = n => i = q
  BY <1>1 DEF Distinct
<1>4. Place(m) = p
  BY <1>1, <1>2 DEF Place
<1>5. Place(n) = q
  BY <1>1, <1>3 DEF Place
<1>. QED  BY <1>1, <1>4, <1>5

(* The texts in a client's queue are in the order in which the server      *)
(* handled them, none twice: also over a connection that is lost and made  *)
(* again by the client's retry (DoRetryWait, DoLookup), since a new one    *)
(* begins with what is handled after it has joined.                        *)
THEOREM ListenInOrder == Spec => []InOrder
<1>1. ASSUME ListenInv PROVE InOrder
  <2> SUFFICES ASSUME NEW k \in Clients, NEW i \in 1..Len(inbox[k]), NEW j \in 1..Len(inbox[k]), i < j
               PROVE  Place(inbox[k][i]) < Place(inbox[k][j])
    BY DEF InOrder
  <2>1. IsText(inbox[k][i]) /\ IsText(inbox[k][j]) /\ Ordered(handled, inbox[k])
    BY <1>1 DEF ListenInv, InboxInv
  <2>2. Earlier(handled, inbox[k][i], inbox[k][j])
    BY <2>1 DEF Ordered
  <2>3. Distinct(handled)
    BY <1>1 DEF ListenInv, OnceInv, Once
  <2>. QED  BY <2>1, <2>2, <2>3, PlaceOrder
<1>. QED  BY ListenInvariant, <1>1, PTL
=============================================================================
