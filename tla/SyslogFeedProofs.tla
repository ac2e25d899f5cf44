--------------------------- MODULE SyslogFeedProofs ---------------------------
(***************************************************************************)
(* Proofs about SyslogFeed, for every number of senders, messages and      *)
(* connections:                                                            *)
(*   SubscriberOneConnection  OneConnection                                *)
(*   SubscriberOperable       OperableReads                                *)
(*   FeedTypeCorrect          TypeOK                                       *)
(*   FeedSenderOrder          SenderOrder                                  *)
(*   FeedSentOnce             SentOnce                                     *)
(* The first two speak of the subscriber, and rest on what its worker and  *)
(* its owner know of the socket that they share.  The others follow a      *)
(* message to the queue of the subscriber: what is written to a connection *)
(* by the replay and the calls of AddMsg, under two locks (DeliveryInv),   *)
(* is what has come over it and what is on its way (ReceivedInv).          *)
(***************************************************************************)
EXTENDS SyslogFeed, SequenceTheorems, FiniteSetTheorems, TLAPS

Types ==
  /\ made \in 0..MaxConn
  /\ client \in [Conn -> {"open", "closed"}]
  /\ conn \in {0} \cup Conn
  /\ sock \in BOOLEAN /\ operable \in BOOLEAN /\ ustopped \in BOOLEAN

NoneOpen == \A c \in Conn : client[c] # "open"

(* Before the socket is asked to connect it has no connection; one that    *)
(* looks the host up or waits has no socket, unless the context has been   *)
(* stopped and it will not go on.                                          *)
SocketInv ==
  /\ \A c \in Conn : client[c] = "open" => c = conn /\ sock
  /\ upc \in {"lookup", "retry"} => ~sock \/ ustopped
  /\ upc = "connect" => conn = 0 \/ ustopped
  /\ uopc = "new" => ~sock /\ upc = "none"
  /\ uopc \in {"join", "stopped", "destroyed"} => ustopped
  /\ uopc = "destroyed" => ~sock
  /\ upc = "none" => ~sock

(* A socket that is closed under a worker that reads was closed by Stop,   *)
(* and the context is stopped only there.                                  *)
ReadInv ==
  /\ upc \in {"connected", "read"} /\ ~sock => uopc \in {"closed", "join"}
  /\ ustopped /\ upc \notin {"none", "lookup", "gone"} => uopc = "join"

FeedInv == Types /\ SocketInv /\ ReadInv /\ OperableReads

-----------------------------------------------------------------------------
(* The publisher does not touch the clients' ends of the connections. *)
LEMMA PublisherKeeps ==
  ASSUME Next,
         ~(\/ Subscribing(Worker) \/ Subscribing(ReadBroken)
           \/ Subscribing(Start) \/ Subscribing(StopFlag)
           \/ Subscribing(Stop) \/ Subscribing(Destroy))
  PROVE  UNCHANGED <<made, client, subscriber>>
<1>1. CASE \E s \in Senders : Publishing(AddStore(s) \/ AddMsg(s))
  <2> PICK s \in Senders : Publishing(AddStore(s) \/ AddMsg(s))
    BY <1>1
  <2>1. CASE AddStore(s) \/ AddLock(s) \/ AddTest(s) \/ AddUnlock(s)
    BY <2>1 DEF Publishing, AddStore, AddLock, AddTest, AddUnlock, tcp
  <2>2. CASE AddWrite(s)
    BY <2>2 DEF Publishing, AddWrite, NetWrite, tcp
  <2>. QED  BY <2>1, <2>2 DEF Publishing, AddMsg
<1>2. CASE Publishing(RunAccept) \/ Publishing(RunRegister)
           \/ Publishing(RunAcceptError) \/ Publishing(RunCleanup)
           \/ Publishing(RunCheck) \/ Publishing(RunEnd)
  BY <1>2 DEF Publishing, RunAccept, RunRegister, RunAcceptError, RunCleanup,
     RunCheck, RunEnd, tcp
<1>3. CASE \E c \in Conn : Publishing(RunRead(c))
  BY <1>3 DEF Publishing, RunRead
<1>4. CASE Publishing(StopClear) \/ Publishing(StopContext)
           \/ Publishing(StopJoin)
  BY <1>4 DEF Publishing, StopClear, StopContext, StopJoin, tcp
<1>. QED  BY <1>1, <1>2, <1>3, <1>4 DEF Next

(* Close leaves no connection open: the socket has the only one. *)
LEMMA CloseEnds ==
  ASSUME Types, SocketInv, Close
  PROVE  /\ \A c \in Conn : client'[c] # "open"
         /\ client' \in [Conn -> {"open", "closed"}]
         /\ made' = made /\ sock' = FALSE /\ conn' = conn
<1>1. CASE sock /\ conn # 0
  <2>1. client' = [client EXCEPT ![conn] = "closed"] /\ made' = made
    BY <1>1 DEF Close, NetClientClose
  <2>2. conn \in Conn /\ \A c \in Conn : client[c] = "open" => c = conn
    BY <1>1 DEF Types, SocketInv
  <2>. QED  BY <2>1, <2>2 DEF Types, Close
<1>2. CASE ~(sock /\ conn # 0)
  <2>1. client' = client /\ made' = made
    BY <1>2 DEF Close, tcp
  <2>2. \A c \in Conn : c # 0
    BY TcpAssumption DEF Conn
  <2>. QED  BY <1>2, <2>1, <2>2 DEF Types, SocketInv, Close
<1>. QED  BY <1>1, <1>2

(* The way into the pause before the next try. *)
LEMMA RetryStep ==
  ASSUME FeedInv, DoRetryWait, ~ustopped, upc # "none"
  PROVE  FeedInv'
<1>1. /\ \A c \in Conn : client'[c] # "open"
      /\ client' \in [Conn -> {"open", "closed"}]
      /\ made' = made /\ sock' = FALSE /\ conn' = conn
  BY CloseEnds DEF FeedInv, DoRetryWait
<1>. QED
  BY <1>1 DEF FeedInv, DoRetryWait, Types, SocketInv, ReadInv, OperableReads

(* A new socket, when the one before has no connection any more. *)
LEMMA ConnectStep ==
  ASSUME FeedInv, DoConnect, ~ustopped, upc \notin {"none", "read"}, NoneOpen
  PROVE  FeedInv'
BY DEF FeedInv, DoConnect, Types, SocketInv, ReadInv, OperableReads, NoneOpen,
   tcp

LEMMA WorkerStep ==
  ASSUME FeedInv, Worker \/ ReadBroken
  PROVE  FeedInv'
<1> USE DEF WorkerAt
<1>1. ~ustopped /\ upc # "none" => uopc \notin {"new", "join", "stopped", "destroyed"}
  BY DEF FeedInv, SocketInv
<1>2. \A c \in Conn : c # 0
  BY TcpAssumption DEF Conn
<1>3. ASSUME WorkerAt("lookup") \/ WorkerAt("connect")
             \/ (WorkerAt("connected") /\ ~sock)
      PROVE  NoneOpen
  BY <1>2, <1>3 DEF FeedInv, SocketInv, NoneOpen
<1>4. CASE LookupDone
  BY <1>1, <1>3, <1>4, ConnectStep DEF LookupDone
<1>5. CASE LookupFailed \/ ReadFailed \/ ReadBroken
  BY <1>5, RetryStep DEF LookupFailed, ReadFailed, ReadBroken
<1>6. CASE ConnectFailed
  BY <1>1, <1>3, <1>6, ConnectStep, RetryStep DEF ConnectFailed
<1>7. CASE Connected
  <2>1. made' = made + 1 /\ made' \in Conn /\ made' \in 0..MaxConn
    BY <1>7, TcpAssumption DEF Connected, NetConnect, FeedInv, Types, Conn
  <2>2. client' = [client EXCEPT ![made'] = "open"]
    BY <1>7 DEF Connected, NetConnect
  <2>3. NoneOpen
    BY <1>3, <1>7 DEF Connected
  <2>4. client' \in [Conn -> {"open", "closed"}]
        /\ \A c \in Conn : client'[c] = "open" => c = made'
    BY <2>1, <2>2, <2>3 DEF FeedInv, Types, NoneOpen
  <2>. QED
    BY <1>1, <1>7, <2>1, <2>4
    DEF Connected, FeedInv, Types, SocketInv, ReadInv, OperableReads
<1>8. CASE ConnectDone
  BY <1>1, <1>8
  DEF ConnectDone, FeedInv, Types, SocketInv, ReadInv, OperableReads, tcp,
      socket
<1>9. CASE ReadMessage
  BY <1>9
  DEF ReadMessage, NetRead, FeedInv, Types, SocketInv, ReadInv,
      OperableReads, socket
<1>10. CASE ReadAfterClose
  BY <1>1, <1>10
  DEF ReadAfterClose, FeedInv, Types, SocketInv, ReadInv, OperableReads, tcp,
      socket
<1>11. CASE RetryTimer
  BY <1>1, <1>11
  DEF RetryTimer, FeedInv, Types, SocketInv, ReadInv, OperableReads, tcp,
      socket
<1>12. CASE WorkerEnd
  BY <1>12
  DEF WorkerEnd, FeedInv, Types, SocketInv, ReadInv, OperableReads, tcp,
      socket
<1>. QED
  BY <1>4, <1>5, <1>6, <1>7, <1>8, <1>9, <1>10,
     <1>11, <1>12 DEF Worker

LEMMA OwnerStep ==
  ASSUME FeedInv, Start \/ StopFlag \/ Stop \/ Destroy
  PROVE  FeedInv'
<1>1. CASE Start
  BY <1>1
  DEF Start, FeedInv, Types, SocketInv, ReadInv, OperableReads, tcp, socket
<1>2. CASE StopFlag
  BY <1>2
  DEF StopFlag, FeedInv, Types, SocketInv, ReadInv, OperableReads, tcp, socket
<1>3. CASE StopClose \/ Destroy
  <2>1. /\ \A c \in Conn : client'[c] # "open"
        /\ client' \in [Conn -> {"open", "closed"}]
        /\ made' = made /\ sock' = FALSE /\ conn' = conn
    BY <1>3, CloseEnds DEF FeedInv, StopClose, Destroy
  <2>2. CASE StopClose
    BY <2>1, <2>2
    DEF StopClose, FeedInv, Types, SocketInv, ReadInv, OperableReads
  <2>3. CASE Destroy
    BY <2>1, <2>3
    DEF Destroy, FeedInv, Types, SocketInv, ReadInv, OperableReads
  <2>. QED  BY <1>3, <2>2, <2>3
<1>4. CASE StopSubContext
  BY <1>4
  DEF StopSubContext, FeedInv, Types, SocketInv, ReadInv, OperableReads, tcp,
      socket
<1>5. CASE StopSubJoin
  BY <1>5
  DEF StopSubJoin, FeedInv, Types, SocketInv, ReadInv, OperableReads, tcp,
      socket
<1>. QED  BY <1>1, <1>2, <1>3, <1>4, <1>5 DEF Stop

(* The invariant holds in every reachable state. *)
LEMMA FeedInvariance == Spec => []FeedInv
<1>1. Init => FeedInv
  <2> SUFFICES ASSUME Init PROVE FeedInv
    OBVIOUS
  <2>1. Types
    <3>1. 0 \in 0..MaxConn
      BY TcpAssumption
    <3>2. made = 0 /\ conn = 0 /\ client = [c \in Conn |-> "closed"]
      BY DEF Init, TcpInit, SubscriberInit
    <3>3. sock \in BOOLEAN /\ operable \in BOOLEAN /\ ustopped \in BOOLEAN
      BY DEF Init, SubscriberInit
    <3>. QED  BY <3>1, <3>2, <3>3 DEF Types
  <2>2. SocketInv
    BY DEF Init, TcpInit, SubscriberInit, SocketInv
  <2>3. ReadInv /\ OperableReads
    BY DEF Init, SubscriberInit, ReadInv, OperableReads
  <2>. QED  BY <2>1, <2>2, <2>3 DEF FeedInv
<1>2. FeedInv /\ [Next]_vars => FeedInv'
  <2> SUFFICES ASSUME FeedInv, [Next]_vars PROVE FeedInv'
    OBVIOUS
  <2>1. CASE Subscribing(Worker) \/ Subscribing(ReadBroken)
    BY <2>1, WorkerStep DEF Subscribing
  <2>2. CASE Subscribing(Start) \/ Subscribing(StopFlag)
             \/ Subscribing(Stop) \/ Subscribing(Destroy)
    BY <2>2, OwnerStep DEF Subscribing
  <2>3. ASSUME UNCHANGED <<made, client, subscriber>> PROVE FeedInv'
    BY <2>3
    DEF subscriber, socket, FeedInv, Types, SocketInv, ReadInv, OperableReads
  <2>4. CASE UNCHANGED vars
    BY <2>3, <2>4 DEF vars, tcp
  <2>. QED  BY <2>1, <2>2, <2>3, <2>4, PublisherKeeps
<1>. QED  BY <1>1, <1>2, PTL DEF Spec

(* However the subscriber fails, retries, is stopped and started again, it *)
(* has one open connection at most, its socket's, and none when it is      *)
(* destroyed (SyslogSubscriber::Close, DoRetryWait, DoConnect).            *)
THEOREM SubscriberOneConnection == Spec => []OneConnection
<1>1. FeedInv => OneConnection
  BY DEF FeedInv, SocketInv, OneConnection
<1>. QED  BY <1>1, FeedInvariance, PTL

(* IsOperable is true only while the worker reads or Stop is under way:    *)
(* whatever ends a read clears it (SyslogSubscriber::DoRetryWait, Stop).   *)
THEOREM SubscriberOperable == Spec => []OperableReads
<1>1. FeedInv => OperableReads
  BY DEF FeedInv
<1>. QED  BY <1>1, FeedInvariance, PTL

-----------------------------------------------------------------------------
(***************************************************************************)
(* What goes over a connection.                                            *)
(***************************************************************************)

(* A connection that is not accepted has no history, and is not known to   *)
(* the publisher; those in the backlog are all different.                  *)
Unaccepted ==
  /\ \A i \in 1..Len(backlog) : backlog[i] <= made /\ server[backlog[i]] = "none"
  /\ \A i, j \in 1..Len(backlog) : backlog[i] = backlog[j] => i = j
  /\ \A c \in Conn : c > made => server[c] = "none"
  /\ \A c \in Conn : server[c] = "none" =>
       got[c] = <<>> /\ stream[c] = <<>> /\ c \notin conns /\ c # fresh

(* The mutex of the list: its owner is in the loop, which goes over        *)
(* connections of the list; a call in progress has stored its message.     *)
Locked ==
  /\ \A s \in Senders : apc[s] \in {"test", "write"} <=> connLock = s
  /\ \A s \in Senders : apc[s] # "idle" => sent[s] >= 1
  /\ todo \subseteq conns
  /\ connLock = Free => todo = {}

(* The connection that is accepted and not registered. *)
Registering ==
  /\ (spc = "register") <=> (fresh # 0)
  /\ fresh \notin conns

(* The store: what was added, once each, in the order of each sender.      *)
Kept ==
  /\ \A i \in 1..Len(messages) : messages[i] \in Stored
  /\ \A i, j \in 1..Len(messages) :
       i < j /\ messages[i][1] = messages[j][1] => messages[i][2] < messages[j][2]

(* What was written to a connection while its client is there. *)
Written(c, m) == Cardinality({i \in 1..Len(got[c]) : got[c][i] = m})

GotOrder ==
  \A c \in Conn : \A i, j \in 1..Len(got[c]) :
    i < j /\ got[c][i][1] = got[c][j][1] => got[c][i][2] <= got[c][j][2]

GotStored == \A c \in Conn : \A i \in 1..Len(got[c]) : got[c][i] \in Stored

(* The message m is still to be sent to c by the call that added it.       *)
Awaits(c, m) ==
  /\ m[2] = sent[m[1]]
  /\ apc[m[1]] = "lock" \/ (apc[m[1]] \in {"test", "write"} /\ c \in todo)

(* The copies there may be by then: those of the store, when the message   *)
(* was added before c was registered, and the one of the call.             *)
Counts(c, m) ==
  IF m \in before[c] THEN IF Awaits(c, m) THEN {0, 1} ELSE {0, 1, 2}
                     ELSE IF Awaits(c, m) THEN {0} ELSE {1}

Counted ==
  /\ \A c \in Conn : Serves(c) => \A m \in Stored : Written(c, m) \in Counts(c, m)
  /\ fresh # 0 => \A m \in Stored : Written(fresh, m) \in {0, 1}

OrderInv ==
  TypeOK /\ Unaccepted /\ Locked /\ Registering /\ Kept /\ GotStored /\ GotOrder

DeliveryInv == OrderInv /\ Counted

ReadConn == upc \in {"connected", "read"} => conn \in Conn

-----------------------------------------------------------------------------
(* Facts of sequences. *)
LEMMA AddedLast ==
  ASSUME NEW S, NEW q \in Seq(S), NEW x \in S
  PROVE  /\ q \o <<x>> \in Seq(S)
         /\ Append(q, x) = q \o <<x>>
         /\ Len(q \o <<x>>) = Len(q) + 1
         /\ \A i \in 1..Len(q) : (q \o <<x>>)[i] = q[i]
         /\ (q \o <<x>>)[Len(q) + 1] = x
<1>1. <<x>> \in Seq(S) /\ Len(<<x>>) = 1 /\ <<x>>[1] = x
  OBVIOUS
<1>. QED  BY <1>1, ConcatProperties, AppendIsConcat, LenProperties

LEMMA WithoutFirst ==
  ASSUME NEW S, NEW q \in Seq(S), q # <<>>
  PROVE  /\ Tail(q) \in Seq(S) /\ Head(q) \in S
         /\ Len(q) >= 1 /\ Head(q) = q[1]
         /\ Len(Tail(q)) = Len(q) - 1
         /\ \A i \in 1..Len(Tail(q)) : Tail(q)[i] = q[i + 1]
<1>1. Len(q) \in Nat /\ Len(q) >= 1
  BY EmptySeq, LenProperties
<1>. QED  BY <1>1, HeadTailProperties

LEMMA NothingBefore ==
  ASSUME NEW S, NEW q \in Seq(S)
  PROVE  <<>> \o q = q
BY ConcatEmptySeq

(* The latest messages of the store. *)
LEMMA CheckedStore ==
  ASSUME NEW S, NEW q \in Seq(S), Len(q) > Keep
  PROVE  LET t == SubSeq(q, Len(q) - Keep + 1, Len(q)) IN
         /\ t \in Seq(S) /\ Len(t) = Keep
         /\ \A i \in 1..Keep : t[i] = q[Len(q) - Keep + i]
<1>1. Keep \in Nat /\ Len(q) \in Nat
  BY PublisherAssumption, LenProperties
<1>2. \A i \in (Len(q) - Keep + 1)..Len(q) : q[i] \in S
  BY <1>1, ElementOfSeq
<1>. QED  BY <1>1, <1>2, SubSeqProperties

LEMMA MsgFields ==
  /\ \A m \in Msg : m[1] \in Senders /\ m[2] \in 1..MaxMsg /\ m = <<m[1], m[2]>>
  /\ \A s \in Senders, n \in 1..MaxMsg : <<s, n>> \in Msg
BY DEF Msg

-----------------------------------------------------------------------------
(* What the subscriber does to the connections is one of these. *)
NetSteps ==
  \/ UNCHANGED tcp
  \/ NetConnect
  \/ \E c \in Conn : NetClientClose(c) \/ NetRead(c)

LEMMA CloseNet ==
  ASSUME TypeOK, Close
  PROVE  NetSteps
<1>1. CASE sock /\ conn # 0
  <2>1. conn \in Conn
    BY <1>1 DEF TypeOK, SubscriberTypeOK
  <2>. QED  BY <1>1, <2>1 DEF Close, NetSteps
<1>. QED  BY <1>1 DEF Close, NetSteps

LEMMA SubscriberNet ==
  ASSUME TypeOK, ReadConn,
         \/ Worker \/ ReadBroken \/ Start \/ StopFlag \/ Stop \/ Destroy
  PROVE  NetSteps /\ ReadConn'
<1> USE DEF WorkerAt
<1>1. CASE LookupDone
  BY <1>1 DEF LookupDone, DoConnect, NetSteps, ReadConn
<1>2. CASE LookupFailed \/ ReadFailed \/ ReadBroken
  BY <1>2, CloseNet DEF LookupFailed, ReadFailed, ReadBroken, DoRetryWait, ReadConn
<1>3. CASE ConnectFailed
  BY <1>3, CloseNet DEF ConnectFailed, DoConnect, DoRetryWait, NetSteps, ReadConn
<1>4. CASE Connected
  BY <1>4, TcpAssumption
  DEF Connected, NetSteps, ReadConn, NetConnect, Conn, TypeOK, TcpTypeOK
<1>5. CASE ConnectDone \/ ReadAfterClose \/ RetryTimer \/ WorkerEnd
  BY <1>5
  DEF ConnectDone, ReadAfterClose, RetryTimer, WorkerEnd, NetSteps, ReadConn, socket
<1>6. CASE ReadMessage
  BY <1>6 DEF ReadMessage, NetSteps, ReadConn, socket
<1>7. CASE Start \/ StopFlag \/ StopSubContext \/ StopSubJoin
  BY <1>7
  DEF Start, StopFlag, StopSubContext, StopSubJoin, NetSteps, ReadConn, socket
<1>8. CASE StopClose \/ Destroy
  BY <1>8, CloseNet DEF StopClose, Destroy, Close, ReadConn
<1>. QED
  BY <1>1, <1>2, <1>3, <1>4, <1>5, <1>6, <1>7, <1>8 DEF Worker, Stop

(* The steps of the whole, as far as what goes over a connection depends   *)
(* on them: the others leave it as it is.                                  *)
Still ==
  /\ UNCHANGED <<tcp, messages, conns, sending, fresh>>
  /\ (spc' = "register") <=> (spc = "register")

LEMMA FeedSteps ==
  ASSUME TypeOK, ReadConn, [Next]_vars
  PROVE  /\ ReadConn'
         /\ \/ Still
            \/ \E s \in Senders :
                 AddStore(s) \/ AddLock(s) \/ AddTest(s) \/ AddWrite(s) \/ AddUnlock(s)
            \/ RunAccept \/ RunRegister \/ RunCleanup \/ RunCheck
            \/ \E c \in Conn : RunRead(c)
            \/ StopClear
            \/ NetSteps /\ UNCHANGED publisher
<1>1. CASE Subscribing(Worker) \/ Subscribing(ReadBroken) \/ Subscribing(Start)
           \/ Subscribing(StopFlag) \/ Subscribing(Stop) \/ Subscribing(Destroy)
  BY <1>1, SubscriberNet DEF Subscribing
<1>2. CASE UNCHANGED vars
  BY <1>2 DEF vars, Still, publisher, handlers, subscriber, socket, ReadConn
<1>4. UNCHANGED subscriber => ReadConn'
  BY DEF subscriber, socket, ReadConn
<1>5. CASE \E s \in Senders : Publishing(AddStore(s) \/ AddMsg(s))
  BY <1>4, <1>5 DEF Publishing, AddMsg
<1>6. CASE Publishing(RunAcceptError) \/ Publishing(RunEnd)
           \/ Publishing(StopContext) \/ Publishing(StopJoin)
  BY <1>4, <1>6
  DEF Publishing, RunAcceptError, RunEnd, StopContext, StopJoin, Still,
      handlers, Run
<1>7. CASE Publishing(RunAccept) \/ Publishing(RunRegister)
           \/ Publishing(RunCleanup) \/ Publishing(RunCheck)
           \/ (\E c \in Conn : Publishing(RunRead(c)))
           \/ Publishing(StopClear)
  BY <1>4, <1>7 DEF Publishing
<1>. QED  BY <1>1, <1>2, <1>5, <1>6, <1>7 DEF Next

-----------------------------------------------------------------------------
(* The types. *)
LEMMA NetTypes ==
  ASSUME TcpTypeOK, NetSteps
  PROVE  TcpTypeOK'
<1>1. CASE UNCHANGED tcp
  BY <1>1 DEF TcpTypeOK, tcp
<1>2. CASE NetConnect
  <2>1. made' \in 0..MaxConn /\ made' \in Conn
    BY <1>2, TcpAssumption DEF NetConnect, TcpTypeOK, Conn
  <2>. QED  BY <1>2, <2>1 DEF NetConnect, TcpTypeOK
<1>3. ASSUME NEW c \in Conn, NetClientClose(c) PROVE TcpTypeOK'
  BY <1>3 DEF NetClientClose, TcpTypeOK
<1>4. ASSUME NEW c \in Conn, NetRead(c) PROVE TcpTypeOK'
  <2>1. Tail(stream[c]) \in Seq(Msg)
    BY <1>4, WithoutFirst DEF NetRead, TcpTypeOK
  <2>. QED  BY <1>4, <2>1 DEF NetRead, TcpTypeOK
<1>. QED  BY <1>1, <1>2, <1>3, <1>4 DEF NetSteps

LEMMA WriteTypes ==
  ASSUME TcpTypeOK, NEW c \in Conn, NEW msgs \in Seq(Msg), NetWrite(c, msgs)
  PROVE  /\ reset' \in [Conn -> BOOLEAN]
         /\ stream' \in [Conn -> Seq(Msg)] /\ got' \in [Conn -> Seq(Msg)]
<1>1. stream[c] \o msgs \in Seq(Msg) /\ got[c] \o msgs \in Seq(Msg)
  BY ConcatProperties DEF TcpTypeOK
<1>. QED  BY <1>1 DEF NetWrite, TcpTypeOK

LEMMA SenderTypes ==
  ASSUME TypeOK, Locked, NEW s \in Senders,
         AddStore(s) \/ AddLock(s) \/ AddTest(s) \/ AddWrite(s) \/ AddUnlock(s)
  PROVE  TcpTypeOK' /\ PublisherTypeOK'
<1> USE DEF TypeOK, PublisherTypeOK, Goto
<1>1. CASE AddStore(s)
  <2>1. sent[s] + 1 \in 1..MaxMsg /\ sent'[s] = sent[s] + 1
    BY <1>1, TcpAssumption DEF AddStore
  <2>2. Append(messages, <<s, sent'[s]>>) \in Seq(Msg)
    BY <2>1, MsgFields, AddedLast
  <2>3. sent' \in [Senders -> 0..MaxMsg]
    BY <1>1, <2>1 DEF AddStore
  <2>. QED  BY <1>1, <2>2, <2>3 DEF AddStore, TcpTypeOK, tcp, handlers
<1>2. CASE AddLock(s) \/ AddTest(s) \/ AddUnlock(s)
  BY <1>2 DEF AddLock, AddTest, AddUnlock, TcpTypeOK, tcp, handlers
<1>3. CASE AddWrite(s)
  <2> PICK c \in Conn : AddWrite(s)!2!(c)
    BY <1>3 DEF AddWrite
  <2>1. CASE server[c] # "open"
    BY <1>3, <2>1 DEF AddWrite, TcpTypeOK, tcp, handlers
  <2>2. CASE server[c] = "open"
    <3>1. <<<<s, sent[s]>>>> \in Seq(Msg)
      BY <1>3, MsgFields, TcpAssumption DEF AddWrite, Locked
    <3>2. TcpTypeOK'
      BY <2>2, <3>1, WriteTypes DEF TcpTypeOK
    <3>. QED  BY <1>3, <2>2, <3>2 DEF AddWrite, handlers
  <2>. QED  BY <2>1, <2>2
<1>. QED  BY <1>1, <1>2, <1>3

LEMMA ServerTypes ==
  ASSUME TypeOK, Registering,
         \/ RunAccept \/ RunRegister \/ RunCleanup \/ RunCheck
         \/ (\E c \in Conn : RunRead(c)) \/ StopClear
  PROVE  TcpTypeOK' /\ PublisherTypeOK'
<1> USE DEF TypeOK, PublisherTypeOK, Run
<1>1. CASE RunAccept
  <2> DEFINE c == Head(backlog)
  <2>1. c \in Conn /\ Tail(backlog) \in Seq(Conn)
    BY <1>1, WithoutFirst DEF RunAccept, TcpTypeOK
  <2>2. TcpTypeOK'
    BY <1>1, <2>1, WriteTypes DEF RunAccept, TcpTypeOK
  <2>. QED  BY <1>1, <2>1, <2>2 DEF RunAccept, sending
<1>2. CASE RunRegister
  <2>1. fresh \in Conn
    BY <1>2 DEF RunRegister, Registering
  <2>2. Stored \in SUBSET Msg
    BY DEF Stored
  <2>3. before' \in [Conn -> SUBSET Msg]
    BY <1>2, <2>2 DEF RunRegister, TcpTypeOK
  <2>. QED  BY <1>2, <2>1, <2>3 DEF RunRegister, TcpTypeOK, sending
<1>3. CASE RunCleanup
  BY <1>3 DEF RunCleanup, TcpTypeOK, tcp, sending, handlers
<1>4. CASE RunCheck
  <2>1. SubSeq(messages, Len(messages) - Keep + 1, Len(messages)) \in Seq(Msg)
    BY <1>4, CheckedStore DEF RunCheck
  <2>. QED  BY <1>4, <2>1 DEF RunCheck, TcpTypeOK, tcp, sending, handlers
<1>5. ASSUME NEW c \in Conn, RunRead(c) PROVE TcpTypeOK' /\ PublisherTypeOK'
  BY <1>5 DEF RunRead, TcpTypeOK, sending
<1>6. CASE StopClear
  BY <1>6 DEF StopClear, TcpTypeOK, sending, handlers
<1>. QED  BY <1>1, <1>2, <1>3, <1>4, <1>5, <1>6

LEMMA RestTypes ==
  ASSUME TypeOK,
         RunAcceptError \/ RunEnd \/ StopContext \/ StopJoin
  PROVE  TcpTypeOK' /\ PublisherTypeOK'
BY DEF TypeOK, TcpTypeOK, PublisherTypeOK, RunAcceptError, RunEnd, StopContext,
   StopJoin, tcp, sending, handlers, Run

LEMMA SubscriberTypes ==
  ASSUME TypeOK, ReadConn,
         \/ Worker \/ ReadBroken \/ Start \/ StopFlag \/ Stop \/ Destroy
  PROVE  SubscriberTypeOK'
<1> USE DEF WorkerAt, TypeOK, SubscriberTypeOK
<1>1. Close => sock' = FALSE /\ rcvd' \in Seq(Msg) /\ conn' = conn
  BY DEF Close
<1>2. CASE LookupDone \/ ConnectFailed \/ LookupFailed \/ ReadFailed \/ ReadBroken
  BY <1>1, <1>2
  DEF LookupDone, ConnectFailed, LookupFailed, ReadFailed, ReadBroken,
      DoConnect, DoRetryWait
<1>3. CASE Connected
  BY <1>3, TcpAssumption DEF Connected, NetConnect, TcpTypeOK, Conn
<1>4. CASE ConnectDone \/ ReadAfterClose \/ RetryTimer \/ WorkerEnd
  BY <1>4 DEF ConnectDone, ReadAfterClose, RetryTimer, WorkerEnd, socket
<1>5. CASE ReadMessage
  <2>1. Append(rcvd, Head(stream[conn])) \in Seq(Msg)
    BY <1>5, WithoutFirst, AddedLast DEF ReadMessage, NetRead, ReadConn, TcpTypeOK
  <2>. QED  BY <1>5, <2>1 DEF ReadMessage, socket
<1>6. CASE Start \/ StopFlag \/ StopSubContext \/ StopSubJoin
  BY <1>6 DEF Start, StopFlag, StopSubContext, StopSubJoin, socket
<1>7. CASE StopClose \/ Destroy
  BY <1>1, <1>7 DEF StopClose, Destroy
<1>. QED  BY <1>2, <1>3, <1>4, <1>5, <1>6, <1>7 DEF Worker, Stop

LEMMA FeedTypes ==
  ASSUME TypeOK, ReadConn, Locked, Registering, [Next]_vars
  PROVE  TypeOK'
<1>1. CASE Subscribing(Worker) \/ Subscribing(ReadBroken) \/ Subscribing(Start)
           \/ Subscribing(StopFlag) \/ Subscribing(Stop) \/ Subscribing(Destroy)
  <2>1. UNCHANGED publisher /\ SubscriberTypeOK' /\ NetSteps
    BY <1>1, SubscriberTypes, SubscriberNet DEF Subscribing
  <2>2. PublisherTypeOK'
    BY <2>1 DEF publisher, sending, handlers, TypeOK, PublisherTypeOK
  <2>. QED  BY <2>1, <2>2, NetTypes DEF TypeOK
<1>2. CASE UNCHANGED vars
  BY <1>2
  DEF vars, tcp, publisher, sending, handlers, subscriber, socket, TypeOK,
      TcpTypeOK, PublisherTypeOK, SubscriberTypeOK
<1>3. UNCHANGED subscriber => SubscriberTypeOK'
  BY DEF subscriber, socket, TypeOK, SubscriberTypeOK
<1>4. CASE \E s \in Senders : Publishing(AddStore(s) \/ AddMsg(s))
  BY <1>3, <1>4, SenderTypes DEF Publishing, AddMsg, TypeOK
<1>5. CASE Publishing(RunAcceptError) \/ Publishing(RunEnd)
           \/ Publishing(StopContext) \/ Publishing(StopJoin)
  BY <1>3, <1>5, RestTypes DEF Publishing, TypeOK
<1>6. CASE Publishing(RunAccept) \/ Publishing(RunRegister)
           \/ Publishing(RunCleanup) \/ Publishing(RunCheck)
           \/ (\E c \in Conn : Publishing(RunRead(c)))
           \/ Publishing(StopClear)
  BY <1>3, <1>6, ServerTypes DEF Publishing, TypeOK
<1>. QED  BY <1>1, <1>2, <1>4, <1>5, <1>6 DEF Next

-----------------------------------------------------------------------------
(* The senders and the connections. *)
LEMMA UnacceptedStep ==
  ASSUME TypeOK, Unaccepted, Locked, Registering, ReadConn, [Next]_vars
  PROVE  Unaccepted'
<1> USE DEF Unaccepted, TypeOK, TcpTypeOK, PublisherTypeOK
<1>1. CASE Still
  BY <1>1 DEF Still, tcp, sending
<1>2. ASSUME NEW s \in Senders,
             AddStore(s) \/ AddLock(s) \/ AddTest(s) \/ AddUnlock(s)
      PROVE  Unaccepted'
  <2>1. UNCHANGED <<tcp, conns, fresh>>
    BY <1>2 DEF AddStore, AddLock, AddTest, AddUnlock, handlers
  <2>. QED  BY <2>1 DEF tcp
<1>3. ASSUME NEW s \in Senders, AddWrite(s) PROVE Unaccepted'
  <2> PICK c \in Conn : AddWrite(s)!2!(c)
    BY <1>3 DEF AddWrite
  <2>1. CASE server[c] # "open"
    BY <1>3, <2>1 DEF AddWrite, tcp, handlers
  <2>2. CASE server[c] = "open"
    <3>1. \A d \in Conn : d # c => got'[d] = got[d] /\ stream'[d] = stream[d]
      BY <2>2 DEF NetWrite
    <3>. QED  BY <1>3, <2>2, <3>1 DEF AddWrite, handlers
  <2>. QED  BY <2>1, <2>2
<1>4. CASE RunAccept
  <2> DEFINE c == Head(backlog)
  <2>1. /\ c \in Conn /\ Len(backlog) \in Nat /\ Len(backlog) >= 1 /\ c = backlog[1]
        /\ Len(Tail(backlog)) = Len(backlog) - 1
        /\ \A i \in 1..Len(Tail(backlog)) : Tail(backlog)[i] = backlog[i + 1]
    BY <1>4, WithoutFirst, LenProperties DEF RunAccept
  <2>2. c <= made
    BY <2>1
  <2>3. \A d \in Conn : d # c => got'[d] = got[d] /\ stream'[d] = stream[d]
    BY <1>4 DEF RunAccept, NetWrite
  <2>4. \A i \in 1..Len(backlog) : backlog[i] \in Conn
    BY ElementOfSeq
  <2>5. \A d \in Conn : server'[d] = IF d = c THEN "open" ELSE server[d]
    BY <1>4, <2>1 DEF RunAccept
  <2>6. backlog' = Tail(backlog) /\ made' = made /\ conns' = conns /\ fresh' = c
    BY <1>4 DEF RunAccept
  <2> HIDE DEF c
  <2>7. \A i \in 1..Len(backlog') :
          /\ i \in Nat /\ i + 1 \in 1..Len(backlog) /\ backlog'[i] = backlog[i + 1]
          /\ backlog'[i] \in Conn /\ backlog'[i] # c
    <3> TAKE i \in 1..Len(backlog')
    <3>1. i \in Nat /\ i + 1 \in 1..Len(backlog) /\ backlog'[i] = backlog[i + 1]
      BY <2>1, <2>6
    <3>2. i + 1 # 1 /\ 1 \in 1..Len(backlog)
      BY <2>1, <3>1
    <3>. QED  BY <2>1, <2>4, <3>1, <3>2
  <2>8. \A i \in 1..Len(backlog') : backlog'[i] <= made' /\ server'[backlog'[i]] = "none"
    BY <2>5, <2>6, <2>7
  <2>9. \A i, j \in 1..Len(backlog') : backlog'[i] = backlog'[j] => i = j
    <3> TAKE i, j \in 1..Len(backlog')
    <3>1. i + 1 = j + 1 => i = j
      BY <2>7
    <3>. QED  BY <2>7, <3>1
  <2>10. \A d \in Conn : d > made' => server'[d] = "none"
    <3> TAKE d \in Conn
    <3>1. d \in Nat /\ made \in Nat /\ (d > made => d # c)
      BY <2>1, <2>2 DEF Conn
    <3>. QED  BY <2>5, <2>6, <3>1
  <2>11. \A d \in Conn : server'[d] = "none" =>
           got'[d] = <<>> /\ stream'[d] = <<>> /\ d \notin conns' /\ d # fresh'
    BY <2>3, <2>5, <2>6
  <2>. QED  BY <2>8, <2>9, <2>10, <2>11
<1>5. CASE RunRegister
  BY <1>5, TcpAssumption DEF RunRegister, Registering, Conn
<1>6. CASE RunCleanup \/ RunCheck
  BY <1>6 DEF RunCleanup, RunCheck, tcp, handlers
<1>7. CASE (\E c \in Conn : RunRead(c)) \/ StopClear
  <2>1. /\ \A d \in Conn : server'[d] # "none" <=> server[d] # "none"
        /\ conns' \subseteq conns
        /\ UNCHANGED <<made, backlog, stream, got, fresh>>
    BY <1>7 DEF RunRead, StopClear, handlers
  <2>2. \A i \in 1..Len(backlog) : backlog[i] \in Conn
    BY ElementOfSeq
  <2>. QED  BY <2>1, <2>2
<1>8. CASE NetConnect /\ UNCHANGED publisher
  <2>1. made \in Nat /\ made' = made + 1 /\ made' \in Conn
    BY <1>8, TcpAssumption DEF NetConnect, Conn
  <2>2. /\ Len(backlog) \in Nat /\ Len(backlog') = Len(backlog) + 1
        /\ \A i \in 1..Len(backlog) : backlog'[i] = backlog[i]
        /\ backlog'[Len(backlog) + 1] = made'
    BY <1>8, <2>1, AddedLast, LenProperties DEF NetConnect
  <2>3. \A i \in 1..Len(backlog) : backlog[i] \in Conn
    BY ElementOfSeq
  <2>4. \A c \in Conn : c \in Nat
    BY DEF Conn
  <2>5. UNCHANGED <<server, got, stream, conns, fresh>>
    BY <1>8 DEF NetConnect, publisher, handlers
  <2>6. \A i \in 1..Len(backlog') : i \in 1..Len(backlog) \/ i = Len(backlog) + 1
    BY <2>2
  <2>7. \A i \in 1..Len(backlog) : backlog[i] <= made /\ server[backlog[i]] = "none"
    OBVIOUS
  <2>8. \A i \in 1..Len(backlog') : backlog'[i] <= made' /\ server'[backlog'[i]] = "none"
    <3> TAKE i \in 1..Len(backlog')
    <3>1. CASE i \in 1..Len(backlog)
      <4>1. backlog'[i] = backlog[i] /\ backlog[i] \in Nat
        BY <2>2, <2>3, <2>4, <3>1
      <4>. QED  BY <2>1, <2>5, <2>7, <3>1, <4>1
    <3>2. CASE i = Len(backlog) + 1
      BY <2>1, <2>2, <2>5, <3>2
    <3>. QED  BY <2>6, <3>1, <3>2
  <2>9. \A i, j \in 1..Len(backlog') : backlog'[i] = backlog'[j] => i = j
    <3>1. ASSUME NEW i \in 1..Len(backlog) PROVE backlog'[i] # made'
      <4>1. backlog'[i] = backlog[i] /\ backlog[i] \in Nat /\ backlog[i] <= made
        BY <2>2, <2>3, <2>4, <2>7
      <4>. QED  BY <2>1, <4>1
    <3>. QED  BY <2>2, <2>6, <3>1
  <2>. QED  BY <2>1, <2>4, <2>5, <2>8, <2>9
<1>9. ASSUME NEW c \in Conn, NetClientClose(c) \/ NetRead(c), UNCHANGED publisher
      PROVE  Unaccepted'
  <2>1. UNCHANGED <<backlog, made, server, conns, fresh>>
    BY <1>9 DEF NetClientClose, NetRead, publisher, handlers
  <2>2. \A d \in Conn : (d # c \/ server[c] = "none") =>
          (got[d] = <<>> => got'[d] = <<>>) /\ (stream[d] = <<>> => stream'[d] = <<>>)
    BY <1>9 DEF NetClientClose, NetRead
  <2>. QED  BY <2>1, <2>2
<1>10. CASE UNCHANGED tcp /\ UNCHANGED publisher
  BY <1>10 DEF tcp, publisher, handlers
<1>. QED
  BY <1>1, <1>2, <1>3, <1>4, <1>5, <1>6, <1>7, <1>8, <1>9, <1>10, FeedSteps
  DEF NetSteps

LEMMA LockedStep ==
  ASSUME TypeOK, Unaccepted, Locked, Registering, ReadConn, [Next]_vars
  PROVE  Locked' /\ Registering'
<1> USE DEF Locked, Registering, TypeOK, PublisherTypeOK, Goto
<1>1. CASE Still
  BY <1>1 DEF Still, tcp, sending
<1>2. ASSUME NEW s \in Senders, AddStore(s) PROVE Locked' /\ Registering'
  <2>1. sent'[s] = sent[s] + 1 /\ sent[s] \in Nat
    BY <1>2, TcpAssumption DEF AddStore
  <2>. QED  BY <1>2, <2>1 DEF AddStore, tcp, handlers
<1>3. ASSUME NEW s \in Senders, AddLock(s) \/ AddUnlock(s)
      PROVE  Locked' /\ Registering'
  BY <1>3, PublisherAssumption DEF AddLock, AddUnlock, handlers
<1>4. ASSUME NEW s \in Senders, AddTest(s) \/ AddWrite(s)
      PROVE  Locked' /\ Registering'
  <2>1. todo' \subseteq todo /\ UNCHANGED <<conns, connLock, sent, spc, fresh>>
    BY <1>4 DEF AddTest, AddWrite, handlers
  <2>2. /\ \A t \in Senders : t # s => apc'[t] = apc[t]
        /\ apc[s] \in {"test", "write"} /\ apc'[s] \in {"test", "write"}
    BY <1>4 DEF AddTest, AddWrite
  <2>. QED  BY <2>1, <2>2
<1>5. CASE RunAccept
  <2>1. Head(backlog) \in Conn /\ Head(backlog) = backlog[1] /\ 1 \in 1..Len(backlog)
    BY <1>5, WithoutFirst, LenProperties DEF RunAccept, TcpTypeOK
  <2>2. Head(backlog) \notin conns /\ Head(backlog) # 0
    BY <2>1 DEF Unaccepted, Conn
  <2>. QED  BY <1>5, <2>2 DEF RunAccept, sending
<1>6. CASE RunRegister
  <2>1. \A c \in Conn : c # 0
    BY DEF Conn
  <2>. QED  BY <1>6, <2>1 DEF RunRegister, sending
<1>7. CASE RunCleanup \/ RunCheck \/ (\E c \in Conn : RunRead(c)) \/ StopClear
  <2>1. /\ conns' \subseteq conns /\ (conns' = conns \/ connLock = Free)
        /\ UNCHANGED <<sending, spc, fresh>>
    BY <1>7 DEF RunCleanup, RunCheck, RunRead, StopClear, handlers
  <2>. QED  BY <2>1 DEF sending
<1>8. CASE UNCHANGED publisher
  BY <1>8 DEF publisher, sending, handlers
<1>. QED  BY <1>1, <1>2, <1>3, <1>4, <1>5, <1>6, <1>7, <1>8, FeedSteps

-----------------------------------------------------------------------------
(* The store and what was written, in the order of each sender.            *)
LEMMA StoredFields ==
  /\ \A m \in Stored : m \in Msg /\ m[2] <= sent[m[1]]
  /\ \A m \in Msg : m[2] <= sent[m[1]] => m \in Stored
BY DEF Stored

LEMMA StoreStep ==
  ASSUME TypeOK, NEW s \in Senders, AddStore(s)
  PROVE  LET m == <<s, sent[s] + 1>> IN
         /\ m \in Msg /\ m \in Stored' /\ m \notin Stored
         /\ Stored \subseteq Stored'
         /\ \A x \in Stored' : x \in Stored \/ x = m
         /\ messages' = messages \o <<m>>
<1> DEFINE m == <<s, sent[s] + 1>>
<1>1. sent[s] \in Nat /\ sent[s] + 1 \in 1..MaxMsg /\ sent'[s] = sent[s] + 1
      /\ \A t \in Senders : t # s => sent'[t] = sent[t]
  BY TcpAssumption DEF AddStore, TypeOK, PublisherTypeOK
<1>2. m \in Msg
  BY <1>1, MsgFields
<1>3. m \in Stored' /\ m \notin Stored
  BY <1>1, <1>2 DEF Stored
<1>4. Stored \subseteq Stored'
  <2> SUFFICES ASSUME NEW x \in Stored PROVE x \in Stored'
    OBVIOUS
  <2>1. x \in Msg /\ x[1] \in Senders /\ x[2] \in Nat /\ x[2] <= sent[x[1]]
    BY MsgFields, StoredFields
  <2>2. x[2] <= sent'[x[1]]
    BY <1>1, <2>1
  <2>. QED  BY <2>1, <2>2 DEF Stored
<1>5. ASSUME NEW x \in Stored', x \notin Stored PROVE x = m
  <2>1. x \in Msg /\ x[2] <= sent'[x[1]] /\ ~(x[2] <= sent[x[1]])
    BY <1>5 DEF Stored
  <2>2. x[1] \in Senders /\ x[2] \in 1..MaxMsg /\ x = <<x[1], x[2]>>
    BY <2>1, MsgFields
  <2>3. x[1] = s
    BY <1>1, <2>1, <2>2
  <2>4. x[2] = sent[s] + 1
    BY <1>1, <2>1, <2>2, <2>3
  <2>. QED  BY <2>2, <2>3, <2>4
<1>6. messages' = messages \o <<m>>
  <2>1. messages' = Append(messages, m)
    BY <1>1 DEF AddStore
  <2>2. messages \in Seq(Msg)
    BY DEF TypeOK, PublisherTypeOK
  <2>. QED  BY <1>2, <2>1, <2>2, AddedLast
<1>. QED  BY <1>2, <1>3, <1>4, <1>5, <1>6

LEMMA KeptStep ==
  ASSUME TypeOK, Kept, ReadConn, [Next]_vars
  PROVE  Kept'
<1> USE DEF TypeOK, PublisherTypeOK
<1>1. ASSUME UNCHANGED <<messages, sent>> PROVE Kept'
  BY <1>1 DEF Kept, Stored
<1>2. ASSUME NEW s \in Senders, AddStore(s) PROVE Kept'
  <2> DEFINE m == <<s, sent[s] + 1>>
  <2>1. /\ m \in Msg /\ m \in Stored' /\ Stored \subseteq Stored'
        /\ messages' = messages \o <<m>>
    BY <1>2, StoreStep
  <2>2. /\ Len(messages) \in Nat /\ Len(messages') = Len(messages) + 1
        /\ \A i \in 1..Len(messages) : messages'[i] = messages[i]
        /\ messages'[Len(messages) + 1] = m
    BY <2>1, AddedLast, LenProperties
  <2>3. \A i \in 1..Len(messages') : i \in 1..Len(messages) \/ i = Len(messages) + 1
    BY <2>2
  <2>4. ASSUME NEW i \in 1..Len(messages), messages[i][1] = s
        PROVE  messages[i][2] < sent[s] + 1
    <3>1. messages[i] \in Msg /\ messages[i][2] <= sent[s]
      BY <2>4, StoredFields DEF Kept
    <3>2. messages[i][2] \in Nat /\ sent[s] \in Nat
      BY <3>1, MsgFields, TcpAssumption
    <3>. QED  BY <3>1, <3>2
  <2>5. \A i \in 1..Len(messages') : messages'[i] \in Stored'
    BY <2>1, <2>2, <2>3 DEF Kept
  <2>6. ASSUME NEW i \in 1..Len(messages'), NEW j \in 1..Len(messages'),
               i < j, messages'[i][1] = messages'[j][1]
        PROVE  messages'[i][2] < messages'[j][2]
    <3>1. i \in 1..Len(messages)
      BY <2>2, <2>6
    <3>2. CASE j \in 1..Len(messages)
      BY <2>2, <2>6, <3>1, <3>2 DEF Kept
    <3>3. CASE j = Len(messages) + 1
      <4>1. messages'[j] = <<s, sent[s] + 1>> /\ messages'[i] = messages[i]
        BY <2>2, <3>1, <3>3
      <4>2. messages'[j][1] = s /\ messages'[j][2] = sent[s] + 1
        BY <4>1
      <4>3. messages[i][1] = s
        BY <2>6, <4>1, <4>2
      <4>. QED  BY <2>4, <3>1, <4>1, <4>2, <4>3
    <3>. QED  BY <2>3, <3>2, <3>3
  <2>. QED  BY <2>5, <2>6 DEF Kept
<1>3. CASE RunCheck
  <2>1. Keep \in Nat /\ Len(messages) \in Nat /\ Len(messages) > Keep
    BY <1>3, PublisherAssumption, LenProperties DEF RunCheck
  <2>2. /\ Len(messages') = Keep
        /\ \A i \in 1..Keep : messages'[i] = messages[Len(messages) - Keep + i]
    BY <1>3, <2>1, CheckedStore DEF RunCheck
  <2>3. \A i \in 1..Keep : Len(messages) - Keep + i \in 1..Len(messages)
    BY <2>1
  <2>4. Stored' = Stored
    BY <1>3 DEF RunCheck, sending, Stored
  <2>5. \A i, j \in 1..Keep : i < j => Len(messages) - Keep + i < Len(messages) - Keep + j
    BY <2>1
  <2>6. \A i \in 1..Len(messages') : messages'[i] \in Stored'
    BY <2>2, <2>3, <2>4 DEF Kept
  <2>7. ASSUME NEW i \in 1..Len(messages'), NEW j \in 1..Len(messages'),
               i < j, messages'[i][1] = messages'[j][1]
        PROVE  messages'[i][2] < messages'[j][2]
    <3> DEFINE k == Len(messages) - Keep + i
               l == Len(messages) - Keep + j
    <3>1. messages'[i] = messages[k] /\ messages'[j] = messages[l]
      BY <2>2, <2>7
    <3>2. k \in 1..Len(messages) /\ l \in 1..Len(messages) /\ k < l
      BY <2>2, <2>3, <2>5, <2>7
    <3> HIDE DEF k, l
    <3>. QED  BY <2>7, <3>1, <3>2 DEF Kept
  <2>. QED  BY <2>6, <2>7 DEF Kept
<1>4. ASSUME NEW s \in Senders, AddLock(s) \/ AddTest(s) \/ AddWrite(s) \/ AddUnlock(s)
      PROVE  UNCHANGED <<messages, sent>>
  BY <1>4 DEF AddLock, AddTest, AddWrite, AddUnlock
<1>5. CASE RunAccept \/ RunRegister \/ RunCleanup
           \/ (\E c \in Conn : RunRead(c)) \/ StopClear
  BY <1>1, <1>5 DEF RunAccept, RunRegister, RunCleanup, RunRead, StopClear, sending
<1>6. CASE Still \/ UNCHANGED publisher
  BY <1>1, <1>6 DEF Still, publisher, sending
<1>. QED  BY <1>1, <1>2, <1>3, <1>4, <1>5, <1>6, FeedSteps

(* What a write adds to a connection. *)
LEMMA WriteAdds ==
  ASSUME TypeOK, NEW c \in Conn, NEW msgs \in Seq(Msg), NetWrite(c, msgs)
  PROVE  /\ \A d \in Conn : d # c => got'[d] = got[d]
         /\ got'[c] = IF client[c] = "open" THEN got[c] \o msgs ELSE got[c]
BY DEF NetWrite, TypeOK, TcpTypeOK

LEMMA GotStep ==
  ASSUME TypeOK, Unaccepted, Locked, Kept, GotStored, GotOrder, ReadConn, [Next]_vars
  PROVE  GotStored' /\ GotOrder'
<1> USE DEF TypeOK, TcpTypeOK, PublisherTypeOK
<1>1. ASSUME Stored \subseteq Stored', \A c \in Conn : got'[c] = got[c] \/ got'[c] = <<>>
      PROVE  GotStored' /\ GotOrder'
  <2>1. Len(<<>>) = 0
    OBVIOUS
  <2>2. \A c \in Conn : \A i \in 1..Len(got'[c]) : got'[c] = got[c]
    BY <1>1, <2>1
  <2>. QED  BY <1>1, <2>2 DEF GotStored, GotOrder
<1>2. UNCHANGED sent => Stored' = Stored
  BY DEF Stored
<1>3. ASSUME NEW s \in Senders, AddStore(s) PROVE GotStored' /\ GotOrder'
  BY <1>1, <1>3, StoreStep DEF AddStore, tcp
<1>4. ASSUME NEW s \in Senders, AddWrite(s) PROVE GotStored' /\ GotOrder'
  <2> PICK c \in Conn : AddWrite(s)!2!(c)
    BY <1>4 DEF AddWrite
  <2> DEFINE m == <<s, sent[s]>>
  <2>1. Stored' = Stored
    BY <1>2, <1>4 DEF AddWrite
  <2>2. CASE server[c] # "open"
    BY <1>1, <2>1, <2>2 DEF tcp
  <2>3. CASE server[c] = "open"
    <3>1. sent[s] \in 1..MaxMsg
      BY <1>4, TcpAssumption DEF AddWrite, Locked
    <3>2. m \in Msg /\ m \in Stored /\ m[1] = s /\ m[2] = sent[s] /\ <<m>> \in Seq(Msg)
      BY <3>1, MsgFields DEF Stored
    <3>3. /\ \A d \in Conn : d # c => got'[d] = got[d]
          /\ got'[c] = IF client[c] = "open" THEN got[c] \o <<m>> ELSE got[c]
      BY <2>3, <3>2, WriteAdds
    <3>4. CASE client[c] # "open"
      BY <1>1, <2>1, <3>3, <3>4
    <3>5. CASE client[c] = "open"
      <4> DEFINE n == Len(got[c])
      <4>1. /\ n \in Nat /\ Len(got'[c]) = n + 1
            /\ \A i \in 1..n : got'[c][i] = got[c][i]
            /\ got'[c][n + 1] = m
        BY <3>2, <3>3, <3>5, AddedLast, LenProperties
      <4>2. \A i \in 1..Len(got'[c]) : i \in 1..n \/ i = n + 1
        BY <4>1
      <4>3. \A i \in 1..n : got[c][i] \in Stored
        BY DEF GotStored
      <4>4. \A i \in 1..n : got[c][i][1] = s => got[c][i][2] <= m[2]
        BY <3>2, <4>3, StoredFields
      <4> HIDE DEF m, n
      <4>5. \A i \in 1..Len(got'[c]) : got'[c][i] \in Stored'
        BY <2>1, <3>2, <4>1, <4>2, <4>3
      <4>6. ASSUME NEW i \in 1..Len(got'[c]), NEW j \in 1..Len(got'[c]),
                   i < j, got'[c][i][1] = got'[c][j][1]
            PROVE  got'[c][i][2] <= got'[c][j][2]
        <5>1. i \in 1..n
          BY <4>1, <4>6
        <5>2. CASE j \in 1..n
          BY <4>1, <4>6, <5>1, <5>2 DEF GotOrder, n
        <5>3. CASE j = n + 1
          BY <3>2, <4>1, <4>4, <4>6, <5>1, <5>3
        <5>. QED  BY <4>2, <5>2, <5>3
      <4>7. GotStored'
        BY <2>1, <3>3, <4>5 DEF GotStored
      <4>8. GotOrder'
        BY <3>3, <4>6 DEF GotOrder
      <4>. QED  BY <4>7, <4>8
    <3>. QED  BY <3>4, <3>5
  <2>. QED  BY <2>2, <2>3
<1>5. CASE RunAccept
  <2> DEFINE c == Head(backlog)
  <2>1. c \in Conn /\ got[c] = <<>>
    BY <1>5, WithoutFirst, LenProperties DEF RunAccept, Unaccepted
  <2>2. Stored' = Stored
    BY <1>2, <1>5 DEF RunAccept, sending
  <2>3. /\ \A d \in Conn : d # c => got'[d] = got[d]
        /\ got'[c] = IF client[c] = "open" THEN got[c] \o messages ELSE got[c]
    BY <1>5, <2>1, WriteAdds DEF RunAccept
  <2>4. got'[c] = messages \/ got'[c] = <<>>
    BY <2>1, <2>3, NothingBefore
  <2>5. \A i \in 1..Len(messages) : messages[i] \in Msg
    BY ElementOfSeq
  <2>6. \A i, j \in 1..Len(messages) :
          i < j /\ messages[i][1] = messages[j][1] => messages[i][2] <= messages[j][2]
    <3> TAKE i, j \in 1..Len(messages)
    <3>1. messages[i][2] \in Nat /\ messages[j][2] \in Nat
      BY <2>5, MsgFields, TcpAssumption
    <3>. QED  BY <3>1 DEF Kept
  <2>7. CASE got'[c] = <<>>
    BY <1>1, <2>2, <2>3, <2>7
  <2>8. CASE got'[c] = messages
    <3> HIDE DEF c
    <3>1. GotStored'
      BY <2>2, <2>3, <2>8 DEF GotStored, Kept
    <3>2. GotOrder'
      BY <2>3, <2>6, <2>8 DEF GotOrder
    <3>. QED  BY <3>1, <3>2
  <2>. QED  BY <2>4, <2>7, <2>8
<1>6. ASSUME NEW s \in Senders, AddLock(s) \/ AddTest(s) \/ AddUnlock(s)
      PROVE  GotStored' /\ GotOrder'
  <2>1. UNCHANGED <<got, sent>>
    BY <1>6 DEF AddLock, AddTest, AddUnlock, tcp
  <2>. QED  BY <1>1, <1>2, <2>1
<1>7. CASE RunRegister \/ RunCleanup \/ RunCheck
           \/ (\E c \in Conn : RunRead(c)) \/ StopClear \/ Still
  <2>1. UNCHANGED <<got, sent>>
    BY <1>7
    DEF RunRegister, RunCleanup, RunCheck, RunRead, StopClear, Still, tcp, sending
  <2>. QED  BY <1>1, <1>2, <2>1
<1>8. CASE NetSteps /\ UNCHANGED publisher
  <2>1. UNCHANGED sent
    BY <1>8 DEF publisher, sending
  <2>2. \A c \in Conn : got'[c] = got[c] \/ got'[c] = <<>>
    BY <1>8 DEF NetSteps, tcp, NetConnect, NetClientClose, NetRead
  <2>. QED  BY <1>1, <1>2, <2>1, <2>2
<1>. QED  BY <1>3, <1>4, <1>5, <1>6, <1>7, <1>8, FeedSteps

-----------------------------------------------------------------------------
(* The copies of a message. *)
CopiesIn(q, m) == Cardinality({i \in 1..Len(q) : q[i] = m})

LEMMA CopiesGot ==
  ASSUME NEW c, NEW m
  PROVE  Written(c, m) = CopiesIn(got[c], m) /\ Written(c, m)' = CopiesIn(got'[c], m)
BY DEF Written, CopiesIn

LEMMA CopiesFinite ==
  ASSUME NEW S, NEW q \in Seq(S), NEW m
  PROVE  IsFiniteSet({i \in 1..Len(q) : q[i] = m}) /\ CopiesIn(q, m) \in Nat
<1>1. Len(q) \in Nat
  BY LenProperties
<1>2. IsFiniteSet(1..Len(q))
  BY <1>1, FS_Interval
<1>3. IsFiniteSet({i \in 1..Len(q) : q[i] = m})
  BY <1>2, FS_Subset
<1>. QED  BY <1>3, FS_CardinalityType DEF CopiesIn

LEMMA NoCopies ==
  ASSUME NEW q, NEW m, \A i \in 1..Len(q) : q[i] # m
  PROVE  CopiesIn(q, m) = 0
<1>1. {i \in 1..Len(q) : q[i] = m} = {}
  OBVIOUS
<1>. QED  BY <1>1, FS_EmptySet DEF CopiesIn

LEMMA OneCopy ==
  ASSUME NEW q, NEW m,
         \A i, j \in 1..Len(q) : q[i] = m /\ q[j] = m => i = j
  PROVE  CopiesIn(q, m) \in {0, 1}
<1>1. CASE \A i \in 1..Len(q) : q[i] # m
  BY <1>1, NoCopies
<1>2. ASSUME NEW i \in 1..Len(q), q[i] = m PROVE CopiesIn(q, m) \in {0, 1}
  <2>1. {j \in 1..Len(q) : q[j] = m} = {i}
    BY <1>2
  <2>. QED  BY <2>1, FS_Singleton DEF CopiesIn
<1>. QED  BY <1>1, <1>2

LEMMA CopyAdded ==
  ASSUME NEW S, NEW q \in Seq(S), NEW x \in S, NEW m
  PROVE  CopiesIn(q \o <<x>>, m) = IF x = m THEN CopiesIn(q, m) + 1 ELSE CopiesIn(q, m)
<1> DEFINE A == {i \in 1..Len(q) : q[i] = m}
           B == {i \in 1..Len(q \o <<x>>) : (q \o <<x>>)[i] = m}
<1>1. /\ Len(q) \in Nat /\ Len(q \o <<x>>) = Len(q) + 1
      /\ \A i \in 1..Len(q) : (q \o <<x>>)[i] = q[i]
      /\ (q \o <<x>>)[Len(q) + 1] = x
  BY AddedLast, LenProperties
<1>2. \A i : i \in 1..Len(q \o <<x>>) <=> i \in 1..Len(q) \/ i = Len(q) + 1
  BY <1>1
<1>3. CASE x = m
  <2>1. B = A \cup {Len(q) + 1} /\ Len(q) + 1 \notin A
    BY <1>1, <1>2, <1>3
  <2>2. IsFiniteSet(A) /\ CopiesIn(q, m) = Cardinality(A)
    BY CopiesFinite DEF CopiesIn
  <2>3. Cardinality(A \cup {Len(q) + 1}) = Cardinality(A) + 1
    BY <2>1, <2>2, FS_AddElement
  <2>. QED  BY <1>3, <2>1, <2>2, <2>3 DEF CopiesIn
<1>4. CASE x # m
  <2>1. B = A
    BY <1>1, <1>2, <1>4
  <2>. QED  BY <1>4, <2>1 DEF CopiesIn
<1>. QED  BY <1>3, <1>4

-----------------------------------------------------------------------------
(* A step keeps the count of a connection when it writes nothing to it and *)
(* leaves what the calls have still to send.                               *)
SameCounts(c) ==
  /\ Serves(c) /\ got'[c] = got[c] /\ before'[c] = before[c]
  /\ \A m \in Stored : Awaits(c, m)' <=> Awaits(c, m)

LEMMA CountKept ==
  ASSUME Counted, Stored' = Stored, NEW c \in Conn, SameCounts(c)
  PROVE  \A m \in Stored' : (Written(c, m) \in Counts(c, m))'
BY DEF Counted, SameCounts, Written, Counts

LEMMA FreshKept ==
  ASSUME Counted, Stored' = Stored, fresh' = fresh,
         fresh # 0 => got'[fresh] = got[fresh] \/ got'[fresh] = <<>>
  PROVE  fresh' # 0 => \A m \in Stored' : Written(fresh, m)' \in {0, 1}
<1> SUFFICES ASSUME fresh # 0, NEW m \in Stored
             PROVE  Written(fresh, m)' \in {0, 1}
  OBVIOUS
<1>0. Written(fresh, m)' = CopiesIn(got'[fresh], m)
  BY DEF Written, CopiesIn
<1>1. CASE got'[fresh] = got[fresh]
  BY <1>0, <1>1, CopiesGot DEF Counted
<1>2. CASE got'[fresh] = <<>>
  BY <1>0, <1>2, NoCopies
<1>. QED  BY <1>1, <1>2

LEMMA CountedStore ==
  ASSUME OrderInv, Counted, NEW s \in Senders, AddStore(s)
  PROVE  Counted'
<1> DEFINE n == <<s, sent[s] + 1>>
<1>1. /\ n \in Msg /\ n \notin Stored /\ n[1] = s /\ n[2] = sent[s] + 1
      /\ Stored \subseteq Stored' /\ \A x \in Stored' : x \in Stored \/ x = n
  BY StoreStep DEF OrderInv
<1>2. /\ UNCHANGED <<conns, server, client, got, before, todo, fresh>>
      /\ apc[s] = "idle" /\ apc'[s] = "lock" /\ sent'[s] = sent[s] + 1
      /\ \A t \in Senders : t # s => apc'[t] = apc[t] /\ sent'[t] = sent[t]
  BY DEF AddStore, Goto, tcp, handlers, OrderInv, TypeOK, PublisherTypeOK
<1>3. ASSUME NEW c \in Conn PROVE CopiesIn(got[c], n) = 0
  BY <1>1, NoCopies DEF OrderInv, GotStored
<1>4. ASSUME NEW c \in Conn, NEW m \in Stored
      PROVE  Awaits(c, m)' <=> Awaits(c, m)
  <2>1. m[1] \in Senders /\ m[2] \in Nat /\ m[2] <= sent[m[1]] /\ sent[m[1]] \in Nat
    BY MsgFields, StoredFields, TcpAssumption DEF OrderInv, TypeOK, PublisherTypeOK
  <2>2. CASE m[1] = s
    <3>1. m[2] # sent'[s]
      BY <1>2, <2>1, <2>2
    <3>. QED  BY <1>2, <2>2, <3>1 DEF Awaits
  <2>3. CASE m[1] # s
    BY <1>2, <2>1, <2>3 DEF Awaits
  <2>. QED  BY <2>2, <2>3
<1> HIDE DEF n
<1>5. ASSUME NEW c \in Conn, NEW m \in Stored', m \notin Stored
      PROVE  Awaits(c, m)' /\ Written(c, m)' = 0
  <2>1. m = n
    BY <1>1, <1>5
  <2>2. m[1] = s /\ m[2] = sent'[s]
    BY <1>1, <1>2, <2>1
  <2>. QED  BY <1>2, <1>3, <2>1, <2>2, CopiesGot DEF Awaits
<1>6. ASSUME NEW c \in Conn, Serves(c)', NEW m \in Stored'
      PROVE  (Written(c, m) \in Counts(c, m))'
  <2>1. Serves(c)
    BY <1>2, <1>6 DEF Serves
  <2>2. CASE m \in Stored
    BY <1>2, <1>4, <2>1, <2>2 DEF Counted, Written, Counts
  <2>3. CASE m \notin Stored
    BY <1>5, <2>3 DEF Counts
  <2>. QED  BY <2>2, <2>3
<1>7. ASSUME fresh' # 0, NEW m \in Stored' PROVE Written(fresh, m)' \in {0, 1}
  <2>1. fresh \in Conn
    BY <1>2, <1>7 DEF OrderInv, TypeOK, PublisherTypeOK
  <2>2. CASE m \in Stored
    BY <1>2, <1>7, <2>2 DEF Counted, Written
  <2>3. CASE m \notin Stored
    BY <1>2, <1>3, <2>1, <2>3, <1>1 DEF Written, CopiesIn
  <2>. QED  BY <2>2, <2>3
<1>. QED  BY <1>6, <1>7 DEF Counted

LEMMA CountedWrite ==
  ASSUME OrderInv, Counted, NEW s \in Senders, AddWrite(s)
  PROVE  Counted'
<1> USE DEF OrderInv
<1> PICK c \in Conn : AddWrite(s)!2!(c)
  BY DEF AddWrite
<1>1. /\ UNCHANGED <<conns, sent, fresh>> /\ Stored' = Stored
  BY DEF AddWrite, handlers, Stored
<1>2. CASE server[c] # "open"
  BY <1>1, <1>2 DEF tcp, Counted, Serves, Written, Counts, Awaits
<1>3. CASE server[c] = "open"
  <2> DEFINE n == <<s, sent[s]>>
  <2>1. n \in Msg /\ n \in Stored /\ <<n>> \in Seq(Msg) /\ n[1] = s /\ n[2] = sent[s]
    <3>1. sent[s] \in 1..MaxMsg
      BY TcpAssumption DEF AddWrite, Locked, TypeOK, PublisherTypeOK
    <3>. QED  BY <3>1, MsgFields DEF Stored
  <2>2. /\ \A d \in Conn : d # c => got'[d] = got[d]
        /\ got'[c] = IF client[c] = "open" THEN got[c] \o <<n>> ELSE got[c]
    BY <1>3, <2>1, WriteAdds
  <2>3. /\ UNCHANGED <<server, client, before>>
        /\ apc[s] = "write" /\ apc'[s] = "test" /\ todo' = todo \ {c} /\ c \in todo
        /\ \A t \in Senders : t # s => apc'[t] = apc[t]
    BY <1>3 DEF AddWrite, Goto, IsNext, TypeOK, PublisherTypeOK
  <2>4. \A t \in Senders : t # s => apc[t] \notin {"test", "write"}
    BY <2>3 DEF Locked
  <2>5. ASSUME NEW d \in Conn, NEW m \in Stored, d # c \/ m # n
        PROVE  Awaits(d, m)' <=> Awaits(d, m)
    <3>1. m[1] \in Senders /\ m = <<m[1], m[2]>>
      BY MsgFields, StoredFields
    <3>2. CASE m[1] # s
      BY <1>1, <2>3, <2>4, <3>1, <3>2 DEF Awaits
    <3>3. CASE m[1] = s /\ m[2] # sent[s]
      BY <1>1, <3>3 DEF Awaits
    <3>4. CASE m[1] = s /\ m[2] = sent[s]
      BY <1>1, <2>3, <2>5, <3>1, <3>4 DEF Awaits
    <3>. QED  BY <3>2, <3>3, <3>4
  <2> HIDE DEF n
  <2>6. \A m \in Stored : m = n => Awaits(c, m) /\ ~Awaits(c, m)'
    BY <1>1, <2>1, <2>3 DEF Awaits
  <2>7. ASSUME NEW d \in Conn, Serves(d)', NEW m \in Stored'
        PROVE  (Written(d, m) \in Counts(d, m))'
    <3>1. Serves(d) /\ (d = c => client[c] = "open")
      BY <1>1, <2>3, <2>7 DEF Serves
    <3>2. CASE d # c
      BY <1>1, <2>2, <2>3, <2>5, <3>1, <3>2 DEF Counted, Written, Counts
    <3>3. CASE d = c
      <4>1. Written(c, m)' = IF n = m THEN Written(c, m) + 1 ELSE Written(c, m)
        <5>1. CopiesIn(got[c] \o <<n>>, m)
                = IF n = m THEN CopiesIn(got[c], m) + 1 ELSE CopiesIn(got[c], m)
          BY <2>1, CopyAdded DEF TypeOK, TcpTypeOK
        <5>2. got'[c] = got[c] \o <<n>>
          BY <2>2, <3>1, <3>3
        <5>. QED  BY <5>1, <5>2, CopiesGot
      <4>2. Written(c, m) \in Counts(c, m)
        BY <1>1, <3>1, <3>3 DEF Counted
      <4>3. CASE m # n
        BY <1>1, <2>3, <2>5, <3>3, <4>1, <4>2, <4>3 DEF Counts
      <4>4. CASE m = n
        <5>1. Awaits(c, m) /\ ~Awaits(c, m)' /\ before'[c] = before[c]
          BY <1>1, <2>3, <2>6, <4>4
        <5>. QED  BY <3>3, <4>1, <4>2, <4>4, <5>1 DEF Counts
      <4>. QED  BY <4>3, <4>4
    <3>. QED  BY <3>2, <3>3
  <2>8. fresh # 0 => got'[fresh] = got[fresh]
    <3>1. fresh # c
      BY <2>3 DEF Locked, Registering
    <3>. QED  BY <2>2, <3>1 DEF TypeOK, PublisherTypeOK
  <2>9. fresh' # 0 => \A m \in Stored' : Written(fresh, m)' \in {0, 1}
    BY <1>1, <2>8, FreshKept
  <2>. QED  BY <2>7, <2>9 DEF Counted
<1>. QED  BY <1>2, <1>3

LEMMA CountedLoop ==
  ASSUME OrderInv, Counted, NEW s \in Senders, AddLock(s) \/ AddTest(s) \/ AddUnlock(s)
  PROVE  Counted'
<1> USE DEF OrderInv
<1>1. /\ UNCHANGED <<tcp, conns, sent, fresh>> /\ Stored' = Stored
      /\ \A t \in Senders : t # s => apc'[t] = apc[t]
  BY DEF AddLock, AddTest, AddUnlock, Goto, handlers, Stored, TypeOK, PublisherTypeOK
<1>2. \A t \in Senders : t # s => apc[t] \notin {"test", "write"}
  BY PublisherAssumption DEF AddLock, AddTest, AddUnlock, Locked
<1>3. ASSUME NEW c \in Conn, Serves(c), NEW m \in Stored
      PROVE  Awaits(c, m)' <=> Awaits(c, m)
  <2>1. m[1] \in Senders
    BY MsgFields, StoredFields
  <2>2. CASE m[1] # s
    <3>1. apc'[m[1]] = apc[m[1]] /\ apc[m[1]] \notin {"test", "write"}
      BY <1>1, <1>2, <2>1, <2>2
    <3>. QED  BY <1>1, <3>1 DEF Awaits
  <2>3. CASE m[1] = s /\ AddLock(s)
    <3>1. apc[s] = "lock" /\ apc'[s] = "test" /\ c \in todo'
      BY <1>3, <2>3 DEF AddLock, Goto, Serves, TypeOK, PublisherTypeOK
    <3>. QED  BY <1>1, <2>3, <3>1 DEF Awaits
  <2>4. CASE m[1] = s /\ AddTest(s)
    <3>1. apc[s] = "test" /\ apc'[s] \in {"test", "write"}
      BY <2>4 DEF AddTest, Goto, TypeOK, PublisherTypeOK
    <3>2. c \in todo' <=> c \in todo
      BY <1>3, <2>4 DEF AddTest, Serves
    <3>. QED  BY <1>1, <2>4, <3>1, <3>2 DEF Awaits
  <2>5. CASE m[1] = s /\ AddUnlock(s)
    <3>1. apc[s] = "test" /\ apc'[s] = "idle" /\ todo = {}
      BY <2>5 DEF AddUnlock, Goto, TypeOK, PublisherTypeOK
    <3>. QED  BY <2>5, <3>1 DEF Awaits
  <2>. QED  BY <2>2, <2>3, <2>4, <2>5
<1>4. ASSUME NEW c \in Conn, Serves(c)' PROVE SameCounts(c)
  BY <1>1, <1>3, <1>4 DEF SameCounts, Serves, tcp
<1>5. fresh' # 0 => \A m \in Stored' : Written(fresh, m)' \in {0, 1}
  BY <1>1, FreshKept DEF tcp
<1>. QED  BY <1>1, <1>4, <1>5, CountKept DEF Counted

LEMMA CountedServer ==
  ASSUME OrderInv, Counted,
         \/ RunAccept \/ RunRegister \/ RunCleanup \/ RunCheck
         \/ (\E c \in Conn : RunRead(c)) \/ StopClear
  PROVE  Counted'
<1> USE DEF OrderInv
<1>1. UNCHANGED sending /\ Stored' = Stored
  BY DEF RunAccept, RunRegister, RunCleanup, RunCheck, RunRead, StopClear, sending,
     Stored
<1>2. \A c, m : Awaits(c, m)' <=> Awaits(c, m)
  BY <1>1 DEF Awaits, sending
<1>3. CASE RunAccept
  <2> PICK c \in Conn : c = Head(backlog)
    BY <1>3, WithoutFirst DEF RunAccept, TypeOK, TcpTypeOK
  <2>1. server[c] = "none"
    BY <1>3, WithoutFirst, LenProperties
    DEF RunAccept, Unaccepted, TypeOK, TcpTypeOK
  <2>2. got[c] = <<>> /\ c \notin conns
    BY <2>1 DEF Unaccepted
  <2>3. /\ \A d \in Conn : d # c => got'[d] = got[d]
        /\ got'[c] = IF client[c] = "open" THEN got[c] \o messages ELSE got[c]
    BY <1>3, <2>1, WriteAdds DEF RunAccept, TypeOK, PublisherTypeOK
  <2>4. got'[c] = messages \/ got'[c] = <<>>
    BY <2>2, <2>3, NothingBefore DEF TypeOK, PublisherTypeOK
  <2>5. /\ UNCHANGED <<conns, client, before>> /\ fresh' = c
        /\ \A d \in Conn : d # c => server'[d] = server[d]
    BY <1>3, <2>1 DEF RunAccept, TypeOK, TcpTypeOK
  <2>6. ASSUME NEW d \in Conn, Serves(d)' PROVE SameCounts(d)
    <3>1. d # c
      BY <2>2, <2>5, <2>6 DEF Serves
    <3>. QED  BY <1>2, <2>3, <2>5, <2>6, <3>1 DEF SameCounts, Serves
  <2>7. ASSUME NEW m PROVE Written(c, m)' \in {0, 1}
    <3>1. \A i, j \in 1..Len(messages) : messages[i] = m /\ messages[j] = m => i = j
      <4> SUFFICES ASSUME NEW i \in 1..Len(messages), NEW j \in 1..Len(messages),
                          messages[i] = m, messages[j] = m
                   PROVE  i = j
        OBVIOUS
      <4>1. m[2] \in Nat
        BY ElementOfSeq, MsgFields, TcpAssumption DEF TypeOK, PublisherTypeOK
      <4>2. ~(m[2] < m[2])
        BY <4>1
      <4>3. ~(i < j) /\ ~(j < i)
        BY <4>2 DEF Kept
      <4>. QED  BY <4>3
    <3>2. CASE got'[c] = messages
      BY <3>1, <3>2, OneCopy, CopiesGot
    <3>3. CASE got'[c] = <<>>
      BY <3>3, NoCopies, CopiesGot
    <3>. QED  BY <2>4, <3>2, <3>3
  <2>8. \A m \in Stored' : Written(fresh, m)' \in {0, 1}
    BY <2>5, <2>7 DEF Written
  <2>. QED  BY <1>1, <2>6, <2>8, CountKept DEF Counted
<1>4. CASE RunRegister
  <2>1. /\ fresh \in Conn /\ fresh' = 0 /\ conns' = conns \cup {fresh}
        /\ UNCHANGED <<server, client, got>>
        /\ \A d \in Conn : d # fresh => before'[d] = before[d]
        /\ (client[fresh] = "open" => before'[fresh] = Stored)
    BY <1>4 DEF RunRegister, Registering, TypeOK, TcpTypeOK, PublisherTypeOK
  <2>2. ASSUME NEW d \in Conn, Serves(d)', NEW m \in Stored'
        PROVE  (Written(d, m) \in Counts(d, m))'
    <3>1. CASE d # fresh
      <4>1. SameCounts(d)
        BY <1>2, <2>1, <2>2, <3>1 DEF SameCounts, Serves
      <4>. QED  BY <1>1, <4>1, CountKept
    <3>2. CASE d = fresh
      <4>1. m \in before'[d] /\ m \in Stored
        <5>1. client'[d] = "open"
          BY <2>2 DEF Serves
        <5>. QED  BY <1>1, <2>1, <3>2, <5>1
      <4>2. Written(d, m) \in {0, 1} /\ Written(d, m)' = Written(d, m)
        <5>1. fresh # 0
          BY <2>1 DEF Conn
        <5>. QED  BY <2>1, <3>2, <4>1, <5>1, CopiesGot DEF Counted
      <4>. QED  BY <4>1, <4>2 DEF Counts
    <3>. QED  BY <3>1, <3>2
  <2>. QED  BY <2>1, <2>2 DEF Counted
<1>5. CASE RunCleanup \/ RunCheck \/ (\E c \in Conn : RunRead(c)) \/ StopClear
  <2>1. /\ UNCHANGED <<client, got, before, fresh>>
        /\ conns' \subseteq conns
        /\ \A d \in Conn : server'[d] = "open" => server[d] = "open"
    BY <1>5
    DEF RunCleanup, RunCheck, RunRead, StopClear, tcp, handlers, TypeOK, TcpTypeOK
  <2>2. ASSUME NEW d \in Conn, Serves(d)' PROVE SameCounts(d)
    BY <1>2, <2>1, <2>2 DEF SameCounts, Serves
  <2>. QED  BY <1>1, <2>1, <2>2, CountKept, FreshKept DEF Counted
<1>. QED  BY <1>3, <1>4, <1>5

LEMMA CountedNet ==
  ASSUME OrderInv, Counted, Still \/ (NetSteps /\ UNCHANGED publisher)
  PROVE  Counted'
<1> USE DEF OrderInv
<1>1. UNCHANGED <<conns, sending, fresh>> /\ Stored' = Stored
  BY DEF Still, publisher, handlers, sending, Stored
<1>2. \A c, m : Awaits(c, m)' <=> Awaits(c, m)
  BY <1>1 DEF Awaits, sending
<1>3. CASE UNCHANGED tcp
  <2>1. \A d \in Conn : Serves(d)' => SameCounts(d)
    BY <1>1, <1>2, <1>3 DEF SameCounts, Serves, tcp
  <2>. QED  BY <1>1, <1>3, <2>1, CountKept, FreshKept DEF Counted, tcp
<1>4. CASE NetConnect
  <2>1. made' \in Conn /\ made' > made
    BY <1>4, TcpAssumption DEF NetConnect, TypeOK, TcpTypeOK, Conn
  <2>2. server[made'] = "none" /\ UNCHANGED <<server, got, before>>
    BY <1>4, <2>1 DEF NetConnect, Unaccepted
  <2>3. \A d \in Conn : d # made' => client'[d] = client[d]
    BY <1>4 DEF NetConnect, TypeOK, TcpTypeOK
  <2>4. \A d \in Conn : Serves(d)' => SameCounts(d)
    BY <1>1, <1>2, <2>2, <2>3 DEF SameCounts, Serves
  <2>. QED  BY <1>1, <2>2, <2>4, CountKept, FreshKept DEF Counted
<1>5. ASSUME NEW c \in Conn, NetClientClose(c) PROVE Counted'
  <2>1. /\ UNCHANGED server /\ client'[c] = "closed" /\ got'[c] = <<>>
        /\ \A d \in Conn : d # c => /\ got'[d] = got[d] /\ before'[d] = before[d]
                                    /\ client'[d] = client[d]
    BY <1>5 DEF NetClientClose, TypeOK, TcpTypeOK
  <2>2. \A d \in Conn : Serves(d)' => SameCounts(d)
    BY <1>1, <1>2, <2>1 DEF SameCounts, Serves
  <2>3. fresh # 0 => got'[fresh] = got[fresh] \/ got'[fresh] = <<>>
    BY <2>1 DEF TypeOK, PublisherTypeOK
  <2>. QED  BY <1>1, <2>2, <2>3, CountKept, FreshKept DEF Counted
<1>6. ASSUME NEW c \in Conn, NetRead(c) PROVE Counted'
  <2>1. \A d \in Conn : Serves(d)' => SameCounts(d)
    BY <1>1, <1>2, <1>6 DEF SameCounts, Serves, NetRead
  <2>. QED  BY <1>1, <1>6, <2>1, CountKept, FreshKept DEF Counted, NetRead
<1>. QED  BY <1>3, <1>4, <1>5, <1>6 DEF NetSteps, Still

(* The invariant of what goes over a connection. *)
LEMMA DeliveryInvariance == Spec => [](DeliveryInv /\ ReadConn)
<1>1. Init => DeliveryInv /\ ReadConn
  <2> SUFFICES ASSUME Init PROVE DeliveryInv /\ ReadConn
    OBVIOUS
  <2> USE DEF Init, TcpInit, PublisherInit, SubscriberInit
  <2>1. TypeOK
    <3>1. 0 \in 0..MaxConn /\ 0 \in 0..MaxMsg
      BY TcpAssumption
    <3>2. <<>> \in Seq(Conn) /\ <<>> \in Seq(Msg)
      OBVIOUS
    <3>3. TcpTypeOK
      BY <3>1, <3>2 DEF TcpTypeOK
    <3>4. PublisherTypeOK
      BY <3>1, <3>2 DEF PublisherTypeOK
    <3>5. SubscriberTypeOK
      BY <3>2 DEF SubscriberTypeOK
    <3>. QED  BY <3>3, <3>4, <3>5 DEF TypeOK
  <2>2. Unaccepted
    <3>1. Len(backlog) = 0 /\ \A c \in Conn : c # 0
      BY DEF Conn
    <3>. QED  BY <3>1 DEF Unaccepted
  <2>3. Locked /\ Registering /\ ReadConn
    BY PublisherAssumption DEF Locked, Registering, ReadConn
  <2>4. Kept /\ GotStored /\ GotOrder
    BY DEF Kept, GotStored, GotOrder
  <2>5. Counted
    BY DEF Counted, Serves
  <2>. QED  BY <2>1, <2>2, <2>3, <2>4, <2>5 DEF DeliveryInv, OrderInv
<1>2. DeliveryInv /\ ReadConn /\ [Next]_vars => (DeliveryInv /\ ReadConn)'
  <2> SUFFICES ASSUME DeliveryInv, ReadConn, [Next]_vars
               PROVE  (DeliveryInv /\ ReadConn)'
    OBVIOUS
  <2> USE DEF DeliveryInv
  <2>1. OrderInv'
    BY FeedTypes, UnacceptedStep, LockedStep, KeptStep, GotStep DEF OrderInv
  <2>2. Counted'
    BY CountedStore, CountedWrite, CountedLoop, CountedServer, CountedNet, FeedSteps
    DEF OrderInv
  <2>3. ReadConn'
    BY FeedSteps DEF OrderInv
  <2>. QED  BY <2>1, <2>2, <2>3
<1>. QED  BY <1>1, <1>2, PTL DEF Spec

-----------------------------------------------------------------------------
(***************************************************************************)
(* What comes to the subscriber.                                           *)
(***************************************************************************)

(* What was written to a connection is what the subscriber has put into    *)
(* its queue, which is there while the worker is, and what is on its way.  *)
ReceivedInv ==
  /\ \A c \in Conn : client[c] = "open" => got[c] = rcvd \o stream[c]
  /\ \A c \in Conn : client[c] = "closed" => stream[c] = <<>>
  /\ NoneOpen => rcvd = <<>>
  /\ upc \notin {"none", "gone"} => queue

LEMMA ReceivedKept ==
  ASSUME ReceivedInv, UNCHANGED <<client, stream, got, rcvd>>,
         upc' \notin {"none", "gone"} => queue'
  PROVE  ReceivedInv'
BY DEF ReceivedInv, NoneOpen

LEMMA JoinedLast ==
  ASSUME NEW p \in Seq(Msg), NEW q \in Seq(Msg), NEW r \in Seq(Msg)
  PROVE  (p \o q) \o r = p \o (q \o r)
BY ConcatAssociative

(* The publisher writes to the end of what is on its way. *)
LEMMA ReceivedWrite ==
  ASSUME TypeOK, ReceivedInv, NEW c \in Conn, NEW msgs \in Seq(Msg),
         NetWrite(c, msgs), UNCHANGED client, UNCHANGED subscriber
  PROVE  ReceivedInv'
<1>1. UNCHANGED <<upc, queue, rcvd>>
  BY DEF subscriber
<1>2. CASE client[c] # "open"
  BY <1>1, <1>2, ReceivedKept DEF NetWrite, ReceivedInv
<1>3. CASE client[c] = "open"
  <2>1. stream[c] \in Seq(Msg) /\ rcvd \in Seq(Msg)
    BY DEF TypeOK, TcpTypeOK, SubscriberTypeOK
  <2>2. (rcvd \o stream[c]) \o msgs = rcvd \o (stream[c] \o msgs)
    BY <2>1, JoinedLast
  <2>3. /\ stream'[c] = stream[c] \o msgs /\ got'[c] = got[c] \o msgs
        /\ \A d \in Conn : d # c => stream'[d] = stream[d] /\ got'[d] = got[d]
    BY <1>3 DEF NetWrite, TypeOK, TcpTypeOK
  <2>4. got'[c] = rcvd' \o stream'[c]
    BY <1>1, <1>3, <2>2, <2>3 DEF ReceivedInv
  <2>5. \A d \in Conn : client'[d] = "open" => got'[d] = rcvd' \o stream'[d]
    BY <1>1, <2>3, <2>4 DEF ReceivedInv
  <2>6. \A d \in Conn : client'[d] = "closed" => stream'[d] = <<>>
    BY <1>3, <2>3 DEF ReceivedInv
  <2>. QED  BY <1>1, <2>5, <2>6 DEF ReceivedInv, NoneOpen
<1>. QED  BY <1>2, <1>3

LEMMA ReceivedPublisher ==
  ASSUME TypeOK, Locked, ReceivedInv, Next, UNCHANGED subscriber, UNCHANGED client,
         ~(\/ Subscribing(Worker) \/ Subscribing(ReadBroken)
           \/ Subscribing(Start) \/ Subscribing(StopFlag)
           \/ Subscribing(Stop) \/ Subscribing(Destroy))
  PROVE  ReceivedInv'
<1>1. UNCHANGED <<stream, got>> => ReceivedInv'
  BY ReceivedKept DEF ReceivedInv, subscriber
<1>2. ASSUME NEW s \in Senders, Publishing(AddStore(s) \/ AddMsg(s))
      PROVE  ReceivedInv'
  <2>1. CASE AddStore(s) \/ AddLock(s) \/ AddTest(s) \/ AddUnlock(s)
    BY <1>1, <2>1 DEF AddStore, AddLock, AddTest, AddUnlock, tcp
  <2>2. CASE AddWrite(s)
    <3> PICK c \in Conn : AddWrite(s)!2!(c)
      BY <2>2 DEF AddWrite
    <3>1. CASE server[c] # "open"
      BY <1>1, <3>1 DEF tcp
    <3>2. CASE server[c] = "open"
      <4>1. <<<<s, sent[s]>>>> \in Seq(Msg)
        BY <2>2, MsgFields, TcpAssumption
        DEF AddWrite, Locked, TypeOK, PublisherTypeOK
      <4>. QED  BY <3>2, <4>1, ReceivedWrite
    <3>. QED  BY <3>1, <3>2
  <2>. QED  BY <1>2, <2>1, <2>2 DEF Publishing, AddMsg
<1>3. CASE Publishing(RunAccept)
  <2>1. RunAccept
    BY <1>3 DEF Publishing
  <2>2. Head(backlog) \in Conn /\ messages \in Seq(Msg)
    BY <2>1, WithoutFirst DEF RunAccept, TypeOK, TcpTypeOK, PublisherTypeOK
  <2>. QED  BY <2>1, <2>2, ReceivedWrite DEF RunAccept
<1>4. CASE Publishing(RunRegister) \/ Publishing(RunAcceptError)
           \/ Publishing(RunCleanup) \/ Publishing(RunCheck) \/ Publishing(RunEnd)
  BY <1>1, <1>4 DEF Publishing, RunRegister, RunAcceptError, RunCleanup,
     RunCheck, RunEnd, tcp
<1>5. CASE \E c \in Conn : Publishing(RunRead(c))
  BY <1>1, <1>5 DEF Publishing, RunRead
<1>6. CASE Publishing(StopClear) \/ Publishing(StopContext)
           \/ Publishing(StopJoin)
  BY <1>1, <1>6 DEF Publishing, StopClear, StopContext, StopJoin, tcp
<1>. QED  BY <1>2, <1>3, <1>4, <1>5, <1>6 DEF Next

(* A close ends what came over the connection; the next one starts anew. *)
LEMMA ReceivedClose ==
  ASSUME TypeOK, FeedInv, ReceivedInv, Close,
         upc' \notin {"none", "gone"} => queue'
  PROVE  ReceivedInv'
<1>1. \A c \in Conn : client'[c] # "open"
  BY CloseEnds DEF FeedInv
<1>2. rcvd' = <<>>
  BY DEF Close
<1>3. \A c \in Conn : client'[c] = "closed" => stream'[c] = <<>>
  <2>1. CASE sock /\ conn # 0
    <3>1. conn \in Conn /\ NetClientClose(conn)
      BY <2>1 DEF TypeOK, SubscriberTypeOK, Close
    <3>2. \A c \in Conn : c # conn => client'[c] = client[c] /\ stream'[c] = stream[c]
      BY <3>1 DEF NetClientClose, TypeOK, TcpTypeOK
    <3>3. stream'[conn] = <<>>
      BY <3>1 DEF NetClientClose, TypeOK, TcpTypeOK
    <3>. QED  BY <3>2, <3>3 DEF ReceivedInv
  <2>2. CASE ~(sock /\ conn # 0)
    BY <2>2 DEF Close, tcp, ReceivedInv
  <2>. QED  BY <2>1, <2>2
<1>. QED  BY <1>1, <1>2, <1>3 DEF ReceivedInv

LEMMA ReceivedConnected ==
  ASSUME TypeOK, FeedInv, Unaccepted, ReceivedInv, Connected
  PROVE  ReceivedInv'
<1>1. made' \in Conn /\ made' > made
  BY TcpAssumption DEF Connected, NetConnect, TypeOK, TcpTypeOK, Conn
<1>2. got[made'] = <<>> /\ stream[made'] = <<>>
  BY <1>1 DEF Unaccepted
<1>3. NoneOpen
  <2>1. \A c \in Conn : c # 0
    BY DEF Conn
  <2>. QED  BY <2>1 DEF Connected, WorkerAt, FeedInv, SocketInv, NoneOpen
<1>4. UNCHANGED <<stream, got, rcvd, queue>> /\ rcvd = <<>>
  BY <1>3 DEF Connected, NetConnect, ReceivedInv
<1>5. client'[made'] = "open" /\ \A c \in Conn : c # made' => client'[c] = client[c]
  BY <1>1 DEF Connected, NetConnect, TypeOK, TcpTypeOK
<1>6. \A c \in Conn : client'[c] = "open" => got'[c] = rcvd' \o stream'[c]
  <2>1. <<>> \o <<>> = <<>>
    OBVIOUS
  <2>2. got'[made'] = rcvd' \o stream'[made']
    BY <1>1, <1>2, <1>4, <2>1
  <2>. QED  BY <1>3, <1>5, <2>2 DEF NoneOpen
<1>7. queue
  BY DEF Connected, WorkerAt, ReceivedInv
<1>. QED  BY <1>1, <1>4, <1>5, <1>6, <1>7 DEF ReceivedInv, NoneOpen

(* A message goes from the connection to the queue. *)
LEMMA MovesOne ==
  ASSUME NEW S, NEW p \in Seq(S), NEW q \in Seq(S), q # <<>>
  PROVE  Append(p, Head(q)) \o Tail(q) = p \o q
<1>1. /\ Tail(q) \in Seq(S) /\ Head(q) \in S /\ <<Head(q)>> \in Seq(S)
      /\ <<Head(q)>> \o Tail(q) = q
  BY WithoutFirst, HeadTailProperties
<1>2. Append(p, Head(q)) = p \o <<Head(q)>>
  BY <1>1, AppendIsConcat
<1>3. (p \o <<Head(q)>>) \o Tail(q) = p \o (<<Head(q)>> \o Tail(q))
  BY <1>1, ConcatAssociative
<1>. QED  BY <1>1, <1>2, <1>3

LEMMA ReceivedRead ==
  ASSUME TypeOK, FeedInv, ReadConn, ReceivedInv, ReadMessage
  PROVE  ReceivedInv'
<1>1. conn \in Conn /\ queue /\ stream[conn] # <<>>
  BY DEF ReadMessage, WorkerAt, ReadConn, ReceivedInv, NetRead
<1>2. client[conn] = "open"
  BY <1>1 DEF ReceivedInv, TypeOK, TcpTypeOK
<1>3. \A c \in Conn : client[c] = "open" => c = conn
  BY DEF FeedInv, SocketInv
<1>4. /\ rcvd' = Append(rcvd, Head(stream[conn]))
      /\ stream'[conn] = Tail(stream[conn])
      /\ \A c \in Conn : c # conn => stream'[c] = stream[c]
      /\ UNCHANGED <<client, got, upc, queue>>
  BY <1>1 DEF ReadMessage, NetRead, TypeOK, TcpTypeOK
<1>5. stream[conn] \in Seq(Msg) /\ rcvd \in Seq(Msg)
  BY <1>1 DEF TypeOK, TcpTypeOK, SubscriberTypeOK
<1>6. rcvd' \o stream'[conn] = rcvd \o stream[conn]
  BY <1>1, <1>4, <1>5, MovesOne
<1>7. \A c \in Conn : client'[c] = "open" => got'[c] = rcvd' \o stream'[c]
  BY <1>1, <1>2, <1>3, <1>4, <1>6 DEF ReceivedInv
<1>8. \A c \in Conn : client'[c] = "closed" => stream'[c] = <<>>
  BY <1>1, <1>2, <1>4 DEF ReceivedInv
<1>. QED  BY <1>1, <1>2, <1>4, <1>7, <1>8 DEF ReceivedInv, NoneOpen

LEMMA ReceivedSubscriber ==
  ASSUME TypeOK, FeedInv, Unaccepted, ReadConn, ReceivedInv,
         \/ Worker \/ ReadBroken \/ Start \/ StopFlag \/ Stop \/ Destroy
  PROVE  ReceivedInv'
<1> USE DEF WorkerAt
<1>1. upc \notin {"none", "gone"} => queue
  BY DEF ReceivedInv
<1>2. DoConnect /\ queue => ReceivedInv'
  BY ReceivedKept DEF DoConnect, tcp
<1>3. DoRetryWait /\ queue => ReceivedInv'
  BY ReceivedClose DEF DoRetryWait
<1>4. CASE LookupDone \/ LookupFailed \/ ConnectFailed \/ ReadFailed \/ ReadBroken
  BY <1>1, <1>2, <1>3, <1>4
  DEF LookupDone, LookupFailed, ConnectFailed, ReadFailed, ReadBroken
<1>5. CASE ConnectDone \/ ReadAfterClose \/ RetryTimer \/ WorkerEnd
  BY <1>1, <1>5, ReceivedKept
  DEF ConnectDone, ReadAfterClose, RetryTimer, WorkerEnd, tcp
<1>6. CASE Start \/ StopFlag \/ StopSubContext \/ StopSubJoin
  BY <1>1, <1>6, ReceivedKept
  DEF Start, StopFlag, StopSubContext, StopSubJoin, tcp
<1>7. CASE StopClose \/ Destroy
  BY <1>1, <1>7, ReceivedClose DEF StopClose, Destroy
<1>. QED
  BY <1>4, <1>5, <1>6, <1>7, ReceivedConnected, ReceivedRead DEF Worker, Stop

LEMMA ReceivedInvariance == Spec => []ReceivedInv
<1>1. Init => ReceivedInv
  <2> SUFFICES ASSUME Init PROVE ReceivedInv
    OBVIOUS
  <2>. QED  BY DEF Init, TcpInit, SubscriberInit, ReceivedInv
<1>2. DeliveryInv /\ ReadConn /\ FeedInv /\ ReceivedInv /\ [Next]_vars => ReceivedInv'
  <2> SUFFICES ASSUME DeliveryInv, ReadConn, FeedInv, ReceivedInv, [Next]_vars
               PROVE  ReceivedInv'
    OBVIOUS
  <2> USE DEF DeliveryInv, OrderInv
  <2>1. CASE Subscribing(Worker) \/ Subscribing(ReadBroken) \/ Subscribing(Start)
             \/ Subscribing(StopFlag) \/ Subscribing(Stop) \/ Subscribing(Destroy)
    BY <2>1, ReceivedSubscriber DEF Subscribing
  <2>2. CASE UNCHANGED vars
    BY <2>2, ReceivedKept DEF vars, tcp, subscriber, ReceivedInv
  <2>. QED  BY <2>1, <2>2, PublisherKeeps, ReceivedPublisher
<1>. QED  BY <1>1, <1>2, FeedInvariance, DeliveryInvariance, PTL DEF Spec

(* So what has come and what is on its way is what was written. *)
LEMMA DeliveredIsWritten ==
  ASSUME ReceivedInv, NEW c \in Conn
  PROVE  Delivered(c) = IF client[c] = "open" THEN got[c] ELSE <<>>
BY DEF ReceivedInv, Delivered

(* Every variable of the publisher, of the subscriber and of their         *)
(* connections keeps its type: what is sent, stored and received is one    *)
(* message of one sender each.                                             *)
THEOREM FeedTypeCorrect == Spec => []TypeOK
<1>1. DeliveryInv => TypeOK
  BY DEF DeliveryInv, OrderInv
<1>. QED  BY <1>1, DeliveryInvariance, PTL

(* The messages of one sender come to the subscriber in the order of the   *)
(* calls, although the server thread writes the stored ones and the        *)
(* senders write their own without a common lock                           *)
(* (SyslogPublisher::AddMsg, DoAccept, SyslogSubscriber::DoReadMessage).   *)
THEOREM FeedSenderOrder == Spec => []SenderOrder
<1>1. DeliveryInv /\ ReceivedInv => SenderOrder
  <2> SUFFICES ASSUME DeliveryInv, ReceivedInv, NEW c \in Conn
               PROVE  LET d == Delivered(c) IN
                      \A i, j \in 1..Len(d) :
                        i < j /\ d[i][1] = d[j][1] => d[i][2] <= d[j][2]
    BY DEF SenderOrder
  <2>1. CASE client[c] = "open"
    BY <2>1, DeliveredIsWritten DEF DeliveryInv, OrderInv, GotOrder
  <2>2. CASE client[c] # "open"
    <3>1. Delivered(c) = <<>> /\ Len(<<>>) = 0
      BY <2>2, DeliveredIsWritten
    <3>. QED  BY <3>1
  <2>. QED  BY <2>1, <2>2
<1>. QED  BY <1>1, DeliveryInvariance, ReceivedInvariance, PTL

(* A message that is added once a connection is in the list comes to the   *)
(* subscriber, or is on its way to it, exactly once by the end of the      *)
(* call, however connections come, close and are cleaned up; one that was  *)
(* added before, twice at most (SyslogPublisher::AddMsg, DoAccept).        *)
THEOREM FeedSentOnce == Spec => []SentOnce
<1>1. DeliveryInv /\ ReceivedInv => SentOnce
  <2> SUFFICES ASSUME DeliveryInv, ReceivedInv, NEW c \in Conn, Serves(c),
                      NEW m \in Stored
               PROVE  IF m \in before[c] THEN Copies(c, m) <= 2
                      ELSE Copies(c, m) \in (IF Finished(m) THEN {1} ELSE {0, 1})
    BY DEF SentOnce
  <2>1. Copies(c, m) = Written(c, m)
    BY DeliveredIsWritten DEF Serves, Copies, Written
  <2>2. Written(c, m) \in Counts(c, m)
    BY DEF DeliveryInv, Counted
  <2>3. Finished(m) => ~Awaits(c, m)
    <3>1. m[1] \in Senders /\ m[2] \in Nat /\ sent[m[1]] \in Nat
      BY MsgFields, StoredFields, TcpAssumption
      DEF DeliveryInv, OrderInv, TypeOK, PublisherTypeOK
    <3>. QED  BY <3>1 DEF Finished, Awaits
  <2>4. CASE m \in before[c]
    BY <2>1, <2>2, <2>4 DEF Counts
  <2>5. CASE m \notin before[c]
    BY <2>1, <2>2, <2>3, <2>5 DEF Counts
  <2>. QED  BY <2>4, <2>5
<1>. QED  BY <1>1, DeliveryInvariance, ReceivedInvariance, PTL
=============================================================================
