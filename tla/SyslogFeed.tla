------------------------------ MODULE SyslogFeed ------------------------------
(***************************************************************************)
(* A SyslogPublisher and a SyslogSubscriber that connects to it, loses the *)
(* connection and comes back.  The two meet in the connections of          *)
(* SyslogTcp only.  What follows the use of an object that is gone is      *)
(* undefined: such a behaviour ends there (Sound).                         *)
(***************************************************************************)
EXTENDS SyslogPublisher, SyslogSubscriber

vars == <<tcp, publisher, subscriber>>

Sound == ~broken /\ ~subBroken

Init == TcpInit /\ PublisherInit /\ SubscriberInit

Publishing(action)  == Sound /\ action /\ UNCHANGED subscriber
Subscribing(action) == Sound /\ action /\ UNCHANGED publisher

Next ==
  \/ \E s \in Senders : Publishing(AddStore(s) \/ AddMsg(s))
  \/ Publishing(RunAccept)
  \/ Publishing(RunRegister)
  \/ Publishing(RunAcceptError)
  \/ Publishing(RunCleanup)
  \/ Publishing(RunCheck)
  \/ \E c \in Conn : Publishing(RunRead(c))
  \/ Publishing(RunEnd)
  \/ Publishing(StopClear)
  \/ Publishing(StopContext)
  \/ Publishing(StopJoin)
  \/ Subscribing(Worker)
  \/ Subscribing(ReadBroken)
  \/ Subscribing(Start)
  \/ Subscribing(StopFlag)
  \/ Subscribing(Stop)
  \/ Subscribing(Destroy)

Spec == Init /\ [][Next]_vars

(* Threads that can go on are scheduled, timers fire, and each handler has *)
(* its turn: the context runs them in the order in which they are ready.   *)
(* Nothing is assumed of the calls, nor of lookups and connects.           *)
FairSpec ==
  /\ Spec
  /\ \A s \in Senders : WF_vars(Publishing(AddMsg(s)))
  /\ WF_vars(Publishing(RunAccept \/ RunRegister))
  /\ WF_vars(Publishing(RunCleanup))
  /\ \A c \in Conn : WF_vars(Publishing(RunRead(c)))
  /\ WF_vars(Publishing(RunEnd))
  /\ WF_vars(Publishing(StopContext))
  /\ WF_vars(Publishing(StopJoin))
  /\ WF_vars(Subscribing(Worker))
  /\ WF_vars(Subscribing(Stop))

-----------------------------------------------------------------------------
TypeOK == TcpTypeOK /\ PublisherTypeOK /\ SubscriberTypeOK

(* What has come over c to the subscriber's queue and what is on its way. *)
Delivered(c) == IF client[c] = "open" THEN rcvd \o stream[c] ELSE <<>>

Copies(c, m) == Cardinality({i \in 1..Len(Delivered(c)) : Delivered(c)[i] = m})

Serves(c) == c \in conns /\ server[c] = "open" /\ client[c] = "open"

(* The call of AddMsg with the message m has come to its end. *)
Finished(m) == m[2] < sent[m[1]] \/ apc[m[1]] = "idle"

(* Messages of one thread never come to the subscriber in another order    *)
(* than that of the calls, whether they come from the store or from the    *)
(* call itself.                                                            *)
SenderOrder ==
  \A c \in Conn : LET d == Delivered(c) IN
    \A i, j \in 1..Len(d) : i < j /\ d[i][1] = d[j][1] => d[i][2] <= d[j][2]

(* What is added once a connection is in the list has gone over it exactly *)
(* once by the end of AddMsg, and is with the subscriber or on its way;    *)
(* what was added before, twice at most.                                   *)
SentOnce ==
  \A c \in Conn : Serves(c) => \A m \in Stored :
    IF m \in before[c] THEN Copies(c, m) <= 2
    ELSE Copies(c, m) \in (IF Finished(m) THEN {1} ELSE {0, 1})

(* However it fails, retries and is stopped, the subscriber has one        *)
(* connection at a time, and none once it is destroyed.                    *)
OneConnection ==
  \A c \in Conn : client[c] = "open" => c = conn /\ sock /\ uopc # "destroyed"

(* IsOperable, "true if the receiver works as normal": the worker reads,   *)
(* or Stop has been called and has not returned yet.                       *)
OperableReads ==
  operable => upc = "read" \/ uopc \in {"closing", "closed", "join"}

(* A message that is added reaches the queue of a subscriber that is       *)
(* connected, unless it closes the connection or is stopped.               *)
Reaches ==
  \A c \in Conn : \A m \in Msg :
    (c \in conns /\ m \in Stored \ before[c]) ~>
      \/ \E i \in 1..Len(rcvd) : rcvd[i] = m
      \/ client[c] = "closed"
      \/ ustopped
      \/ popc # "idle"
      \/ ~Sound

(* Stop of either side returns, whatever the other one does. *)
StopsReturn ==
  /\ popc = "cleared" ~> popc = "stopped" \/ ~Sound
  /\ uopc = "closing" ~> uopc = "stopped" \/ ~Sound

(* "Cleanup unused connections": one whose client is gone leaves the list. *)
CleanedUp ==
  \A c \in Conn :
    (c \in conns /\ client[c] = "closed") ~>
      c \notin conns \/ popc # "idle" \/ ~Sound

(* The same for a client that leaves without a reset of the connection. *)
CleanedUpOrReset ==
  \A c \in Conn :
    (c \in conns /\ client[c] = "closed") ~>
      c \notin conns \/ reset[c] \/ popc # "idle" \/ ~Sound
=============================================================================
