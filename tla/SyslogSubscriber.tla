--------------------------- MODULE SyslogSubscriber ---------------------------
(***************************************************************************)
(* The subscriber of src/src/syslogsubscriber.cpp.  Its worker thread runs *)
(* an asio context in which one operation waits at a time: a lookup, a     *)
(* connect, a read or the retry timer.  The owner calls Start and Stop and *)
(* then destroys it.  Stop closes the socket while the worker uses it,     *)
(* stops the context, which nothing ever restarts, and joins.              *)
(***************************************************************************)
EXTENDS SyslogTcp

VARIABLES
  upc,        (* the operation the worker waits for; "none" without worker *)
  conn,       (* the connection of socket_, 0 while it has none            *)
  sock,       (* socket_ is there and open                                 *)
  operable,   (* operable_                                                 *)
  stopSub,    (* stop_subscriber_                                          *)
  ustopped,   (* the context is stopped                                    *)
  queue,      (* msg_queue_ exists                                         *)
  uopc,       (* the owner: where it is in Start, Stop and the destructor  *)
  subBroken,  (* Close has used a socket object that was gone              *)
  rcvd        (* history: what came over conn and went to msg_queue_       *)

socket     == <<conn, sock>>
subscriber == <<upc, socket, operable, stopSub, ustopped, queue, uopc,
                subBroken, rcvd>>

SubscriberInit ==
  /\ upc = "none"
  /\ conn = 0
  /\ sock = FALSE
  /\ operable = FALSE
  /\ stopSub = FALSE
  /\ ustopped = FALSE
  /\ queue = FALSE
  /\ uopc = "new"
  /\ subBroken = FALSE
  /\ rcvd = <<>>

Close ==
  /\ sock' = FALSE
  /\ rcvd' = <<>>
  /\ IF sock /\ conn # 0 THEN NetClientClose(conn) ELSE UNCHANGED tcp
  /\ UNCHANGED conn

-----------------------------------------------------------------------------
(* The worker *)

WorkerAt(pc) == upc = pc /\ ~ustopped

(* Fault: the socket is left to the next connect. *)
DoRetryWaitOpen ==
  /\ upc' = "retry"
  /\ operable' = FALSE
  /\ UNCHANGED <<tcp, socket, stopSub, ustopped, queue, uopc, subBroken, rcvd>>

(* Fault: the flag is left to the lookup that follows. *)
DoRetryWaitOperable ==
  /\ upc' = "retry"
  /\ Close
  /\ UNCHANGED <<operable, stopSub, ustopped, queue, uopc, subBroken>>

DoRetryWait ==
  /\ upc' = "retry"
  /\ operable' = FALSE
  /\ Close
  /\ UNCHANGED <<stopSub, ustopped, queue, uopc, subBroken>>

(* A new socket object takes the place of the old one. *)
DoConnect ==
  /\ upc' = "connect"
  /\ conn' = 0
  /\ sock' = TRUE
  /\ subBroken' = (subBroken \/ uopc = "closing")
  /\ UNCHANGED <<tcp, operable, stopSub, ustopped, queue, uopc, rcvd>>

LookupDone   == WorkerAt("lookup") /\ DoConnect
LookupFailed == WorkerAt("lookup") /\ DoRetryWait

(* The system has connected the socket, its handler has still to run. *)
Connected ==
  /\ WorkerAt("connect")
  /\ sock
  /\ NetConnect
  /\ conn' = made'
  /\ upc' = "connected"
  /\ UNCHANGED <<sock, operable, stopSub, ustopped, queue, uopc,
                 subBroken, rcvd>>

(* No listener there, or Stop has closed the socket: the next endpoint of  *)
(* the lookup, when there is one, or a pause.                              *)
ConnectFailed ==
  /\ WorkerAt("connect") \/ (WorkerAt("connected") /\ ~sock)
  /\ DoConnect \/ DoRetryWait

ConnectDone ==
  /\ WorkerAt("connected")
  /\ sock
  /\ upc' = "read"
  /\ operable' = TRUE
  /\ UNCHANGED <<tcp, socket, stopSub, ustopped, queue, uopc, subBroken,
                 rcvd>>

(* Fault: all that has been read is taken for one message. *)
ReadMessageAll ==
  /\ WorkerAt("read")
  /\ sock
  /\ NetRead(conn)
  /\ rcvd' = IF queue THEN Append(rcvd, stream[conn]) ELSE rcvd
  /\ UNCHANGED <<upc, socket, operable, stopSub, ustopped, queue, uopc,
                 subBroken>>

(* Fault: no read is started after a message. *)
ReadMessageOnce ==
  /\ WorkerAt("read")
  /\ sock
  /\ NetRead(conn)
  /\ rcvd' = IF queue THEN Append(rcvd, Head(stream[conn])) ELSE rcvd
  /\ upc' = "gone"
  /\ UNCHANGED <<socket, operable, stopSub, ustopped, queue, uopc, subBroken>>

(* The length, the message, and the message to the queue, if it is there. *)
ReadMessage ==
  /\ WorkerAt("read")
  /\ sock
  /\ NetRead(conn)
  /\ rcvd' = IF queue THEN Append(rcvd, Head(stream[conn])) ELSE rcvd
  /\ UNCHANGED <<upc, socket, operable, stopSub, ustopped, queue, uopc,
                 subBroken>>

(* The end of the stream, or Stop has closed the socket. *)
ReadFailed ==
  /\ WorkerAt("read")
  /\ sock => server[conn] = "closed" /\ stream[conn] = <<>>
  /\ DoRetryWait

(* External: the network fails. *)
ReadBroken == WorkerAt("read") /\ sock /\ DoRetryWait

(* The byte before the close has come: no operation is started any more,   *)
(* and a context without one ends.                                         *)
ReadAfterClose ==
  /\ WorkerAt("read")
  /\ ~sock
  /\ upc' = "gone"
  /\ UNCHANGED <<tcp, socket, operable, stopSub, ustopped, queue, uopc,
                 subBroken, rcvd>>

RetryTimer ==
  /\ WorkerAt("retry")
  /\ upc' = IF stopSub THEN "gone" ELSE "lookup"
  /\ operable' = FALSE
  /\ UNCHANGED <<tcp, socket, stopSub, ustopped, queue, uopc, subBroken, rcvd>>

WorkerEnd ==
  /\ upc \notin {"none", "gone"}
  /\ ustopped
  /\ upc' = "gone"
  /\ UNCHANGED <<tcp, socket, operable, stopSub, ustopped, queue, uopc,
                 subBroken, rcvd>>

Worker ==
  \/ LookupDone
  \/ LookupFailed
  \/ Connected
  \/ ConnectFailed
  \/ ConnectDone
  \/ ReadMessage
  \/ ReadFailed
  \/ ReadAfterClose
  \/ RetryTimer
  \/ WorkerEnd

-----------------------------------------------------------------------------
(* The owner *)

(* After a Stop the new worker calls DoLookup and returns at once. *)
Start ==
  /\ uopc \in {"new", "stopped"}
  /\ uopc' = "running"
  /\ stopSub' = FALSE
  /\ queue' = TRUE
  /\ upc' = "lookup"
  /\ operable' = FALSE
  /\ UNCHANGED <<tcp, socket, ustopped, subBroken, rcvd>>

(* Stop: the flag, and the test in Close. *)
StopFlag ==
  /\ uopc = "running"
  /\ stopSub' = TRUE
  /\ uopc' = IF sock THEN "closing" ELSE "closed"
  /\ UNCHANGED <<tcp, upc, socket, operable, ustopped, queue, subBroken, rcvd>>

StopClose ==
  /\ uopc = "closing"
  /\ Close
  /\ uopc' = "closed"
  /\ UNCHANGED <<upc, operable, stopSub, ustopped, queue, subBroken>>

(* Fault: the closed socket is to end the worker. *)
StopSubContextRuns ==
  /\ uopc = "closed"
  /\ uopc' = "join"
  /\ UNCHANGED <<tcp, upc, socket, operable, stopSub, ustopped, queue,
                 subBroken, rcvd>>

StopSubContext ==
  /\ uopc = "closed"
  /\ ustopped' = TRUE
  /\ uopc' = "join"
  /\ UNCHANGED <<tcp, upc, socket, operable, stopSub, queue, subBroken, rcvd>>

StopSubJoin ==
  /\ uopc = "join"
  /\ upc = "gone"
  /\ uopc' = "stopped"
  /\ queue' = FALSE
  /\ operable' = FALSE
  /\ UNCHANGED <<tcp, upc, socket, stopSub, ustopped, subBroken, rcvd>>

(* The destructor, which calls Stop again. *)
Destroy ==
  /\ uopc = "stopped"
  /\ Close
  /\ uopc' = "destroyed"
  /\ UNCHANGED <<upc, operable, stopSub, ustopped, queue, subBroken>>

Stop == StopClose \/ StopSubContext \/ StopSubJoin

SubscriberTypeOK ==
  /\ upc \in {"none", "lookup", "connect", "connected", "read", "retry", "gone"}
  /\ conn \in {0} \cup Conn
  /\ sock \in BOOLEAN
  /\ operable \in BOOLEAN
  /\ stopSub \in BOOLEAN
  /\ ustopped \in BOOLEAN
  /\ queue \in BOOLEAN
  /\ uopc \in {"new", "running", "closing", "closed", "join", "stopped",
               "destroyed"}
  /\ subBroken \in BOOLEAN
  /\ rcvd \in Seq(Msg)
=============================================================================
