----------------------------- MODULE ListenServer -----------------------------
(***************************************************************************)
(* A ListenServer with its connections and the shared memory through which *)
(* a ListenProxy of another process reaches it.  One worker runs the       *)
(* handlers one after the other; other threads add texts and call Stop.    *)
(* The queues are first-in-first-out (see ThreadSafeQueue, MessageQueue).  *)
(***************************************************************************)
EXTENDS ListenTcp

VARIABLES
  spc,          (* where Stop and the destructor are                       *)
  listed,       (* connection_list_                                        *)
  queue,        (* queue[c]: the messages for connection c                 *)
  wpend, rpend, (* a write, a read of c has its handler to come            *)
  gone,         (* c is erased: a handler that comes uses what is freed    *)
  accepting,    (* an accept is under way                                  *)
  inq,          (* msg_queue_: the messages for the server                 *)
  shared,       (* the messages in the shared memory                       *)
  level,        (* log_level_                                              *)
  shmLevel,     (* its copy of eight bits in the shared memory             *)
  active,       (* active_, and its copy in the shared memory              *)
  broken,       (* a handler has used a connection that was erased         *)
  texts,        (* history: the texts added                                *)
  handled,      (* history: the messages handled, the oldest first         *)
  got,          (* history: got[c] is what was written to c                *)
  mark          (* history: Len(handled) when c was listed                 *)

serving == <<spc, listed, queue, wpend, rpend, gone, accepting, inq, shared,
             level, shmLevel, active, broken, texts, handled, got, mark>>

ServerInit ==
  /\ spc = "run"
  /\ accepting = TRUE
  /\ listed = {} /\ gone = {} /\ wpend = {} /\ rpend = {}
  /\ queue = [c \in Conn |-> <<>>]
  /\ inq = <<>> /\ shared = <<>>
  /\ level = 0 /\ shmLevel = 0
  /\ active = FALSE
  /\ broken = FALSE
  /\ texts = 0 /\ handled = <<>>
  /\ got = [c \in Conn |-> <<>>]
  /\ mark = [c \in Conn |-> 0]

-----------------------------------------------------------------------------
(* The worker runs until Stop has stopped the context. *)
Turn == spc \in {"run", "context"}

(* ListenString and its like, which test IsActive, in the server's process *)
(* and in the proxy's.  The proxy's copy of the flag follows it at its     *)
(* own pace (see MessageQueue, CheckQueue): it is left open here.  What is *)
(* added after the worker has ended is left out: it stays in the queue.    *)
AddText ==
  /\ Turn /\ active /\ texts < MaxText
  /\ texts' = texts + 1
  /\ inq' = Append(inq, TextMsg(texts'))
  /\ UNCHANGED <<tcp, spc, listed, queue, wpend, rpend, gone, accepting,
                 shared, level, shmLevel, active, broken, handled, got,
                 mark>>

ProxyAdd ==
  /\ Turn /\ made > 0 /\ texts < MaxText
  /\ texts' = texts + 1
  /\ shared' = Append(shared, TextMsg(texts'))
  /\ UNCHANGED <<tcp, spc, listed, queue, wpend, rpend, gone, accepting,
                 inq, level, shmLevel, active, broken, handled, got, mark>>

-----------------------------------------------------------------------------
(* The handlers: one at a time has the worker for itself.  Stop finds it    *)
(* before or after the handler that it is in, which it finishes.           *)

(* The next message of q goes out on c, if there is one: the queue then,   *)
(* the connections with a write under way, what has been written.          *)
Write(c, q, pending) ==
  IF q = <<>>
  THEN /\ queue' = [queue EXCEPT ![c] = q]
       /\ wpend' = pending
       /\ UNCHANGED <<down, got>>
  ELSE /\ queue' = [queue EXCEPT ![c] = Tail(q)]
       /\ wpend' = pending \cup {c}
       /\ down' = Sent(down, c, client[c], Head(q))
       /\ got' = [got EXCEPT ![c] = Append(@, Head(q))]

(* Fault: the level the program begins with. *)
FirstGreeting == <<Level(0)>>

(* What a new connection has to write: the level (and the names of the     *)
(* levels before it, which never change).                                  *)
Greeting == <<Level(level)>>

(* A connection is accepted: it reads, writes, and joins the list. *)
Accept ==
  /\ Turn /\ accepting /\ backlog # <<>>
  /\ LET c == Head(backlog) IN
     /\ backlog' = Tail(backlog)
     /\ server' = [server EXCEPT ![c] = "open"]
     /\ rpend' = rpend \cup {c}
     /\ Write(c, Greeting, wpend)
     /\ listed' = listed \cup {c}
     /\ mark' = [mark EXCEPT ![c] = Len(handled)]
  /\ active' = TRUE
  /\ UNCHANGED <<acceptor, made, client, reset, up, spc, gone, inq, shared,
                 level, shmLevel, accepting, broken, texts, handled>>

(* An accept that fails is the last one: nothing starts another.           *)
AcceptError ==
  /\ Turn /\ accepting /\ backlog # <<>>
  /\ accepting' = FALSE
  /\ UNCHANGED <<tcp, spc, listed, queue, wpend, rpend, gone, inq, shared,
                 level, shmLevel, active, broken, texts, handled, got,
                 mark>>

(* Fault: the flag is left as it is. *)
CleanupList ==
  /\ Turn
  /\ LET closed == {c \in listed : server[c] = "closed"} IN
     /\ listed' = listed \ closed
     /\ gone' = gone \cup closed
  /\ listed' # listed
  /\ UNCHANGED <<tcp, spc, queue, wpend, rpend, inq, shared, level,
                 shmLevel, active, accepting, broken, texts, handled, got,
                 mark>>

(* The cleanup erases the connections that are closed, and sets the flag.  *)
(* A turn of it that finds nothing to do is left out.                      *)
Cleanup ==
  /\ Turn
  /\ LET closed == {c \in listed : server[c] = "closed"} IN
     /\ listed' = listed \ closed
     /\ gone' = gone \cup closed
  /\ active' = (listed' # {})
  /\ listed' # listed \/ active' # active
  /\ UNCHANGED <<tcp, spc, queue, wpend, rpend, inq, shared, level,
                 shmLevel, accepting, broken, texts, handled, got, mark>>

(* Fault: a connection that writes is left out. *)
IdleReceivers == {c \in listed \ wpend : server[c] = "open"}

(* HandleMessage: each message goes to the queue of every connection that  *)
(* is listed (nothing reads the queue of one that is closed).              *)
Receivers == {c \in listed : server[c] = "open"}

(* Fault: the newest first. *)
Prepended(q, batch) == batch \o q

Appended(q, batch) == q \o batch

(* Fault: in full. *)
FullLevel(l) == l

(* SetLogLevel: the level in eight bits. *)
ByteLevel(l) == l % 256

(* The last level in the messages q is l. *)
LastLevel(q, l) ==
  \E i \in 1..Len(q) :
    q[i] = Level(l) /\ \A j \in (i + 1)..Len(q) : IsText(q[j])

(* The queue timer: what lies in the shared memory joins the server's      *)
(* queue, and each message of that goes to every connection in the list;   *)
(* a level becomes the server's.                                           *)
Distribute ==
  /\ Turn
  /\ LET batch == inq \o shared IN
     /\ batch # <<>>
     /\ \/ /\ \A i \in 1..Len(batch) : IsText(batch[i])
           /\ UNCHANGED <<level, shmLevel>>
        \/ \E l \in Levels \cup {0} :
             /\ LastLevel(batch, l)
             /\ level' = l
             /\ shmLevel' = ByteLevel(l)
     /\ handled' = handled \o batch
     /\ queue' = [c \in Conn |-> IF c \in Receivers
                                 THEN Appended(queue[c], batch) ELSE queue[c]]
  /\ inq' = <<>> /\ shared' = <<>>
  /\ UNCHANGED <<tcp, spc, listed, wpend, rpend, gone, active, accepting,
                 broken, texts, got, mark>>

(* Fault: a connection that found nothing to write starts no timer. *)
DueNever(c) == FALSE

(* A connection that found nothing to write looks again, on its timer. *)
Due(c) == c \in listed \ wpend /\ server[c] = "open" /\ queue[c] # <<>>

QueueTimer(c) ==
  /\ Turn /\ Due(c)
  /\ Write(c, queue[c], wpend)
  /\ UNCHANGED <<acceptor, made, backlog, client, server, reset, up, spc,
                 listed, rpend, gone, inq, shared, level, shmLevel, active,
                 accepting, broken, texts, handled, mark>>

(* A write ends well: the next message, if the connection is open still. *)
Written(c) ==
  /\ Turn /\ c \in wpend \ gone /\ server[c] = "open"
  /\ Write(c, queue[c], wpend \ {c})
  /\ UNCHANGED <<acceptor, made, backlog, client, server, reset, up, spc,
                 listed, rpend, gone, inq, shared, level, shmLevel, active,
                 accepting, broken, texts, handled, mark>>

Failed(c) == server[c] = "closed" \/ reset[c] \/ client[c] = "closed"

(* A write or a read ends badly, the last one also at the end of file:     *)
(* the connection is closed.  That the handler comes after the connection  *)
(* has been erased is undefined; it may go unnoticed.  Nothing is read     *)
(* from the queue of a closed connection: what it holds is left out.       *)
Close(c) ==
  /\ server' = [server EXCEPT ![c] = "closed"]
  /\ up' = [up EXCEPT ![c] = <<>>]
  /\ queue' = [queue EXCEPT ![c] = <<>>]
  /\ got' = [got EXCEPT ![c] = <<>>]
  /\ mark' = [mark EXCEPT ![c] = 0]
  /\ broken' \in {broken, broken \/ c \in gone}
  /\ UNCHANGED <<acceptor, made, backlog, client, reset, down, spc, listed,
                 gone, inq, shared, level, shmLevel, active, accepting,
                 texts, handled>>

WriteError(c) ==
  /\ Turn /\ c \in wpend /\ Failed(c)
  /\ wpend' = wpend \ {c} /\ UNCHANGED rpend
  /\ Close(c)

ReadError(c) ==
  /\ Turn /\ c \in rpend /\ Failed(c) /\ (server[c] = "open" => up[c] = <<>>)
  /\ rpend' = rpend \ {c} /\ UNCHANGED wpend
  /\ Close(c)

(* A message of the client, which is a log level, goes to the server. *)
ReadLevel(c) ==
  /\ Turn /\ c \in rpend /\ server[c] = "open" /\ up[c] # <<>>
  /\ inq' = Append(inq, Head(up[c]))
  /\ up' = [up EXCEPT ![c] = Tail(@)]
  /\ UNCHANGED <<acceptor, made, backlog, client, server, reset, down, spc,
                 listed, queue, wpend, rpend, gone, shared, level,
                 shmLevel, active, accepting, broken, texts, handled, got,
                 mark>>

-----------------------------------------------------------------------------
(* Stop, in the thread that owns the server.  It clears active_ and its    *)
(* copy, and the worker, which goes on until the context is stopped, may   *)
(* set them again.                                                         *)
StopActive ==
  /\ spc = "run"
  /\ active' = FALSE
  /\ spc' = "context"
  /\ UNCHANGED <<tcp, listed, queue, wpend, rpend, gone, accepting, inq,
                 shared, level, shmLevel, broken, texts, handled, got,
                 mark>>

(* The context is stopped, the worker joined once its handler has ended,   *)
(* and the list cleared; the acceptor stays.  The handlers still to come   *)
(* never run, and what lies in a queue, or is added now, stays there: the  *)
(* rest of the worker's state is reset here since nothing reads it again.  *)
StopJoin ==
  /\ spc = "context"
  /\ server' = [c \in Conn |-> IF c \in listed THEN "closed" ELSE server[c]]
  /\ reset' = [c \in Conn |->
                 reset[c] \/ (c \in listed /\ up[c] # <<>>)]
  /\ up' = [c \in Conn |-> IF c \in listed THEN <<>> ELSE up[c]]
  /\ listed' = {} /\ gone' = {} /\ wpend' = {} /\ rpend' = {}
  /\ queue' = [c \in Conn |-> <<>>] /\ inq' = <<>> /\ shared' = <<>>
  /\ got' = [c \in Conn |-> <<>>] /\ mark' = [c \in Conn |-> 0]
  /\ accepting' = FALSE
  /\ spc' = "stopped"
  /\ UNCHANGED <<acceptor, made, backlog, client, down, level, shmLevel,
                 active, broken, texts, handled>>

Waits(c) == \E i \in 1..Len(backlog) : backlog[i] = c

(* The destructor stops again, and closes what waits in the backlog. *)
Destroy ==
  /\ spc = "stopped"
  /\ active' = FALSE
  /\ acceptor' = FALSE
  /\ server' = [c \in Conn |->
                  IF Waits(c) THEN "closed" ELSE server[c]]
  /\ reset' = [c \in Conn |-> reset[c] \/ Waits(c)]
  /\ backlog' = <<>>
  /\ spc' = "gone"
  /\ UNCHANGED <<made, client, down, up, listed, queue, wpend, rpend, gone,
                 accepting, inq, shared, level, shmLevel, broken, texts,
                 handled, got, mark>>

ServerTypeOK ==
  /\ spc \in {"run", "context", "stopped", "gone"}
  /\ listed \subseteq Conn /\ gone \subseteq Conn
  /\ wpend \subseteq Conn /\ rpend \subseteq Conn
  /\ queue \in [Conn -> Seq(Message)] /\ got \in [Conn -> Seq(Message)]
  /\ inq \in Seq(Message) /\ shared \in Seq(Message)
  /\ level \in Levels \cup {0} /\ shmLevel \in 0..255
  /\ active \in BOOLEAN
  /\ broken \in BOOLEAN /\ accepting \in BOOLEAN
  /\ texts \in 0..MaxText
  /\ handled \in Seq(Message)
  /\ mark \in [Conn -> Nat]
=============================================================================
