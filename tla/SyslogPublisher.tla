--------------------------- MODULE SyslogPublisher ---------------------------
(***************************************************************************)
(* The publisher of src/src/syslogpublisher.cpp and its connections,       *)
(* src/src/syslogconnection.cpp.  AddMsg, called by any thread, stores the *)
(* message under one mutex and sends it to every connection under another. *)
(* The server thread runs the handlers of the asio context one at a time:  *)
(* a new client, the end of a connection, the two timers, each at any time *)
(* once its cause is there.  The handler of a connection's read works on   *)
(* the connection object, which may be gone by then.                       *)
(***************************************************************************)
EXTENDS SyslogTcp

CONSTANTS
  Keep,      (* 50: the messages kept for later subscribers                *)
  Free       (* the owner of an unlocked mutex                             *)

ASSUME PublisherAssumption ==
  /\ Keep \in Nat
  /\ Free \notin Senders

VARIABLES
  messages,    (* message_list_                                            *)
  conns,       (* connection_list_, whose order is that of the numbers     *)
  connLock,    (* connection_list_lock_: the sender that holds it, or Free *)
  todo,        (* what is left of the sender's loop over connection_list_  *)
  accepting,   (* an accept has been started                               *)
  reading,     (* reading[c]: a read of the connection c has been started  *)
  spc,         (* the server thread: "run", "register" or "gone"           *)
  fresh,       (* the connection it has accepted and not registered yet    *)
  apc,         (* apc[s]: where the sender s is in AddMsg                  *)
  sent,        (* sent[s]: its calls, the last one carries <<s, sent[s]>>  *)
  popc,        (* the owner: "idle", "cleared", "join" or "stopped"        *)
  stopped,     (* the context is stopped                                   *)
  broken       (* somebody has used an object that was gone                *)

sending   == <<connLock, todo, apc, sent>>
handlers  == <<accepting, reading, spc, fresh>>
publisher == <<messages, conns, sending, handlers, popc, stopped, broken>>

(* What has been added so far. *)
Stored == {m \in Msg : m[2] <= sent[m[1]]}

PublisherInit ==
  /\ messages = <<>>
  /\ conns = {}
  /\ connLock = Free
  /\ todo = {}
  /\ accepting = TRUE
  /\ reading = [c \in Conn |-> FALSE]
  /\ spc = "run"
  /\ fresh = 0
  /\ apc = [s \in Senders |-> "idle"]
  /\ sent = [s \in Senders |-> 0]
  /\ popc = "idle"
  /\ stopped = FALSE
  /\ broken = FALSE

-----------------------------------------------------------------------------
(* AddMsg *)

Goto(s, pc) == apc' = [apc EXCEPT ![s] = pc]

(* Fault: the latest message in front, which a later subscriber sees last. *)
AddStoreFront(s) ==
  /\ apc[s] = "idle"
  /\ sent[s] < MaxMsg
  /\ sent' = [sent EXCEPT ![s] = @ + 1]
  /\ messages' = <<<<s, sent'[s]>>>> \o messages
  /\ Goto(s, "lock")
  /\ UNCHANGED <<tcp, conns, connLock, todo, handlers, popc, stopped,
                 broken>>

AddStore(s) ==
  /\ apc[s] = "idle"
  /\ sent[s] < MaxMsg
  /\ sent' = [sent EXCEPT ![s] = @ + 1]
  /\ messages' = Append(messages, <<s, sent'[s]>>)
  /\ Goto(s, "lock")
  /\ UNCHANGED <<tcp, conns, connLock, todo, handlers, popc, stopped,
                 broken>>

AddLock(s) ==
  /\ apc[s] = "lock"
  /\ connLock = Free
  /\ connLock' = s
  /\ todo' = conns
  /\ Goto(s, "test")
  /\ UNCHANGED <<tcp, messages, conns, sent, handlers, popc, stopped,
                 broken>>

(* The loop takes the connections in the order of the list: they are       *)
(* accepted and registered one after the other, as they were numbered.     *)
IsNext(c) == c \in todo /\ \A d \in todo : c <= d

(* Fault: a closed connection ends the loop. *)
AddTestBreak(s) ==
  /\ apc[s] = "test"
  /\ \E c \in Conn :
       /\ IsNext(c)
       /\ IF server[c] = "open"
          THEN Goto(s, "write") /\ UNCHANGED todo
          ELSE todo' = {} /\ UNCHANGED apc
  /\ UNCHANGED <<tcp, messages, conns, connLock, sent, handlers, popc,
                 stopped, broken>>

(* Cleanup() of the next connection and the test at the start of           *)
(* SendSyslogMessage: both look at the socket and pass over a closed one.  *)
AddTest(s) ==
  /\ apc[s] = "test"
  /\ \E c \in Conn :
       /\ IsNext(c)
       /\ IF server[c] = "open"
          THEN Goto(s, "write") /\ UNCHANGED todo
          ELSE todo' = todo \ {c} /\ UNCHANGED apc
  /\ UNCHANGED <<tcp, messages, conns, connLock, sent, handlers, popc,
                 stopped, broken>>

(* The socket may have been closed and deleted by the server thread since  *)
(* the test.  After a reset the write fails; the Close that follows fails  *)
(* in shutdown and leaves the socket as it is.                             *)
AddWrite(s) ==
  /\ apc[s] = "write"
  /\ \E c \in Conn :
       /\ IsNext(c)
       /\ IF server[c] # "open"
          THEN broken' = TRUE /\ UNCHANGED <<tcp, todo, apc>>
          ELSE /\ NetWrite(c, <<<<s, sent[s]>>>>)
               /\ todo' = todo \ {c}
               /\ Goto(s, "test")
               /\ UNCHANGED <<made, backlog, client, server, before, broken>>
  /\ UNCHANGED <<messages, conns, connLock, sent, handlers, popc, stopped>>

AddUnlock(s) ==
  /\ apc[s] = "test"
  /\ todo = {}
  /\ connLock' = Free
  /\ Goto(s, "idle")
  /\ UNCHANGED <<tcp, messages, conns, todo, sent, handlers, popc,
                 stopped, broken>>

AddMsg(s) == AddLock(s) \/ AddTest(s) \/ AddWrite(s) \/ AddUnlock(s)

-----------------------------------------------------------------------------
(* The server thread *)

Run == spc = "run" /\ ~stopped

(* The connection starts to read and gets the stored messages. *)
RunAccept ==
  /\ Run
  /\ accepting
  /\ backlog # <<>>
  /\ LET c == Head(backlog) IN
       /\ fresh' = c
       /\ backlog' = Tail(backlog)
       /\ server' = [server EXCEPT ![c] = "open"]
       /\ reading' = [reading EXCEPT ![c] = TRUE]
       /\ NetWrite(c, messages)
  /\ accepting' = FALSE
  /\ spc' = "register"
  /\ UNCHANGED <<made, client, messages, conns, sending, popc, stopped,
                 broken, before>>

RunRegister ==
  /\ spc = "register"
  /\ connLock = Free
  /\ conns' = conns \cup {fresh}
  /\ before' = [before EXCEPT ![fresh] = IF client[fresh] = "open" THEN Stored
                                        ELSE {}]
  /\ accepting' = TRUE
  /\ spc' = "run"
  /\ fresh' = 0
  /\ UNCHANGED <<made, backlog, client, server, reset, stream, got,
                 messages, sending, reading, popc, stopped, broken>>

(* An accept that fails is not started again. *)
RunAcceptError ==
  /\ Run
  /\ accepting
  /\ accepting' = FALSE
  /\ UNCHANGED <<tcp, messages, conns, sending, reading, spc, fresh, popc,
                 stopped, broken>>

RunCleanup ==
  /\ Run
  /\ connLock = Free
  /\ conns' = {c \in conns : server[c] = "open"}
  /\ UNCHANGED <<tcp, messages, sending, handlers, popc, stopped, broken>>

RunCheck ==
  /\ Run
  /\ Len(messages) > Keep
  /\ messages' = SubSeq(messages, Len(messages) - Keep + 1, Len(messages))
  /\ UNCHANGED <<tcp, conns, sending, handlers, popc, stopped, broken>>

(* Fault: the end of the stream is logged and the socket kept. *)
RunReadKeep(c) ==
  /\ Run
  /\ reading[c]
  /\ client[c] = "closed" \/ c \notin conns
  /\ reading' = [reading EXCEPT ![c] = FALSE]
  /\ broken' = (c \notin conns)
  /\ UNCHANGED <<tcp, messages, conns, sending, accepting, spc, fresh,
                 popc, stopped>>

(* A read ends when the client is gone, or when Stop has deleted the       *)
(* connection.  Close then fails in shutdown if the client's end has sent  *)
(* a reset: the socket stays open, and no read is started again.           *)
RunRead(c) ==
  /\ Run
  /\ reading[c]
  /\ client[c] = "closed" \/ c \notin conns
  /\ reading' = [reading EXCEPT ![c] = FALSE]
  /\ IF c \in conns
     THEN /\ server' = IF reset[c] THEN server ELSE [server EXCEPT ![c] = "closed"]
          /\ UNCHANGED broken
     ELSE broken' = TRUE /\ UNCHANGED server
  /\ UNCHANGED <<made, backlog, client, reset, stream, messages, conns,
                 sending, accepting, spc, fresh, popc, stopped, got,
                 before>>

RunEnd ==
  /\ spc = "run"
  /\ stopped
  /\ spc' = "gone"
  /\ UNCHANGED <<tcp, messages, conns, sending, accepting, reading, fresh,
                 popc, stopped, broken>>

-----------------------------------------------------------------------------
(* Stop: the connections are deleted, which aborts their reads, then the   *)
(* context is stopped and the server thread joined.                        *)

StopClear ==
  /\ popc = "idle"
  /\ connLock = Free
  /\ server' = [c \in Conn |-> IF c \in conns THEN "closed" ELSE server[c]]
  /\ conns' = {}
  /\ popc' = "cleared"
  /\ UNCHANGED <<made, backlog, client, reset, stream, messages, sending,
                 handlers, stopped, broken, got, before>>

StopContext ==
  /\ popc = "cleared"
  /\ stopped' = TRUE
  /\ popc' = "join"
  /\ UNCHANGED <<tcp, messages, conns, sending, handlers, broken>>

StopJoin ==
  /\ popc = "join"
  /\ spc = "gone"
  /\ popc' = "stopped"
  /\ UNCHANGED <<tcp, messages, conns, sending, handlers, stopped,
                 broken>>

PublisherTypeOK ==
  /\ messages \in Seq(Msg)
  /\ conns \subseteq Conn
  /\ connLock \in Senders \cup {Free}
  /\ todo \subseteq Conn
  /\ accepting \in BOOLEAN
  /\ reading \in [Conn -> BOOLEAN]
  /\ spc \in {"run", "register", "gone"}
  /\ fresh \in {0} \cup Conn
  /\ apc \in [Senders -> {"idle", "lock", "test", "write"}]
  /\ sent \in [Senders -> 0..MaxMsg]
  /\ popc \in {"idle", "cleared", "join", "stopped"}
  /\ stopped \in BOOLEAN
  /\ broken \in BOOLEAN
=============================================================================
