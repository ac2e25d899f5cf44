------------------------------ MODULE SyslogTcp ------------------------------
(***************************************************************************)
(* The TCP connections between a SyslogPublisher and its subscribers, as   *)
(* the two use them.  The operating system completes a connection as soon  *)
(* as a subscriber asks for it; it then waits in the backlog until the     *)
(* publisher accepts it.  The publisher writes, the subscriber reads, and  *)
(* either may close its end.                                               *)
(***************************************************************************)
EXTENDS Naturals, Sequences, FiniteSets

CONSTANTS
  Senders,   (* the threads that call AddMsg of the publisher              *)
  MaxMsg,    (* bound: the messages of one sender                          *)
  MaxConn    (* bound: the connections made                                *)

ASSUME TcpAssumption == MaxMsg \in Nat /\ MaxConn \in Nat

Conn == 1..MaxConn
Msg  == Senders \X (1..MaxMsg)

VARIABLES
  made,      (* the number of connections made                             *)
  backlog,   (* those not accepted yet, the oldest first                   *)
  client,    (* client[c]: the subscriber's end, "open" or "closed"        *)
  server,    (* server[c]: the publisher's end, "none" before the accept   *)
  reset,     (* reset[c]: the client's end has refused data                *)
  stream,    (* stream[c]: what has been written and not read yet          *)
  got,       (* history: got[c] is what was written while it is open       *)
  before     (* history: before[c] was added before c was in the list      *)

tcp == <<made, backlog, client, server, reset, stream, got, before>>

TcpInit ==
  /\ made = 0
  /\ backlog = <<>>
  /\ client = [c \in Conn |-> "closed"]
  /\ server = [c \in Conn |-> "none"]
  /\ reset = [c \in Conn |-> FALSE]
  /\ stream = [c \in Conn |-> <<>>]
  /\ got = [c \in Conn |-> <<>>]
  /\ before = [c \in Conn |-> {}]

(* A subscriber connects: the connection number made + 1. *)
NetConnect ==
  /\ made < MaxConn
  /\ made' = made + 1
  /\ backlog' = Append(backlog, made')
  /\ client' = [client EXCEPT ![made'] = "open"]
  /\ UNCHANGED <<server, reset, stream, got, before>>

(* The client's end is closed: unread data is answered with a reset.  The  *)
(* history of the connection is over.                                      *)
NetClientClose(c) ==
  /\ client' = [client EXCEPT ![c] = "closed"]
  /\ reset' = [reset EXCEPT ![c] = stream[c] # <<>>]
  /\ stream' = [stream EXCEPT ![c] = <<>>]
  /\ got' = [got EXCEPT ![c] = <<>>]
  /\ before' = [before EXCEPT ![c] = {}]
  /\ UNCHANGED <<made, backlog, server>>

(* A write succeeds locally; a closed end answers it with a reset, after   *)
(* which further writes fail.                                              *)
NetWrite(c, msgs) ==
  IF client[c] = "open"
  THEN /\ stream' = [stream EXCEPT ![c] = @ \o msgs]
       /\ got' = [got EXCEPT ![c] = @ \o msgs]
       /\ UNCHANGED reset
  ELSE /\ reset' = [reset EXCEPT ![c] = @ \/ msgs # <<>>]
       /\ UNCHANGED <<stream, got>>

NetRead(c) ==
  /\ stream[c] # <<>>
  /\ stream' = [stream EXCEPT ![c] = Tail(@)]
  /\ UNCHANGED <<made, backlog, client, server, reset, got, before>>

TcpTypeOK ==
  /\ made \in 0..MaxConn
  /\ backlog \in Seq(Conn)
  /\ client \in [Conn -> {"open", "closed"}]
  /\ server \in [Conn -> {"none", "open", "closed"}]
  /\ reset \in [Conn -> BOOLEAN]
  /\ stream \in [Conn -> Seq(Msg)]
  /\ got \in [Conn -> Seq(Msg)]
  /\ before \in [Conn -> SUBSET Msg]
=============================================================================
