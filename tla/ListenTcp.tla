------------------------------ MODULE ListenTcp ------------------------------
(***************************************************************************)
(* The TCP connections between a listen server and its clients, as the two *)
(* use them.  The operating system completes a connection as soon as it is *)
(* asked for, as long as the server's acceptor exists; it waits in the     *)
(* backlog until it is accepted.  Either end may close it, and the network *)
(* may break it: both ends are reset then and learn of it in their time.   *)
(***************************************************************************)
EXTENDS Naturals, Sequences, FiniteSets

CONSTANTS
  Clients,    (* the listen clients                                        *)
  Levels,     (* the log levels that they ask for                          *)
  MaxText,    (* bound: the texts                                          *)
  MaxConn     (* bound: the connections made                               *)

ASSUME ListenAssumption ==
  MaxText \in Nat /\ MaxConn \in Nat /\ Levels \subseteq Nat

Conn    == 1..MaxConn
Text    == 1..MaxText
Level(l)   == <<"level", l>>
TextMsg(t) == <<"text", t>>
Message == {Level(l) : l \in Levels \cup {0}} \cup {TextMsg(t) : t \in Text}

IsText(m)  == m[1] = "text"
IsLevel(m) == m[1] = "level"

VARIABLES
  acceptor,   (* the server's acceptor exists                              *)
  made,       (* the number of connections made                            *)
  backlog,    (* those not accepted yet, the oldest first                  *)
  client,     (* client[c]: the client's end, "open" or "closed"           *)
  server,     (* server[c]: the server's end, "none" before the accept     *)
  reset,      (* reset[c]: the network has broken c                        *)
  down, up    (* written by the server, by the client, and not read yet    *)

tcp == <<acceptor, made, backlog, client, server, reset, down, up>>

TcpInit ==
  /\ acceptor = TRUE
  /\ made = 0
  /\ backlog = <<>>
  /\ client = [c \in Conn |-> "closed"]
  /\ server = [c \in Conn |-> "none"]
  /\ reset = [c \in Conn |-> FALSE]
  /\ down = [c \in Conn |-> <<>>]
  /\ up = [c \in Conn |-> <<>>]

NetConnect ==
  /\ acceptor /\ made < MaxConn
  /\ made' = made + 1
  /\ backlog' = Append(backlog, made')
  /\ client' = [client EXCEPT ![made'] = "open"]
  /\ UNCHANGED <<acceptor, server, reset, down, up>>

NetBreak(c) ==
  /\ client[c] = "open" /\ server[c] = "open" /\ ~reset[c]
  /\ reset' = [reset EXCEPT ![c] = TRUE]
  /\ down' = [down EXCEPT ![c] = <<>>]
  /\ up' = [up EXCEPT ![c] = <<>>]
  /\ UNCHANGED <<acceptor, made, backlog, client, server>>

(* A write to an end that is closed, or to a broken connection, is lost. *)
Sent(stream, c, peer, m) ==
  IF peer # "closed" /\ ~reset[c]
  THEN [stream EXCEPT ![c] = Append(@, m)] ELSE stream

TcpTypeOK ==
  /\ acceptor \in BOOLEAN
  /\ made \in 0..MaxConn
  /\ backlog \in Seq(Conn)
  /\ client \in [Conn -> {"open", "closed"}]
  /\ server \in [Conn -> {"none", "open", "closed"}]
  /\ reset \in [Conn -> BOOLEAN]
  /\ down \in [Conn -> Seq(Message)]
  /\ up \in [Conn -> Seq(Message)]
=============================================================================
