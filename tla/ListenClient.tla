----------------------------- MODULE ListenClient -----------------------------
(***************************************************************************)
(* The clients of a listen server.  The worker of each looks the host up,  *)
(* connects, reads, and after any error waits and begins again; the thread *)
(* that owns the client sends log levels and destroys it.                  *)
(***************************************************************************)
EXTENDS ListenTcp

CONSTANT MaxSend   (* bound: the levels that a client sends *)

ASSUME ClientAssumption == MaxSend \in Nat

VARIABLES
  cpc,         (* the worker                                               *)
  conn,        (* the connection of the socket, 0 if it has none           *)
  connected,   (* connected_                                               *)
  inbox,       (* history: the texts that have come into msg_queue_        *)
  sends        (* the levels sent                                          *)

listening == <<cpc, conn, connected, inbox, sends>>

ClientInit ==
  /\ cpc = [k \in Clients |-> "lookup"]
  /\ conn = [k \in Clients |-> 0]
  /\ connected = [k \in Clients |-> FALSE]
  /\ inbox = [k \in Clients |-> <<>>]
  /\ sends = [k \in Clients |-> 0]

IsOpen(k) == conn[k] # 0 /\ client[conn[k]] = "open"

(* The end of the socket's connection at the client. *)
Shut(k) ==
  IF IsOpen(k)
  THEN /\ client' = [client EXCEPT ![conn[k]] = "closed"]
       /\ down' = [down EXCEPT ![conn[k]] = <<>>]
  ELSE UNCHANGED <<client, down>>

(* DoRetryWait clears connected_ before it calls Close, which does nothing *)
(* then: the socket stays as it is until the next lookup replaces it.  The *)
(* wait and lookups that fail are not seen: the worker is at the next one. *)
RetryWait(k) ==
  /\ cpc' = [cpc EXCEPT ![k] = "lookup"]
  /\ connected' = [connected EXCEPT ![k] = FALSE]
  /\ UNCHANGED <<tcp, conn, inbox, sends>>

Lookup(k) ==
  /\ cpc[k] = "lookup"
  /\ Shut(k)
  /\ conn' = [conn EXCEPT ![k] = 0]
  /\ cpc' = [cpc EXCEPT ![k] = "connect"]
  /\ UNCHANGED <<acceptor, made, backlog, server, reset, up, connected,
                 inbox, sends>>

Connect(k) ==
  /\ cpc[k] = "connect"
  /\ NetConnect
  /\ conn' = [conn EXCEPT ![k] = made']
  /\ connected' = [connected EXCEPT ![k] = TRUE]
  /\ cpc' = [cpc EXCEPT ![k] = "read"]
  /\ UNCHANGED <<inbox, sends>>

ConnectError(k) == cpc[k] = "connect" /\ RetryWait(k)

Read(k) ==
  /\ cpc[k] = "read" /\ IsOpen(k)
  /\ down[conn[k]] # <<>>
  /\ LET m == Head(down[conn[k]]) IN
     inbox' = IF IsText(m) THEN [inbox EXCEPT ![k] = Append(@, m)] ELSE inbox
  /\ down' = [down EXCEPT ![conn[k]] = Tail(@)]
  /\ UNCHANGED <<acceptor, made, backlog, client, server, reset, up, cpc,
                 conn, connected, sends>>

(* End of file after the last message, or a broken connection. *)
ReadFails(k) ==
  /\ cpc[k] = "read"
  /\ \/ reset[conn[k]]
     \/ server[conn[k]] = "closed" /\ down[conn[k]] = <<>>
  /\ RetryWait(k)

(* SendLogLevel writes to whatever socket there is. *)
SendLogLevel(k, l) ==
  /\ sends[k] < MaxSend
  /\ IsOpen(k)
  /\ sends' = [sends EXCEPT ![k] = @ + 1]
  /\ up' = Sent(up, conn[k], server[conn[k]], Level(l))
  /\ UNCHANGED <<acceptor, made, backlog, client, server, reset, down, cpc,
                 conn, connected, inbox>>

(* The destructor: Close, the end of the worker, and that of the socket.   *)
(* A connection that the worker makes between Close and its end comes to   *)
(* the same as one made just before.                                       *)
EndClient(k) ==
  /\ cpc[k] # "ended"
  /\ cpc' = [cpc EXCEPT ![k] = "ended"]
  /\ Shut(k)
  /\ conn' = [conn EXCEPT ![k] = 0]
  /\ connected' = [connected EXCEPT ![k] = FALSE]
  /\ UNCHANGED <<acceptor, made, backlog, server, reset, up, inbox, sends>>

ClientTypeOK ==
  /\ cpc \in [Clients -> {"lookup", "connect", "read", "ended"}]
  /\ conn \in [Clients -> Conn \cup {0}]
  /\ connected \in [Clients -> BOOLEAN]
  /\ inbox \in [Clients -> Seq(Message)]
  /\ sends \in [Clients -> 0..MaxSend]
=============================================================================
