----------------------------- MODULE ListenSystem -----------------------------
(***************************************************************************)
(* A listen server and its clients, which meet in the connections of       *)
(* ListenTcp only.  What follows the use of a connection that is erased is *)
(* undefined: such a behaviour ends there (Sound).                         *)
(***************************************************************************)
EXTENDS ListenServer, ListenClient

vars == <<tcp, serving, listening>>

Sound == ~broken

Init == TcpInit /\ ServerInit /\ ClientInit

Serving(action)   == Sound /\ UNCHANGED listening /\ action
Listening(action) == Sound /\ UNCHANGED serving /\ action

Worker(k) ==
  \/ Lookup(k)
  \/ Connect(k)
  \/ ConnectError(k)
  \/ Read(k)
  \/ ReadFails(k)

(* The handlers of the server's worker. *)
Handler ==
  \/ Accept
  \/ AcceptError
  \/ Cleanup
  \/ Distribute
  \/ \E c \in Conn :
       \/ QueueTimer(c)
       \/ Written(c)
       \/ WriteError(c)
       \/ ReadError(c)
       \/ ReadLevel(c)

Next ==
  \/ Serving(Handler)
  \/ Serving(AddText)
  \/ Serving(ProxyAdd)
  \/ Serving(StopActive)
  \/ Serving(StopJoin)
  \/ Serving(Destroy)
  \/ \E c \in Conn : Serving(NetBreak(c) /\ UNCHANGED serving)
  \/ \E k \in Clients :
       \/ Listening(Worker(k))
       \/ Listening(EndClient(k))
       \/ \E l \in Levels : Listening(SendLogLevel(k, l))

Spec == Init /\ [][Next]_vars

(* The workers are scheduled: a context that has a handler to run runs one *)
(* (which one is left open; each is finite work, and the calls and the     *)
(* network give them work only as far as the bounds allow).  Nothing is    *)
(* assumed of the network and of calls.                                    *)
FairSpec ==
  /\ Spec
  /\ WF_vars(Serving(Handler))
  /\ \A k \in Clients : WF_vars(Listening(Worker(k)))

-----------------------------------------------------------------------------
TypeOK == TcpTypeOK /\ ServerTypeOK /\ ClientTypeOK

(* What has been written to a connection and what is to be. *)
Destined(c) == got[c] \o queue[c]

Serves(c) == c \in listed /\ server[c] = "open"

(* SendLogLevel reaches every client: the last level on the way to a       *)
(* connection, whenever it joined, is the one the server has.              *)
LevelLast == \A c \in Conn : Serves(c) => LastLevel(Destined(c), level)

(* A connection gets a level and then all that is handled after it has     *)
(* joined, once and in order, wherever it was added and whoever joins and  *)
(* leaves.  The client at the other end has each of these texts, or it is  *)
(* on its way, as long as the network holds.                               *)
AllDestined(c) ==
  \E l \in Levels \cup {0} :
    Destined(c) = <<Level(l)>> \o SubSeq(handled, mark[c] + 1, Len(handled))

Has(q, m) == \E i \in 1..Len(q) : q[i] = m

NoneMissing(k) ==
  \A i \in (mark[conn[k]] + 1)..Len(handled) :
    IsText(handled[i]) =>
      Has(inbox[k] \o down[conn[k]] \o queue[conn[k]], handled[i])

TextComplete ==
  /\ \A c \in Conn : Serves(c) => AllDestined(c)
  /\ \A k \in Clients :
       conn[k] # 0 /\ Serves(conn[k]) /\ ~reset[conn[k]] => NoneMissing(k)

Place(m) == CHOOSE i \in 1..Len(handled) : handled[i] = m

(* A client that loses its connection and makes another one gets no text   *)
(* twice, nor one that is older than what it has.                          *)
InOrder ==
  \A k \in Clients :
    \A i, j \in 1..Len(inbox[k]) :
      i < j => Place(inbox[k][i]) < Place(inbox[k][j])

(* The server is being stopped, or what it does is undefined. *)
Off == spc # "run" \/ ~Sound

Connected == \E c \in Conn : client[c] = "open" /\ ~reset[c]

(* IsActive is "true if any listen window is connected": the flag follows  *)
(* when clients connect and leave, while the server accepts and is not     *)
(* stopped.                                                                *)
ActiveFollows ==
  (active # Connected) ~>
    active = Connected \/ (Connected /\ ~accepting) \/ Off

(* A client that is connected and is behind with what was handled for its  *)
(* connection catches up, unless the connection ends.                      *)
Behind(k) ==
  /\ conn[k] # 0 /\ Serves(conn[k])
  /\ \E i \in (mark[conn[k]] + 1)..Len(handled) :
       /\ IsText(handled[i])
       /\ \A j \in 1..Len(inbox[k]) : inbox[k][j] # handled[i]

Arrives ==
  \A k \in Clients : Behind(k) ~> ~Behind(k) \/ cpc[k] # "read" \/ Off
=============================================================================
