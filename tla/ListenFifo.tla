----------------------------- MODULE ListenFifo -----------------------------
(***************************************************************************)
(* What the shared-memory message queue promises, without semaphores,      *)
(* locks, indices or names: every generation of the shared memory holds a  *)
(* bounded first-in-first-out queue; each call of Add puts its message at  *)
(* most once, into at most one generation, or gives it up; a successful    *)
(* Get removes exactly the oldest message.                                 *)
(***************************************************************************)
EXTENDS Naturals, Sequences

CONSTANTS
  Clients,     (* the processes that add messages                          *)
  Masters,     (* the processes that fetch them                            *)
  Capacity,    (* the number of messages one generation holds              *)
  MaxSegment,  (* the number of generations                                *)
  NoMsg        (* the value of a message buffer never written              *)

VARIABLES
  fifo,   (* fifo[s]: the messages of generation s, the oldest first        *)
  dest,   (* dest[m]: the message the last successful Get of m returned     *)
  sent,   (* sent[c]: the number of Add calls that c has made               *)
  busy    (* busy[c]: the current Add call of c has not settled its message *)

vars == <<fifo, dest, sent, busy>>

Init ==
  /\ fifo = [s \in 1..MaxSegment |-> <<>>]
  /\ dest = [m \in Masters |-> NoMsg]
  /\ sent = [c \in Clients |-> 0]
  /\ busy = [c \in Clients |-> FALSE]

Call(c) ==
  /\ ~busy[c]
  /\ busy' = [busy EXCEPT ![c] = TRUE]
  /\ sent' = [sent EXCEPT ![c] = @ + 1]
  /\ UNCHANGED <<fifo, dest>>

(* The message enters one queue, behind every message already there. *)
Put(c, s) ==
  /\ busy[c]
  /\ Len(fifo[s]) < Capacity
  /\ fifo' = [fifo EXCEPT ![s] = Append(@, <<c, sent[c]>>)]
  /\ busy' = [busy EXCEPT ![c] = FALSE]
  /\ UNCHANGED <<dest, sent>>

(* No shared memory, or the client is stopping: the message is lost. *)
Drop(c) ==
  /\ busy[c]
  /\ busy' = [busy EXCEPT ![c] = FALSE]
  /\ UNCHANGED <<fifo, dest, sent>>

Take(m, s) ==
  /\ fifo[s] # <<>>
  /\ dest' = [dest EXCEPT ![m] = Head(fifo[s])]
  /\ fifo' = [fifo EXCEPT ![s] = Tail(@)]
  /\ UNCHANGED <<sent, busy>>

Next ==
  \/ \E c \in Clients : Call(c) \/ Drop(c)
  \/ \E c \in Clients, s \in 1..MaxSegment : Put(c, s)
  \/ \E m \in Masters, s \in 1..MaxSegment : Take(m, s)

Spec == Init /\ [][Next]_vars
=============================================================================
