---------------------------- MODULE LogChainProofs ----------------------------
(***************************************************************************)
(* Proofs about LogChain, for any number of threads and messages, any      *)
(* number of messages per turn and either logger:                          *)
(*   ChainTypeCorrect   the type invariant                                 *)
(*   MessagesConserved  Conserved                                          *)
(*   StopLeavesNothing  StopHandlesAll                                     *)
(*   ChainNoOtherKnot   NoOtherKnot                                        *)
(* They rest on one inductive invariant, IInv.                             *)
(***************************************************************************)
EXTENDS LogChain, SequenceTheorems, TLAPS

(* The worker has a message in hand only while it handles it. *)
HandInv == wpc \notin {"write", "send", "finalWrite"} => hand = <<>>

(* A thread inside a call has a message. *)
SentInv == \A t \in Thread : ~At(t, "idle") => sent[t] # 0

(* A turn of the file worker has room for the message it writes. *)
CountInv == type = "LogToFile" /\ wpc \in {"write", "relock"} => count < Batch

(* The flag is up exactly while the owner joins the worker; the file       *)
(* worker ends only with the flag up; the worker is there until the logger *)
(* is about to leave the chain.                                            *)
StopInv ==
  /\ stop <=> opc \in {"deleteJoin", "chainJoin"}
  /\ stop => present
  /\ type = "LogToFile" /\ wpc \in {"final", "finalWrite", "ended"} => stop
  /\ present /\ opc # "chainClear" => wpc # "none"

(* Who holds which mutex.  The worker calls AddLogMessage at three places  *)
(* of its loop; when it gets so far as to push, it did not have its own    *)
(* mutex when it called.                                                   *)
LockInv ==
  /\ \A t \in Thread : chain = t <=> apc[t] \in {"test", "lock", "push", "leave"}
  /\ chain = Owner <=> opc = "deleteJoin"
  /\ \A a \in Adders : locker = a <=> At(a, "push")
  /\ locker = Worker <=> At(Worker, "push") \/ wpc \in {"drain", "unlock"}
  /\ ~At(Worker, "idle") => wpc \in {"turn", "relock", "unlock"}
  /\ At(Worker, "push") => wpc # "unlock"

(* While the logger stops, what was in the list is still somewhere, and    *)
(* has been handled when the file worker has ended.                        *)
Held == SeqRange(done) \cup SeqRange(hand) \cup SeqRange(list)

DueInv ==
  /\ stop => due \subseteq Held
  /\ type = "LogToFile" /\ wpc = "ended" => due \subseteq SeqRange(done)

IInv ==
  /\ TypeOK
  /\ HandInv
  /\ SentInv
  /\ CountInv
  /\ StopInv
  /\ LockInv
  /\ Conserved
  /\ DueInv

-----------------------------------------------------------------------------
(* Sequences: what the worker and the threads do to the three parts. *)

(* A pushed message is the last one of the whole. *)
LEMMA PushOrder ==
  ASSUME NEW d \in Seq(Msg), NEW h \in Seq(Msg), NEW l \in Seq(Msg),
         NEW e \in Msg
  PROVE  Append(d \o h \o l, e) = d \o h \o Append(l, e)
<1>1. d \o h \in Seq(Msg) /\ (d \o h) \o l \in Seq(Msg) /\ <<e>> \in Seq(Msg)
  BY ConcatProperties
<1>2. Append((d \o h) \o l, e) = ((d \o h) \o l) \o <<e>>
  BY <1>1, AppendIsConcat
<1>3. ((d \o h) \o l) \o <<e>> = (d \o h) \o (l \o <<e>>)
  BY <1>1, ConcatAssociative
<1>4. l \o <<e>> = Append(l, e)
  BY AppendIsConcat
<1>. QED  BY <1>2, <1>3, <1>4

(* A sequence is its head and its tail. *)
LEMMA HeadAndTail ==
  ASSUME NEW S, NEW l \in Seq(S), l # <<>>
  PROVE  <<Head(l)>> \in Seq(S) /\ <<Head(l)>> \o Tail(l) = l
<1>1. <<Head(l)>> \in Seq(S) /\ Tail(l) \in Seq(S) /\ Len(l) \in Nat /\ Len(l) > 0
  BY HeadTailProperties, LenProperties, EmptySeq
<1>2. <<Head(l)>> \o Tail(l) \in Seq(S) /\ Len(<<Head(l)>> \o Tail(l)) = Len(l)
  BY <1>1, ConcatProperties, HeadTailProperties
<1>3. \A i \in 1..Len(l) : (<<Head(l)>> \o Tail(l))[i] = l[i]
  BY <1>1, ConcatProperties, HeadTailProperties
<1>. QED  BY <1>1, <1>2, <1>3, SeqEqual

(* A message that is taken out keeps its place. *)
LEMMA PopOrder ==
  ASSUME NEW S, NEW d \in Seq(S), NEW l \in Seq(S), l # <<>>
  PROVE  d \o <<>> \o l = d \o <<Head(l)>> \o Tail(l)
<1>1. <<Head(l)>> \in Seq(S) /\ Tail(l) \in Seq(S) /\ <<Head(l)>> \o Tail(l) = l
  BY HeadAndTail, HeadTailProperties
<1>2. d \o <<>> = d
  BY ConcatEmptySeq
<1>3. (d \o <<Head(l)>>) \o Tail(l) = d \o (<<Head(l)>> \o Tail(l))
  BY <1>1, ConcatAssociative
<1>. QED  BY <1>1, <1>2, <1>3

(* And so does one that is handled. *)
LEMMA WriteOrder ==
  ASSUME NEW S, NEW d \in Seq(S), NEW h \in Seq(S), NEW l \in Seq(S)
  PROVE  d \o h \o l = (d \o h) \o <<>> \o l
<1>1. d \o h \in Seq(S)
  BY ConcatProperties
<1>. QED  BY <1>1, ConcatEmptySeq

(* Nothing leaves a sequence that is appended to. *)
LEMMA RangeAppend ==
  ASSUME NEW S, NEW l \in Seq(S), NEW e \in S
  PROVE  SeqRange(l) \subseteq SeqRange(Append(l, e))
<1>1. Len(l) \in Nat /\ Len(Append(l, e)) = Len(l) + 1
        /\ \A i \in 1..Len(l) : Append(l, e)[i] = l[i]
  BY AppendProperties, LenProperties
<1>. QED  BY <1>1 DEF SeqRange

(* A concatenation has the elements of both. *)
LEMMA RangeConcat ==
  ASSUME NEW S, NEW s \in Seq(S), NEW t \in Seq(S)
  PROVE  SeqRange(s) \cup SeqRange(t) \subseteq SeqRange(s \o t)
<1>1. /\ Len(s) \in Nat /\ Len(t) \in Nat /\ Len(s \o t) = Len(s) + Len(t)
      /\ \A i \in 1..(Len(s) + Len(t)) : (s \o t)[i] =
            IF i <= Len(s) THEN s[i] ELSE t[i - Len(s)]
  BY ConcatProperties, LenProperties
<1>2. SeqRange(s) \subseteq SeqRange(s \o t)
  BY <1>1 DEF SeqRange
<1>3. \A i \in 1..Len(t) : t[i] \in SeqRange(s \o t)
  <2> TAKE i \in 1..Len(t)
  <2>1. Len(s) + i \in 1..Len(s \o t) /\ (s \o t)[Len(s) + i] = t[i]
    BY <1>1
  <2>. QED  BY <2>1 DEF SeqRange
<1>. QED  BY <1>2, <1>3 DEF SeqRange

(* A message that is taken out is in hand. *)
LEMMA RangePop ==
  ASSUME NEW S, NEW l \in Seq(S), l # <<>>
  PROVE  SeqRange(l) \subseteq SeqRange(<<Head(l)>>) \cup SeqRange(Tail(l))
<1>1. /\ Tail(l) \in Seq(S) /\ Len(l) \in Nat /\ Len(Tail(l)) = Len(l) - 1
      /\ \A i \in 1..Len(Tail(l)) : Tail(l)[i] = l[i + 1]
  BY HeadTailProperties, LenProperties
<1>2. \A i \in 1..Len(l) : l[i] \in SeqRange(<<Head(l)>>) \cup SeqRange(Tail(l))
  <2> TAKE i \in 1..Len(l)
  <2>1. CASE i = 1
    <3>1. Head(l) = l[1] /\ <<Head(l)>>[1] = Head(l) /\ Len(<<Head(l)>>) = 1
      OBVIOUS
    <3>. QED  BY <2>1, <3>1 DEF SeqRange
  <2>2. CASE i # 1
    <3>1. i - 1 \in 1..Len(Tail(l)) /\ Tail(l)[i - 1] = l[i]
      BY <1>1, <2>2
    <3>. QED  BY <3>1 DEF SeqRange
  <2>. QED  BY <2>1, <2>2
<1>. QED  BY <1>2 DEF SeqRange
-----------------------------------------------------------------------------
(* The type invariant. *)

(* The first state satisfies the invariant. *)
LEMMA InitInv == Init => IInv
<1> SUFFICES ASSUME Init PROVE IInv
  OBVIOUS
<1> USE DEF Init, LogInit
<1>1. TypeOK
  <2>1. wpc \in {"start", "turn"}
    OBVIOUS
  <2>2. /\ 0 \in 0..MaxMsg /\ 0 \in 0..MaxCall /\ 0 \in 0..Batch
        /\ <<>> \in Seq(Msg)
    BY LogConfigAssumption, LogFileAssumption, EmptySeq
  <2>. QED  BY <2>1, <2>2 DEF TypeOK
<1>2. HandInv /\ SentInv /\ CountInv /\ StopInv
  BY DEF HandInv, SentInv, CountInv, StopInv, At
<1>3. Conserved
  BY ConcatEmptySeq, EmptySeq DEF Conserved
<1>4. DueInv
  BY DEF DueInv
<1>5. LockInv
  BY LogConfigAssumption DEF LockInv, At, Thread
<1>. QED  BY <1>1, <1>2, <1>3, <1>4, <1>5 DEF IInv

(* A thread counts its calls up to the bound. *)
LEMMA SentType ==
  ASSUME TypeOK, NEW t \in Thread, StartLog(t)
  PROVE  /\ sent' \in [Thread -> 0..MaxMsg]
         /\ apc' \in [Thread -> {"idle", "chain", "test", "lock", "push", "leave"}]
<1>1. sent[t] \in 0..MaxMsg /\ sent[t] < MaxMsg
  BY DEF TypeOK, StartLog
<1>2. sent[t] + 1 \in 0..MaxMsg
  BY <1>1, LogConfigAssumption
<1>3. sent' \in [Thread -> 0..MaxMsg]
  BY <1>2 DEF TypeOK, StartLog
<1>4. apc' \in [Thread -> {"idle", "chain", "test", "lock", "push", "leave"}]
  BY DEF TypeOK, StartLog, Goto
<1>. QED  BY <1>3, <1>4

(* The worker logs or not. *)
LEMMA WorkerLogsType ==
  ASSUME TypeOK, WorkerLogs \/ UNCHANGED logging
  PROVE  /\ sent' \in [Thread -> 0..MaxMsg]
         /\ apc' \in [Thread -> {"idle", "chain", "test", "lock", "push", "leave"}]
<1>1. Worker \in Thread
  BY DEF Thread
<1>2. CASE StartLog(Worker)
  BY <1>1, <1>2, SentType
<1>3. CASE UNCHANGED logging
  BY <1>3 DEF logging, TypeOK
<1>. QED  BY <1>2, <1>3 DEF WorkerLogs

(* A call in progress carries a message. *)
LEMMA ThreadMsg ==
  ASSUME IInv, NEW t \in Thread, ~At(t, "idle")
  PROVE  <<t, sent[t]>> \in Msg
<1>1. sent[t] \in 0..MaxMsg /\ sent[t] # 0
  BY DEF IInv, TypeOK, SentInv
<1>. QED  BY <1>1, LogConfigAssumption DEF Msg

(* Every step keeps the types. *)
LEMMA TypeStep == IInv /\ [Next]_lvars => TypeOK'
<1> SUFFICES ASSUME IInv, [Next]_lvars PROVE TypeOK'
  OBVIOUS
<1>Type. TypeOK
  BY DEF IInv
<1> USE <1>Type DEF TypeOK, vars, files, logging, worker, owner, At, Goto, WorkerAt
<1>LogCall. ASSUME NEW a \in Adders, LogCall(a), UNCHANGED <<files, inService>> PROVE TypeOK'
  <2>1. a \in Thread
    BY DEF Thread
  <2>2. /\ sent' \in [Thread -> 0..MaxMsg]
        /\ apc' \in [Thread -> {"idle", "chain", "test", "lock", "push", "leave"}]
    BY <1>LogCall, <2>1, SentType DEF LogCall
  <2>. QED  BY <1>LogCall, <2>2 DEF LogCall
<1>LogLock. ASSUME NEW t \in Thread, LogLock(t), UNCHANGED <<files, inService>> PROVE TypeOK'
  BY <1>LogLock DEF LogLock
<1>AddTest. ASSUME NEW t \in Thread, AddTest(t), UNCHANGED <<files, inService>> PROVE TypeOK'
  BY <1>AddTest DEF AddTest
<1>AddLock. ASSUME NEW t \in Thread, AddLock(t), UNCHANGED <<files, inService>> PROVE TypeOK'
  <2>1. apc' \in [Thread -> {"idle", "chain", "test", "lock", "push", "leave"}]
    BY <1>AddLock DEF AddLock
  <2>2. locker' \in Thread \cup {Free}
    BY <1>AddLock DEF AddLock
  <2>. QED  BY <1>AddLock, <2>1, <2>2 DEF AddLock
<1>AddPush. ASSUME NEW t \in Thread, AddPush(t), UNCHANGED <<files, inService>> PROVE TypeOK'
  <2>1. <<t, sent[t]>> \in Msg
    BY <1>AddPush, ThreadMsg DEF AddPush
  <2>2. list' \in Seq(Msg) /\ accepted' \in Seq(Msg)
    BY <1>AddPush, <2>1, AppendProperties DEF AddPush
  <2>. QED  BY <1>AddPush, <2>2 DEF AddPush
<1>LogUnlock. ASSUME NEW t \in Thread, LogUnlock(t), UNCHANGED <<files, inService>> PROVE TypeOK'
  BY <1>LogUnlock DEF LogUnlock
<1>FileStart. ASSUME type = "LogToFile", FileStart, UNCHANGED inService PROVE TypeOK'
  <2>1. /\ sent' \in [Thread -> 0..MaxMsg]
        /\ apc' \in [Thread -> {"idle", "chain", "test", "lock", "push", "leave"}]
    BY <1>FileStart, WorkerLogsType DEF FileStart
  <2>. QED  BY <1>FileStart, <2>1 DEF FileStart
<1>FileTurn. ASSUME type = "LogToFile", FileTurn, UNCHANGED inService PROVE TypeOK'
  <2>1. Worker \in Thread
    BY DEF Thread
  <2>. QED  BY <1>FileTurn, <2>1, LogFileAssumption DEF FileTurn
<1>FileWake. ASSUME type = "LogToFile", FileWake, UNCHANGED inService PROVE TypeOK'
  <2>1. Worker \in Thread
    BY DEF Thread
  <2>. QED  BY <1>FileWake, <2>1, LogFileAssumption DEF FileWake
<1>FilePop. ASSUME type = "LogToFile", FilePop, UNCHANGED inService PROVE TypeOK'
  <2>1. Head(list) \in Msg /\ Tail(list) \in Seq(Msg)
    BY <1>FilePop, HeadTailProperties DEF FilePop
  <2>2. <<Head(list)>> \in Seq(Msg)
    BY <2>1
  <2>. QED  BY <1>FilePop, <2>1, <2>2 DEF FilePop
<1>FileWrite. ASSUME type = "LogToFile", FileWrite, UNCHANGED inService PROVE TypeOK'
  <2>1. done \o hand \in Seq(Msg) /\ <<>> \in Seq(Msg)
    BY ConcatProperties, EmptySeq
  <2>2. SeqRange(hand) \subseteq Msg
    BY ElementOfSeq DEF SeqRange
  <2>. QED  BY <1>FileWrite, <2>1, <2>2 DEF FileWrite, HandleMessage
<1>FileRelock. ASSUME type = "LogToFile", FileRelock, UNCHANGED inService PROVE TypeOK'
  <2>1. count + 1 \in 0..Batch
    BY <1>FileRelock, LogFileAssumption DEF FileRelock, IInv, CountInv
  <2>2. Worker \in Thread
    BY DEF Thread
  <2>. QED  BY <1>FileRelock, <2>1, <2>2 DEF FileRelock
<1>FileClose. ASSUME type = "LogToFile", FileClose, UNCHANGED inService PROVE TypeOK'
  <2>1. /\ sent' \in [Thread -> 0..MaxMsg]
        /\ apc' \in [Thread -> {"idle", "chain", "test", "lock", "push", "leave"}]
    BY <1>FileClose, WorkerLogsType DEF FileClose
  <2>. QED  BY <1>FileClose, <2>1 DEF FileClose
<1>FileUnlock. ASSUME type = "LogToFile", FileUnlock, UNCHANGED inService PROVE TypeOK'
  BY <1>FileUnlock DEF FileUnlock
<1>FileTest. ASSUME type = "LogToFile", FileTest, UNCHANGED inService PROVE TypeOK'
  BY <1>FileTest DEF FileTest
<1>FileFinalPop. ASSUME type = "LogToFile", FileFinalPop, UNCHANGED inService PROVE TypeOK'
  <2>1. Head(list) \in Msg /\ Tail(list) \in Seq(Msg)
    BY <1>FileFinalPop, HeadTailProperties DEF FileFinalPop
  <2>2. <<Head(list)>> \in Seq(Msg)
    BY <2>1
  <2>. QED  BY <1>FileFinalPop, <2>1, <2>2 DEF FileFinalPop
<1>FileFinalWrite. ASSUME type = "LogToFile", FileFinalWrite, UNCHANGED inService PROVE TypeOK'
  <2>1. done \o hand \in Seq(Msg) /\ <<>> \in Seq(Msg)
    BY ConcatProperties, EmptySeq
  <2>2. SeqRange(hand) \subseteq Msg
    BY ElementOfSeq DEF SeqRange
  <2>. QED  BY <1>FileFinalWrite, <2>1, <2>2 DEF FileFinalWrite, HandleMessage
<1>FileEnd. ASSUME type = "LogToFile", FileEnd, UNCHANGED inService PROVE TypeOK'
  BY <1>FileEnd DEF FileEnd
<1>SyslogTurn. ASSUME type = "LogToSyslog", SyslogTurn, UNCHANGED files PROVE TypeOK'
  <2>1. Worker \in Thread
    BY DEF Thread
  <2>. QED  BY <1>SyslogTurn, <2>1, LogFileAssumption DEF SyslogTurn
<1>SyslogWake. ASSUME type = "LogToSyslog", SyslogWake, UNCHANGED files PROVE TypeOK'
  <2>1. Worker \in Thread
    BY DEF Thread
  <2>. QED  BY <1>SyslogWake, <2>1, LogFileAssumption DEF SyslogWake
<1>SyslogPop. ASSUME type = "LogToSyslog", SyslogPop, UNCHANGED files PROVE TypeOK'
  <2>1. Head(list) \in Msg /\ Tail(list) \in Seq(Msg)
    BY <1>SyslogPop, HeadTailProperties DEF SyslogPop
  <2>2. <<Head(list)>> \in Seq(Msg)
    BY <2>1
  <2>. QED  BY <1>SyslogPop, <2>1, <2>2 DEF SyslogPop
<1>SyslogSend. ASSUME type = "LogToSyslog", SyslogSend, UNCHANGED files PROVE TypeOK'
  <2>1. done \o hand \in Seq(Msg) /\ <<>> \in Seq(Msg)
    BY ConcatProperties, EmptySeq
  <2>2. /\ sent' \in [Thread -> 0..MaxMsg]
        /\ apc' \in [Thread -> {"idle", "chain", "test", "lock", "push", "leave"}]
    BY <1>SyslogSend, WorkerLogsType DEF SyslogSend
  <2>. QED  BY <1>SyslogSend, <2>1, <2>2 DEF SyslogSend
<1>SyslogRelock. ASSUME type = "LogToSyslog", SyslogRelock, UNCHANGED files PROVE TypeOK'
  <2>1. Worker \in Thread
    BY DEF Thread
  <2>. QED  BY <1>SyslogRelock, <2>1, LogFileAssumption DEF SyslogRelock
<1>SyslogUnlock. ASSUME type = "LogToSyslog", SyslogUnlock, UNCHANGED files PROVE TypeOK'
  BY <1>SyslogUnlock DEF SyslogUnlock
<1>SyslogTest. ASSUME type = "LogToSyslog", SyslogTest, UNCHANGED files PROVE TypeOK'
  BY <1>SyslogTest DEF SyslogTest
<1>DeleteLoggerCall. ASSUME DeleteLoggerCall, UNCHANGED <<files, inService>> PROVE TypeOK'
  <2>1. calls + 1 \in 0..MaxCall
    BY <1>DeleteLoggerCall, LogConfigAssumption DEF DeleteLoggerCall, Call
  <2>. QED  BY <1>DeleteLoggerCall, <2>1 DEF DeleteLoggerCall, Call
<1>DeleteLogChainCall. ASSUME DeleteLogChainCall, UNCHANGED <<files, inService>> PROVE TypeOK'
  <2>1. SeqRange(list) \subseteq Msg
    BY ElementOfSeq DEF SeqRange
  <2>2. calls + 1 \in 0..MaxCall
    BY <1>DeleteLogChainCall, LogConfigAssumption DEF DeleteLogChainCall, Call
  <2>. QED  BY <1>DeleteLogChainCall, <2>1, <2>2 DEF DeleteLogChainCall, Call, StopThread
<1>DeleteLoggerLock. ASSUME DeleteLoggerLock, UNCHANGED <<files, inService>> PROVE TypeOK'
  <2>1. SeqRange(list) \subseteq Msg
    BY ElementOfSeq DEF SeqRange
  <2>. QED  BY <1>DeleteLoggerLock, <2>1 DEF DeleteLoggerLock, StopThread
<1>DeleteLoggerErase. ASSUME DeleteLoggerErase, UNCHANGED <<files, inService>> PROVE TypeOK'
  <2>1. <<>> \in Seq(Msg)
    BY EmptySeq
  <2>. QED  BY <1>DeleteLoggerErase, <2>1 DEF DeleteLoggerErase, JoinThread
<1>DeleteLogChainJoin. ASSUME DeleteLogChainJoin, UNCHANGED <<files, inService>> PROVE TypeOK'
  BY <1>DeleteLogChainJoin DEF DeleteLogChainJoin, JoinThread
<1>DeleteLogChainClear. ASSUME DeleteLogChainClear, UNCHANGED <<files, inService>> PROVE TypeOK'
  <2>1. <<>> \in Seq(Msg)
    BY EmptySeq
  <2>. QED  BY <1>DeleteLogChainClear, <2>1 DEF DeleteLogChainClear, JoinThread
<1>Stutter. CASE UNCHANGED lvars
  BY <1>Stutter DEF lvars
<1>. QED  BY <1>LogCall, <1>LogLock, <1>AddTest, <1>AddLock, <1>AddPush,
           <1>LogUnlock, <1>FileStart, <1>FileTurn, <1>FileWake, <1>FilePop,
           <1>FileWrite, <1>FileRelock, <1>FileClose, <1>FileUnlock,
           <1>FileTest, <1>FileFinalPop, <1>FileFinalWrite, <1>FileEnd,
           <1>SyslogTurn, <1>SyslogWake, <1>SyslogPop, <1>SyslogSend,
           <1>SyslogRelock, <1>SyslogUnlock, <1>SyslogTest,
           <1>DeleteLoggerCall, <1>DeleteLogChainCall, <1>DeleteLoggerLock,
           <1>DeleteLoggerErase, <1>DeleteLogChainJoin,
           <1>DeleteLogChainClear, <1>Stutter DEF Next, LogStep,
           WorkerThread, FileThread, SyslogThread, OwnerCall, OwnerStep

(* Only the worker takes a message in hand, on its way to handle it. *)
LEMMA HandStep == IInv /\ [Next]_lvars => HandInv'
<1> SUFFICES ASSUME IInv, [Next]_lvars PROVE HandInv'
  OBVIOUS
<1>Old. HandInv
  BY DEF IInv
<1> USE <1>Old DEF HandInv, vars, logging, worker, owner, At, Goto, WorkerAt
<1>LogCall. ASSUME NEW a \in Adders, LogCall(a), UNCHANGED <<files, inService>> PROVE HandInv'
  BY <1>LogCall DEF LogCall, StartLog
<1>LogLock. ASSUME NEW t \in Thread, LogLock(t), UNCHANGED <<files, inService>> PROVE HandInv'
  BY <1>LogLock DEF LogLock
<1>AddTest. ASSUME NEW t \in Thread, AddTest(t), UNCHANGED <<files, inService>> PROVE HandInv'
  BY <1>AddTest DEF AddTest
<1>AddLock. ASSUME NEW t \in Thread, AddLock(t), UNCHANGED <<files, inService>> PROVE HandInv'
  BY <1>AddLock DEF AddLock
<1>AddPush. ASSUME NEW t \in Thread, AddPush(t), UNCHANGED <<files, inService>> PROVE HandInv'
  BY <1>AddPush DEF AddPush
<1>LogUnlock. ASSUME NEW t \in Thread, LogUnlock(t), UNCHANGED <<files, inService>> PROVE HandInv'
  BY <1>LogUnlock DEF LogUnlock
<1>FileStart. ASSUME type = "LogToFile", FileStart, UNCHANGED inService PROVE HandInv'
  BY <1>FileStart DEF FileStart, WorkerLogs, StartLog
<1>FileTurn. ASSUME type = "LogToFile", FileTurn, UNCHANGED inService PROVE HandInv'
  BY <1>FileTurn DEF FileTurn
<1>FileWake. ASSUME type = "LogToFile", FileWake, UNCHANGED inService PROVE HandInv'
  BY <1>FileWake DEF FileWake
<1>FilePop. ASSUME type = "LogToFile", FilePop, UNCHANGED inService PROVE HandInv'
  BY <1>FilePop DEF FilePop
<1>FileWrite. ASSUME type = "LogToFile", FileWrite, UNCHANGED inService PROVE HandInv'
  BY <1>FileWrite DEF FileWrite, HandleMessage
<1>FileRelock. ASSUME type = "LogToFile", FileRelock, UNCHANGED inService PROVE HandInv'
  BY <1>FileRelock DEF FileRelock
<1>FileClose. ASSUME type = "LogToFile", FileClose, UNCHANGED inService PROVE HandInv'
  BY <1>FileClose DEF FileClose, WorkerLogs, StartLog
<1>FileUnlock. ASSUME type = "LogToFile", FileUnlock, UNCHANGED inService PROVE HandInv'
  BY <1>FileUnlock DEF FileUnlock
<1>FileTest. ASSUME type = "LogToFile", FileTest, UNCHANGED inService PROVE HandInv'
  BY <1>FileTest DEF FileTest
<1>FileFinalPop. ASSUME type = "LogToFile", FileFinalPop, UNCHANGED inService PROVE HandInv'
  BY <1>FileFinalPop DEF FileFinalPop
<1>FileFinalWrite. ASSUME type = "LogToFile", FileFinalWrite, UNCHANGED inService PROVE HandInv'
  BY <1>FileFinalWrite DEF FileFinalWrite, HandleMessage
<1>FileEnd. ASSUME type = "LogToFile", FileEnd, UNCHANGED inService PROVE HandInv'
  BY <1>FileEnd DEF FileEnd
<1>SyslogTurn. ASSUME type = "LogToSyslog", SyslogTurn, UNCHANGED files PROVE HandInv'
  BY <1>SyslogTurn DEF SyslogTurn
<1>SyslogWake. ASSUME type = "LogToSyslog", SyslogWake, UNCHANGED files PROVE HandInv'
  BY <1>SyslogWake DEF SyslogWake
<1>SyslogPop. ASSUME type = "LogToSyslog", SyslogPop, UNCHANGED files PROVE HandInv'
  BY <1>SyslogPop DEF SyslogPop
<1>SyslogSend. ASSUME type = "LogToSyslog", SyslogSend, UNCHANGED files PROVE HandInv'
  BY <1>SyslogSend DEF SyslogSend, WorkerLogs, StartLog
<1>SyslogRelock. ASSUME type = "LogToSyslog", SyslogRelock, UNCHANGED files PROVE HandInv'
  BY <1>SyslogRelock DEF SyslogRelock
<1>SyslogUnlock. ASSUME type = "LogToSyslog", SyslogUnlock, UNCHANGED files PROVE HandInv'
  BY <1>SyslogUnlock DEF SyslogUnlock
<1>SyslogTest. ASSUME type = "LogToSyslog", SyslogTest, UNCHANGED files PROVE HandInv'
  BY <1>SyslogTest DEF SyslogTest
<1>DeleteLoggerCall. ASSUME DeleteLoggerCall, UNCHANGED <<files, inService>> PROVE HandInv'
  BY <1>DeleteLoggerCall DEF DeleteLoggerCall, Call
<1>DeleteLogChainCall. ASSUME DeleteLogChainCall, UNCHANGED <<files, inService>> PROVE HandInv'
  BY <1>DeleteLogChainCall DEF DeleteLogChainCall, Call, StopThread
<1>DeleteLoggerLock. ASSUME DeleteLoggerLock, UNCHANGED <<files, inService>> PROVE HandInv'
  BY <1>DeleteLoggerLock DEF DeleteLoggerLock, StopThread
<1>DeleteLoggerErase. ASSUME DeleteLoggerErase, UNCHANGED <<files, inService>> PROVE HandInv'
  BY <1>DeleteLoggerErase DEF DeleteLoggerErase, JoinThread
<1>DeleteLogChainJoin. ASSUME DeleteLogChainJoin, UNCHANGED <<files, inService>> PROVE HandInv'
  BY <1>DeleteLogChainJoin DEF DeleteLogChainJoin, JoinThread
<1>DeleteLogChainClear. ASSUME DeleteLogChainClear, UNCHANGED <<files, inService>> PROVE HandInv'
  BY <1>DeleteLogChainClear DEF DeleteLogChainClear
<1>Stutter. CASE UNCHANGED lvars
  BY <1>Stutter DEF lvars
<1>. QED  BY <1>LogCall, <1>LogLock, <1>AddTest, <1>AddLock, <1>AddPush,
           <1>LogUnlock, <1>FileStart, <1>FileTurn, <1>FileWake, <1>FilePop,
           <1>FileWrite, <1>FileRelock, <1>FileClose, <1>FileUnlock,
           <1>FileTest, <1>FileFinalPop, <1>FileFinalWrite, <1>FileEnd,
           <1>SyslogTurn, <1>SyslogWake, <1>SyslogPop, <1>SyslogSend,
           <1>SyslogRelock, <1>SyslogUnlock, <1>SyslogTest,
           <1>DeleteLoggerCall, <1>DeleteLogChainCall, <1>DeleteLoggerLock,
           <1>DeleteLoggerErase, <1>DeleteLogChainJoin,
           <1>DeleteLogChainClear, <1>Stutter DEF Next, LogStep,
           WorkerThread, FileThread, SyslogThread, OwnerCall, OwnerStep

(* A thread starts a call with a new message. *)
LEMMA SentStep == IInv /\ [Next]_lvars => SentInv'
<1> SUFFICES ASSUME IInv, [Next]_lvars PROVE SentInv'
  OBVIOUS
<1>Old. /\ SentInv
       /\ sent \in [Thread -> 0..MaxMsg]
       /\ apc \in [Thread -> {"idle", "chain", "test", "lock", "push", "leave"}]
       /\ Worker \in Thread
  BY DEF IInv, TypeOK, Thread
<1> USE <1>Old DEF SentInv, vars, logging, worker, owner, At, Goto, WorkerAt
<1>LogCall. ASSUME NEW a \in Adders, LogCall(a), UNCHANGED <<files, inService>> PROVE SentInv'
  <2>1. a \in Thread
    BY DEF Thread
  <2>. QED  BY <1>LogCall, <2>1 DEF LogCall, StartLog
<1>LogLock. ASSUME NEW t \in Thread, LogLock(t), UNCHANGED <<files, inService>> PROVE SentInv'
  BY <1>LogLock DEF LogLock
<1>AddTest. ASSUME NEW t \in Thread, AddTest(t), UNCHANGED <<files, inService>> PROVE SentInv'
  BY <1>AddTest DEF AddTest
<1>AddLock. ASSUME NEW t \in Thread, AddLock(t), UNCHANGED <<files, inService>> PROVE SentInv'
  BY <1>AddLock DEF AddLock
<1>AddPush. ASSUME NEW t \in Thread, AddPush(t), UNCHANGED <<files, inService>> PROVE SentInv'
  BY <1>AddPush DEF AddPush
<1>LogUnlock. ASSUME NEW t \in Thread, LogUnlock(t), UNCHANGED <<files, inService>> PROVE SentInv'
  BY <1>LogUnlock DEF LogUnlock
<1>FileStart. ASSUME type = "LogToFile", FileStart, UNCHANGED inService PROVE SentInv'
  BY <1>FileStart DEF FileStart, WorkerLogs, StartLog
<1>FileTurn. ASSUME type = "LogToFile", FileTurn, UNCHANGED inService PROVE SentInv'
  BY <1>FileTurn DEF FileTurn
<1>FileWake. ASSUME type = "LogToFile", FileWake, UNCHANGED inService PROVE SentInv'
  BY <1>FileWake DEF FileWake
<1>FilePop. ASSUME type = "LogToFile", FilePop, UNCHANGED inService PROVE SentInv'
  BY <1>FilePop DEF FilePop
<1>FileWrite. ASSUME type = "LogToFile", FileWrite, UNCHANGED inService PROVE SentInv'
  BY <1>FileWrite DEF FileWrite, HandleMessage
<1>FileRelock. ASSUME type = "LogToFile", FileRelock, UNCHANGED inService PROVE SentInv'
  BY <1>FileRelock DEF FileRelock
<1>FileClose. ASSUME type = "LogToFile", FileClose, UNCHANGED inService PROVE SentInv'
  BY <1>FileClose DEF FileClose, WorkerLogs, StartLog
<1>FileUnlock. ASSUME type = "LogToFile", FileUnlock, UNCHANGED inService PROVE SentInv'
  BY <1>FileUnlock DEF FileUnlock
<1>FileTest. ASSUME type = "LogToFile", FileTest, UNCHANGED inService PROVE SentInv'
  BY <1>FileTest DEF FileTest
<1>FileFinalPop. ASSUME type = "LogToFile", FileFinalPop, UNCHANGED inService PROVE SentInv'
  BY <1>FileFinalPop DEF FileFinalPop
<1>FileFinalWrite. ASSUME type = "LogToFile", FileFinalWrite, UNCHANGED inService PROVE SentInv'
  BY <1>FileFinalWrite DEF FileFinalWrite, HandleMessage
<1>FileEnd. ASSUME type = "LogToFile", FileEnd, UNCHANGED inService PROVE SentInv'
  BY <1>FileEnd DEF FileEnd
<1>SyslogTurn. ASSUME type = "LogToSyslog", SyslogTurn, UNCHANGED files PROVE SentInv'
  BY <1>SyslogTurn DEF SyslogTurn
<1>SyslogWake. ASSUME type = "LogToSyslog", SyslogWake, UNCHANGED files PROVE SentInv'
  BY <1>SyslogWake DEF SyslogWake
<1>SyslogPop. ASSUME type = "LogToSyslog", SyslogPop, UNCHANGED files PROVE SentInv'
  BY <1>SyslogPop DEF SyslogPop
<1>SyslogSend. ASSUME type = "LogToSyslog", SyslogSend, UNCHANGED files PROVE SentInv'
  BY <1>SyslogSend DEF SyslogSend, WorkerLogs, StartLog
<1>SyslogRelock. ASSUME type = "LogToSyslog", SyslogRelock, UNCHANGED files PROVE SentInv'
  BY <1>SyslogRelock DEF SyslogRelock
<1>SyslogUnlock. ASSUME type = "LogToSyslog", SyslogUnlock, UNCHANGED files PROVE SentInv'
  BY <1>SyslogUnlock DEF SyslogUnlock
<1>SyslogTest. ASSUME type = "LogToSyslog", SyslogTest, UNCHANGED files PROVE SentInv'
  BY <1>SyslogTest DEF SyslogTest
<1>DeleteLoggerCall. ASSUME DeleteLoggerCall, UNCHANGED <<files, inService>> PROVE SentInv'
  BY <1>DeleteLoggerCall DEF DeleteLoggerCall, Call
<1>DeleteLogChainCall. ASSUME DeleteLogChainCall, UNCHANGED <<files, inService>> PROVE SentInv'
  BY <1>DeleteLogChainCall DEF DeleteLogChainCall, Call, StopThread
<1>DeleteLoggerLock. ASSUME DeleteLoggerLock, UNCHANGED <<files, inService>> PROVE SentInv'
  BY <1>DeleteLoggerLock DEF DeleteLoggerLock, StopThread
<1>DeleteLoggerErase. ASSUME DeleteLoggerErase, UNCHANGED <<files, inService>> PROVE SentInv'
  BY <1>DeleteLoggerErase DEF DeleteLoggerErase, JoinThread
<1>DeleteLogChainJoin. ASSUME DeleteLogChainJoin, UNCHANGED <<files, inService>> PROVE SentInv'
  BY <1>DeleteLogChainJoin DEF DeleteLogChainJoin, JoinThread
<1>DeleteLogChainClear. ASSUME DeleteLogChainClear, UNCHANGED <<files, inService>> PROVE SentInv'
  BY <1>DeleteLogChainClear DEF DeleteLogChainClear
<1>Stutter. CASE UNCHANGED lvars
  BY <1>Stutter DEF lvars
<1>. QED  BY <1>LogCall, <1>LogLock, <1>AddTest, <1>AddLock, <1>AddPush,
           <1>LogUnlock, <1>FileStart, <1>FileTurn, <1>FileWake, <1>FilePop,
           <1>FileWrite, <1>FileRelock, <1>FileClose, <1>FileUnlock,
           <1>FileTest, <1>FileFinalPop, <1>FileFinalWrite, <1>FileEnd,
           <1>SyslogTurn, <1>SyslogWake, <1>SyslogPop, <1>SyslogSend,
           <1>SyslogRelock, <1>SyslogUnlock, <1>SyslogTest,
           <1>DeleteLoggerCall, <1>DeleteLogChainCall, <1>DeleteLoggerLock,
           <1>DeleteLoggerErase, <1>DeleteLogChainJoin,
           <1>DeleteLogChainClear, <1>Stutter DEF Next, LogStep,
           WorkerThread, FileThread, SyslogThread, OwnerCall, OwnerStep

(* A message is popped only when the turn has room for it. *)
LEMMA CountStep == IInv /\ [Next]_lvars => CountInv'
<1> SUFFICES ASSUME IInv, [Next]_lvars PROVE CountInv'
  OBVIOUS
<1>Old. CountInv /\ count \in 0..Batch
  BY DEF IInv, TypeOK
<1> USE <1>Old, LogFileAssumption
    DEF CountInv, vars, files, logging, worker, owner, At, Goto, WorkerAt
<1>LogCall. ASSUME NEW a \in Adders, LogCall(a), UNCHANGED <<files, inService>> PROVE CountInv'
  BY <1>LogCall DEF LogCall, StartLog
<1>LogLock. ASSUME NEW t \in Thread, LogLock(t), UNCHANGED <<files, inService>> PROVE CountInv'
  BY <1>LogLock DEF LogLock
<1>AddTest. ASSUME NEW t \in Thread, AddTest(t), UNCHANGED <<files, inService>> PROVE CountInv'
  BY <1>AddTest DEF AddTest
<1>AddLock. ASSUME NEW t \in Thread, AddLock(t), UNCHANGED <<files, inService>> PROVE CountInv'
  BY <1>AddLock DEF AddLock
<1>AddPush. ASSUME NEW t \in Thread, AddPush(t), UNCHANGED <<files, inService>> PROVE CountInv'
  BY <1>AddPush DEF AddPush
<1>LogUnlock. ASSUME NEW t \in Thread, LogUnlock(t), UNCHANGED <<files, inService>> PROVE CountInv'
  BY <1>LogUnlock DEF LogUnlock
<1>FileStart. ASSUME type = "LogToFile", FileStart, UNCHANGED inService PROVE CountInv'
  BY <1>FileStart DEF FileStart, WorkerLogs, StartLog
<1>FileTurn. ASSUME type = "LogToFile", FileTurn, UNCHANGED inService PROVE CountInv'
  BY <1>FileTurn DEF FileTurn
<1>FileWake. ASSUME type = "LogToFile", FileWake, UNCHANGED inService PROVE CountInv'
  BY <1>FileWake DEF FileWake
<1>FilePop. ASSUME type = "LogToFile", FilePop, UNCHANGED inService PROVE CountInv'
  BY <1>FilePop DEF FilePop
<1>FileWrite. ASSUME type = "LogToFile", FileWrite, UNCHANGED inService PROVE CountInv'
  BY <1>FileWrite DEF FileWrite, HandleMessage
<1>FileRelock. ASSUME type = "LogToFile", FileRelock, UNCHANGED inService PROVE CountInv'
  BY <1>FileRelock DEF FileRelock
<1>FileClose. ASSUME type = "LogToFile", FileClose, UNCHANGED inService PROVE CountInv'
  BY <1>FileClose DEF FileClose, WorkerLogs, StartLog
<1>FileUnlock. ASSUME type = "LogToFile", FileUnlock, UNCHANGED inService PROVE CountInv'
  BY <1>FileUnlock DEF FileUnlock
<1>FileTest. ASSUME type = "LogToFile", FileTest, UNCHANGED inService PROVE CountInv'
  BY <1>FileTest DEF FileTest
<1>FileFinalPop. ASSUME type = "LogToFile", FileFinalPop, UNCHANGED inService PROVE CountInv'
  BY <1>FileFinalPop DEF FileFinalPop
<1>FileFinalWrite. ASSUME type = "LogToFile", FileFinalWrite, UNCHANGED inService PROVE CountInv'
  BY <1>FileFinalWrite DEF FileFinalWrite, HandleMessage
<1>FileEnd. ASSUME type = "LogToFile", FileEnd, UNCHANGED inService PROVE CountInv'
  BY <1>FileEnd DEF FileEnd
<1>SyslogTurn. ASSUME type = "LogToSyslog", SyslogTurn, UNCHANGED files PROVE CountInv'
  BY <1>SyslogTurn DEF SyslogTurn
<1>SyslogWake. ASSUME type = "LogToSyslog", SyslogWake, UNCHANGED files PROVE CountInv'
  BY <1>SyslogWake DEF SyslogWake
<1>SyslogPop. ASSUME type = "LogToSyslog", SyslogPop, UNCHANGED files PROVE CountInv'
  BY <1>SyslogPop DEF SyslogPop
<1>SyslogSend. ASSUME type = "LogToSyslog", SyslogSend, UNCHANGED files PROVE CountInv'
  BY <1>SyslogSend DEF SyslogSend, WorkerLogs, StartLog
<1>SyslogRelock. ASSUME type = "LogToSyslog", SyslogRelock, UNCHANGED files PROVE CountInv'
  BY <1>SyslogRelock DEF SyslogRelock
<1>SyslogUnlock. ASSUME type = "LogToSyslog", SyslogUnlock, UNCHANGED files PROVE CountInv'
  BY <1>SyslogUnlock DEF SyslogUnlock
<1>SyslogTest. ASSUME type = "LogToSyslog", SyslogTest, UNCHANGED files PROVE CountInv'
  BY <1>SyslogTest DEF SyslogTest
<1>DeleteLoggerCall. ASSUME DeleteLoggerCall, UNCHANGED <<files, inService>> PROVE CountInv'
  BY <1>DeleteLoggerCall DEF DeleteLoggerCall, Call
<1>DeleteLogChainCall. ASSUME DeleteLogChainCall, UNCHANGED <<files, inService>> PROVE CountInv'
  BY <1>DeleteLogChainCall DEF DeleteLogChainCall, Call, StopThread
<1>DeleteLoggerLock. ASSUME DeleteLoggerLock, UNCHANGED <<files, inService>> PROVE CountInv'
  BY <1>DeleteLoggerLock DEF DeleteLoggerLock, StopThread
<1>DeleteLoggerErase. ASSUME DeleteLoggerErase, UNCHANGED <<files, inService>> PROVE CountInv'
  BY <1>DeleteLoggerErase DEF DeleteLoggerErase, JoinThread
<1>DeleteLogChainJoin. ASSUME DeleteLogChainJoin, UNCHANGED <<files, inService>> PROVE CountInv'
  BY <1>DeleteLogChainJoin DEF DeleteLogChainJoin, JoinThread
<1>DeleteLogChainClear. ASSUME DeleteLogChainClear, UNCHANGED <<files, inService>> PROVE CountInv'
  BY <1>DeleteLogChainClear DEF DeleteLogChainClear
<1>Stutter. CASE UNCHANGED lvars
  BY <1>Stutter DEF lvars
<1>. QED  BY <1>LogCall, <1>LogLock, <1>AddTest, <1>AddLock, <1>AddPush,
           <1>LogUnlock, <1>FileStart, <1>FileTurn, <1>FileWake, <1>FilePop,
           <1>FileWrite, <1>FileRelock, <1>FileClose, <1>FileUnlock,
           <1>FileTest, <1>FileFinalPop, <1>FileFinalWrite, <1>FileEnd,
           <1>SyslogTurn, <1>SyslogWake, <1>SyslogPop, <1>SyslogSend,
           <1>SyslogRelock, <1>SyslogUnlock, <1>SyslogTest,
           <1>DeleteLoggerCall, <1>DeleteLogChainCall, <1>DeleteLoggerLock,
           <1>DeleteLoggerErase, <1>DeleteLogChainJoin,
           <1>DeleteLogChainClear, <1>Stutter DEF Next, LogStep,
           WorkerThread, FileThread, SyslogThread, OwnerCall, OwnerStep

(* The flag, the owner and the worker stay in step. *)
LEMMA StopStep == IInv /\ [Next]_lvars => StopInv'
<1> SUFFICES ASSUME IInv, [Next]_lvars PROVE StopInv'
  OBVIOUS
<1>Old. StopInv /\ stop \in BOOLEAN /\ present \in BOOLEAN
  BY DEF IInv, TypeOK
<1> USE <1>Old DEF StopInv, vars, logging, worker, owner, At, Goto, WorkerAt
<1>LogCall. ASSUME NEW a \in Adders, LogCall(a), UNCHANGED <<files, inService>> PROVE StopInv'
  BY <1>LogCall DEF LogCall, StartLog
<1>LogLock. ASSUME NEW t \in Thread, LogLock(t), UNCHANGED <<files, inService>> PROVE StopInv'
  BY <1>LogLock DEF LogLock
<1>AddTest. ASSUME NEW t \in Thread, AddTest(t), UNCHANGED <<files, inService>> PROVE StopInv'
  BY <1>AddTest DEF AddTest
<1>AddLock. ASSUME NEW t \in Thread, AddLock(t), UNCHANGED <<files, inService>> PROVE StopInv'
  BY <1>AddLock DEF AddLock
<1>AddPush. ASSUME NEW t \in Thread, AddPush(t), UNCHANGED <<files, inService>> PROVE StopInv'
  BY <1>AddPush DEF AddPush
<1>LogUnlock. ASSUME NEW t \in Thread, LogUnlock(t), UNCHANGED <<files, inService>> PROVE StopInv'
  BY <1>LogUnlock DEF LogUnlock
<1>FileStart. ASSUME type = "LogToFile", FileStart, UNCHANGED inService PROVE StopInv'
  BY <1>FileStart DEF FileStart, WorkerLogs, StartLog
<1>FileTurn. ASSUME type = "LogToFile", FileTurn, UNCHANGED inService PROVE StopInv'
  BY <1>FileTurn DEF FileTurn
<1>FileWake. ASSUME type = "LogToFile", FileWake, UNCHANGED inService PROVE StopInv'
  BY <1>FileWake DEF FileWake
<1>FilePop. ASSUME type = "LogToFile", FilePop, UNCHANGED inService PROVE StopInv'
  BY <1>FilePop DEF FilePop
<1>FileWrite. ASSUME type = "LogToFile", FileWrite, UNCHANGED inService PROVE StopInv'
  BY <1>FileWrite DEF FileWrite, HandleMessage
<1>FileRelock. ASSUME type = "LogToFile", FileRelock, UNCHANGED inService PROVE StopInv'
  BY <1>FileRelock DEF FileRelock
<1>FileClose. ASSUME type = "LogToFile", FileClose, UNCHANGED inService PROVE StopInv'
  BY <1>FileClose DEF FileClose, WorkerLogs, StartLog
<1>FileUnlock. ASSUME type = "LogToFile", FileUnlock, UNCHANGED inService PROVE StopInv'
  BY <1>FileUnlock DEF FileUnlock
<1>FileTest. ASSUME type = "LogToFile", FileTest, UNCHANGED inService PROVE StopInv'
  BY <1>FileTest DEF FileTest
<1>FileFinalPop. ASSUME type = "LogToFile", FileFinalPop, UNCHANGED inService PROVE StopInv'
  BY <1>FileFinalPop DEF FileFinalPop
<1>FileFinalWrite. ASSUME type = "LogToFile", FileFinalWrite, UNCHANGED inService PROVE StopInv'
  BY <1>FileFinalWrite DEF FileFinalWrite, HandleMessage
<1>FileEnd. ASSUME type = "LogToFile", FileEnd, UNCHANGED inService PROVE StopInv'
  BY <1>FileEnd DEF FileEnd
<1>SyslogTurn. ASSUME type = "LogToSyslog", SyslogTurn, UNCHANGED files PROVE StopInv'
  BY <1>SyslogTurn DEF SyslogTurn
<1>SyslogWake. ASSUME type = "LogToSyslog", SyslogWake, UNCHANGED files PROVE StopInv'
  BY <1>SyslogWake DEF SyslogWake
<1>SyslogPop. ASSUME type = "LogToSyslog", SyslogPop, UNCHANGED files PROVE StopInv'
  BY <1>SyslogPop DEF SyslogPop
<1>SyslogSend. ASSUME type = "LogToSyslog", SyslogSend, UNCHANGED files PROVE StopInv'
  BY <1>SyslogSend DEF SyslogSend, WorkerLogs, StartLog
<1>SyslogRelock. ASSUME type = "LogToSyslog", SyslogRelock, UNCHANGED files PROVE StopInv'
  BY <1>SyslogRelock DEF SyslogRelock
<1>SyslogUnlock. ASSUME type = "LogToSyslog", SyslogUnlock, UNCHANGED files PROVE StopInv'
  BY <1>SyslogUnlock DEF SyslogUnlock
<1>SyslogTest. ASSUME type = "LogToSyslog", SyslogTest, UNCHANGED files PROVE StopInv'
  BY <1>SyslogTest DEF SyslogTest
<1>DeleteLoggerCall. ASSUME DeleteLoggerCall, UNCHANGED <<files, inService>> PROVE StopInv'
  BY <1>DeleteLoggerCall DEF DeleteLoggerCall, Call
<1>DeleteLogChainCall. ASSUME DeleteLogChainCall, UNCHANGED <<files, inService>> PROVE StopInv'
  BY <1>DeleteLogChainCall DEF DeleteLogChainCall, Call, StopThread
<1>DeleteLoggerLock. ASSUME DeleteLoggerLock, UNCHANGED <<files, inService>> PROVE StopInv'
  BY <1>DeleteLoggerLock DEF DeleteLoggerLock, StopThread
<1>DeleteLoggerErase. ASSUME DeleteLoggerErase, UNCHANGED <<files, inService>> PROVE StopInv'
  BY <1>DeleteLoggerErase DEF DeleteLoggerErase, JoinThread
<1>DeleteLogChainJoin. ASSUME DeleteLogChainJoin, UNCHANGED <<files, inService>> PROVE StopInv'
  BY <1>DeleteLogChainJoin DEF DeleteLogChainJoin, JoinThread
<1>DeleteLogChainClear. ASSUME DeleteLogChainClear, UNCHANGED <<files, inService>> PROVE StopInv'
  BY <1>DeleteLogChainClear DEF DeleteLogChainClear
<1>Stutter. CASE UNCHANGED lvars
  BY <1>Stutter DEF lvars
<1>. QED  BY <1>LogCall, <1>LogLock, <1>AddTest, <1>AddLock, <1>AddPush,
           <1>LogUnlock, <1>FileStart, <1>FileTurn, <1>FileWake, <1>FilePop,
           <1>FileWrite, <1>FileRelock, <1>FileClose, <1>FileUnlock,
           <1>FileTest, <1>FileFinalPop, <1>FileFinalWrite, <1>FileEnd,
           <1>SyslogTurn, <1>SyslogWake, <1>SyslogPop, <1>SyslogSend,
           <1>SyslogRelock, <1>SyslogUnlock, <1>SyslogTest,
           <1>DeleteLoggerCall, <1>DeleteLogChainCall, <1>DeleteLoggerLock,
           <1>DeleteLoggerErase, <1>DeleteLogChainJoin,
           <1>DeleteLogChainClear, <1>Stutter DEF Next, LogStep,
           WorkerThread, FileThread, SyslogThread, OwnerCall, OwnerStep

(* Every mutex that is taken is given back by the one who took it. *)
LEMMA LockStep == IInv /\ [Next]_lvars => LockInv'
<1> SUFFICES ASSUME IInv, [Next]_lvars PROVE LockInv'
  OBVIOUS
<1>Old. /\ LockInv /\ DOMAIN apc = Thread /\ Worker \in Thread
       /\ apc = [t \in Thread |-> apc[t]]
       /\ Worker \notin Adders /\ Owner \notin Thread /\ Free \notin Thread
       /\ Free # Owner /\ Thread = Adders \cup {Worker}
  BY LogConfigAssumption DEF IInv, TypeOK, Thread
<1> USE <1>Old DEF LockInv, vars, logging, worker, owner, At, Goto, WorkerAt
<1>LogCall. ASSUME NEW a \in Adders, LogCall(a), UNCHANGED <<files, inService>> PROVE LockInv'
  BY <1>LogCall DEF LogCall, StartLog
<1>LogLock. ASSUME NEW t \in Thread, LogLock(t), UNCHANGED <<files, inService>> PROVE LockInv'
  BY <1>LogLock DEF LogLock
<1>AddTest. ASSUME NEW t \in Thread, AddTest(t), UNCHANGED <<files, inService>> PROVE LockInv'
  BY <1>AddTest DEF AddTest
<1>AddLock. ASSUME NEW t \in Thread, AddLock(t), UNCHANGED <<files, inService>> PROVE LockInv'
  BY <1>AddLock DEF AddLock
<1>AddPush. ASSUME NEW t \in Thread, AddPush(t), UNCHANGED <<files, inService>> PROVE LockInv'
  BY <1>AddPush DEF AddPush
<1>LogUnlock. ASSUME NEW t \in Thread, LogUnlock(t), UNCHANGED <<files, inService>> PROVE LockInv'
  BY <1>LogUnlock DEF LogUnlock
<1>FileStart. ASSUME type = "LogToFile", FileStart, UNCHANGED inService PROVE LockInv'
  BY <1>FileStart DEF FileStart, WorkerLogs, StartLog
<1>FileTurn. ASSUME type = "LogToFile", FileTurn, UNCHANGED inService PROVE LockInv'
  BY <1>FileTurn DEF FileTurn
<1>FileWake. ASSUME type = "LogToFile", FileWake, UNCHANGED inService PROVE LockInv'
  BY <1>FileWake DEF FileWake
<1>FilePop. ASSUME type = "LogToFile", FilePop, UNCHANGED inService PROVE LockInv'
  BY <1>FilePop DEF FilePop
<1>FileWrite. ASSUME type = "LogToFile", FileWrite, UNCHANGED inService PROVE LockInv'
  BY <1>FileWrite DEF FileWrite, HandleMessage
<1>FileRelock. ASSUME type = "LogToFile", FileRelock, UNCHANGED inService PROVE LockInv'
  BY <1>FileRelock DEF FileRelock
<1>FileClose. ASSUME type = "LogToFile", FileClose, UNCHANGED inService PROVE LockInv'
  BY <1>FileClose DEF FileClose, WorkerLogs, StartLog
<1>FileUnlock. ASSUME type = "LogToFile", FileUnlock, UNCHANGED inService PROVE LockInv'
  BY <1>FileUnlock DEF FileUnlock
<1>FileTest. ASSUME type = "LogToFile", FileTest, UNCHANGED inService PROVE LockInv'
  BY <1>FileTest DEF FileTest
<1>FileFinalPop. ASSUME type = "LogToFile", FileFinalPop, UNCHANGED inService PROVE LockInv'
  BY <1>FileFinalPop DEF FileFinalPop
<1>FileFinalWrite. ASSUME type = "LogToFile", FileFinalWrite, UNCHANGED inService PROVE LockInv'
  BY <1>FileFinalWrite DEF FileFinalWrite, HandleMessage
<1>FileEnd. ASSUME type = "LogToFile", FileEnd, UNCHANGED inService PROVE LockInv'
  BY <1>FileEnd DEF FileEnd
<1>SyslogTurn. ASSUME type = "LogToSyslog", SyslogTurn, UNCHANGED files PROVE LockInv'
  BY <1>SyslogTurn DEF SyslogTurn
<1>SyslogWake. ASSUME type = "LogToSyslog", SyslogWake, UNCHANGED files PROVE LockInv'
  BY <1>SyslogWake DEF SyslogWake
<1>SyslogPop. ASSUME type = "LogToSyslog", SyslogPop, UNCHANGED files PROVE LockInv'
  BY <1>SyslogPop DEF SyslogPop
<1>SyslogSend. ASSUME type = "LogToSyslog", SyslogSend, UNCHANGED files PROVE LockInv'
  BY <1>SyslogSend DEF SyslogSend, WorkerLogs, StartLog
<1>SyslogRelock. ASSUME type = "LogToSyslog", SyslogRelock, UNCHANGED files PROVE LockInv'
  BY <1>SyslogRelock DEF SyslogRelock
<1>SyslogUnlock. ASSUME type = "LogToSyslog", SyslogUnlock, UNCHANGED files PROVE LockInv'
  BY <1>SyslogUnlock DEF SyslogUnlock
<1>SyslogTest. ASSUME type = "LogToSyslog", SyslogTest, UNCHANGED files PROVE LockInv'
  BY <1>SyslogTest DEF SyslogTest
<1>DeleteLoggerCall. ASSUME DeleteLoggerCall, UNCHANGED <<files, inService>> PROVE LockInv'
  BY <1>DeleteLoggerCall DEF DeleteLoggerCall, Call
<1>DeleteLogChainCall. ASSUME DeleteLogChainCall, UNCHANGED <<files, inService>> PROVE LockInv'
  BY <1>DeleteLogChainCall DEF DeleteLogChainCall, Call, StopThread
<1>DeleteLoggerLock. ASSUME DeleteLoggerLock, UNCHANGED <<files, inService>> PROVE LockInv'
  BY <1>DeleteLoggerLock DEF DeleteLoggerLock, StopThread
<1>DeleteLoggerErase. ASSUME DeleteLoggerErase, UNCHANGED <<files, inService>> PROVE LockInv'
  BY <1>DeleteLoggerErase DEF DeleteLoggerErase, JoinThread
<1>DeleteLogChainJoin. ASSUME DeleteLogChainJoin, UNCHANGED <<files, inService>> PROVE LockInv'
  BY <1>DeleteLogChainJoin DEF DeleteLogChainJoin, JoinThread
<1>DeleteLogChainClear. ASSUME DeleteLogChainClear, UNCHANGED <<files, inService>> PROVE LockInv'
  BY <1>DeleteLogChainClear DEF DeleteLogChainClear
<1>Stutter. CASE UNCHANGED lvars
  BY <1>Stutter DEF lvars
<1>. QED  BY <1>LogCall, <1>LogLock, <1>AddTest, <1>AddLock, <1>AddPush,
           <1>LogUnlock, <1>FileStart, <1>FileTurn, <1>FileWake, <1>FilePop,
           <1>FileWrite, <1>FileRelock, <1>FileClose, <1>FileUnlock,
           <1>FileTest, <1>FileFinalPop, <1>FileFinalWrite, <1>FileEnd,
           <1>SyslogTurn, <1>SyslogWake, <1>SyslogPop, <1>SyslogSend,
           <1>SyslogRelock, <1>SyslogUnlock, <1>SyslogTest,
           <1>DeleteLoggerCall, <1>DeleteLogChainCall, <1>DeleteLoggerLock,
           <1>DeleteLoggerErase, <1>DeleteLogChainJoin,
           <1>DeleteLogChainClear, <1>Stutter DEF Next, LogStep,
           WorkerThread, FileThread, SyslogThread, OwnerCall, OwnerStep

(* Every step keeps the order and the number of the messages. *)
LEMMA ConservedStep == IInv /\ [Next]_lvars => Conserved'
<1> SUFFICES ASSUME IInv, [Next]_lvars PROVE Conserved'
  OBVIOUS
<1>Old. /\ present \in BOOLEAN
       /\ done \in Seq(Msg) /\ hand \in Seq(Msg) /\ list \in Seq(Msg)
       /\ accepted \in Seq(Msg)
       /\ HandInv /\ Conserved
  BY DEF IInv, TypeOK
<1> USE <1>Old DEF Conserved, vars, logging, worker, owner, At, Goto, WorkerAt
<1>LogCall. ASSUME NEW a \in Adders, LogCall(a), UNCHANGED <<files, inService>> PROVE Conserved'
  BY <1>LogCall DEF LogCall, StartLog
<1>LogLock. ASSUME NEW t \in Thread, LogLock(t), UNCHANGED <<files, inService>> PROVE Conserved'
  BY <1>LogLock DEF LogLock
<1>AddTest. ASSUME NEW t \in Thread, AddTest(t), UNCHANGED <<files, inService>> PROVE Conserved'
  BY <1>AddTest DEF AddTest
<1>AddLock. ASSUME NEW t \in Thread, AddLock(t), UNCHANGED <<files, inService>> PROVE Conserved'
  BY <1>AddLock DEF AddLock
<1>AddPush. ASSUME NEW t \in Thread, AddPush(t), UNCHANGED <<files, inService>> PROVE Conserved'
  <2>1. <<t, sent[t]>> \in Msg
    BY <1>AddPush, ThreadMsg DEF AddPush
  <2>2. Append(done \o hand \o list, <<t, sent[t]>>)
          = done \o hand \o Append(list, <<t, sent[t]>>)
    <3> HIDE DEF Conserved, vars, logging, worker, owner, At, Goto, WorkerAt
    <3>1. done \in Seq(Msg) /\ hand \in Seq(Msg) /\ list \in Seq(Msg)
      OBVIOUS
    <3> HIDE <1>Old
    <3>. QED  BY <2>1, <3>1, PushOrder
  <2>. QED  BY <1>AddPush, <2>1, <2>2 DEF AddPush
<1>LogUnlock. ASSUME NEW t \in Thread, LogUnlock(t), UNCHANGED <<files, inService>> PROVE Conserved'
  BY <1>LogUnlock DEF LogUnlock
<1>FileStart. ASSUME type = "LogToFile", FileStart, UNCHANGED inService PROVE Conserved'
  BY <1>FileStart DEF FileStart, WorkerLogs, StartLog
<1>FileTurn. ASSUME type = "LogToFile", FileTurn, UNCHANGED inService PROVE Conserved'
  BY <1>FileTurn DEF FileTurn
<1>FileWake. ASSUME type = "LogToFile", FileWake, UNCHANGED inService PROVE Conserved'
  BY <1>FileWake DEF FileWake
<1>FilePop. ASSUME type = "LogToFile", FilePop, UNCHANGED inService PROVE Conserved'
  <2>1. hand = <<>> /\ list # <<>>
    BY <1>FilePop DEF FilePop, HandInv
  <2>2. done \o hand \o list = done \o <<Head(list)>> \o Tail(list)
    BY <2>1, PopOrder
  <2>. QED  BY <1>FilePop, <2>2 DEF FilePop
<1>FileWrite. ASSUME type = "LogToFile", FileWrite, UNCHANGED inService PROVE Conserved'
  <2>1. done \o hand \o list = (done \o hand) \o <<>> \o list
    BY WriteOrder
  <2>. QED  BY <1>FileWrite, <2>1 DEF FileWrite, HandleMessage
<1>FileRelock. ASSUME type = "LogToFile", FileRelock, UNCHANGED inService PROVE Conserved'
  BY <1>FileRelock DEF FileRelock
<1>FileClose. ASSUME type = "LogToFile", FileClose, UNCHANGED inService PROVE Conserved'
  BY <1>FileClose DEF FileClose, WorkerLogs, StartLog
<1>FileUnlock. ASSUME type = "LogToFile", FileUnlock, UNCHANGED inService PROVE Conserved'
  BY <1>FileUnlock DEF FileUnlock
<1>FileTest. ASSUME type = "LogToFile", FileTest, UNCHANGED inService PROVE Conserved'
  BY <1>FileTest DEF FileTest
<1>FileFinalPop. ASSUME type = "LogToFile", FileFinalPop, UNCHANGED inService PROVE Conserved'
  <2>1. hand = <<>> /\ list # <<>>
    BY <1>FileFinalPop DEF FileFinalPop, HandInv
  <2>2. done \o hand \o list = done \o <<Head(list)>> \o Tail(list)
    BY <2>1, PopOrder
  <2>. QED  BY <1>FileFinalPop, <2>2 DEF FileFinalPop
<1>FileFinalWrite. ASSUME type = "LogToFile", FileFinalWrite, UNCHANGED inService PROVE Conserved'
  <2>1. done \o hand \o list = (done \o hand) \o <<>> \o list
    BY WriteOrder
  <2>. QED  BY <1>FileFinalWrite, <2>1 DEF FileFinalWrite, HandleMessage
<1>FileEnd. ASSUME type = "LogToFile", FileEnd, UNCHANGED inService PROVE Conserved'
  BY <1>FileEnd DEF FileEnd
<1>SyslogTurn. ASSUME type = "LogToSyslog", SyslogTurn, UNCHANGED files PROVE Conserved'
  BY <1>SyslogTurn DEF SyslogTurn
<1>SyslogWake. ASSUME type = "LogToSyslog", SyslogWake, UNCHANGED files PROVE Conserved'
  BY <1>SyslogWake DEF SyslogWake
<1>SyslogPop. ASSUME type = "LogToSyslog", SyslogPop, UNCHANGED files PROVE Conserved'
  <2>1. hand = <<>> /\ list # <<>>
    BY <1>SyslogPop DEF SyslogPop, HandInv
  <2>2. done \o hand \o list = done \o <<Head(list)>> \o Tail(list)
    BY <2>1, PopOrder
  <2>. QED  BY <1>SyslogPop, <2>2 DEF SyslogPop
<1>SyslogSend. ASSUME type = "LogToSyslog", SyslogSend, UNCHANGED files PROVE Conserved'
  <2>1. done \o hand \o list = (done \o hand) \o <<>> \o list
    BY WriteOrder
  <2>. QED  BY <1>SyslogSend, <2>1 DEF SyslogSend
<1>SyslogRelock. ASSUME type = "LogToSyslog", SyslogRelock, UNCHANGED files PROVE Conserved'
  BY <1>SyslogRelock DEF SyslogRelock
<1>SyslogUnlock. ASSUME type = "LogToSyslog", SyslogUnlock, UNCHANGED files PROVE Conserved'
  BY <1>SyslogUnlock DEF SyslogUnlock
<1>SyslogTest. ASSUME type = "LogToSyslog", SyslogTest, UNCHANGED files PROVE Conserved'
  BY <1>SyslogTest DEF SyslogTest
<1>DeleteLoggerCall. ASSUME DeleteLoggerCall, UNCHANGED <<files, inService>> PROVE Conserved'
  BY <1>DeleteLoggerCall DEF DeleteLoggerCall, Call
<1>DeleteLogChainCall. ASSUME DeleteLogChainCall, UNCHANGED <<files, inService>> PROVE Conserved'
  BY <1>DeleteLogChainCall DEF DeleteLogChainCall, Call, StopThread
<1>DeleteLoggerLock. ASSUME DeleteLoggerLock, UNCHANGED <<files, inService>> PROVE Conserved'
  BY <1>DeleteLoggerLock DEF DeleteLoggerLock, StopThread
<1>DeleteLoggerErase. ASSUME DeleteLoggerErase, UNCHANGED <<files, inService>> PROVE Conserved'
  BY <1>DeleteLoggerErase DEF DeleteLoggerErase, JoinThread
<1>DeleteLogChainJoin. ASSUME DeleteLogChainJoin, UNCHANGED <<files, inService>> PROVE Conserved'
  BY <1>DeleteLogChainJoin DEF DeleteLogChainJoin, JoinThread
<1>DeleteLogChainClear. ASSUME DeleteLogChainClear, UNCHANGED <<files, inService>> PROVE Conserved'
  BY <1>DeleteLogChainClear DEF DeleteLogChainClear
<1>Stutter. CASE UNCHANGED lvars
  BY <1>Stutter DEF lvars
<1>. QED  BY <1>LogCall, <1>LogLock, <1>AddTest, <1>AddLock, <1>AddPush,
           <1>LogUnlock, <1>FileStart, <1>FileTurn, <1>FileWake, <1>FilePop,
           <1>FileWrite, <1>FileRelock, <1>FileClose, <1>FileUnlock,
           <1>FileTest, <1>FileFinalPop, <1>FileFinalWrite, <1>FileEnd,
           <1>SyslogTurn, <1>SyslogWake, <1>SyslogPop, <1>SyslogSend,
           <1>SyslogRelock, <1>SyslogUnlock, <1>SyslogTest,
           <1>DeleteLoggerCall, <1>DeleteLogChainCall, <1>DeleteLoggerLock,
           <1>DeleteLoggerErase, <1>DeleteLogChainJoin,
           <1>DeleteLogChainClear, <1>Stutter DEF Next, LogStep,
           WorkerThread, FileThread, SyslogThread, OwnerCall, OwnerStep

(* What was in the list when the logger was stopped does not get lost. *)
LEMMA DueStep == IInv /\ [Next]_lvars => DueInv'
<1> SUFFICES ASSUME IInv, [Next]_lvars PROVE DueInv'
  OBVIOUS
<1>Old. /\ present \in BOOLEAN
       /\ done \in Seq(Msg) /\ hand \in Seq(Msg) /\ list \in Seq(Msg)
       /\ accepted \in Seq(Msg)
       /\ HandInv /\ DueInv /\ StopInv
  BY DEF IInv, TypeOK
<1> USE <1>Old DEF DueInv, Held, vars, logging, worker, owner, At, Goto, WorkerAt
<1>LogCall. ASSUME NEW a \in Adders, LogCall(a), UNCHANGED <<files, inService>> PROVE DueInv'
  BY <1>LogCall DEF LogCall, StartLog
<1>LogLock. ASSUME NEW t \in Thread, LogLock(t), UNCHANGED <<files, inService>> PROVE DueInv'
  BY <1>LogLock DEF LogLock
<1>AddTest. ASSUME NEW t \in Thread, AddTest(t), UNCHANGED <<files, inService>> PROVE DueInv'
  BY <1>AddTest DEF AddTest
<1>AddLock. ASSUME NEW t \in Thread, AddLock(t), UNCHANGED <<files, inService>> PROVE DueInv'
  BY <1>AddLock DEF AddLock
<1>AddPush. ASSUME NEW t \in Thread, AddPush(t), UNCHANGED <<files, inService>> PROVE DueInv'
  <2>1. <<t, sent[t]>> \in Msg
    BY <1>AddPush, ThreadMsg DEF AddPush
  <2>2. SeqRange(list) \subseteq SeqRange(Append(list, <<t, sent[t]>>))
    BY <2>1, RangeAppend
  <2>. QED  BY <1>AddPush, <2>2 DEF AddPush
<1>LogUnlock. ASSUME NEW t \in Thread, LogUnlock(t), UNCHANGED <<files, inService>> PROVE DueInv'
  BY <1>LogUnlock DEF LogUnlock
<1>FileStart. ASSUME type = "LogToFile", FileStart, UNCHANGED inService PROVE DueInv'
  BY <1>FileStart DEF FileStart, WorkerLogs, StartLog
<1>FileTurn. ASSUME type = "LogToFile", FileTurn, UNCHANGED inService PROVE DueInv'
  BY <1>FileTurn DEF FileTurn
<1>FileWake. ASSUME type = "LogToFile", FileWake, UNCHANGED inService PROVE DueInv'
  BY <1>FileWake DEF FileWake
<1>FilePop. ASSUME type = "LogToFile", FilePop, UNCHANGED inService PROVE DueInv'
  <2>1. hand = <<>> /\ list # <<>>
    BY <1>FilePop DEF FilePop, HandInv
  <2>2. SeqRange(<<>>) = {}
    BY DEF SeqRange
  <2>3. SeqRange(list) \subseteq SeqRange(<<Head(list)>>) \cup SeqRange(Tail(list))
    BY <2>1, RangePop
  <2>. QED  BY <1>FilePop, <2>1, <2>2, <2>3 DEF FilePop
<1>FileWrite. ASSUME type = "LogToFile", FileWrite, UNCHANGED inService PROVE DueInv'
  <2>1. SeqRange(done) \cup SeqRange(hand) \subseteq SeqRange(done \o hand)
    BY RangeConcat
  <2>. QED  BY <1>FileWrite, <2>1 DEF FileWrite, HandleMessage
<1>FileRelock. ASSUME type = "LogToFile", FileRelock, UNCHANGED inService PROVE DueInv'
  BY <1>FileRelock DEF FileRelock
<1>FileClose. ASSUME type = "LogToFile", FileClose, UNCHANGED inService PROVE DueInv'
  BY <1>FileClose DEF FileClose, WorkerLogs, StartLog
<1>FileUnlock. ASSUME type = "LogToFile", FileUnlock, UNCHANGED inService PROVE DueInv'
  BY <1>FileUnlock DEF FileUnlock
<1>FileTest. ASSUME type = "LogToFile", FileTest, UNCHANGED inService PROVE DueInv'
  BY <1>FileTest DEF FileTest
<1>FileFinalPop. ASSUME type = "LogToFile", FileFinalPop, UNCHANGED inService PROVE DueInv'
  <2>1. hand = <<>> /\ list # <<>>
    BY <1>FileFinalPop DEF FileFinalPop, HandInv
  <2>2. SeqRange(<<>>) = {}
    BY DEF SeqRange
  <2>3. SeqRange(list) \subseteq SeqRange(<<Head(list)>>) \cup SeqRange(Tail(list))
    BY <2>1, RangePop
  <2>. QED  BY <1>FileFinalPop, <2>1, <2>2, <2>3 DEF FileFinalPop
<1>FileFinalWrite. ASSUME type = "LogToFile", FileFinalWrite, UNCHANGED inService PROVE DueInv'
  <2>1. SeqRange(done) \cup SeqRange(hand) \subseteq SeqRange(done \o hand)
    BY RangeConcat
  <2>. QED  BY <1>FileFinalWrite, <2>1 DEF FileFinalWrite, HandleMessage
<1>FileEnd. ASSUME type = "LogToFile", FileEnd, UNCHANGED inService PROVE DueInv'
  <2>1. hand = <<>> /\ list = <<>> /\ stop
    BY <1>FileEnd DEF FileEnd, HandInv, StopInv
  <2>2. SeqRange(<<>>) = {}
    BY DEF SeqRange
  <2>. QED  BY <1>FileEnd, <2>1, <2>2 DEF FileEnd
<1>SyslogTurn. ASSUME type = "LogToSyslog", SyslogTurn, UNCHANGED files PROVE DueInv'
  BY <1>SyslogTurn DEF SyslogTurn
<1>SyslogWake. ASSUME type = "LogToSyslog", SyslogWake, UNCHANGED files PROVE DueInv'
  BY <1>SyslogWake DEF SyslogWake
<1>SyslogPop. ASSUME type = "LogToSyslog", SyslogPop, UNCHANGED files PROVE DueInv'
  <2>1. hand = <<>> /\ list # <<>>
    BY <1>SyslogPop DEF SyslogPop, HandInv
  <2>2. SeqRange(<<>>) = {}
    BY DEF SeqRange
  <2>3. SeqRange(list) \subseteq SeqRange(<<Head(list)>>) \cup SeqRange(Tail(list))
    BY <2>1, RangePop
  <2>. QED  BY <1>SyslogPop, <2>1, <2>2, <2>3 DEF SyslogPop
<1>SyslogSend. ASSUME type = "LogToSyslog", SyslogSend, UNCHANGED files PROVE DueInv'
  <2>1. SeqRange(done) \cup SeqRange(hand) \subseteq SeqRange(done \o hand)
    BY RangeConcat
  <2>. QED  BY <1>SyslogSend, <2>1 DEF SyslogSend
<1>SyslogRelock. ASSUME type = "LogToSyslog", SyslogRelock, UNCHANGED files PROVE DueInv'
  BY <1>SyslogRelock DEF SyslogRelock
<1>SyslogUnlock. ASSUME type = "LogToSyslog", SyslogUnlock, UNCHANGED files PROVE DueInv'
  BY <1>SyslogUnlock DEF SyslogUnlock
<1>SyslogTest. ASSUME type = "LogToSyslog", SyslogTest, UNCHANGED files PROVE DueInv'
  BY <1>SyslogTest DEF SyslogTest
<1>DeleteLoggerCall. ASSUME DeleteLoggerCall, UNCHANGED <<files, inService>> PROVE DueInv'
  BY <1>DeleteLoggerCall DEF DeleteLoggerCall, Call
<1>DeleteLogChainCall. ASSUME DeleteLogChainCall, UNCHANGED <<files, inService>> PROVE DueInv'
  <2>1. ~stop
    BY <1>DeleteLogChainCall DEF DeleteLogChainCall, Call, StopInv
  <2>2. CASE stop'
    <3>1. due' = SeqRange(list) /\ UNCHANGED <<type, wpc, hand, done, list>>
      BY <1>DeleteLogChainCall, <2>1, <2>2 DEF DeleteLogChainCall, Call, StopThread
    <3>2. ~(type = "LogToFile" /\ wpc = "ended")
      BY <2>1 DEF StopInv
    <3>. QED  BY <3>1, <3>2
  <2>3. CASE ~stop'
    BY <1>DeleteLogChainCall, <2>1, <2>3 DEF DeleteLogChainCall, Call, StopThread
  <2>. QED  BY <2>2, <2>3
<1>DeleteLoggerLock. ASSUME DeleteLoggerLock, UNCHANGED <<files, inService>> PROVE DueInv'
  <2>1. ~stop
    BY <1>DeleteLoggerLock DEF DeleteLoggerLock, Call, StopInv
  <2>2. CASE stop'
    <3>1. due' = SeqRange(list) /\ UNCHANGED <<type, wpc, hand, done, list>>
      BY <1>DeleteLoggerLock, <2>1, <2>2 DEF DeleteLoggerLock, StopThread
    <3>2. ~(type = "LogToFile" /\ wpc = "ended")
      BY <2>1 DEF StopInv
    <3>. QED  BY <3>1, <3>2
  <2>3. CASE ~stop'
    BY <1>DeleteLoggerLock, <2>1, <2>3 DEF DeleteLoggerLock, StopThread
  <2>. QED  BY <2>2, <2>3
<1>DeleteLoggerErase. ASSUME DeleteLoggerErase, UNCHANGED <<files, inService>> PROVE DueInv'
  BY <1>DeleteLoggerErase DEF DeleteLoggerErase, JoinThread
<1>DeleteLogChainJoin. ASSUME DeleteLogChainJoin, UNCHANGED <<files, inService>> PROVE DueInv'
  BY <1>DeleteLogChainJoin DEF DeleteLogChainJoin, JoinThread
<1>DeleteLogChainClear. ASSUME DeleteLogChainClear, UNCHANGED <<files, inService>> PROVE DueInv'
  BY <1>DeleteLogChainClear DEF DeleteLogChainClear, StopInv
<1>Stutter. CASE UNCHANGED lvars
  BY <1>Stutter DEF lvars
<1>. QED  BY <1>LogCall, <1>LogLock, <1>AddTest, <1>AddLock, <1>AddPush,
           <1>LogUnlock, <1>FileStart, <1>FileTurn, <1>FileWake, <1>FilePop,
           <1>FileWrite, <1>FileRelock, <1>FileClose, <1>FileUnlock,
           <1>FileTest, <1>FileFinalPop, <1>FileFinalWrite, <1>FileEnd,
           <1>SyslogTurn, <1>SyslogWake, <1>SyslogPop, <1>SyslogSend,
           <1>SyslogRelock, <1>SyslogUnlock, <1>SyslogTest,
           <1>DeleteLoggerCall, <1>DeleteLogChainCall, <1>DeleteLoggerLock,
           <1>DeleteLoggerErase, <1>DeleteLogChainJoin,
           <1>DeleteLogChainClear, <1>Stutter DEF Next, LogStep,
           WorkerThread, FileThread, SyslogThread, OwnerCall, OwnerStep

(* The invariant is inductive. *)
LEMMA InvStep == IInv /\ [Next]_lvars => IInv'
  BY TypeStep, HandStep, SentStep, CountStep, StopStep, LockStep, ConservedStep, DueStep
  DEF IInv

LEMMA Invariant == Spec => []IInv
  BY InitInv, InvStep, PTL DEF Spec

-----------------------------------------------------------------------------
(* The theorems *)

(* Every variable keeps its type, whoever logs and deletes in whatever     *)
(* order; the counts stay within what logconfig.cpp, logfile.cpp and       *)
(* syslog.cpp allow.                                                       *)
THEOREM ChainTypeCorrect == Spec => []TypeOK
<1>1. IInv => TypeOK
  BY DEF IInv
<1>. QED  BY <1>1, Invariant, PTL

(* AddLogMessage and the two worker loops neither lose nor double nor      *)
(* reorder an accepted message, as long as the logger is in the chain.     *)
THEOREM MessagesConserved == Spec => []Conserved
<1>1. IInv => Conserved
  BY DEF IInv
<1>. QED  BY <1>1, Invariant, PTL

(* LogFile::Stop and its destructor come back only when each message that  *)
(* was in the list when they were called is in the file, or has been       *)
(* dropped by HandleMessage because the file could not be opened.          *)
THEOREM StopLeavesNothing == Spec => StopHandlesAll
<1>1. ASSUME IInv, [Next]_lvars
      PROVE  [(type = "LogToFile" /\ stop /\ ~stop')
                => due \subseteq Saved \cup lost]_lvars
  <2> SUFFICES ASSUME type = "LogToFile", stop, ~stop'
               PROVE  due \subseteq Saved \cup lost
    OBVIOUS
  <2>1. StopInv /\ DueInv
    BY <1>1 DEF IInv
  <2>2. DeleteLoggerErase \/ DeleteLogChainJoin
    <3> USE DEF vars, owner, worker, logging, WorkerAt, Call, StopThread
    <3>1. CASE \E t \in Thread : LogStep(t)
      BY <3>1 DEF LogStep, LogLock, AddTest, AddLock, AddPush, LogUnlock
    <3>2. CASE \E a \in Adders : LogCall(a)
      BY <3>2 DEF LogCall
    <3>3. CASE FileThread
      BY <3>3 DEF FileThread, FileStart, FileTurn, FileWake, FilePop, FileWrite,
         HandleMessage, FileRelock, FileClose, FileUnlock, FileTest,
         FileFinalPop, FileFinalWrite, FileEnd
    <3>4. CASE SyslogThread
      BY <3>4 DEF SyslogThread, SyslogTurn, SyslogWake, SyslogPop, SyslogSend,
         SyslogRelock, SyslogUnlock, SyslogTest
    <3>5. CASE OwnerCall
      BY <3>5 DEF OwnerCall, DeleteLoggerCall, DeleteLogChainCall
    <3>6. CASE DeleteLoggerLock
      BY <3>6, <2>1 DEF DeleteLoggerLock
    <3>7. CASE DeleteLogChainClear
      BY <3>7 DEF DeleteLogChainClear
    <3>8. CASE UNCHANGED lvars
      BY <3>8 DEF lvars
    <3>. QED  BY <1>1, <3>1, <3>2, <3>3, <3>4, <3>5, <3>6, <3>7, <3>8
              DEF Next, WorkerThread, OwnerStep
  <2>3. wpc \in {"ended", "none"} /\ present /\ opc # "chainClear"
    BY <2>1, <2>2 DEF DeleteLoggerErase, DeleteLogChainJoin, JoinThread, StopInv
  <2>4. wpc = "ended"
    BY <2>1, <2>3 DEF StopInv
  <2>. QED  BY <2>1, <2>4 DEF DueInv, Saved
<1>. QED  BY <1>1, Invariant, PTL DEF Spec, StopHandlesAll

(* Whoever is waited for is inside a call or in its loop. *)
LEMMA WaitedRuns ==
  ASSUME IInv, NEW x \in Actor, NEW y \in Actor, WaitsFor(x, y)
  PROVE  Running(y)
<1>1. LockInv /\ locker \in Thread \cup {Free}
  BY DEF IInv, TypeOK
<1>2. CASE y \in Adders
  BY <1>1, <1>2, LogConfigAssumption
  DEF LockInv, WaitsFor, Running, At, Actor, Thread
<1>3. CASE y = Worker
  BY <1>1, <1>3, LogConfigAssumption
  DEF LockInv, WaitsFor, Running, At, Actor, Thread
<1>4. CASE y = Owner
  BY <1>1, <1>4, LogConfigAssumption
  DEF LockInv, WaitsFor, Running, At, Actor, Thread
<1>. QED  BY <1>2, <1>3, <1>4 DEF Actor, Thread

(* A thread that waits for the chain holds nothing but, if it is the       *)
(* worker, its own mutex; a knot is where that one is wanted.              *)
LEMMA NoThreeWaits ==
  ASSUME IInv, ~Knot, NEW w \in Actor, NEW x \in Actor, NEW y \in Actor,
         NEW z \in Actor
  PROVE  ~(WaitsFor(w, x) /\ WaitsFor(x, y) /\ WaitsFor(y, z))
<1> SUFFICES ASSUME WaitsFor(w, x), WaitsFor(x, y), WaitsFor(y, z) PROVE FALSE
  OBVIOUS
<1>1. LockInv /\ locker \in Thread \cup {Free}
  BY DEF IInv, TypeOK
<1> USE <1>1, LogConfigAssumption
<1>Adder. CASE y \in Adders
  <2>1. At(y, "lock") /\ chain = y /\ locker = Worker
    BY <1>Adder DEF LockInv, WaitsFor, At, Actor, Thread
  <2>2. ~(x = Worker /\ At(x, "chain"))
    BY <1>Adder, <2>1 DEF Knot, LockOrder
  <2>. QED  BY <1>Adder, <2>1, <2>2 DEF LockInv, WaitsFor, At, Actor, Thread
<1>Worker. CASE y = Worker
  <2>1. CASE At(Worker, "chain")
    <3>1. z \in Adders /\ chain = z
      BY <1>Worker, <2>1 DEF LockInv, WaitsFor, At, Actor, Thread, Knot, JoinLock
    <3>2. x # Owner
      BY <3>1 DEF LockInv, WaitsFor, At, Actor, Thread
    <3>3. At(z, "lock") /\ locker = Worker
      BY <1>Worker, <2>1, <3>1, <3>2 DEF LockInv, WaitsFor, At, Actor, Thread
    <3>. QED  BY <2>1, <3>1, <3>3 DEF Knot, LockOrder
  <2>2. CASE At(Worker, "lock")
    <3>1. chain = Worker /\ locker # Worker
      BY <2>2 DEF LockInv, At, Thread, Knot, OwnLock
    <3>. QED  BY <1>Worker, <2>2, <3>1 DEF LockInv, WaitsFor, At, Actor, Thread
  <2>3. CASE ~At(Worker, "chain") /\ ~At(Worker, "lock")
    <3>1. z \in Adders /\ chain = z
      BY <1>Worker, <2>3 DEF LockInv, WaitsFor, At, Actor, Thread
    <3>2. x # Owner
      BY <3>1 DEF LockInv, WaitsFor, At, Actor, Thread
    <3>. QED  BY <1>Worker, <2>3, <3>1, <3>2 DEF LockInv, WaitsFor, At, Actor, Thread
  <2>. QED  BY <2>1, <2>2, <2>3
<1>Owner. CASE y = Owner
  <2>1. chain = Owner /\ opc = "deleteJoin" /\ x \in Thread /\ At(x, "chain")
    BY <1>Owner DEF LockInv, WaitsFor, At, Actor, Thread
  <2>2. x # Worker
    BY <2>1 DEF Knot, JoinLock
  <2>. QED  BY <2>1, <2>2 DEF LockInv, WaitsFor, At, Actor, Thread
<1>. QED  BY <1>Adder, <1>Worker, <1>Owner DEF Actor, Thread

(* The waits of AddLogMessage for the chain and the logger, of the worker  *)
(* for its own mutex, and of DeleteLogger and DeleteLogChain for the chain *)
(* and the worker never close a circle, except in the three knots; and no  *)
(* mutex is left locked.                                                   *)
THEOREM ChainNoOtherKnot == Spec => []NoOtherKnot
<1>1. IInv => NoOtherKnot
  BY WaitedRuns, NoThreeWaits DEF NoOtherKnot
<1>. QED  BY <1>1, Invariant, PTL
=============================================================================
