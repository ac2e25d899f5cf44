------------------------ MODULE MessageQueueTokenProofs ------------------------
(***************************************************************************)
(* Proof that no message is left in the ring of a MessageQueue without a   *)
(* token in its semaphore:                                                 *)
(*   NeverStranded  NoStranded                                             *)
(* for every number of clients and masters and any set of processes that   *)
(* stop or are killed.  The invariant TokenInv counts the client that is   *)
(* about to post as one, which it is: it holds the mutex.                  *)
(***************************************************************************)
EXTENDS MessageQueueProofs, FiniteSetTheorems

Lost(s)    == \E c \in Clients : cpc[c] = "dead" /\ locker[s] = c
Announced(s) == \E c \in Clients : cpc[c] = "post" /\ cseg[c] = s
Served(m)  == mseg[m] # 0 /\ ~mstop[m] /\ ~Lost(mseg[m])
InHand(m)  == wpc[m] \in {"token", "lock", "take", "count"}

(* What a segment holds has a token each, of which one may be on its way   *)
(* into the semaphore and one on its way out.                              *)
Covered(m) ==
  nof[mseg[m]] <= sem[mseg[m]] + (IF Announced(mseg[m]) THEN 1 ELSE 0)
                    + (IF InHand(m) THEN 1 ELSE 0)

(* A segment that is still to be created is empty. *)
FreshInv == \A s \in Segment : s > created => nof[s] = 0

TokenInv == FreshInv /\ \A m \in Masters : Served(m) => Covered(m)

-----------------------------------------------------------------------------
(* A client that was killed with the mutex in its hand keeps it. *)
LEMMA LostStays ==
  ASSUME IInv, [Next]_vars, NEW s \in Segment, Lost(s)
  PROVE  Lost(s)'
<1> USE QueueAssumption DEF Lost
<1>1. PICK d \in Clients : cpc[d] = "dead" /\ locker[s] = d
  OBVIOUS
<1> SUFFICES cpc'[d] = "dead" /\ locker'[s] = d
  OBVIOUS
<1>2. cpc \in [Clients -> CpcSet] /\ locker \in [Segment -> Clients \cup Masters \cup {Free}]
  BY DEF IInv, TypeOK
<1>3. \A c \in Clients : cpc[c] \in Locked => locker[cseg[c]] = c
  BY DEF IInv, ClientInv
<1>4. \A m \in Masters : wpc[m] \in Held => locker[mseg[m]] = m
  BY DEF IInv, MasterInv
<1>5. CASE \E c \in Clients : ClientStep(c)
  <2> PICK c \in Clients : ClientStep(c)
    BY <1>5
  <2>1. CASE AddLock(c)
    BY <1>1, <1>2, <2>1 DEF AddLock
  <2>2. CASE AddFull(c) \/ AddUnlock(c)
    <3>1. cpc[c] \in Locked
      BY <2>2 DEF AddFull, AddUnlock, Locked
    <3>2. cseg[c] # s /\ c # d
      BY <1>1, <1>3, <3>1 DEF Locked
    <3>. QED  BY <1>1, <1>2, <2>2, <3>2 DEF AddFull, AddUnlock
  <2>3. CASE AddCall(c) \/ AddOpen(c) \/ AddCheckStop(c) \/ AddRetry(c)
             \/ AddStore(c) \/ AddAdvance(c) \/ AddCount(c) \/ AddPost(c)
    BY <1>1, <1>2, <2>3 DEF AddCall, AddOpen, AddCheckStop, AddRetry,
       AddStore, AddAdvance, AddCount, AddPost, ring
  <2>4. CASE CheckQueue(c) \/ EndTask(c) \/ SetClientLevel(c) \/ StopClient(c)
             \/ StopClientAgain(c) \/ CrashClient(c)
    BY <1>1, <1>2, <2>4 DEF CheckQueue, EndTask, SetClientLevel, StopClient,
       StopClientAgain, CrashClient, ring, adder
  <2>. QED  BY <2>1, <2>2, <2>3, <2>4 DEF ClientStep, Add
<1>6. CASE \E m \in Masters : MasterStep(m)
  <2> PICK m \in Masters : MasterStep(m)
    BY <1>6
  <2>1. CASE GetLock(m)
    BY <1>1, <1>2, <2>1, QueueAssumption DEF GetLock, adder
  <2>2. CASE GetUnlock(m)
    <3>1. mseg[m] # s
      BY <1>1, <1>4, <2>2 DEF GetUnlock, Held
    <3>. QED  BY <1>1, <1>2, <2>2, <3>1 DEF GetUnlock, adder
  <2>3. CASE GetBlocking(m) \/ GetToken(m) \/ GetCheck(m)
             \/ GetTake(m) \/ GetCount(m)
             \/ ConstructMaster(m) \/ SetActive(m) \/ SetLogLevel(m)
             \/ StopMaster(m) \/ DestroyMaster(m) \/ CrashMaster(m)
    BY <1>1, <2>3 DEF GetBlocking, GetToken, GetCheck, GetTake, GetCount,
       ConstructMaster, SetActive, SetLogLevel, StopMaster, DestroyMaster, CrashMaster, ring,
       adder
  <2>. QED  BY <2>1, <2>2, <2>3 DEF MasterStep, Get
<1>7. CASE UNCHANGED vars
  BY <1>1, <1>7 DEF vars, ring, adder
<1>. QED  BY <1>5, <1>6, <1>7 DEF Next

(* A step that leaves the masters alone, adds no message and takes no      *)
(* token, and does not end a post.                                         *)
LEMMA Steady ==
  ASSUME IInv, TokenInv, [Next]_vars,
         created' = created,
         UNCHANGED <<mseg, mstop, wpc>>,
         \A s \in Segment :
           /\ nof'[s] = nof[s]
           /\ sem'[s] \in Nat /\ sem'[s] >= sem[s]
           /\ Announced(s) => Announced(s)' \/ Lost(s)' \/ sem'[s] > sem[s]
  PROVE  TokenInv'
<1>1. FreshInv'
  BY DEF TokenInv, FreshInv
<1>2. ASSUME NEW m \in Masters, Served(m)' PROVE Covered(m)'
  <2>1. mseg[m] \in Segment
    <3>1. mseg[m] # 0
      BY <1>2 DEF Served
    <3>. QED  BY <3>1, MasterSegment
  <2>2. Served(m)
    BY <1>2, <2>1, LostStays DEF Served, Lost
  <2>3. Covered(m)
    BY <2>2 DEF TokenInv
  <2>4. nof[mseg[m]] \in Nat /\ sem[mseg[m]] \in Nat
    BY <2>1, QueueAssumption DEF IInv, TypeOK
  <2>5. InHand(m)' <=> InHand(m)
    BY DEF InHand
  <2>6. ~Lost(mseg[m])'
    BY <1>2 DEF Served, Lost
  <2>7. /\ nof'[mseg[m]] = nof[mseg[m]]
        /\ sem'[mseg[m]] \in Nat /\ sem'[mseg[m]] >= sem[mseg[m]]
        /\ Announced(mseg[m]) => Announced(mseg[m])' \/ sem'[mseg[m]] > sem[mseg[m]]
    BY <2>1, <2>6 DEF Lost, Announced
  <2>. QED  BY <2>3, <2>4, <2>5, <2>7 DEF Covered, Announced
<1>. QED  BY <1>1, <1>2 DEF TokenInv

(* The steps of a client. *)
LEMMA ClientTokenStep ==
  ASSUME IInv, TokenInv, [Next]_vars, NEW c \in Clients, ClientStep(c)
  PROVE  TokenInv'
<1> USE QueueAssumption DEF Announced, Lost
<1>1. /\ cpc \in [Clients -> CpcSet] /\ sem \in [Segment -> Nat]
      /\ nof \in [Segment -> 0..MaxNof] /\ \A s \in Segment : sem[s] \in Nat
  BY DEF IInv, TypeOK
<1>2. cpc[c] \in Locked => cseg[c] \in Segment /\ locker[cseg[c]] = c
  <2>1. cseg[c] \in 0..created /\ created \in 0..MaxSegment
    BY DEF IInv, TypeOK
  <2>. QED  BY <2>1 DEF IInv, ClientInv, Locked, Segment
<1>3. CASE AddCall(c) \/ AddOpen(c) \/ AddCheckStop(c) \/ AddLock(c)
           \/ AddFull(c) \/ AddRetry(c) \/ AddStore(c) \/ AddAdvance(c)
           \/ AddUnlock(c)
  <2>1. UNCHANGED <<created, mseg, mstop, wpc, nof, sem>>
    BY <1>3 DEF AddCall, AddOpen, AddCheckStop, AddLock, AddFull, AddRetry,
       AddStore, AddAdvance, AddUnlock, names, ring, master, getter
  <2>2. cpc[c] # "post"
        /\ \A d \in Clients : d # c => cpc'[d] = cpc[d] /\ cseg'[d] = cseg[d]
    <3>1. cseg \in [Clients -> 0..created]
      BY DEF IInv, TypeOK
    <3>2. CASE AddCall(c) \/ AddCheckStop(c) \/ AddLock(c) \/ AddFull(c)
      BY <1>1, <3>1, <3>2 DEF AddCall, AddCheckStop, AddLock, AddFull
    <3>3. CASE AddRetry(c) \/ AddStore(c) \/ AddAdvance(c) \/ AddUnlock(c)
               \/ AddOpen(c)
      BY <1>1, <3>1, <3>3
      DEF AddRetry, AddStore, AddAdvance, AddUnlock, AddOpen
    <3>. QED  BY <1>3, <3>2, <3>3
  <2>3. \A s \in Segment : Announced(s) => Announced(s)'
    BY <2>2
  <2>. QED  BY <1>1, <2>1, <2>3, Steady
<1>4. CASE CheckQueue(c) \/ EndTask(c) \/ SetClientLevel(c) \/ StopClient(c)
  <2>1. UNCHANGED <<created, mseg, mstop, wpc, nof, sem, cpc, cseg>>
    BY <1>4 DEF CheckQueue, EndTask, SetClientLevel, StopClient, names, ring,
       adder, master, getter
  <2>. QED  BY <1>1, <2>1, Steady
<1>5. CASE StopClientAgain(c)
  <2>1. UNCHANGED <<created, mseg, mstop, wpc, nof, cpc, cseg>>
    BY <1>5 DEF StopClientAgain, names, adder, master, getter
  <2>2. \A s \in Segment : sem'[s] \in Nat /\ sem'[s] >= sem[s]
    BY <1>1, <1>5 DEF StopClientAgain, FakeMessage
  <2>. QED  BY <2>1, <2>2, Steady
<1>6. CASE CrashClient(c)
  <2>1. UNCHANGED <<created, mseg, mstop, wpc, nof, sem, cseg, locker>>
    BY <1>6 DEF CrashClient, names, ring, master, getter
  <2>2. ASSUME NEW s \in Segment, Announced(s)
        PROVE  Announced(s)' \/ Lost(s)'
    <3>1. CASE cpc[c] = "post" /\ cseg[c] = s
      BY <1>1, <1>2, <1>6, <2>1, <3>1 DEF CrashClient, Locked
    <3>2. CASE ~(cpc[c] = "post" /\ cseg[c] = s)
      BY <1>1, <1>6, <2>1, <2>2, <3>2 DEF CrashClient
    <3>. QED  BY <3>1, <3>2
  <2>. QED  BY <1>1, <2>1, <2>2, Steady
<1>7. CASE AddPost(c)
  <2>1. UNCHANGED <<created, mseg, mstop, wpc, nof, cseg>>
    BY <1>7 DEF AddPost, names, master, getter
  <2>2. \A s \in Segment : sem'[s] \in Nat /\ sem'[s] >= sem[s]
    BY <1>1, <1>7 DEF AddPost
  <2>3. ASSUME NEW s \in Segment, Announced(s)
        PROVE  Announced(s)' \/ sem'[s] > sem[s]
    <3>1. CASE cseg[c] = s
      BY <1>1, <1>7, <3>1 DEF AddPost
    <3>2. CASE cseg[c] # s
      BY <1>1, <1>7, <2>3, <3>2 DEF AddPost
    <3>. QED  BY <3>1, <3>2
  <2>. QED  BY <2>1, <2>2, <2>3, Steady
<1>8. CASE AddCount(c)
  <2> DEFINE t == cseg[c]
  <2>1. UNCHANGED <<created, mseg, mstop, wpc, sem, cseg, locker>>
    BY <1>8 DEF AddCount, names, master, getter
  <2>2. t \in Segment /\ locker[t] = c
    BY <1>2, <1>8 DEF AddCount, Locked
  <2>3. /\ nof'[t] = nof[t] + 1
        /\ \A s \in Segment : s # t => nof'[s] = nof[s]
    BY <1>1, <1>8, <2>2 DEF AddCount
  <2>4. ~Announced(t)
    <3> SUFFICES ASSUME NEW d \in Clients, cpc[d] = "post", cseg[d] = t PROVE FALSE
      OBVIOUS
    <3>1. locker[t] = d
      BY DEF IInv, ClientInv, Locked
    <3>. QED  BY <1>8, <2>2, <3>1 DEF AddCount
  <2>5. Announced(t)' /\ \A s \in Segment : Announced(s) => Announced(s)'
    BY <1>1, <1>8, <2>1 DEF AddCount
  <2>6. FreshInv'
    <3>1. t \in 0..created /\ created \in 0..MaxSegment
      BY DEF IInv, TypeOK
    <3>. QED  BY <2>1, <2>3, <3>1 DEF TokenInv, FreshInv, Segment
  <2>7. ASSUME NEW m \in Masters, Served(m)' PROVE Covered(m)'
    <3>1. mseg[m] \in Segment
      <4>1. mseg[m] # 0
        BY <2>1, <2>7 DEF Served
      <4>. QED  BY <4>1, MasterSegment
    <3>2. Served(m)
      BY <2>1, <2>7, <3>1, LostStays DEF Served
    <3>3. Covered(m)
      BY <3>2 DEF TokenInv
    <3>4. nof[mseg[m]] \in Nat /\ sem[mseg[m]] \in Nat
      BY <1>1, <3>1
    <3>5. CASE mseg[m] = t
      BY <2>1, <2>3, <2>4, <2>5, <3>3, <3>4, <3>5 DEF Covered, InHand
    <3>6. CASE mseg[m] # t
      <4>1. nof'[mseg[m]] = nof[mseg[m]]
        BY <2>3, <3>1, <3>6
      <4>2. Announced(mseg[m]) => Announced(mseg[m])'
        BY <2>1, <2>5, <3>1
      <4>. QED  BY <2>1, <3>3, <3>4, <4>1, <4>2 DEF Covered, InHand
    <3>. QED  BY <3>5, <3>6
  <2>. QED  BY <2>6, <2>7 DEF TokenInv
<1>. QED
  BY <1>3, <1>4, <1>5, <1>6, <1>7, <1>8 DEF ClientStep, Add

(* The steps of a master: no two of them have the same segment. *)
LEMMA MasterTokenStep ==
  ASSUME IInv, TokenInv, [Next]_vars, NEW m \in Masters, MasterStep(m)
  PROVE  TokenInv'
<1> USE QueueAssumption DEF Announced, Lost
<1>1. /\ sem \in [Segment -> Nat] /\ nof \in [Segment -> 0..MaxNof]
      /\ wpc \in [Masters -> WpcSet] /\ mseg \in [Masters -> 0..created]
      /\ mstop \in [Masters -> BOOLEAN] /\ created \in 0..MaxSegment
  BY DEF IInv, TypeOK
<1>2. \A n \in Masters : n # m /\ mseg[n] # 0 => mseg[n] # mseg[m]
  BY DEF IInv, MasterInv
<1>3. \A n \in Masters : mseg[n] # 0 => mseg[n] \in Segment
  BY MasterSegment
<1>4. UNCHANGED <<cpc, cseg>>
  <2>1. CASE Get(m)
    BY <2>1 DEF Get, GetBlocking, GetToken, GetCheck, GetLock, GetTake,
       GetCount, GetUnlock, adder
  <2>2. CASE ~Get(m)
    BY <2>2 DEF MasterStep, ConstructMaster, SetActive, SetLogLevel,
       StopMaster, DestroyMaster, CrashMaster, adder
  <2>. QED  BY <2>1, <2>2
<1>5. \A s \in Segment : Lost(s) => Lost(s)'
  BY LostStays
(* A step that concerns m only. *)
<1>6. ASSUME \A n \in Masters : n # m =>
               /\ mseg'[n] = mseg[n] /\ mstop'[n] = mstop[n] /\ wpc'[n] = wpc[n],
             \A s \in Segment : s # mseg[m] =>
               nof'[s] = nof[s] /\ sem'[s] \in Nat /\ sem'[s] >= sem[s],
             Served(m)' => Covered(m)',
             FreshInv'
      PROVE  TokenInv'
  <2>1. ASSUME NEW n \in Masters, n # m, Served(n)' PROVE Covered(n)'
    <3>1. mseg[n] \in Segment /\ mseg[n] # mseg[m]
      BY <1>2, <1>3, <1>6, <2>1 DEF Served
    <3>2. Served(n)
      BY <1>5, <1>6, <2>1, <3>1 DEF Served
    <3>3. Covered(n)
      BY <3>2 DEF TokenInv
    <3>4. nof[mseg[n]] \in Nat /\ sem[mseg[n]] \in Nat
      BY <1>1, <3>1
    <3>. QED  BY <1>4, <1>6, <2>1, <3>1, <3>3, <3>4 DEF Covered, InHand
  <2>. QED  BY <1>6, <2>1 DEF TokenInv
<1>GetBlocking. CASE GetBlocking(m)
  <2>1. UNCHANGED <<created, nof, sem, mseg, mstop, locker>>
    BY <1>GetBlocking DEF GetBlocking, names, ring, master
  <2>2. Served(m)' => Covered(m)'
    BY <1>1, <1>4, <1>GetBlocking, <2>1
    DEF GetBlocking, TokenInv, Served, Covered, InHand
  <2>. QED
    BY <1>1, <1>6, <1>GetBlocking, <2>1, <2>2 DEF GetBlocking, TokenInv, FreshInv
<1>GetToken. CASE GetToken(m)
  <2>1. UNCHANGED <<created, nof, mseg, mstop, locker>>
    BY <1>GetToken DEF GetToken, names, master
  <2>2. mseg[m] \in Segment
    BY <1>3, <1>GetToken, GetSegment DEF GetToken
  <2>3. sem'[mseg[m]] = sem[mseg[m]] - 1 /\ wpc[m] \in {"idle", "wait"}
        /\ wpc'[m] = "token" /\ sem[mseg[m]] \in Nat /\ nof[mseg[m]] \in Nat
    BY <1>1, <1>GetToken, <2>2 DEF GetToken
  <2>4. Served(m)' => Covered(m)'
    <3> SUFFICES ASSUME Served(m)' PROVE Covered(m)'
      OBVIOUS
    <3>1. Covered(m) /\ ~InHand(m) /\ InHand(m)'
      BY <1>4, <2>1, <2>3 DEF Served, TokenInv, InHand
    <3>. QED  BY <1>4, <2>1, <2>3, <3>1 DEF Covered
  <2>. QED
    BY <1>1, <1>6, <1>GetToken, <2>1, <2>4 DEF GetToken, TokenInv, FreshInv
<1>GetCheck. CASE GetCheck(m)
  <2>1. UNCHANGED <<created, nof, sem, mseg, mstop, locker>>
    BY <1>GetCheck DEF GetCheck, names, ring, master
  <2>2. mseg[m] \in Segment
    BY <1>GetCheck, GetSegment DEF GetCheck
  <2>3. Served(m)' => Covered(m)'
    <3> SUFFICES ASSUME Served(m)' PROVE Covered(m)'
      OBVIOUS
    <3>1. Covered(m) /\ InHand(m) /\ ~mstop[m]
      BY <1>4, <1>GetCheck, <2>1 DEF GetCheck, Served, TokenInv, InHand
    <3>2. nof[mseg[m]] \in Nat /\ sem[mseg[m]] \in Nat
      BY <1>1, <2>2
    <3>3. CASE nof[mseg[m]] = 0
      BY <1>4, <2>1, <3>2, <3>3 DEF Covered
    <3>4. CASE nof[mseg[m]] # 0
      <4>1. InHand(m)'
        BY <1>1, <1>GetCheck, <3>1, <3>4 DEF GetCheck, InHand
      <4>. QED  BY <1>4, <2>1, <3>1, <4>1 DEF Covered
    <3>. QED  BY <3>3, <3>4
  <2>. QED
    BY <1>1, <1>6, <1>GetCheck, <2>1, <2>3 DEF GetCheck, TokenInv, FreshInv
(* The token stays in the hand of Get while it locks, copies and counts.   *)
<1>Hand. CASE GetLock(m) \/ GetTake(m)
  <2>1. UNCHANGED <<created, nof, sem, mseg, mstop>>
    BY <1>Hand DEF GetLock, GetTake, names, master
  <2>2. mseg[m] \in Segment
    BY <1>Hand, GetSegment DEF GetLock, GetTake
  <2>3. InHand(m) /\ InHand(m)'
    BY <1>1, <1>Hand DEF GetLock, GetTake, InHand
  <2>4. Served(m)' => Covered(m)'
    <3> SUFFICES ASSUME Served(m)' PROVE Covered(m)'
      OBVIOUS
    <3>1. Covered(m)
      BY <1>5, <2>1, <2>2 DEF Served, TokenInv
    <3>. QED  BY <1>4, <2>1, <2>3, <3>1 DEF Covered
  <2>5. \A n \in Masters : n # m => wpc'[n] = wpc[n]
    BY <1>1, <1>Hand DEF GetLock, GetTake
  <2>6. FreshInv'
    BY <2>1 DEF TokenInv, FreshInv
  <2>. QED  BY <1>1, <1>6, <2>1, <2>4, <2>5, <2>6
<1>GetCount. CASE GetCount(m)
  <2>1. UNCHANGED <<created, sem, mseg, mstop>>
    BY <1>GetCount DEF GetCount, names, master
  <2>2. mseg[m] \in Segment /\ mseg[m] # 0
    BY <1>GetCount, GetSegment DEF GetCount, Segment
  <2>3. /\ nof[mseg[m]] \in Nat /\ sem[mseg[m]] \in Nat /\ nof[mseg[m]] > 0
        /\ nof'[mseg[m]] = nof[mseg[m]] - 1
        /\ \A s \in Segment : s # mseg[m] => nof'[s] = nof[s]
    <3>1. nof[mseg[m]] > 0
      BY <1>GetCount DEF GetCount, IInv, NoUnderflow
    <3>. QED  BY <1>1, <1>GetCount, <2>2, <3>1 DEF GetCount, Pred
  <2>4. Served(m)' => Covered(m)'
    <3> SUFFICES ASSUME Served(m)' PROVE Covered(m)'
      OBVIOUS
    <3>1. Served(m)
      BY <1>5, <2>1, <2>2 DEF Served
    <3>2. Covered(m) /\ InHand(m)
      BY <1>GetCount, <3>1 DEF GetCount, TokenInv, InHand
    <3>. QED  BY <1>4, <2>1, <2>3, <3>2 DEF Covered
  <2>5. FreshInv'
    BY <1>1, <2>1, <2>2, <2>3 DEF TokenInv, FreshInv, Segment
  <2>. QED
    BY <1>1, <1>6, <1>GetCount, <2>1, <2>3, <2>4, <2>5 DEF GetCount
<1>GetUnlock. CASE GetUnlock(m)
  <2>1. UNCHANGED <<created, nof, sem, mseg, mstop>>
    BY <1>GetUnlock DEF GetUnlock, names, master
  <2>2. mseg[m] \in Segment
    BY <1>GetUnlock, GetSegment DEF GetUnlock
  <2>3. Served(m)' => Covered(m)'
    <3> SUFFICES ASSUME Served(m)' PROVE Covered(m)'
      OBVIOUS
    <3>1. Covered(m)
      BY <1>5, <2>1, <2>2 DEF Served, TokenInv
    <3>2. ~InHand(m)
      BY <1>GetUnlock DEF GetUnlock, InHand
    <3>3. ~InHand(m)'
      BY <1>1, <1>GetUnlock DEF GetUnlock, InHand
    <3>. QED  BY <1>4, <2>1, <3>1, <3>2, <3>3 DEF Covered
  <2>. QED
    BY <1>1, <1>6, <1>GetUnlock, <2>1, <2>3 DEF GetUnlock, TokenInv, FreshInv
<1>ConstructMaster. CASE ConstructMaster(m)
  <2>1. UNCHANGED <<nof, sem, wpc>>
    BY <1>ConstructMaster DEF ConstructMaster, ring, getter
  <2>2. created' = created + 1 /\ created' \in Segment /\ mseg'[m] = created'
    BY <1>1, <1>ConstructMaster DEF ConstructMaster, Segment
  <2>3. nof[created'] = 0 /\ sem[created'] \in Nat
    BY <1>1, <2>2 DEF TokenInv, FreshInv, Segment
  <2>4. Covered(m)'
    BY <2>1, <2>2, <2>3 DEF Covered
  <2>5. FreshInv'
    BY <1>1, <2>1, <2>2 DEF TokenInv, FreshInv, Segment
  <2>. QED
    BY <1>1, <1>6, <1>ConstructMaster, <2>1, <2>4, <2>5 DEF ConstructMaster
<1>CrashMaster. CASE CrashMaster(m)
  <2>1. UNCHANGED <<created, nof, sem, mstop>>
    BY <1>CrashMaster DEF CrashMaster, names, ring
  <2>2. ~Served(m)'
    BY <1>1, <1>CrashMaster DEF CrashMaster, Served
  <2>. QED
    BY <1>1, <1>6, <1>CrashMaster, <2>1, <2>2
    DEF CrashMaster, TokenInv, FreshInv
<1>DestroyMaster. CASE DestroyMaster(m)
  <2>1. UNCHANGED <<created, nof, mstop, wpc>>
    BY <1>DestroyMaster DEF DestroyMaster, getter
  <2>2. ~Served(m)'
    BY <1>1, <1>DestroyMaster DEF DestroyMaster, Served
  <2>. QED
    BY <1>1, <1>6, <1>DestroyMaster, <2>1, <2>2
    DEF DestroyMaster, TokenInv, FreshInv
<1>StopMaster. CASE StopMaster(m)
  <2>1. UNCHANGED <<created, nof, mseg, wpc>>
    BY <1>StopMaster DEF StopMaster, names, getter
  <2>2. \A s \in Segment : sem'[s] \in Nat /\ sem'[s] >= sem[s]
    BY <1>1, <1>StopMaster DEF StopMaster, FakeMessage
  <2>3. ~Served(m)'
    BY <1>1, <1>StopMaster DEF StopMaster, Served
  <2>. QED
    BY <1>1, <1>6, <1>StopMaster, <2>1, <2>2, <2>3
    DEF StopMaster, TokenInv, FreshInv
<1>Status. CASE SetActive(m) \/ SetLogLevel(m)
  <2>1. UNCHANGED <<created, nof, sem, mseg, mstop, wpc>>
    BY <1>Status DEF SetActive, SetLogLevel, names, ring, master, getter
  <2>. QED  BY <1>1, <1>4, <2>1, Steady
<1>. QED
  BY <1>GetBlocking, <1>GetToken, <1>GetCheck, <1>Hand, <1>GetCount, <1>GetUnlock,
     <1>ConstructMaster, <1>CrashMaster, <1>DestroyMaster, <1>StopMaster,
     <1>Status
  DEF MasterStep, Get

-----------------------------------------------------------------------------
(* The token of every message, in every reachable state. *)
LEMMA TokenInvariance == Spec => []TokenInv
<1>1. Init => TokenInv
  <2> SUFFICES ASSUME Init PROVE TokenInv
    OBVIOUS
  <2>. QED  BY DEF Init, TokenInv, FreshInv, Served
<1>2. IInv /\ TokenInv /\ [Next]_vars => TokenInv'
  <2> SUFFICES ASSUME IInv, TokenInv, [Next]_vars PROVE TokenInv'
    OBVIOUS
  <2>1. CASE \E c \in Clients : ClientStep(c)
    BY <2>1, ClientTokenStep
  <2>2. CASE \E m \in Masters : MasterStep(m)
    BY <2>2, MasterTokenStep
  <2>3. CASE UNCHANGED vars
    <3>1. UNCHANGED <<created, mseg, mstop, wpc, nof, sem, cpc, cseg>>
      BY <2>3 DEF vars, names, ring, adder, master, getter
    <3>2. \A s \in Segment : sem[s] \in Nat
      BY DEF IInv, TypeOK
    <3>. QED  BY <3>1, <3>2, Steady DEF Announced
  <2>. QED  BY <2>1, <2>2, <2>3 DEF Next
<1>. QED  BY <1>1, <1>2, Invariance, PTL DEF Spec

(* No message lies in the ring of a running master without a token that    *)
(* wakes Get for it, whoever adds, stops or is killed (MessageQueue::Add   *)
(* counts the message first and posts then).                               *)
THEOREM NeverStranded == Spec => []NoStranded
<1>1. IInv /\ TokenInv => NoStranded
  <2> SUFFICES ASSUME IInv, TokenInv, NEW m \in Masters,
                      mseg[m] # 0, ~mstop[m], Killed(mseg[m]) = {}
               PROVE  nof[mseg[m]] <= sem[mseg[m]] + Cardinality(Posting(mseg[m]))
                        + (IF wpc[m] \in {"token", "lock", "take", "count"}
                           THEN 1 ELSE 0)
    BY DEF NoStranded
  <2>1. mseg[m] \in Segment
    BY MasterSegment
  <2>2. nof[mseg[m]] \in Nat /\ sem[mseg[m]] \in Nat
    BY <2>1, QueueAssumption DEF IInv, TypeOK
  <2>3. Covered(m)
    BY DEF TokenInv, Served, Lost, Killed
  <2>4. Cardinality(Posting(mseg[m])) = (IF Announced(mseg[m]) THEN 1 ELSE 0)
    <3>1. CASE Announced(mseg[m])
      <4>1. PICK c \in Clients : cpc[c] = "post" /\ cseg[c] = mseg[m]
        BY <3>1 DEF Announced
      <4>2. Posting(mseg[m]) = {c}
        BY <4>1 DEF IInv, ClientInv, Locked, Posting
      <4>. QED  BY <3>1, <4>2, FS_Singleton
    <3>2. CASE ~Announced(mseg[m])
      <4>1. Posting(mseg[m]) = {}
        BY <3>2 DEF Posting, Announced
      <4>. QED  BY <3>2, <4>1, FS_EmptySet
    <3>. QED  BY <3>1, <3>2
  <2>. QED  BY <2>2, <2>3, <2>4 DEF Covered, InHand
<1>. QED  BY <1>1, Invariance, TokenInvariance, PTL
=============================================================================
