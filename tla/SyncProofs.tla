----------------------------- MODULE SyncProofs -----------------------------
(***************************************************************************)
(* Proofs about what processes wait on: the queueing lock, the readers and *)
(* writer lock that is built from two of them, and Sleep and Wakeup, each  *)
(* for any set of processes.                                               *)
(***************************************************************************)
EXTENDS QLock, RWLock, Rendez, QueueFacts, FiniteSetTheorems

----------------------------------------------------------------------------
(* The queueing lock: type correctness, mutual exclusion, no lost waiter,  *)
(* and that it implements FifoMutex.                                       *)

\* q->use is held exactly by the process inside the protected section.
UseInv == \A p \in Procs : use = p <=> qpc[p] \in {Inside, Trying, UnIn}

\* p carries the lock: it holds it or is handing it over.
Carrying(p) == qpc[p] \in {Holding, UnSpin, UnIn, Handing}

\* One process carries the lock while q->locked is set, none otherwise.
CarrierInv ==
    /\ \A p, q \in Procs : Carrying(p) /\ Carrying(q) => p = q
    /\ locked => \E p \in Procs : Carrying(p)
    /\ ~locked => \A p \in Procs : ~Carrying(p)

\* The processes linked in the queue are parked, each is linked once, and a
\* releasing process meets a parked process that it has unlinked.
QueueInv ==
    /\ \A i \in DOMAIN waitq : qpc[waitq[i]] = Parked
    /\ \A i, j \in DOMAIN waitq : waitq[i] = waitq[j] => i = j
    /\ \A u \in Procs : qpc[u] = Handing =>
          /\ wakee[u] \in Procs
          /\ qpc[wakee[u]] = Parked
          /\ \A i \in DOMAIN waitq : waitq[i] # wakee[u]

\* A parked process is linked, or some release is about to meet it.
ParkedInv ==
    \A p \in Procs : qpc[p] = Parked =>
        \/ \E i \in DOMAIN waitq : waitq[i] = p
        \/ \E u \in Procs : qpc[u] = Handing /\ wakee[u] = p

QLockIInv == QLockTypeOK /\ UseInv /\ CarrierInv /\ QueueInv /\ ParkedInv

USE DEF Idle, Spin, Inside, Trying, Parked, Holding, UnSpin, UnIn, Handing

\* QLockIInv holds when no call has been made yet.
LEMMA QLockInitIInv == QLockInit => QLockIInv
<1> SUFFICES ASSUME QLockInit PROVE QLockIInv
  OBVIOUS
<1> USE DEF QLockInit
<1>1. QLockTypeOK
  <2>1. use \in Procs \cup {NoProc} /\ locked \in BOOLEAN
    OBVIOUS
  <2>2. waitq \in Seq(Procs)
    OBVIOUS
  <2>3. qpc \in [Procs -> QLockPCs]
    BY DEF QLockPCs
  <2>4. wakee \in [Procs -> Procs \cup {NoProc}]
    OBVIOUS
  <2> QED
    BY <2>1, <2>2, <2>3, <2>4 DEF QLockTypeOK
<1>2. UseInv
  BY ProcsAssumption DEF UseInv
<1>3. CarrierInv
  BY DEF CarrierInv, Carrying
<1>4. QueueInv /\ ParkedInv
  BY DEF QueueInv, ParkedInv
<1> QED
  BY <1>1, <1>2, <1>3, <1>4 DEF QLockIInv

\* A step that touches neither the queue nor the processes that wait or
\* release keeps the two invariants about them.
LEMMA QuietStep ==
  ASSUME QLockIInv, NEW p \in Procs, NEW l \in QLockPCs \ {Parked, Handing},
         qpc[p] \notin {Parked, Handing}, qpc' = [qpc EXCEPT ![p] = l],
         UNCHANGED <<waitq, wakee>>
  PROVE  QueueInv' /\ ParkedInv'
<1> USE DEF QLockIInv, QLockTypeOK
<1>1. QueueInv'
  BY DEF QueueInv
<1>2. ParkedInv'
  BY DEF ParkedInv
<1> QED
  BY <1>1, <1>2

\* Winning the spin lock q->use, in any of the three calls.
LEMMA LockUseStep ==
  ASSUME QLockIInv, NEW p \in Procs,
         CanqlockUse(p) \/ QlockUse(p) \/ QunlockUse(p)
  PROVE  QLockIInv'
<1> USE DEF QLockIInv, CanqlockUse, QlockUse, QunlockUse, LockUse, Advance
<1>1. QLockTypeOK'
  <2>1. use' \in Procs \cup {NoProc} /\ locked' \in BOOLEAN
    BY DEF QLockTypeOK
  <2>2. waitq' \in Seq(Procs)
    BY DEF QLockTypeOK
  <2>3. qpc' \in [Procs -> QLockPCs]
    BY DEF QLockTypeOK, QLockPCs
  <2>4. wakee' \in [Procs -> Procs \cup {NoProc}]
    BY DEF QLockTypeOK
  <2> QED
    BY <2>1, <2>2, <2>3, <2>4 DEF QLockTypeOK
<1>2. UseInv'
  BY ProcsAssumption DEF UseInv, QLockTypeOK
<1>3. CarrierInv'
  <2>1. \A q \in Procs : Carrying(q)' <=> Carrying(q)
    BY DEF Carrying, QLockTypeOK
  <2>2. locked' = locked
    OBVIOUS
  <2> QED
    BY <2>1, <2>2 DEF CarrierInv
<1>4. QueueInv' /\ ParkedInv'
  BY QuietStep DEF QLockPCs
<1> QED
  BY <1>1, <1>2, <1>3, <1>4

\* Entering qlock and qunlock.
LEMMA EnterStep ==
  ASSUME QLockIInv, NEW p \in Procs, Qlock(p) \/ Qunlock(p)
  PROVE  QLockIInv'
<1> USE DEF QLockIInv, Qlock, Qunlock, Advance
<1>1. QLockTypeOK'
  <2>1. use' \in Procs \cup {NoProc} /\ locked' \in BOOLEAN
    BY DEF QLockTypeOK
  <2>2. waitq' \in Seq(Procs)
    BY DEF QLockTypeOK
  <2>3. qpc' \in [Procs -> QLockPCs]
    BY DEF QLockTypeOK, QLockPCs
  <2>4. wakee' \in [Procs -> Procs \cup {NoProc}]
    BY DEF QLockTypeOK
  <2> QED
    BY <2>1, <2>2, <2>3, <2>4 DEF QLockTypeOK
<1>2. UseInv'
  BY DEF UseInv, QLockTypeOK
<1>3. CarrierInv'
  <2>1. \A q \in Procs : Carrying(q)' <=> Carrying(q)
    BY DEF Carrying, QLockTypeOK
  <2>2. locked' = locked
    OBVIOUS
  <2> QED
    BY <2>1, <2>2 DEF CarrierInv
<1>4. QueueInv' /\ ParkedInv'
  BY QuietStep DEF QLockPCs
<1> QED
  BY <1>1, <1>2, <1>3, <1>4

\* Leaving the protected section without touching the queue.
LEMMA TakeDropStep ==
  ASSUME QLockIInv, NEW p \in Procs,
         QlockFree(p) \/ CanqlockTake(p) \/ QunlockDrop(p)
  PROVE  QLockIInv'
<1> USE DEF QLockIInv, QlockFree, CanqlockTake, QunlockDrop, Advance
<1>1. QLockTypeOK'
  <2>1. use' \in Procs \cup {NoProc} /\ locked' \in BOOLEAN
    BY DEF QLockTypeOK
  <2>2. waitq' \in Seq(Procs)
    BY DEF QLockTypeOK
  <2>3. qpc' \in [Procs -> QLockPCs]
    BY DEF QLockTypeOK, QLockPCs
  <2>4. wakee' \in [Procs -> Procs \cup {NoProc}]
    BY DEF QLockTypeOK
  <2> QED
    BY <2>1, <2>2, <2>3, <2>4 DEF QLockTypeOK
<1>2. UseInv'
  BY ProcsAssumption DEF UseInv, QLockTypeOK
<1>3. CarrierInv'
  BY DEF CarrierInv, Carrying, QLockTypeOK
<1>4. QueueInv' /\ ParkedInv'
  <2>1. PICK l \in {Idle, Holding} : qpc' = [qpc EXCEPT ![p] = l]
    BY DEF QLockTypeOK
  <2> QED
    BY <2>1, QuietStep DEF QLockPCs
<1> QED
  BY <1>1, <1>2, <1>3, <1>4

\* Linking at the tail and parking.
LEMMA WaitStep ==
  ASSUME QLockIInv, NEW p \in Procs, QlockWait(p)
  PROVE  QLockIInv'
<1>1. /\ qpc[p] = Inside /\ locked /\ waitq' = Append(waitq, p)
      /\ use' = NoProc /\ qpc' = [qpc EXCEPT ![p] = Parked]
      /\ locked' = locked /\ wakee' = wakee
  BY DEF QlockWait, Advance
<1>2. QLockTypeOK /\ UseInv /\ CarrierInv /\ QueueInv /\ ParkedInv
  BY DEF QLockIInv
<1>3. /\ qpc \in [Procs -> QLockPCs] /\ waitq \in Seq(Procs)
      /\ wakee \in [Procs -> Procs \cup {NoProc}] /\ locked \in BOOLEAN
  BY <1>2 DEF QLockTypeOK
<1>4. /\ waitq' \in Seq(Procs)
      /\ DOMAIN waitq = 1 .. Len(waitq) /\ Len(waitq) \in Nat
      /\ DOMAIN waitq' = 1 .. (Len(waitq) + 1)
      /\ \A i \in DOMAIN waitq : waitq[i] \in Procs /\ waitq'[i] = waitq[i]
      /\ waitq'[Len(waitq) + 1] = p
  <2>1. waitq \in Seq(Procs) /\ waitq' = Append(waitq, p)
    BY <1>1, <1>3
  <2> QED
    BY <2>1, AppendFacts
<1>5. qpc'[p] = Parked /\ \A q \in Procs : q # p => qpc'[q] = qpc[q]
  BY <1>1, <1>3
<1>6. QLockTypeOK'
  <2>1. qpc' \in [Procs -> QLockPCs]
    BY <1>1, <1>3 DEF QLockPCs
  <2> QED
    BY <2>1, <1>1, <1>3, <1>4 DEF QLockTypeOK
<1>7. UseInv'
  BY <1>1, <1>2, <1>5, ProcsAssumption DEF UseInv
<1>8. CarrierInv'
  <2>1. \A q \in Procs : Carrying(q)' <=> Carrying(q)
    BY <1>1, <1>5 DEF Carrying
  <2> QED
    BY <2>1, <1>1, <1>2 DEF CarrierInv
<1>9. QueueInv'
  <2>1. \A i \in DOMAIN waitq : waitq[i] # p /\ waitq[i] \in Procs
    BY <1>1, <1>2, <1>4 DEF QueueInv
  <2>2. \A i \in DOMAIN waitq' : qpc'[waitq'[i]] = Parked
    BY <1>2, <1>4, <1>5, <2>1 DEF QueueInv
  <2>3. \A i, j \in DOMAIN waitq' : waitq'[i] = waitq'[j] => i = j
    BY <1>2, <1>4, <2>1 DEF QueueInv
  <2>4. ASSUME NEW u \in Procs, qpc'[u] = Handing
        PROVE  /\ wakee'[u] \in Procs
               /\ qpc'[wakee'[u]] = Parked
               /\ \A i \in DOMAIN waitq' : waitq'[i] # wakee'[u]
    <3>1. qpc[u] = Handing
      BY <2>4, <1>5
    <3>2. wakee[u] # p
      BY <3>1, <1>1, <1>2 DEF QueueInv
    <3>3. wakee'[u] = wakee[u] /\ wakee[u] \in Procs /\ qpc[wakee[u]] = Parked
      BY <3>1, <1>1, <1>2 DEF QueueInv
    <3>4. \A i \in DOMAIN waitq : waitq[i] # wakee[u]
      BY <3>1, <1>2 DEF QueueInv
    <3>5. \A i \in DOMAIN waitq' : waitq'[i] # wakee[u]
      BY <3>2, <3>4, <1>4
    <3> QED
      BY <3>2, <3>3, <3>5, <1>5
  <2> QED
    BY <2>2, <2>3, <2>4 DEF QueueInv
<1>10. ParkedInv'
  <2>1. SUFFICES ASSUME NEW q \in Procs, qpc'[q] = Parked, q # p
                 PROVE  \/ \E i \in DOMAIN waitq' : waitq'[i] = q
                        \/ \E u \in Procs : qpc'[u] = Handing /\ wakee'[u] = q
    BY <1>4 DEF ParkedInv
  <2>2. \/ \E i \in DOMAIN waitq : waitq[i] = q
        \/ \E u \in Procs : qpc[u] = Handing /\ wakee[u] = q
    BY <2>1, <1>2, <1>5 DEF ParkedInv
  <2>3. \A i \in DOMAIN waitq : i \in DOMAIN waitq'
    BY <1>4
  <2>4. \A u \in Procs : qpc[u] = Handing => qpc'[u] = Handing
    BY <1>1, <1>5
  <2> QED
    BY <2>2, <2>3, <2>4, <1>1, <1>4
<1> QED
  BY <1>6, <1>7, <1>8, <1>9, <1>10 DEF QLockIInv

\* Unlinking the head of the queue to hand the lock to it.
LEMMA PassStep ==
  ASSUME QLockIInv, NEW p \in Procs, QunlockPass(p)
  PROVE  QLockIInv'
<1>1. /\ qpc[p] = UnIn /\ waitq # <<>> /\ waitq' = Tail(waitq)
      /\ wakee' = [wakee EXCEPT ![p] = Head(waitq)]
      /\ use' = NoProc /\ qpc' = [qpc EXCEPT ![p] = Handing]
      /\ locked' = locked
  BY DEF QunlockPass, Advance
<1>2. QLockTypeOK /\ UseInv /\ CarrierInv /\ QueueInv /\ ParkedInv
  BY DEF QLockIInv
<1>3. /\ qpc \in [Procs -> QLockPCs] /\ waitq \in Seq(Procs)
      /\ wakee \in [Procs -> Procs \cup {NoProc}] /\ locked \in BOOLEAN
  BY <1>2 DEF QLockTypeOK
<1>4. /\ waitq' \in Seq(Procs)
      /\ Len(waitq) \in Nat \ {0}
      /\ DOMAIN waitq = 1 .. Len(waitq)
      /\ DOMAIN waitq' = 1 .. (Len(waitq) - 1)
      /\ \A i \in DOMAIN waitq : waitq[i] \in Procs
      /\ \A i \in DOMAIN waitq' : i + 1 \in DOMAIN waitq /\ waitq'[i] = waitq[i + 1]
      /\ 1 \in DOMAIN waitq /\ Head(waitq) = waitq[1] /\ waitq[1] \in Procs
  <2>1. waitq \in Seq(Procs) /\ waitq # <<>> /\ waitq' = Tail(waitq)
    BY <1>1, <1>3
  <2> QED
    BY <2>1, TailFacts
<1>5. /\ qpc'[p] = Handing /\ \A q \in Procs : q # p => qpc'[q] = qpc[q]
      /\ wakee'[p] = waitq[1] /\ \A q \in Procs : q # p => wakee'[q] = wakee[q]
  BY <1>1, <1>3, <1>4
<1>6. \A u \in Procs : qpc[u] # Handing
  BY <1>1, <1>2 DEF CarrierInv, Carrying
<1>7. QLockTypeOK'
  <2>1. qpc' \in [Procs -> QLockPCs]
    BY <1>1, <1>3 DEF QLockPCs
  <2>2. wakee' \in [Procs -> Procs \cup {NoProc}]
    BY <1>1, <1>3, <1>4
  <2> QED
    BY <2>1, <2>2, <1>1, <1>3, <1>4 DEF QLockTypeOK
<1>8. UseInv'
  BY <1>1, <1>2, <1>5, ProcsAssumption DEF UseInv
<1>9. CarrierInv'
  <2>1. \A q \in Procs : Carrying(q)' <=> Carrying(q)
    BY <1>1, <1>5 DEF Carrying
  <2> QED
    BY <2>1, <1>1, <1>2 DEF CarrierInv
<1>10. QueueInv'
  <2>1. \A i \in DOMAIN waitq : waitq[i] # p /\ waitq[i] \in Procs
    BY <1>1, <1>2, <1>4 DEF QueueInv
  <2>2. \A i \in DOMAIN waitq' : qpc'[waitq'[i]] = Parked
    BY <1>2, <1>4, <1>5, <2>1 DEF QueueInv
  <2>3. \A i, j \in DOMAIN waitq' : waitq'[i] = waitq'[j] => i = j
    BY <1>2, <1>4 DEF QueueInv
  <2>4. qpc'[waitq[1]] = Parked
    BY <1>2, <1>4, <1>5, <2>1 DEF QueueInv
  <2>5. \A i \in DOMAIN waitq' : waitq'[i] # waitq[1]
    BY <1>2, <1>4 DEF QueueInv
  <2>6. \A u \in Procs : qpc'[u] = Handing => u = p
    BY <1>5, <1>6
  <2> QED
    BY <1>4, <1>5, <2>2, <2>3, <2>4, <2>5, <2>6 DEF QueueInv
<1>11. ParkedInv'
  <2>1. SUFFICES ASSUME NEW q \in Procs, qpc'[q] = Parked, q # waitq[1]
                 PROVE  \E i \in DOMAIN waitq' : waitq'[i] = q
    BY <1>5 DEF ParkedInv
  <2>2. PICK i \in DOMAIN waitq : waitq[i] = q
    BY <2>1, <1>2, <1>5, <1>6 DEF ParkedInv
  <2>3. i # 1
    BY <2>1, <2>2
  <2>4. i - 1 \in DOMAIN waitq' /\ (i - 1) + 1 = i
    BY <2>3, <1>4
  <2> QED
    BY <2>2, <2>4, <1>4
<1> QED
  BY <1>7, <1>8, <1>9, <1>10, <1>11 DEF QLockIInv

\* The rendezvous of a releasing process with the parked process.
LEMMA RendezvousStep ==
  ASSUME QLockIInv, NEW u \in Procs, NEW p \in Procs, Rendezvous(u, p)
  PROVE  QLockIInv'
<1> USE DEF QLockIInv, Rendezvous
<1>1. QLockTypeOK'
  <2>1. use' \in Procs \cup {NoProc} /\ locked' \in BOOLEAN
    BY DEF QLockTypeOK
  <2>2. waitq' \in Seq(Procs)
    BY DEF QLockTypeOK
  <2>3. qpc' \in [Procs -> QLockPCs]
    BY DEF QLockTypeOK, QLockPCs
  <2>4. wakee' \in [Procs -> Procs \cup {NoProc}]
    BY DEF QLockTypeOK
  <2> QED
    BY <2>1, <2>2, <2>3, <2>4 DEF QLockTypeOK
<1>2. UseInv'
  BY DEF UseInv, QLockTypeOK
<1>3. CarrierInv'
  BY DEF CarrierInv, Carrying, QLockTypeOK
<1>4. \A v \in Procs : qpc[v] = Handing => v = u
  BY DEF CarrierInv, Carrying
<1>5. QueueInv'
  BY <1>4 DEF QueueInv, QLockTypeOK
<1>6. ParkedInv'
  BY <1>4 DEF ParkedInv, QLockTypeOK
<1> QED
  BY <1>1, <1>2, <1>3, <1>5, <1>6

\* Every step of the three calls preserves the inductive invariant.
LEMMA QLockNextIInv == QLockIInv /\ [QLockNext]_qlvars => QLockIInv'
<1> SUFFICES ASSUME QLockIInv, [QLockNext]_qlvars PROVE QLockIInv'
  OBVIOUS
<1>1. CASE UNCHANGED qlvars
  <2> USE <1>1 DEF qlvars, QLockIInv
  <2>1. QLockTypeOK'
    BY DEF QLockTypeOK
  <2>2. UseInv'
    BY DEF UseInv
  <2>3. CarrierInv'
    BY DEF CarrierInv, Carrying
  <2>4. QueueInv' /\ ParkedInv'
    BY DEF QueueInv, ParkedInv
  <2> QED
    BY <2>1, <2>2, <2>3, <2>4
<1>2. ASSUME NEW p \in Procs, Step(p) PROVE QLockIInv'
  BY <1>2, LockUseStep, TakeDropStep, WaitStep, PassStep DEF Step
<1> QED
  BY <1>1, <1>2, EnterStep, LockUseStep, RendezvousStep DEF QLockNext

\* The inductive invariant holds in every reachable state.
LEMMA QLockInvariant == QLockSpec => []QLockIInv
  BY QLockInitIInv, QLockNextIInv, PTL DEF QLockSpec

\* Type correctness of the lock's fields and of the processes in its calls.
THEOREM QLockTypeCorrect == QLockSpec => []QLockTypeOK
<1>1. QLockIInv => QLockTypeOK
  BY DEF QLockIInv
<1> QED
  BY <1>1, QLockInvariant, PTL

\* qlock, canqlock and qunlock let at most one process in, for any number of
\* processes.
THEOREM QLockExclusion == QLockSpec => []MutualExclusion
<1>1. QLockIInv => MutualExclusion
  BY DEF QLockIInv, CarrierInv, MutualExclusion, Holders, Carrying
<1> QED
  BY <1>1, QLockInvariant, PTL

\* No waiter of the lock is dropped from the queue or handed the lock twice.
THEOREM WaitersKept == QLockSpec => []NoLostWaiter
<1>1. ASSUME QLockIInv PROVE NoLostWaiter
  <2> USE <1>1 DEF QLockIInv
  <2>1. {p \in Procs : qpc[p] = Parked} = Linked \cup Called
    <3>1. ASSUME NEW p \in Procs, qpc[p] = Parked
          PROVE  p \in Linked \cup Called
      BY <3>1 DEF ParkedInv, Linked, Called
    <3>2. ASSUME NEW p \in Linked \cup Called
          PROVE  p \in Procs /\ qpc[p] = Parked
      BY <3>2 DEF QueueInv, Linked, Called, QLockTypeOK
    <3> QED
      BY <3>1, <3>2
  <2>2. Linked \cap Called = {}
    BY DEF QueueInv, Linked, Called
  <2> QED
    BY <2>1, <2>2 DEF NoLostWaiter, QueueInv
<1> QED
  BY <1>1, QLockInvariant, PTL

----------------------------------------------------------------------------
(* Refinement. *)

\* The owner of the abstract mutex is determined by the one carrier.
LEMMA OwnerIs ==
  QLockIInv => /\ \A c \in Carriers : owner = Successor(c)
               /\ ~locked => owner = NoProc
<1> SUFFICES ASSUME QLockIInv
             PROVE  /\ \A c \in Carriers : owner = Successor(c)
                    /\ ~locked => owner = NoProc
  OBVIOUS
<1>1. ASSUME NEW c \in Carriers PROVE owner = Successor(c)
  <2>1. Carriers = {c}
    BY DEF QLockIInv, CarrierInv, Carrying, Carriers
  <2> QED
    BY <2>1 DEF owner
<1>2. ASSUME ~locked PROVE owner = NoProc
  <2>1. Carriers = {}
    BY <1>2 DEF QLockIInv, CarrierInv, Carrying, Carriers
  <2> QED
    BY <2>1 DEF owner
<1> QED
  BY <1>1, <1>2

\* The same fact of the next state.
LEMMA OwnerIsNext ==
  QLockIInv' => (/\ \A c \in Carriers : owner = Successor(c)
                 /\ ~locked => owner = NoProc)'
  BY OwnerIs, PTL

\* The one process that carries the lock, when one does, gives the owner.
LEMMA OwnerOf ==
  ASSUME QLockIInv, NEW c \in Procs, Carrying(c)
  PROVE  owner = Successor(c)
  BY OwnerIs DEF Carrying, Carriers

LEMMA OwnerOfNext ==
  ASSUME QLockIInv', NEW c \in Procs, Carrying(c)'
  PROVE  owner' = Successor(c)'
  BY OwnerIsNext DEF Carrying, Carriers

\* Nobody's owner changes in a step that keeps who carries the lock and to
\* whom it is passed.
LEMMA OwnerKept ==
  ASSUME QLockIInv, QLockIInv', locked' = locked,
         \A c \in Procs : Carrying(c) => Carrying(c)' /\ Successor(c)' = Successor(c)
  PROVE  owner' = owner
<1>1. CASE locked
  <2>1. PICK c \in Procs : Carrying(c)
    BY <1>1 DEF QLockIInv, CarrierInv
  <2>2. owner = Successor(c)
    BY <2>1, OwnerOf
  <2>3. owner' = Successor(c)'
    BY <2>1, OwnerOfNext
  <2> QED
    BY <2>1, <2>2, <2>3
<1>2. CASE ~locked
  BY <1>2, OwnerIs, OwnerIsNext
<1> QED
  BY <1>1, <1>2

\* A step in which one process p moves between two places neither of which
\* is on the way out through a handoff leaves the abstract mutex alone.
LEMMA StutterStep ==
  ASSUME QLockIInv, QLockIInv', NEW p \in Procs, NEW l \in QLockPCs,
         qpc' = [qpc EXCEPT ![p] = l], qpc[p] # Handing, l # Handing,
         Carrying(p) => l \in {UnSpin, UnIn},
         UNCHANGED <<locked, waitq, wakee>>
  PROVE  UNCHANGED Mutex!mutexVars
<1>1. qpc'[p] = l /\ \A q \in Procs : q # p => qpc'[q] = qpc[q]
  BY DEF QLockIInv, QLockTypeOK
<1>2. ASSUME NEW c \in Procs, Carrying(c)
      PROVE  Carrying(c)' /\ Successor(c)' = Successor(c)
  <2>1. CASE c = p
    BY <2>1, <1>1, <1>2 DEF Carrying, Successor
  <2>2. CASE c # p
    BY <2>2, <1>1, <1>2 DEF Carrying, Successor
  <2> QED
    BY <2>1, <2>2
<1> QED
  BY <1>2, OwnerKept DEF Mutex!mutexVars

\* Taking a free lock, in qlock or in canqlock, is Take.
LEMMA TakeStep ==
  ASSUME QLockIInv, QLockIInv', NEW p \in Procs, ~locked, locked',
         qpc' = [qpc EXCEPT ![p] = Holding], UNCHANGED waitq
  PROVE  Mutex!Take(p)
<1>1. qpc'[p] = Holding
  BY DEF QLockIInv, QLockTypeOK
<1>2. owner = NoProc
  BY OwnerIs
<1>3. owner' = p
  BY <1>1, OwnerOfNext DEF Carrying, Successor
<1> QED
  BY <1>2, <1>3 DEF Mutex!Take

\* Linking at the tail is Enqueue.
LEMMA EnqueueStep ==
  ASSUME QLockIInv, QLockIInv', NEW p \in Procs, QlockWait(p)
  PROVE  Mutex!Enqueue(p)
<1>1. /\ qpc[p] = Inside /\ locked /\ locked' = locked /\ wakee' = wakee
      /\ qpc' = [qpc EXCEPT ![p] = Parked] /\ waitq' = Append(waitq, p)
  BY DEF QlockWait, Advance
<1>2. PICK c \in Procs : Carrying(c)
  BY <1>1 DEF QLockIInv, CarrierInv
<1>3. owner = Successor(c)
  BY <1>2, OwnerOf
<1>4. owner # p /\ owner # NoProc
  <2>1. CASE qpc[c] = Handing
    BY <2>1, <1>1, <1>3, ProcsAssumption DEF Successor, QLockIInv, QueueInv
  <2>2. CASE qpc[c] # Handing
    BY <2>2, <1>1, <1>2, <1>3, ProcsAssumption DEF Successor, Carrying
  <2> QED
    BY <2>1, <2>2
<1>5. p \notin Mutex!Waiting
  <2>1. \A i \in DOMAIN waitq : waitq[i] # p
    BY <1>1 DEF QLockIInv, QueueInv
  <2>2. DOMAIN waitq = 1 .. Len(waitq)
    BY AppendFacts DEF QLockIInv, QLockTypeOK
  <2> QED
    BY <2>1, <2>2 DEF Mutex!Waiting
<1>6. owner' = owner
  <2>1. qpc'[p] = Parked /\ \A q \in Procs : q # p => qpc'[q] = qpc[q]
    BY <1>1 DEF QLockIInv, QLockTypeOK
  <2>2. ASSUME NEW q \in Procs, Carrying(q)
        PROVE  Carrying(q)' /\ Successor(q)' = Successor(q)
    BY <2>1, <2>2, <1>1 DEF Carrying, Successor
  <2> QED
    BY <2>2, <1>1, OwnerKept
<1> QED
  BY <1>1, <1>4, <1>5, <1>6 DEF Mutex!Enqueue

\* Unlinking the head is PassOn: ownership moves before the rendezvous.
LEMMA PassOnStep ==
  ASSUME QLockIInv, QLockIInv', NEW p \in Procs, QunlockPass(p)
  PROVE  Mutex!PassOn
<1>1. /\ waitq # <<>> /\ waitq' = Tail(waitq)
      /\ wakee' = [wakee EXCEPT ![p] = Head(waitq)]
      /\ qpc' = [qpc EXCEPT ![p] = Handing]
  BY DEF QunlockPass, Advance
<1>2. qpc'[p] = Handing /\ wakee'[p] = Head(waitq)
  BY <1>1 DEF QLockIInv, QLockTypeOK
<1>3. owner' = Head(waitq)
  BY <1>2, OwnerOfNext DEF Carrying, Successor
<1> QED
  BY <1>1, <1>3 DEF Mutex!PassOn

\* A release that finds nobody waiting is Drop.
LEMMA DropStep ==
  ASSUME QLockIInv, QLockIInv', NEW p \in Procs, QunlockDrop(p)
  PROVE  Mutex!Drop
<1>1. qpc[p] = UnIn /\ waitq = <<>> /\ ~locked' /\ waitq' = waitq
  BY DEF QunlockDrop
<1>2. owner = p
  BY <1>1, OwnerOf DEF Carrying, Successor
<1>3. owner' = NoProc
  BY <1>1, OwnerIsNext
<1> QED
  BY <1>1, <1>2, <1>3, ProcsAssumption DEF Mutex!Drop

\* The rendezvous itself leaves the abstract mutex alone: the lock was
\* passed when the waiter was unlinked.
LEMMA RendezvousStutters ==
  ASSUME QLockIInv, QLockIInv', NEW u \in Procs, NEW p \in Procs, Rendezvous(u, p)
  PROVE  UNCHANGED Mutex!mutexVars
<1>1. /\ qpc[u] = Handing /\ wakee[u] = p /\ qpc[p] = Parked
      /\ qpc' = [qpc EXCEPT ![u] = Idle, ![p] = Holding]
      /\ waitq' = waitq
  BY DEF Rendezvous
<1>2. qpc'[p] = Holding
  BY <1>1 DEF QLockIInv, QLockTypeOK
<1>3. owner = p
  BY <1>1, OwnerOf DEF Carrying, Successor
<1>4. owner' = p
  BY <1>2, OwnerOfNext DEF Carrying, Successor
<1> QED
  BY <1>1, <1>3, <1>4 DEF Mutex!mutexVars

\* Every step of the three calls is a step of the FIFO mutex or none.
LEMMA RefinementStep ==
  QLockIInv /\ QLockIInv' /\ [QLockNext]_qlvars =>
    [Mutex!MutexNext]_(Mutex!mutexVars)
<1> SUFFICES ASSUME QLockIInv, QLockIInv', [QLockNext]_qlvars
             PROVE  [Mutex!MutexNext]_(Mutex!mutexVars)
  OBVIOUS
<1>1. ASSUME NEW p \in Procs, Qlock(p) \/ Qunlock(p)
      PROVE  UNCHANGED Mutex!mutexVars
  BY <1>1, StutterStep DEF Qlock, Qunlock, Advance, QLockPCs, Carrying
<1>2. ASSUME NEW p \in Procs, CanqlockUse(p) \/ QlockUse(p) \/ QunlockUse(p)
      PROVE  UNCHANGED Mutex!mutexVars
  BY <1>2, StutterStep
  DEF CanqlockUse, QlockUse, QunlockUse, LockUse, Advance, QLockPCs, Carrying
<1>3. ASSUME NEW p \in Procs, QlockFree(p)
      PROVE  Mutex!Take(p)
  BY <1>3, TakeStep DEF QlockFree, Advance
<1>4. ASSUME NEW p \in Procs, CanqlockTake(p)
      PROVE  Mutex!Take(p) \/ UNCHANGED Mutex!mutexVars
  <2>1. CASE locked
    <3>1. locked' = locked
      BY <1>4, <2>1 DEF CanqlockTake, QLockIInv, QLockTypeOK
    <3> QED
      BY <1>4, <2>1, <3>1, StutterStep DEF CanqlockTake, Advance, QLockPCs,
        Carrying
  <2>2. CASE ~locked
    BY <1>4, <2>2, TakeStep DEF CanqlockTake, Advance
  <2> QED
    BY <2>1, <2>2
<1>5. CASE UNCHANGED qlvars
  <2>1. owner' = owner
    BY <1>5 DEF qlvars, owner, Carriers, Successor
  <2> QED
    BY <2>1, <1>5 DEF qlvars, Mutex!mutexVars
<1>6. ASSUME NEW p \in Procs, Step(p)
      PROVE  [Mutex!MutexNext]_(Mutex!mutexVars)
  BY <1>2, <1>3, <1>4, <1>6, EnqueueStep, PassOnStep, DropStep
  DEF Step, Mutex!MutexNext
<1> QED
  BY <1>1, <1>2, <1>5, <1>6, RendezvousStutters DEF QLockNext

\* The queueing lock implements the FIFO mutex for any set of processes.
THEOREM Refinement == QLockSpec => ImplementsFifoMutex
<1>1. QLockInit => Mutex!MutexInit
  <2> SUFFICES ASSUME QLockInit PROVE owner = NoProc /\ waitq = <<>>
    BY DEF Mutex!MutexInit
  <2>1. QLockIInv /\ ~locked
    BY QLockInitIInv DEF QLockInit
  <2> QED
    BY <2>1, OwnerIs DEF QLockInit
<1> QED
  BY <1>1, QLockInvariant, RefinementStep, PTL
  DEF QLockSpec, ImplementsFifoMutex, Mutex!MutexSpec

----------------------------------------------------------------------------
(* The readers and writer lock with the native kernel's order of wunlock   *)
(* (KFirst): readers exclude writers, k follows the readers, and no reader *)
(* overtakes a writer that waits for the last one.                         *)

\* Where a process is that has x, and where it asks for it.
HaveX == {RlockOut, WlockK, Writing, Wunlock}
AskForX == {RlockX, WlockX}

\* x belongs to the process that is between its qlock and its qunlock, or has
\* just been handed it; who asks owns it or is queued, once.
XInv ==
    /\ \A p \in Procs : rwpc[p] \in HaveX => xowner = p
    /\ \A p \in Procs : rwpc[p] \in AskForX =>
          xowner = p \/ \E i \in DOMAIN xqueue : xqueue[i] = p
    /\ \A p \in Procs : xowner = p => rwpc[p] \in HaveX \cup AskForX
    /\ \A i \in DOMAIN xqueue : /\ rwpc[xqueue[i]] \in AskForX
                                /\ xqueue[i] # xowner /\ xowner # NoProc
    /\ \A i, j \in DOMAIN xqueue : xqueue[i] = xqueue[j] => i = j

\* k belongs to the writer, or to the readers; only the process that has x
\* waits for it, and only for the readers.
KInv ==
    /\ \A p \in Procs : rwpc[p] = Writing => kowner = p
    /\ \A p \in Procs : rwpc[p] = WlockK =>
          kowner = p \/ \E i \in DOMAIN kqueue : kqueue[i] = p
    /\ \A p \in Procs : kowner = p => rwpc[p] \in {WlockK, Writing}
    /\ \A i \in DOMAIN kqueue : rwpc[kqueue[i]] = WlockK /\ kowner = Readers
    /\ Len(kqueue) <= 1

\* The count of readers, which are finitely many, and k in their name.
CountInv ==
    /\ IsFiniteSet(InRead)
    /\ KFollowsReaders

RWIInv == RWTypeOK /\ XInv /\ KInv /\ CountInv

USE DEF Idle, RlockX, RlockOut, Reading, WlockX, WlockK, Writing, Wunlock

\* The queues' members are processes.
Queued ==
    /\ DOMAIN xqueue = 1 .. Len(xqueue) /\ Len(xqueue) \in Nat
    /\ \A i \in DOMAIN xqueue : xqueue[i] \in Procs
    /\ DOMAIN kqueue = 1 .. Len(kqueue) /\ Len(kqueue) \in Nat
    /\ \A i \in DOMAIN kqueue : kqueue[i] \in Procs

LEMMA QueuedFact == RWIInv => Queued
  BY DEF RWIInv, RWTypeOK, Queued

\* RWIInv holds when nobody has called.
LEMMA RWInitIInv == RWInit => RWIInv
<1> SUFFICES ASSUME RWInit PROVE RWIInv
  OBVIOUS
<1> USE ProcsAssumption, RWAssumption DEF RWInit, X!MutexInit, K!MutexInit
<1>1. RWTypeOK
  BY DEF RWTypeOK, RWPCs
<1>2. XInv /\ KInv
  BY DEF XInv, KInv, HaveX, AskForX
<1>3. InRead = {}
  BY DEF InRead
<1>4. CountInv
  BY <1>3, FS_EmptySet DEF CountInv, KFollowsReaders
<1> QED
  BY <1>1, <1>2, <1>4 DEF RWIInv

----------------------------------------------------------------------------
(* What a step of one process does to the invariants. *)

\* The process p goes to l.
Moves(p, l) ==
    /\ p \in Procs /\ l \in RWPCs /\ rwpc \in [Procs -> RWPCs]
    /\ rwpc' = [rwpc EXCEPT ![p] = l]

LEMMA MoveFacts ==
  ASSUME NEW p, NEW l, Moves(p, l)
  PROVE  /\ rwpc' \in [Procs -> RWPCs] /\ rwpc'[p] = l
         /\ \A o \in Procs : o # p => rwpc'[o] = rwpc[o]
  BY DEF Moves

\* Calls that neither take x nor give it back.
LEMMA XKept ==
  ASSUME XInv, Queued, NEW p, NEW l, Moves(p, l),
         UNCHANGED <<xowner, xqueue>>,
         \/ xowner = p /\ l \in HaveX
         \/ rwpc[p] = Reading /\ l = Idle
  PROVE  XInv'
<1>1. /\ p \in Procs /\ rwpc'[p] = l
      /\ \A o \in Procs : o # p => rwpc'[o] = rwpc[o]
  BY MoveFacts DEF Moves
<1>2. \A i \in DOMAIN xqueue : xqueue[i] \in Procs /\ xqueue[i] # p
  BY DEF XInv, Queued, AskForX
<1>3. \A o \in Procs : rwpc'[o] \in HaveX => xowner' = o
  BY <1>1 DEF XInv, HaveX
<1>4. \A o \in Procs : rwpc'[o] \in AskForX =>
        xowner' = o \/ \E i \in DOMAIN xqueue' : xqueue'[i] = o
  BY <1>1 DEF XInv, HaveX, AskForX
<1>5. \A o \in Procs : xowner' = o => rwpc'[o] \in HaveX \cup AskForX
  BY <1>1 DEF XInv, HaveX, AskForX
<1>6. \A i \in DOMAIN xqueue' : /\ rwpc'[xqueue'[i]] \in AskForX
                                /\ xqueue'[i] # xowner' /\ xowner' # NoProc
  BY <1>1, <1>2 DEF XInv
<1>7. \A i, j \in DOMAIN xqueue' : xqueue'[i] = xqueue'[j] => i = j
  BY DEF XInv
<1> QED
  BY <1>3, <1>4, <1>5, <1>6, <1>7 DEF XInv

\* Calls that neither take k nor give it back, nor wait for it.
LEMMA KKept ==
  ASSUME KInv, Queued, NEW p, NEW l, Moves(p, l),
         UNCHANGED <<kowner, kqueue>>,
         rwpc[p] \notin {WlockK, Writing}, l \notin {WlockK, Writing}
  PROVE  KInv'
<1>1. /\ p \in Procs /\ rwpc'[p] = l
      /\ \A o \in Procs : o # p => rwpc'[o] = rwpc[o]
  BY MoveFacts DEF Moves
<1>2. \A i \in DOMAIN kqueue : kqueue[i] \in Procs /\ kqueue[i] # p
  BY DEF KInv, Queued
<1> QED
  BY <1>1, <1>2 DEF KInv

\* qlock(&l->x) when it is free.
LEMMA TakeX ==
  ASSUME XInv, Queued, RWTypeOK, NEW p, NEW l \in AskForX, Moves(p, l),
         X!Take(p), rwpc[p] = Idle
  PROVE  XInv' /\ xowner' \in Procs /\ xqueue' \in Seq(Procs)
<1>1. /\ p \in Procs /\ rwpc'[p] = l
      /\ \A o \in Procs : o # p => rwpc'[o] = rwpc[o]
  BY MoveFacts DEF Moves
<1>2. xowner = NoProc /\ xowner' = p /\ xqueue' = xqueue
  BY DEF X!Take
<1>3. \A i \in DOMAIN xqueue : FALSE
  BY <1>2 DEF XInv
<1>4. \A o \in Procs : rwpc[o] \notin HaveX \cup AskForX
  BY <1>2, <1>3, ProcsAssumption, RWAssumption DEF XInv
<1>5. XInv'
  BY <1>1, <1>2, <1>3, <1>4 DEF XInv, HaveX, AskForX
<1> QED
  BY <1>1, <1>2, <1>5 DEF RWTypeOK

\* qlock(&l->x) when it is not.
LEMMA EnqueueX ==
  ASSUME XInv, Queued, RWTypeOK, NEW p, NEW l \in AskForX, Moves(p, l),
         X!Enqueue(p), rwpc[p] = Idle
  PROVE  XInv' /\ xowner' = xowner /\ xqueue' \in Seq(Procs)
<1>1. /\ p \in Procs /\ rwpc'[p] = l
      /\ \A o \in Procs : o # p => rwpc'[o] = rwpc[o]
  BY MoveFacts DEF Moves
<1>2. /\ xowner \notin {NoProc, p} /\ xowner' = xowner
      /\ xqueue' = Append(xqueue, p)
  BY DEF X!Enqueue
<1>3. /\ xqueue' \in Seq(Procs)
      /\ Len(xqueue) \in Nat /\ DOMAIN xqueue = 1 .. Len(xqueue)
      /\ DOMAIN xqueue' = 1 .. (Len(xqueue) + 1)
      /\ \A i \in DOMAIN xqueue : xqueue'[i] = xqueue[i]
      /\ xqueue'[Len(xqueue) + 1] = p
  BY <1>1, <1>2, AppendFacts DEF RWTypeOK
<1>4. \A i \in DOMAIN xqueue : xqueue[i] \in Procs /\ xqueue[i] # p
  BY DEF XInv, Queued, AskForX
<1>5. \A o \in Procs : rwpc'[o] \in HaveX => xowner' = o
  BY <1>1, <1>2 DEF XInv, HaveX, AskForX
<1>6. \A o \in Procs : rwpc'[o] \in AskForX =>
        xowner' = o \/ \E i \in DOMAIN xqueue' : xqueue'[i] = o
  <2> SUFFICES ASSUME NEW o \in Procs, rwpc'[o] \in AskForX, xowner' # o
               PROVE  \E i \in DOMAIN xqueue' : xqueue'[i] = o
    OBVIOUS
  <2>1. CASE o = p
    BY <1>3, <2>1
  <2>2. CASE o # p
    <3>1. PICK i \in DOMAIN xqueue : xqueue[i] = o
      BY <1>1, <1>2, <2>2 DEF XInv
    <3>2. i \in DOMAIN xqueue' /\ xqueue'[i] = o
      BY <1>3, <3>1
    <3> QED
      BY <3>2
  <2> QED
    BY <2>1, <2>2
<1>7. \A o \in Procs : xowner' = o => rwpc'[o] \in HaveX \cup AskForX
  BY <1>1, <1>2 DEF XInv
<1>8. \A i \in DOMAIN xqueue' : /\ rwpc'[xqueue'[i]] \in AskForX
                                /\ xqueue'[i] # xowner' /\ xowner' # NoProc
  <2> SUFFICES ASSUME NEW i \in DOMAIN xqueue'
               PROVE  rwpc'[xqueue'[i]] \in AskForX /\ xqueue'[i] # xowner'
    BY <1>2
  <2>1. CASE i \in DOMAIN xqueue
    BY <1>1, <1>2, <1>3, <1>4, <2>1 DEF XInv
  <2>2. CASE i = Len(xqueue) + 1
    BY <1>1, <1>2, <1>3, <2>2
  <2> QED
    BY <1>3, <2>1, <2>2
<1>9. \A i, j \in DOMAIN xqueue' : xqueue'[i] = xqueue'[j] => i = j
  BY <1>3, <1>4 DEF XInv
<1> QED
  BY <1>2, <1>3, <1>5, <1>6, <1>7, <1>8, <1>9 DEF XInv

\* qunlock(&l->x) by the process that has it, on its way to l.
LEMMA QunlockXStep ==
  ASSUME XInv, Queued, RWTypeOK, NEW p, NEW l, Moves(p, l),
         rwpc[p] \in HaveX, l \in {Idle, Reading}, QunlockX
  PROVE  XInv' /\ xowner' \in Procs \cup {NoProc} /\ xqueue' \in Seq(Procs)
<1>1. /\ p \in Procs /\ rwpc'[p] = l
      /\ \A o \in Procs : o # p => rwpc'[o] = rwpc[o]
  BY MoveFacts DEF Moves
<1>2. xowner = p
  BY <1>1 DEF XInv
<1>3. \A o \in Procs : o # p => rwpc[o] \notin HaveX
  BY <1>2 DEF XInv
<1>4. \A i \in DOMAIN xqueue : xqueue[i] \in Procs /\ xqueue[i] # p
  BY <1>2 DEF XInv, Queued
<1>5. CASE X!PassOn
  <2>1. xqueue # <<>> /\ xowner' = Head(xqueue) /\ xqueue' = Tail(xqueue)
    BY <1>5 DEF X!PassOn
  <2>2. /\ xqueue' \in Seq(Procs)
        /\ 1 \in DOMAIN xqueue /\ xowner' = xqueue[1] /\ xowner' \in Procs
        /\ Len(xqueue) \in Nat \ {0} /\ DOMAIN xqueue = 1 .. Len(xqueue)
        /\ DOMAIN xqueue' = 1 .. (Len(xqueue) - 1)
        /\ \A i \in DOMAIN xqueue' :
              i + 1 \in DOMAIN xqueue /\ xqueue'[i] = xqueue[i + 1]
    BY <2>1, TailFacts DEF RWTypeOK
  <2>3. xowner' # p /\ rwpc'[xowner'] \in AskForX
    BY <1>1, <1>4, <2>2 DEF XInv
  <2>4. \A o \in Procs : rwpc'[o] \in HaveX => xowner' = o
    BY <1>1, <1>3 DEF HaveX
  <2>5. \A o \in Procs : rwpc'[o] \in AskForX =>
          xowner' = o \/ \E i \in DOMAIN xqueue' : xqueue'[i] = o
    <3> SUFFICES ASSUME NEW o \in Procs, rwpc'[o] \in AskForX, xowner' # o
                 PROVE  \E i \in DOMAIN xqueue' : xqueue'[i] = o
      OBVIOUS
    <3>1. o # p /\ rwpc[o] \in AskForX
      BY <1>1 DEF AskForX
    <3>2. PICK i \in DOMAIN xqueue : xqueue[i] = o
      BY <1>2, <3>1 DEF XInv
    <3>3. i # 1
      BY <2>2, <3>2
    <3>4. i - 1 \in DOMAIN xqueue' /\ (i - 1) + 1 = i
      BY <2>2, <3>3
    <3>5. xqueue'[i - 1] = o
      BY <2>2, <3>2, <3>4
    <3> QED
      BY <3>4, <3>5
  <2>6. \A o \in Procs : xowner' = o => rwpc'[o] \in HaveX \cup AskForX
    BY <2>3
  <2>7. \A i \in DOMAIN xqueue' : /\ rwpc'[xqueue'[i]] \in AskForX
                                  /\ xqueue'[i] # xowner' /\ xowner' # NoProc
    <3> SUFFICES ASSUME NEW i \in DOMAIN xqueue'
                 PROVE  rwpc'[xqueue'[i]] \in AskForX /\ xqueue'[i] # xowner'
      BY <2>2, ProcsAssumption, RWAssumption
    <3>1. i + 1 \in DOMAIN xqueue /\ xqueue'[i] = xqueue[i + 1] /\ i + 1 # 1
      BY <2>2
    <3>2. xqueue[i + 1] # xqueue[1]
      BY <2>2, <3>1 DEF XInv
    <3> QED
      BY <1>1, <1>4, <2>2, <3>1, <3>2 DEF XInv
  <2>8. \A i, j \in DOMAIN xqueue' : xqueue'[i] = xqueue'[j] => i = j
    <3> SUFFICES ASSUME NEW i \in DOMAIN xqueue', NEW j \in DOMAIN xqueue',
                        xqueue'[i] = xqueue'[j]
                 PROVE  i = j
      OBVIOUS
    <3>1. i + 1 = j + 1
      BY <2>2 DEF XInv
    <3> QED
      BY <2>2, <3>1
  <2> QED
    BY <2>2, <2>4, <2>5, <2>6, <2>7, <2>8 DEF XInv
<1>6. CASE X!Drop
  <2>1. xqueue = <<>> /\ xowner' = NoProc /\ xqueue' = xqueue
    BY <1>6 DEF X!Drop
  <2>2. \A i \in DOMAIN xqueue : FALSE
    BY <2>1
  <2>3. \A o \in Procs : o # p => rwpc[o] \notin AskForX
    BY <1>2, <2>2 DEF XInv
  <2>4. XInv'
    BY <1>1, <1>3, <2>1, <2>2, <2>3, ProcsAssumption, RWAssumption DEF XInv,
      HaveX, AskForX
  <2> QED
    BY <2>1, <2>4 DEF RWTypeOK
<1> QED
  BY <1>5, <1>6 DEF QunlockX

\* When nobody is left in the queue of k.
LEMMA NobodyWaits ==
  ASSUME kqueue' = <<>>,
         \A o \in Procs : rwpc'[o] \in {WlockK, Writing} <=> kowner' = o
  PROVE  KInv' /\ kqueue' \in Seq(Procs)
<1>1. <<>> \in Seq(Procs) /\ Len(<<>>) <= 1 /\ DOMAIN <<>> = {}
  BY EmptyFacts
<1>2. kqueue' \in Seq(Procs) /\ \A i \in DOMAIN kqueue' : FALSE
  BY <1>1
<1>3. Len(kqueue') <= 1
  BY Zenon, <1>1
<1>4. /\ \A o \in Procs : rwpc'[o] = Writing => kowner' = o
      /\ \A o \in Procs : rwpc'[o] = WlockK =>
            kowner' = o \/ \E i \in DOMAIN kqueue' : kqueue'[i] = o
      /\ \A o \in Procs : kowner' = o => rwpc'[o] \in {WlockK, Writing}
  OBVIOUS
<1> QED
  BY Zenon, <1>2, <1>3, <1>4 DEF KInv

\* A step that leaves the set of readers, their count and whether they own k
\* alone keeps CountInv.
LEMMA SameReaders ==
  ASSUME CountInv, InRead' = InRead, readers' = readers,
         (kowner' = Readers) <=> (kowner = Readers)
  PROVE  CountInv'
  BY DEF CountInv, KFollowsReaders

----------------------------------------------------------------------------
(* Every step keeps RWIInv. *)

LEMMA AskStep ==
  ASSUME RWIInv, NEW p \in Procs, RlockAsk(p) \/ WlockAsk(p)
  PROVE  RWIInv'
<1>1. PICK l \in AskForX : AskX(p, l)
  BY DEF RlockAsk, WlockAsk, AskForX
<1>2. RWTypeOK /\ XInv /\ KInv /\ CountInv /\ Queued
  BY QueuedFact DEF RWIInv
<1>a. rwpc[p] = Idle /\ rwpc' = [rwpc EXCEPT ![p] = l] /\ l \in RWPCs
  BY <1>1 DEF AskX, Move, RWPCs, AskForX
<1>b. UNCHANGED <<kowner, kqueue, readers>> /\ (X!Take(p) \/ X!Enqueue(p))
  BY <1>1 DEF AskX, kvars
<1>3. /\ Moves(p, l) /\ rwpc[p] = Idle
      /\ UNCHANGED <<kowner, kqueue, readers>>
      /\ X!Take(p) \/ X!Enqueue(p)
  BY <1>2, <1>a, <1>b DEF Moves, RWTypeOK
<1>4. rwpc' \in [Procs -> RWPCs]
  BY <1>3, MoveFacts
<1>5. XInv' /\ xowner' \in Procs \cup {NoProc} /\ xqueue' \in Seq(Procs)
  BY <1>2, <1>3, TakeX, EnqueueX DEF RWTypeOK
<1>6. RWTypeOK'
  BY <1>2, <1>3, <1>4, <1>5 DEF RWTypeOK
<1>7. KInv'
  BY <1>2, <1>3, KKept DEF AskForX
<1>8. InRead' = InRead
  BY <1>3, MoveFacts DEF InRead, AskForX
<1>9. CountInv'
  BY <1>2, <1>3, <1>8, SameReaders
<1> QED
  BY <1>5, <1>6, <1>7, <1>9 DEF RWIInv

\* The process that has come through qlock(&l->x) has x, nobody is writing or
\* waits for k, and k is free or the readers'.
LEMMA ComeThrough ==
  ASSUME RWIInv, NEW p \in Procs, rwpc[p] \in AskForX, HasX(p)
  PROVE  /\ xowner = p
         /\ \A o \in Procs : rwpc[o] \notin {WlockK, Writing}
         /\ kowner \in {NoProc, Readers} /\ kqueue = <<>>
<1>1. RWTypeOK /\ XInv /\ KInv /\ Queued
  BY QueuedFact DEF RWIInv
<1>2. \A i \in DOMAIN xqueue : xqueue[i] # p
  BY <1>1 DEF HasX, X!Waiting, Queued
<1>3. xowner = p
  BY <1>1, <1>2 DEF XInv
<1>4. \A o \in Procs : rwpc[o] \notin {WlockK, Writing}
  BY <1>1, <1>3 DEF XInv, HaveX, AskForX
<1>5. kowner \in {NoProc, Readers}
  BY <1>1, <1>4 DEF KInv, RWTypeOK
<1>6. Len(kqueue) = 0
  <2>1. 1 \notin DOMAIN kqueue
    BY <1>1, <1>4 DEF KInv, Queued
  <2> QED
    BY <1>1, <2>1 DEF Queued
<1>7. kqueue = <<>>
  BY <1>1, <1>6 DEF RWTypeOK
<1> QED
  BY <1>3, <1>4, <1>5, <1>7

LEMMA RlockInStep ==
  ASSUME RWIInv, NEW p \in Procs, RlockIn(p)
  PROVE  RWIInv'
<1>1. RWTypeOK /\ XInv /\ KInv /\ CountInv /\ Queued
  BY QueuedFact DEF RWIInv
<1>2. /\ Moves(p, RlockOut) /\ rwpc[p] = RlockX /\ HasX(p) /\ CanqlockK
      /\ UNCHANGED <<xowner, xqueue>> /\ readers' = readers + 1
  BY <1>1 DEF RlockIn, Move, Moves, RWTypeOK, RWPCs, xvars
<1>3. /\ xowner = p
      /\ \A o \in Procs : rwpc[o] \notin {WlockK, Writing}
      /\ kowner \in {NoProc, Readers} /\ kqueue = <<>>
  BY <1>2, ComeThrough DEF AskForX
<1>4. kowner' = Readers /\ kqueue' = <<>>
  BY <1>2, <1>3 DEF CanqlockK, K!Take, kvars
<1>5. /\ rwpc' \in [Procs -> RWPCs] /\ rwpc'[p] = RlockOut
      /\ \A o \in Procs : o # p => rwpc'[o] = rwpc[o]
  BY <1>2, MoveFacts
<1>a. readers' \in Nat /\ readers' > 0
  <2>1. readers \in Nat /\ readers' = readers + 1
    BY <1>1, <1>2 DEF RWTypeOK
  <2> QED
    BY <2>1
<1>8. KInv' /\ kqueue' \in Seq(Procs)
  BY <1>3, <1>4, <1>5, NobodyWaits, ProcsAssumption, RWAssumption
<1>6. RWTypeOK'
  BY <1>1, <1>2, <1>4, <1>5, <1>8, <1>a DEF RWTypeOK
<1>7. XInv'
  BY <1>1, <1>2, <1>3, XKept DEF HaveX
<1>9. CountInv'
  <2>1. InRead' = InRead \cup {p} /\ p \notin InRead
    BY <1>2, <1>5 DEF InRead
  <2>2. IsFiniteSet(InRead) /\ readers = Cardinality(InRead)
    BY <1>1 DEF CountInv, KFollowsReaders
  <2>3. IsFiniteSet(InRead') /\ readers' = Cardinality(InRead')
    BY <1>2, <2>1, <2>2, FS_AddElement
  <2> QED
    BY <1>4, <1>a, <2>3 DEF CountInv, KFollowsReaders
<1> QED
  BY <1>6, <1>7, <1>8, <1>9 DEF RWIInv

LEMMA RlockDoneStep ==
  ASSUME RWIInv, NEW p \in Procs, RlockDone(p)
  PROVE  RWIInv'
<1>1. RWTypeOK /\ XInv /\ KInv /\ CountInv /\ Queued
  BY QueuedFact DEF RWIInv
<1>2. /\ Moves(p, Reading) /\ rwpc[p] = RlockOut /\ QunlockX
      /\ UNCHANGED <<kowner, kqueue, readers>>
  BY <1>1 DEF RlockDone, Move, Moves, RWTypeOK, RWPCs, kvars
<1>3. /\ rwpc' \in [Procs -> RWPCs] /\ rwpc'[p] = Reading
      /\ \A o \in Procs : o # p => rwpc'[o] = rwpc[o]
  BY <1>2, MoveFacts
<1>4. XInv' /\ xowner' \in Procs \cup {NoProc} /\ xqueue' \in Seq(Procs)
  BY <1>1, <1>2, QunlockXStep DEF HaveX
<1>5. RWTypeOK'
  BY <1>1, <1>2, <1>3, <1>4 DEF RWTypeOK
<1>6. KInv'
  BY <1>1, <1>2, KKept
<1>7. InRead' = InRead
  BY <1>2, <1>3 DEF InRead
<1>8. CountInv'
  BY <1>1, <1>2, <1>7, SameReaders
<1> QED
  BY <1>4, <1>5, <1>6, <1>8 DEF RWIInv

LEMMA RunlockStep ==
  ASSUME RWIInv, NEW p \in Procs, Runlock(p)
  PROVE  RWIInv'
<1>1. RWTypeOK /\ XInv /\ KInv /\ CountInv /\ Queued
  BY QueuedFact DEF RWIInv
<1>2. /\ Moves(p, Idle) /\ rwpc[p] = Reading /\ readers' = readers - 1
      /\ UNCHANGED <<xowner, xqueue>>
      /\ IF readers = 1 THEN QunlockK ELSE UNCHANGED <<kowner, kqueue>>
  BY <1>1 DEF Runlock, Move, Moves, RWTypeOK, RWPCs, xvars, kvars
<1>3. /\ rwpc' \in [Procs -> RWPCs] /\ rwpc'[p] = Idle
      /\ \A o \in Procs : o # p => rwpc'[o] = rwpc[o]
  BY <1>2, MoveFacts
<1>4. InRead' = InRead \ {p} /\ p \in InRead
  BY <1>2, <1>3 DEF InRead
<1>5. IsFiniteSet(InRead) /\ readers = Cardinality(InRead)
      /\ ((kowner = Readers) <=> readers > 0)
  BY <1>1 DEF CountInv, KFollowsReaders
<1>6. readers \in Nat \ {0} /\ kowner = Readers
  BY <1>1, <1>4, <1>5, FS_EmptySet DEF RWTypeOK
<1>7. IsFiniteSet(InRead') /\ readers' = Cardinality(InRead')
  BY <1>2, <1>4, <1>5, FS_RemoveElement
<1>8. readers' \in Nat
  BY <1>2, <1>6
<1>a. readers = 1 => ~(readers' > 0)
  BY <1>2
<1>9. XInv'
  BY <1>1, <1>2, XKept
<1>10. CASE readers = 1 /\ kqueue # <<>>
  <2>1. kowner' = Head(kqueue) /\ kqueue' = Tail(kqueue)
    BY <1>2, <1>10 DEF QunlockK, K!PassOn
  <2>2. /\ kqueue' \in Seq(Procs)
        /\ 1 \in DOMAIN kqueue /\ kowner' = kqueue[1] /\ kowner' \in Procs
        /\ Len(kqueue) \in Nat \ {0} /\ DOMAIN kqueue' = 1 .. (Len(kqueue) - 1)
    BY <1>1, <1>10, <2>1, TailFacts DEF RWTypeOK
  <2>3. Len(kqueue) = 1 /\ DOMAIN kqueue = {1}
    <3>1. Len(kqueue) <= 1 /\ DOMAIN kqueue = 1 .. Len(kqueue)
      BY <1>1 DEF KInv, Queued
    <3>2. Len(kqueue) = 1
      BY <2>2, <3>1
    <3> QED
      BY <3>1, <3>2
  <2>4. kqueue' = <<>>
    BY <2>2, <2>3
  <2>5. rwpc[kowner'] = WlockK /\ kowner' # p /\ kowner' # Readers
    BY <1>1, <1>2, <2>2, ProcsAssumption, RWAssumption DEF KInv
  <2>6. \A o \in Procs : /\ rwpc[o] # Writing
                         /\ rwpc[o] = WlockK => o = kowner'
    BY <1>1, <1>6, <2>2, <2>3, ProcsAssumption, RWAssumption DEF KInv
  <2>7. RWTypeOK'
    BY <1>1, <1>2, <1>3, <1>8, <2>2 DEF RWTypeOK
  <2>8. KInv'
    BY <1>3, <2>4, <2>5, <2>6, NobodyWaits
  <2>9. CountInv'
    BY <1>7, <1>10, <1>a, <2>5 DEF CountInv, KFollowsReaders
  <2> QED
    BY <1>9, <2>7, <2>8, <2>9 DEF RWIInv
<1>11. CASE readers = 1 /\ kqueue = <<>>
  <2>1. kowner' = NoProc /\ kqueue' = <<>>
    BY <1>2, <1>11 DEF QunlockK, K!PassOn
  <2>2. \A o \in Procs : rwpc[o] \notin {Writing, WlockK}
    <3>1. DOMAIN kqueue = {}
      BY <1>11
    <3> QED
      BY <1>1, <1>6, <3>1, ProcsAssumption, RWAssumption DEF KInv
  <2>4. KInv' /\ kqueue' \in Seq(Procs)
    BY <1>3, <2>1, <2>2, NobodyWaits, ProcsAssumption, RWAssumption
  <2>3. RWTypeOK'
    BY <1>1, <1>2, <1>3, <1>8, <2>1, <2>4 DEF RWTypeOK
  <2>5. CountInv'
    BY <1>7, <1>a, <1>11, <2>1, ProcsAssumption, RWAssumption DEF CountInv,
      KFollowsReaders
  <2> QED
    BY <1>9, <2>3, <2>4, <2>5 DEF RWIInv
<1>12. CASE readers # 1
  <2>1. kowner' = kowner /\ kqueue' = kqueue
    BY <1>2, <1>12
  <2>2. RWTypeOK'
    BY <1>1, <1>2, <1>3, <1>8, <2>1 DEF RWTypeOK
  <2>3. KInv'
    BY <1>1, <1>2, <2>1, KKept
  <2>4. readers' > 0
    BY <1>2, <1>6, <1>12
  <2>5. CountInv'
    BY <1>6, <1>7, <2>1, <2>4 DEF CountInv, KFollowsReaders
  <2> QED
    BY <1>9, <2>2, <2>3, <2>5 DEF RWIInv
<1> QED
  BY <1>10, <1>11, <1>12

LEMMA WlockAskKStep ==
  ASSUME RWIInv, NEW p \in Procs, WlockAskK(p)
  PROVE  RWIInv'
<1>1. RWTypeOK /\ XInv /\ KInv /\ CountInv /\ Queued
  BY QueuedFact DEF RWIInv
<1>2. /\ Moves(p, WlockK) /\ rwpc[p] = WlockX /\ HasX(p)
      /\ UNCHANGED <<xowner, xqueue, readers>>
      /\ K!Take(p) \/ K!Enqueue(p)
  BY <1>1 DEF WlockAskK, Move, Moves, RWTypeOK, RWPCs, xvars
<1>3. /\ xowner = p
      /\ \A o \in Procs : rwpc[o] \notin {WlockK, Writing}
      /\ kowner \in {NoProc, Readers} /\ kqueue = <<>>
  BY <1>2, ComeThrough DEF AskForX
<1>4. /\ rwpc' \in [Procs -> RWPCs] /\ rwpc'[p] = WlockK
      /\ \A o \in Procs : o # p => rwpc'[o] = rwpc[o]
  BY <1>2, MoveFacts
<1>5. XInv'
  BY <1>1, <1>2, <1>3, XKept DEF HaveX
<1>6. InRead' = InRead
  BY <1>2, <1>4 DEF InRead
<1>7. CASE K!Take(p)
  <2>1. kowner = NoProc /\ kowner' = p /\ kqueue' = <<>>
    BY <1>3, <1>7 DEF K!Take
  <2>3. KInv' /\ kqueue' \in Seq(Procs)
    BY <1>3, <1>4, <2>1, NobodyWaits
  <2>2. RWTypeOK'
    BY <1>1, <1>2, <1>4, <2>1, <2>3 DEF RWTypeOK
  <2>4. CountInv'
    BY <1>1, <1>2, <1>6, <2>1, SameReaders, ProcsAssumption, RWAssumption
  <2> QED
    BY <1>5, <2>2, <2>3, <2>4 DEF RWIInv
<1>8. CASE K!Enqueue(p)
  <2>1. kowner = Readers /\ kowner' = Readers /\ kqueue' = Append(<<>>, p)
    BY <1>3, <1>8 DEF K!Enqueue
  <2>3. /\ kqueue' \in Seq(Procs)
        /\ DOMAIN kqueue' = {1} /\ kqueue'[1] = p /\ Len(kqueue') = 1
    BY <2>1
  <2>2. RWTypeOK'
    BY <1>1, <1>2, <1>4, <2>1, <2>3 DEF RWTypeOK
  <2>4. KInv'
    <3>1. \A o \in Procs : kowner' # o /\ rwpc'[o] # Writing
      BY <1>3, <1>4, <2>1, ProcsAssumption, RWAssumption
    <3>2. \A o \in Procs : rwpc'[o] = WlockK => o = p
      BY <1>3, <1>4
    <3>3. Len(kqueue') <= 1
      BY <2>3
    <3> QED
      BY <1>4, <2>1, <2>3, <3>1, <3>2, <3>3 DEF KInv
  <2>5. CountInv'
    BY <1>1, <1>2, <1>6, <2>1, SameReaders
  <2> QED
    BY <1>5, <2>2, <2>4, <2>5 DEF RWIInv
<1> QED
  BY <1>2, <1>7, <1>8

\* The process that has come through qlock(&l->k) has k.
LEMMA WlockInStep ==
  ASSUME RWIInv, NEW p \in Procs, WlockIn(p)
  PROVE  RWIInv'
<1>1. RWTypeOK /\ XInv /\ KInv /\ CountInv /\ Queued
  BY QueuedFact DEF RWIInv
<1>2. /\ Moves(p, Writing) /\ rwpc[p] = WlockK /\ HasK(p)
      /\ UNCHANGED <<xowner, xqueue, kowner, kqueue, readers>>
  BY <1>1 DEF WlockIn, Move, Moves, RWTypeOK, RWPCs, xvars, kvars
<1>3. /\ rwpc' \in [Procs -> RWPCs] /\ rwpc'[p] = Writing
      /\ \A o \in Procs : o # p => rwpc'[o] = rwpc[o]
  BY <1>2, MoveFacts
<1>4. \A i \in DOMAIN kqueue : kqueue[i] \in Procs /\ kqueue[i] # p
  BY <1>1, <1>2 DEF HasK, K!Waiting, Queued
<1>5. kowner = p
  BY <1>1, <1>2, <1>4 DEF KInv
<1>6. RWTypeOK'
  BY <1>1, <1>2, <1>3 DEF RWTypeOK
<1>7. XInv'
  BY <1>1, <1>2, XKept DEF XInv, HaveX
<1>a. kowner # Readers /\ \A i \in DOMAIN kqueue : FALSE
  BY <1>1, <1>5, ProcsAssumption, RWAssumption DEF KInv
<1>8. KInv'
  BY <1>1, <1>2, <1>3, <1>5, <1>a DEF KInv
<1>9. InRead' = InRead
  BY <1>2, <1>3 DEF InRead
<1>10. CountInv'
  BY <1>1, <1>2, <1>9, SameReaders
<1> QED
  BY <1>6, <1>7, <1>8, <1>10 DEF RWIInv

\* wunlock gives k back first, and nobody waits for it.
LEMMA WunlockFirstStep ==
  ASSUME KFirst, RWIInv, NEW p \in Procs, WunlockFirst(p)
  PROVE  RWIInv'
<1>1. RWTypeOK /\ XInv /\ KInv /\ CountInv /\ Queued
  BY QueuedFact DEF RWIInv
<1>2. /\ Moves(p, Wunlock) /\ rwpc[p] = Writing /\ QunlockK
      /\ UNCHANGED <<xowner, xqueue, readers>>
  BY KFirst, <1>1 DEF WunlockFirst, Move, Moves, RWTypeOK, RWPCs, xvars
<1>3. /\ rwpc' \in [Procs -> RWPCs] /\ rwpc'[p] = Wunlock
      /\ \A o \in Procs : o # p => rwpc'[o] = rwpc[o]
  BY <1>2, MoveFacts
<1>4. kowner = p /\ kowner # Readers
  BY <1>1, <1>2, ProcsAssumption, RWAssumption DEF KInv
<1>5. 1 \notin DOMAIN kqueue
  BY <1>1, <1>4 DEF KInv
<1>6. kqueue = <<>>
  BY <1>1, <1>5 DEF Queued, RWTypeOK
<1>7. kowner' = NoProc /\ kqueue' = <<>>
  BY <1>2, <1>6 DEF QunlockK, K!PassOn
<1>8. \A o \in Procs : o # p => rwpc[o] \notin {WlockK, Writing}
  BY <1>1, <1>4, <1>6 DEF KInv
<1>9. RWTypeOK'
  BY <1>1, <1>2, <1>3, <1>7 DEF RWTypeOK
<1>10. XInv'
  BY <1>1, <1>2, XKept DEF XInv, HaveX
<1>11. KInv'
  BY <1>3, <1>7, <1>8, NobodyWaits, ProcsAssumption, RWAssumption
<1>12. InRead' = InRead
  BY <1>2, <1>3 DEF InRead
<1>13. CountInv'
  BY <1>1, <1>2, <1>4, <1>7, <1>12, SameReaders, ProcsAssumption, RWAssumption
<1> QED
  BY <1>9, <1>10, <1>11, <1>13 DEF RWIInv

LEMMA WunlockSecondStep ==
  ASSUME KFirst, RWIInv, NEW p \in Procs, WunlockSecond(p)
  PROVE  RWIInv'
<1>1. RWTypeOK /\ XInv /\ KInv /\ CountInv /\ Queued
  BY QueuedFact DEF RWIInv
<1>2. /\ Moves(p, Idle) /\ rwpc[p] = Wunlock /\ QunlockX
      /\ UNCHANGED <<kowner, kqueue, readers>>
  BY KFirst, <1>1 DEF WunlockSecond, Move, Moves, RWTypeOK, RWPCs, kvars
<1>3. /\ rwpc' \in [Procs -> RWPCs] /\ rwpc'[p] = Idle
      /\ \A o \in Procs : o # p => rwpc'[o] = rwpc[o]
  BY <1>2, MoveFacts
<1>4. XInv' /\ xowner' \in Procs \cup {NoProc} /\ xqueue' \in Seq(Procs)
  BY <1>1, <1>2, QunlockXStep DEF HaveX
<1>5. RWTypeOK'
  BY <1>1, <1>2, <1>3, <1>4 DEF RWTypeOK
<1>6. KInv'
  BY <1>1, <1>2, KKept
<1>7. InRead' = InRead
  BY <1>2, <1>3 DEF InRead
<1>8. CountInv'
  BY <1>1, <1>2, <1>7, SameReaders
<1> QED
  BY <1>4, <1>5, <1>6, <1>8 DEF RWIInv

LEMMA RWNextIInv ==
  ASSUME KFirst, RWIInv, [RWNext]_rwvars
  PROVE  RWIInv'
<1>1. CASE UNCHANGED rwvars
  BY <1>1 DEF rwvars, RWIInv, RWTypeOK, XInv, KInv, CountInv,
              KFollowsReaders, InRead
<1>2. ASSUME NEW p \in Procs, RlockAsk(p) \/ WlockAsk(p)
      PROVE  RWIInv'
  BY <1>2, AskStep
<1>3. ASSUME NEW p \in Procs, Continue(p)
      PROVE  RWIInv'
  BY <1>3, RlockInStep, RlockDoneStep, RunlockStep, WlockAskKStep,
     WlockInStep, WunlockFirstStep, WunlockSecondStep DEF Continue
<1> QED
  BY <1>1, <1>2, <1>3 DEF RWNext

----------------------------------------------------------------------------
(* The theorems. *)

LEMMA RWInvariant == ASSUME KFirst PROVE RWSpec => []RWIInv
<1>1. RWIInv /\ [RWNext]_rwvars => RWIInv'
  BY RWNextIInv
<1> QED
  BY <1>1, RWInitIInv, PTL DEF RWSpec

\* The lock's fields and the processes in its calls keep their types.
THEOREM RWTypeCorrect == ASSUME KFirst PROVE RWSpec => []RWTypeOK
<1>1. RWIInv => RWTypeOK
  BY DEF RWIInv
<1> QED
  BY <1>1, RWInvariant, PTL

\* A writer is alone, with the order of os/port/qlock.c.
THEOREM RWExclusion == ASSUME KFirst PROVE RWSpec => []ReadersExcludeWriter
<1>1. ASSUME RWIInv PROVE ReadersExcludeWriter
  <2> USE <1>1, ProcsAssumption, RWAssumption DEF RWIInv
  <2>1. SUFFICES ASSUME NEW w \in InWrite
                 PROVE  InWrite = {w} /\ InRead = {}
    BY DEF ReadersExcludeWriter
  <2>2. w \in Procs /\ kowner = w
    BY DEF InWrite, KInv
  <2>3. InWrite = {w}
    BY <2>2 DEF InWrite, KInv
  <2>4. readers = 0
    BY <2>2 DEF CountInv, KFollowsReaders, RWTypeOK
  <2>5. InRead = {}
    BY <2>4, FS_EmptySet DEF CountInv, KFollowsReaders
  <2> QED
    BY <2>3, <2>5
<1> QED
  BY <1>1, RWInvariant, PTL

\* The count is exact and k belongs to the readers while there are any.
THEOREM KeptByReaders == ASSUME KFirst PROVE RWSpec => []KFollowsReaders
<1>1. RWIInv => KFollowsReaders
  BY DEF RWIInv, CountInv
<1> QED
  BY <1>1, RWInvariant, PTL

\* While a writer waits in qlock(&l->k), it has x, which a reader would need.
THEOREM NotOvertaken == ASSUME KFirst PROVE RWSpec => WriterNotOvertaken
<1>1. ASSUME RWIInv, [RWNext]_rwvars, NEW w \in Procs, rwpc[w] = WlockK
      PROVE  readers' <= readers
  <2>0. Queued
    BY <1>1, QueuedFact
  <2> USE <1>1, <2>0 DEF RWIInv, Queued
  <2>1. readers \in Nat /\ xowner = w
    BY DEF RWTypeOK, XInv, HaveX
  <2>2. ASSUME NEW p \in Procs, RlockIn(p) PROVE FALSE
    <3>1. rwpc[p] = RlockX /\ p \notin X!Waiting
      BY <2>2 DEF RlockIn, Move, HasX
    <3>2. xowner = p
      BY <3>1 DEF XInv, AskForX, X!Waiting, RWTypeOK
    <3> QED
      BY <2>1, <3>1, <3>2
  <2>3. ASSUME NEW p \in Procs, RlockAsk(p) \/ WlockAsk(p) \/ Continue(p)
        PROVE  readers' = readers \/ readers' = readers - 1
    BY <2>2, <2>3 DEF RlockAsk, WlockAsk, AskX, Continue, RlockDone, Runlock,
       WlockAskK, WlockIn, WunlockFirst, WunlockSecond
  <2>4. readers' = readers \/ readers' = readers - 1
    BY <2>3 DEF RWNext, rwvars
  <2>5. readers \in Nat
    BY <2>1
  <2> HIDE <1>1, <2>0
  <2> QED
    BY <2>4, <2>5
<1>2. RWIInv /\ [RWNext]_rwvars =>
        [(\E w \in Procs : rwpc[w] = WlockK) => readers' <= readers]_rwvars
  BY <1>1
<1> QED
  BY <1>2, RWInvariant, PTL DEF RWSpec, WriterNotOvertaken

----------------------------------------------------------------------------
(* Sleep and Wakeup, for any number of wakers and killers: Sleep parks on  *)
(* no condition that is true without a Wakeup to come, one process at most *)
(* meets the sleeper, a signal stays within its host call, and no          *)
(* interrupt is left over.                                                 *)

Others == Wakers \cup Killers

\* r->l is held by exactly the process that is between lock and unlock; S
\* drops it before it parks, the others while it is parked.
LockInv ==
    \A p \in Parties :
        pc[p] \in {SlTest, WkIn, SwIn, Meeting, Unlock} <=> rl = p

Met == \E p \in Others : pc[p] = Meeting

\* The link between S and r: r->p is set only while S is parked, S->r in all of
\* Sleep, unless a process is in rendezvous, which has cleared them.
LinkInv ==
    /\ upr => pc[S] \in {SlLock, SlTest, Asleep} /\ ~Met
    /\ pc[S] = SlTest => upr
    /\ pc[S] = SlLock => upr \/ Met
    /\ pc[S] = Asleep => rp \/ Met
    /\ rp => pc[S] = Asleep
    /\ Met => pc[S] \in {SlLock, Asleep}

\* intwait stands for one signal: about to be posted by one killer, or posted.
SignalInv ==
    /\ syscall <=> pc[S] = InHost
    /\ signal => intwait
    /\ intwait => signal \/ \E k \in Others : pc[k] = SwSignal
    /\ \A k \in Others : pc[k] = SwSignal => intwait /\ ~signal
    /\ \A j, k \in Others : pc[j] = SwSignal /\ pc[k] = SwSignal => j = k

\* swipend is set in the call that will take it back.
IntrInv ==
    /\ swipend => pc[S] \in {InHost, SlLock, Asleep, Woken}
    /\ swipend /\ pc[S] = SlLock => Met
    /\ intr => pc[S] = Leaving

RendezIInv ==
    /\ TypeOK /\ LockInv /\ LinkInv
    /\ SignalInv /\ SignalInHostCall /\ IntrInv /\ NoLostWakeup

USE DEF Parties, Others, InDis, Out, SlLock, SlTest, Asleep, Woken, InHost,
        Leaving, Fault, Away, WkCall, WkIn, SwLock, SwIn, SwHost, SwSignal,
        Meeting, Unlock

\* RendezIInv holds when nobody has done anything.
LEMMA RendezInitIInv == Init => RendezIInv
<1> SUFFICES ASSUME Init PROVE RendezIInv
  OBVIOUS
<1> USE RendezAssumption DEF Init
<1>1. TypeOK
  BY DEF TypeOK, SleeperPCs, OtherPCs
<1>2. LockInv /\ LinkInv
  BY DEF LockInv, LinkInv, Met
<1>3. SignalInv /\ SignalInHostCall /\ IntrInv /\ NoLostWakeup
  BY DEF SignalInv, SignalInHostCall, IntrInv, NoLostWakeup
<1> QED
  BY <1>1, <1>2, <1>3 DEF RendezIInv

----------------------------------------------------------------------------
(* Every step keeps RendezIInv. *)

LEMMA ReleaseStep ==
  ASSUME RendezIInv, Release
  PROVE  RendezIInv'
<1> USE RendezAssumption DEF RendezIInv, TypeOK, Release, At, Goto, intvars
<1>1. TypeOK'
  BY DEF SleeperPCs, OtherPCs
<1>2. LockInv'
  BY DEF LockInv
<1>3. LinkInv'
  BY DEF LockInv, LinkInv, Met
<1>4. SignalInv'
  BY DEF SignalInv
<1>5. SignalInHostCall'
  BY DEF SignalInv, SignalInHostCall
<1>6. IntrInv'
  BY DEF LockInv, LinkInv, IntrInv, Met
<1>7. NoLostWakeup'
  BY DEF LinkInv, NoLostWakeup, Met
<1> QED
  BY <1>1, <1>2, <1>3, <1>4, <1>5, <1>6, <1>7

LEMMA AcquireStep ==
  ASSUME RendezIInv, Acquire
  PROVE  RendezIInv'
<1> USE RendezAssumption DEF RendezIInv, TypeOK, Acquire, At, Goto
<1>1. TypeOK'
  BY DEF SleeperPCs, OtherPCs
<1>2. LockInv'
  BY DEF LockInv
<1>3. LinkInv'
  BY DEF LockInv, LinkInv, Met
<1>4. SignalInv'
  BY DEF SignalInv
<1>5. SignalInHostCall'
  BY DEF SignalInv, SignalInHostCall
<1>6. IntrInv'
  BY DEF LockInv, LinkInv, IntrInv, Met
<1>7. NoLostWakeup'
  BY DEF LinkInv, NoLostWakeup, Met
<1> QED
  BY <1>1, <1>2, <1>3, <1>4, <1>5, <1>6, <1>7

LEMMA SleepEnterStep ==
  ASSUME RendezIInv, SleepEnter
  PROVE  RendezIInv'
<1> USE RendezAssumption DEF RendezIInv, TypeOK, SleepEnter, At, Goto, intvars
<1>1. TypeOK'
  BY DEF SleeperPCs, OtherPCs
<1>2. LockInv'
  BY DEF LockInv
<1>3. LinkInv'
  BY DEF LockInv, LinkInv, Met
<1>4. SignalInv'
  BY DEF SignalInv
<1>5. SignalInHostCall'
  BY DEF SignalInv, SignalInHostCall
<1>6. IntrInv'
  BY DEF LockInv, LinkInv, IntrInv, Met
<1>7. NoLostWakeup'
  BY DEF LinkInv, NoLostWakeup, Met
<1> QED
  BY <1>1, <1>2, <1>3, <1>4, <1>5, <1>6, <1>7

LEMMA SleepLockStep ==
  ASSUME RendezIInv, SleepLock
  PROVE  RendezIInv'
<1> USE RendezAssumption DEF RendezIInv, TypeOK, SleepLock, LockR, At, Goto,
                             intvars
<1>1. TypeOK'
  BY DEF SleeperPCs, OtherPCs
<1>2. LockInv'
  BY DEF LockInv
<1>3. LinkInv'
  BY DEF LockInv, LinkInv, Met
<1>4. SignalInv'
  BY DEF SignalInv
<1>5. SignalInHostCall'
  BY DEF SignalInv, SignalInHostCall
<1>6. IntrInv'
  BY DEF LockInv, LinkInv, IntrInv, Met
<1>7. NoLostWakeup'
  BY DEF LinkInv, NoLostWakeup, Met
<1> QED
  BY <1>1, <1>2, <1>3, <1>4, <1>5, <1>6, <1>7

LEMMA SleepReadyStep ==
  ASSUME RendezIInv, SleepReady
  PROVE  RendezIInv'
<1> USE RendezAssumption DEF RendezIInv, TypeOK, SleepReady, At, Goto, intvars
<1>1. TypeOK'
  BY DEF SleeperPCs, OtherPCs, LinkInv
<1>2. LockInv'
  BY DEF LockInv
<1>3. LinkInv'
  BY DEF LockInv, LinkInv, Met
<1>4. SignalInv'
  BY DEF SignalInv
<1>5. SignalInHostCall'
  BY DEF SignalInv, SignalInHostCall
<1>6. IntrInv'
  BY DEF LockInv, LinkInv, IntrInv, Met
<1>7. NoLostWakeup'
  BY DEF LinkInv, NoLostWakeup, Met
<1> QED
  BY <1>1, <1>2, <1>3, <1>4, <1>5, <1>6, <1>7

LEMMA SleepCommitStep ==
  ASSUME RendezIInv, SleepCommit
  PROVE  RendezIInv'
<1> USE RendezAssumption DEF RendezIInv, TypeOK, SleepCommit, At, Goto
<1>1. TypeOK'
  BY DEF SleeperPCs, OtherPCs, LinkInv
<1>2. LockInv'
  BY DEF LockInv
<1>3. LinkInv'
  BY DEF LockInv, LinkInv, Met
<1>4. SignalInv'
  BY DEF SignalInv
<1>5. SignalInHostCall'
  BY DEF SignalInv, SignalInHostCall
<1>6. IntrInv'
  BY DEF LockInv, LinkInv, IntrInv, Met
<1>7. NoLostWakeup'
  BY DEF LinkInv, NoLostWakeup, Met
<1> QED
  BY <1>1, <1>2, <1>3, <1>4, <1>5, <1>6, <1>7

LEMMA SleepReturnStep ==
  ASSUME RendezIInv, SleepReturn
  PROVE  RendezIInv'
<1> USE RendezAssumption DEF RendezIInv, TypeOK, SleepReturn, At, Goto
<1>1. TypeOK'
  BY DEF SleeperPCs, OtherPCs
<1>2. LockInv'
  BY DEF LockInv
<1>3. LinkInv'
  BY DEF LockInv, LinkInv, Met
<1>4. SignalInv'
  BY DEF SignalInv
<1>5. SignalInHostCall'
  BY DEF SignalInv, SignalInHostCall
<1>6. IntrInv'
  BY DEF LockInv, LinkInv, IntrInv, Met
<1>7. NoLostWakeup'
  BY DEF LinkInv, NoLostWakeup, Met
<1> QED
  BY <1>1, <1>2, <1>3, <1>4, <1>5, <1>6, <1>7

LEMMA OsenterStep ==
  ASSUME RendezIInv, Osenter
  PROVE  RendezIInv'
<1> USE RendezAssumption DEF RendezIInv, TypeOK, Osenter, At, Goto
<1>1. TypeOK'
  BY DEF SleeperPCs, OtherPCs
<1>2. LockInv'
  BY DEF LockInv
<1>3. LinkInv'
  BY DEF LockInv, LinkInv, Met
<1>4. SignalInv'
  BY DEF SignalInv
<1>5. SignalInHostCall'
  BY DEF SignalInv, SignalInHostCall
<1>6. IntrInv'
  BY DEF LockInv, LinkInv, IntrInv, Met
<1>7. NoLostWakeup'
  BY DEF LinkInv, NoLostWakeup, Met
<1> QED
  BY <1>1, <1>2, <1>3, <1>4, <1>5, <1>6, <1>7

LEMMA OsleaveLockStep ==
  ASSUME RendezIInv, OsleaveLock
  PROVE  RendezIInv'
<1> USE RendezAssumption DEF RendezIInv, TypeOK, OsleaveLock, At, Goto
<1>1. TypeOK'
  BY DEF SleeperPCs, OtherPCs
<1>2. LockInv'
  BY DEF LockInv
<1>3. LinkInv'
  BY DEF LockInv, LinkInv, Met
<1>4. SignalInv'
  BY DEF SignalInv
<1>5. SignalInHostCall'
  BY DEF SignalInv, SignalInHostCall
<1>6. IntrInv'
  BY DEF LockInv, LinkInv, IntrInv, Met
<1>7. NoLostWakeup'
  BY DEF LinkInv, NoLostWakeup, Met
<1> QED
  BY <1>1, <1>2, <1>3, <1>4, <1>5, <1>6, <1>7

LEMMA OsleaveReturnStep ==
  ASSUME RendezIInv, OsleaveReturn
  PROVE  RendezIInv'
<1> USE RendezAssumption DEF RendezIInv, TypeOK, OsleaveReturn, At, Goto
<1>1. TypeOK'
  BY DEF SleeperPCs, OtherPCs
<1>2. LockInv'
  BY DEF LockInv
<1>3. LinkInv'
  BY DEF LockInv, LinkInv, Met
<1>4. SignalInv'
  BY DEF SignalInv
<1>5. SignalInHostCall'
  BY DEF SignalInv, SignalInHostCall
<1>6. IntrInv'
  BY DEF LockInv, LinkInv, IntrInv, Met
<1>7. NoLostWakeup'
  BY DEF LinkInv, NoLostWakeup, Met
<1> QED
  BY <1>1, <1>2, <1>3, <1>4, <1>5, <1>6, <1>7

LEMMA TrapUSR1Step ==
  ASSUME RendezIInv, TrapUSR1
  PROVE  RendezIInv'
<1> USE RendezAssumption DEF RendezIInv, TypeOK, TrapUSR1, Goto
<1>0. UNCHANGED pc
  BY DEF SignalInv
<1>1. TypeOK'
  BY DEF SleeperPCs, OtherPCs
<1>2. LockInv'
  BY DEF LockInv, SignalInv, SignalInHostCall
<1>3. LinkInv'
  BY DEF LockInv, LinkInv, Met, SignalInv, SignalInHostCall
<1>4. SignalInv'
  BY DEF SignalInv
<1>5. SignalInHostCall'
  BY DEF SignalInv, SignalInHostCall
<1>6. IntrInv'
  BY <1>0 DEF IntrInv, Met
<1>7. NoLostWakeup'
  BY DEF LinkInv, NoLostWakeup, Met
<1> QED
  BY <1>1, <1>2, <1>3, <1>4, <1>5, <1>6, <1>7

LEMMA MakeReadyStep ==
  ASSUME RendezIInv, NEW w \in Wakers, MakeReady(w)
  PROVE  RendezIInv'
<1> USE RendezAssumption DEF RendezIInv, TypeOK, MakeReady, At, Goto, intvars
<1>1. TypeOK'
  BY DEF SleeperPCs, OtherPCs
<1>2. LockInv'
  BY DEF LockInv
<1>3. LinkInv'
  BY DEF LockInv, LinkInv, Met
<1>4. SignalInv'
  BY DEF SignalInv
<1>5. SignalInHostCall'
  BY DEF SignalInv, SignalInHostCall
<1>6. IntrInv'
  BY DEF LockInv, LinkInv, IntrInv, Met
<1>7. NoLostWakeup'
  BY DEF LinkInv, NoLostWakeup, Met
<1> QED
  BY <1>1, <1>2, <1>3, <1>4, <1>5, <1>6, <1>7

LEMMA WakeupLockStep ==
  ASSUME RendezIInv, NEW w \in Wakers, WakeupLock(w)
  PROVE  RendezIInv'
<1> USE RendezAssumption DEF RendezIInv, TypeOK, WakeupLock, LockR, At, Goto,
                             intvars
<1>1. TypeOK'
  BY DEF SleeperPCs, OtherPCs
<1>2. LockInv'
  BY DEF LockInv
<1>3. LinkInv'
  BY DEF LockInv, LinkInv, Met
<1>4. SignalInv'
  BY DEF SignalInv
<1>5. SignalInHostCall'
  BY DEF SignalInv, SignalInHostCall
<1>6. IntrInv'
  BY DEF LockInv, LinkInv, IntrInv, Met
<1>7. NoLostWakeup'
  BY DEF LinkInv, NoLostWakeup, Met
<1> QED
  BY <1>1, <1>2, <1>3, <1>4, <1>5, <1>6, <1>7

LEMMA WakeupInStep ==
  ASSUME RendezIInv, NEW p \in Others, WakeupIn(p)
  PROVE  RendezIInv'
<1> USE RendezAssumption DEF RendezIInv, TypeOK, WakeupIn, Goto, intvars
<1>1. CASE rp
  <2> USE <1>1
  <2>1. TypeOK'
    BY DEF SleeperPCs, OtherPCs
  <2>2. LockInv'
    BY DEF LockInv
  <2>3. LinkInv'
    BY DEF LockInv, LinkInv, Met
  <2>4. SignalInv'
    BY DEF SignalInv
  <2>5. SignalInHostCall'
    BY DEF SignalInv, SignalInHostCall
  <2>6. IntrInv'
    BY DEF LockInv, LinkInv, IntrInv, Met
  <2>7. NoLostWakeup'
    BY DEF LinkInv, NoLostWakeup, Met
  <2> QED
    BY <2>1, <2>2, <2>3, <2>4, <2>5, <2>6, <2>7
<1>2. CASE ~rp
  <2> USE <1>2
  <2>1. TypeOK'
    BY DEF SleeperPCs, OtherPCs
  <2>2. LockInv'
    BY DEF LockInv
  <2>3. LinkInv'
    BY DEF LockInv, LinkInv, Met
  <2>4. SignalInv'
    BY DEF SignalInv
  <2>5. SignalInHostCall'
    BY DEF SignalInv, SignalInHostCall
  <2>6. IntrInv'
    BY DEF LockInv, LinkInv, IntrInv, Met
  <2>7. NoLostWakeup'
    BY DEF LinkInv, NoLostWakeup, Met
  <2> QED
    BY <2>1, <2>2, <2>3, <2>4, <2>5, <2>6, <2>7
<1> QED
  BY <1>1, <1>2

LEMMA SwiprocStep ==
  ASSUME RendezIInv, NEW k \in Killers, Swiproc(k)
  PROVE  RendezIInv'
<1> USE RendezAssumption DEF RendezIInv, TypeOK, Swiproc, At, Goto
<1>1. TypeOK'
  BY DEF SleeperPCs, OtherPCs
<1>2. LockInv'
  BY DEF LockInv
<1>3. LinkInv'
  BY DEF LockInv, LinkInv, Met
<1>4. SignalInv'
  BY DEF SignalInv
<1>5. SignalInHostCall'
  BY DEF SignalInv, SignalInHostCall
<1>6. IntrInv'
  BY DEF LockInv, LinkInv, IntrInv, Met
<1>7. NoLostWakeup'
  BY DEF LinkInv, NoLostWakeup, Met
<1> QED
  BY <1>1, <1>2, <1>3, <1>4, <1>5, <1>6, <1>7

LEMMA SwiLockStep ==
  ASSUME RendezIInv, NEW k \in Killers, SwiLock(k)
  PROVE  RendezIInv'
<1> USE RendezAssumption DEF RendezIInv, TypeOK, SwiLock, LockR, At, Goto,
                             intvars
<1>1. TypeOK'
  BY DEF SleeperPCs, OtherPCs
<1>2. LockInv'
  BY DEF LockInv
<1>3. LinkInv'
  BY DEF LockInv, LinkInv, Met
<1>4. SignalInv'
  BY DEF SignalInv
<1>5. SignalInHostCall'
  BY DEF SignalInv, SignalInHostCall
<1>6. IntrInv'
  BY DEF LockInv, LinkInv, IntrInv, Met
<1>7. NoLostWakeup'
  BY DEF LinkInv, NoLostWakeup, Met
<1> QED
  BY <1>1, <1>2, <1>3, <1>4, <1>5, <1>6, <1>7

LEMMA SwiInStep ==
  ASSUME RendezIInv, NEW p \in Others, SwiIn(p)
  PROVE  RendezIInv'
<1> USE RendezAssumption DEF RendezIInv, TypeOK, SwiIn, Goto
<1>1. CASE upr
  <2> USE <1>1
  <2>1. TypeOK'
    BY DEF SleeperPCs, OtherPCs
  <2>2. LockInv'
    BY DEF LockInv
  <2>3. LinkInv'
    BY DEF LockInv, LinkInv, Met
  <2>4. SignalInv'
    BY DEF SignalInv
  <2>5. SignalInHostCall'
    BY DEF SignalInv, SignalInHostCall
  <2>6. IntrInv'
    BY DEF LockInv, LinkInv, IntrInv, Met
  <2>7. NoLostWakeup'
    BY DEF LinkInv, NoLostWakeup, Met
  <2> QED
    BY <2>1, <2>2, <2>3, <2>4, <2>5, <2>6, <2>7
<1>2. CASE ~upr
  <2> USE <1>2
  <2>1. TypeOK'
    BY DEF SleeperPCs, OtherPCs
  <2>2. LockInv'
    BY DEF LockInv
  <2>3. LinkInv'
    BY DEF LockInv, LinkInv, Met
  <2>4. SignalInv'
    BY DEF SignalInv
  <2>5. SignalInHostCall'
    BY DEF SignalInv, SignalInHostCall
  <2>6. IntrInv'
    BY DEF LockInv, LinkInv, IntrInv, Met
  <2>7. NoLostWakeup'
    BY DEF LinkInv, NoLostWakeup, Met
  <2> QED
    BY <2>1, <2>2, <2>3, <2>4, <2>5, <2>6, <2>7
<1> QED
  BY <1>1, <1>2

LEMMA SwiHostStep ==
  ASSUME RendezIInv, NEW p \in Others, SwiHost(p)
  PROVE  RendezIInv'
<1> USE RendezAssumption DEF RendezIInv, TypeOK, SwiHost, Goto
<1>1. CASE syscall /\ ~intwait
  <2> USE <1>1
  <2>1. TypeOK'
    BY DEF SleeperPCs, OtherPCs
  <2>2. LockInv'
    BY DEF LockInv
  <2>3. LinkInv'
    BY DEF LockInv, LinkInv, Met
  <2>4. SignalInv'
    BY DEF SignalInv
  <2>5. SignalInHostCall'
    BY DEF SignalInv, SignalInHostCall
  <2>6. IntrInv'
    BY DEF LockInv, LinkInv, IntrInv, Met, SignalInv
  <2>7. NoLostWakeup'
    BY DEF LinkInv, NoLostWakeup, Met
  <2> QED
    BY <2>1, <2>2, <2>3, <2>4, <2>5, <2>6, <2>7
<1>2. CASE ~(syscall /\ ~intwait)
  <2> USE <1>2
  <2>1. TypeOK'
    BY DEF SleeperPCs, OtherPCs
  <2>2. LockInv'
    BY DEF LockInv
  <2>3. LinkInv'
    BY DEF LockInv, LinkInv, Met
  <2>4. SignalInv'
    BY DEF SignalInv
  <2>5. SignalInHostCall'
    BY DEF SignalInv, SignalInHostCall
  <2>6. IntrInv'
    BY DEF LockInv, LinkInv, IntrInv, Met, SignalInv
  <2>7. NoLostWakeup'
    BY DEF LinkInv, NoLostWakeup, Met
  <2> QED
    BY <2>1, <2>2, <2>3, <2>4, <2>5, <2>6, <2>7
<1> QED
  BY <1>1, <1>2

LEMMA OshostintrStep ==
  ASSUME RendezIInv, NEW p \in Others, Oshostintr(p)
  PROVE  RendezIInv'
<1> USE RendezAssumption DEF RendezIInv, TypeOK, Oshostintr, At, Goto
<1>1. TypeOK'
  BY DEF SleeperPCs, OtherPCs
<1>2. LockInv'
  BY DEF LockInv
<1>3. LinkInv'
  BY DEF LockInv, LinkInv, Met
<1>4. SignalInv'
  BY DEF SignalInv
<1>5. SignalInHostCall'
  BY DEF SignalInv, SignalInHostCall
<1>6. IntrInv'
  BY DEF LockInv, LinkInv, IntrInv, Met
<1>7. NoLostWakeup'
  BY DEF LinkInv, NoLostWakeup, Met
<1> QED
  BY <1>1, <1>2, <1>3, <1>4, <1>5, <1>6, <1>7

LEMMA MeetStep ==
  ASSUME RendezIInv, NEW p \in Others, Meet(p)
  PROVE  RendezIInv'
<1> USE RendezAssumption DEF RendezIInv, TypeOK, Meet, intvars
<1>1. TypeOK'
  BY DEF SleeperPCs, OtherPCs
<1>2. LockInv'
  BY DEF LockInv
<1>3. LinkInv'
  BY DEF LockInv, LinkInv, Met
<1>4. SignalInv'
  BY DEF SignalInv
<1>5. SignalInHostCall'
  BY DEF SignalInv, SignalInHostCall
<1>6. IntrInv'
  BY DEF LockInv, LinkInv, IntrInv, Met
<1>7. NoLostWakeup'
  BY DEF LinkInv, NoLostWakeup, Met
<1> QED
  BY <1>1, <1>2, <1>3, <1>4, <1>5, <1>6, <1>7

LEMMA UnlockRStep ==
  ASSUME RendezIInv, NEW p \in Others, UnlockR(p)
  PROVE  RendezIInv'
<1> USE RendezAssumption DEF RendezIInv, TypeOK, UnlockR, At, Goto, intvars
<1>1. TypeOK'
  BY DEF SleeperPCs, OtherPCs
<1>2. LockInv'
  BY DEF LockInv
<1>3. LinkInv'
  BY DEF LockInv, LinkInv, Met
<1>4. SignalInv'
  BY DEF SignalInv
<1>5. SignalInHostCall'
  BY DEF SignalInv, SignalInHostCall
<1>6. IntrInv'
  BY DEF LockInv, LinkInv, IntrInv, Met
<1>7. NoLostWakeup'
  BY DEF LinkInv, NoLostWakeup, Met
<1> QED
  BY <1>1, <1>2, <1>3, <1>4, <1>5, <1>6, <1>7

LEMMA RendezNextIInv ==
  ASSUME RendezIInv, [Next]_vars
  PROVE  RendezIInv'
<1>1. CASE UNCHANGED vars
  BY <1>1 DEF vars, RendezIInv, TypeOK, LockInv, LinkInv, SignalInv,
     SignalInHostCall, IntrInv, NoLostWakeup, Met
<1>2. CASE \/ Release \/ Acquire \/ SleepEnter \/ SleepLock \/ Osenter
           \/ OsleaveLock \/ SleeperStep
  BY <1>2, ReleaseStep, AcquireStep, SleepEnterStep, SleepLockStep,
     OsenterStep, OsleaveLockStep, SleepReadyStep, SleepCommitStep,
     SleepReturnStep, OsleaveReturnStep, TrapUSR1Step DEF SleeperStep
<1>3. ASSUME NEW w \in Wakers, MakeReady(w) \/ WakeupLock(w)
      PROVE  RendezIInv'
  BY <1>3, MakeReadyStep, WakeupLockStep
<1>4. ASSUME NEW k \in Killers, Swiproc(k) \/ SwiLock(k)
      PROVE  RendezIInv'
  BY <1>4, SwiprocStep, SwiLockStep
<1>5. ASSUME NEW p \in Others, OtherStep(p)
      PROVE  RendezIInv'
  BY <1>5, WakeupInStep, SwiInStep, SwiHostStep, OshostintrStep, MeetStep,
     UnlockRStep DEF OtherStep
<1> QED
  BY <1>1, <1>2, <1>3, <1>4, <1>5 DEF Next

----------------------------------------------------------------------------
(* The theorems. *)

LEMMA RendezInvariant == Spec => []RendezIInv
<1>1. RendezIInv /\ [Next]_vars => RendezIInv'
  BY RendezNextIInv
<1> QED
  BY <1>1, RendezInitIInv, PTL DEF Spec

\* The variables keep their types, and S is never where a waker is.
THEOREM RendezTypeCorrect == Spec => []TypeOK
<1>1. RendezIInv => TypeOK
  BY DEF RendezIInv
<1> QED
  BY <1>1, RendezInvariant, PTL

\* The test of the condition and the commit to sleep, under r->l, lose no
\* wakeup, whatever killers do.
THEOREM WakeupKept == Spec => []NoLostWakeup
<1>1. RendezIInv => NoLostWakeup
  BY DEF RendezIInv
<1> QED
  BY <1>1, RendezInvariant, PTL

\* Whoever meets the sleeper holds r->l.
THEOREM MeetsAlone == Spec => []OneMeeter
<1>1. RendezIInv => OneMeeter
  <2> SUFFICES ASSUME RendezIInv, NEW p \in Others, NEW q \in Others,
                      pc[p] = Meeting, pc[q] = Meeting
               PROVE  p = q
    BY DEF OneMeeter
  <2>1. rl = p /\ rl = q
    BY DEF RendezIInv, LockInv
  <2> QED
    BY <2>1
<1> QED
  BY <1>1, RendezInvariant, PTL

\* SIGUSR1 is taken in the host call it was posted for.
THEOREM SignalTaken == Spec => []SignalInHostCall
<1>1. RendezIInv => SignalInHostCall
  BY DEF RendezIInv
<1> QED
  BY <1>1, RendezInvariant, PTL

\* A thread is back in Dis without an interrupt it has not seen.
THEOREM InterruptTaken == Spec => []NoStaleInterrupt
<1>1. RendezIInv => NoStaleInterrupt
  BY DEF RendezIInv, IntrInv, NoStaleInterrupt
<1> QED
  BY <1>1, RendezInvariant, PTL
=============================================================================
