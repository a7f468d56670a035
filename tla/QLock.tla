------------------------------- MODULE QLock -------------------------------
(***************************************************************************)
(* The queueing lock of the hosted system: qlock, canqlock and qunlock of  *)
(* emu/lock.c (os/port/qlock.c is the same algorithm with sched and ready  *)
(* in the place of rendezvous).                                            *)
(*                                                                         *)
(* Each call first spins for q->use, then does its work and drops q->use   *)
(* in one step: nothing can be observed between, every other access needs  *)
(* q->use.  A process that finds the lock taken links itself at the tail   *)
(* and parks in rendezvous(up, 0); the release unlinks the head, drops     *)
(* q->use and calls rendezvous(p, 0), which returns to both when both have *)
(* arrived.  q->locked stays set across the handoff.                       *)
(***************************************************************************)
EXTENDS LockProcs, Naturals, Sequences

VARIABLES use,        \* q->use: the process inside the spin lock, or NoProc
          locked,     \* q->locked
          waitq,      \* q->head .. q->tail through qnext
          qpc,        \* where each process is in its call
          wakee       \* the p a releasing process meets in rendezvous(p, 0)

qlvars == <<use, locked, waitq, qpc, wakee>>

Spin    == "qlock"        \* in qlock, spinning for q->use
Inside  == "qlock in"     \* in qlock, has q->use
Trying  == "canqlock in"  \* in canqlock, canlock(&q->use) succeeded
Parked  == "parked"       \* in rendezvous(up, 0)
Holding == "holding"      \* qlock or canqlock gave it the lock
UnSpin  == "qunlock"      \* in qunlock, spinning for q->use
UnIn    == "qunlock in"   \* in qunlock, has q->use
Handing == "handing"      \* in rendezvous(p, 0)

QLockPCs == {Idle, Spin, Inside, Trying, Parked, Holding, UnSpin, UnIn,
             Handing}

Advance(p, l) == qpc' = [qpc EXCEPT ![p] = l]

QLockInit ==
    /\ use = NoProc
    /\ locked = FALSE
    /\ waitq = <<>>
    /\ qpc = [p \in Procs |-> Idle]
    /\ wakee = [p \in Procs |-> NoProc]

----------------------------------------------------------------------------
(* Faulty variants of the actions below, one for each way this code could  *)
(* plausibly go wrong; no specification of this module uses them.          *)

\* qunlock clears q->locked although it hands the lock to a waiter.
QunlockPassUnlocks(p) ==
    /\ qpc[p] = UnIn
    /\ waitq # <<>>
    /\ use' = NoProc
    /\ locked' = FALSE
    /\ waitq' = Tail(waitq)
    /\ wakee' = [wakee EXCEPT ![p] = Head(waitq)]
    /\ Advance(p, Handing)

\* qunlock does not take the process that it hands the lock to off the list.
QunlockPassKeeps(p) ==
    /\ qpc[p] = UnIn
    /\ waitq # <<>>
    /\ wakee' = [wakee EXCEPT ![p] = Head(waitq)]
    /\ use' = NoProc
    /\ Advance(p, Handing)
    /\ UNCHANGED <<locked, waitq>>

\* qlock links the newcomer at the head of the list.
QlockWaitAtHead(p) ==
    /\ qpc[p] = Inside
    /\ locked
    /\ waitq' = <<p>> \o waitq
    /\ use' = NoProc
    /\ Advance(p, Parked)
    /\ UNCHANGED <<locked, wakee>>

\* qunlock clears q->locked and forgets that somebody waits.
QunlockForgets(p) ==
    /\ qpc[p] = UnIn
    /\ locked' = FALSE
    /\ use' = NoProc
    /\ Advance(p, Idle)
    /\ UNCHANGED <<waitq, wakee>>

----------------------------------------------------------------------------
(* qlock *)

Qlock(p) ==
    /\ qpc[p] = Idle
    /\ Advance(p, Spin)
    /\ UNCHANGED <<use, locked, waitq, wakee>>

\* lock(&q->use): canlock succeeded, the osyield loop ends.
LockUse(p, from, to) ==
    /\ qpc[p] = from
    /\ use = NoProc
    /\ use' = p
    /\ Advance(p, to)
    /\ UNCHANGED <<locked, waitq, wakee>>

QlockUse(p) == LockUse(p, Spin, Inside)

QlockFree(p) ==
    /\ qpc[p] = Inside
    /\ ~locked
    /\ locked' = TRUE
    /\ use' = NoProc
    /\ Advance(p, Holding)
    /\ UNCHANGED <<waitq, wakee>>

QlockWait(p) ==
    /\ qpc[p] = Inside
    /\ locked
    /\ waitq' = Append(waitq, p)
    /\ use' = NoProc
    /\ Advance(p, Parked)
    /\ UNCHANGED <<locked, wakee>>

(* canqlock: it returns 0, and changes nothing, when q->use is busy or the *)
(* lock is taken; it never waits.                                          *)

CanqlockUse(p) == LockUse(p, Idle, Trying)

CanqlockTake(p) ==
    /\ qpc[p] = Trying
    /\ locked' = TRUE
    /\ use' = NoProc
    /\ Advance(p, IF locked THEN Idle ELSE Holding)
    /\ UNCHANGED <<waitq, wakee>>

(* qunlock *)

Qunlock(p) ==
    /\ qpc[p] = Holding
    /\ Advance(p, UnSpin)
    /\ UNCHANGED <<use, locked, waitq, wakee>>

QunlockUse(p) == LockUse(p, UnSpin, UnIn)

QunlockPass(p) ==
    /\ qpc[p] = UnIn
    /\ waitq # <<>>
    /\ waitq' = Tail(waitq)
    /\ wakee' = [wakee EXCEPT ![p] = Head(waitq)]
    /\ use' = NoProc
    /\ Advance(p, Handing)
    /\ UNCHANGED locked

QunlockDrop(p) ==
    /\ qpc[p] = UnIn
    /\ waitq = <<>>
    /\ locked' = FALSE
    /\ use' = NoProc
    /\ Advance(p, Idle)
    /\ UNCHANGED <<waitq, wakee>>

\* rendezvous: the releasing process u and the parked process p have both
\* arrived on the tag p; both calls return.
Rendezvous(u, p) ==
    /\ qpc[u] = Handing
    /\ wakee[u] = p
    /\ qpc[p] = Parked
    /\ qpc' = [qpc EXCEPT ![u] = Idle, ![p] = Holding]
    /\ wakee' = [wakee EXCEPT ![u] = NoProc]
    /\ UNCHANGED <<use, locked, waitq>>

Step(p) ==
    \/ QlockUse(p)   \/ QlockFree(p)    \/ QlockWait(p)
    \/ CanqlockTake(p)
    \/ QunlockUse(p) \/ QunlockPass(p)  \/ QunlockDrop(p)

QLockNext ==
    \/ \E p \in Procs : Qlock(p) \/ CanqlockUse(p) \/ Qunlock(p) \/ Step(p)
    \/ \E u, p \in Procs : Rendezvous(u, p)

QLockSpec == QLockInit /\ [][QLockNext]_qlvars

(* A process inside a call keeps executing; the spin on q->use, an osyield *)
(* loop over an atomic exchange, is assumed to win in the end if q->use is *)
(* free again and again; and a holder returns the lock.  Nobody is made to *)
(* ask for the lock.                                                       *)
Fairness ==
    /\ \A p \in Procs :
        /\ WF_qlvars(QlockFree(p) \/ QlockWait(p) \/ CanqlockTake(p))
        /\ WF_qlvars(QunlockPass(p) \/ QunlockDrop(p))
        /\ WF_qlvars(Qunlock(p))
        /\ SF_qlvars(QlockUse(p))
        /\ SF_qlvars(QunlockUse(p))
    /\ \A u, p \in Procs : WF_qlvars(Rendezvous(u, p))

QLockFairSpec == QLockSpec /\ Fairness

----------------------------------------------------------------------------
QLockTypeOK ==
    /\ use \in Procs \cup {NoProc}
    /\ locked \in BOOLEAN
    /\ waitq \in Seq(Procs)
    /\ qpc \in [Procs -> QLockPCs]
    /\ wakee \in [Procs -> Procs \cup {NoProc}]

\* The processes that qlock or canqlock has let in and qunlock has not yet
\* let out.
Holders == {p \in Procs : qpc[p] \in {Holding, UnSpin, UnIn}}

\* The processes that carry the lock: its holder, or the process that is
\* handing it over.
Carriers == {p \in Procs : qpc[p] \in {Holding, UnSpin, UnIn, Handing}}

\* At most one process is between qlock (or a successful canqlock) and the
\* end of its qunlock, whatever mix of the three calls the others make.
MutualExclusion == \A p, q \in Holders : p = q

Linked == {waitq[i] : i \in DOMAIN waitq}
Called == {wakee[u] : u \in {v \in Procs : qpc[v] = Handing}}

\* A process parked in rendezvous(up, 0) is never forgotten and never woken
\* twice: the parked processes are those linked in the queue, each of them
\* once, and the one a qunlock has unlinked and is about to meet.
NoLostWaiter ==
    /\ {p \in Procs : qpc[p] = Parked} = Linked \cup Called
    /\ Linked \cap Called = {}
    /\ \A i, j \in DOMAIN waitq : waitq[i] = waitq[j] => i = j

(* The lock implements the FIFO mutex: the owner is the holder, or already *)
(* the process that a qunlock has unlinked and will meet.                  *)
Successor(p) == IF qpc[p] = Handing THEN wakee[p] ELSE p

owner == IF Carriers = {} THEN NoProc
                          ELSE Successor(CHOOSE p \in Carriers : TRUE)

Mutex == INSTANCE FifoMutex WITH owner <- owner, queue <- waitq

\* Every step of qlock, canqlock and qunlock is a step of the FIFO mutex or
\* leaves owner and queue alone: no barging between unlink and rendezvous.
ImplementsFifoMutex == Mutex!MutexSpec

\* A process that parked in qlock holds the lock in the end.
ParkedEventuallyHolds ==
    \A p \in Procs : qpc[p] = Parked ~> qpc[p] = Holding
=============================================================================
