------------------------------- MODULE RWLock -------------------------------
(***************************************************************************)
(* The readers/writer lock: rlock, runlock, wlock and wunlock of           *)
(* emu/lock.c and os/port/qlock.c, the lock of a process group's name      *)
(* space (Pgrp.ns).  It is built from two queueing locks, x ("wait here    *)
(* for writers and exclusion") and k ("wait here for last reader"), which  *)
(* are two instances of FifoMutex, the specification that QLock is proved  *)
(* to implement, and from a reader count under a spin lock.                *)
(*                                                                         *)
(* The two trees differ in one function: the native kernel's wunlock       *)
(* releases k before x, the hosted system's releases x before k.           *)
(***************************************************************************)
EXTENDS LockProcs, Naturals, Sequences, FiniteSets

CONSTANTS Readers,      \* the readers together, as the party that takes k
          KFirst        \* TRUE for os/port/qlock.c, FALSE for emu/lock.c

ASSUME RWAssumption ==
    /\ Readers \notin Procs \cup {NoProc}
    /\ KFirst \in BOOLEAN

VARIABLES xowner, xqueue,   \* l->x
          kowner, kqueue,   \* l->k
          readers,          \* l->readers, read and written under l->l
          rwpc

xvars == <<xowner, xqueue>>
kvars == <<kowner, kqueue>>
rwvars == <<xowner, xqueue, kowner, kqueue, readers, rwpc>>

X == INSTANCE FifoMutex WITH owner <- xowner, queue <- xqueue
K == INSTANCE FifoMutex WITH owner <- kowner, queue <- kqueue,
                             Procs <- Procs \cup {Readers}

RlockX   == "rlock x"       \* in rlock, at qlock(&l->x)
RlockOut == "rlock out"     \* counted, before qunlock(&l->x)
Reading  == "reading"
WlockX   == "wlock x"       \* in wlock, at qlock(&l->x)
WlockK   == "wlock k"       \* in wlock, at qlock(&l->k)
Writing  == "writing"
Wunlock  == "wunlock"       \* between the two qunlocks of wunlock

RWPCs == {Idle, RlockX, RlockOut, Reading, WlockX, WlockK, Writing, Wunlock}

Move(p, from, to) == rwpc[p] = from /\ rwpc' = [rwpc EXCEPT ![p] = to]

RWInit ==
    /\ X!MutexInit
    /\ K!MutexInit
    /\ readers = 0
    /\ rwpc = [p \in Procs |-> Idle]

----------------------------------------------------------------------------
\* qunlock: it passes the lock to the head of the queue, or clears it.
QunlockX == X!PassOn \/ X!Drop
QunlockK ==
    \/ K!PassOn
    \/ kqueue = <<>> /\ kowner' = NoProc /\ UNCHANGED kqueue

\* qlock has returned to p: it did not have to queue, or a qunlock has taken
\* it from the queue.
HasX(p) == p \notin X!Waiting
HasK(p) == p \notin K!Waiting

\* canqlock(&l->k), whose result rlock does not look at.
CanqlockK == IF kowner = NoProc THEN K!Take(Readers) ELSE UNCHANGED kvars

(* Faulty variants, used by no specification of this module.               *)

\* Runlock lets the writers in when it is not the last reader.
RunlockEarly(p) ==
    /\ Move(p, Reading, Idle)
    /\ readers' = readers - 1
    /\ QunlockK
    /\ UNCHANGED xvars

\* The last runlock forgets to let the waiting writer in.
RunlockForgets(p) ==
    /\ Move(p, Reading, Idle)
    /\ readers' = readers - 1
    /\ UNCHANGED <<xvars, kvars>>

\* Rlock only counts itself.
RlockNoBlock(p) ==
    /\ HasX(p)
    /\ Move(p, RlockX, RlockOut)
    /\ readers' = readers + 1
    /\ UNCHANGED <<xvars, kvars>>

\* Rlock counts itself without waiting for its turn in x.
RlockBarges(p) ==
    /\ Move(p, RlockX, RlockOut)
    /\ readers' = readers + 1
    /\ CanqlockK
    /\ UNCHANGED xvars

----------------------------------------------------------------------------
\* rlock and wlock: qlock(&l->x) takes x or queues for it.
AskX(p, l) ==
    /\ Move(p, Idle, l)
    /\ X!Take(p) \/ X!Enqueue(p)
    /\ UNCHANGED <<kvars, readers>>

RlockAsk(p) == AskX(p, RlockX)

\* x is ours: count the reader and block the writers, under l->l.
RlockIn(p) ==
    /\ HasX(p)
    /\ Move(p, RlockX, RlockOut)
    /\ readers' = readers + 1
    /\ CanqlockK
    /\ UNCHANGED xvars

RlockDone(p) ==
    /\ Move(p, RlockOut, Reading)
    /\ QunlockX
    /\ UNCHANGED <<kvars, readers>>

\* runlock: the count and the release of k are one section under l->l.
Runlock(p) ==
    /\ Move(p, Reading, Idle)
    /\ readers' = readers - 1
    /\ IF readers = 1 THEN QunlockK ELSE UNCHANGED kvars
    /\ UNCHANGED xvars

WlockAsk(p) == AskX(p, WlockX)

WlockAskK(p) ==
    /\ HasX(p)
    /\ Move(p, WlockX, WlockK)
    /\ K!Take(p) \/ K!Enqueue(p)
    /\ UNCHANGED <<xvars, readers>>

WlockIn(p) ==
    /\ HasK(p)
    /\ Move(p, WlockK, Writing)
    /\ UNCHANGED <<xvars, kvars, readers>>

\* The first and the second qunlock of wunlock.
WunlockFirst(p) ==
    /\ Move(p, Writing, Wunlock)
    /\ IF KFirst THEN QunlockK /\ UNCHANGED xvars
                 ELSE QunlockX /\ UNCHANGED kvars
    /\ UNCHANGED readers

WunlockSecond(p) ==
    /\ Move(p, Wunlock, Idle)
    /\ IF KFirst THEN QunlockX /\ UNCHANGED kvars
                 ELSE QunlockK /\ UNCHANGED xvars
    /\ UNCHANGED readers

\* What a process does once its call is under way, or to end its use.
Continue(p) ==
    \/ RlockIn(p)   \/ RlockDone(p) \/ Runlock(p)
    \/ WlockAskK(p) \/ WlockIn(p)
    \/ WunlockFirst(p) \/ WunlockSecond(p)

RWNext == \E p \in Procs : RlockAsk(p) \/ WlockAsk(p) \/ Continue(p)

RWSpec == RWInit /\ [][RWNext]_rwvars

\* Calls run on, and a process that holds the lock gives it back.
RWFairSpec == RWSpec /\ \A p \in Procs : WF_rwvars(Continue(p))

----------------------------------------------------------------------------
InRead  == {p \in Procs : rwpc[p] \in {RlockOut, Reading}}
InWrite == {p \in Procs : rwpc[p] = Writing}

RWTypeOK ==
    /\ xowner \in Procs \cup {NoProc}
    /\ xqueue \in Seq(Procs)
    /\ kowner \in Procs \cup {Readers, NoProc}
    /\ kqueue \in Seq(Procs)
    /\ readers \in Nat
    /\ rwpc \in [Procs -> RWPCs]

\* While a process holds the lock for writing nobody else holds it, neither
\* for writing nor for reading ("block writers if we are the first reader").
ReadersExcludeWriter ==
    \A w \in InWrite : InWrite = {w} /\ InRead = {}

\* The count is exact, and k is taken in the readers' name exactly while
\* there are readers: the result of canqlock that rlock throws away never
\* matters.
KFollowsReaders ==
    /\ readers = Cardinality(InRead)
    /\ kowner = Readers <=> readers > 0

\* A writer that waits for the last reader is not overtaken by new readers.
WriterNotOvertaken ==
    [][(\E w \in Procs : rwpc[w] = WlockK) => readers' <= readers]_rwvars

\* Everybody who asks gets in: readers cannot starve a writer, nor writers
\* a reader.
AskersGetIn ==
    \A p \in Procs : /\ rwpc[p] = RlockX ~> rwpc[p] = Reading
                     /\ rwpc[p] = WlockX ~> rwpc[p] = Writing
=============================================================================
