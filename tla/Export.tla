--------------------------------- MODULE Export ---------------------------------
(***************************************************************************)
(* The export server, emu/exportfs.c: exportproc reads the requests of one *)
(* connection and queues them; slaves, of which it starts another whenever *)
(* none waits in line, take them, do the file operation and write the      *)
(* reply.  A Tflush takes the request off the queue, or interrupts the     *)
(* slave that serves it; the end of the connection does so with all.       *)
(*                                                                         *)
(* A request is a number, in the order of arrival; what it does to the     *)
(* fids is chosen when a slave begins it.  Fid 1 is attached, a clone      *)
(* makes fid 2 of it.  A file operation ends some time, well or with an    *)
(* error.                                                                  *)
(*                                                                         *)
(* oshostintr only sends SIGUSR1.  It cuts short the host call it finds    *)
(* the slave in.  If that is the semop below rendezvous, Sleep returns     *)
(* with r->p still set, and the next Sleep there panics; qlock returns     *)
(* without the lock.  The model stops where that happens (panicked).       *)
(***************************************************************************)
EXTENDS Naturals, Sequences, FiniteSets, SequencesExt

CONSTANTS MaxReqs,      \* bound: requests, and so slaves
          MaxFlushes    \* bound: flushes

ASSUME ExportAssumption ==
    MaxReqs \in Nat /\ MaxFlushes \in Nat

Reqs   == 1 .. MaxReqs
Slaves == 1 .. MaxReqs
None   == 0
Kinds  == {"use", "clone", "clunk"}

VARIABLES queue, tail,      \* exq.head and what follows; exq.tail
          rwait,            \* exq.rwait.p
          qowner, qqueue,   \* exq.qwait
          work,             \* fs->work
          shut,             \* the requests with shut set
          ref,              \* fs->r.ref
          fid,              \* fs->fid
          epc, flushing,    \* exportproc: its place, and the request or the
          victim,           \*   slave exflush or exshutdown has found
          pc, job,          \* each slave's place, its request, and what
          op,               \*   it does to the fids
          reqs,             \* how many requests have come
          replies,          \* history: how often each has been answered
          lost,             \* history: requests queued behind a stale tail
          cut,              \* history: those whose reply was interrupted
          flushes, panicked

qvars   == <<qowner, qqueue>>
exqvars == <<queue, tail, rwait, qvars>>
fsvars  == <<work, shut, ref, fid>>
evars   == <<epc, flushing, victim>>
slvars  == <<pc, job, op>>
hist    == <<reqs, replies, lost, cut, flushes, panicked>>
vars    == <<exqvars, fsvars, evars, slvars, hist>>

Qwait == INSTANCE FifoMutex WITH owner <- qowner, queue <- qqueue,
                                 Procs <- Slaves, NoProc <- None

\* A slave's place.
Unborn == "unborn"
Qlock  == "qlock"     \* about to qlock(&exq.qwait)
InLine == "inline"   \* in qlock, or back from it
Asleep == "asleep"    \* in Sleep(&exq.rwait), or back from it
Link   == "link"      \* has a request, not yet on fs->work
Op     == "op"        \* in the file operation
Clunk  == "clunk"     \* Exclunk: attached cleared, before Exputfid
Reply  == "reply"     \* about to write the reply
\* exportproc's place.
Read    == "read"
Spawn   == "spawn"
Wake    == "wake"
FlushAnswer == "flushanswer"
FlushWork   == "flushwork"
FlushIntr   == "flushintr"
Shut        == "shut"
ShutIntr    == "shutintr"
Gone        == "gone"

NoFid   == [there |-> FALSE, attached |-> FALSE, ref |-> 0]
NewFid  == [there |-> TRUE, attached |-> TRUE, ref |-> 1]
RootFid == [there |-> TRUE, attached |-> TRUE, ref |-> 0]

Init ==
    /\ queue = <<>> /\ tail = None /\ rwait = None /\ Qwait!MutexInit
    /\ work = {} /\ shut = {} /\ ref = 1 /\ fid = <<RootFid, NoFid>>
    /\ epc = Read /\ flushing = None /\ victim = None
    /\ pc = [s \in Slaves |-> Unborn] /\ job = [s \in Slaves |-> None]
    /\ op = [s \in Slaves |-> "none"]
    /\ reqs = 0 /\ replies = [k \in Reqs |-> 0] /\ lost = {} /\ cut = {}
    /\ flushes = 0 /\ panicked = FALSE

Goto(s, l) == pc' = [pc EXCEPT ![s] = l]
At(s, from, to) == pc[s] = from /\ Goto(s, to)
EAt(from, to) == epc = from /\ epc' = to

\* decref; the last one closes the channels of all fids.
Exfree(n) ==
    /\ ref' = ref - n
    /\ fid' = IF ref' = 0 THEN <<NoFid, NoFid>> ELSE fid

----------------------------------------------------------------------------
(* exportproc.                                                             *)

\* A new request goes behind exq.tail, wherever that points.
Accept ==
    /\ EAt(Read, Spawn)
    /\ reqs < MaxReqs
    /\ reqs' = reqs + 1
    /\ ref' = ref + 1
    /\ LET k == reqs' IN
         /\ tail' = k
         /\ IF queue = <<>> \/ tail \in ToSet(queue)
              THEN queue' = Append(queue, k) /\ UNCHANGED lost
              ELSE lost' = lost \cup {k} /\ UNCHANGED queue
    /\ UNCHANGED <<rwait, qvars, work, shut, fid, flushing, victim, slvars,
                   replies, cut, flushes, panicked>>

SpawnSlave ==
    /\ EAt(Spawn, Wake)
    /\ IF qqueue = <<>>
         THEN \E s \in Slaves :
                /\ pc[s] = Unborn /\ \A o \in 1 .. s - 1 : pc[o] # Unborn
                /\ Goto(s, Qlock)
         ELSE UNCHANGED pc
    /\ UNCHANGED <<exqvars, fsvars, flushing, victim, job, op, hist>>

WakeSlave ==
    /\ EAt(Wake, Read)
    /\ rwait' = None
    /\ UNCHANGED <<queue, tail, qvars, fsvars, flushing, victim, slvars,
                   hist>>

\* Faulty: the request stays on the queue.
ExflushQueueKeeps ==
    /\ epc = Read /\ flushes < MaxFlushes
    /\ flushes' = flushes + 1
    /\ \E k \in 1 .. reqs :
         /\ flushing' = k
         /\ epc' = IF k \in ToSet(queue) THEN FlushAnswer ELSE FlushWork
    /\ UNCHANGED <<exqvars, fsvars, victim, slvars, reqs, replies, lost, cut,
                   panicked>>

\* A Tflush: exflush looks in the queue, and leaves exq.tail alone.
ExflushQueue ==
    /\ epc = Read /\ flushes < MaxFlushes
    /\ flushes' = flushes + 1
    /\ \E k \in 1 .. reqs :
         /\ flushing' = k
         /\ queue' = RemoveFirst(queue, k)
         /\ epc' = IF k \in ToSet(queue) THEN FlushAnswer ELSE FlushWork
    /\ UNCHANGED <<tail, rwait, qvars, fsvars, victim, slvars, reqs, replies,
                   lost, cut, panicked>>

ExflushAnswer ==
    /\ EAt(FlushAnswer, Read)
    /\ replies' = [replies EXCEPT ![flushing] = @ + 1]
    /\ Exfree(1)
    /\ flushing' = None
    /\ UNCHANGED <<exqvars, work, shut, victim, slvars, reqs, lost, cut,
                   flushes, panicked>>

Serving(k) == CHOOSE s \in Slaves : job[s] = k

\* The code reads q->slave after it has unlocked, when the slave may have freed
\* q; here the victim is the slave that had it under the lock.
ExflushWork ==
    /\ epc = FlushWork
    /\ IF flushing \in work
         THEN epc' = FlushIntr /\ victim' = Serving(flushing)
         ELSE epc' = Read /\ UNCHANGED victim
    /\ flushing' = None
    /\ UNCHANGED <<exqvars, fsvars, slvars, hist>>

\* oshostintr(victim), wherever the slave has got to meanwhile.
Oshostintr(back) ==
    /\ epc' = back
    /\ victim' = None
    /\ \/ UNCHANGED <<cut, panicked>>
       \/ /\ pc[victim] = Reply
          /\ cut' = cut \cup {job[victim]}
          /\ UNCHANGED panicked
       \/ /\ \/ pc[victim] = Op
             \/ rwait = victim
             \/ victim \in Qwait!Waiting
          /\ panicked' = TRUE
          /\ UNCHANGED cut
    /\ UNCHANGED <<exqvars, fsvars, flushing, slvars, reqs, replies, lost,
                   flushes>>

\* Faulty: the requests are freed, but not taken off fs->r.
ExshutdownQueueKeeps ==
    /\ EAt(Read, Shut)
    /\ queue' = <<>>
    /\ UNCHANGED <<tail, rwait, qvars, fsvars, flushing, victim, slvars, hist>>

\* The connection ends: exshutdown, first the queue, then those in service.
ExshutdownQueue ==
    /\ EAt(Read, Shut)
    /\ queue' = <<>>
    /\ Exfree(Len(queue))
    /\ UNCHANGED <<tail, rwait, qvars, work, shut, flushing, victim, slvars,
                   hist>>

\* q->slave is read after the unlock here too.
ExshutdownWork ==
    /\ epc = Shut
    /\ \E k \in work \ shut :
         /\ shut' = shut \cup {k}
         /\ victim' = Serving(k)
    /\ epc' = ShutIntr
    /\ UNCHANGED <<exqvars, work, ref, fid, flushing, slvars, hist>>

ExportprocEnd ==
    /\ EAt(Shut, Gone)
    /\ work \subseteq shut
    /\ Exfree(1)
    /\ UNCHANGED <<exqvars, work, shut, flushing, victim, slvars, hist>>

----------------------------------------------------------------------------
(* exslave.                                                                *)

QlockQwait(s) ==
    /\ At(s, Qlock, InLine)
    /\ Qwait!Take(s) \/ Qwait!Enqueue(s)
    /\ UNCHANGED <<queue, tail, rwait, fsvars, evars, job, op, hist>>

exwork == queue # <<>>

\* Faulty: the slave sleeps without a test of the queue.
SleepRwaitUntested(s) ==
    /\ At(s, InLine, Asleep) /\ qowner = s
    /\ rwait' = s
    /\ UNCHANGED <<queue, tail, qvars, fsvars, evars, job, op, hist>>

SleepRwait(s) ==
    /\ At(s, InLine, Asleep) /\ qowner = s
    /\ rwait' = IF exwork THEN rwait ELSE s
    /\ UNCHANGED <<queue, tail, qvars, fsvars, evars, job, op, hist>>

\* With a request or without one, the slave calls qunlock(&exq.qwait).
TakeRequest(s) ==
    /\ pc[s] = Asleep /\ rwait # s
    /\ IF queue = <<>>
         THEN Goto(s, Qlock) /\ UNCHANGED <<queue, job>>
         ELSE /\ Goto(s, Link)
              /\ job' = [job EXCEPT ![s] = Head(queue)]
              /\ queue' = Tail(queue)
    /\ Qwait!PassOn \/ Qwait!Drop
    /\ UNCHANGED <<tail, rwait, fsvars, evars, op, hist>>

\* Faulty: a clunked fid is freed although others still use it.
PutInUse(g) == IF ~g.attached THEN NoFid ELSE [g EXCEPT !.ref = @ - 1]

\* Exputfid
Put(g) == IF g.ref = 1 /\ ~g.attached THEN NoFid ELSE [g EXCEPT !.ref = @ - 1]

\* The request goes on fs->work, and the operation begins: Exgetfid of fid 1
\* and, in Exclone, Exmkfid of fid 2.  It fails at once if there is no fid 1,
\* or a fid 2 already: that request is then not seen in fs->work, nor its
\* reference to fid 1, which it gives back at once.
BeginOp(s) ==
    /\ pc[s] = Link
    /\ \E t \in Kinds :
         IF ~fid[1].attached \/ (t = "clone" /\ fid[2].there)
           THEN Goto(s, Reply) /\ UNCHANGED <<work, op, fid>>
           ELSE /\ Goto(s, Op)
                /\ work' = work \cup {job[s]}
                /\ op' = [op EXCEPT ![s] = t]
                /\ fid' = <<[fid[1] EXCEPT !.ref = @ + 1],
                            IF t = "clone" THEN NewFid ELSE fid[2]>>
    /\ UNCHANGED <<exqvars, shut, ref, evars, job, hist>>

\* The slave has put back the fids it used; the request leaves fs->work.
Ended(s) ==
    /\ op' = [op EXCEPT ![s] = "none"]
    /\ work' = work \ {job[s]}

\* A clone that has failed leaves fid 2 attached too.
EndOp(s) ==
    /\ At(s, Op, Reply) /\ op[s] # "clunk"
    /\ fid' = <<Put(fid[1]), IF op[s] = "clone" THEN Put(fid[2]) ELSE fid[2]>>
    /\ Ended(s)
    /\ UNCHANGED <<exqvars, shut, ref, evars, job, hist>>

Exclunk(s) ==
    /\ At(s, Op, Clunk) /\ op[s] = "clunk"
    /\ fid' = <<[fid[1] EXCEPT !.attached = FALSE], fid[2]>>
    /\ UNCHANGED <<exqvars, work, shut, ref, evars, job, op, hist>>

EndClunk(s) ==
    /\ At(s, Clunk, Reply)
    /\ fid' = <<Put(fid[1]), fid[2]>>
    /\ Ended(s)
    /\ UNCHANGED <<exqvars, shut, ref, evars, job, hist>>

\* The reply, unless it has been cut short, then exfree and free.
WriteReply(s) ==
    /\ At(s, Reply, Qlock)
    /\ replies' = [replies EXCEPT ![job[s]] =
                     IF job[s] \in cut THEN @ ELSE @ + 1]
    /\ job' = [job EXCEPT ![s] = None]
    /\ Exfree(1)
    /\ UNCHANGED <<exqvars, work, shut, evars, op, reqs, lost, cut, flushes,
                   panicked>>

----------------------------------------------------------------------------
\* What exportproc does after it has read a message.
Exportproc ==
    \/ SpawnSlave \/ WakeSlave
    \/ ExflushAnswer \/ ExflushWork
    \/ epc = FlushIntr /\ Oshostintr(Read)
    \/ ExshutdownWork \/ ExportprocEnd
    \/ epc = ShutIntr /\ Oshostintr(Shut)

Exslave(s) ==
    \/ QlockQwait(s) \/ SleepRwait(s) \/ TakeRequest(s)
    \/ BeginOp(s) \/ EndOp(s) \/ Exclunk(s) \/ EndClunk(s)
    \/ WriteReply(s)

Next ==
    /\ ~panicked
    /\ \/ Accept \/ ExflushQueue \/ ExshutdownQueue
       \/ Exportproc
       \/ \E s \in Slaves : Exslave(s)

Spec == Init /\ [][Next]_vars

\* exportproc and the slaves go on, and file operations end.
FairSpec ==
    /\ Spec
    /\ WF_vars(~panicked /\ Exportproc)
    /\ \A s \in Slaves : WF_vars(~panicked /\ Exslave(s))

----------------------------------------------------------------------------
(* Properties.                                                             *)

\* The variables have their types; a request and a slave belong to each other.
TypeOK ==
    /\ queue \in Seq(Reqs) /\ tail \in Reqs \cup {None}
    /\ rwait \in Slaves \cup {None}
    /\ qowner \in Slaves \cup {None} /\ qqueue \in Seq(Slaves)
    /\ shut \subseteq Reqs /\ work \subseteq {job[s] : s \in Slaves}
    /\ ref \in 0 .. MaxReqs + 1
    /\ \A f \in {1, 2} : fid[f] \in [there : BOOLEAN, attached : BOOLEAN,
                                    ref : 0 .. MaxReqs]
    /\ epc \in {Read, Spawn, Wake, FlushAnswer, FlushWork, FlushIntr, Shut,
               ShutIntr, Gone}
    /\ flushing \in Reqs \cup {None} /\ victim \in Slaves \cup {None}
    /\ pc \in [Slaves -> {Unborn, Qlock, InLine, Asleep, Link, Op, Clunk,
                          Reply}]
    /\ job \in [Slaves -> Reqs \cup {None}]
    /\ op \in [Slaves -> Kinds \cup {"none"}]
    /\ \A s \in Slaves :
         (job[s] # None) = (pc[s] \in {Link, Op, Clunk, Reply})
    /\ reqs \in 0 .. MaxReqs /\ lost \cup cut \subseteq 1 .. reqs
    /\ replies \in [Reqs -> Nat]
    /\ flushes \in 0 .. MaxFlushes /\ panicked \in BOOLEAN

\* No request is answered twice: by exflush and by a slave, or by two slaves.
AnsweredOnce == \A k \in Reqs : replies[k] <= 1

\* fs->r counts exportproc and the requests that are not freed yet, so that
\* nobody works on an Export that has been freed.  A request behind a stale
\* tail is never freed.
Unfreed ==
    {k \in Reqs : \/ k \in ToSet(queue) \cup lost
                  \/ k = flushing /\ epc = FlushAnswer
                  \/ \E s \in Slaves : job[s] = k}

ExportCounted == ref = Cardinality(Unfreed) + (IF epc = Gone THEN 0 ELSE 1)

\* A fid counts the slaves that use it, and is freed, its channel closed,
\* when it has been clunked and the last of them has put it back.
Using(K) == {s \in Slaves : pc[s] \in {Op, Clunk} /\ op[s] \in K}

FidCounted ==
    ref > 0 =>
        /\ fid[1].ref = Cardinality(Using(Kinds))
        /\ fid[2].ref = Cardinality(Using({"clone"}))
        /\ \A f \in {1, 2} : fid[f].there = (fid[f].attached \/ fid[f].ref > 0)

\* Every request of a connection that lasts is answered, by a slave or by
\* exflush, unless it was queued behind a stale tail or an interrupt cut the
\* reply short.
RequestsAnswered ==
    <>[](\/ panicked \/ epc = Gone
         \/ \A k \in 1 .. reqs : replies[k] = 1 \/ k \in lost \cup cut)
=============================================================================
