---------------------------- MODULE ExportProofs ----------------------------
(***************************************************************************)
(* Proofs about Export, for any number of requests and flushes: a request  *)
(* is in one place at a time, so that it is answered once at most; the     *)
(* references of the Export are the requests that are not freed, and those *)
(* of a fid the slaves that use it.                                        *)
(***************************************************************************)
EXTENDS Export, QueueFacts, FiniteSetTheorems

SlavePCs == {Unborn, Qlock, InLine, Asleep, Link, Op, Clunk, Reply}
ServePCs == {Link, Op, Clunk, Reply}
ExportPCs == {Read, Spawn, Wake, FlushAnswer, FlushWork, FlushIntr, Shut,
              ShutIntr, Gone}

\* The types, but for the bounds that follow from what is counted.
ExqTypes ==
    /\ queue \in Seq(Reqs) /\ tail \in Reqs \cup {None}
    /\ rwait \in Slaves \cup {None}
    /\ qowner \in Slaves \cup {None} /\ qqueue \in Seq(Slaves)

ProcTypes ==
    /\ epc \in ExportPCs
    /\ flushing \in Reqs \cup {None} /\ victim \in Slaves \cup {None}
    /\ epc \in {FlushAnswer, FlushWork} => flushing \in 1 .. reqs
    /\ epc \in {FlushIntr, ShutIntr} => victim \in Slaves

SlaveTypes ==
    /\ pc \in [Slaves -> SlavePCs]
    /\ job \in [Slaves -> Reqs \cup {None}]
    /\ op \in [Slaves -> Kinds \cup {"none"}]
    /\ \A s \in Slaves : (job[s] # None) <=> (pc[s] \in ServePCs)

HistTypes ==
    /\ reqs \in 0 .. MaxReqs /\ lost \cup cut \subseteq 1 .. reqs
    /\ replies \in [Reqs -> Nat] /\ shut \subseteq Reqs
    /\ flushes \in 0 .. MaxFlushes /\ panicked \in BOOLEAN

Types == ExqTypes /\ ProcTypes /\ SlaveTypes /\ HistTypes

\* Who has a request that is not freed: the queue, a slave, exflush, or, when
\* it has been lost, nobody.  No two of them have the same.
OnePlace ==
    /\ IsInjective(queue)
    /\ ToSet(queue) \subseteq 1 .. reqs
    /\ ToSet(queue) \cap lost = {}
    /\ \A s \in Slaves : job[s] # None =>
          job[s] \in (1 .. reqs) \ (ToSet(queue) \cup lost)
    /\ \A s, o \in Slaves : job[s] = job[o] /\ job[s] # None => s = o
    /\ epc = FlushAnswer =>
          /\ flushing \notin ToSet(queue) \cup lost
          /\ \A s \in Slaves : job[s] # flushing

\* A request is answered when it is freed.
AnsweredWhenFreed ==
    \A k \in Reqs : /\ replies[k] \in {0, 1}
                    /\ k \in Unfreed \/ k > reqs => replies[k] = 0

\* A request is on fs->work while its slave does the file operation.
WorkServed ==
    \A k \in work : \E s \in Slaves : job[s] = k /\ pc[s] \in {Op, Clunk}

OpsRight ==
    \A s \in Slaves : /\ pc[s] \in {Op, Clunk} <=> op[s] \in Kinds
                      /\ pc[s] = Clunk => op[s] = "clunk"

\* A fid that n slaves use.
FidOK(g, n) ==
    /\ g \in [there : BOOLEAN, attached : BOOLEAN, ref : Nat]
    /\ g.ref = n
    /\ g.there = (g.attached \/ g.ref > 0)

FidsOK ==
    /\ FidOK(fid[1], Cardinality(Using(Kinds)))
    /\ FidOK(fid[2], Cardinality(Using({"clone"})))

IInv ==
    /\ Types /\ OnePlace /\ AnsweredWhenFreed /\ WorkServed /\ OpsRight
    /\ ExportCounted /\ FidsOK

USE DEF Unborn, Qlock, InLine, Asleep, Link, Op, Clunk, Reply, Read, Spawn,
        Wake, FlushAnswer, FlushWork, FlushIntr, Shut, ShutIntr, Gone

LEMMA Basics ==
  /\ None \notin Reqs /\ None \notin Slaves
  /\ IsFiniteSet(Reqs) /\ Cardinality(Reqs) = MaxReqs
  /\ IsFiniteSet(Slaves) /\ Cardinality(Slaves) = MaxReqs
  /\ MaxReqs \in Nat /\ MaxFlushes \in Nat
<1>1. MaxReqs \in Nat /\ MaxFlushes \in Nat
  BY ExportAssumption
<1>2. IsFiniteSet(1 .. MaxReqs) /\ Cardinality(1 .. MaxReqs) = MaxReqs
  BY <1>1, FS_Interval
<1> QED
  BY <1>1, <1>2 DEF Reqs, Slaves, None

\* Requests have numbers that are Reqs.
LEMMA Numbers == Types => (1 .. reqs) \subseteq Reqs /\ reqs \in Nat
  BY Basics DEF Types, HistTypes, Reqs

LEMMA UnfreedFinite == IsFiniteSet(Unfreed) /\ Cardinality(Unfreed) \in Nat
<1>1. Unfreed \in SUBSET Reqs
  BY DEF Unfreed
<1> QED
  BY <1>1, Basics, FS_Subset, FS_CardinalityType

LEMMA UnfreedFiniteNext ==
  IsFiniteSet(Unfreed') /\ Cardinality(Unfreed') \in Nat
<1>1. Unfreed' \in SUBSET Reqs
  BY DEF Unfreed
<1> QED
  BY <1>1, Basics, FS_Subset, FS_CardinalityType

LEMMA UsingFinite ==
  ASSUME NEW K PROVE IsFiniteSet(Using(K)) /\ Cardinality(Using(K)) \in Nat
<1>1. Using(K) \in SUBSET Slaves
  BY DEF Using
<1> QED
  BY <1>1, Basics, FS_Subset, FS_CardinalityType

\* A fid when nobody uses it, and what a use and the end of a use do to it.
LEMMA NewFidsOK == FidOK(NoFid, 0) /\ FidOK(RootFid, 0) /\ FidOK(NewFid, 1)
<1>1. /\ NoFid \in [there : BOOLEAN, attached : BOOLEAN, ref : Nat]
      /\ NoFid.ref = 0 /\ NoFid.there = FALSE /\ NoFid.attached = FALSE
  BY DEF NoFid
<1>2. /\ RootFid \in [there : BOOLEAN, attached : BOOLEAN, ref : Nat]
      /\ RootFid.ref = 0 /\ RootFid.there = TRUE /\ RootFid.attached = TRUE
  BY DEF RootFid
<1>3. /\ NewFid \in [there : BOOLEAN, attached : BOOLEAN, ref : Nat]
      /\ NewFid.ref = 1 /\ NewFid.there = TRUE /\ NewFid.attached = TRUE
  BY DEF NewFid
<1>4. FidOK(NoFid, 0)
  BY <1>1 DEF FidOK
<1>5. FidOK(RootFid, 0)
  BY <1>2 DEF FidOK
<1>6. FidOK(NewFid, 1)
  BY <1>3 DEF FidOK
<1> QED
  BY <1>4, <1>5, <1>6

LEMMA UseOK ==
  ASSUME NEW g, NEW n \in Nat, FidOK(g, n), g.there
  PROVE  FidOK([g EXCEPT !.ref = @ + 1], n + 1)
  BY DEF FidOK

LEMMA PutOK ==
  ASSUME NEW g, NEW n \in Nat \ {0}, FidOK(g, n)
  PROVE  FidOK(Put(g), n - 1)
<1>1. CASE g.ref = 1 /\ ~g.attached
  BY <1>1, NewFidsOK DEF FidOK, Put
<1>2. CASE ~(g.ref = 1 /\ ~g.attached)
  <2>1. Put(g) = [g EXCEPT !.ref = @ - 1]
    BY <1>2 DEF Put
  <2> QED
    BY <1>2, <2>1 DEF FidOK
<1> QED
  BY <1>1, <1>2

LEMMA DetachOK ==
  ASSUME NEW g, NEW n \in Nat \ {0}, FidOK(g, n)
  PROVE  FidOK([g EXCEPT !.attached = FALSE], n)
<1> DEFINE h == [g EXCEPT !.attached = FALSE]
<1>1. /\ h \in [there : BOOLEAN, attached : BOOLEAN, ref : Nat]
      /\ h.ref = g.ref /\ h.there = g.there /\ h.attached = FALSE
  BY DEF FidOK
<1>2. g.there = TRUE
  BY DEF FidOK
<1> QED
  BY <1>1, <1>2 DEF FidOK

\* IInv holds when the connection has been made.
LEMMA InitIInv == Init => IInv
<1> SUFFICES ASSUME Init PROVE IInv
  OBVIOUS
<1> USE DEF Init
<1>1. /\ queue = <<>> /\ <<>> \in Seq(Reqs) /\ ToSet(queue) = {}
      /\ IsInjective(queue) /\ <<>> \in Seq(Slaves)
  BY EmptySet
<1>2. Types
  <2>1. ExqTypes
    BY <1>1 DEF ExqTypes, Qwait!MutexInit
  <2>2. ProcTypes
    BY DEF ProcTypes, ExportPCs
  <2>3. SlaveTypes
    BY DEF SlaveTypes, SlavePCs, ServePCs
  <2>4. HistTypes
    <3>1. replies \in [Reqs -> Nat] /\ shut \subseteq Reqs
      OBVIOUS
    <3>2. reqs \in 0 .. MaxReqs /\ flushes \in 0 .. MaxFlushes
      BY Basics
    <3>3. lost \cup cut \subseteq 1 .. reqs /\ panicked \in BOOLEAN
      OBVIOUS
    <3> QED
      BY <3>1, <3>2, <3>3 DEF HistTypes
  <2> QED
    BY <2>1, <2>2, <2>3, <2>4 DEF Types
<1>3. OnePlace
  BY <1>1 DEF OnePlace
<1>4. Unfreed = {}
  BY <1>1, Basics DEF Unfreed
<1>5. AnsweredWhenFreed
  BY <1>4 DEF AnsweredWhenFreed
<1>6. WorkServed /\ OpsRight
  BY DEF WorkServed, OpsRight, Kinds
<1>7. ExportCounted
  BY <1>4, FS_EmptySet DEF ExportCounted
<1>8. FidsOK
  <2>1. Using(Kinds) = {} /\ Using({"clone"}) = {}
    BY DEF Using
  <2>2. fid[1] = RootFid /\ fid[2] = NoFid
    OBVIOUS
  <2> QED
    BY <2>1, <2>2, FS_EmptySet, NewFidsOK DEF FidsOK
<1> QED
  BY <1>2, <1>3, <1>5, <1>6, <1>7, <1>8 DEF IInv

----------------------------------------------------------------------------
(* What several steps have in common. *)

\* A slave goes to l.
LEMMA GotoFacts ==
  ASSUME SlaveTypes, NEW s \in Slaves, NEW l, Goto(s, l)
  PROVE  /\ pc'[s] = l /\ \A o \in Slaves : o # s => pc'[o] = pc[o]
         /\ l \in SlavePCs => pc' \in [Slaves -> SlavePCs]
  BY DEF SlaveTypes, Goto

\* Steps that move no request from where it is.
LEMMA PlacesKept ==
  ASSUME OnePlace, AnsweredWhenFreed, ExportCounted,
         UNCHANGED <<queue, lost, job, reqs, replies, ref>>,
         epc' = epc \/ {epc, epc'} \cap {FlushAnswer, Gone} = {},
         epc = FlushAnswer => flushing' = flushing
  PROVE  OnePlace' /\ AnsweredWhenFreed' /\ ExportCounted'
<1>1. OnePlace'
  BY DEF OnePlace
<1>2. Unfreed' = Unfreed
  BY DEF Unfreed
<1>3. AnsweredWhenFreed'
  BY <1>2 DEF AnsweredWhenFreed
<1>4. ExportCounted'
  BY <1>2 DEF ExportCounted
<1> QED
  BY <1>1, <1>3, <1>4

\* Steps that neither begin nor end an operation.
LEMMA OpsKept ==
  ASSUME WorkServed, OpsRight, UNCHANGED <<work, op>>,
         \A s \in Slaves : pc[s] \in {Op, Clunk} \/ pc'[s] \in {Op, Clunk} =>
            pc'[s] = pc[s] /\ job'[s] = job[s]
  PROVE  WorkServed' /\ OpsRight' /\ \A K : Using(K)' = Using(K)
<1>1. WorkServed'
  BY DEF WorkServed
<1>2. OpsRight'
  BY DEF OpsRight
<1>3. ASSUME NEW K PROVE Using(K)' = Using(K)
  BY DEF Using
<1> QED
  BY <1>1, <1>2, <1>3

LEMMA FidsKept ==
  ASSUME FidsOK, UNCHANGED fid, \A K : Using(K)' = Using(K)
  PROVE  FidsOK'
  BY DEF FidsOK

\* exfree, of a request or of exportproc's own reference.
LEMMA ExfreeFids ==
  ASSUME FidsOK, SlaveTypes', ExportCounted', NEW n, Exfree(n),
         \A K : Using(K)' = Using(K)
  PROVE  FidsOK'
<1>1. CASE ref' # 0
  BY <1>1, FidsKept DEF Exfree
<1>2. CASE ref' = 0
  <2>1. Unfreed' = {}
    BY <1>2, UnfreedFiniteNext, FS_EmptySet DEF ExportCounted
  <2>2. ASSUME NEW s \in Slaves, pc'[s] \in {Op, Clunk} PROVE FALSE
    <3>1. job'[s] \in Reqs
      BY <2>2 DEF SlaveTypes, ServePCs
    <3> QED
      BY <2>1, <3>1 DEF Unfreed
  <2>3. \A K : Using(K)' = {}
    BY <2>2 DEF Using
  <2>4. fid' = <<NoFid, NoFid>>
    BY <1>2 DEF Exfree
  <2>5. fid'[1] = NoFid /\ fid'[2] = NoFid
    BY <2>4
  <2> QED
    BY <2>3, <2>5, FS_EmptySet, NewFidsOK DEF FidsOK
<1> QED
  BY <1>1, <1>2

\* The request k is freed, and answered unless the reply was cut short.
LEMMA FreedOne ==
  ASSUME AnsweredWhenFreed, ExportCounted, HistTypes, NEW k \in Unfreed,
         Unfreed' = Unfreed \ {k}, ref' = ref - 1, reqs' = reqs,
         k \in 1 .. reqs, (epc = Gone) <=> (epc' = Gone),
         \/ replies' = replies
         \/ replies' = [replies EXCEPT ![k] = @ + 1]
  PROVE  AnsweredWhenFreed' /\ ExportCounted' /\ replies' \in [Reqs -> Nat]
<1>1. k \in Reqs /\ replies[k] = 0
  BY DEF AnsweredWhenFreed, Unfreed
<1>2. replies' \in [Reqs -> Nat]
  BY <1>1 DEF HistTypes
<1>3. AnsweredWhenFreed'
  BY <1>1 DEF AnsweredWhenFreed, HistTypes
<1>4. Cardinality(Unfreed') = Cardinality(Unfreed) - 1
  BY UnfreedFinite, FS_RemoveElement
<1>5. ExportCounted'
  BY <1>4, UnfreedFinite DEF ExportCounted
<1> QED
  BY <1>2, <1>3, <1>5

\* Steps that move no request and begin or end no operation.
LEMMA QuietKept ==
  ASSUME IInv, Types',
         UNCHANGED <<queue, lost, job, reqs, replies, ref, work, op, fid>>,
         epc' = epc \/ {epc, epc'} \cap {FlushAnswer, Gone} = {},
         epc = FlushAnswer => flushing' = flushing,
         \A s \in Slaves : pc[s] \in {Op, Clunk} \/ pc'[s] \in {Op, Clunk} =>
            pc'[s] = pc[s]
  PROVE  IInv'
<1>1. OnePlace' /\ AnsweredWhenFreed' /\ ExportCounted'
  BY PlacesKept DEF IInv
<1>2. WorkServed' /\ OpsRight' /\ \A K : Using(K)' = Using(K)
  BY OpsKept DEF IInv
<1>3. FidsOK'
  BY <1>2, FidsKept DEF IInv
<1> QED
  BY <1>1, <1>2, <1>3 DEF IInv

\* Who serves a request that is on fs->work.
LEMMA ServingFacts ==
  ASSUME WorkServed, SlaveTypes, NEW k \in work
  PROVE  Serving(k) \in Slaves /\ job[Serving(k)] = k /\ k \in Reqs
<1>1. PICK s \in Slaves : job[s] = k /\ pc[s] \in {Op, Clunk}
  BY DEF WorkServed
<1>2. Serving(k) \in Slaves /\ job[Serving(k)] = k
  BY <1>1 DEF Serving
<1> QED
  BY <1>1, <1>2 DEF SlaveTypes, ServePCs

----------------------------------------------------------------------------
(* Every step of exportproc keeps IInv. *)

LEMMA SpawnSlaveStep ==
  ASSUME IInv, SpawnSlave
  PROVE  IInv'
<1>1. ExqTypes' /\ HistTypes' /\ ProcTypes'
  BY DEF IInv, Types, ExqTypes, HistTypes, ProcTypes, SpawnSlave, EAt,
         exqvars,
     qvars, fsvars, hist, ExportPCs
<1>2. CASE qqueue = <<>>
  <2>1. PICK s \in Slaves : pc[s] = Unborn /\ Goto(s, Qlock)
    BY <1>2 DEF SpawnSlave
  <2>2. /\ pc' \in [Slaves -> SlavePCs] /\ pc'[s] = Qlock
        /\ \A o \in Slaves : o # s => pc'[o] = pc[o]
    BY <2>1, GotoFacts DEF SlavePCs, IInv, Types
  <2>3. job' = job /\ op' = op
    BY DEF SpawnSlave
  <2>4. SlaveTypes'
    BY <2>1, <2>2, <2>3 DEF SlaveTypes, IInv, Types, ServePCs
  <2>5. \A o \in Slaves : pc[o] \in {Op, Clunk} \/ pc'[o] \in {Op, Clunk} =>
           pc'[o] = pc[o]
    BY <2>1, <2>2
  <2> QED
    BY <1>1, <2>4, <2>5, QuietKept
    DEF Types, SpawnSlave, EAt, exqvars, fsvars, hist
<1>3. CASE qqueue # <<>>
  <2>1. pc' = pc
    BY <1>3 DEF SpawnSlave
  <2>2. SlaveTypes'
    BY <2>1 DEF SpawnSlave, SlaveTypes, IInv, Types
  <2> QED
    BY <1>1, <2>1, <2>2, QuietKept
    DEF Types, SpawnSlave, EAt, exqvars, fsvars, hist
<1> QED
  BY <1>2, <1>3

LEMMA WakeSlaveStep ==
  ASSUME IInv, WakeSlave
  PROVE  IInv'
<1>1. ExqTypes' /\ HistTypes' /\ ProcTypes' /\ SlaveTypes'
  BY DEF IInv, Types, ExqTypes, HistTypes, ProcTypes, SlaveTypes, WakeSlave,
     EAt, qvars, fsvars, hist, slvars, ExportPCs
<1> QED
  BY <1>1, QuietKept DEF Types, WakeSlave, EAt, fsvars, hist, slvars

LEMMA ExflushWorkStep ==
  ASSUME IInv, ExflushWork
  PROVE  IInv'
<1>1. ExqTypes' /\ HistTypes' /\ SlaveTypes'
  BY DEF IInv, Types, ExqTypes, HistTypes, SlaveTypes, ExflushWork, exqvars,
     qvars, fsvars, hist, slvars
<1>2. epc = FlushWork /\ flushing' = None /\ epc' \in {FlushIntr, Read}
  BY DEF ExflushWork
<1>3. ProcTypes'
  <2>1. CASE flushing \in work
    BY <1>2, <2>1, ServingFacts
    DEF ExflushWork, ProcTypes, IInv, Types, ExportPCs
  <2>2. CASE flushing \notin work
    BY <1>2, <2>2 DEF ExflushWork, ProcTypes, IInv, Types, ExportPCs
  <2> QED
    BY <2>1, <2>2
<1> QED
  BY <1>1, <1>2, <1>3, QuietKept DEF Types, ExflushWork, exqvars, fsvars,
     hist, slvars

LEMMA OshostintrStep ==
  ASSUME IInv, NEW back \in {Read, Shut}, epc \in {FlushIntr, ShutIntr},
         Oshostintr(back)
  PROVE  IInv'
<1>1. ExqTypes' /\ SlaveTypes' /\ ProcTypes'
  BY DEF IInv, Types, ExqTypes, SlaveTypes, ProcTypes, Oshostintr, exqvars,
     qvars, slvars, ExportPCs
<1>2. cut' \subseteq 1 .. reqs /\ panicked' \in BOOLEAN
  <2>1. victim \in Slaves
    BY DEF IInv, Types, ProcTypes
  <2>2. pc[victim] = Reply => job[victim] \in 1 .. reqs
    BY <2>1 DEF IInv, Types, SlaveTypes, OnePlace, ServePCs
  <2> QED
    BY <2>2 DEF Oshostintr, IInv, Types, HistTypes
<1>3. HistTypes'
  BY <1>2 DEF Oshostintr, IInv, Types, HistTypes, fsvars
<1> QED
  BY <1>1, <1>3, QuietKept DEF Types, Oshostintr, exqvars, fsvars, slvars

LEMMA ExshutdownWorkStep ==
  ASSUME IInv, ExshutdownWork
  PROVE  IInv'
<1>1. PICK k \in work \ shut : shut' = shut \cup {k} /\ victim' = Serving(k)
  BY DEF ExshutdownWork
<1>2. k \in Reqs /\ victim' \in Slaves
  BY <1>1, ServingFacts DEF IInv, Types
<1>3. ExqTypes' /\ SlaveTypes' /\ HistTypes' /\ ProcTypes'
  BY <1>1, <1>2 DEF IInv, Types, ExqTypes, SlaveTypes, HistTypes, ProcTypes,
     ExshutdownWork, exqvars, qvars, slvars, hist, ExportPCs
<1> QED
  BY <1>3, QuietKept DEF Types, ExshutdownWork, exqvars, slvars, hist

(* The slaves, as far as the sleep. *)

LEMMA QlockQwaitStep ==
  ASSUME IInv, NEW s \in Slaves, QlockQwait(s)
  PROVE  IInv'
<1>1. pc[s] = Qlock /\ Goto(s, InLine)
  BY DEF QlockQwait, At
<1>2. /\ pc' \in [Slaves -> SlavePCs] /\ pc'[s] = InLine
      /\ \A o \in Slaves : o # s => pc'[o] = pc[o]
  BY <1>1, GotoFacts DEF SlavePCs, IInv, Types
<1>3. SlaveTypes'
  BY <1>1, <1>2 DEF QlockQwait, SlaveTypes, IInv, Types, ServePCs
<1>4. ExqTypes'
  <2>1. qowner' \in Slaves \cup {None}
    BY DEF QlockQwait, Qwait!Take, Qwait!Enqueue, IInv, Types, ExqTypes
  <2>2. qqueue' \in Seq(Slaves)
    BY AppendFacts DEF QlockQwait, Qwait!Take, Qwait!Enqueue, IInv, Types,
       ExqTypes
  <2> QED
    BY <2>1, <2>2 DEF QlockQwait, IInv, Types, ExqTypes
<1>5. HistTypes' /\ ProcTypes'
  BY DEF QlockQwait, IInv, Types, HistTypes, ProcTypes, fsvars, hist, evars
<1> QED
  BY <1>1, <1>2, <1>3, <1>4, <1>5, QuietKept DEF Types, QlockQwait, fsvars,
     hist, evars

LEMMA SleepRwaitStep ==
  ASSUME IInv, NEW s \in Slaves, SleepRwait(s)
  PROVE  IInv'
<1>1. pc[s] = InLine /\ Goto(s, Asleep)
  BY DEF SleepRwait, At
<1>2. /\ pc' \in [Slaves -> SlavePCs] /\ pc'[s] = Asleep
      /\ \A o \in Slaves : o # s => pc'[o] = pc[o]
  BY <1>1, GotoFacts DEF SlavePCs, IInv, Types
<1>3. SlaveTypes'
  BY <1>1, <1>2 DEF SleepRwait, SlaveTypes, IInv, Types, ServePCs
<1>4. ExqTypes'
  BY DEF SleepRwait, IInv, Types, ExqTypes, qvars
<1>5. HistTypes' /\ ProcTypes'
  BY DEF SleepRwait, IInv, Types, HistTypes, ProcTypes, fsvars, hist, evars
<1> QED
  BY <1>1, <1>2, <1>3, <1>4, <1>5, QuietKept DEF Types, SleepRwait, fsvars,
     hist, evars

----------------------------------------------------------------------------
(* The steps of exportproc that bring requests and free them. *)

LEMMA UnfreedNumbers == Types /\ OnePlace => Unfreed \subseteq 1 .. reqs
<1> SUFFICES ASSUME Types, OnePlace, NEW k \in Unfreed PROVE k \in 1 .. reqs
  OBVIOUS
<1>1. k \in Reqs /\ None \notin Reqs
  BY Basics DEF Unfreed
<1>2. CASE k \in ToSet(queue) \cup lost
  BY <1>2 DEF OnePlace, Types, HistTypes
<1>3. CASE k = flushing /\ epc = FlushAnswer
  BY <1>3 DEF Types, ProcTypes
<1>4. CASE \E s \in Slaves : job[s] = k
  BY <1>1, <1>4 DEF OnePlace
<1> QED
  BY <1>2, <1>3, <1>4 DEF Unfreed

LEMMA AcceptStep ==
  ASSUME IInv, Accept
  PROVE  IInv'
<1> DEFINE k == reqs + 1
<1>1. /\ epc = Read /\ epc' = Spawn /\ flushing' = flushing
      /\ victim' = victim /\ pc' = pc /\ job' = job /\ op' = op
      /\ rwait' = rwait /\ qowner' = qowner /\ qqueue' = qqueue
      /\ work' = work /\ shut' = shut /\ fid' = fid /\ ref' = ref + 1
      /\ replies' = replies /\ cut' = cut /\ flushes' = flushes
      /\ panicked' = panicked /\ reqs' = k /\ tail' = k
  BY DEF Accept, EAt, qvars, slvars
<1>2. /\ reqs \in Nat /\ reqs < MaxReqs /\ k \in Reqs /\ k \in 0 .. MaxReqs
      /\ k \notin 1 .. reqs /\ 1 .. k = (1 .. reqs) \cup {k}
  BY Basics DEF Accept, IInv, Types, HistTypes, Reqs
<1>3. \/ queue' = Append(queue, k) /\ lost' = lost
      \/ lost' = lost \cup {k} /\ queue' = queue
  BY <1>1 DEF Accept
<1>4. queue \in Seq(Reqs) /\ IsInjective(queue)
      /\ ToSet(queue) \subseteq 1 .. reqs
  BY DEF IInv, Types, ExqTypes, OnePlace
<1>5. /\ queue' \in Seq(Reqs) /\ IsInjective(queue')
      /\ \/ ToSet(queue') = ToSet(queue) \cup {k} /\ lost' = lost
         \/ ToSet(queue') = ToSet(queue) /\ lost' = lost \cup {k}
  <2>1. k \notin ToSet(queue)
    BY <1>2, <1>4
  <2>2. CASE queue' = Append(queue, k) /\ lost' = lost
    BY <1>2, <1>4, <2>1, <2>2, AppendSet
  <2>3. CASE lost' = lost \cup {k} /\ queue' = queue
    BY <1>4, <2>3
  <2> QED
    BY <1>3, <2>2, <2>3
<1> HIDE DEF k
<1>6. lost \subseteq 1 .. reqs /\ lost \cup cut \subseteq 1 .. reqs
  BY DEF IInv, Types, HistTypes
<1>7. Types'
  <2>1. ExqTypes' /\ ProcTypes' /\ SlaveTypes'
    BY <1>1, <1>2, <1>5
    DEF IInv, Types, ExqTypes, ProcTypes, SlaveTypes, ExportPCs
  <2>2. HistTypes'
    BY <1>1, <1>2, <1>5, <1>6 DEF IInv, Types, HistTypes
  <2> QED
    BY <2>1, <2>2 DEF Types
<1>8. OnePlace'
  <2>1. /\ ToSet(queue') \subseteq 1 .. reqs'
        /\ ToSet(queue') \cap lost' = {}
    BY <1>1, <1>2, <1>4, <1>5, <1>6 DEF IInv, OnePlace
  <2>2. ASSUME NEW s \in Slaves, job'[s] # None
        PROVE  job'[s] \in (1 .. reqs') \ (ToSet(queue') \cup lost')
    BY <1>1, <1>2, <1>5, <2>2 DEF IInv, OnePlace
  <2> QED
    BY <1>1, <1>5, <2>1, <2>2 DEF IInv, OnePlace
<1>9. Unfreed' = Unfreed \cup {k} /\ k \notin Unfreed
  <2>1. k \notin Unfreed
    BY <1>2, UnfreedNumbers DEF IInv
  <2>2. Unfreed' = Unfreed \cup {k}
    BY <1>1, <1>2, <1>5 DEF Unfreed
  <2> QED
    BY <2>1, <2>2
<1>10. AnsweredWhenFreed'
  BY <1>1, <1>2, <1>9 DEF IInv, AnsweredWhenFreed, Reqs
<1>11. ExportCounted'
  <2>1. Cardinality(Unfreed') = Cardinality(Unfreed) + 1
    BY <1>9, UnfreedFinite, FS_AddElement
  <2> QED
    BY <1>1, <2>1, UnfreedFinite DEF IInv, ExportCounted
<1>12. WorkServed' /\ OpsRight' /\ \A K : Using(K)' = Using(K)
  BY <1>1, OpsKept DEF IInv
<1>13. FidsOK'
  BY <1>1, <1>12, FidsKept DEF IInv
<1> QED
  BY <1>7, <1>8, <1>10, <1>11, <1>12, <1>13 DEF IInv

LEMMA ExflushQueueStep ==
  ASSUME IInv, ExflushQueue
  PROVE  IInv'
<1>1. PICK k \in 1 .. reqs :
         /\ flushing' = k
         /\ queue' = RemoveFirst(queue, k)
         /\ epc' = IF k \in ToSet(queue) THEN FlushAnswer ELSE FlushWork
  BY DEF ExflushQueue
<1>2. /\ epc = Read /\ flushes < MaxFlushes /\ flushes' = flushes + 1
      /\ victim' = victim /\ pc' = pc /\ job' = job /\ op' = op
      /\ rwait' = rwait /\ qowner' = qowner /\ qqueue' = qqueue
      /\ work' = work /\ shut' = shut /\ fid' = fid /\ ref' = ref
      /\ replies' = replies /\ cut' = cut /\ reqs' = reqs /\ lost' = lost
      /\ panicked' = panicked /\ tail' = tail
  BY DEF ExflushQueue, qvars, fsvars, slvars
<1>3. /\ queue \in Seq(Reqs) /\ IsInjective(queue)
      /\ k \in Reqs /\ None \notin Reqs
  BY Numbers, Basics DEF IInv, Types, ExqTypes, OnePlace
<1>4. /\ queue' \in Seq(Reqs) /\ IsInjective(queue')
      /\ ToSet(queue') = ToSet(queue) \ {k}
  BY <1>1, <1>3, RemoveSet
<1>5. \/ k \in ToSet(queue) /\ epc' = FlushAnswer
      \/ k \notin ToSet(queue) /\ epc' = FlushWork
  BY <1>1
<1>6. Types'
  <2>1. ExqTypes' /\ SlaveTypes'
    BY <1>2, <1>4 DEF IInv, Types, ExqTypes, SlaveTypes
  <2>2. ProcTypes'
    BY <1>1, <1>2, <1>3, <1>5 DEF IInv, Types, ProcTypes, ExportPCs
  <2>3. flushes' \in 0 .. MaxFlushes
    BY <1>2, Basics DEF IInv, Types, HistTypes
  <2>4. HistTypes'
    BY <1>2, <2>3 DEF IInv, Types, HistTypes
  <2> QED
    BY <2>1, <2>2, <2>4 DEF Types
<1>7. OnePlace'
  <2>1. /\ ToSet(queue') \subseteq 1 .. reqs'
        /\ ToSet(queue') \cap lost' = {}
        /\ \A s \in Slaves : job'[s] # None =>
              job'[s] \in (1 .. reqs') \ (ToSet(queue') \cup lost')
    BY <1>2, <1>4 DEF IInv, OnePlace
  <2>2. \A s, o \in Slaves : job'[s] = job'[o] /\ job'[s] # None => s = o
    BY <1>2 DEF IInv, OnePlace
  <2>3. ASSUME epc' = FlushAnswer
        PROVE  /\ flushing' \notin ToSet(queue') \cup lost'
               /\ \A s \in Slaves : job'[s] # flushing'
    <3>1. k \in ToSet(queue)
      BY <1>5, <2>3
    <3>2. k \notin lost /\ \A s \in Slaves : job[s] # k
      BY <1>3, <3>1 DEF IInv, OnePlace
    <3> QED
      BY <1>1, <1>2, <1>4, <3>2
  <2> QED
    BY <1>4, <2>1, <2>2, <2>3 DEF OnePlace
<1>8. Unfreed' = Unfreed
  BY <1>1, <1>2, <1>3, <1>4, <1>5 DEF Unfreed
<1>9. AnsweredWhenFreed' /\ ExportCounted'
  BY <1>2, <1>5, <1>8 DEF IInv, AnsweredWhenFreed, ExportCounted
<1>10. WorkServed' /\ OpsRight' /\ \A K : Using(K)' = Using(K)
  BY <1>2, OpsKept DEF IInv
<1>11. FidsOK'
  BY <1>2, <1>10, FidsKept DEF IInv
<1> QED
  BY <1>6, <1>7, <1>9, <1>10, <1>11 DEF IInv

LEMMA ExflushAnswerStep ==
  ASSUME IInv, ExflushAnswer
  PROVE  IInv'
<1> DEFINE k == flushing
<1>1. /\ epc = FlushAnswer /\ epc' = Read /\ flushing' = None
      /\ queue' = queue /\ rwait' = rwait /\ qowner' = qowner
      /\ qqueue' = qqueue /\ tail' = tail
      /\ victim' = victim /\ pc' = pc /\ job' = job /\ op' = op
      /\ work' = work /\ shut' = shut
      /\ cut' = cut /\ reqs' = reqs /\ lost' = lost /\ flushes' = flushes
      /\ panicked' = panicked
      /\ replies' = [replies EXCEPT ![k] = @ + 1]
      /\ Exfree(1) /\ ref' = ref - 1
  BY DEF ExflushAnswer, EAt, exqvars, qvars, slvars, Exfree
<1>2. k \in 1 .. reqs /\ k \in Reqs /\ k # None /\ k \in Unfreed
  BY <1>1, Numbers, Basics DEF IInv, Types, ProcTypes, Unfreed
<1>3. Unfreed' = Unfreed \ {k}
  BY <1>1, <1>2 DEF IInv, OnePlace, Unfreed
<1>4. /\ AnsweredWhenFreed' /\ ExportCounted'
      /\ replies' \in [Reqs -> Nat]
  BY <1>1, <1>2, <1>3, FreedOne DEF IInv, Types
<1>5. ExqTypes' /\ SlaveTypes' /\ ProcTypes' /\ HistTypes'
  BY <1>1, <1>4 DEF IInv, Types, ExqTypes, SlaveTypes, ProcTypes, HistTypes,
     ExportPCs
<1>6. OnePlace'
  BY <1>1 DEF IInv, OnePlace
<1>7. WorkServed' /\ OpsRight' /\ \A K : Using(K)' = Using(K)
  BY <1>1, OpsKept DEF IInv
<1>8. FidsOK'
  BY <1>1, <1>4, <1>5, <1>7, ExfreeFids DEF IInv
<1> QED
  BY <1>4, <1>5, <1>6, <1>7, <1>8 DEF IInv, Types

\* A queue that has each member once has as many as its length.
LEMMA QueueCounted ==
  ASSUME NEW S, NEW q \in Seq(S), IsInjective(q)
  PROVE  IsFiniteSet(ToSet(q)) /\ Cardinality(ToSet(q)) = Len(q)
<1>1. /\ Len(q) \in Nat /\ DOMAIN q = 1 .. Len(q)
      /\ q \in [1 .. Len(q) -> ToSet(q)]
      /\ \A x \in ToSet(q) : \E i \in 1 .. Len(q) : q[i] = x
  BY DEF ToSet
<1>2. q \in Surjection(1 .. Len(q), ToSet(q))
  BY <1>1 DEF Surjection
<1>3. q \in Injection(1 .. Len(q), ToSet(q))
  BY <1>1 DEF Injection
<1>4. q \in Bijection(1 .. Len(q), ToSet(q))
  BY <1>2, <1>3 DEF Bijection
<1>5. ExistsBijection(1 .. Len(q), ToSet(q))
  BY <1>4 DEF ExistsBijection
<1>6. IsFiniteSet(1 .. Len(q)) /\ Cardinality(1 .. Len(q)) = Len(q)
  <2>1. ASSUME NEW n \in Nat
        PROVE  IsFiniteSet(1 .. n) /\ Cardinality(1 .. n) = n
    BY FS_Interval
  <2> QED
    BY <1>1, <2>1
<1> QED
  BY <1>5, <1>6, FS_Bijection

LEMMA ExshutdownQueueStep ==
  ASSUME IInv, ExshutdownQueue
  PROVE  IInv'
<1>1. /\ epc = Read /\ epc' = Shut /\ flushing' = flushing
      /\ queue' = <<>> /\ rwait' = rwait /\ qowner' = qowner
      /\ qqueue' = qqueue /\ tail' = tail
      /\ victim' = victim /\ pc' = pc /\ job' = job /\ op' = op
      /\ work' = work /\ shut' = shut /\ replies' = replies
      /\ cut' = cut /\ reqs' = reqs /\ lost' = lost /\ flushes' = flushes
      /\ panicked' = panicked
      /\ Exfree(Len(queue)) /\ ref' = ref - Len(queue)
  BY DEF ExshutdownQueue, EAt, qvars, slvars, hist, Exfree
<1>2. queue \in Seq(Reqs) /\ IsInjective(queue) /\ Len(queue) \in Nat
  BY DEF IInv, Types, ExqTypes, OnePlace
<1>3. ToSet(queue') = {} /\ IsInjective(queue') /\ queue' \in Seq(Reqs)
  BY <1>1, EmptySet
<1>4. ToSet(queue) \subseteq Reqs
  BY <1>2, EmptySet
<1>5. Unfreed' = Unfreed \ ToSet(queue)
  BY <1>1, <1>3, Basics DEF IInv, OnePlace, Unfreed
<1>6. ToSet(queue) \subseteq Unfreed
  BY <1>4 DEF Unfreed
<1>7. Cardinality(Unfreed') = Cardinality(Unfreed) - Len(queue)
  <2>1. IsFiniteSet(ToSet(queue)) /\ Cardinality(ToSet(queue)) = Len(queue)
    BY <1>2, QueueCounted
  <2>2. Unfreed \cap ToSet(queue) = ToSet(queue)
    BY <1>6
  <2>3. Cardinality(Unfreed \ ToSet(queue)) =
           Cardinality(Unfreed) - Cardinality(Unfreed \cap ToSet(queue))
    BY UnfreedFinite, FS_Difference
  <2> QED
    BY <1>5, <2>1, <2>2, <2>3
<1>8. ExportCounted'
  BY <1>1, <1>2, <1>7, UnfreedFinite DEF IInv, ExportCounted
<1>9. AnsweredWhenFreed'
  BY <1>1, <1>5 DEF IInv, AnsweredWhenFreed
<1>10. ExqTypes' /\ SlaveTypes' /\ ProcTypes' /\ HistTypes'
  BY <1>1, <1>3 DEF IInv, Types, ExqTypes, SlaveTypes, ProcTypes, HistTypes,
     ExportPCs
<1>11. OnePlace'
  BY <1>1, <1>3 DEF IInv, OnePlace
<1>12. WorkServed' /\ OpsRight' /\ \A K : Using(K)' = Using(K)
  BY <1>1, OpsKept DEF IInv
<1>13. FidsOK'
  BY <1>1, <1>8, <1>10, <1>12, ExfreeFids DEF IInv
<1> QED
  BY <1>8, <1>9, <1>10, <1>11, <1>12, <1>13 DEF IInv, Types

LEMMA ExportprocEndStep ==
  ASSUME IInv, ExportprocEnd
  PROVE  IInv'
<1>1. /\ epc = Shut /\ epc' = Gone /\ flushing' = flushing
      /\ queue' = queue /\ rwait' = rwait /\ qowner' = qowner
      /\ qqueue' = qqueue /\ tail' = tail
      /\ victim' = victim /\ pc' = pc /\ job' = job /\ op' = op
      /\ work' = work /\ shut' = shut /\ replies' = replies
      /\ cut' = cut /\ reqs' = reqs /\ lost' = lost /\ flushes' = flushes
      /\ panicked' = panicked
      /\ Exfree(1) /\ ref' = ref - 1
  BY DEF ExportprocEnd, EAt, exqvars, qvars, slvars, hist, Exfree
<1>2. Unfreed' = Unfreed
  BY <1>1 DEF Unfreed
<1>3. ExportCounted' /\ AnsweredWhenFreed'
  BY <1>1, <1>2, UnfreedFinite DEF IInv, ExportCounted, AnsweredWhenFreed
<1>4. ExqTypes' /\ SlaveTypes' /\ ProcTypes' /\ HistTypes'
  BY <1>1 DEF IInv, Types, ExqTypes, SlaveTypes, ProcTypes, HistTypes,
     ExportPCs
<1>5. OnePlace'
  BY <1>1 DEF IInv, OnePlace
<1>6. WorkServed' /\ OpsRight' /\ \A K : Using(K)' = Using(K)
  BY <1>1, OpsKept DEF IInv
<1>7. FidsOK'
  BY <1>1, <1>3, <1>4, <1>6, ExfreeFids DEF IInv
<1> QED
  BY <1>3, <1>4, <1>5, <1>6, <1>7 DEF IInv, Types

----------------------------------------------------------------------------
(* The steps of a slave that has been woken. *)

LEMMA TakeRequestStep ==
  ASSUME IInv, NEW s \in Slaves, TakeRequest(s)
  PROVE  IInv'
<1>1. /\ pc[s] = Asleep /\ epc' = epc /\ flushing' = flushing
      /\ rwait' = rwait /\ tail' = tail /\ victim' = victim /\ op' = op
      /\ work' = work /\ shut' = shut /\ fid' = fid /\ ref' = ref
      /\ replies' = replies /\ cut' = cut /\ reqs' = reqs /\ lost' = lost
      /\ flushes' = flushes /\ panicked' = panicked
  BY DEF TakeRequest, fsvars, evars, hist
<1>2. qowner' \in Slaves \cup {None} /\ qqueue' \in Seq(Slaves)
  <2>1. qqueue \in Seq(Slaves)
    BY DEF IInv, Types, ExqTypes
  <2>2. CASE Qwait!PassOn
    <3>1. qqueue # <<>> /\ qowner' = Head(qqueue) /\ qqueue' = Tail(qqueue)
      BY <2>2 DEF Qwait!PassOn
    <3>2. Head(qqueue) \in Slaves /\ Tail(qqueue) \in Seq(Slaves)
      BY <2>1, <3>1, TailFacts
    <3> QED
      BY <3>1, <3>2
  <2>3. CASE Qwait!Drop
    BY <2>1, <2>3 DEF Qwait!Drop
  <2> QED
    BY <2>2, <2>3 DEF TakeRequest
<1>3. HistTypes' /\ ProcTypes'
  BY <1>1 DEF IInv, Types, HistTypes, ProcTypes
<1>4. CASE queue = <<>>
  <2>1. Goto(s, Qlock) /\ queue' = queue /\ job' = job
    BY <1>4 DEF TakeRequest
  <2>2. /\ pc' \in [Slaves -> SlavePCs] /\ pc'[s] = Qlock
        /\ \A o \in Slaves : o # s => pc'[o] = pc[o]
    BY <2>1, GotoFacts DEF SlavePCs, IInv, Types
  <2>3. SlaveTypes'
    BY <1>1, <2>1, <2>2 DEF SlaveTypes, IInv, Types, ServePCs
  <2>4. ExqTypes'
    BY <1>1, <1>2, <2>1 DEF IInv, Types, ExqTypes
  <2> QED
    BY <1>1, <1>3, <2>1, <2>2, <2>3, <2>4, QuietKept DEF Types
<1>5. CASE queue # <<>>
  <2> DEFINE k == Head(queue)
  <2>1. Goto(s, Link) /\ job' = [job EXCEPT ![s] = k] /\ queue' = Tail(queue)
    BY <1>5 DEF TakeRequest
  <2>2. queue \in Seq(Reqs) /\ IsInjective(queue)
    BY DEF IInv, Types, ExqTypes, OnePlace
  <2>3. /\ k \in ToSet(queue) /\ k \in Reqs /\ k # None
        /\ queue' \in Seq(Reqs) /\ IsInjective(queue')
        /\ ToSet(queue') = ToSet(queue) \ {k}
    BY <1>5, <2>1, <2>2, TailSet, Basics
  <2> HIDE DEF k
  <2>4. /\ pc' \in [Slaves -> SlavePCs] /\ pc'[s] = Link
        /\ \A o \in Slaves : o # s => pc'[o] = pc[o]
    BY <2>1, GotoFacts DEF SlavePCs, IInv, Types
  <2>5. /\ job' \in [Slaves -> Reqs \cup {None}] /\ job'[s] = k
        /\ \A o \in Slaves : o # s => job'[o] = job[o]
        /\ job[s] = None
    BY <1>1, <2>1, <2>3 DEF IInv, Types, SlaveTypes, ServePCs
  <2>6. Types'
    <3>1. SlaveTypes'
      BY <1>1, <2>3, <2>4, <2>5 DEF SlaveTypes, IInv, Types, ServePCs
    <3>2. ExqTypes'
      BY <1>1, <1>2, <2>3 DEF IInv, Types, ExqTypes
    <3> QED
      BY <1>3, <3>1, <3>2 DEF Types
  <2>7. k \in (1 .. reqs) \ lost /\ \A o \in Slaves : job[o] # k
    BY <2>3 DEF IInv, OnePlace
  <2>8. OnePlace'
    <3>1. /\ ToSet(queue') \subseteq 1 .. reqs'
          /\ ToSet(queue') \cap lost' = {}
      BY <1>1, <2>3 DEF IInv, OnePlace
    <3>2. ASSUME NEW o \in Slaves, job'[o] # None
          PROVE  job'[o] \in (1 .. reqs') \ (ToSet(queue') \cup lost')
      BY <1>1, <2>3, <2>5, <2>7, <3>2 DEF IInv, OnePlace
    <3>3. ASSUME NEW o \in Slaves, NEW p \in Slaves, job'[o] = job'[p],
                 job'[o] # None
          PROVE  o = p
      BY <2>5, <2>7, <3>3 DEF IInv, OnePlace
    <3>4. epc' = FlushAnswer =>
             /\ flushing' \notin ToSet(queue') \cup lost'
             /\ \A o \in Slaves : job'[o] # flushing'
      BY <1>1, <2>3, <2>5 DEF IInv, OnePlace
    <3> QED
      BY <2>3, <3>1, <3>2, <3>3, <3>4 DEF OnePlace
  <2>9. Unfreed' = Unfreed
    <3>1. ASSUME NEW j \in Reqs
          PROVE  (\E o \in Slaves : job'[o] = j) <=>
                    j = k \/ \E o \in Slaves : job[o] = j
      BY <2>5, Basics
    <3> QED
      BY <1>1, <2>3, <3>1 DEF Unfreed
  <2>10. AnsweredWhenFreed' /\ ExportCounted'
    BY <1>1, <2>9 DEF IInv, AnsweredWhenFreed, ExportCounted
  <2>11. WorkServed' /\ OpsRight' /\ \A K : Using(K)' = Using(K)
    BY <1>1, <2>4, <2>5, OpsKept DEF IInv
  <2>12. FidsOK'
    BY <1>1, <2>11, FidsKept DEF IInv
  <2> QED
    BY <2>6, <2>8, <2>10, <2>11, <2>12 DEF IInv
<1> QED
  BY <1>4, <1>5

\* Steps of a slave in which it begins or ends an operation.
LEMMA OpKept ==
  ASSUME IInv, NEW s \in Slaves, NEW l \in ServePCs, pc[s] \in ServePCs,
         Goto(s, l), UNCHANGED <<exqvars, shut, ref, evars, job, hist>>,
         op' \in [Slaves -> Kinds \cup {"none"}]
  PROVE  Types' /\ OnePlace' /\ AnsweredWhenFreed' /\ ExportCounted'
<1>1. /\ pc' \in [Slaves -> SlavePCs] /\ pc'[s] = l
      /\ \A o \in Slaves : o # s => pc'[o] = pc[o]
  BY GotoFacts DEF ServePCs, SlavePCs, IInv, Types
<1>2. SlaveTypes'
  BY <1>1 DEF SlaveTypes, IInv, Types
<1>3. ExqTypes' /\ ProcTypes' /\ HistTypes'
  BY DEF IInv, Types, ExqTypes, ProcTypes, HistTypes, exqvars, qvars, evars,
     hist
<1>4. OnePlace' /\ AnsweredWhenFreed' /\ ExportCounted'
  BY PlacesKept DEF IInv, exqvars, evars, hist
<1> QED
  BY <1>2, <1>3, <1>4 DEF Types

LEMMA BeginOpStep ==
  ASSUME IInv, NEW s \in Slaves, BeginOp(s)
  PROVE  IInv'
<1>1. /\ pc[s] = Link
      /\ UNCHANGED <<exqvars, shut, ref, evars, job, hist>>
  BY DEF BeginOp
<1>2. PICK t \in Kinds :
         IF ~fid[1].attached \/ (t = "clone" /\ fid[2].there)
           THEN Goto(s, Reply) /\ UNCHANGED <<work, op, fid>>
           ELSE /\ Goto(s, Op)
                /\ work' = work \cup {job[s]}
                /\ op' = [op EXCEPT ![s] = t]
                /\ fid' = <<[fid[1] EXCEPT !.ref = @ + 1],
                            IF t = "clone" THEN NewFid ELSE fid[2]>>
  BY DEF BeginOp
<1>3. op \in [Slaves -> Kinds \cup {"none"}] /\ job[s] # None
  BY <1>1 DEF IInv, Types, SlaveTypes, ServePCs
<1>4. CASE ~fid[1].attached \/ (t = "clone" /\ fid[2].there)
  <2>1. Goto(s, Reply) /\ work' = work /\ op' = op /\ fid' = fid
    BY <1>2, <1>4
  <2>2. /\ pc'[s] = Reply /\ \A o \in Slaves : o # s => pc'[o] = pc[o]
    BY <2>1, GotoFacts DEF IInv, Types
  <2>3. Types' /\ OnePlace' /\ AnsweredWhenFreed' /\ ExportCounted'
    BY <1>1, <1>3, <2>1, OpKept DEF ServePCs
  <2>4. WorkServed' /\ OpsRight' /\ \A K : Using(K)' = Using(K)
    BY <1>1, <2>1, <2>2, OpsKept DEF IInv
  <2>5. FidsOK'
    BY <2>1, <2>4, FidsKept DEF IInv
  <2> QED
    BY <2>3, <2>4, <2>5 DEF IInv
<1>5. CASE ~(~fid[1].attached \/ (t = "clone" /\ fid[2].there))
  <2>1. /\ Goto(s, Op) /\ work' = work \cup {job[s]}
        /\ op' = [op EXCEPT ![s] = t]
        /\ fid' = <<[fid[1] EXCEPT !.ref = @ + 1],
                    IF t = "clone" THEN NewFid ELSE fid[2]>>
    BY <1>2, <1>5
  <2>2. pc'[s] = Op /\ \A o \in Slaves : o # s => pc'[o] = pc[o]
    BY <2>1, GotoFacts DEF IInv, Types
  <2>3. /\ op' \in [Slaves -> Kinds \cup {"none"}] /\ op'[s] = t
        /\ \A o \in Slaves : o # s => op'[o] = op[o]
    BY <1>3, <2>1
  <2>4. Types' /\ OnePlace' /\ AnsweredWhenFreed' /\ ExportCounted'
    BY <1>1, <2>1, <2>3, OpKept DEF ServePCs
  <2>5. WorkServed'
    <3>1. job' = job
      BY <1>1
    <3> QED
      BY <1>1, <2>1, <2>2, <3>1 DEF IInv, WorkServed
  <2>6. OpsRight'
    BY <2>2, <2>3 DEF IInv, OpsRight
  <2>7. ASSUME NEW K
        PROVE  /\ s \notin Using(K)
               /\ t \in K => Using(K)' = Using(K) \cup {s}
               /\ t \notin K => Using(K)' = Using(K)
    BY <1>1, <2>2, <2>3 DEF Using
  <2>8. FidOK(fid'[1], Cardinality(Using(Kinds)'))
    <3>1. Cardinality(Using(Kinds)') = Cardinality(Using(Kinds)) + 1
      BY <2>7, UsingFinite, FS_AddElement
    <3>2. FidOK(fid[1], Cardinality(Using(Kinds))) /\ fid[1].attached
      BY <1>5 DEF IInv, FidsOK
    <3>3. fid[1].there
      BY <3>2 DEF FidOK
    <3>4. fid'[1] = [fid[1] EXCEPT !.ref = @ + 1]
      BY <2>1
    <3> QED
      BY <3>1, <3>2, <3>3, <3>4, UsingFinite, UseOK
  <2>9. FidOK(fid'[2], Cardinality(Using({"clone"})'))
    <3>1. FidOK(fid[2], Cardinality(Using({"clone"})))
      BY DEF IInv, FidsOK
    <3>2. CASE t = "clone"
      <4>1. ~fid[2].there /\ fid'[2] = NewFid
        BY <1>5, <2>1, <3>2
      <4>2. Cardinality(Using({"clone"})) = 0
        BY <3>1, <4>1, UsingFinite DEF FidOK
      <4>3. Cardinality(Using({"clone"})') = 0 + 1
        <5>1. /\ Using({"clone"})' = Using({"clone"}) \cup {s}
              /\ s \notin Using({"clone"})
          BY <2>7, <3>2
        <5>2. IsFiniteSet(Using({"clone"}))
          BY UsingFinite
        <5> QED
          BY <4>2, <5>1, <5>2, FS_AddElement
      <4> QED
        BY <4>1, <4>3, NewFidsOK
    <3>3. CASE t # "clone"
      <4>1. fid'[2] = fid[2] /\ Using({"clone"})' = Using({"clone"})
        BY <2>1, <2>7, <3>3
      <4> QED
        BY <3>1, <4>1
    <3> QED
      BY <3>2, <3>3
  <2>10. FidsOK'
    BY <2>8, <2>9 DEF FidsOK
  <2> QED
    BY <2>4, <2>5, <2>6, <2>10 DEF IInv
<1> QED
  BY <1>4, <1>5

\* The end of an operation, but for the fids.
LEMMA EndedKept ==
  ASSUME IInv, NEW s \in Slaves, pc[s] \in {Op, Clunk}, Goto(s, Reply),
         Ended(s), UNCHANGED <<exqvars, shut, ref, evars, job, hist>>
  PROVE  /\ Types' /\ OnePlace' /\ AnsweredWhenFreed' /\ ExportCounted'
         /\ WorkServed' /\ OpsRight'
         /\ \A K : op[s] \in K =>
               s \in Using(K) /\ Using(K)' = Using(K) \ {s}
         /\ \A K : op[s] \notin K => Using(K)' = Using(K)
<1>1. pc'[s] = Reply /\ \A o \in Slaves : o # s => pc'[o] = pc[o]
  BY GotoFacts DEF IInv, Types
<1>2. /\ op' \in [Slaves -> Kinds \cup {"none"}] /\ op'[s] = "none"
      /\ \A o \in Slaves : o # s => op'[o] = op[o]
  BY DEF Ended, IInv, Types, SlaveTypes
<1>3. Types' /\ OnePlace' /\ AnsweredWhenFreed' /\ ExportCounted'
  BY <1>2, OpKept DEF ServePCs
<1>4. WorkServed'
  <2>1. job' = job /\ work' = work \ {job[s]}
    BY DEF Ended
  <2> QED
    BY <1>1, <2>1 DEF IInv, WorkServed
<1>5. OpsRight'
  BY <1>1, <1>2 DEF IInv, OpsRight, Kinds
<1>6. ASSUME NEW K, op[s] \in K
      PROVE  s \in Using(K) /\ Using(K)' = Using(K) \ {s}
  BY <1>1, <1>2, <1>6 DEF Using
<1>7. ASSUME NEW K, op[s] \notin K
      PROVE  Using(K)' = Using(K)
  BY <1>1, <1>2, <1>7 DEF Using
<1> QED
  BY <1>3, <1>4, <1>5, <1>6, <1>7

\* A fid that a slave has put back.
LEMMA PutBack ==
  ASSUME NEW K, NEW s, s \in Using(K), NEW g, NEW T, T = Using(K) \ {s},
         FidOK(g, Cardinality(Using(K)))
  PROVE  FidOK(Put(g), Cardinality(T))
<1>1. Cardinality(T) = Cardinality(Using(K)) - 1
  BY UsingFinite, FS_RemoveElement
<1>2. Cardinality(Using(K)) # 0
  BY UsingFinite, FS_EmptySet
<1>3. Cardinality(Using(K)) \in Nat \ {0}
  BY <1>2, UsingFinite
<1> QED
  BY <1>1, <1>3, PutOK

LEMMA EndOpStep ==
  ASSUME IInv, NEW s \in Slaves, EndOp(s)
  PROVE  IInv'
<1>1. /\ pc[s] = Op /\ Goto(s, Reply) /\ Ended(s)
      /\ UNCHANGED <<exqvars, shut, ref, evars, job, hist>>
      /\ fid' = <<Put(fid[1]),
                  IF op[s] = "clone" THEN Put(fid[2]) ELSE fid[2]>>
  BY DEF EndOp, At
<1>2. op[s] \in Kinds
  BY <1>1 DEF IInv, OpsRight
<1>3. /\ Types' /\ OnePlace' /\ AnsweredWhenFreed' /\ ExportCounted'
      /\ WorkServed' /\ OpsRight'
      /\ \A K : op[s] \in K => s \in Using(K) /\ Using(K)' = Using(K) \ {s}
      /\ \A K : op[s] \notin K => Using(K)' = Using(K)
  BY <1>1, EndedKept
<1>4. /\ FidOK(fid[1], Cardinality(Using(Kinds)))
      /\ FidOK(fid[2], Cardinality(Using({"clone"})))
  BY DEF IInv, FidsOK
<1>5. FidOK(fid'[1], Cardinality(Using(Kinds)'))
  <2>1. s \in Using(Kinds) /\ Using(Kinds)' = Using(Kinds) \ {s}
    BY <1>2, <1>3
  <2>2. fid'[1] = Put(fid[1])
    BY <1>1
  <2> QED
    BY <1>4, <2>1, <2>2, PutBack
<1>6. FidOK(fid'[2], Cardinality(Using({"clone"})'))
  <2>1. CASE op[s] = "clone"
    <3>1. /\ s \in Using({"clone"})
          /\ Using({"clone"})' = Using({"clone"}) \ {s}
      BY <1>3, <2>1
    <3>2. fid'[2] = Put(fid[2])
      BY <1>1, <2>1
    <3> QED
      BY <1>4, <3>1, <3>2, PutBack
  <2>2. CASE op[s] # "clone"
    <3>1. Using({"clone"})' = Using({"clone"}) /\ fid'[2] = fid[2]
      BY <1>1, <1>3, <2>2
    <3> QED
      BY <1>4, <3>1
  <2> QED
    BY <2>1, <2>2
<1> QED
  BY <1>3, <1>5, <1>6 DEF IInv, FidsOK

LEMMA ExclunkStep ==
  ASSUME IInv, NEW s \in Slaves, Exclunk(s)
  PROVE  IInv'
<1>1. /\ pc[s] = Op /\ op[s] = "clunk" /\ Goto(s, Clunk)
      /\ UNCHANGED <<exqvars, work, shut, ref, evars, job, op, hist>>
      /\ fid' = <<[fid[1] EXCEPT !.attached = FALSE], fid[2]>>
  BY DEF Exclunk, At
<1>2. pc'[s] = Clunk /\ \A o \in Slaves : o # s => pc'[o] = pc[o]
  BY <1>1, GotoFacts DEF IInv, Types
<1>3. Types' /\ OnePlace' /\ AnsweredWhenFreed' /\ ExportCounted'
  <2>1. op' \in [Slaves -> Kinds \cup {"none"}]
    BY <1>1 DEF IInv, Types, SlaveTypes
  <2> QED
    BY <1>1, <2>1, OpKept DEF ServePCs
<1>4. WorkServed'
  <2>1. job' = job /\ work' = work
    BY <1>1
  <2> QED
    BY <1>2, <2>1 DEF IInv, WorkServed
<1>5. OpsRight'
  BY <1>1, <1>2 DEF IInv, OpsRight, Kinds
<1>6. ASSUME NEW K PROVE Using(K)' = Using(K)
  BY <1>1, <1>2 DEF Using
<1>7. FidOK(fid'[1], Cardinality(Using(Kinds)))
  <2>1. s \in Using(Kinds)
    BY <1>1 DEF Using, Kinds
  <2>2. Cardinality(Using(Kinds)) # 0
    BY <2>1, UsingFinite, FS_EmptySet
  <2>3. Cardinality(Using(Kinds)) \in Nat \ {0}
    BY <2>2, UsingFinite
  <2>4. FidOK(fid[1], Cardinality(Using(Kinds)))
    BY DEF IInv, FidsOK
  <2>5. fid'[1] = [fid[1] EXCEPT !.attached = FALSE]
    BY <1>1
  <2> QED
    BY <2>3, <2>4, <2>5, DetachOK
<1>8. FidOK(fid'[2], Cardinality(Using({"clone"})))
  <2>1. fid'[2] = fid[2]
    BY <1>1
  <2> QED
    BY <2>1 DEF IInv, FidsOK
<1> QED
  BY <1>3, <1>4, <1>5, <1>6, <1>7, <1>8 DEF IInv, FidsOK

LEMMA EndClunkStep ==
  ASSUME IInv, NEW s \in Slaves, EndClunk(s)
  PROVE  IInv'
<1>1. /\ pc[s] = Clunk /\ Goto(s, Reply) /\ Ended(s)
      /\ UNCHANGED <<exqvars, shut, ref, evars, job, hist>>
      /\ fid'[1] = Put(fid[1]) /\ fid'[2] = fid[2]
  BY DEF EndClunk, At
<1>2. op[s] = "clunk"
  BY <1>1 DEF IInv, OpsRight
<1>3. /\ Types' /\ OnePlace' /\ AnsweredWhenFreed' /\ ExportCounted'
      /\ WorkServed' /\ OpsRight'
      /\ \A K : op[s] \in K => s \in Using(K) /\ Using(K)' = Using(K) \ {s}
      /\ \A K : op[s] \notin K => Using(K)' = Using(K)
  BY <1>1, EndedKept
<1>4. FidOK(fid'[1], Cardinality(Using(Kinds)'))
  <2>1. s \in Using(Kinds) /\ Using(Kinds)' = Using(Kinds) \ {s}
    BY <1>2, <1>3 DEF Kinds
  <2>2. FidOK(fid[1], Cardinality(Using(Kinds)))
    BY DEF IInv, FidsOK
  <2> QED
    BY <1>1, <2>1, <2>2, PutBack
<1>5. FidOK(fid'[2], Cardinality(Using({"clone"})'))
  <2>1. "clunk" \notin {"clone"}
    OBVIOUS
  <2>2. Using({"clone"})' = Using({"clone"})
    BY <1>2, <1>3, <2>1
  <2> QED
    BY <1>1, <2>2 DEF IInv, FidsOK
<1> QED
  BY <1>3, <1>4, <1>5 DEF IInv, FidsOK

LEMMA WriteReplyStep ==
  ASSUME IInv, NEW s \in Slaves, WriteReply(s)
  PROVE  IInv'
<1> DEFINE k == job[s]
<1>1. /\ pc[s] = Reply /\ Goto(s, Qlock) /\ epc' = epc
      /\ flushing' = flushing /\ queue' = queue /\ qowner' = qowner
      /\ qqueue' = qqueue /\ rwait' = rwait /\ tail' = tail
      /\ victim' = victim /\ op' = op /\ work' = work /\ shut' = shut
      /\ cut' = cut /\ reqs' = reqs /\ lost' = lost /\ flushes' = flushes
      /\ panicked' = panicked
      /\ replies' = [replies EXCEPT ![k] = IF k \in cut THEN @ ELSE @ + 1]
      /\ job' = [job EXCEPT ![s] = None]
      /\ Exfree(1) /\ ref' = ref - 1
  BY DEF WriteReply, At, exqvars, qvars, evars, Exfree
<1>2. k \in Reqs /\ k # None /\ k \in 1 .. reqs /\ k \in Unfreed
  <2>1. k \in Reqs /\ k # None
    BY <1>1, Basics DEF IInv, Types, SlaveTypes, ServePCs
  <2> QED
    BY <2>1 DEF IInv, OnePlace, Unfreed
<1>3. /\ job' \in [Slaves -> Reqs \cup {None}] /\ job'[s] = None
      /\ \A o \in Slaves : o # s => job'[o] = job[o]
  BY <1>1 DEF IInv, Types, SlaveTypes
<1>4. /\ pc' \in [Slaves -> SlavePCs] /\ pc'[s] = Qlock
      /\ \A o \in Slaves : o # s => pc'[o] = pc[o]
  BY <1>1, GotoFacts DEF SlavePCs, IInv, Types
<1>5. \/ replies' = replies
      \/ replies' = [replies EXCEPT ![k] = @ + 1]
  <2>1. CASE k \in cut
    <3>1. replies' = [replies EXCEPT ![k] = @] /\ replies \in [Reqs -> Nat]
      BY <1>1, <2>1 DEF IInv, Types, HistTypes
    <3>2. replies' = replies
      BY <3>1
    <3> QED
      BY <3>2
  <2>2. CASE k \notin cut
    BY <1>1, <2>2
  <2> QED
    BY <2>1, <2>2
<1> HIDE DEF k
<1>6. \A o \in Slaves : job[o] = k <=> o = s
  BY <1>2 DEF IInv, OnePlace, k
<1>7. Unfreed' = Unfreed \ {k}
  <2>1. ASSUME NEW j \in Reqs
        PROVE  (\E o \in Slaves : job'[o] = j) <=>
                  j # k /\ \E o \in Slaves : job[o] = j
    BY <1>3, <1>6, Basics
  <2>2. k \notin ToSet(queue) \cup lost /\ ~(k = flushing /\ epc = FlushAnswer)
    BY <1>2 DEF IInv, OnePlace, k
  <2> QED
    BY <1>1, <2>1, <2>2 DEF Unfreed
<1>8. /\ AnsweredWhenFreed' /\ ExportCounted'
      /\ replies' \in [Reqs -> Nat]
  BY <1>1, <1>2, <1>5, <1>7, FreedOne DEF IInv, Types
<1>9. Types'
  <2>1. ExqTypes' /\ ProcTypes' /\ HistTypes'
    BY <1>1, <1>8 DEF IInv, Types, ExqTypes, ProcTypes, HistTypes
  <2>2. SlaveTypes'
    BY <1>1, <1>3, <1>4 DEF IInv, Types, SlaveTypes, ServePCs
  <2> QED
    BY <2>1, <2>2 DEF Types
<1>10. OnePlace'
  <2>1. ASSUME NEW o \in Slaves, job'[o] # None
        PROVE  o # s /\ job'[o] = job[o]
    BY <1>3, <2>1
  <2>2. ASSUME NEW o \in Slaves, job'[o] # None
        PROVE  job'[o] \in (1 .. reqs') \ (ToSet(queue') \cup lost')
    BY <1>1, <2>1, <2>2 DEF IInv, OnePlace
  <2>3. ASSUME NEW o \in Slaves, NEW p \in Slaves, job'[o] = job'[p],
               job'[o] # None
        PROVE  o = p
    BY <2>1, <2>3 DEF IInv, OnePlace
  <2>4. ASSUME epc' = FlushAnswer
        PROVE  /\ flushing' \notin ToSet(queue') \cup lost'
               /\ \A o \in Slaves : job'[o] # flushing'
    <3>1. flushing' # None
      <4>1. flushing' = flushing /\ epc = FlushAnswer
        BY <1>1, <2>4
      <4>2. flushing \in Reqs
        BY <4>1, Numbers DEF IInv, Types, ProcTypes
      <4> QED
        BY <4>1, <4>2, Basics
    <3> QED
      BY <1>1, <2>1, <2>4, <3>1 DEF IInv, OnePlace
  <2> QED
    BY <1>1, <2>2, <2>3, <2>4 DEF IInv, OnePlace
<1>11. WorkServed' /\ OpsRight' /\ \A K : Using(K)' = Using(K)
  BY <1>1, <1>3, <1>4, OpsKept DEF IInv
<1>12. FidsOK'
  BY <1>1, <1>8, <1>9, <1>11, ExfreeFids DEF IInv, Types
<1> QED
  BY <1>8, <1>9, <1>10, <1>11, <1>12 DEF IInv

----------------------------------------------------------------------------
(* Every step keeps IInv. *)

LEMMA NextIInv == IInv /\ [Next]_vars => IInv'
<1> SUFFICES ASSUME IInv, [Next]_vars PROVE IInv'
  OBVIOUS
<1>1. CASE Next
  <2>1. CASE Accept
    BY <2>1, AcceptStep
  <2>2. CASE ExflushQueue
    BY <2>2, ExflushQueueStep
  <2>3. CASE ExshutdownQueue
    BY <2>3, ExshutdownQueueStep
  <2>4. CASE Exportproc
    <3>1. CASE epc = FlushIntr /\ Oshostintr(Read)
      BY <3>1, OshostintrStep
    <3>2. CASE epc = ShutIntr /\ Oshostintr(Shut)
      BY <3>2, OshostintrStep
    <3> QED
      BY <2>4, <3>1, <3>2, SpawnSlaveStep, WakeSlaveStep, ExflushAnswerStep,
         ExflushWorkStep, ExshutdownWorkStep, ExportprocEndStep DEF Exportproc
  <2>5. ASSUME NEW s \in Slaves, Exslave(s)
        PROVE  IInv'
    BY <2>5, QlockQwaitStep, SleepRwaitStep, TakeRequestStep, BeginOpStep,
       EndOpStep, ExclunkStep, EndClunkStep, WriteReplyStep DEF Exslave
  <2> QED
    BY <1>1, <2>1, <2>2, <2>3, <2>4, <2>5 DEF Next
<1>2. CASE UNCHANGED vars
  <2>1. Types'
    BY <1>2 DEF IInv, Types, ExqTypes, ProcTypes, SlaveTypes, HistTypes, vars,
       exqvars, qvars, fsvars, evars, slvars, hist
  <2> QED
    BY <1>2, <2>1, QuietKept DEF vars, exqvars, qvars, fsvars, evars, slvars,
       hist
<1> QED
  BY <1>1, <1>2

LEMMA Invariant == Spec => []IInv
<1>1. Init => IInv
  BY InitIInv
<1>2. IInv /\ [Next]_vars => IInv'
  BY NextIInv
<1> QED
  BY <1>1, <1>2, PTL DEF Spec

\* What the counts are bounded by: the requests and the slaves there can be.
LEMMA Bounds ==
  ASSUME IInv
  PROVE  /\ ref \in 0 .. MaxReqs + 1
         /\ \A f \in {1, 2} : fid[f] \in [there : BOOLEAN, attached : BOOLEAN,
                                         ref : 0 .. MaxReqs]
<1>1. ref \in 0 .. MaxReqs + 1
  <2>1. Unfreed \in SUBSET Reqs
    BY DEF Unfreed
  <2>2. Cardinality(Unfreed) <= MaxReqs
    BY <2>1, Basics, FS_Subset
  <2> QED
    BY <2>2, UnfreedFinite, Basics DEF IInv, ExportCounted
<1>2. ASSUME NEW K PROVE Cardinality(Using(K)) \in 0 .. MaxReqs
  <2>1. Using(K) \in SUBSET Slaves
    BY DEF Using
  <2>2. Cardinality(Using(K)) <= MaxReqs
    BY <2>1, Basics, FS_Subset
  <2> QED
    BY <2>2, UsingFinite, Basics
<1>3. ASSUME NEW g, NEW n \in 0 .. MaxReqs, FidOK(g, n)
      PROVE  g \in [there : BOOLEAN, attached : BOOLEAN, ref : 0 .. MaxReqs]
  BY <1>3 DEF FidOK
<1>4. /\ fid[1] \in [there : BOOLEAN, attached : BOOLEAN, ref : 0 .. MaxReqs]
      /\ fid[2] \in [there : BOOLEAN, attached : BOOLEAN, ref : 0 .. MaxReqs]
  BY <1>2, <1>3 DEF IInv, FidsOK
<1> QED
  BY <1>1, <1>4

\* The variables of the export server, its queue, its slaves, its references
\* and its fids, always have the values TypeOK gives them.
THEOREM TypeCorrect == Spec => []TypeOK
<1>1. IInv => TypeOK
  <2> SUFFICES ASSUME IInv PROVE TypeOK
    OBVIOUS
  <2>1. /\ queue \in Seq(Reqs) /\ tail \in Reqs \cup {None}
        /\ rwait \in Slaves \cup {None}
        /\ qowner \in Slaves \cup {None} /\ qqueue \in Seq(Slaves)
    BY DEF IInv, Types, ExqTypes
  <2>2. work \subseteq {job[s] : s \in Slaves}
    BY DEF IInv, WorkServed
  <2>3. /\ epc \in {Read, Spawn, Wake, FlushAnswer, FlushWork, FlushIntr, Shut,
                   ShutIntr, Gone}
        /\ flushing \in Reqs \cup {None} /\ victim \in Slaves \cup {None}
    BY DEF IInv, Types, ProcTypes, ExportPCs
  <2>4. /\ pc \in [Slaves -> {Unborn, Qlock, InLine, Asleep, Link, Op, Clunk,
                              Reply}]
        /\ job \in [Slaves -> Reqs \cup {None}]
        /\ op \in [Slaves -> Kinds \cup {"none"}]
    BY DEF IInv, Types, SlaveTypes, SlavePCs
  <2>5. \A s \in Slaves :
           (job[s] # None) = (pc[s] \in {Link, Op, Clunk, Reply})
    BY DEF IInv, Types, SlaveTypes, ServePCs
  <2>6. /\ shut \subseteq Reqs
        /\ reqs \in 0 .. MaxReqs /\ lost \cup cut \subseteq 1 .. reqs
        /\ replies \in [Reqs -> Nat]
        /\ flushes \in 0 .. MaxFlushes /\ panicked \in BOOLEAN
    BY DEF IInv, Types, HistTypes
  <2> HIDE DEF Unborn, Qlock, InLine, Asleep, Link, Op, Clunk, Reply, Read,
               Spawn, Wake, FlushAnswer, FlushWork, FlushIntr, Shut, ShutIntr,
               Gone
  <2> QED
    BY <2>1, <2>2, <2>3, <2>4, <2>5, <2>6, Bounds DEF TypeOK
<1> QED
  BY <1>1, Invariant, PTL

\* No request is answered twice, whether exflush finds it on the queue or
\* already with a slave, and whoever goes first.
THEOREM RepliedOnce == Spec => []AnsweredOnce
<1>1. IInv => AnsweredOnce
  BY DEF IInv, AnsweredWhenFreed, AnsweredOnce
<1> QED
  BY <1>1, Invariant, PTL

\* fs->r.ref is the number of requests that are not freed, and one for
\* exportproc: the last exfree, and no earlier one, frees the Export.
THEOREM ExportKept == Spec => []ExportCounted
<1>1. IInv => ExportCounted
  BY DEF IInv
<1> QED
  BY <1>1, Invariant, PTL

\* A fid counts the slaves that use it, and is there as long as it is attached
\* or a slave uses it.
THEOREM FidsKeptRight == Spec => []FidCounted
<1>1. IInv => FidCounted
  BY DEF IInv, FidsOK, FidOK, FidCounted
<1> QED
  BY <1>1, Invariant, PTL
=============================================================================
