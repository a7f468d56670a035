---------------------------- MODULE IschedProofs ----------------------------
(***************************************************************************)
(* Proofs about Isched, for any set of processes and threads and any bound *)
(* on isched.yield.  The first half is about the virtual machine: it is    *)
(* idle, with one owner, or on its way from one process to another, and    *)
(* whoever waits for it is on vmq or about to be met.  It needs nothing of *)
(* the threads, which the second half is about.  The end is about the      *)
(* order in which processes wait for the machine.                          *)
(***************************************************************************)
EXTENDS Isched, QueueFacts, FiniteSetTheorems

\* A process that has the machine, or is handing it over.
Holders == Owner \cup {Giving, Yielding}

MachineType ==
    /\ idle \in BOOLEAN /\ yield \in Nat
    /\ vmq \in Seq(Procs) /\ IsInjective(vmq)
    /\ to \in [Procs -> Procs \cup {Nobody}]
    /\ then \in [Procs -> Owner \cup {Nobody}]
    /\ pc \in [Procs -> Owner \cup Away \cup {Yielding, Unborn, Start}]

\* Where a process goes on when it gets the machine, it owns it.
ThenInv == \A p \in Procs : pc[p] \in Away \cup {Yielding} => then[p] \in Owner

HolderInv ==
    /\ \A p, q \in Procs : pc[p] \in Holders /\ pc[q] \in Holders => p = q
    /\ idle => \A p \in Procs : pc[p] \notin Holders
    /\ ~idle => \E p \in Procs : pc[p] \in Holders

\* vmq holds processes that wait, and one in iyield that is about to; a
\* waiting process is on it, or the one being handed the machine.
VmqInv ==
    /\ idle => vmq = <<>>
    /\ \A p \in ToSet(vmq) : pc[p] \in {Wait, Waker, Yielding}
    /\ \A p \in Procs : pc[p] \in {Wait, Waker} =>
          \/ p \in ToSet(vmq)
          \/ \E g \in Procs : pc[g] \in {Giving, Yielding} /\ to[g] = p

\* Release and iyield hand over to a process that they took off vmq.
HandInv ==
    \A g \in Procs :
        /\ pc[g] \in {Giving, Yielding} =>
              /\ to[g] \in Procs \ ToSet(vmq)
              /\ pc[to[g]] \in {Wait, Waker}
        /\ pc[g] = Yielding => g \in ToSet(vmq)

\* isched.irend.p is the vmachine that sleeps there.
IrendInv == \A p \in Procs : p = irend => pc[p] = Asleep

MInv ==
    /\ MachineType /\ ThenInv /\ HolderInv /\ VmqInv /\ HandInv /\ IrendInv

USE DEF Procs, Holders, Owner, Away, Unborn, Start, Giving, Out, Waker, Wait,
        Loop, IdleGC, Asleep, Pick, Yielding, Exec, Run, Held, Raised, Exit,
        Killing, Reap, Free, Collect

LEMMA InitMInv == Init => MInv
<1> SUFFICES ASSUME Init PROVE MInv
  OBVIOUS
<1> USE IschedAssumption DEF Init
<1>1. vmq \in Seq(Procs) /\ IsInjective(vmq) /\ ToSet(vmq) = {}
  BY EmptySet
<1>2. MachineType
  BY <1>1 DEF MachineType
<1>3. ThenInv /\ HolderInv /\ IrendInv
  BY DEF ThenInv, HolderInv, IrendInv
<1>4. VmqInv /\ HandInv
  BY <1>1 DEF VmqInv, HandInv
<1> QED
  BY <1>2, <1>3, <1>4 DEF MInv

----------------------------------------------------------------------------
(* The steps of an owner that nobody else observes. *)

\* p, which has the machine, goes on at l.
OwnerMove(p, l) ==
    /\ pc[p] \in Owner \ {Asleep}
    /\ pc' = [pc EXCEPT ![p] = l]
    /\ UNCHANGED <<idle, vmq, to, then>>
    /\ yield' \in Nat
    /\ irend' = irend \/ (irend' = p /\ l = Asleep)

LEMMA OwnerMoveStep ==
  ASSUME MInv, NEW p \in Procs, NEW l \in Owner, OwnerMove(p, l)
  PROVE  MInv'
<1> USE DEF MInv, MachineType, OwnerMove
<1>1. MachineType'
  OBVIOUS
<1>2. ThenInv'
  BY DEF ThenInv
<1>3. HolderInv'
  BY DEF HolderInv
<1>4. VmqInv'
  BY DEF VmqInv
<1>5. HandInv'
  BY DEF HandInv
<1>6. IrendInv'
  BY DEF IrendInv
<1> QED
  BY <1>1, <1>2, <1>3, <1>4, <1>5, <1>6

LEMMA OwnerMoves ==
  ASSUME MInv, NEW p \in Procs,
         \/ LoopTop(p) \/ IdleDone(p) \/ PickNoYield(p) \/ XecStart(p)
         \/ CollectDone(p) \/ XecEnd(p) \/ Block(p) \/ Raise(p) \/ Broken(p)
         \/ ExitStart(p) \/ Freeprog(p)
         \/ KillRequest(p) \/ KillgrpRequest(p)
         \/ \E q \in Progs : Addrun(p, q) \/ Newprog(p, q) \/ KillGone(p, q)
                             \/ Killprog(p, q) \/ KillLater(p, q)
  PROVE  MInv'
<1> USE DEF MInv, MachineType, OwnerMove, Goto, lockvars
<1>1. CASE LoopTop(p)
  BY <1>1, OwnerMoveStep DEF LoopTop
<1>2. CASE IdleDone(p)
  BY <1>2, OwnerMoveStep DEF IdleDone
<1>3. CASE PickNoYield(p)
  <2>1. yield' \in Nat
    BY <1>3 DEF PickNoYield, YieldDown
  <2>2. OwnerMove(p, Exec)
    BY <1>3, <2>1 DEF PickNoYield
  <2> QED
    BY <2>2, OwnerMoveStep
<1>4. CASE XecStart(p)
  BY <1>4, OwnerMoveStep DEF XecStart
<1>5. CASE CollectDone(p)
  BY <1>5, OwnerMoveStep DEF CollectDone
<1>6. CASE XecEnd(p)
  BY <1>6, OwnerMoveStep DEF XecEnd, AfterXec
<1>7. CASE Block(p)
  BY <1>7, OwnerMoveStep DEF Block, AfterXec
<1>8. CASE Raise(p) \/ Broken(p) \/ ExitStart(p)
  <2>1. CASE Raise(p)
    BY <2>1, OwnerMoveStep DEF Raise
  <2>2. CASE Broken(p)
    BY <2>2, OwnerMoveStep DEF Broken
  <2>3. CASE ExitStart(p)
    BY <2>3, OwnerMoveStep DEF ExitStart
  <2> QED
    BY <1>8, <2>1, <2>2, <2>3
<1>9. CASE Freeprog(p)
  BY <1>9, OwnerMoveStep DEF Freeprog
<1>10. CASE KillRequest(p) \/ KillgrpRequest(p)
  BY <1>10, OwnerMoveStep DEF KillRequest, KillgrpRequest
<1>11. ASSUME NEW q \in Progs, Addrun(p, q) \/ Newprog(p, q) \/ KillGone(p, q)
                               \/ KillLater(p, q)
       PROVE  MInv'
  <2>1. pc[p] \in Owner \ {Asleep} /\ pc' = [pc EXCEPT ![p] = pc[p]]
    BY <1>11 DEF Addrun, Newprog, KillGone, KillLater
  <2>2. OwnerMove(p, pc[p])
    BY <1>11, <2>1 DEF Addrun, Newprog, KillGone, KillLater
  <2> QED
    BY <2>1, <2>2, OwnerMoveStep
<1>12. ASSUME NEW q \in Progs, Killprog(p, q)
       PROVE  MInv'
  BY <1>12, OwnerMoveStep DEF Killprog
<1> QED
  BY <1>1, <1>2, <1>3, <1>4, <1>5, <1>6, <1>7, <1>8, <1>9, <1>10, <1>11, <1>12

----------------------------------------------------------------------------
(* The steps that move the machine. *)

\* What release does to the machine and to its caller, up to the choice of the
\* vmachine that it starts.
LEMMA ReleaseStep ==
  ASSUME MInv, NEW p \in Procs, NEW l \in Owner,
         pc[p] \in Owner \ {Asleep}, Release(p, l)
  PROVE  MInv'
<1> USE DEF MInv, MachineType
<1>1. CASE vmq # <<>>
  <2>1. /\ Tail(vmq) \in Seq(Procs) /\ IsInjective(Tail(vmq))
        /\ ToSet(Tail(vmq)) = ToSet(vmq) \ {Head(vmq)}
        /\ Head(vmq) \in ToSet(vmq) /\ Head(vmq) \in Procs
    BY <1>1, TailSet
  <2>2. /\ vmq' = Tail(vmq) /\ to' = [to EXCEPT ![p] = Head(vmq)]
        /\ pc' = [pc EXCEPT ![p] = Giving] /\ then' = [then EXCEPT ![p] = l]
        /\ UNCHANGED <<idle, yield, irend>>
    BY <1>1 DEF Release, Goto
  <2> DEFINE h == Head(vmq)
             Q == ToSet(vmq)
  <2>3. /\ ToSet(vmq') = Q \ {h} /\ h \in Q /\ h \in Procs
        /\ to' = [to EXCEPT ![p] = h]
    BY <2>1, <2>2
  <2>4. MachineType'
    BY <2>1, <2>2
  <2> HIDE DEF h
  <2>5. ThenInv' /\ HolderInv' /\ IrendInv'
    BY <2>2 DEF ThenInv, HolderInv, IrendInv
  <2>6. \A q \in Procs : q # p => pc[q] \notin {Giving, Yielding}
    BY DEF HolderInv
  <2>7. VmqInv'
    BY <1>1, <2>2, <2>3, <2>6 DEF VmqInv
  <2>8. HandInv'
    BY <2>2, <2>3, <2>6 DEF VmqInv, HandInv
  <2> QED
    BY <2>4, <2>5, <2>7, <2>8
<1>2. CASE vmq = <<>>
  <2>1. PICK v \in Vms : pc[v] = Unborn
                         /\ pc' = [pc EXCEPT ![p] = Out, ![v] = Start]
    BY <1>2 DEF Release
  <2>2. /\ idle' = TRUE /\ then' = [then EXCEPT ![p] = l]
        /\ UNCHANGED <<vmq, to, yield, irend>>
    BY <1>2 DEF Release
  <2>3. ToSet(vmq) = {}
    BY <1>2, EmptySet
  <2>4. MachineType' /\ ThenInv' /\ IrendInv'
    BY <2>1, <2>2 DEF ThenInv, IrendInv
  <2>5. HolderInv'
    BY <2>1, <2>2 DEF HolderInv
  <2>6. VmqInv'
    BY <1>2, <2>1, <2>2, <2>3 DEF VmqInv, HolderInv
  <2>7. HandInv'
    BY <2>1, <2>2 DEF HolderInv, HandInv
  <2> QED
    BY <2>4, <2>5, <2>6, <2>7
<1> QED
  BY <1>1, <1>2

LEMMA ReleaseMoves ==
  ASSUME MInv, NEW p \in Procs,
         \/ IdleSweep(p) \/ Sweep(p) \/ Call(p) \/ DestroyFile(p) \/ Delprog(p)
         \/ KillDone(p)
  PROVE  MInv'
<1>1. CASE IdleSweep(p)
  BY <1>1, ReleaseStep DEF IdleSweep
<1>2. CASE Sweep(p)
  BY <1>2, ReleaseStep DEF Sweep
<1>3. CASE Call(p)
  BY <1>3, ReleaseStep DEF Call
<1>4. CASE DestroyFile(p)
  BY <1>4, ReleaseStep DEF DestroyFile
<1>5. CASE Delprog(p)
  BY <1>5, ReleaseStep DEF Delprog
<1>6. CASE KillDone(p)
  BY <1>6, ReleaseStep DEF KillDone
<1> QED
  BY <1>1, <1>2, <1>3, <1>4, <1>5, <1>6

\* acquire and startup take the idle machine.
LEMMA TakeIdleStep ==
  ASSUME MInv, NEW p \in Procs, AcquireIdle(p) \/ StartIdle(p)
  PROVE  MInv'
<1> USE DEF MInv, MachineType
<1>1. PICK l \in Owner :
         /\ pc[p] \in {Out, Start} /\ pc' = [pc EXCEPT ![p] = l]
         /\ \E t \in Owner \cup {Nobody} : then' = [then EXCEPT ![p] = t]
  <2>1. CASE AcquireIdle(p)
    BY <2>1 DEF AcquireIdle, Regain, Goto, ThenInv
  <2>2. CASE StartIdle(p)
    <3>1. then' = [then EXCEPT ![p] = then[p]]
      BY <2>2 DEF StartIdle
    <3> QED
      BY <2>2, <3>1 DEF StartIdle, Goto
  <2> QED
    BY <2>1, <2>2
<1>2. idle /\ idle' = FALSE /\ UNCHANGED <<vmq, to, yield, irend>>
  BY DEF AcquireIdle, StartIdle, IdleAfterTake, Regain
<1>3. \A q \in Procs : pc[q] \notin Holders
  BY <1>2 DEF HolderInv
<1>4. MachineType' /\ ThenInv'
  BY <1>1, <1>2 DEF ThenInv
<1>5. HolderInv' /\ IrendInv'
  BY <1>1, <1>2, <1>3 DEF HolderInv, IrendInv
<1>6. VmqInv'
  BY <1>1, <1>2, <1>3 DEF VmqInv
<1>7. HandInv'
  BY <1>1, <1>2, <1>3 DEF HandInv
<1> QED
  BY <1>4, <1>5, <1>6, <1>7

\* acquire and startup queue up.
LEMMA QueueStep ==
  ASSUME MInv, NEW p \in Procs, AcquireQueue(p) \/ StartQueue(p)
  PROVE  MInv'
<1> USE DEF MInv, MachineType
<1>1. p \notin ToSet(vmq) /\ pc[p] \in {Out, Start}
  BY DEF VmqInv, AcquireQueue, StartQueue
<1>2. /\ vmq' \in Seq(Procs) /\ IsInjective(vmq')
      /\ ToSet(vmq') = ToSet(vmq) \cup {p}
  <2>1. CASE AcquireQueue(p)
    BY <1>1, <2>1, ConsSet DEF AcquireQueue, Enqueue
  <2>2. CASE StartQueue(p)
    BY <1>1, <2>2, AppendSet DEF StartQueue
  <2> QED
    BY <2>1, <2>2
<1>3. /\ ~idle /\ UNCHANGED <<idle, to, irend>> /\ yield' \in Nat
  BY DEF AcquireQueue, StartQueue
<1>4. PICK l \in {Wait, Waker} : pc' = [pc EXCEPT ![p] = l]
  BY DEF AcquireQueue, StartQueue, Goto
<1>5. PICK t \in Owner : then' = [then EXCEPT ![p] = t]
  <2>1. CASE AcquireQueue(p)
    <3>1. then' = [then EXCEPT ![p] = then[p]] /\ then[p] \in Owner
      BY <2>1 DEF AcquireQueue, ThenInv
    <3> QED
      BY <3>1
  <2>2. CASE StartQueue(p)
    BY <2>2 DEF StartQueue
  <2> QED
    BY <2>1, <2>2
<1>6. MachineType' /\ ThenInv' /\ HolderInv' /\ IrendInv'
  BY <1>1, <1>2, <1>3, <1>4, <1>5 DEF ThenInv, HolderInv, IrendInv
<1>7. VmqInv'
  BY <1>1, <1>2, <1>3, <1>4 DEF VmqInv
<1>8. HandInv'
  BY <1>1, <1>2, <1>3, <1>4 DEF HandInv
<1> QED
  BY <1>6, <1>7, <1>8

\* Wakeup(&isched.irend).
LEMMA WakeIrendStep ==
  ASSUME MInv, NEW p \in Procs, WakeIrend(p)
  PROVE  MInv'
<1> USE IschedAssumption DEF MInv, MachineType, WakeIrend, lockvars
<1>1. \A q \in Procs : pc'[q] = IF q = p THEN Wait
                                ELSE IF q = irend THEN Pick ELSE pc[q]
  OBVIOUS
<1>2. \A q \in Procs : q = irend => pc[q] = Asleep /\ pc'[q] = Pick
  BY <1>1 DEF IrendInv
<1>3. MachineType' /\ ThenInv' /\ IrendInv'
  BY <1>1, <1>2 DEF ThenInv, IrendInv
<1>4. HolderInv'
  BY <1>1, <1>2 DEF HolderInv
<1>5. VmqInv'
  <2>1. ToSet(vmq) \subseteq Procs /\ VmqInv
    BY EmptySet
  <2>2. UNCHANGED <<idle, vmq, to>>
    OBVIOUS
  <2>3. \A q \in Procs :
           /\ pc'[q] \in {Wait, Waker} <=> pc[q] \in {Wait, Waker}
           /\ pc'[q] = Giving <=> pc[q] = Giving
           /\ pc'[q] = Yielding <=> pc[q] = Yielding
    BY <1>1, <1>2
  <2> HIDE DEF MInv, MachineType, WakeIrend, Wait, Waker, Giving, Yielding,
               Procs
  <2> QED
    BY <2>1, <2>2, <2>3 DEF VmqInv
<1>6. HandInv'
  BY <1>1, <1>2 DEF HandInv
<1> QED
  BY <1>3, <1>4, <1>5, <1>6

\* The rendezvous with the process that was taken off vmq.
LEMMA MeetStep ==
  ASSUME MInv, NEW g \in Procs, Meet(g)
  PROVE  MInv'
<1> USE IschedAssumption DEF MInv, MachineType
<1> DEFINE h == to[g]
<1>1. /\ pc[g] \in {Giving, Yielding} /\ pc[h] = Wait
      /\ h \in Procs \ ToSet(vmq) /\ h # g /\ then[h] \in Owner
  BY DEF Meet, HandInv, ThenInv
<1>2. /\ pc' = [pc EXCEPT ![h] = then[h],
                          ![g] = IF pc[g] = Giving THEN Out ELSE Wait]
      /\ to' = [to EXCEPT ![g] = Nobody]
      /\ then' = [then EXCEPT ![h] = Nobody]
      /\ UNCHANGED <<idle, vmq, yield, irend>>
  BY DEF Meet, Regain, lockvars
<1> HIDE DEF h
<1>3. \A q \in Procs : q # g => pc[q] \notin Holders
  BY <1>1 DEF HolderInv
<1>4. MachineType' /\ ThenInv'
  BY <1>1, <1>2 DEF ThenInv
<1>5. HolderInv' /\ IrendInv'
  BY <1>1, <1>2, <1>3 DEF HolderInv, IrendInv
<1>6. \A q \in Procs : pc'[q] \notin {Giving, Yielding}
  BY <1>1, <1>2, <1>3
<1>7. VmqInv'
  <2>1. idle' => vmq' = <<>>
    BY <1>2 DEF VmqInv
  <2>2. \A q \in ToSet(vmq') : pc'[q] \in {Wait, Waker, Yielding}
    <3>1. ToSet(vmq) \subseteq Procs
      BY EmptySet
    <3> QED
      BY <1>1, <1>2, <1>3, <3>1 DEF VmqInv
  <2>3. \A q \in Procs : pc'[q] \in {Wait, Waker} => q \in ToSet(vmq')
    BY <1>1, <1>2, <1>3 DEF VmqInv, HandInv, h
  <2> QED
    BY <2>1, <2>2, <2>3 DEF VmqInv
<1>8. HandInv'
  BY <1>6 DEF HandInv
<1> QED
  BY <1>4, <1>5, <1>7, <1>8

\* iyield queues its caller behind the others and takes off the first.
LEMMA IyieldStep ==
  ASSUME MInv, NEW v \in Procs, Iyield(v)
  PROVE  MInv'
<1> USE DEF MInv, MachineType
<1> DEFINE h == Head(vmq)
           Q == ToSet(vmq)
<1>1. /\ vmq # <<>> /\ yield # 0 /\ pc[v] = Pick
      /\ pc' = [pc EXCEPT ![v] = Yielding]
      /\ to' = [to EXCEPT ![v] = h] /\ then' = [then EXCEPT ![v] = Exec]
      /\ vmq' = Append(Tail(vmq), v) /\ yield' = yield - 1
      /\ UNCHANGED <<idle, irend>>
  BY DEF Iyield, AfterIyield, YieldDown, Goto
<1>2. /\ Tail(vmq) \in Seq(Procs) /\ IsInjective(Tail(vmq))
      /\ ToSet(Tail(vmq)) = Q \ {h} /\ h \in Q /\ h \in Procs
  BY <1>1, TailSet
<1>3. v \notin Q
  BY <1>1 DEF VmqInv
<1>4. /\ vmq' \in Seq(Procs) /\ IsInjective(vmq')
      /\ ToSet(vmq') = (Q \ {h}) \cup {v}
  <2> HIDE DEF h, Q
  <2> DEFINE t == Tail(vmq)
  <2>1. vmq' = Append(t, v) /\ v \notin ToSet(t)
    BY <1>1, <1>2, <1>3
  <2>2. t \in Seq(Procs) /\ IsInjective(t) /\ ToSet(t) = Q \ {h}
    BY <1>2
  <2> HIDE DEF t
  <2> QED
    BY <2>1, <2>2, AppendSet
<1>5. yield' \in Nat
  BY <1>1
<1> HIDE DEF h
<1>6. \A q \in Procs : q # v => pc[q] \notin Holders
  BY <1>1 DEF HolderInv
<1>7. MachineType' /\ ThenInv' /\ IrendInv'
  BY <1>1, <1>2, <1>4, <1>5 DEF ThenInv, IrendInv
<1>8. HolderInv'
  BY <1>1, <1>6 DEF HolderInv
<1>9. VmqInv'
  BY <1>1, <1>2, <1>3, <1>4, <1>6 DEF VmqInv, HolderInv
<1>10. HandInv'
  BY <1>1, <1>2, <1>3, <1>4, <1>6 DEF VmqInv, HandInv
<1> QED
  BY <1>7, <1>8, <1>9, <1>10

\* A thread that failed while it was away.
LEMMA FailStep ==
  ASSUME MInv, NEW v \in Procs, Fail(v)
  PROVE  MInv'
BY DEF MInv, MachineType, Fail, ThenInv, HolderInv, VmqInv, HandInv, IrendInv,
       lockvars

LEMMA NextMInv ==
  ASSUME MInv, [Next]_vars
  PROVE  MInv'
<1>1. CASE UNCHANGED vars
  BY <1>1 DEF vars, MInv, MachineType, ThenInv, HolderInv, VmqInv, HandInv,
     IrendInv
<1>2. CASE Next
  <2>1. PICK p \in Procs :
           \/ AcquireIdle(p) \/ AcquireQueue(p) \/ Proceed(p) \/ XecEnd(p)
           \/ Call(p) \/ Decide(p)
    BY <1>2 DEF Next
  <2> USE OwnerMoves, ReleaseMoves, TakeIdleStep, QueueStep, WakeIrendStep,
          MeetStep, IyieldStep, FailStep
  <2>2. CASE Proceed(p)
    BY <2>2 DEF Proceed
  <2>3. CASE Decide(p)
    BY <2>3 DEF Decide
  <2> QED
    BY <2>1, <2>2, <2>3
<1> QED
  BY <1>1, <1>2

LEMMA MachineInvariant == Spec => []MInv
<1>1. MInv /\ [Next]_vars => MInv'
  BY NextMInv
<1> QED
  BY <1>1, InitMInv, PTL DEF Spec

\* There is one virtual machine, whatever acquire, release, iyield and startup
\* do to each other: no two processes interpret, and it is never lost.
THEOREM MachineIsOne == Spec => []OneMachine
<1>1. MInv => OneMachine
  <2> SUFFICES ASSUME MInv PROVE OneMachine
    OBVIOUS
  <2> DEFINE A == {p \in Procs : pc[p] \in Owner} \cup InTransit
  <2>1. \A p : p \in A <=> p \in Procs /\ pc[p] \in Holders
    BY DEF InTransit
  <2> HIDE DEF A
  <2>2. CASE idle
    <3>1. A = {}
      BY <2>1, <2>2 DEF MInv, HolderInv
    <3>2. Cardinality(A) = 0
      BY <3>1, FS_EmptySet
    <3> QED
      BY <2>2, <3>2 DEF OneMachine, A
  <2>3. CASE ~idle
    <3>1. PICK p \in Procs : pc[p] \in Holders
      BY <2>3 DEF MInv, HolderInv
    <3>2. A = {p}
      BY <2>1, <3>1 DEF MInv, HolderInv
    <3>3. Cardinality(A) = 1
      BY <3>2, FS_Singleton
    <3> QED
      BY <2>3, <3>3 DEF OneMachine, A
  <2> QED
    BY <2>2, <2>3
<1> QED
  BY <1>1, MachineInvariant, PTL

\* Nobody waits in vain for the machine: a process that waits is on vmq, once,
\* or has been taken off it by the process that is about to meet it.
THEOREM WaitersKept == Spec => []WaitersQueued
<1>1. MInv => WaitersQueued
  <2> SUFFICES ASSUME MInv PROVE WaitersQueued
    OBVIOUS
  <2> USE DEF MInv, MachineType
  <2>1. ToSet(vmq) \subseteq Procs
    BY EmptySet
  <2>2. ToSet(vmq) \cap {to[g] : g \in InTransit} = {}
    BY DEF HandInv, InTransit
  <2>3. {p \in Procs : pc[p] \in {Wait, Waker}}
           \subseteq ToSet(vmq) \cup {to[g] : g \in InTransit}
    BY DEF VmqInv, InTransit
  <2>4. ToSet(vmq) \cup {to[g] : g \in InTransit}
           \subseteq {p \in Procs : pc[p] \in {Wait, Waker}}
                     \cup {p \in Procs : pc[p] = Yielding}
    BY <2>1 DEF VmqInv, HandInv, InTransit
  <2> QED
    BY <2>2, <2>3, <2>4 DEF VmqInv, WaitersQueued
<1> QED
  BY <1>1, MachineInvariant, PTL

----------------------------------------------------------------------------
(* The threads.  The second half builds on the first: only the owner of    *)
(* the machine touches the run queue and the states of the threads.        *)

\* Where p is, or goes on when it is back from where the machine was not its.
Place(p) == IF pc[p] \in Away THEN then[p] ELSE pc[p]

\* An owner with its own Prog at the head of the run queue.
OwnProg(p) == pc[p] = IdleGC \/ (p \in Kprocs /\ pc[p] \in Owner)

\* An owner that is at work for the thread at the head of the run queue.
ForThread(p) ==
    p \in Vms /\ pc[p] \in {Run, Held, Raised, Exit, Killing, Reap, Free, Collect}

\* Where the thread at the head may have been marked by its own kill.
MayKill(p) == p \in Vms /\ pc[p] \in {Killing, Reap, Free}

ThreadType ==
    /\ runq \in Seq(Progs \cup Procs) /\ IsInjective(runq)
    /\ state \in [Progs -> {"none", "ready", "blocked", "release", "exiting",
                            "broken", "dead"}]
    /\ listed \subseteq Progs /\ kill \subseteq Progs
    /\ regs \in [Progs -> Progs] /\ R \in Progs \cup {Nobody}
    /\ iprog \in [Procs -> Progs \cup {Nobody}]
    /\ victim \in [Procs -> Progs \cup {Nobody}]

\* Kernel processes use the machine only to work on Dis data and to kill.
PlaceInv ==
    /\ irend \in Vms \cup {Nobody}
    /\ \A p \in Kprocs : pc[p] \in Away \cup {Held, Killing, Reap, Free}
    /\ \A p \in Procs :
          /\ p \in Kprocs /\ pc[p] \in Away => then[p] \in {Held, Reap, Free}
          /\ pc[p] = Yielding => then[p] = Exec
          /\ then[p] \in Resumes \cup {Loop, Exec, Nobody}
          /\ then[p] # Nobody <=> pc[p] \in Away \cup {Yielding}

\* The head of the run queue is what its owner works for.
HeadInv ==
    \A p \in Procs :
        /\ OwnProg(p) => runq # <<>> /\ Head(runq) = p
        /\ ForThread(p) =>
              /\ runq # <<>> /\ Head(runq) \in Progs
              /\ R \in Progs

\* The run queue holds the ready threads, and at its head perhaps the owner's
\* own Prog, or its thread on the way out.
RunqInv ==
    /\ \A x \in ToSet(runq) \cap Progs :
          \/ state[x] = "ready"
          \/ state[x] = "exiting" /\ \E p \in Procs : MayKill(p) /\ Head(runq) = x
    /\ \A x \in ToSet(runq) \cap Procs : OwnProg(x)
    /\ \A q \in Progs : state[q] = "ready" => q \in ToSet(runq)

\* A vmachine that left the machine in the middle of an instruction keeps its
\* thread, which no other one has and the run queue has not.
IprogInv ==
    /\ \A p \in Procs :
          iprog[p] # Nobody <=>
              p \in Vms /\ pc[p] \in Away /\ then[p] \in Resumes \ {IdleGC}
    /\ \A p \in Procs : iprog[p] # Nobody =>
          state[iprog[p]] \in {"release", "exiting"} /\ iprog[p] \notin ToSet(runq)
    /\ \A p, r \in Procs : iprog[p] # Nobody /\ iprog[p] = iprog[r] => p = r
    /\ \A q \in Progs : state[q] = "release" => \E p \in Procs : iprog[p] = q

\* q has been taken out of all the places where a thread can be found.
Gone(q) ==
    /\ state[q] = "exiting" /\ q \notin ToSet(runq)
    /\ \A p \in Procs : iprog[p] # q

\* What delprog deletes is either the thread that it runs for or one that was
\* taken out by killprog, and another one deletes another.
VictimInv ==
    /\ \A p \in Procs :
          /\ victim[p] # Nobody <=> Place(p) \in {Reap, Free}
          /\ Place(p) = Reap => Gone(victim[p])
          /\ Place(p) = Free =>
                /\ victim[p] \notin listed
                /\ \/ Gone(victim[p])
                   \/ pc[p] = Free /\ Head(runq) = victim[p]
                   \/ pc[p] \in Away /\ iprog[p] = victim[p]
    /\ \A p, r \in Procs : victim[p] # Nobody /\ victim[p] = victim[r] => p = r
    /\ \A q \in Progs : state[q] = "dead" => q \notin listed

TInv ==
    /\ ThreadType /\ PlaceInv /\ HeadInv /\ RunqInv /\ IprogInv /\ VictimInv

USE DEF Place, OwnProg, ForThread, MayKill, Gone, Resumes

\* What rotating does to a run queue.
LEMMA RotateSet ==
  ASSUME NEW S, NEW s \in Seq(S), IsInjective(s)
  PROVE  /\ Rotate(s) \in Seq(S) /\ IsInjective(Rotate(s))
         /\ ToSet(Rotate(s)) = ToSet(s)
         /\ s # <<>> => Rotate(s) # <<>> /\ Head(Rotate(s)) \in ToSet(s)
<1>1. CASE Len(s) > 1
  <2>1. s # <<>>
    BY <1>1, EmptySeq
  <2> DEFINE t == Tail(s)
             h == Head(s)
  <2>2. /\ t \in Seq(S) /\ h \in S /\ h \in ToSet(s)
        /\ IsInjective(t) /\ ToSet(t) = ToSet(s) \ {h}
    BY <2>1, TailSet
  <2>3. Rotate(s) = Append(t, h)
    BY <1>1 DEF Rotate
  <2> HIDE DEF t, h
  <2>4. /\ Rotate(s) \in Seq(S) /\ IsInjective(Rotate(s))
        /\ ToSet(Rotate(s)) = ToSet(s) /\ Rotate(s) # <<>>
    <3>1. /\ Append(t, h) \in Seq(S) /\ IsInjective(Append(t, h))
          /\ ToSet(Append(t, h)) = ToSet(t) \cup {h} /\ Append(t, h) # <<>>
      BY <2>2, AppendSet
    <3> QED
      BY <2>2, <2>3, <3>1
  <2>5. Head(Rotate(s)) \in ToSet(s)
    BY <2>4, TailSet
  <2> QED
    BY <2>4, <2>5
<1>2. CASE ~(Len(s) > 1)
  BY <1>2, TailSet DEF Rotate
<1> QED
  BY <1>1, <1>2

LEMMA PickNoYieldThreads ==
  ASSUME MInv, TInv, NEW p \in Procs, PickNoYield(p)
  PROVE  TInv'
<1> USE IschedAssumption, NobodyAssumption DEF TInv, ThreadType, PickNoYield,
  YieldDown, Goto, lockvars, progvars, killvars
<1>0. \A r \in Procs : r # p => pc[r] \notin Owner \cup {Giving, Yielding}
  BY DEF MInv, HolderInv
<1>p. pc \in [Procs -> Owner \cup Away \cup {Yielding, Unborn, Start}]
       /\ then \in [Procs -> Owner \cup {Nobody}]
  BY DEF MInv, MachineType
<1>1. ThreadType'
  BY <1>0, <1>p DEF HeadInv
<1>2. PlaceInv'
  BY <1>0, <1>p DEF PlaceInv
<1>3. HeadInv'
  BY <1>0, <1>p DEF HeadInv, RunqInv, PlaceInv
<1>4. RunqInv'
  BY <1>0, <1>p DEF RunqInv, HeadInv, PlaceInv
<1>5. IprogInv'
  BY <1>0, <1>p DEF RunqInv, HeadInv, PlaceInv, IprogInv
<1>6. VictimInv'
  BY <1>0, <1>p DEF RunqInv, HeadInv, PlaceInv, IprogInv, VictimInv
<1> QED
  BY <1>1, <1>2, <1>3, <1>4, <1>5, <1>6 DEF TInv

LEMMA XecStartThreads ==
  ASSUME MInv, TInv, NEW p \in Procs, XecStart(p)
  PROVE  TInv'
<1> USE IschedAssumption, NobodyAssumption DEF TInv, ThreadType, XecStart,
  Goto, lockvars, progvars, killvars
<1>0. \A r \in Procs : r # p => pc[r] \notin Owner \cup {Giving, Yielding}
  BY DEF MInv, HolderInv
<1>p. pc \in [Procs -> Owner \cup Away \cup {Yielding, Unborn, Start}]
       /\ then \in [Procs -> Owner \cup {Nobody}]
  BY DEF MInv, MachineType
<1>q. runq # <<>> => Head(runq) \in ToSet(runq) /\ Head(runq) \in Progs
  <2>1. runq # <<>> => Head(runq) \in ToSet(runq)
                       /\ Head(runq) \in Progs \cup Procs
    BY TailSet
  <2> QED
    BY <1>0, <1>p, <2>1 DEF RunqInv, PlaceInv
<1>1. ThreadType'
  BY <1>0, <1>p, <1>q DEF HeadInv
<1>2. PlaceInv'
  BY <1>0, <1>p, <1>q DEF PlaceInv
<1>3. HeadInv'
  BY <1>0, <1>p, <1>q DEF HeadInv, RunqInv, PlaceInv
<1>4. RunqInv'
  BY <1>0, <1>p, <1>q DEF RunqInv, HeadInv, PlaceInv
<1>5. IprogInv'
  BY <1>0, <1>p, <1>q DEF RunqInv, HeadInv, PlaceInv, IprogInv
<1>6. VictimInv'
  BY <1>0, <1>p, <1>q DEF RunqInv, HeadInv, PlaceInv, IprogInv, VictimInv
<1> QED
  BY <1>1, <1>2, <1>3, <1>4, <1>5, <1>6 DEF TInv

LEMMA CollectDoneThreads ==
  ASSUME MInv, TInv, NEW p \in Procs, CollectDone(p)
  PROVE  TInv'
<1> USE IschedAssumption, NobodyAssumption DEF TInv, ThreadType, CollectDone,
  Goto, lockvars, progvars, killvars
<1>0. \A r \in Procs : r # p => pc[r] \notin Owner \cup {Giving, Yielding}
  BY DEF MInv, HolderInv
<1>p. pc \in [Procs -> Owner \cup Away \cup {Yielding, Unborn, Start}]
       /\ then \in [Procs -> Owner \cup {Nobody}]
  BY DEF MInv, MachineType
<1>1. ThreadType'
  BY <1>0, <1>p DEF HeadInv
<1>2. PlaceInv'
  BY <1>0, <1>p DEF PlaceInv
<1>3. HeadInv'
  BY <1>0, <1>p DEF HeadInv, RunqInv, PlaceInv
<1>4. RunqInv'
  BY <1>0, <1>p DEF RunqInv, HeadInv, PlaceInv
<1>5. IprogInv'
  BY <1>0, <1>p DEF RunqInv, HeadInv, PlaceInv, IprogInv
<1>6. VictimInv'
  BY <1>0, <1>p DEF RunqInv, HeadInv, PlaceInv, IprogInv, VictimInv
<1> QED
  BY <1>1, <1>2, <1>3, <1>4, <1>5, <1>6 DEF TInv

LEMMA RaiseThreads ==
  ASSUME MInv, TInv, NEW p \in Procs, Raise(p)
  PROVE  TInv'
<1> USE IschedAssumption, NobodyAssumption DEF TInv, ThreadType, Raise, Goto,
  lockvars, progvars, killvars
<1>0. \A r \in Procs : r # p => pc[r] \notin Owner \cup {Giving, Yielding}
  BY DEF MInv, HolderInv
<1>p. pc \in [Procs -> Owner \cup Away \cup {Yielding, Unborn, Start}]
       /\ then \in [Procs -> Owner \cup {Nobody}]
  BY DEF MInv, MachineType
<1>1. ThreadType'
  BY <1>0, <1>p DEF HeadInv
<1>2. PlaceInv'
  BY <1>0, <1>p DEF PlaceInv
<1>3. HeadInv'
  BY <1>0, <1>p DEF HeadInv, RunqInv, PlaceInv
<1>4. RunqInv'
  BY <1>0, <1>p DEF RunqInv, HeadInv, PlaceInv
<1>5. IprogInv'
  BY <1>0, <1>p DEF RunqInv, HeadInv, PlaceInv, IprogInv
<1>6. VictimInv'
  BY <1>0, <1>p DEF RunqInv, HeadInv, PlaceInv, IprogInv, VictimInv
<1> QED
  BY <1>1, <1>2, <1>3, <1>4, <1>5, <1>6 DEF TInv

LEMMA ExitStartThreads ==
  ASSUME MInv, TInv, NEW p \in Procs, ExitStart(p)
  PROVE  TInv'
<1> USE IschedAssumption, NobodyAssumption DEF TInv, ThreadType, ExitStart,
  Goto, lockvars, progvars, killvars
<1>0. \A r \in Procs : r # p => pc[r] \notin Owner \cup {Giving, Yielding}
  BY DEF MInv, HolderInv
<1>p. pc \in [Procs -> Owner \cup Away \cup {Yielding, Unborn, Start}]
       /\ then \in [Procs -> Owner \cup {Nobody}]
  BY DEF MInv, MachineType
<1>1. ThreadType'
  BY <1>0, <1>p DEF HeadInv
<1>2. PlaceInv'
  BY <1>0, <1>p DEF PlaceInv
<1>3. HeadInv'
  BY <1>0, <1>p DEF HeadInv, RunqInv, PlaceInv
<1>4. RunqInv'
  BY <1>0, <1>p DEF RunqInv, HeadInv, PlaceInv
<1>5. IprogInv'
  BY <1>0, <1>p DEF RunqInv, HeadInv, PlaceInv, IprogInv
<1>6. VictimInv'
  BY <1>0, <1>p DEF RunqInv, HeadInv, PlaceInv, IprogInv, VictimInv
<1> QED
  BY <1>1, <1>2, <1>3, <1>4, <1>5, <1>6 DEF TInv

LEMMA KillRequestThreads ==
  ASSUME MInv, TInv, NEW p \in Procs, KillRequest(p)
  PROVE  TInv'
<1> USE IschedAssumption, NobodyAssumption DEF TInv, ThreadType, KillRequest,
  Goto, lockvars, progvars, killvars
<1>0. \A r \in Procs : r # p => pc[r] \notin Owner \cup {Giving, Yielding}
  BY DEF MInv, HolderInv
<1>p. pc \in [Procs -> Owner \cup Away \cup {Yielding, Unborn, Start}]
       /\ then \in [Procs -> Owner \cup {Nobody}]
  BY DEF MInv, MachineType
<1>1. ThreadType'
  BY <1>0, <1>p DEF HeadInv
<1>2. PlaceInv'
  BY <1>0, <1>p DEF PlaceInv
<1>3. HeadInv'
  BY <1>0, <1>p DEF HeadInv, RunqInv, PlaceInv
<1>4. RunqInv'
  BY <1>0, <1>p DEF RunqInv, HeadInv, PlaceInv
<1>5. IprogInv'
  BY <1>0, <1>p DEF RunqInv, HeadInv, PlaceInv, IprogInv
<1>6. VictimInv'
  BY <1>0, <1>p DEF RunqInv, HeadInv, PlaceInv, IprogInv, VictimInv
<1> QED
  BY <1>1, <1>2, <1>3, <1>4, <1>5, <1>6 DEF TInv

LEMMA KillgrpRequestThreads ==
  ASSUME MInv, TInv, NEW p \in Procs, KillgrpRequest(p)
  PROVE  TInv'
<1> USE IschedAssumption, NobodyAssumption DEF TInv, ThreadType,
  KillgrpRequest, Goto, lockvars, progvars, killvars
<1>0. \A r \in Procs : r # p => pc[r] \notin Owner \cup {Giving, Yielding}
  BY DEF MInv, HolderInv
<1>p. pc \in [Procs -> Owner \cup Away \cup {Yielding, Unborn, Start}]
       /\ then \in [Procs -> Owner \cup {Nobody}]
  BY DEF MInv, MachineType
<1>1. ThreadType'
  BY <1>0, <1>p DEF HeadInv
<1>2. PlaceInv'
  BY <1>0, <1>p DEF PlaceInv
<1>3. HeadInv'
  BY <1>0, <1>p DEF HeadInv, RunqInv, PlaceInv
<1>4. RunqInv'
  BY <1>0, <1>p DEF RunqInv, HeadInv, PlaceInv
<1>5. IprogInv'
  BY <1>0, <1>p DEF RunqInv, HeadInv, PlaceInv, IprogInv
<1>6. VictimInv'
  BY <1>0, <1>p DEF RunqInv, HeadInv, PlaceInv, IprogInv, VictimInv
<1> QED
  BY <1>1, <1>2, <1>3, <1>4, <1>5, <1>6 DEF TInv

LEMMA KillGoneThreads ==
  ASSUME MInv, TInv, NEW p \in Procs, NEW q \in Progs, KillGone(p, q)
  PROVE  TInv'
<1> USE IschedAssumption, NobodyAssumption DEF TInv, ThreadType, KillGone,
  KillAtOnce, Goto, lockvars, progvars, killvars
<1>0. \A r \in Procs : r # p => pc[r] \notin Owner \cup {Giving, Yielding}
  BY DEF MInv, HolderInv
<1>p. pc \in [Procs -> Owner \cup Away \cup {Yielding, Unborn, Start}]
       /\ then \in [Procs -> Owner \cup {Nobody}]
  BY DEF MInv, MachineType
<1>1. ThreadType'
  BY <1>0, <1>p DEF HeadInv
<1>2. PlaceInv'
  BY <1>0, <1>p DEF PlaceInv
<1>3. HeadInv'
  BY <1>0, <1>p DEF HeadInv, RunqInv, PlaceInv
<1>4. RunqInv'
  BY <1>0, <1>p DEF RunqInv, HeadInv, PlaceInv
<1>5. IprogInv'
  BY <1>0, <1>p DEF RunqInv, HeadInv, PlaceInv, IprogInv
<1>6. VictimInv'
  BY <1>0, <1>p DEF RunqInv, HeadInv, PlaceInv, IprogInv, VictimInv
<1> QED
  BY <1>1, <1>2, <1>3, <1>4, <1>5, <1>6 DEF TInv

LEMMA KillLaterThreads ==
  ASSUME MInv, TInv, NEW p \in Procs, NEW q \in Progs, KillLater(p, q)
  PROVE  TInv'
<1> USE IschedAssumption, NobodyAssumption DEF TInv, ThreadType, KillLater,
  KillAtOnce, Goto, lockvars, progvars, killvars
<1>0. \A r \in Procs : r # p => pc[r] \notin Owner \cup {Giving, Yielding}
  BY DEF MInv, HolderInv
<1>p. pc \in [Procs -> Owner \cup Away \cup {Yielding, Unborn, Start}]
       /\ then \in [Procs -> Owner \cup {Nobody}]
  BY DEF MInv, MachineType
<1>1. ThreadType'
  BY <1>0, <1>p DEF HeadInv
<1>2. PlaceInv'
  BY <1>0, <1>p DEF PlaceInv
<1>3. HeadInv'
  BY <1>0, <1>p DEF HeadInv, RunqInv, PlaceInv
<1>4. RunqInv'
  BY <1>0, <1>p DEF RunqInv, HeadInv, PlaceInv
<1>5. IprogInv'
  BY <1>0, <1>p DEF RunqInv, HeadInv, PlaceInv, IprogInv
<1>6. VictimInv'
  BY <1>0, <1>p DEF RunqInv, HeadInv, PlaceInv, IprogInv, VictimInv
<1> QED
  BY <1>1, <1>2, <1>3, <1>4, <1>5, <1>6 DEF TInv

LEMMA LoopTopThreads ==
  ASSUME MInv, TInv, NEW p \in Procs, LoopTop(p)
  PROVE  TInv'
<1> USE IschedAssumption, NobodyAssumption DEF TInv, ThreadType, LoopTop,
  Goto, lockvars, progvars, killvars
<1>0. \A r \in Procs : r # p => pc[r] \notin Owner \cup {Giving, Yielding}
  BY DEF MInv, HolderInv
<1>p. pc \in [Procs -> Owner \cup Away \cup {Yielding, Unborn, Start}]
       /\ then \in [Procs -> Owner \cup {Nobody}]
  BY DEF MInv, MachineType
<1>q. \/ tready /\ runq' = runq /\ pc' = [pc EXCEPT ![p] = Pick]
      \/ /\ runq = <<>> /\ ToSet(runq) = {} /\ runq' # <<>> /\ Head(runq') = p
         /\ runq' \in Seq(Progs \cup Procs) /\ IsInjective(runq')
         /\ ToSet(runq') = {p} /\ pc' = [pc EXCEPT ![p] = IdleGC]
  <2>1. CASE tready
    BY <2>1
  <2>2. CASE ~tready
    <3>1. runq = <<>> /\ runq' = Append(runq, p)
      BY <2>2 DEF tready
    <3>2. ToSet(runq) = {}
      BY <3>1, EmptySet
    <3>3. /\ Append(runq, p) \in Seq(Progs \cup Procs)
          /\ IsInjective(Append(runq, p)) /\ Append(runq, p) # <<>>
          /\ ToSet(Append(runq, p)) = ToSet(runq) \cup {p}
      <4>1. p \in Progs \cup Procs /\ p \notin ToSet(runq)
        BY <3>2
      <4> HIDE DEF Procs
      <4> QED
        BY <4>1, AppendSet
    <3>4. Head(Append(runq, p)) = p
      BY <3>1
    <3> QED
      BY <2>2, <3>1, <3>2, <3>3, <3>4
  <2> QED
    BY <2>1, <2>2
<1>1. ThreadType'
  BY <1>0, <1>p, <1>q DEF HeadInv
<1>2. PlaceInv'
  BY <1>0, <1>p, <1>q DEF PlaceInv
<1>3. HeadInv'
  BY <1>0, <1>p, <1>q DEF HeadInv, RunqInv, PlaceInv
<1>4. RunqInv'
  BY <1>0, <1>p, <1>q DEF RunqInv, HeadInv, PlaceInv
<1>5. IprogInv'
  BY <1>0, <1>p, <1>q DEF RunqInv, HeadInv, PlaceInv, IprogInv
<1>6. VictimInv'
  BY <1>0, <1>p, <1>q DEF RunqInv, HeadInv, PlaceInv, IprogInv, VictimInv
<1> QED
  BY <1>1, <1>2, <1>3, <1>4, <1>5, <1>6 DEF TInv

LEMMA IdleDoneThreads ==
  ASSUME MInv, TInv, NEW p \in Procs, IdleDone(p)
  PROVE  TInv'
<1> USE IschedAssumption, NobodyAssumption DEF TInv, ThreadType, IdleDone,
  Goto, lockvars, progvars, killvars
<1>0. \A r \in Procs : r # p => pc[r] \notin Owner \cup {Giving, Yielding}
  BY DEF MInv, HolderInv
<1>p. pc \in [Procs -> Owner \cup Away \cup {Yielding, Unborn, Start}]
       /\ then \in [Procs -> Owner \cup {Nobody}]
  BY DEF MInv, MachineType
<1>q. /\ runq' \in Seq(Progs \cup Procs) /\ IsInjective(runq')
      /\ ToSet(runq') = ToSet(runq) \ {p}
  BY RemoveSet
<1>1. ThreadType'
  BY <1>0, <1>p, <1>q DEF HeadInv
<1>2. PlaceInv'
  BY <1>0, <1>p, <1>q DEF PlaceInv
<1>3. HeadInv'
  BY <1>0, <1>p, <1>q DEF HeadInv, RunqInv, PlaceInv
<1>4. RunqInv'
  BY <1>0, <1>p, <1>q DEF RunqInv, HeadInv, PlaceInv
<1>5. IprogInv'
  BY <1>0, <1>p, <1>q DEF RunqInv, HeadInv, PlaceInv, IprogInv
<1>6. VictimInv'
  BY <1>0, <1>p, <1>q DEF RunqInv, HeadInv, PlaceInv, IprogInv, VictimInv
<1> QED
  BY <1>1, <1>2, <1>3, <1>4, <1>5, <1>6 DEF TInv

LEMMA XecEndThreads ==
  ASSUME MInv, TInv, NEW p \in Procs, XecEnd(p)
  PROVE  TInv'
<1> USE IschedAssumption, NobodyAssumption DEF TInv, ThreadType, XecEnd,
  AfterXec, Goto, lockvars, progvars, killvars
<1>0. \A r \in Procs : r # p => pc[r] \notin Owner \cup {Giving, Yielding}
  BY DEF MInv, HolderInv
<1>p. pc \in [Procs -> Owner \cup Away \cup {Yielding, Unborn, Start}]
       /\ then \in [Procs -> Owner \cup {Nobody}]
  BY DEF MInv, MachineType
<1>q. /\ runq' \in Seq(Progs \cup Procs) /\ IsInjective(runq')
      /\ runq' # <<>> /\ Head(runq') \in ToSet(runq)
      /\ ToSet(runq') = ToSet(runq) /\ runq # <<>> /\ Head(runq) \in ToSet(runq)
      /\ Head(runq) \in Progs /\ R \in Progs
  BY RotateSet, TailSet DEF HeadInv, PlaceInv
<1>1. ThreadType'
  BY <1>0, <1>p, <1>q DEF HeadInv
<1>2. PlaceInv'
  BY <1>0, <1>p, <1>q DEF PlaceInv
<1>3. HeadInv'
  <2>1. pc' = [pc EXCEPT ![p] = Collect] /\ R' = R
    BY <1>q
  <2>2. Head(runq') \in Progs
    <3>1. Head(runq') \in Progs \cup Procs
      BY <1>q, EmptySet
    <3>2. \A x \in Procs : ~OwnProg(x)
      BY <1>0, <1>p
    <3>3. \A x \in ToSet(runq) \cap Procs : OwnProg(x)
      BY DEF RunqInv
    <3> QED
      BY <1>q, <3>1, <3>2, <3>3
  <2> QED
    BY <1>0, <1>p, <1>q, <2>1, <2>2 DEF HeadInv, PlaceInv
<1>4. RunqInv'
  BY <1>0, <1>p, <1>q DEF RunqInv, HeadInv, PlaceInv
<1>5. IprogInv'
  BY <1>0, <1>p, <1>q DEF RunqInv, HeadInv, PlaceInv, IprogInv
<1>6. VictimInv'
  BY <1>0, <1>p, <1>q DEF RunqInv, HeadInv, PlaceInv, IprogInv, VictimInv
<1> QED
  BY <1>1, <1>2, <1>3, <1>4, <1>5, <1>6 DEF TInv

LEMMA BlockThreads ==
  ASSUME MInv, TInv, NEW p \in Procs, Block(p)
  PROVE  TInv'
<1> USE IschedAssumption, NobodyAssumption DEF TInv, ThreadType, Block,
  AfterXec, Goto, lockvars, progvars, killvars
<1>0. \A r \in Procs : r # p => pc[r] \notin Owner \cup {Giving, Yielding}
  BY DEF MInv, HolderInv
<1>p. pc \in [Procs -> Owner \cup Away \cup {Yielding, Unborn, Start}]
       /\ then \in [Procs -> Owner \cup {Nobody}]
  BY DEF MInv, MachineType
<1>t. /\ runq # <<>> /\ Head(runq) \in ToSet(runq) /\ Head(runq) \in Progs
      /\ R \in Progs /\ Tail(runq) \in Seq(Progs \cup Procs)
      /\ IsInjective(Tail(runq)) /\ ToSet(Tail(runq)) = ToSet(runq) \ {Head(runq)}
  BY TailSet DEF HeadInv, PlaceInv
<1>q. /\ runq' \in Seq(Progs \cup Procs) /\ IsInjective(runq')
      /\ Tail(runq) # <<>> => runq' # <<>> /\ Head(runq') \in ToSet(runq')
      /\ ToSet(runq') = ToSet(runq) \ {Head(runq)}
      /\ runq # <<>> /\ Head(runq) \in ToSet(runq) /\ Head(runq) \in Progs
      /\ R \in Progs
  BY <1>t, RotateSet, TailSet
<1>1. ThreadType'
  BY <1>0, <1>p, <1>q DEF HeadInv
<1>2. PlaceInv'
  BY <1>0, <1>p, <1>q DEF PlaceInv
<1>3. HeadInv'
  <2>1. CASE Tail(runq) = <<>>
    <3>1. pc' = [pc EXCEPT ![p] = Loop]
      BY <2>1
    <3> QED
      BY <1>0, <1>p, <3>1 DEF HeadInv, PlaceInv
  <2>2. CASE Tail(runq) # <<>>
    <3>1. pc' = [pc EXCEPT ![p] = Collect] /\ R' = R
      BY <2>2
    <3>2. runq' # <<>> /\ Head(runq') \in ToSet(runq)
      BY <1>q, <2>2
    <3>3. Head(runq') \in Progs
      <4>1. Head(runq') \in Progs \cup Procs
        BY <3>2, EmptySet
      <4>2. \A x \in Procs : ~OwnProg(x)
        BY <1>0, <1>p DEF PlaceInv
      <4>3. \A x \in ToSet(runq) \cap Procs : OwnProg(x)
        BY DEF RunqInv
      <4> QED
        BY <3>2, <4>1, <4>2, <4>3
    <3> QED
      BY <1>0, <1>p, <1>q, <3>1, <3>2, <3>3 DEF HeadInv, PlaceInv
  <2> QED
    BY <2>1, <2>2
<1>4. RunqInv'
  BY <1>0, <1>p, <1>q DEF RunqInv, HeadInv, PlaceInv
<1>5. IprogInv'
  BY <1>0, <1>p, <1>q DEF RunqInv, HeadInv, PlaceInv, IprogInv
<1>6. VictimInv'
  <2>1. /\ UNCHANGED <<victim, iprog, listed, then>>
        /\ pc[p] = Run /\ pc'[p] \in {Loop, Collect}
        /\ \A r \in Procs : r # p => pc'[r] = pc[r]
    BY <1>p
  <2>2. \A q \in Progs :
           state'[q] = IF q = Head(runq) THEN "blocked" ELSE state[q]
    BY <1>q
  <2>3. /\ Head(runq) \in ToSet(runq) /\ ToSet(runq') \subseteq ToSet(runq)
        /\ \A r \in Procs : victim[r] \in Progs \cup {Nobody}
        /\ VictimInv /\ Nobody \notin Progs
    BY <1>q
  <2> HIDE DEF MInv, TInv, ThreadType, Block, AfterXec, Goto
  <2> QED
    BY <1>0, <2>1, <2>2, <2>3 DEF VictimInv
<1> QED
  BY <1>1, <1>2, <1>3, <1>4, <1>5, <1>6 DEF TInv

LEMMA BrokenThreads ==
  ASSUME MInv, TInv, NEW p \in Procs, Broken(p)
  PROVE  TInv'
<1> USE IschedAssumption, NobodyAssumption DEF TInv, ThreadType, Broken,
  Goto, lockvars, progvars, killvars
<1>0. \A r \in Procs : r # p => pc[r] \notin Owner \cup {Giving, Yielding}
  BY DEF MInv, HolderInv
<1>p. pc \in [Procs -> Owner \cup Away \cup {Yielding, Unborn, Start}]
       /\ then \in [Procs -> Owner \cup {Nobody}]
  BY DEF MInv, MachineType
<1>q. /\ runq # <<>> /\ Head(runq) \in ToSet(runq) /\ Head(runq) \in Progs
      /\ R \in Progs /\ runq' \in Seq(Progs \cup Procs)
      /\ IsInjective(runq') /\ ToSet(runq') = ToSet(runq) \ {Head(runq)}
  BY TailSet DEF HeadInv, PlaceInv
<1>1. ThreadType'
  BY <1>0, <1>p, <1>q DEF HeadInv
<1>2. PlaceInv'
  BY <1>0, <1>p, <1>q DEF PlaceInv
<1>3. HeadInv'
  BY <1>0, <1>p, <1>q DEF HeadInv, RunqInv, PlaceInv
<1>4. RunqInv'
  BY <1>0, <1>p, <1>q DEF RunqInv, HeadInv, PlaceInv
<1>5. IprogInv'
  BY <1>0, <1>p, <1>q DEF RunqInv, HeadInv, PlaceInv, IprogInv
<1>6. VictimInv'
  BY <1>0, <1>p, <1>q DEF RunqInv, HeadInv, PlaceInv, IprogInv, VictimInv
<1> QED
  BY <1>1, <1>2, <1>3, <1>4, <1>5, <1>6 DEF TInv

LEMMA FreeprogThreads ==
  ASSUME MInv, TInv, NEW p \in Procs, Freeprog(p)
  PROVE  TInv'
<1> USE IschedAssumption, NobodyAssumption DEF TInv, ThreadType, Freeprog,
  FreeUnqueue, Goto, lockvars, progvars, killvars
<1>0. \A r \in Procs : r # p => pc[r] \notin Owner \cup {Giving, Yielding}
  BY DEF MInv, HolderInv
<1>p. pc \in [Procs -> Owner \cup Away \cup {Yielding, Unborn, Start}]
       /\ then \in [Procs -> Owner \cup {Nobody}]
  BY DEF MInv, MachineType
<1>q. /\ runq # <<>> /\ Head(runq) \in ToSet(runq)
      /\ runq' \in Seq(Progs \cup Procs) /\ IsInjective(runq')
      /\ \/ /\ victim[p] = Head(runq)
            /\ ToSet(runq') = ToSet(runq) \ {Head(runq)}
         \/ victim[p] # Head(runq) /\ runq' = runq
      /\ victim[p] \in Progs
      /\ p \in Kprocs => Head(runq) = p
      /\ \/ Gone(victim[p])
         \/ victim[p] = Head(runq)
  <2>1. runq # <<>> /\ (p \in Kprocs => Head(runq) = p)
    BY <1>p DEF HeadInv
  <2>2. victim[p] \in Progs /\ (Gone(victim[p]) \/ victim[p] = Head(runq))
    BY DEF VictimInv
  <2> QED
    BY <2>1, <2>2, TailSet
<1>1. ThreadType'
  BY <1>0, <1>p, <1>q DEF HeadInv
<1>2. PlaceInv'
  BY <1>0, <1>p, <1>q DEF PlaceInv
<1>3. HeadInv'
  BY <1>0, <1>p, <1>q DEF HeadInv, RunqInv, PlaceInv
<1>4. RunqInv'
  BY <1>0, <1>p, <1>q DEF RunqInv, HeadInv, PlaceInv
<1>5. IprogInv'
  BY <1>0, <1>p, <1>q DEF RunqInv, HeadInv, PlaceInv, IprogInv
<1>6. VictimInv'
  BY <1>0, <1>p, <1>q DEF RunqInv, HeadInv, PlaceInv, IprogInv, VictimInv
<1> QED
  BY <1>1, <1>2, <1>3, <1>4, <1>5, <1>6 DEF TInv

LEMMA AddrunThreads ==
  ASSUME MInv, TInv, NEW p \in Procs, NEW q \in Progs, Addrun(p, q)
  PROVE  TInv'
<1> USE IschedAssumption, NobodyAssumption DEF TInv, ThreadType, Addrun,
  Goto, lockvars, progvars, killvars
<1>0. \A r \in Procs : r # p => pc[r] \notin Owner \cup {Giving, Yielding}
  BY DEF MInv, HolderInv
<1>p. pc \in [Procs -> Owner \cup Away \cup {Yielding, Unborn, Start}]
       /\ then \in [Procs -> Owner \cup {Nobody}]
  BY DEF MInv, MachineType
<1>q. /\ runq' \in Seq(Progs \cup Procs) /\ IsInjective(runq')
      /\ ToSet(runq') = ToSet(runq) \cup {q} /\ runq' # <<>>
      /\ runq # <<>> => Head(runq') = Head(runq)
  BY AppendSet DEF RunqInv
<1>1. ThreadType'
  BY <1>0, <1>p, <1>q DEF HeadInv
<1>2. PlaceInv'
  BY <1>0, <1>p, <1>q DEF PlaceInv
<1>3. HeadInv'
  BY <1>0, <1>p, <1>q DEF HeadInv, RunqInv, PlaceInv
<1>4. RunqInv'
  BY <1>0, <1>p, <1>q DEF RunqInv, HeadInv, PlaceInv
<1>5. IprogInv'
  BY <1>0, <1>p, <1>q DEF RunqInv, HeadInv, PlaceInv, IprogInv
<1>6. VictimInv'
  BY <1>0, <1>p, <1>q DEF RunqInv, HeadInv, PlaceInv, IprogInv, VictimInv
<1> QED
  BY <1>1, <1>2, <1>3, <1>4, <1>5, <1>6 DEF TInv

LEMMA NewprogThreads ==
  ASSUME MInv, TInv, NEW p \in Procs, NEW q \in Progs, Newprog(p, q)
  PROVE  TInv'
<1> USE IschedAssumption, NobodyAssumption DEF TInv, ThreadType, Newprog,
  Goto, lockvars, progvars, killvars
<1>0. \A r \in Procs : r # p => pc[r] \notin Owner \cup {Giving, Yielding}
  BY DEF MInv, HolderInv
<1>p. pc \in [Procs -> Owner \cup Away \cup {Yielding, Unborn, Start}]
       /\ then \in [Procs -> Owner \cup {Nobody}]
  BY DEF MInv, MachineType
<1>q. /\ runq' \in Seq(Progs \cup Procs) /\ IsInjective(runq')
      /\ ToSet(runq') = ToSet(runq) \cup {q} /\ runq' # <<>>
      /\ runq # <<>> => Head(runq') = Head(runq)
  BY AppendSet DEF RunqInv
<1>1. ThreadType'
  BY <1>0, <1>p, <1>q DEF HeadInv
<1>2. PlaceInv'
  BY <1>0, <1>p, <1>q DEF PlaceInv
<1>3. HeadInv'
  BY <1>0, <1>p, <1>q DEF HeadInv, RunqInv, PlaceInv
<1>4. RunqInv'
  BY <1>0, <1>p, <1>q DEF RunqInv, HeadInv, PlaceInv
<1>5. IprogInv'
  BY <1>0, <1>p, <1>q DEF RunqInv, HeadInv, PlaceInv, IprogInv
<1>6. VictimInv'
  BY <1>0, <1>p, <1>q DEF RunqInv, HeadInv, PlaceInv, IprogInv, VictimInv
<1> QED
  BY <1>1, <1>2, <1>3, <1>4, <1>5, <1>6 DEF TInv

LEMMA KillprogThreads ==
  ASSUME MInv, TInv, NEW p \in Procs, NEW q \in Progs, Killprog(p, q)
  PROVE  TInv'
<1> USE IschedAssumption, NobodyAssumption DEF TInv, ThreadType, Killprog,
  KillAtOnce, Goto, lockvars, progvars, killvars
<1>0. \A r \in Procs : r # p => pc[r] \notin Owner \cup {Giving, Yielding}
  BY DEF MInv, HolderInv
<1>p. pc \in [Procs -> Owner \cup Away \cup {Yielding, Unborn, Start}]
       /\ then \in [Procs -> Owner \cup {Nobody}]
  BY DEF MInv, MachineType
<1>t. runq # <<>> /\ Head(runq) \in ToSet(runq)
  BY TailSet DEF HeadInv, PlaceInv
<1>q. /\ runq' \in Seq(Progs \cup Procs) /\ IsInjective(runq')
      /\ ToSet(runq') = ToSet(runq) \ {q}
      /\ runq' # <<>> /\ Head(runq') = Head(runq)
  BY <1>t, RemoveSet DEF Unqueue
<1>1. ThreadType'
  BY <1>0, <1>p, <1>q DEF HeadInv
<1>2. PlaceInv'
  BY <1>0, <1>p, <1>q DEF PlaceInv
<1>3. HeadInv'
  BY <1>0, <1>p, <1>q DEF HeadInv, RunqInv, PlaceInv
<1>4. RunqInv'
  BY <1>0, <1>p, <1>q DEF RunqInv, HeadInv, PlaceInv
<1>5. IprogInv'
  BY <1>0, <1>p, <1>q DEF RunqInv, HeadInv, PlaceInv, IprogInv
<1>6. VictimInv'
  BY <1>0, <1>p, <1>q DEF RunqInv, HeadInv, PlaceInv, IprogInv, VictimInv
<1> QED
  BY <1>1, <1>2, <1>3, <1>4, <1>5, <1>6 DEF TInv

----------------------------------------------------------------------------
(* The steps that move the machine. *)

LEMMA IyieldThreads ==
  ASSUME MInv, TInv, NEW p \in Procs, Iyield(p)
  PROVE  TInv'
<1> USE IschedAssumption, NobodyAssumption DEF TInv, ThreadType, Iyield,
  Goto, lockvars, progvars, killvars
<1>0. \A r \in Procs : r # p => pc[r] \notin Owner \cup {Giving, Yielding}
  BY DEF MInv, HolderInv
<1>p. pc \in [Procs -> Owner \cup Away \cup {Yielding, Unborn, Start}]
       /\ then \in [Procs -> Owner \cup {Nobody}]
  BY DEF MInv, MachineType
<1>1. ThreadType'
  BY <1>0, <1>p DEF HeadInv
<1>2. PlaceInv'
  BY <1>0, <1>p DEF PlaceInv
<1>3. HeadInv'
  BY <1>0, <1>p DEF HeadInv, RunqInv, PlaceInv
<1>4. RunqInv'
  BY <1>0, <1>p DEF RunqInv, HeadInv, PlaceInv
<1>5. IprogInv'
  BY <1>0, <1>p DEF RunqInv, HeadInv, PlaceInv, IprogInv
<1>6. VictimInv'
  BY <1>0, <1>p DEF RunqInv, HeadInv, PlaceInv, IprogInv, VictimInv
<1> QED
  BY <1>1, <1>2, <1>3, <1>4, <1>5, <1>6 DEF TInv

LEMMA AcquireQueueThreads ==
  ASSUME MInv, TInv, NEW p \in Procs, AcquireQueue(p)
  PROVE  TInv'
<1> USE IschedAssumption, NobodyAssumption DEF TInv, ThreadType,
  AcquireQueue, Goto, lockvars, progvars, killvars
<1>p. pc \in [Procs -> Owner \cup Away \cup {Yielding, Unborn, Start}]
       /\ then \in [Procs -> Owner \cup {Nobody}]
  BY DEF MInv, MachineType
<1>1. ThreadType'
  BY <1>p DEF HeadInv
<1>2. PlaceInv'
  BY <1>p DEF PlaceInv
<1>3. HeadInv'
  BY <1>p DEF HeadInv, RunqInv, PlaceInv
<1>4. RunqInv'
  BY <1>p DEF RunqInv, HeadInv, PlaceInv
<1>5. IprogInv'
  BY <1>p DEF RunqInv, HeadInv, PlaceInv, IprogInv
<1>6. VictimInv'
  BY <1>p DEF RunqInv, HeadInv, PlaceInv, IprogInv, VictimInv
<1> QED
  BY <1>1, <1>2, <1>3, <1>4, <1>5, <1>6 DEF TInv

LEMMA StartIdleThreads ==
  ASSUME MInv, TInv, NEW p \in Procs, StartIdle(p)
  PROVE  TInv'
<1> USE IschedAssumption, NobodyAssumption DEF TInv, ThreadType, StartIdle,
  Goto, lockvars, progvars, killvars
<1>p. pc \in [Procs -> Owner \cup Away \cup {Yielding, Unborn, Start}]
       /\ then \in [Procs -> Owner \cup {Nobody}]
  BY DEF MInv, MachineType
<1>1. ThreadType'
  BY <1>p DEF HeadInv
<1>2. PlaceInv'
  BY <1>p DEF PlaceInv
<1>3. HeadInv'
  BY <1>p DEF HeadInv, RunqInv, PlaceInv
<1>4. RunqInv'
  BY <1>p DEF RunqInv, HeadInv, PlaceInv
<1>5. IprogInv'
  BY <1>p DEF RunqInv, HeadInv, PlaceInv, IprogInv
<1>6. VictimInv'
  BY <1>p DEF RunqInv, HeadInv, PlaceInv, IprogInv, VictimInv
<1> QED
  BY <1>1, <1>2, <1>3, <1>4, <1>5, <1>6 DEF TInv

LEMMA StartQueueThreads ==
  ASSUME MInv, TInv, NEW p \in Procs, StartQueue(p)
  PROVE  TInv'
<1> USE IschedAssumption, NobodyAssumption DEF TInv, ThreadType, StartQueue,
  Goto, lockvars, progvars, killvars
<1>p. pc \in [Procs -> Owner \cup Away \cup {Yielding, Unborn, Start}]
       /\ then \in [Procs -> Owner \cup {Nobody}]
  BY DEF MInv, MachineType
<1>1. ThreadType'
  BY <1>p DEF HeadInv
<1>2. PlaceInv'
  BY <1>p DEF PlaceInv
<1>3. HeadInv'
  BY <1>p DEF HeadInv, RunqInv, PlaceInv
<1>4. RunqInv'
  BY <1>p DEF RunqInv, HeadInv, PlaceInv
<1>5. IprogInv'
  BY <1>p DEF RunqInv, HeadInv, PlaceInv, IprogInv
<1>6. VictimInv'
  BY <1>p DEF RunqInv, HeadInv, PlaceInv, IprogInv, VictimInv
<1> QED
  BY <1>1, <1>2, <1>3, <1>4, <1>5, <1>6 DEF TInv

LEMMA FailThreads ==
  ASSUME MInv, TInv, NEW p \in Procs, Fail(p)
  PROVE  TInv'
<1> USE IschedAssumption, NobodyAssumption DEF TInv, ThreadType, Fail, Goto,
  lockvars, progvars, killvars
<1>p. pc \in [Procs -> Owner \cup Away \cup {Yielding, Unborn, Start}]
       /\ then \in [Procs -> Owner \cup {Nobody}]
  BY DEF MInv, MachineType
<1>1. ThreadType'
  BY <1>p DEF HeadInv
<1>2. PlaceInv'
  BY <1>p DEF PlaceInv
<1>3. HeadInv'
  BY <1>p DEF HeadInv, RunqInv, PlaceInv
<1>4. RunqInv'
  BY <1>p DEF RunqInv, HeadInv, PlaceInv
<1>5. IprogInv'
  BY <1>p DEF RunqInv, HeadInv, PlaceInv, IprogInv
<1>6. VictimInv'
  BY <1>p DEF RunqInv, HeadInv, PlaceInv, IprogInv, VictimInv
<1> QED
  BY <1>1, <1>2, <1>3, <1>4, <1>5, <1>6 DEF TInv

LEMMA WakeIrendThreads ==
  ASSUME MInv, TInv, NEW p \in Procs, WakeIrend(p)
  PROVE  TInv'
<1> USE DEF TInv, ThreadType
<1>p. /\ pc \in [Procs -> Owner \cup Away \cup {Yielding, Unborn, Start}]
      /\ then \in [Procs -> Owner \cup {Nobody}]
  BY DEF MInv, MachineType
<1>q. \A r \in Procs :
         \/ pc'[r] = pc[r]
         \/ pc[r] = Asleep /\ pc'[r] = Pick /\ r \in Vms
         \/ pc[r] = Waker /\ pc'[r] = Wait
  BY <1>p DEF MInv, IrendInv, PlaceInv, WakeIrend
<1>u. /\ UNCHANGED <<runq, state, iprog, victim, listed, kill, regs, R, then>>
      /\ irend' = Nobody
  BY DEF WakeIrend, progvars, killvars
<1>1. ThreadType' /\ PlaceInv'
  BY <1>p, <1>q, <1>u DEF PlaceInv
<1>2. HeadInv'
  BY <1>p, <1>q, <1>u DEF HeadInv
<1>3. RunqInv'
  BY <1>p, <1>q, <1>u DEF RunqInv
<1>4. IprogInv'
  BY <1>p, <1>q, <1>u DEF IprogInv
<1>5. VictimInv'
  BY <1>p, <1>q, <1>u DEF VictimInv
<1> QED
  BY <1>1, <1>2, <1>3, <1>4, <1>5

\* What release does to its caller: it is away, and goes on at l.
Left(p, l) ==
    /\ \A r \in Procs :
          \/ r = p /\ pc'[r] \in {Giving, Out}
          \/ r # p /\ pc'[r] = pc[r]
          \/ r # p /\ pc[r] = Unborn /\ pc'[r] = Start
    /\ then' = [then EXCEPT ![p] = l]

\* An owner may release and go on at l.
MayRelease(p, l) ==
    /\ pc[p] \in Owner /\ l \in Resumes
    /\ OwnProg(p) \/ ForThread(p)
    /\ ForThread(p) <=> Interp(p, l)
    /\ p \in Kprocs => l \in {Held, Reap, Free}

LEMMA ReleaseLeaves ==
  ASSUME MInv, NEW p \in Procs, NEW l, pc[p] \in Owner, Release(p, l)
  PROVE  Left(p, l) /\ pc' \in [Procs -> Owner \cup Away \cup {Yielding, Unborn, Start}]
<1>1. pc \in [Procs -> Owner \cup Away \cup {Yielding, Unborn, Start}]
  BY DEF MInv, MachineType
<1>2. CASE vmq # <<>>
  BY <1>1, <1>2 DEF Release, Goto, Left
<1>3. CASE vmq = <<>>
  BY <1>1, <1>3 DEF Release, Left
<1> QED
  BY <1>2, <1>3

LEMMA ReleaseThreads ==
  ASSUME MInv, TInv, NEW p \in Procs, NEW l, MayRelease(p, l), Release(p, l),
         listed' \subseteq listed
  PROVE  /\ PlaceInv' /\ HeadInv' /\ RunqInv' /\ IprogInv'
         /\ victim' \in [Procs -> Progs \cup {Nobody}] => ThreadType'
<1> USE IschedAssumption, NobodyAssumption DEF TInv, ThreadType
<1>0. \A r \in Procs : r # p => pc[r] \notin Owner \cup {Giving, Yielding}
  BY DEF MInv, HolderInv, MayRelease
<1>p. /\ pc \in [Procs -> Owner \cup Away \cup {Yielding, Unborn, Start}]
      /\ then \in [Procs -> Owner \cup {Nobody}]
  BY DEF MInv, MachineType
<1>1. Left(p, l) /\ UNCHANGED <<irend, kill, R>>
      /\ pc' \in [Procs -> Owner \cup Away \cup {Yielding, Unborn, Start}]
  <2>1. UNCHANGED <<irend, kill, R>>
    BY DEF Release
  <2> QED
    BY <2>1, ReleaseLeaves DEF MayRelease
<1>2. Save(p, l)
  BY DEF Release
<1>3. /\ runq # <<>> /\ Head(runq) \in ToSet(runq)
      /\ runq' = Tail(runq) /\ runq' \in Seq(Progs \cup Procs)
      /\ IsInjective(runq') /\ ToSet(runq') = ToSet(runq) \ {Head(runq)}
  BY <1>2, TailSet DEF Save, MayRelease, HeadInv
<1>4. \/ /\ OwnProg(p) /\ ~ForThread(p) /\ ~Interp(p, l) /\ Head(runq) = p
         /\ UNCHANGED <<iprog, state, regs>>
      \/ /\ ForThread(p) /\ Interp(p, l) /\ Head(runq) \in Progs /\ R \in Progs
         /\ iprog' = [iprog EXCEPT ![p] = Head(runq)]
         /\ state' = [state EXCEPT ![Head(runq)] = "release"]
         /\ regs' = [regs EXCEPT ![Head(runq)] = R]
  BY <1>2 DEF Save, MayRelease, HeadInv
<1> USE DEF MayRelease, Left
<1>5. victim' \in [Procs -> Progs \cup {Nobody}] => ThreadType'
  BY <1>1, <1>3, <1>4
<1>6. PlaceInv'
  BY <1>p, <1>1 DEF PlaceInv
<1>7. HeadInv'
  BY <1>0, <1>p, <1>1 DEF HeadInv
<1>8. RunqInv'
  BY <1>0, <1>p, <1>1, <1>3, <1>4 DEF RunqInv
<1>9. IprogInv'
  BY <1>0, <1>p, <1>1, <1>3, <1>4 DEF IprogInv, RunqInv, Interp
<1> QED
  BY <1>5, <1>6, <1>7, <1>8, <1>9

\* What waits for its thread to be deleted waits on.
LEMMA ReleaseVictims ==
  ASSUME MInv, TInv, NEW p \in Procs, NEW l, MayRelease(p, l), Release(p, l),
         pc[p] # Free, l # Free, l = Reap <=> pc[p] = Reap,
         UNCHANGED <<listed, victim>>
  PROVE  TInv'
<1>p. pc \in [Procs -> Owner \cup Away \cup {Yielding, Unborn, Start}]
      /\ then \in [Procs -> Owner \cup {Nobody}]
  BY DEF MInv, MachineType
<1>0. \A r \in Procs : r # p => pc[r] \notin Owner \cup {Giving, Yielding}
  BY DEF MInv, HolderInv, MayRelease
<1>1. Left(p, l)
  BY ReleaseLeaves DEF MayRelease
<1>2. \A r \in Procs : Place(r)' = Place(r) \/ (r = p /\ Place(p)' = l)
                       \/ (r # p /\ Place(r) = Unborn /\ Place(r)' = Start)
  BY <1>p, <1>1 DEF Left
<1>3. Save(p, l)
  BY DEF Release
<1>4. /\ runq # <<>> /\ Head(runq) \in ToSet(runq)
      /\ ToSet(runq') = ToSet(runq) \ {Head(runq)}
  BY <1>3, TailSet DEF Save, MayRelease, HeadInv, TInv, ThreadType
<1>5. \/ UNCHANGED <<iprog, state>>
      \/ /\ Head(runq) \in Progs
         /\ iprog' = [iprog EXCEPT ![p] = Head(runq)]
         /\ state' = [state EXCEPT ![Head(runq)] = "release"]
  BY <1>3 DEF Save, MayRelease, HeadInv, TInv
<1>6. VictimInv'
  <2> USE DEF TInv, ThreadType
  <2>1. \A q \in Progs : Gone(q) => Gone(q)'
    BY <1>4, <1>5
  <2>2. \A r \in Procs : r # p /\ Place(r) = Free =>
                         pc[r] \in Away /\ pc'[r] = pc[r] /\ iprog'[r] = iprog[r]
    BY <1>0, <1>p, <1>1, <1>5 DEF Left
  <2> QED
    BY <1>p, <1>1, <1>2, <1>4, <1>5, <2>1, <2>2 DEF VictimInv, Left,
      MayRelease
<1> QED
  BY <1>6, ReleaseThreads DEF TInv, ThreadType

LEMMA ReleaseMovesThreads ==
  ASSUME MInv, TInv, NEW p \in Procs,
         \/ IdleSweep(p) \/ Sweep(p) \/ Call(p) \/ DestroyFile(p) \/ KillDone(p)
  PROVE  TInv'
<1> USE DEF killvars
<1>0. p \in Kprocs => pc[p] \in Away \cup {Held, Killing, Reap, Free}
  BY DEF TInv, PlaceInv
<1>1. CASE IdleSweep(p)
  <2>1. MayRelease(p, IdleGC)
    BY <1>0, <1>1, IschedAssumption DEF MayRelease, IdleSweep, Interp
  <2> QED
    BY <1>1, <2>1, ReleaseVictims DEF IdleSweep
<1>2. CASE Sweep(p)
  <2>1. MayRelease(p, Collect)
    BY <1>0, <1>2, IschedAssumption DEF MayRelease, Sweep, Interp
  <2> QED
    BY <1>2, <2>1, ReleaseVictims DEF Sweep
<1>3. CASE Call(p)
  <2>1. MayRelease(p, Held)
    BY <1>0, <1>3, IschedAssumption DEF MayRelease, Call, Interp
  <2> QED
    BY <1>3, <2>1, ReleaseVictims DEF Call
<1>4. CASE DestroyFile(p)
  <2>1. MayRelease(p, pc[p])
    BY <1>0, <1>4, IschedAssumption DEF MayRelease, DestroyFile, Interp
  <2> QED
    BY <1>4, <2>1, ReleaseVictims DEF DestroyFile
<1>5. CASE KillDone(p)
  <2>1. MayRelease(p, Held)
    BY <1>0, <1>5, IschedAssumption DEF MayRelease, KillDone, Interp
  <2> QED
    BY <1>5, <2>1, ReleaseVictims DEF KillDone
<1> QED
  BY <1>1, <1>2, <1>3, <1>4, <1>5

\* delprog takes its victim off the list of threads, and then releases.
LEMMA DelprogThreads ==
  ASSUME MInv, TInv, NEW p \in Procs, Delprog(p)
  PROVE  TInv'
<1> DEFINE q == IF pc[p] = Exit THEN Head(runq) ELSE victim[p]
<1>p. pc \in [Procs -> Owner \cup Away \cup {Yielding, Unborn, Start}]
      /\ then \in [Procs -> Owner \cup {Nobody}]
  BY DEF MInv, MachineType
<1>0. \A r \in Procs : r # p => pc[r] \notin Owner \cup {Giving, Yielding}
  BY DEF MInv, HolderInv, Delprog
<1>1. /\ pc[p] \in {Exit, Reap} /\ Release(p, Free)
      /\ listed' = listed \ {q} /\ victim' = [victim EXCEPT ![p] = q]
  BY DEF Delprog
<1>2. MayRelease(p, Free)
  <2>1. p \in Kprocs => pc[p] \in Away \cup {Held, Killing, Reap, Free}
    BY DEF TInv, PlaceInv
  <2> QED
    BY <1>1, <2>1, IschedAssumption DEF MayRelease, Interp
<1>3. Left(p, Free)
  BY <1>1, <1>2, ReleaseLeaves DEF MayRelease
<1>4. Save(p, Free)
  BY <1>1 DEF Release
<1>5. /\ runq # <<>> /\ Head(runq) \in ToSet(runq)
      /\ ToSet(runq') = ToSet(runq) \ {Head(runq)}
  BY <1>2, <1>4, TailSet DEF Save, MayRelease, HeadInv, TInv, ThreadType
<1>6. \/ /\ p \in Kprocs /\ Head(runq) = p
         /\ UNCHANGED <<iprog, state>>
      \/ /\ p \in Vms /\ Head(runq) \in Progs
         /\ iprog' = [iprog EXCEPT ![p] = Head(runq)]
         /\ state' = [state EXCEPT ![Head(runq)] = "release"]
  BY <1>1, <1>2, <1>4 DEF Save, MayRelease, HeadInv, TInv, Interp
<1>q. /\ q \in Progs
      /\ \/ pc[p] = Exit /\ q = Head(runq) /\ p \in Vms
         \/ pc[p] = Reap /\ q = victim[p] /\ Gone(q)
  BY <1>1, <1>2, IschedAssumption DEF MayRelease, HeadInv, VictimInv, TInv,
                                      ThreadType, PlaceInv
<1>7. PICK x \in Progs :
         /\ listed' = listed \ {x} /\ victim' = [victim EXCEPT ![p] = x]
         /\ \/ pc[p] = Exit /\ x = Head(runq) /\ p \in Vms
            \/ pc[p] = Reap /\ x = victim[p] /\ Gone(x)
  BY <1>1, <1>q
<1> HIDE DEF q
<1>8. VictimInv'
  <2> USE DEF TInv, ThreadType
  <2>1. \A y \in Progs : Gone(y) => Gone(y)'
    BY <1>5, <1>6
  <2>2. \A r \in Procs : r # p /\ Place(r) = Free =>
           pc[r] \in Away /\ pc'[r] = pc[r] /\ iprog'[r] = iprog[r]
    BY <1>0, <1>p, <1>3, <1>6 DEF Left
  <2>3. ASSUME NEW r \in Procs, r # p PROVE victim[r] # x
    <3>1. CASE pc[p] = Reap
      BY <1>7, <2>3, <3>1, IschedAssumption DEF VictimInv
    <3>2. CASE pc[p] = Exit
      <4>1. x \in ToSet(runq) /\ x # Nobody
        BY <1>5, <1>7, <3>2, IschedAssumption
      <4>2. iprog[r] # x
        BY <4>1 DEF IprogInv
      <4>3. ~Gone(x) /\ pc[r] # Free
        BY <1>0, <2>3, <4>1
      <4> QED
        BY <4>1, <4>2, <4>3 DEF VictimInv
    <3> QED
      BY <1>7, <3>1, <3>2
  <2>4. Gone(x)' \/ (pc'[p] \in Away /\ iprog'[p] = x)
    <3>1. CASE pc[p] = Reap
      BY <1>7, <2>1, <3>1
    <3>2. CASE pc[p] = Exit
      BY <1>3, <1>6, <1>7, <3>2, IschedAssumption DEF Left
    <3> QED
      BY <1>7, <3>1, <3>2
  <2>5. \A r \in Procs : Place(r)' = Place(r) \/ (r = p /\ Place(p)' = Free)
                         \/ (r # p /\ Place(r) = Unborn /\ Place(r)' = Start)
    BY <1>p, <1>3 DEF Left
  <2>6. \A r \in Procs : r # p => victim'[r] = victim[r]
    BY <1>7
  <2>7. victim'[p] = x /\ Place(p)' = Free
    BY <1>7, <1>p, <1>3 DEF Left, TInv, ThreadType
  <2>8. ASSUME NEW r \in Procs
        PROVE  /\ victim'[r] # Nobody <=> Place(r)' \in {Reap, Free}
               /\ Place(r)' = Reap => Gone(victim[r])'
               /\ Place(r)' = Free =>
                     /\ victim'[r] \notin listed'
                     /\ \/ Gone(victim[r])'
                        \/ pc'[r] \in Away /\ iprog'[r] = victim'[r]
    <3>1. CASE r = p
      BY <1>1, <1>7, <2>4, <2>7, <3>1, IschedAssumption
    <3>2. CASE r # p
      <4>1. /\ victim'[r] = victim[r]
            /\ \/ Place(r)' = Place(r)
               \/ Place(r) = Unborn /\ Place(r)' = Start
        BY <2>5, <2>6, <3>2
      <4>2. victim'[r] # Nobody <=> Place(r)' \in {Reap, Free}
        BY <4>1 DEF VictimInv
      <4>3. Place(r)' \in {Reap, Free} => Place(r)' = Place(r) /\ victim[r] \in Progs
        BY <4>1, <4>2
      <4>4. Place(r)' = Reap => Gone(victim[r])'
        BY <2>1, <4>1, <4>3 DEF VictimInv
      <4>5. Place(r)' = Free => victim'[r] \notin listed'
        BY <1>7, <4>1, <4>3 DEF VictimInv
      <4>6. Place(r)' = Free => \/ Gone(victim[r])'
                                \/ pc'[r] \in Away /\ iprog'[r] = victim'[r]
        BY <2>1, <2>2, <3>2, <4>1, <4>3 DEF VictimInv
      <4> QED
        BY <4>2, <4>4, <4>5, <4>6
    <3> QED
      BY <3>1, <3>2
  <2>9. \A r, s \in Procs : victim'[r] # Nobody /\ victim'[r] = victim'[s] => r = s
    BY <1>7, <2>3, <2>6, <2>7 DEF VictimInv
  <2>10. \A y \in Progs : state'[y] = "dead" => y \notin listed'
    BY <1>7, <1>6 DEF VictimInv
  <2> QED
    BY <2>8, <2>9, <2>10 DEF VictimInv
<1>9. victim' \in [Procs -> Progs \cup {Nobody}] /\ listed' \subseteq listed
  BY <1>7 DEF TInv, ThreadType
<1> QED
  BY <1>1, <1>2, <1>8, <1>9, ReleaseThreads DEF TInv

\* What getting the machine does for h, which takes up what it left.
LEMMA RegainThreads ==
  ASSUME MInv, TInv, NEW h \in Procs, Regain(h), pc[h] \in {Out, Wait},
         \A r \in Procs : pc[r] \notin Owner,
         pc' \in [Procs -> Owner \cup Away \cup {Yielding, Unborn, Start}],
         pc'[h] = then[h],
         \A r \in Procs : r # h =>
            \/ pc'[r] = pc[r]
            \/ pc[r] = Giving /\ pc'[r] = Out
            \/ pc[r] = Yielding /\ pc'[r] = Wait
  PROVE  TInv'
<1> USE IschedAssumption, NobodyAssumption DEF TInv, ThreadType
<1>p. /\ pc \in [Procs -> Owner \cup Away \cup {Yielding, Unborn, Start}]
      /\ then \in [Procs -> Owner \cup {Nobody}] /\ then[h] \in Owner
  BY DEF MInv, MachineType, ThenInv
<1>1. /\ then' = [then EXCEPT ![h] = Nobody]
      /\ UNCHANGED <<irend, listed, kill, regs, victim>>
  BY DEF Regain, killvars
<1>h. h \notin ToSet(runq)
  BY <1>p DEF RunqInv
<1>2. \/ /\ then[h] \in {Loop, Exec} /\ h \in Vms
         /\ UNCHANGED <<runq, iprog, state, R>>
      \/ /\ then[h] = IdleGC \/ (h \in Kprocs /\ then[h] \in {Held, Reap, Free})
         /\ runq' = <<h>> \o runq /\ UNCHANGED <<iprog, state, R>>
      \/ /\ h \in Vms /\ then[h] \in Resumes \ {IdleGC} /\ iprog[h] \in Progs
         /\ iprog' = [iprog EXCEPT ![h] = Nobody]
         /\ state' = [state EXCEPT ![iprog[h]] = "ready"]
         /\ R' = regs[iprog[h]] /\ runq' = <<iprog[h]>> \o runq
  <2>1. then[h] \in Resumes \cup {Loop, Exec} /\ pc[h] \in Away
    BY <1>p DEF PlaceInv
  <2>2. h \in Kprocs => then[h] \in {Held, Reap, Free}
    BY <2>1 DEF PlaceInv
  <2>3. CASE then[h] \notin Resumes
    BY <2>1, <2>2, <2>3 DEF Regain
  <2>4. CASE then[h] \in Resumes /\ Interp(h, then[h])
    <3>1. iprog[h] \in Progs /\ h \in Vms /\ then[h] # IdleGC
      BY <2>1, <2>4 DEF IprogInv, Interp
    <3> QED
      BY <2>4, <3>1 DEF Regain, Irestore, Requeue
  <2>5. CASE then[h] \in Resumes /\ ~Interp(h, then[h])
    BY <2>2, <2>5 DEF Regain, Requeue, Interp
  <2> QED
    BY <2>3, <2>4, <2>5
<1>3. CASE /\ then[h] \in {Loop, Exec} /\ h \in Vms
           /\ UNCHANGED <<runq, iprog, state, R>>
  <2>1. ThreadType' /\ PlaceInv'
    BY <1>p, <1>1, <1>3 DEF PlaceInv
  <2>2. HeadInv' /\ RunqInv'
    BY <1>p, <1>1, <1>3 DEF HeadInv, RunqInv
  <2>3. IprogInv'
    BY <1>p, <1>1, <1>3 DEF PlaceInv, IprogInv
  <2>4. VictimInv'
    BY <1>p, <1>1, <1>3 DEF PlaceInv, VictimInv
  <2> QED
    BY <2>1, <2>2, <2>3, <2>4
<1>4. CASE /\ then[h] = IdleGC \/ (h \in Kprocs /\ then[h] \in {Held, Reap, Free})
           /\ runq' = <<h>> \o runq /\ UNCHANGED <<iprog, state, R>>
  <2>1. /\ runq' \in Seq(Progs \cup Procs) /\ IsInjective(runq')
        /\ ToSet(runq') = ToSet(runq) \cup {h}
        /\ runq' # <<>> /\ Head(runq') = h
    BY <1>h, <1>4, ConsSet
  <2>2. ThreadType' /\ PlaceInv'
    BY <1>p, <1>1, <1>4, <2>1 DEF PlaceInv
  <2>3. HeadInv'
    BY <1>p, <1>1, <1>4, <2>1 DEF HeadInv
  <2>4. RunqInv'
    BY <1>p, <1>1, <1>4, <2>1 DEF RunqInv
  <2>5. IprogInv'
    BY <1>p, <1>1, <1>4, <2>1 DEF PlaceInv, IprogInv
  <2>6. VictimInv'
    BY <1>p, <1>1, <1>4, <2>1 DEF PlaceInv, IprogInv, VictimInv
  <2> QED
    BY <2>2, <2>3, <2>4, <2>5, <2>6
<1>5. CASE /\ h \in Vms /\ then[h] \in Resumes \ {IdleGC} /\ iprog[h] \in Progs
           /\ iprog' = [iprog EXCEPT ![h] = Nobody]
           /\ state' = [state EXCEPT ![iprog[h]] = "ready"]
           /\ R' = regs[iprog[h]] /\ runq' = <<iprog[h]>> \o runq
  <2>1. PICK q \in Progs : q = iprog[h]
    BY <1>5
  <2>2. q \notin ToSet(runq) /\ \A r \in Procs : r # h => iprog[r] # q
    BY <2>1 DEF IprogInv
  <2>3. /\ runq' \in Seq(Progs \cup Procs) /\ IsInjective(runq')
        /\ ToSet(runq') = ToSet(runq) \cup {q}
        /\ runq' # <<>> /\ Head(runq') = q
    <3> HIDE DEF Procs
    <3> QED
      BY <1>5, <2>1, <2>2, ConsSet
  <2>4. /\ h \in Vms /\ then[h] \in Resumes \ {IdleGC} /\ R' = regs[q]
        /\ iprog' = [iprog EXCEPT ![h] = Nobody]
        /\ state' = [state EXCEPT ![q] = "ready"]
    BY <1>5, <2>1
  <2>5. ThreadType' /\ PlaceInv'
    BY <1>p, <1>1, <2>3, <2>4 DEF PlaceInv
  <2>6. HeadInv'
    BY <1>p, <1>1, <2>3, <2>4 DEF HeadInv
  <2>7. RunqInv'
    BY <1>p, <1>1, <2>2, <2>3, <2>4 DEF RunqInv
  <2>8. IprogInv'
    BY <1>p, <1>1, <2>1, <2>2, <2>3, <2>4 DEF PlaceInv, IprogInv
  <2>9. VictimInv'
    BY <1>p, <1>1, <2>1, <2>2, <2>3, <2>4 DEF PlaceInv, IprogInv, VictimInv
  <2> QED
    BY <2>5, <2>6, <2>7, <2>8, <2>9
<1> QED
  BY <1>2, <1>3, <1>4, <1>5

LEMMA TakeThreads ==
  ASSUME MInv, TInv, NEW p \in Procs, AcquireIdle(p) \/ Meet(p)
  PROVE  TInv'
<1>p. /\ pc \in [Procs -> Owner \cup Away \cup {Yielding, Unborn, Start}]
      /\ then \in [Procs -> Owner \cup {Nobody}]
      /\ \A r \in Procs : pc[r] \in Away \cup {Yielding} => then[r] \in Owner
  BY DEF MInv, MachineType, ThenInv
<1>1. CASE AcquireIdle(p)
  <2>1. \A r \in Procs : pc[r] \notin Owner
    BY <1>1 DEF MInv, HolderInv, AcquireIdle
  <2>2. pc[p] = Out /\ Regain(p) /\ pc' = [pc EXCEPT ![p] = then[p]]
    BY <1>1 DEF AcquireIdle, Goto
  <2> QED
    BY <1>p, <2>1, <2>2, RegainThreads
<1>2. CASE Meet(p)
  <2> DEFINE h == to[p]
  <2>1. \A r \in Procs : pc[r] \notin Owner
    BY <1>2 DEF MInv, HolderInv, Meet
  <2>2. \A r \in Procs : r # p => pc[r] \notin {Giving, Yielding}
    BY <1>2 DEF MInv, HolderInv, Meet
  <2>3. /\ pc[p] \in {Giving, Yielding} /\ h \in Procs /\ pc[h] = Wait
        /\ Regain(h)
        /\ pc' = [pc EXCEPT ![h] = then[h],
                            ![p] = IF pc[p] = Giving THEN Out ELSE Wait]
    BY <1>2 DEF Meet, MInv, HandInv
  <2> HIDE DEF h
  <2>4. then[h] \in Owner /\ h # p
    BY <1>p, <2>3
  <2>5. pc' \in [Procs -> Owner \cup Away \cup {Yielding, Unborn, Start}]
    BY <1>p, <2>3, <2>4
  <2>6. pc'[h] = then[h]
    BY <1>p, <2>3, <2>4
  <2>7. \A r \in Procs : r # h =>
           \/ pc'[r] = pc[r]
           \/ pc[r] = Giving /\ pc'[r] = Out
           \/ pc[r] = Yielding /\ pc'[r] = Wait
    BY <1>p, <2>3, <2>4
  <2> QED
    BY <2>1, <2>3, <2>5, <2>6, <2>7, RegainThreads
<1> QED
  BY <1>1, <1>2

----------------------------------------------------------------------------
LEMMA InitTInv == Init => TInv
<1> SUFFICES ASSUME Init PROVE TInv
  OBVIOUS
<1> USE IschedAssumption, NobodyAssumption DEF Init
<1>1. /\ runq \in Seq(Init0) /\ IsInjective(runq)
      /\ Len(runq) = Cardinality(Init0) /\ DOMAIN runq = 1 .. Len(runq)
  <2>1. Cardinality(Init0) \in Nat
    BY FS_CardinalityType
  <2> QED
    BY <2>1
<1>2. ToSet(runq) = Init0
  <2>1. ToSet(runq) \subseteq Init0
    BY <1>1, EmptySet
  <2>2. runq \in Bijection(1 .. Cardinality(Init0), ToSet(runq))
    BY <1>1 DEF Bijection, Injection, Surjection, IsInjective, ToSet
  <2>3. Cardinality(ToSet(runq)) = Cardinality(Init0)
    BY <1>1, <2>2, FS_CardinalityType, FS_CountingElements DEF ExistsBijection
  <2> QED
    BY <2>1, <2>3, FS_Subset
<1>3. runq \in Seq(Progs \cup Procs)
  BY <1>1, SeqMonotonic
<1>4. ThreadType
  BY <1>1, <1>3 DEF ThreadType
<1>5. PlaceInv /\ HeadInv /\ IprogInv /\ VictimInv
  BY DEF PlaceInv, HeadInv, IprogInv, VictimInv
<1>6. RunqInv
  BY <1>2 DEF RunqInv
<1> QED
  BY <1>4, <1>5, <1>6 DEF TInv

LEMMA NextTInv ==
  ASSUME MInv, TInv, [Next]_vars
  PROVE  TInv'
<1>1. CASE UNCHANGED vars
  BY <1>1 DEF vars, TInv, ThreadType, PlaceInv, HeadInv, RunqInv, IprogInv,
     VictimInv
<1>2. CASE Next
  <2>1. PICK p \in Procs :
           \/ AcquireIdle(p) \/ AcquireQueue(p) \/ Proceed(p) \/ XecEnd(p)
           \/ Call(p) \/ Decide(p)
    BY <1>2 DEF Next
  <2>2. CASE Proceed(p)
    <3>1. ASSUME NEW q \in Progs,
                 KillGone(p, q) \/ Killprog(p, q) \/ KillLater(p, q)
          PROVE  TInv'
      BY <3>1, KillGoneThreads, KillprogThreads, KillLaterThreads
    <3> QED
      BY <2>2, <3>1, WakeIrendThreads, TakeThreads, StartIdleThreads,
         StartQueueThreads, LoopTopThreads, IdleDoneThreads,
         PickNoYieldThreads, IyieldThreads, XecStartThreads,
         CollectDoneThreads, BrokenThreads, DelprogThreads, FreeprogThreads,
         ReleaseMovesThreads DEF Proceed
  <2>3. CASE Decide(p)
    <3>1. ASSUME NEW q \in Progs, Addrun(p, q) \/ Newprog(p, q)
          PROVE  TInv'
      BY <3>1, AddrunThreads, NewprogThreads
    <3> QED
      BY <2>3, <3>1, FailThreads, BlockThreads, RaiseThreads,
         ExitStartThreads, KillRequestThreads, KillgrpRequestThreads,
         ReleaseMovesThreads DEF Decide
  <2>4. CASE AcquireIdle(p) \/ AcquireQueue(p) \/ XecEnd(p) \/ Call(p)
    BY <2>4, TakeThreads, AcquireQueueThreads, XecEndThreads,
       ReleaseMovesThreads
  <2> QED
    BY <2>1, <2>2, <2>3, <2>4
<1> QED
  BY <1>1, <1>2

----------------------------------------------------------------------------
(* The theorems about the threads. *)

LEMMA ThreadInvariant == Spec => [](MInv /\ TInv)
<1>1. MInv /\ TInv /\ [Next]_vars => (MInv /\ TInv)'
  BY NextMInv, NextTInv
<1> QED
  BY <1>1, InitMInv, InitTInv, PTL DEF Spec

\* The variables keep their types: the run queue has no thread twice, and a
\* process knows where to go on exactly when the machine is not its.
THEOREM TypeCorrect == Spec => []TypeOK
<1>1. MInv /\ TInv => TypeOK
  BY DEF MInv, MachineType, TInv, ThreadType, PlaceInv, TypeOK
<1> QED
  BY <1>1, ThreadInvariant, PTL

\* A thread is ready and on the run queue, or held by the one process that is
\* in a builtin for it, and never both or twice, whatever kill does to it.
THEOREM ThreadsOnePlace == Spec => []ThreadInOnePlace
<1>1. MInv /\ TInv => ThreadInOnePlace
  <2> SUFFICES ASSUME MInv, TInv, NEW q \in Progs
               PROVE  LET holders == {p \in Procs : iprog[p] = q}
                          queued == q \in ToSet(runq)
                      IN  /\ state[q] = "ready" => queued
                          /\ state[q] = "release" => holders # {}
                          /\ state[q] \in {"none", "blocked", "broken", "dead"} =>
                                ~queued /\ holders = {}
                          /\ Cardinality(holders) + (IF queued THEN 1 ELSE 0) <= 1
    BY DEF ThreadInOnePlace
  <2> DEFINE holders == {p \in Procs : iprog[p] = q}
             queued == q \in ToSet(runq)
  <2> USE IschedAssumption DEF TInv, ThreadType
  <2>1. /\ state[q] = "ready" => queued
        /\ state[q] = "release" => holders # {}
    BY DEF RunqInv, IprogInv
  <2>2. state[q] \in {"none", "blocked", "broken", "dead"} =>
           ~queued /\ holders = {}
    BY DEF RunqInv, IprogInv
  <2>3. holders # {} => ~queued /\ \E p : holders = {p}
    <3> SUFFICES ASSUME NEW p \in holders PROVE ~queued /\ holders = {p}
      OBVIOUS
    <3> QED
      BY DEF IprogInv
  <2> HIDE DEF holders, queued
  <2>4. Cardinality(holders) + (IF queued THEN 1 ELSE 0) <= 1
    <3>1. CASE holders = {}
      <4>1. Cardinality(holders) = 0
        BY <3>1, FS_EmptySet
      <4> QED
        BY <4>1
    <3>2. CASE holders # {}
      <4>1. ~queued /\ Cardinality(holders) = 1
        BY <2>3, <3>2, FS_Singleton
      <4> QED
        BY <4>1
    <3> QED
      BY <3>1, <3>2
  <2> QED
    BY <2>1, <2>2, <2>4 DEF holders, queued
<1> QED
  BY <1>1, ThreadInvariant, PTL

\* delprog frees a thread once, when nobody will find it or run it again.
THEOREM ThreadsFreedOnce == Spec => []FreedOnce
<1>1. MInv /\ TInv => FreedOnce
  <2> SUFFICES ASSUME MInv, TInv, NEW q \in Progs
               PROVE  /\ Cardinality({p \in Procs : victim[p] = q}) <= 1
                      /\ state[q] = "dead" =>
                            /\ {p \in Procs : victim[p] = q} = {}
                            /\ q \notin listed \cup ToSet(runq)
    BY DEF FreedOnce
  <2> DEFINE deleting == {p \in Procs : victim[p] = q}
  <2> USE IschedAssumption DEF TInv, ThreadType
  <2>1. deleting # {} => \E p : deleting = {p}
    <3> SUFFICES ASSUME NEW p \in deleting PROVE deleting = {p}
      OBVIOUS
    <3> QED
      BY DEF VictimInv
  <2>2. ASSUME state[q] = "dead"
        PROVE  deleting = {} /\ q \notin listed \cup ToSet(runq)
    <3>1. q \notin listed \cup ToSet(runq)
      BY <2>2 DEF VictimInv, RunqInv
    <3>2. \A p \in Procs : iprog[p] # q
      BY <2>2 DEF IprogInv
    <3>3. ASSUME NEW p \in Procs, victim[p] = q
          PROVE  FALSE
      <4>1. Place(p) = Free /\ pc[p] = Free /\ Head(runq) = q
        BY <2>2, <3>2, <3>3 DEF VictimInv
      <4>2. runq # <<>>
        BY <4>1 DEF HeadInv, PlaceInv, MInv, MachineType
      <4>3. q \in ToSet(runq)
        BY <4>1, <4>2, TailSet
      <4> QED
        BY <3>1, <4>3
    <3> QED
      BY <3>1, <3>3
  <2> HIDE DEF deleting
  <2>3. Cardinality(deleting) <= 1
    <3>1. CASE deleting = {}
      BY <3>1, FS_EmptySet
    <3>2. CASE deleting # {}
      <4>1. Cardinality(deleting) = 1
        BY <2>1, <3>2, FS_Singleton
      <4> QED
        BY <4>1
    <3> QED
      BY <3>1, <3>2
  <2> QED
    BY <2>2, <2>3 DEF deleting
<1> QED
  BY <1>1, ThreadInvariant, PTL
----------------------------------------------------------------------------
(* isched.yield and the order of vmq.  iyield gives the machine to whoever *)
(* is first on vmq; it is a process that wants to finish something, and    *)
(* not another vmachine in its loop, if these are in front and counted.    *)

\* The first n members of s, and no others, are in A.
InFront(n, s, A) ==
    /\ n \in Nat /\ n <= Len(s)
    /\ \A i \in 1 .. Len(s) : s[i] \in A <=> i <= n

\* Unlinking the head.
LEMMA FrontTail ==
  ASSUME NEW S, NEW s \in Seq(S), s # <<>>, NEW A, NEW n, InFront(n, s, A)
  PROVE  InFront(IF n = 0 THEN 0 ELSE n - 1, Tail(s), A)
<1>1. /\ Len(s) \in Nat \ {0} /\ Len(Tail(s)) = Len(s) - 1
      /\ \A i \in 1 .. (Len(s) - 1) : Tail(s)[i] = s[i + 1]
  OBVIOUS
<1>2. n \in Nat /\ n <= Len(s) /\ \A i \in 1 .. Len(s) : s[i] \in A <=> i <= n
  BY DEF InFront
<1> DEFINE k == IF n = 0 THEN 0 ELSE n - 1
<1>3. ASSUME NEW i \in 1 .. Len(Tail(s))
      PROVE  Tail(s)[i] \in A <=> i <= k
  <2>1. Tail(s)[i] = s[i + 1] /\ i + 1 \in 1 .. Len(s) /\ i \in Nat \ {0}
    BY <1>1, <1>3
  <2>2. s[i + 1] \in A <=> i + 1 <= n
    BY <1>2, <2>1
  <2>3. i + 1 <= n <=> i <= k
    BY <1>2, <2>1
  <2> QED
    BY <2>1, <2>2, <2>3
<1>4. k \in Nat /\ k <= Len(Tail(s))
  BY <1>1, <1>2
<1> QED
  BY <1>3, <1>4 DEF InFront

\* Linking at the tail one that is not in A.
LEMMA FrontAppend ==
  ASSUME NEW S, NEW s \in Seq(S), NEW x \in S, NEW A, NEW n, InFront(n, s, A),
         x \notin A
  PROVE  InFront(n, Append(s, x), A)
<1> DEFINE t == Append(s, x)
<1>1. /\ Len(s) \in Nat /\ Len(t) = Len(s) + 1 /\ t[Len(s) + 1] = x
      /\ \A i \in 1 .. Len(s) : t[i] = s[i]
  OBVIOUS
<1>2. n \in Nat /\ n <= Len(s) /\ \A i \in 1 .. Len(s) : s[i] \in A <=> i <= n
  BY DEF InFront
<1> HIDE DEF t
<1> QED
  BY <1>1, <1>2 DEF InFront, t

\* Linking at the head one that is in A.
LEMMA FrontCons ==
  ASSUME NEW S, NEW s \in Seq(S), NEW x \in S, NEW A, NEW n, InFront(n, s, A),
         x \in A
  PROVE  InFront(n + 1, <<x>> \o s, A)
<1> DEFINE t == <<x>> \o s
<1>1. /\ Len(s) \in Nat /\ Len(t) = Len(s) + 1 /\ t[1] = x
      /\ \A i \in 2 .. (Len(s) + 1) : t[i] = s[i - 1]
  OBVIOUS
<1>2. n \in Nat /\ n <= Len(s) /\ \A i \in 1 .. Len(s) : s[i] \in A <=> i <= n
  BY DEF InFront
<1> HIDE DEF t
<1>3. ASSUME NEW i \in 1 .. Len(t)
      PROVE  t[i] \in A <=> i <= n + 1
  <2>1. CASE i = 1
    BY <1>1, <1>2, <2>1
  <2>2. CASE i # 1
    <3>1. t[i] = s[i - 1] /\ i - 1 \in 1 .. Len(s) /\ i \in Nat
      BY <1>1, <1>3, <2>2
    <3>2. s[i - 1] \in A <=> i - 1 <= n
      BY <1>2, <3>1
    <3> QED
      BY <1>2, <3>1, <3>2
  <2> QED
    BY <2>1, <2>2
<1> QED
  BY <1>1, <1>2, <1>3 DEF InFront, t

\* Which processes beside its members are in A does not matter.
LEMMA FrontSame ==
  ASSUME NEW S, NEW s \in Seq(S), NEW A, NEW B, NEW n, InFront(n, s, A),
         \A x \in ToSet(s) : x \in A <=> x \in B
  PROVE  InFront(n, s, B)
<1>1. Len(s) \in Nat /\ \A i \in 1 .. Len(s) : s[i] \in ToSet(s)
  BY DEF ToSet
<1> QED
  BY <1>1 DEF InFront

\* The processes that wait in acquire, which come back to finish something.
Acquirers == {p \in Procs : then[p] \in Resumes}

YieldInv == \E n \in 0 .. yield : InFront(n, vmq, Acquirers)

\* Whoever released the machine comes back to finish something.
GivenInv == \A p \in Procs : pc[p] \in {Giving, Out} => then[p] \in Resumes

LEMMA NextGivenInv ==
  ASSUME MInv, GivenInv, [Next]_vars
  PROVE  GivenInv'
<1> USE DEF MInv, MachineType, GivenInv, Goto, lockvars
<1>1. CASE UNCHANGED vars
  BY <1>1 DEF vars
<1>2. CASE Next
  <2>1. PICK p \in Procs :
           \/ AcquireIdle(p) \/ AcquireQueue(p) \/ Proceed(p) \/ XecEnd(p)
           \/ Call(p) \/ Decide(p)
    BY <1>2 DEF Next
  <2>2. ASSUME NEW l \in Resumes, Release(p, l)
        PROVE  GivenInv'
    <3>1. then' = [then EXCEPT ![p] = l]
      BY <2>2 DEF Release
    <3>2. \A q \in Procs \ {p} : pc'[q] \in {Giving, Out} => pc'[q] = pc[q]
      BY <2>2 DEF Release
    <3> QED
      BY <2>2, <3>1, <3>2
  <2>3. CASE \/ IdleSweep(p) \/ Sweep(p) \/ Call(p) \/ DestroyFile(p)
             \/ Delprog(p) \/ KillDone(p)
    BY <2>2, <2>3 DEF IdleSweep, Sweep, Call, DestroyFile, Delprog, KillDone
  <2>4. CASE AcquireIdle(p) \/ AcquireQueue(p) \/ Fail(p)
    BY <2>4, NobodyAssumption DEF AcquireIdle, AcquireQueue, Fail, Regain,
       ThenInv
  <2>5. CASE Meet(p)
    <3> DEFINE t == to[p]
    <3>1. /\ pc[p] \in {Giving, Yielding} /\ pc[t] = Wait
          /\ pc' = [pc EXCEPT ![t] = then[t],
                             ![p] = IF pc[p] = Giving THEN Out ELSE Wait]
          /\ then' = [then EXCEPT ![t] = Nobody]
      BY <2>5 DEF Meet, Regain
    <3>2. t \in Procs /\ then[t] \in Owner
      BY <3>1 DEF HandInv, ThenInv
    <3> HIDE DEF t
    <3> QED
      BY <3>1, <3>2
  <2>6. CASE StartIdle(p) \/ StartQueue(p) \/ Iyield(p) \/ WakeIrend(p)
    BY <2>6 DEF StartIdle, StartQueue, Iyield, WakeIrend
  <2>7. CASE \/ LoopTop(p) \/ IdleDone(p) \/ PickNoYield(p) \/ XecStart(p)
             \/ CollectDone(p) \/ XecEnd(p) \/ Block(p)
    BY <2>7 DEF LoopTop, IdleDone, PickNoYield, XecStart, CollectDone, XecEnd,
       Block, AfterXec
  <2>8. CASE \/ Broken(p) \/ Freeprog(p) \/ Raise(p) \/ ExitStart(p)
             \/ KillRequest(p) \/ KillgrpRequest(p)
    BY <2>8 DEF Broken, Freeprog, Raise, ExitStart, KillRequest,
                KillgrpRequest
  <2>9. ASSUME NEW q \in Progs,
               \/ KillGone(p, q) \/ Killprog(p, q) \/ KillLater(p, q)
               \/ Addrun(p, q) \/ Newprog(p, q)
        PROVE  GivenInv'
    BY <2>9 DEF KillGone, Killprog, KillLater, Addrun, Newprog
  <2> QED
    BY <2>1, <2>3, <2>4, <2>5, <2>6, <2>7, <2>8, <2>9 DEF Proceed, Decide
<1> QED
  BY <1>1, <1>2

\* A step that leaves vmq alone, and what its members wait for.
LEMMA YieldSame ==
  ASSUME MInv, YieldInv, UNCHANGED <<vmq, yield>>,
         \A p \in ToSet(vmq) : then'[p] = then[p]
  PROVE  YieldInv'
<1>1. PICK n \in 0 .. yield : InFront(n, vmq, Acquirers)
  BY DEF YieldInv
<1>2. \A p \in ToSet(vmq) : p \in Acquirers <=> p \in Acquirers'
  BY DEF Acquirers
<1>3. vmq \in Seq(Procs)
  BY DEF MInv, MachineType
<1>4. InFront(n, vmq, Acquirers')
  BY <1>1, <1>2, <1>3, FrontSame
<1> QED
  BY <1>1, <1>4 DEF YieldInv

\* release: nobody on vmq has the machine.
LEMMA YieldRelease ==
  ASSUME MInv, YieldInv, NEW p \in Procs, NEW l \in Owner,
         pc[p] \in Owner, Release(p, l)
  PROVE  YieldInv'
<1>1. vmq \in Seq(Procs) /\ yield \in Nat /\ then' = [then EXCEPT ![p] = l]
      /\ yield' = yield /\ p \notin ToSet(vmq)
  BY DEF MInv, MachineType, VmqInv, Release
<1>2. CASE vmq = <<>>
  BY <1>1, <1>2, YieldSame DEF Release
<1>3. CASE vmq # <<>>
  <2>1. PICK n \in 0 .. yield : InFront(n, vmq, Acquirers)
    BY DEF YieldInv
  <2>2. vmq' = Tail(vmq) /\ Tail(vmq) \in Seq(Procs)
    BY <1>1, <1>3, TailSet DEF Release
  <2>3. ToSet(Tail(vmq)) \subseteq ToSet(vmq)
    BY <1>1, <1>3, TailSet DEF MInv, MachineType
  <2> DEFINE k == IF n = 0 THEN 0 ELSE n - 1
  <2>4. InFront(k, Tail(vmq), Acquirers)
    BY <1>1, <1>3, <2>1, FrontTail
  <2>5. k \in 0 .. yield
    BY <1>1
  <2> HIDE DEF k
  <2>6. \A x \in ToSet(Tail(vmq)) : x \in Acquirers <=> x \in Acquirers'
    BY <1>1, <2>3 DEF Acquirers
  <2>7. InFront(k, Tail(vmq), Acquirers')
    BY <2>2, <2>4, <2>6, FrontSame
  <2> QED
    BY <1>1, <2>2, <2>5, <2>7 DEF YieldInv
<1> QED
  BY <1>2, <1>3

\* acquire: in front, and counted.
LEMMA YieldAcquire ==
  ASSUME MInv, GivenInv, YieldInv, NEW p \in Procs, AcquireQueue(p)
  PROVE  YieldInv'
<1>1. /\ vmq \in Seq(Procs) /\ yield \in Nat /\ yield' = yield + 1
      /\ vmq' = <<p>> \o vmq /\ then' = then
  BY DEF MInv, MachineType, AcquireQueue, Enqueue
<1>2. p \in Acquirers
  BY DEF GivenInv, AcquireQueue, Acquirers
<1>3. PICK n \in 0 .. yield : InFront(n, vmq, Acquirers)
  BY DEF YieldInv
<1>4. InFront(n + 1, vmq', Acquirers)
  BY <1>1, <1>2, <1>3, FrontCons
<1>5. Acquirers' = Acquirers /\ n + 1 \in 0 .. yield'
  BY <1>1, <1>3 DEF Acquirers
<1> QED
  BY <1>4, <1>5 DEF YieldInv

\* startup: behind the others.
LEMMA YieldStart ==
  ASSUME MInv, YieldInv, NEW p \in Procs, StartQueue(p)
  PROVE  YieldInv'
<1>1. /\ vmq \in Seq(Procs) /\ yield' = yield /\ p \notin ToSet(vmq)
      /\ vmq' = Append(vmq, p) /\ then' = [then EXCEPT ![p] = Loop]
      /\ then \in [Procs -> Owner \cup {Nobody}]
  BY DEF MInv, MachineType, VmqInv, StartQueue, lockvars
<1>2. PICK n \in 0 .. yield : InFront(n, vmq, Acquirers)
  BY DEF YieldInv
<1>3. /\ \A x \in ToSet(vmq) : x \in Acquirers <=> x \in Acquirers'
      /\ p \notin Acquirers'
  BY <1>1 DEF Acquirers
<1>4. InFront(n, vmq, Acquirers')
  BY <1>1, <1>2, <1>3, FrontSame
<1>5. InFront(n, vmq', Acquirers')
  BY <1>1, <1>3, <1>4, FrontAppend
<1> QED
  BY <1>1, <1>2, <1>5 DEF YieldInv

\* iyield: the first one goes, and is no longer counted; the vmachine queues
\* behind the others.
LEMMA YieldIyield ==
  ASSUME MInv, YieldInv, NEW v \in Procs, Iyield(v)
  PROVE  YieldInv'
<1>1. /\ vmq \in Seq(Procs) /\ vmq # <<>> /\ yield \in Nat \ {0}
      /\ yield' = yield - 1 /\ v \notin ToSet(vmq)
      /\ vmq' = Append(Tail(vmq), v) /\ then' = [then EXCEPT ![v] = Exec]
      /\ then \in [Procs -> Owner \cup {Nobody}]
  BY DEF MInv, MachineType, VmqInv, Iyield, AfterIyield, YieldDown
<1>2. PICK n \in 0 .. yield : InFront(n, vmq, Acquirers)
  BY DEF YieldInv
<1>3. Tail(vmq) \in Seq(Procs) /\ ToSet(Tail(vmq)) \subseteq ToSet(vmq)
  BY <1>1, TailSet DEF MInv, MachineType
<1> DEFINE k == IF n = 0 THEN 0 ELSE n - 1
<1>4. InFront(k, Tail(vmq), Acquirers)
  BY <1>1, <1>2, FrontTail
<1>5. k \in 0 .. yield'
  BY <1>1, <1>2
<1> HIDE DEF k
<1>6. /\ \A x \in ToSet(Tail(vmq)) : x \in Acquirers <=> x \in Acquirers'
      /\ v \notin Acquirers'
  BY <1>1, <1>3 DEF Acquirers
<1>7. InFront(k, Tail(vmq), Acquirers')
  BY <1>3, <1>4, <1>6, FrontSame
<1>8. InFront(k, vmq', Acquirers')
  BY <1>1, <1>3, <1>6, <1>7, FrontAppend
<1> QED
  BY <1>5, <1>8 DEF YieldInv

\* iyield with nobody on vmq.
LEMMA YieldDrop ==
  ASSUME MInv, YieldInv, NEW v \in Procs, PickNoYield(v)
  PROVE  YieldInv'
<1>1. UNCHANGED <<vmq, then>> /\ yield \in Nat
  BY DEF MInv, MachineType, PickNoYield
<1>2. PICK n \in 0 .. yield : InFront(n, vmq, Acquirers)
  BY DEF YieldInv
<1>3. n \in 0 .. yield'
  <2>1. CASE yield = 0
    BY <1>2, <2>1 DEF PickNoYield
  <2>2. CASE yield # 0
    <3>1. vmq = <<>> /\ yield' = yield - 1
      BY <2>2 DEF PickNoYield, YieldDown
    <3>2. n = 0
      BY <1>2, <3>1 DEF InFront
    <3> QED
      BY <1>1, <2>2, <3>1, <3>2
  <2> QED
    BY <2>1, <2>2
<1>4. Acquirers' = Acquirers
  BY <1>1 DEF Acquirers
<1> QED
  BY <1>1, <1>2, <1>3, <1>4 DEF YieldInv

\* Who leaves Out or comes back from vmq is not on it.
LEMMA YieldOff ==
  ASSUME MInv, YieldInv, NEW p \in Procs,
         AcquireIdle(p) \/ Meet(p) \/ Fail(p)
  PROVE  YieldInv'
<1> USE DEF MInv, MachineType, lockvars
<1>1. CASE AcquireIdle(p)
  <2>1. ToSet(vmq) = {}
    BY <1>1, EmptySet DEF VmqInv, AcquireIdle
  <2> QED
    BY <1>1, <2>1, YieldSame DEF AcquireIdle, Regain
<1>2. CASE Meet(p)
  <2>1. to[p] \notin ToSet(vmq)
    BY <1>2 DEF HandInv, Meet
  <2>2. /\ then' = [then EXCEPT ![to[p]] = Nobody]
        /\ UNCHANGED <<vmq, yield>>
    BY <1>2 DEF Meet, Regain
  <2> QED
    BY <2>1, <2>2, EmptySet, YieldSame
<1>3. CASE Fail(p)
  <2>1. p \notin ToSet(vmq)
    BY <1>3 DEF VmqInv, Fail
  <2>2. then' = [then EXCEPT ![p] = Raised] /\ UNCHANGED <<vmq, yield>>
    BY <1>3 DEF Fail
  <2> QED
    BY <2>1, <2>2, EmptySet, YieldSame
<1> QED
  BY <1>1, <1>2, <1>3

LEMMA NextYieldInv ==
  ASSUME MInv, GivenInv, YieldInv, [Next]_vars
  PROVE  YieldInv'
<1>1. CASE UNCHANGED vars
  BY <1>1, YieldSame DEF vars
<1>2. CASE Next
  <2>1. PICK p \in Procs :
           \/ AcquireIdle(p) \/ AcquireQueue(p) \/ Proceed(p) \/ XecEnd(p)
           \/ Call(p) \/ Decide(p)
    BY <1>2 DEF Next
  <2>2. CASE \/ IdleSweep(p) \/ Sweep(p) \/ Call(p) \/ DestroyFile(p)
             \/ Delprog(p) \/ KillDone(p)
    BY <2>2, YieldRelease
    DEF IdleSweep, Sweep, Call, DestroyFile, Delprog, KillDone
  <2>3. CASE \/ AcquireQueue(p) \/ StartQueue(p) \/ Iyield(p)
             \/ PickNoYield(p) \/ AcquireIdle(p) \/ Meet(p) \/ Fail(p)
    BY <2>3, YieldAcquire, YieldStart, YieldIyield, YieldDrop, YieldOff
  <2>4. CASE \/ WakeIrend(p) \/ StartIdle(p) \/ LoopTop(p) \/ IdleDone(p)
             \/ XecStart(p) \/ CollectDone(p) \/ XecEnd(p) \/ Block(p)
    BY <2>4, YieldSame
    DEF WakeIrend, StartIdle, LoopTop, IdleDone, XecStart, CollectDone,
        XecEnd,
        Block, lockvars
  <2>5. CASE \/ Broken(p) \/ Freeprog(p) \/ Raise(p) \/ ExitStart(p)
             \/ KillRequest(p) \/ KillgrpRequest(p)
    BY <2>5, YieldSame
    DEF Broken, Freeprog, Raise, ExitStart, KillRequest, KillgrpRequest,
        lockvars
  <2>6. ASSUME NEW q \in Progs,
               \/ KillGone(p, q) \/ Killprog(p, q) \/ KillLater(p, q)
               \/ Addrun(p, q) \/ Newprog(p, q)
        PROVE  YieldInv'
    BY <2>6, YieldSame
    DEF KillGone, Killprog, KillLater, Addrun, Newprog, lockvars
  <2> QED
    BY <2>1, <2>2, <2>3, <2>4, <2>5, <2>6 DEF Proceed, Decide
<1> QED
  BY <1>1, <1>2

\* isched.yield counts at least the processes on vmq that come back to finish
\* something, and they are in front of the vmachines that come from their
\* loop: iyield gives way to one of them as long as there is one.
THEOREM YieldsCounted == Spec => []YieldCounts
<1>1. Init => GivenInv /\ YieldInv
  <2> SUFFICES ASSUME Init PROVE GivenInv /\ YieldInv
    OBVIOUS
  <2>1. GivenInv
    BY IschedAssumption DEF Init, GivenInv
  <2>2. InFront(0, vmq, Acquirers)
    BY DEF Init, InFront
  <2> QED
    BY <2>1, <2>2 DEF Init, YieldInv
<1>2. MInv /\ GivenInv /\ YieldInv /\ [Next]_vars => (GivenInv /\ YieldInv)'
  BY NextGivenInv, NextYieldInv
<1>3. MInv /\ YieldInv => YieldCounts
  <2> SUFFICES ASSUME MInv, YieldInv PROVE YieldCounts
    OBVIOUS
  <2> DEFINE acquirers == {i \in DOMAIN vmq : then[vmq[i]] \in Resumes}
  <2>1. PICK n \in 0 .. yield : InFront(n, vmq, Acquirers)
    BY DEF YieldInv
  <2>2. /\ Len(vmq) \in Nat /\ DOMAIN vmq = 1 .. Len(vmq)
        /\ \A i \in DOMAIN vmq : vmq[i] \in Procs
        /\ yield \in Nat
    BY DEF MInv, MachineType
  <2>3. acquirers = 1 .. n
    BY <2>1, <2>2 DEF InFront, Acquirers
  <2> HIDE DEF acquirers
  <2>4. Cardinality(acquirers) = n
    BY <2>1, <2>3, FS_Interval
  <2>5. \A i \in acquirers : 1 .. i \subseteq acquirers
    BY <2>1, <2>3
  <2>6. yield >= Cardinality(acquirers)
    BY <2>1, <2>2, <2>4
  <2> QED
    BY <2>5, <2>6 DEF YieldCounts, acquirers
<1> QED
  BY <1>1, <1>2, <1>3, MachineInvariant, PTL DEF Spec
=============================================================================
