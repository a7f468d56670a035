------------------------------- MODULE Isched -------------------------------
(***************************************************************************)
(* The virtual machine and its scheduler, emu/dis.c.  Every host process   *)
(* that is a vmachine can interpret Dis, one at a time: the right to do so *)
(* passes through acquire, release, iyield and startup.  Kernel processes  *)
(* take it too, to work on Dis data.  Whoever has it owns the run queue,   *)
(* the list of threads and the one register set R.                         *)
(*                                                                         *)
(* A step of an owner that only the owner can observe is one action; every *)
(* section under isched.l, every rendezvous and the Wakeup of isched.irend *)
(* is one of its own.  The value of a register set is the thread whose     *)
(* registers they are.  gchalt is up while some process is away from the   *)
(* virtual machine in the middle of a destruction.                         *)
(*                                                                         *)
(* The process's own Prog (up->prog), which a kernel process or a          *)
(* collecting vmachine puts on the run queue, is named by the process.     *)
(***************************************************************************)
EXTENDS Naturals, Sequences, FiniteSets, SequencesExt

CONSTANTS Vms,         \* host processes that are or can become a vmachine
          Kprocs,      \* kernel processes that acquire the virtual machine
          Progs,       \* Dis threads, each created at most once
          Main,        \* disinit: the first vmachine
          Init0,       \* the threads there are when it starts
          Nobody,      \* nil
          FileCycles,  \* garbage that only the collector finds holds files
          MaxYield     \* bound: isched.yield from which no process comes back

Procs == Vms \cup Kprocs

ASSUME IschedAssumption ==
    /\ Main \in Vms /\ Init0 \subseteq Progs /\ IsFiniteSet(Init0)
    /\ Vms \cap Kprocs = {} /\ Progs \cap Procs = {}
    /\ Nobody \notin Procs \cup Progs
    /\ FileCycles \in BOOLEAN /\ MaxYield \in Nat

VARIABLES idle,     \* isched.idle
          yield,    \* isched.yield
          vmq,      \* isched.vmq .. vmqt
          irend,    \* isched.irend.p
          runq,     \* isched.runhd .. runtl
          listed,   \* isched.head .. tail
          state,    \* p->state
          kill,     \* the threads whose kill is set
          regs,     \* p->R
          R,
          iprog,    \* up->iprog
          victim,   \* the thread that delprog is deleting
          todo,     \* progwrite's pids still to be killed
          grp,      \* the processes in progwrite's "killgrp"
          to,       \* the process that release or iyield hands over to
          then,     \* where a process that waits for the machine goes on
          pc

vars == <<idle, yield, vmq, irend, runq, listed, state, kill, regs, R, iprog,
          victim, todo, grp, to, then, pc>>
lockvars == <<idle, yield, vmq>>
progvars == <<listed, state, kill, regs, R>>
killvars == <<victim, todo, grp>>

Unborn == "unborn"
Start  == "start"      \* startup, before lock(&isched.l)
\* Away from the virtual machine.
Giving == "giving"     \* release: in rendezvous(p, 0)
Out    == "out"        \* between release and acquire
Waker  == "waker"      \* acquire: about to Wakeup(&isched.irend)
Wait   == "wait"       \* in rendezvous(up, 0)
\* Owners of it.
Loop   == "loop"       \* the top of vmachine's loop
IdleGC == "idlegc"     \* execatidle, as IdleGC
Asleep == "asleep"     \* Sleep(&isched.irend, tready, 0)
Pick   == "pick"       \* about to test isched.yield
Yielding == "yielding" \* iyield: in rendezvous(p, 0)
Exec   == "exec"       \* about to read isched.runhd
Run    == "run"        \* in xec, in an instruction
Held   == "held"       \* back from acquire, in a builtin or a device
Raised == "raised"     \* progexit, with the machine
Exit   == "exit"       \* progexit: destroystack
Killing == "killing"   \* progwrite: going through its pids
Reap   == "reap"       \* killprog: destroystack
Free   == "free"       \* delprog, after its acquire
Collect == "collect"   \* rungc

Away == {Giving, Out, Waker, Wait}
Owner == {Loop, IdleGC, Asleep, Pick, Exec, Run, Held, Raised, Exit, Killing,
          Reap, Free, Collect}

ASSUME NobodyAssumption == Nobody \notin Owner

\* Where an owner that gave the machine away for a moment goes on.
Resumes == {IdleGC, Held, Raised, Exit, Reap, Free, Collect}

tready == runq # <<>> \/ yield # 0
Goto(p, l) == pc' = [pc EXCEPT ![p] = l]

gchalted == \E p \in Procs :
    pc[p] \in Away /\ then[p] \in {IdleGC, Exit, Reap, Free, Collect}

Init ==
    /\ idle = TRUE /\ yield = 0 /\ vmq = <<>> /\ irend = Nobody
    /\ runq \in {s \in [1 .. Cardinality(Init0) -> Init0] : IsInjective(s)}
    /\ listed = Init0
    /\ state = [q \in Progs |-> IF q \in Init0 THEN "ready" ELSE "none"]
    /\ kill = {}
    /\ regs = [q \in Progs |-> q] /\ R = Nobody
    /\ iprog = [p \in Procs |-> Nobody]
    /\ victim = [p \in Procs |-> Nobody]
    /\ todo = [p \in Procs |-> {}] /\ grp = {}
    /\ to = [p \in Procs |-> Nobody]
    /\ then = [p \in Procs |-> IF p \in Kprocs THEN Held ELSE Nobody]
    /\ pc = [p \in Procs |-> IF p = Main THEN Start
                             ELSE IF p \in Kprocs THEN Out ELSE Unborn]

----------------------------------------------------------------------------
(* Faulty variants, used by no specification of this module. *)

\* acquire takes the idle machine and leaves idle set.
StillIdle == TRUE

\* iyield waits for the machine without queueing for it.
IyieldUnqueued(v) == Tail(vmq)

\* acquire tests isched.yield one too late.
WakesIrendLate == yield = 1

\* killprog frees a thread that is in a builtin.
KillAtOnceReleased(q) == state[q] \in {"ready", "blocked", "broken", "release"}

\* killprog leaves a ready thread on the run queue.
UnqueueNot(q) == runq

----------------------------------------------------------------------------
(* acquire and release *)

Interp(p, l) == p \in Vms /\ l # IdleGC

\* isave, or delrun(Prelease) of up->prog.
Save(p, l) ==
    /\ runq' = Tail(runq)
    /\ IF Interp(p, l)
         THEN LET q == Head(runq) IN
              /\ iprog' = [iprog EXCEPT ![p] = q]
              /\ state' = [state EXCEPT ![q] = "release"]
              /\ regs' = [regs EXCEPT ![q] = R]
         ELSE UNCHANGED <<iprog, state, regs>>

\* release, by an owner that goes on at l when it has the machine again.
\* With nobody waiting it leaves the machine idle and starts a vmachine.
Release(p, l) ==
    /\ Save(p, l)
    /\ then' = [then EXCEPT ![p] = l]
    /\ IF vmq # <<>>
         THEN /\ to' = [to EXCEPT ![p] = Head(vmq)]
              /\ vmq' = Tail(vmq)
              /\ Goto(p, Giving)
              /\ UNCHANGED idle
         ELSE /\ idle' = TRUE
              /\ \E v \in Vms :
                    /\ pc[v] = Unborn
                    /\ pc' = [pc EXCEPT ![p] = Out, ![v] = Start]
              /\ UNCHANGED <<to, vmq>>
    /\ UNCHANGED <<yield, irend, kill, R>>

Requeue(q) == <<q>> \o runq
Irestore(q) == regs[q]

\* p has the machine: the end of acquire, or back from iyield or startup.
Regain(p) ==
    /\ then' = [then EXCEPT ![p] = Nobody]
    /\ IF then[p] \notin Resumes
         THEN UNCHANGED <<runq, iprog, state, R>>
         ELSE IF Interp(p, then[p])
         THEN LET q == iprog[p] IN
              /\ iprog' = [iprog EXCEPT ![p] = Nobody]
              /\ R' = Irestore(q)
              /\ state' = [state EXCEPT ![q] = "ready"]
              /\ runq' = Requeue(q)
         ELSE runq' = Requeue(p) /\ UNCHANGED <<iprog, state, R>>
    /\ UNCHANGED <<yield, irend, listed, kill, regs, killvars>>

\* acquire and startup: the machine is idle.
IdleAfterTake == FALSE

AcquireIdle(p) ==
    /\ pc[p] = Out
    /\ idle
    /\ idle' = IdleAfterTake
    /\ Regain(p)
    /\ Goto(p, then[p])
    /\ UNCHANGED <<vmq, to>>

\* acquire: in front of the others that wait.  The first one since the last
\* iyield wakes the vmachine.  MaxYield bounds a kernel process here.
WakesIrend == yield = 0
Enqueue(p) == <<p>> \o vmq

AcquireQueue(p) ==
    /\ pc[p] = Out
    /\ ~idle
    /\ p \in Kprocs => yield < MaxYield
    /\ yield' = yield + 1
    /\ vmq' = Enqueue(p)
    /\ Goto(p, IF WakesIrend THEN Waker ELSE Wait)
    /\ UNCHANGED <<idle, irend, runq, progvars, iprog, killvars, to, then>>

\* Wakeup(&isched.irend); the vmachine returns from its Sleep.
WakeIrend(p) ==
    /\ pc[p] = Waker
    /\ irend' = Nobody
    /\ pc' = [q \in Procs |-> IF q = p THEN Wait
                              ELSE IF q = irend THEN Pick ELSE pc[q]]
    /\ UNCHANGED <<lockvars, runq, progvars, iprog, killvars, to, then>>

\* rendezvous: release or iyield hands the machine to the one it took off vmq.
Meet(g) ==
    /\ pc[g] \in {Giving, Yielding}
    /\ pc[to[g]] = Wait
    /\ pc' = [pc EXCEPT ![to[g]] = then[to[g]],
                        ![g] = IF pc[g] = Giving THEN Out ELSE Wait]
    /\ to' = [to EXCEPT ![g] = Nobody]
    /\ Regain(to[g])
    /\ UNCHANGED <<lockvars>>

\* An error raised while away ends in progexit, which acquires.
Fail(v) ==
    /\ v \in Vms
    /\ pc[v] = Out /\ then[v] = Held
    /\ then' = [then EXCEPT ![v] = Raised]
    /\ UNCHANGED <<lockvars, irend, runq, progvars, iprog, killvars, to, pc>>

----------------------------------------------------------------------------
(* startup and the loop of vmachine *)

StartIdle(v) ==
    /\ pc[v] = Start
    /\ idle
    /\ idle' = IdleAfterTake
    /\ Goto(v, Loop)
    /\ UNCHANGED <<yield, vmq, irend, runq, progvars, iprog, killvars, to, then>>

StartQueue(v) ==
    /\ pc[v] = Start
    /\ ~idle
    /\ vmq' = Append(vmq, v)
    /\ then' = [then EXCEPT ![v] = Loop]
    /\ Goto(v, Wait)
    /\ UNCHANGED <<idle, yield, irend, runq, progvars, iprog, killvars, to>>

\* Nothing to do: execatidle collects, with its own Prog on the run queue.
LoopTop(v) ==
    /\ pc[v] = Loop
    /\ IF tready THEN Goto(v, Pick) /\ UNCHANGED runq
                 ELSE Goto(v, IdleGC) /\ runq' = <<v>>
    /\ UNCHANGED <<lockvars, irend, progvars, iprog, killvars, to, then>>

IdleSweep(v) ==
    /\ FileCycles
    /\ pc[v] = IdleGC /\ ~gchalted /\ yield < MaxYield
    /\ Release(v, IdleGC)
    /\ UNCHANGED <<listed, killvars>>

\* The end of execatidle, then Sleep(&isched.irend, tready, 0).
IdleDone(v) ==
    LET rest == RemoveFirst(runq, v)
    IN  /\ pc[v] = IdleGC
        /\ runq' = rest
        /\ IF rest # <<>> \/ yield # 0
             THEN Goto(v, Pick) /\ UNCHANGED irend
             ELSE Goto(v, Asleep) /\ irend' = v
        /\ UNCHANGED <<lockvars, progvars, iprog, killvars, to, then>>

\* iyield, if isched.yield # 0.
YieldDown == yield - 1

PickNoYield(v) ==
    /\ pc[v] = Pick
    /\ yield = 0 \/ vmq = <<>>
    /\ yield' = IF yield = 0 THEN yield ELSE YieldDown
    /\ Goto(v, Exec)
    /\ UNCHANGED <<idle, vmq, irend, runq, progvars, iprog, killvars, to, then>>

AfterIyield(v) == Append(Tail(vmq), v)

Iyield(v) ==
    /\ pc[v] = Pick
    /\ yield # 0 /\ vmq # <<>>
    /\ yield' = YieldDown
    /\ to' = [to EXCEPT ![v] = Head(vmq)]
    /\ vmq' = AfterIyield(v)
    /\ then' = [then EXCEPT ![v] = Exec]
    /\ Goto(v, Yielding)
    /\ UNCHANGED <<idle, irend, runq, progvars, iprog, killvars>>

XecStart(v) ==
    /\ pc[v] = Exec
    /\ IF runq = <<>> THEN Goto(v, Loop) /\ UNCHANGED R
                      ELSE Goto(v, Run) /\ R' = regs[Head(runq)]
    /\ UNCHANGED <<lockvars, irend, runq, listed, state, kill, regs, iprog,
                   killvars, to, then>>

\* vmachine after xec: the head goes to the tail.
Rotate(q) == IF Len(q) > 1 THEN Append(Tail(q), Head(q)) ELSE q

AfterXec(v, q) ==
    /\ runq' = Rotate(q)
    /\ Goto(v, IF q = <<>> THEN Loop ELSE Collect)

Sweep(v) ==
    /\ FileCycles
    /\ pc[v] = Collect /\ ~gchalted /\ yield < MaxYield
    /\ Release(v, Collect)
    /\ UNCHANGED <<listed, killvars>>

CollectDone(v) ==
    /\ pc[v] = Collect
    /\ Goto(v, Loop)
    /\ UNCHANGED <<lockvars, irend, runq, progvars, iprog, killvars, to, then>>

----------------------------------------------------------------------------
(* What a thread does with the machine *)

\* The quantum, or after acquire the instruction, is used up.
XecEnd(v) ==
    /\ v \in Vms
    /\ pc[v] = Run \/ (pc[v] = Held /\ Head(runq) \notin kill)
    /\ regs' = [regs EXCEPT ![Head(runq)] = R]
    /\ AfterXec(v, runq)
    /\ UNCHANGED <<lockvars, irend, listed, state, kill, R, iprog, killvars,
                   to, then>>

\* send, recv or alt with no partner.
Block(v) ==
    /\ pc[v] = Run
    /\ regs' = [regs EXCEPT ![Head(runq)] = R]
    /\ state' = [state EXCEPT ![Head(runq)] = "blocked"]
    /\ AfterXec(v, Tail(runq))
    /\ UNCHANGED <<lockvars, irend, listed, kill, R, iprog, killvars, to, then>>

\* addrun, of a partner in a communication.
Addrun(p, q) ==
    /\ pc[p] \in {Run, Held}
    /\ state[q] = "blocked"
    /\ state' = [state EXCEPT ![q] = "ready"]
    /\ runq' = Append(runq, q)
    /\ UNCHANGED <<lockvars, irend, listed, kill, regs, R, iprog, killvars, to,
                   then, pc>>

Newprog(v, q) ==
    /\ pc[v] = Run
    /\ state[q] = "none"
    /\ state' = [state EXCEPT ![q] = "ready"]
    /\ listed' = listed \cup {q}
    /\ runq' = Append(runq, q)
    /\ UNCHANGED <<lockvars, irend, kill, regs, R, iprog, killvars, to, then, pc>>

\* A builtin, or the device it ends up in, releases the machine.
Call(p) ==
    /\ pc[p] = Run \/ (pc[p] = Held /\ (p \in Kprocs \/ yield < MaxYield))
    /\ Release(p, Held)
    /\ UNCHANGED <<listed, killvars>>

\* An error, or the test of kill when a builtin returns.
Raise(v) ==
    /\ v \in Vms
    /\ pc[v] \in {Run, Held}
    /\ Goto(v, Raised)
    /\ UNCHANGED <<lockvars, irend, runq, progvars, iprog, killvars, to, then>>

RaiseKilled(v) == pc[v] = Held /\ Head(runq) \in kill /\ Raise(v)

(* progexit *)

Broken(v) ==
    /\ pc[v] = Raised
    /\ runq' = Tail(runq)
    /\ state' = [state EXCEPT ![Head(runq)] = "broken"]
    /\ regs' = [regs EXCEPT ![Head(runq)] = R]
    /\ Goto(v, Loop)
    /\ UNCHANGED <<lockvars, irend, listed, kill, R, iprog, killvars, to, then>>

ExitStart(v) ==
    /\ pc[v] = Raised
    /\ Goto(v, Exit)
    /\ UNCHANGED <<lockvars, irend, runq, progvars, iprog, killvars, to, then>>

\* destroystack drops the last reference to a file.
DestroyFile(p) ==
    /\ pc[p] \in {Exit, Reap} /\ yield < MaxYield
    /\ Release(p, pc[p])
    /\ UNCHANGED <<listed, killvars>>

\* delprog, up to its acquire.
Delprog(p) ==
    LET q == IF pc[p] = Exit THEN Head(runq) ELSE victim[p]
    IN  /\ pc[p] \in {Exit, Reap}
        /\ listed' = listed \ {q}
        /\ victim' = [victim EXCEPT ![p] = q]
        /\ Release(p, Free)
        /\ UNCHANGED <<todo, grp>>

\* The rest of delprog; progexit goes back to vmachine, killprog to its caller.
\* progexit of the last thread ends the program (cleanexit).
FreeUnqueue(q) == IF q = Head(runq) THEN Tail(runq) ELSE runq

Freeprog(p) ==
    LET q == victim[p]
    IN  /\ pc[p] = Free
        /\ q = Head(runq) => listed # {}
        /\ runq' = FreeUnqueue(q)
        /\ state' = [state EXCEPT ![q] = "dead"]
        /\ victim' = [victim EXCEPT ![p] = Nobody]
        /\ Goto(p, IF q = Head(runq) THEN Loop ELSE Killing)
        /\ UNCHANGED <<lockvars, irend, listed, kill, regs, R, iprog, todo, grp,
                       to, then>>

(* progwrite: "kill" and "killgrp" *)

KillRequest(p) ==
    /\ pc[p] = Held /\ yield < MaxYield
    /\ \E q \in listed :
          todo' = [todo EXCEPT ![p] = {q}]
    /\ Goto(p, Killing)
    /\ UNCHANGED <<lockvars, irend, runq, progvars, iprog, victim, grp, to, then>>

\* All threads are in one group.
KillgrpRequest(p) ==
    /\ pc[p] = Held /\ yield < MaxYield
    /\ todo' = [todo EXCEPT ![p] = listed \ {Head(runq)}]
    /\ grp' = grp \cup {p}
    /\ Goto(p, Killing)
    /\ UNCHANGED <<lockvars, irend, runq, progvars, iprog, victim, to, then>>

\* progwrite is through, and releases the machine that it acquired.
KillDone(p) ==
    /\ pc[p] = Killing /\ todo[p] = {}
    /\ grp' = grp \ {p}
    /\ Release(p, Held)
    /\ UNCHANGED <<listed, victim, todo>>

KillGone(p, q) ==
    /\ pc[p] = Killing /\ q \in todo[p]
    /\ q \notin listed \/ (q # Head(runq) /\ state[q] = "exiting")
    /\ todo' = [todo EXCEPT ![p] = @ \ {q}]
    /\ UNCHANGED <<lockvars, irend, runq, progvars, iprog, victim, grp, to, then,
                   pc>>

\* killprog of a thread that waits, is ready or is broken.
KillAtOnce(q) == state[q] \in {"ready", "blocked", "broken"}
Unqueue(q) == RemoveFirst(runq, q)

Killprog(p, q) ==
    /\ pc[p] = Killing /\ q \in todo[p] \cap listed
    /\ q # Head(runq) /\ KillAtOnce(q)
    /\ todo' = [todo EXCEPT ![p] = @ \ {q}]
    /\ runq' = Unqueue(q)
    /\ state' = [state EXCEPT ![q] = "exiting"]
    /\ victim' = [victim EXCEPT ![p] = q]
    /\ Goto(p, Reap)
    /\ UNCHANGED <<lockvars, irend, listed, kill, regs, R, iprog, grp, to, then>>

\* killprog of the killer itself or of a thread in a builtin: it will exit.
KillLater(p, q) ==
    /\ pc[p] = Killing /\ q \in todo[p] \cap listed
    /\ q = Head(runq) \/ (state[q] = "release" /\ ~KillAtOnce(q))
    /\ todo' = [todo EXCEPT ![p] = @ \ {q}]
    /\ kill' = kill \cup {q}
    /\ state' = [state EXCEPT ![q] = "exiting"]
    /\ UNCHANGED <<lockvars, irend, runq, listed, regs, R, iprog, victim, grp,
                   to, then, pc>>

----------------------------------------------------------------------------
\* The steps that process p has no reason to put off.
Proceed(p) ==
    \/ WakeIrend(p) \/ Meet(p) \/ StartIdle(p) \/ StartQueue(p)
    \/ LoopTop(p) \/ IdleDone(p) \/ PickNoYield(p) \/ Iyield(p)
    \/ XecStart(p) \/ CollectDone(p)
    \/ Broken(p) \/ Delprog(p) \/ Freeprog(p)
    \/ KillDone(p)
    \/ \E q \in Progs : KillGone(p, q) \/ Killprog(p, q) \/ KillLater(p, q)

\* What its thread, or the kernel process, decides.
Decide(p) ==
    \/ Fail(p) \/ IdleSweep(p) \/ Sweep(p) \/ Block(p) \/ Raise(p)
    \/ ExitStart(p) \/ DestroyFile(p)
    \/ KillRequest(p) \/ KillgrpRequest(p)
    \/ \E q \in Progs : Addrun(p, q) \/ Newprog(p, q)

Next == \E p \in Procs :
    \/ AcquireIdle(p) \/ AcquireQueue(p) \/ Proceed(p) \/ XecEnd(p) \/ Call(p)
    \/ Decide(p)

Spec == Init /\ [][Next]_vars

\* A process runs on where nothing holds it up; an instruction ends, because
\* its quantum of 2048 runs out or because it releases the machine only so
\* often, and a kernel process gives the machine back.  Nothing makes a
\* builtin come back, nor a kernel process come at all.
FairSpec ==
    /\ Spec
    /\ \A p \in Procs : WF_vars(Proceed(p))
    /\ \A v \in Vms : SF_vars(XecEnd(v) \/ Block(v) \/ RaiseKilled(v))
    /\ \A k \in Kprocs : SF_vars(pc[k] = Held /\ Call(k))

----------------------------------------------------------------------------
TypeOK ==
    /\ idle \in BOOLEAN
    /\ yield \in Nat
    /\ vmq \in Seq(Procs) /\ irend \in Vms \cup {Nobody}
    /\ runq \in Seq(Progs \cup Procs) /\ IsInjective(runq)
    /\ kill \subseteq Progs
    /\ state \in [Progs -> {"none", "ready", "blocked", "release", "exiting",
                            "broken", "dead"}]
    /\ regs \in [Progs -> Progs] /\ R \in Progs \cup {Nobody}
    /\ iprog \in [Procs -> Progs \cup {Nobody}]
    /\ \A p \in Procs :
          /\ then[p] \in Owner \cup {Nobody}
          /\ then[p] # Nobody <=> pc[p] \in Away \cup {Yielding}

InTransit == {p \in Procs : pc[p] \in {Giving, Yielding}}

\* There is one virtual machine: it is idle, or has one owner, or is on its
\* way from one process to another (acquire, release, iyield, startup).
OneMachine ==
    Cardinality({p \in Procs : pc[p] \in Owner} \cup InTransit)
        + (IF idle THEN 1 ELSE 0) = 1

\* Nobody waits in vain: whoever waits for the machine is on vmq, or has been
\* taken off it by a process that is about to meet it, and never both.
WaitersQueued ==
    /\ idle => vmq = <<>>
    /\ IsInjective(vmq)
    /\ LET chosen == {to[g] : g \in InTransit}
           waiting == {p \in Procs : pc[p] \in {Wait, Waker}}
       IN  /\ ToSet(vmq) \cap chosen = {}
           /\ waiting \subseteq ToSet(vmq) \cup chosen
           /\ ToSet(vmq) \cup chosen
                 \subseteq waiting \cup {p \in Procs : pc[p] = Yielding}

\* isched.yield is never less than the number of processes that wait in
\* acquire, and these stand before the vmachines with nothing to finish, so
\* that every vmachine that reaches its loop gives way to one of them.
YieldCounts ==
    LET acquirers == {i \in DOMAIN vmq : then[vmq[i]] \in Resumes}
    IN  /\ yield >= Cardinality(acquirers)
        /\ \A i \in acquirers : 1 .. i \subseteq acquirers

\* A thread is in one place: on the run queue if it is ready, held by
\* exactly one process if it is in a builtin that released the machine.
ThreadInOnePlace ==
    \A q \in Progs :
        LET holders == {p \in Procs : iprog[p] = q}
            queued == q \in ToSet(runq)
        IN  /\ state[q] = "ready" => queued
            /\ state[q] = "release" => holders # {}
            /\ state[q] \in {"none", "blocked", "broken", "dead"} =>
                  ~queued /\ holders = {}
            /\ Cardinality(holders) + (IF queued THEN 1 ELSE 0) <= 1

\* delprog frees a thread once, unlisted, when no process will touch it again.
FreedOnce ==
    \A q \in Progs :
        LET deleting == {p \in Procs : victim[p] = q}
        IN  /\ Cardinality(deleting) <= 1
            /\ state[q] = "dead" =>
                  deleting = {} /\ q \notin listed \cup ToSet(runq)

\* What runs is what the run queue says is running: R holds the registers of
\* the thread at its head, and p->R those of p ("Register set").
RegistersOwn ==
    /\ \A q \in Progs : state[q] # "dead" => regs[q] = q
    /\ \A v \in Vms : pc[v] \in {Run, Held} => R = Head(runq)

\* The program ends: its last thread is being freed.
Ended == listed = {} /\ \E v \in Vms : pc[v] = Free /\ victim[v] = Head(runq)

\* A process that waits in acquire is given the machine, although those that
\* come later queue in front of it: each of them passes it at most so often
\* before it has to stand behind it, as a vmachine with nothing to finish.
AcquireServed ==
    \A p \in Procs :
        (pc[p] = Wait /\ then[p] \in Resumes) ~> (pc[p] # Wait \/ Ended)

\* killgrp ends with every other thread of the group gone or bound to exit.
KillgrpKillsAll ==
    [][\A p \in grp \ grp' : \A q \in listed \ {Head(runq)} :
            q \in kill \/ state[q] = "exiting"]_vars
=============================================================================
