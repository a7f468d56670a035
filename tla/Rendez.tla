------------------------------- MODULE Rendez -------------------------------
(***************************************************************************)
(* Sleeping, waking and interrupting in the hosted system: Sleep, Wakeup,  *)
(* swiproc, osenter and osleave of emu/proc.c, with the SIGUSR1 handler    *)
(* and oshostintr of emu/os-Linux.c.                                       *)
(*                                                                         *)
(* One process, S, runs a Dis thread that has released the virtual machine *)
(* for a system call.  It may Sleep on the one Rendez r and may block in   *)
(* the host; it returns to Dis through acquire.  Wakers make its condition *)
(* true and call Wakeup(r).  A killer runs killprog, which calls           *)
(* swiproc(S) holding the virtual machine: while it does, S cannot get     *)
(* past acquire, and killprog interrupts one release at most once (the     *)
(* thread is Pexiting from then on).                                       *)
(*                                                                         *)
(* rendezvous(S, 0) returns to the two parties together.  The short        *)
(* sections under S's sysio lock are single steps.                         *)
(***************************************************************************)
EXTENDS Naturals, FiniteSets

CONSTANTS S, Wakers, Killers, Nobody

Parties == {S} \cup Wakers \cup Killers

ASSUME RendezAssumption ==
    /\ S \notin Wakers \cup Killers
    /\ Wakers \cap Killers = {}
    /\ Nobody \notin Parties

VARIABLES rl,         \* r->l: the process inside the spin lock, or Nobody
          rp,         \* r->p = S (else nil)
          upr,        \* S->r = r (else nil)
          swipend,    \* S->swipend
          syscall,    \* S->syscall
          intwait,    \* S->intwait
          signal,     \* SIGUSR1 is on its way to S
          cond,       \* what f(arg) returns
          killed,     \* killprog has already interrupted this release
          intr,       \* osleave's local r: it will raise Eintr
          pc

vars == <<rl, rp, upr, swipend, syscall, intwait, signal, cond, killed, intr,
          pc>>
intvars == <<swipend, syscall, intwait, signal, killed, intr>>

\* The sleeper.
InDis    == "dis"            \* runs Dis code, holding the virtual machine
Out      == "out"            \* between release and acquire
SlLock   == "sleep lock"     \* Sleep: up->r is set, spinning for r->l
SlTest   == "sleep test"     \* Sleep: has r->l
Asleep   == "asleep"         \* Sleep: in rendezvous(up, 0)
Woken    == "woken"          \* Sleep: back from rendezvous
InHost   == "host"           \* between osenter and osleave
Leaving  == "osleave"        \* osleave: spinning while intwait is set
Fault    == "fault"          \* the handler called disfault
\* Wakers and killers.
Away     == "idle"
WkCall   == "wakeup"         \* condition made true, Wakeup not yet called
WkIn     == "wakeup in"      \* Wakeup: has r->l
SwLock   == "swiproc lock"   \* swiproc: saw p->r, spinning for r->l
SwIn     == "swiproc in"     \* swiproc: has r->l
SwHost   == "swiproc host"   \* swiproc: saw p->r nil, about to take sysio
SwSignal == "swiproc signal" \* swiproc: about to call oshostintr
Meeting  == "meeting"        \* in rendezvous(S, 0), holding r->l
Unlock   == "unlock"         \* back from rendezvous, about to drop r->l

SleeperPCs == {InDis, Out, SlLock, SlTest, Asleep, Woken, InHost, Leaving,
               Fault}
OtherPCs == {Away, WkCall, WkIn, SwLock, SwIn, SwHost, SwSignal, Meeting,
             Unlock}

Goto(p, l) == pc' = [pc EXCEPT ![p] = l]
At(p, from, to) == pc[p] = from /\ Goto(p, to)

Init ==
    /\ rl = Nobody /\ rp = FALSE /\ upr = FALSE
    /\ swipend = FALSE /\ syscall = FALSE /\ intwait = FALSE
    /\ signal = FALSE /\ cond = FALSE /\ killed = FALSE /\ intr = FALSE
    /\ pc = [p \in Parties |-> IF p = S THEN InDis ELSE Away]

----------------------------------------------------------------------------
(* Faulty variants, used by no specification of this module.               *)

\* Sleep tests the condition before it takes r->l, and not again.
SleepStale ==
    /\ At(S, SlTest, Asleep)
    /\ swipend' = FALSE
    /\ rp' = TRUE
    /\ rl' = Nobody
    /\ UNCHANGED <<upr, syscall, intwait, signal, cond, killed, intr>>

\* swiproc drops r->l before it meets the sleeper and leaves it in r.
SwiMeetUnlocked(k) ==
    /\ pc[k] = SwIn
    /\ rl' = Nobody
    /\ Goto(k, IF upr THEN Meeting ELSE Away)
    /\ swipend' = (swipend \/ upr)
    /\ UNCHANGED <<rp, upr, cond, syscall, intwait, signal, killed, intr>>

\* osleave does not wait for the signal that is on its way.
OsleaveNoWait ==
    /\ At(S, Leaving, Out)
    /\ intr' = FALSE
    /\ UNCHANGED <<rl, rp, upr, cond, swipend, syscall, intwait, signal, killed>>

\* osleave leaves swipend set.
OsleaveKeepsSwipend ==
    /\ At(S, InHost, Leaving)
    /\ intr' = swipend
    /\ syscall' = FALSE
    /\ UNCHANGED <<rl, rp, upr, cond, swipend, intwait, signal, killed>>

----------------------------------------------------------------------------
(* S: release and acquire of the virtual machine around the call *)

Release ==
    /\ At(S, InDis, Out)
    /\ UNCHANGED <<rl, rp, upr, cond, intvars>>

\* S gets the virtual machine only when no killer holds it; what it slept
\* for is consumed.
Acquire ==
    /\ \A k \in Killers : pc[k] = Away
    /\ At(S, Out, InDis)
    /\ killed' = FALSE
    /\ cond' = FALSE
    /\ UNCHANGED <<rl, rp, upr, swipend, syscall, intwait, signal, intr>>

(* S: Sleep(r, f, arg) *)

SleepEnter ==
    /\ At(S, Out, SlLock)
    /\ upr' = TRUE
    /\ UNCHANGED <<rl, rp, cond, intvars>>

\* lock(&r->l), in Sleep, Wakeup and swiproc.
LockR(p, from, to) ==
    /\ rl = Nobody
    /\ At(p, from, to)
    /\ rl' = p
    /\ UNCHANGED <<rp, upr, cond, intvars>>

SleepLock == LockR(S, SlLock, SlTest)

SleepReady ==
    /\ cond
    /\ At(S, SlTest, Out)
    /\ upr' = FALSE
    /\ rl' = Nobody
    /\ UNCHANGED <<rp, cond, intvars>>

SleepCommit ==
    /\ ~cond
    /\ At(S, SlTest, Asleep)
    /\ swipend' = FALSE
    /\ rp' = TRUE
    /\ rl' = Nobody
    /\ UNCHANGED <<upr, cond, syscall, intwait, signal, killed, intr>>

\* Back from rendezvous: Sleep returns, or raises Eintr.
SleepReturn ==
    /\ At(S, Woken, Out)
    /\ swipend' = FALSE
    /\ UNCHANGED <<rl, rp, upr, cond, syscall, intwait, signal, killed, intr>>

(* S: a host system call between osenter and osleave *)

Osenter ==
    /\ At(S, Out, InHost)
    /\ syscall' = TRUE
    /\ UNCHANGED <<rl, rp, upr, cond, swipend, intwait, signal, killed, intr>>

\* The host call has returned; osleave's section under sysio.
OsleaveLock ==
    /\ At(S, InHost, Leaving)
    /\ intr' = swipend
    /\ swipend' = FALSE
    /\ syscall' = FALSE
    /\ UNCHANGED <<rl, rp, upr, cond, intwait, signal, killed>>

\* The spin on intwait ends; osleave returns or raises Eintr.
OsleaveReturn ==
    /\ ~intwait
    /\ At(S, Leaving, Out)
    /\ intr' = FALSE
    /\ UNCHANGED <<rl, rp, upr, cond, swipend, syscall, intwait, signal, killed>>

\* trapUSR1 runs, wherever S is; a signal that nobody posted is a fault.
TrapUSR1 ==
    /\ signal
    /\ signal' = FALSE
    /\ intwait' = FALSE
    /\ IF intwait THEN UNCHANGED pc ELSE Goto(S, Fault)
    /\ UNCHANGED <<rl, rp, upr, cond, swipend, syscall, killed, intr>>

(* Wakers: make the condition true, then Wakeup(r) *)

MakeReady(w) ==
    /\ At(w, Away, WkCall)
    /\ cond' = TRUE
    /\ UNCHANGED <<rl, rp, upr, intvars>>

WakeupLock(w) == LockR(w, WkCall, WkIn)

WakeupIn(w) ==
    /\ pc[w] = WkIn
    /\ IF rp THEN /\ rp' = FALSE
                  /\ upr' = FALSE
                  /\ Goto(w, Meeting)
                  /\ UNCHANGED rl
             ELSE /\ rl' = Nobody
                  /\ Goto(w, Away)
                  /\ UNCHANGED <<rp, upr>>
    /\ UNCHANGED <<cond, intvars>>

(* The killer: swiproc(S) *)

Swiproc(k) ==
    /\ pc[S] # InDis
    /\ ~killed
    /\ At(k, Away, IF upr THEN SwLock ELSE SwHost)
    /\ killed' = TRUE
    /\ UNCHANGED <<rl, rp, upr, cond, swipend, syscall, intwait, signal, intr>>

SwiLock(k) == LockR(k, SwLock, SwIn)

SwiIn(k) ==
    /\ pc[k] = SwIn
    /\ IF upr THEN /\ swipend' = TRUE
                   /\ rp' = FALSE
                   /\ upr' = FALSE
                   /\ Goto(k, Meeting)
                   /\ UNCHANGED rl
              ELSE /\ rl' = Nobody
                   /\ Goto(k, Away)
                   /\ UNCHANGED <<swipend, rp, upr>>
    /\ UNCHANGED <<cond, syscall, intwait, signal, killed, intr>>

SwiHost(k) ==
    /\ pc[k] = SwHost
    /\ IF syscall /\ ~intwait
         THEN intwait' = TRUE /\ swipend' = TRUE /\ Goto(k, SwSignal)
         ELSE Goto(k, Away) /\ UNCHANGED <<intwait, swipend>>
    /\ UNCHANGED <<rl, rp, upr, cond, syscall, signal, killed, intr>>

\* oshostintr: kill(p->sigid, SIGUSR1)
Oshostintr(k) ==
    /\ At(k, SwSignal, Away)
    /\ signal' = TRUE
    /\ UNCHANGED <<rl, rp, upr, cond, swipend, syscall, intwait, killed, intr>>

(* Wakeup and swiproc: rendezvous(S, 0), then unlock(&r->l) *)

Meet(p) ==
    /\ pc[p] = Meeting
    /\ pc[S] = Asleep
    /\ pc' = [pc EXCEPT ![p] = Unlock, ![S] = Woken]
    /\ UNCHANGED <<rl, rp, upr, cond, intvars>>

UnlockR(p) ==
    /\ At(p, Unlock, Away)
    /\ rl' = Nobody
    /\ UNCHANGED <<rp, upr, cond, intvars>>

----------------------------------------------------------------------------
SleeperStep ==
    \/ SleepReady \/ SleepCommit \/ SleepReturn
    \/ OsleaveReturn \/ TrapUSR1

OtherStep(p) ==
    \/ WakeupIn(p)
    \/ SwiIn(p) \/ SwiHost(p) \/ Oshostintr(p)
    \/ Meet(p)  \/ UnlockR(p)

Next ==
    \/ Release \/ Acquire \/ SleepEnter \/ SleepLock \/ Osenter \/ OsleaveLock
    \/ SleeperStep
    \/ \E w \in Wakers : MakeReady(w) \/ WakeupLock(w)
    \/ \E k \in Killers : Swiproc(k) \/ SwiLock(k)
    \/ \E p \in Wakers \cup Killers : OtherStep(p)

Spec == Init /\ [][Next]_vars

\* Code that is inside one of the calls runs on; a spin on r->l wins in the
\* end if the lock is free again and again.  Nothing makes a host call
\* return, a thread sleep, a waker come or a killer kill.
FairSpec ==
    /\ Spec
    /\ WF_vars(SleeperStep) /\ SF_vars(SleepLock)
    /\ \A w \in Wakers : WF_vars(OtherStep(w)) /\ SF_vars(WakeupLock(w))
    /\ \A k \in Killers : WF_vars(OtherStep(k)) /\ SF_vars(SwiLock(k))

----------------------------------------------------------------------------
\* r->p and p->r are one link, set and cleared together but for the moment
\* in which Sleep has set only the second.
TypeOK ==
    /\ rp => upr
    /\ rl \in Parties \cup {Nobody}
    /\ {rp, upr, swipend, syscall, intwait, signal, cond, killed, intr}
          \subseteq BOOLEAN
    /\ pc \in [Parties -> SleeperPCs \cup OtherPCs]
    /\ pc[S] \in SleeperPCs
    /\ \A p \in Wakers \cup Killers : pc[p] \in OtherPCs

\* Sleep never parks on a condition that is already true without a Wakeup
\* still to come: the test and the commit are one section under r->l.
NoLostWakeup ==
    (pc[S] = Asleep /\ cond) =>
        \E p \in Wakers \cup Killers : pc[p] \in {WkCall, WkIn, Meeting}

\* At most one process is in rendezvous(S, 0) to wake S, be it for Wakeup or
\* for swiproc; two of them would meet each other and S would sleep on.
OneMeeter ==
    \A p, q \in Wakers \cup Killers :
        pc[p] = Meeting /\ pc[q] = Meeting => p = q

\* A posted signal is taken between osenter and the end of osleave: it never
\* breaks into the host call of another operation, and the handler never
\* sees one that was not posted ("Should never happen").
SignalInHostCall ==
    /\ pc[S] # Fault
    /\ signal \/ intwait => pc[S] \in {InHost, Leaving}

\* An interrupt meant for one system call is not left over for the next.
NoStaleInterrupt == pc[S] = InDis => ~swipend /\ ~intr

\* A sleeper whose condition has been made true leaves its Sleep.
ReadySleeperWakes == (pc[S] = Asleep /\ cond) ~> pc[S] # Asleep

\* swiproc pulls its victim out of Sleep and returns to its caller, which
\* holds the virtual machine.
SwiprocReturns ==
    \A k \in Killers : pc[k] # Away ~> pc[k] = Away
=============================================================================
