---------------------------------- MODULE Mnt ----------------------------------
(***************************************************************************)
(* The mount driver, emu/devmnt.c: several processes call one file server  *)
(* over one connection.  Each call has an rpc structure with a tag.  One   *)
(* of the callers at a time, m->rip, reads the connection; it hands every  *)
(* reply to the caller the tag belongs to, and when it has its own, passes *)
(* the reading on (mntgate).  A caller that is interrupted sends a Tflush  *)
(* and goes on waiting: for the reply or for the Rflush.                   *)
(*                                                                         *)
(* The server is external: it answers what it gets in any order.  A server *)
(* either answers a flush with Rflush, and then the flushed request no     *)
(* more, or, as emu/exportfs.c does, with an error reply to the request    *)
(* and no Rflush.  It may hang up.  Sleep and Wakeup are a step each (see  *)
(* Rendez).  A host call that is interrupted may have done its work:       *)
(* osleave raises the error whatever the call returned.                    *)
(***************************************************************************)
EXTENDS Naturals, Sequences, FiniteSets, SequencesExt

CONSTANTS MaxCalls,    \* bound: calls
          MaxFaults,   \* bound: interrupts and hang-ups
          Tagfls       \* the first flush tag

\* A process is the call it makes: nothing of a call outlives it but its rpc.
\* The calls are numbered in the order in which they begin.
Procs  == 1 .. MaxCalls
NoProc == 0

\* A new rpc is made when none is free.
Tags == 1 .. MaxCalls

ASSUME MntAssumption ==
    /\ MaxCalls \in Nat /\ MaxFaults \in Nat
    /\ Tagfls \in Nat /\ Tagfls > MaxCalls

VARIABLES rip,         \* m->rip
          queue,       \* m->queue, newest first
          flushtag,    \* m->flushtag
          rpcfree,     \* mntalloc.rpcfree, newest first
          rpctag,      \* mntalloc.rpctag
          rpc,         \* the rpc structures, by request.tag
          pc, r,       \* each process's place, and its rpc
          then,        \* where mntflush returns to
          msg,         \* the message a reader has read
          q,           \* whom mountmux completes, or mntgate wakes
          asked,       \* messages whose answer has not been read yet
          rflush,      \* the server answers Rflush
          hung,        \* the server has hung up
          lost,        \* history: calls of which a message was lost
          faults         \* interrupts and hang-ups so far

mvars == <<rip, queue, flushtag, rpcfree, rpctag>>
net   == <<asked, rflush, hung, lost, faults>>
loc   == <<r, then, msg, q>>
vars  == <<mvars, rpc, pc, loc, net>>

\* A process's place.
Idle    == "idle"      \* not called yet
Over    == "over"
Write   == "write"     \* mountio: about to send the request
Gate    == "gate"      \* mountio: at the gate for readers
ToSleep == "toSleep"   \* mountio: m->rip was set, about to Sleep
Asleep  == "asleep"
Read    == "read"      \* mntrpcread
Mux     == "mux"       \* mountmux: has a reply
MuxDone == "muxDone"   \* mountmux: took q off the queue
MuxWake == "muxWake"   \* mountmux: about to call Wakeup(&q->r)
Flush   == "flush"     \* mntflush: before its locked section
FlushWr == "flushWrite"
GateOut == "gateOut"   \* mntgate
GateWk  == "gateWake"  \* mntgate: about to call Wakeup(&q->r)
Return  == "return"    \* mountio has returned, or an error has left it
Hungup  == "hungup"    \* error(Ehungup) left mntrpcread

Places == {Idle, Over, Write, Gate, ToSleep, Asleep, Read, Mux, MuxDone,
           MuxWake, Flush, FlushWr, GateOut, GateWk, Return, Hungup}

Goto(p, l) == pc' = [pc EXCEPT ![p] = l]
At(p, from, to) == pc[p] = from /\ Goto(p, to)

NoMsg      == [kind |-> "none", tag |-> 0, call |-> NoProc]
NewRpc     == [done |-> FALSE, flushed |-> FALSE, flushtag |-> 0,
               reply |-> NoProc, asleep |-> FALSE]
Broken     == \E p \in Procs : pc[p] = Hungup

Init ==
    /\ rip = NoProc /\ queue = <<>> /\ flushtag = Tagfls
    /\ rpcfree = <<>> /\ rpctag = 1
    /\ rpc = [t \in Tags |-> NewRpc]
    /\ pc = [p \in Procs |-> Idle] /\ r = [p \in Procs |-> 0]
    /\ then = [p \in Procs |-> Gate] /\ msg = [p \in Procs |-> NoMsg]
    /\ q = [p \in Procs |-> 0]
    /\ asked = {} /\ rflush \in BOOLEAN
    /\ hung = FALSE /\ lost = {} /\ faults = 0

----------------------------------------------------------------------------
(* The call: mntralloc, and the request put on the queue (mountio).  Calls *)
(* after a reader's error(Ehungup) are outside the model: the rpc is then  *)
(* on the queue and on the free list, which share the field list.          *)

Mntralloc(p) ==
    /\ At(p, Idle, Write)
    /\ \A o \in 1 .. p - 1 : pc[o] # Idle
    /\ ~Broken
    /\ LET t == IF rpcfree # <<>> THEN Head(rpcfree) ELSE rpctag IN
         /\ IF rpcfree # <<>>
              THEN rpcfree' = Tail(rpcfree) /\ UNCHANGED rpctag
              ELSE rpctag' = rpctag + 1 /\ UNCHANGED rpcfree
         /\ r' = [r EXCEPT ![p] = t]
         /\ rpc' = [rpc EXCEPT ![t].done = FALSE, ![t].flushed = FALSE,
                               ![t].reply = NoProc]
         /\ queue' = <<t>> \o queue
    /\ UNCHANGED <<rip, flushtag, then, msg, q, net>>

Request(p) == [kind |-> "request", tag |-> r[p], call |-> p]

\* The write of the request in mountio.
Send(p) ==
    /\ At(p, Write, Gate) /\ ~hung
    /\ asked' = asked \cup {Request(p)}
    /\ UNCHANGED <<mvars, rpc, loc, rflush, hung, lost, faults>>

\* The history ends with the hang-up.
Loses(C) == lost' = IF hung THEN {} ELSE lost \cup {p \in C : pc[p] # Over}

Interrupted(p, l) ==
    /\ faults < MaxFaults
    /\ faults' = faults + 1
    /\ Goto(p, Flush)
    /\ then' = [then EXCEPT ![p] = l]

\* It is interrupted, before or after the message is out.
SendInterrupted(p) ==
    /\ pc[p] = Write /\ ~hung
    /\ Interrupted(p, Gate)
    /\ \/ asked' = asked \cup {Request(p)} /\ UNCHANGED lost
       \/ Loses({p}) /\ UNCHANGED asked
    /\ UNCHANGED <<mvars, rpc, r, msg, q, rflush, hung>>

SendFails(p) ==
    /\ At(p, Write, Flush) /\ hung
    /\ UNCHANGED <<mvars, rpc, loc, net>>

----------------------------------------------------------------------------
(* One reader at a time (mountio).                                         *)

\* while(r->done == 0): the reader alone completes its own rpc.
Loop(p) == Goto(p, IF rpc[r[p]].done THEN GateOut ELSE Read)

EnterGate(p) ==
    /\ pc[p] = Gate
    /\ IF rip = NoProc THEN rip' = p /\ Loop(p)
                       ELSE Goto(p, ToSleep) /\ UNCHANGED rip
    /\ UNCHANGED <<queue, flushtag, rpcfree, rpctag, rpc, loc, net>>

\* Faulty: a sleeper is not called to the gate.
rpcattnDone(t) == rpc[t].done

rpcattn(t) == rpc[t].done \/ rip = NoProc

Awake(p) == IF rpc[r[p]].done THEN Return ELSE Gate

Sleep(p) ==
    /\ pc[p] = ToSleep
    /\ IF rpcattn(r[p])
         THEN Goto(p, Awake(p)) /\ UNCHANGED rpc
         ELSE Goto(p, Asleep) /\ rpc' = [rpc EXCEPT ![r[p]].asleep = TRUE]
    /\ UNCHANGED <<mvars, loc, net>>

SleepReturn(p) ==
    /\ pc[p] = Asleep /\ ~rpc[r[p]].asleep
    /\ Goto(p, Awake(p))
    /\ UNCHANGED <<mvars, rpc, loc, net>>

SleepInterrupted(p) ==
    /\ pc[p] = Asleep /\ rpc[r[p]].asleep
    /\ Interrupted(p, Gate)
    /\ rpc' = [rpc EXCEPT ![r[p]].asleep = FALSE]
    /\ UNCHANGED <<mvars, r, msg, q, asked, rflush, hung, lost>>

\* What the server has not answered once it has answered m: a request that
\* it has flushed it answers no more.
Answered(m) ==
    asked \ {o \in asked : o = m \/ (m.kind = "flush" /\ o.call = m.call
                                              /\ o.kind = "request")}

Mntrpcread(p) ==
    /\ At(p, Read, Mux)
    /\ \E m \in asked : asked' = Answered(m) /\ msg' = [msg EXCEPT ![p] = m]
    /\ UNCHANGED <<mvars, rpc, r, then, q, rflush, hung, lost, faults>>

\* An interrupted read may have taken a reply, which is lost.
ReadInterrupted(p) ==
    /\ pc[p] = Read
    /\ Interrupted(p, Read)
    /\ \/ UNCHANGED <<asked, lost>>
       \/ \E m \in asked : asked' = Answered(m) /\ Loses({m.call})
    /\ UNCHANGED <<mvars, rpc, r, msg, q, rflush, hung>>

\* Two reads in a row gave nothing: the error leaves mountio with m->rip
\* set and the rpc on the queue, and the caller frees it.
ReadHungup(p) ==
    /\ At(p, Read, Hungup)
    /\ hung
    /\ rpcfree' = <<r[p]>> \o rpcfree
    /\ UNCHANGED <<rip, queue, flushtag, rpctag, rpc, loc, net>>

----------------------------------------------------------------------------
(* mountmux and mntgate.                                                   *)

\* Faulty: mountmux does not look at flushed.
MatchesStale(t, m) == t = m.tag \/ rpc[t].flushtag = m.tag

Matches(t, m) == \/ t = m.tag
                 \/ rpc[t].flushed /\ rpc[t].flushtag = m.tag

MuxFind(p) ==
    /\ pc[p] = Mux
    /\ LET i == SelectInSeq(queue, LAMBDA t : Matches(t, msg[p])) IN
         IF i = 0
           THEN Goto(p, Read) /\ UNCHANGED <<queue, q>>
           ELSE /\ Goto(p, MuxDone)
                /\ queue' = RemoveFirst(queue, queue[i])
                /\ q' = [q EXCEPT ![p] = queue[i]]
    /\ UNCHANGED <<rip, flushtag, rpcfree, rpctag, rpc, r, then, msg,
                   net>>

MuxComplete(p) ==
    /\ pc[p] = MuxDone
    /\ rpc' = [rpc EXCEPT ![q[p]].reply = msg[p].call, ![q[p]].done = TRUE]
    /\ IF q[p] = r[p]
         THEN Goto(p, GateOut) /\ q' = [q EXCEPT ![p] = 0]
         ELSE Goto(p, MuxWake) /\ UNCHANGED q
    /\ msg' = [msg EXCEPT ![p] = NoMsg]
    /\ UNCHANGED <<mvars, r, then, net>>

\* Wakeup(&q->r)
Wakeup(p) ==
    /\ rpc' = [rpc EXCEPT ![q[p]].asleep = FALSE]
    /\ q' = [q EXCEPT ![p] = 0]

MuxWakeup(p) ==
    /\ At(p, MuxWake, Read)
    /\ Wakeup(p)
    /\ UNCHANGED <<mvars, r, then, msg, net>>

\* Faulty: mntgate looks at the head of the queue only.
MntgateHead(p) ==
    /\ pc[p] = GateOut
    /\ rip' = NoProc
    /\ IF queue # <<>> /\ ~rpc[Head(queue)].done /\ rpc[Head(queue)].asleep
         THEN Goto(p, GateWk) /\ q' = [q EXCEPT ![p] = Head(queue)]
         ELSE Goto(p, Return) /\ UNCHANGED q
    /\ UNCHANGED <<queue, flushtag, rpcfree, rpctag, rpc, r, then, msg,
                   net>>

Mntgate(p) ==
    /\ pc[p] = GateOut
    /\ rip' = NoProc
    /\ LET i == SelectInSeq(queue, LAMBDA t : ~rpc[t].done /\ rpc[t].asleep) IN
         IF i = 0
           THEN Goto(p, Return) /\ UNCHANGED q
           ELSE Goto(p, GateWk) /\ q' = [q EXCEPT ![p] = queue[i]]
    /\ UNCHANGED <<queue, flushtag, rpcfree, rpctag, rpc, r, then, msg,
                   net>>

GateWakeup(p) ==
    /\ At(p, GateWk, Return)
    /\ Wakeup(p)
    /\ UNCHANGED <<mvars, r, then, msg, net>>

----------------------------------------------------------------------------
(* mntflush.                                                               *)

MntflushTag(p) ==
    /\ At(p, Flush, FlushWr)
    /\ rpc' = [rpc EXCEPT ![r[p]].flushed = TRUE,
                          ![r[p]].flushtag = flushtag]
    /\ flushtag' = flushtag + 1
    /\ UNCHANGED <<rip, queue, rpcfree, rpctag, loc, net>>

\* A server that sends no Rflush only hurries the answer to the request.
Tflush(p) ==
    IF rflush
      THEN {[kind |-> "flush", tag |-> rpc[r[p]].flushtag, call |-> p]}
      ELSE {}

MntflushSend(p) ==
    /\ At(p, FlushWr, then[p]) /\ ~hung
    /\ asked' = asked \cup Tflush(p)
    /\ then' = [then EXCEPT ![p] = Gate]
    /\ UNCHANGED <<mvars, rpc, r, msg, q, rflush, hung,
                   lost, faults>>

\* An interrupted write of the flush counts as sent.
MntflushInterrupted(p) ==
    /\ At(p, FlushWr, then[p]) /\ ~hung
    /\ faults < MaxFaults /\ faults' = faults + 1
    /\ \/ asked' = asked \cup Tflush(p) /\ UNCHANGED lost
       \/ Loses({p}) /\ UNCHANGED asked
    /\ then' = [then EXCEPT ![p] = Gate]
    /\ UNCHANGED <<mvars, rpc, r, msg, q, rflush, hung>>

\* Faulty: no mntqrm.
MntflushFailsQueued(p) ==
    /\ pc[p] = FlushWr /\ hung
    /\ Goto(p, IF then[p] = Read THEN GateOut ELSE Return)
    /\ then' = [then EXCEPT ![p] = Gate]
    /\ UNCHANGED <<mvars, rpc, r, msg, q, net>>

\* The write fails: mntqrm, and the error goes on; a reader passes the
\* reading on first.
MntflushFails(p) ==
    /\ pc[p] = FlushWr /\ hung
    /\ rpc' = [rpc EXCEPT ![r[p]].done = TRUE, ![r[p]].flushed = FALSE]
    /\ queue' = RemoveFirst(queue, r[p])
    /\ Goto(p, IF then[p] = Read THEN GateOut ELSE Return)
    /\ then' = [then EXCEPT ![p] = Gate]
    /\ UNCHANGED <<rip, flushtag, rpcfree, rpctag, r, msg, q, net>>

\* mountrpc returns, or raises the error, and the caller frees the rpc.
Mntfree(p) ==
    /\ At(p, Return, Over)
    /\ rpcfree' = <<r[p]>> \o rpcfree
    /\ r' = [r EXCEPT ![p] = 0]
    /\ lost' = lost \ {p}
    /\ UNCHANGED <<rip, queue, flushtag, rpctag, rpc, then, msg, q, asked,
                   rflush, hung, faults>>

----------------------------------------------------------------------------
\* The server hangs up.  Some of its answers may still be read.
HangUp ==
    /\ ~hung /\ hung' = TRUE /\ lost' = {}
    /\ faults < MaxFaults /\ faults' = faults + 1
    /\ UNCHANGED <<mvars, rpc, pc, loc, asked, rflush>>

----------------------------------------------------------------------------
\* What a process does by itself, once in a call.
Proceed(p) ==
    \/ Send(p) \/ SendFails(p) \/ EnterGate(p) \/ Sleep(p) \/ SleepReturn(p)
    \/ Mntrpcread(p) \/ ReadHungup(p)
    \/ MuxFind(p) \/ MuxComplete(p) \/ MuxWakeup(p)
    \/ Mntgate(p) \/ GateWakeup(p)
    \/ MntflushTag(p) \/ MntflushSend(p) \/ MntflushFails(p) \/ Mntfree(p)

Kill(p) ==
    \/ SendInterrupted(p) \/ SleepInterrupted(p)
    \/ ReadInterrupted(p) \/ MntflushInterrupted(p)

Next ==
    \/ \E p \in Procs : Mntralloc(p) \/ Proceed(p) \/ Kill(p)
    \/ HangUp

Spec == Init /\ [][Next]_vars

\* Processes go on, and what a reader waits for comes; nobody has to call.
FairSpec ==
    /\ Spec
    /\ \A p \in Procs : WF_vars(Proceed(p))

----------------------------------------------------------------------------
(* Properties.                                                             *)

\* The variables have their types; m->rip is a process, or one that has failed.
TypeOK ==
    /\ rip \in Procs \cup {NoProc}
    /\ queue \in Seq(Tags) /\ rpcfree \in Seq(Tags)
    /\ flushtag >= Tagfls /\ rpctag \in 1 .. MaxCalls + 1
    /\ rpc \in [Tags -> [done : BOOLEAN, flushed : BOOLEAN,
                         flushtag : {0} \cup (Tagfls .. flushtag),
                         reply : Procs \cup {NoProc}, asleep : BOOLEAN]]
    /\ pc \in [Procs -> Places] /\ then \in [Procs -> {Gate, Read}]
    /\ r \in [Procs -> Tags \cup {0}] /\ q \in [Procs -> Tags \cup {0}]
    /\ \A m \in asked \cup (Range(msg) \ {NoMsg}) :
         /\ m.kind \in {"request", "flush"} /\ m.call \in Procs
         /\ m.tag \in Tags \cup (Tagfls .. flushtag)
    /\ {rflush, hung} \subseteq BOOLEAN
    /\ lost \subseteq Procs /\ faults \in 0 .. MaxFaults

\* The reply a call is completed with was sent for that call, although tags
\* and rpc structures are used again while replies and Rflushes of earlier
\* calls may still come.
ReplyIsOwn ==
    \A p \in Procs :
        pc[p] \notin {Idle, Over, Hungup} /\ ~hung /\ rpc[r[p]].done =>
            rpc[r[p]].reply = p

\* An rpc is on the free list once, or some process's; the queue holds what
\* is not answered yet; mountmux never completes an rpc that has been freed.
Owned(t) == \E p \in Procs : pc[p] # Hungup /\ r[p] = t

FreeOrPending ==
    ~Broken =>
        /\ IsInjective(rpcfree) /\ IsInjective(queue)
        /\ \A t \in 1 .. rpctag - 1 : Owned(t) # (t \in Range(rpcfree))
        /\ \A p, o \in Procs : r[p] = r[o] /\ r[p] # 0 => p = o
        /\ \A t \in Range(queue) : Owned(t) /\ (rpc[t].done => hung)
        /\ \A p \in Procs : pc[p] = MuxDone => hung \/ Owned(q[p])

\* While a caller sleeps with its reply outstanding, somebody reads, or is
\* about to come to the gate, or is about to wake such a sleeper.
Coming(p) ==
    \/ pc[p] \in {Gate, ToSleep}
    \/ pc[p] \in {Flush, FlushWr} /\ then[p] = Gate
    \/ pc[p] = Asleep /\ ~rpc[r[p]].asleep

SomebodyReads ==
    (\E p \in Procs : pc[p] = Asleep /\ rpc[r[p]].asleep /\ ~rpc[r[p]].done)
        /\ ~hung /\ rip = NoProc
    => \E o \in Procs : Coming(o) \/ (pc[o] = GateWk /\ rpc[q[o]].asleep)

\* Every call returns, interrupted or not, unless the server hangs up or one
\* of the call's messages is lost to an interrupt.  (Calls are bounded.)
CallsReturn ==
    <>[](hung \/ \A p \in Procs : pc[p] \in {Idle, Over} \/ p \in lost)
=============================================================================
