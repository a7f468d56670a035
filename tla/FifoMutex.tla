----------------------------- MODULE FifoMutex -----------------------------
(***************************************************************************)
(* What a QLock promises to the rest of the system, with no spin lock, no  *)
(* linked list and no rendezvous: at most one process owns the lock, the   *)
(* processes that found it busy queue in the order they asked, and a       *)
(* release passes the lock straight to the head of the queue, so that a    *)
(* newcomer cannot overtake a process that already waits.  The native     *)
(* kernel's qlock does just this in one section under its spin lock; the   *)
(* hosted one, which QLock follows, in several.                            *)
(***************************************************************************)
EXTENDS Naturals, Sequences

CONSTANTS Procs,      \* the processes that use the lock
          NoProc      \* "no process", the nil Proc*

VARIABLES owner,      \* the process that may enter, or NoProc
          queue       \* the processes waiting, oldest first

mutexVars == <<owner, queue>>

Waiting == {queue[i] : i \in 1 .. Len(queue)}

MutexInit == owner = NoProc /\ queue = <<>>

Take(p) ==
    /\ owner = NoProc
    /\ owner' = p
    /\ UNCHANGED queue

Enqueue(p) ==
    /\ owner \notin {NoProc, p}
    /\ p \notin Waiting
    /\ queue' = Append(queue, p)
    /\ UNCHANGED owner

PassOn ==
    /\ queue # <<>>
    /\ owner' = Head(queue)
    /\ queue' = Tail(queue)

Drop ==
    /\ owner # NoProc
    /\ queue = <<>>
    /\ owner' = NoProc
    /\ UNCHANGED queue

MutexNext ==
    \/ \E p \in Procs : Take(p) \/ Enqueue(p)
    \/ PassOn
    \/ Drop

MutexSpec == MutexInit /\ [][MutexNext]_mutexVars
=============================================================================
