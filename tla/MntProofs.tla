------------------------------ MODULE MntProofs ------------------------------
(***************************************************************************)
(* Proofs about Mnt, for any number of calls, interrupts and tags: a reply *)
(* goes to the call it was sent for, an rpc has one owner, and while a     *)
(* caller sleeps somebody reads, or is about to.                           *)
(***************************************************************************)
EXTENDS Mnt, QueueFacts

RpcType ==
    [done : BOOLEAN, flushed : BOOLEAN, flushtag : Nat,
     reply : Procs \cup {NoProc}, asleep : BOOLEAN]

Messages == [kind : {"request", "flush"}, tag : Nat, call : Procs]

\* A request has the tag of its rpc, a flush a tag that has been given out.
MsgOK(m) ==
    \/ m.kind = "request" /\ m.tag \in Tags
    \/ m.kind = "flush" /\ Tagfls <= m.tag /\ m.tag < flushtag

StateType ==
    /\ rip \in Procs \cup {NoProc}
    /\ queue \in Seq(Tags) /\ IsInjective(queue) /\ rpcfree \in Seq(Tags)
    /\ flushtag \in Nat /\ Tagfls <= flushtag
    /\ rpctag \in Nat \ {0} /\ rpctag <= MaxCalls + 1
    /\ pc \in [Procs -> Places] /\ then \in [Procs -> {Gate, Read}]
    /\ r \in [Procs -> Tags \cup {0}] /\ q \in [Procs -> Tags \cup {0}]
    /\ rflush \in BOOLEAN /\ hung \in BOOLEAN
    /\ lost \subseteq Procs /\ faults \in Nat /\ faults <= MaxFaults

RpcsType ==
    /\ rpc \in [Tags -> RpcType]
    /\ \A t \in Tags :
          /\ rpc[t].flushtag < flushtag
          /\ rpc[t].flushtag = 0 \/ Tagfls <= rpc[t].flushtag

MsgsType ==
    /\ asked \subseteq Messages /\ msg \in [Procs -> Messages \cup {NoMsg}]
    /\ \A m \in asked : MsgOK(m)
    /\ \A p \in Procs : msg[p] = NoMsg \/ MsgOK(msg[p])

MntType == StateType /\ RpcsType /\ MsgsType

\* A call has an rpc while it lasts, and there are no more rpcs than calls that
\* have begun.
CallInv ==
    \A p \in Procs :
        /\ pc[p] \in {Idle, Over} <=> r[p] = 0
        /\ r[p] < rpctag
        /\ pc[p] = Idle => rpctag <= p
        /\ \A o \in Procs : pc[o] = Idle /\ o < p => pc[p] = Idle

\* Where a process has set q, msg and its rpc's flush tag.
LocalInv ==
    \A p \in Procs :
        /\ pc[p] \in {MuxDone, MuxWake, GateWk} => q[p] \in Tags
        /\ pc[p] \in {Mux, MuxDone} => msg[p] # NoMsg
        /\ pc[p] = FlushWr => Tagfls <= rpc[r[p]].flushtag
        /\ then[p] = Read => pc[p] \in {Flush, FlushWr}

\* p reads the connection, or is about to pass the reading on.
Reader(p) ==
    \/ pc[p] \in {Read, Mux, MuxDone, MuxWake, GateOut}
    \/ pc[p] \in {Flush, FlushWr} /\ then[p] = Read

ReaderInv == \A p \in Procs : Reader(p) => rip = p

PlaceInv == CallInv /\ LocalInv /\ ReaderInv /\ (Broken => hung)

\* An rpc is one call's or free.
FreeInv ==
    /\ IsInjective(rpcfree)
    /\ \A p, o \in Procs : r[p] = r[o] /\ r[p] # 0 => p = o
    /\ \A p \in Procs : r[p] \notin ToSet(rpcfree)
    /\ \A t \in ToSet(rpcfree) : t < rpctag
    /\ \A t \in Tags : t < rpctag => t \in ToSet(rpcfree) \/ \E p \in Procs : r[p] = t

\* t belongs to a call that can do nothing but send, or fail to.
Sending(t) == \E p \in Procs : r[p] = t /\ pc[p] \in {Write, Flush, FlushWr}

\* What is on the queue is some call's, and not done.  After a hang-up mountmux
\* may complete an rpc that has been freed and taken by a call that cannot send
\* any more.
QueuedInv ==
    \A t \in ToSet(queue) :
        /\ \E p \in Procs : r[p] = t
        /\ rpc[t].done => hung /\ Sending(t)

\* A call that is about to return is done and no more on the queue.
LeftInv ==
    \A p \in Procs :
        pc[p] \in {GateOut, GateWk, Return} =>
            rpc[r[p]].done /\ r[p] \notin ToSet(queue)

\* What a reader has just taken off the queue is a call's that waits.
TakenInv ==
    \A p \in Procs :
        pc[p] = MuxDone =>
            /\ q[p] \in ToSet(queue) => hung /\ Sending(q[p])
            /\ hung \/ (~rpc[q[p]].done /\ \E o \in Procs : r[o] = q[p])

OwnInv == FreeInv /\ QueuedInv /\ LeftInv /\ TakenInv

\* A request that is not answered belongs to a call that is not done, and an
\* Rflush matches no call but its own.
MsgInv(m) ==
    /\ pc[m.call] \notin {Idle, Write}
    /\ m.kind = "request" => r[m.call] = m.tag /\ ~rpc[m.tag].done
    /\ m.kind = "flush" =>
          \A t \in ToSet(queue) :
              rpc[t].flushed /\ rpc[t].flushtag = m.tag => r[m.call] = t

AskedInv == \A m \in asked : MsgInv(m)

\* So it is with a message that a reader has; and the request it answers is
\* answered no more.
ReadInv ==
    \A p \in Procs :
        /\ pc[p] \in {Mux, MuxDone} =>
              /\ MsgInv(msg[p])
              /\ \A m \in asked : m.kind = "request" => m.call # msg[p].call
        /\ pc[p] = MuxDone => r[msg[p].call] = q[p]

\* No two calls have the same flush tag.
FlushInv ==
    /\ \A t, u \in Tags :
          /\ rpc[t].flushed => Tagfls <= rpc[t].flushtag
          /\ rpc[t].flushed /\ rpc[u].flushed /\ rpc[t].flushtag = rpc[u].flushtag
                => t = u
    /\ \A p \in Procs : pc[p] = FlushWr => rpc[r[p]].flushed

\* A call is not done before it has sent its request, and what is not done is
\* on the queue, or has just been taken off it.
WaitInv ==
    \A p \in Procs :
        /\ pc[p] = Write => ~rpc[r[p]].done
        /\ r[p] # 0 /\ ~rpc[r[p]].done =>
              \/ r[p] \in ToSet(queue)
              \/ \E o \in Procs : pc[o] = MuxDone /\ q[o] = r[p]

\* r.p is set while its call sleeps.
AsleepInv ==
    \A t \in Tags : rpc[t].asleep => \E p \in Procs : r[p] = t /\ pc[p] = Asleep

\* Somebody whose own reply is outstanding comes to the gate, or one who
\* leaves it is about to wake such a caller.
Outstanding(p) == pc[p] = Asleep /\ rpc[r[p]].asleep /\ ~rpc[r[p]].done

Relief(o) ==
    \/ Coming(o) /\ ~rpc[r[o]].done
    \/ pc[o] = GateWk /\ rpc[q[o]].asleep /\ ~rpc[q[o]].done

GateInv ==
    (\E p \in Procs : Outstanding(p)) /\ rip = NoProc => \E o \in Procs : Relief(o)

NetInv ==
    AskedInv /\ ReadInv /\ FlushInv /\ WaitInv /\ AsleepInv /\ GateInv /\ ReplyIsOwn

MntInv ==
    MntType /\ PlaceInv /\ (~Broken => OwnInv) /\ (~hung => NetInv)

USE DEF NoProc, Idle, Over, Write, Gate, ToSleep, Asleep, Read, Mux, MuxDone,
        MuxWake, Flush, FlushWr, GateOut, GateWk, Return, Hungup, Places

----------------------------------------------------------------------------
(* Lemmas on messages, tags and places. *)

LEMMA MessageFacts ==
  ASSUME NEW m \in Messages
  PROVE  m.kind \in {"request", "flush"} /\ m.tag \in Nat /\ m.call \in Procs
  BY DEF Messages

LEMMA SameMessage ==
  ASSUME NEW m \in Messages, NEW o \in Messages,
         m.kind = o.kind, m.tag = o.tag, m.call = o.call
  PROVE  m = o
  BY DEF Messages

LEMMA MinFacts ==
  ASSUME NEW T, T \subseteq Nat, T # {}
  PROVE  Min(T) \in T
<1>1. PICK n \in T : \A m \in T : n <= m
  BY LeastElement
<1> QED
  BY <1>1 DEF Min

\* A process that is in a call has an rpc, and no other has.
LEMMA CallFacts ==
  ASSUME MntType, CallInv, LocalInv
  PROVE  /\ 0 \notin Procs /\ 0 \notin Tags
         /\ \A o \in Procs : pc[o] \notin {Idle, Over} => r[o] \in Tags
         /\ \A o \in Procs : r[o] # 0 => r[o] \in Tags /\ pc[o] \notin {Idle, Over}
         /\ \A o \in Procs : pc[o] \in {MuxDone, MuxWake, GateWk} => q[o] \in Tags
         /\ ToSet(queue) \subseteq Tags
<1>1. 0 \notin Procs /\ 0 \notin Tags
  BY MntAssumption DEF Procs, Tags
<1>2. ToSet(queue) \subseteq Tags
  BY EmptySet DEF MntType, StateType
<1>3. r \in [Procs -> Tags \cup {0}]
  BY DEF MntType, StateType
<1> QED
  BY <1>1, <1>2, <1>3 DEF CallInv, LocalInv

\* Every message on the connection, or in a reader's hands, has a tag of its kind.
LEMMA TransitFacts ==
  ASSUME MntType, LocalInv
  PROVE  /\ \A m \in asked :
               /\ m.kind \in {"request", "flush"} /\ m.tag \in Nat /\ m.call \in Procs
               /\ m.kind = "request" => m.tag \in Tags
               /\ m.kind = "flush" => Tagfls <= m.tag /\ m.tag < flushtag
         /\ \A o \in Procs : pc[o] \in {Mux, MuxDone} =>
               /\ msg[o] \in Messages /\ msg[o].kind \in {"request", "flush"}
               /\ msg[o].tag \in Nat /\ msg[o].call \in Procs
               /\ msg[o].kind = "request" => msg[o].tag \in Tags
               /\ msg[o].kind = "flush" => Tagfls <= msg[o].tag /\ msg[o].tag < flushtag
<1>1. \A m \in asked : m \in Messages /\ MsgOK(m)
  BY DEF MntType, MsgsType
<1>2. \A o \in Procs : pc[o] \in {Mux, MuxDone} => msg[o] \in Messages /\ MsgOK(msg[o])
  BY DEF MntType, MsgsType, LocalInv
<1> QED
  BY <1>1, <1>2, MessageFacts DEF MsgOK

----------------------------------------------------------------------------
(* Each action keeps the invariant: first what it does to the variables, then *)
(* each part of the invariant.                                               *)

LEMMA SendStep ==
  ASSUME MntInv, NEW p \in Procs, Send(p)
  PROVE  MntInv'
<1>1. /\ pc[p] = Write
      /\ pc' = [pc EXCEPT ![p] = Gate]
      /\ ~hung
      /\ asked' = asked \cup {Request(p)}
  BY DEF Send, At, Goto
<1>2. MntType /\ CallInv /\ LocalInv /\ ReaderInv /\ (Broken => hung)
  BY DEF MntInv, PlaceInv
<1>3. /\ 0 \notin Procs /\ 0 \notin Tags
      /\ \A o \in Procs : pc[o] \notin {Idle, Over} => r[o] \in Tags
      /\ \A o \in Procs : r[o] # 0 => r[o] \in Tags /\ pc[o] \notin {Idle, Over}
      /\ \A o \in Procs : pc[o] \in {MuxDone, MuxWake, GateWk} => q[o] \in Tags
      /\ ToSet(queue) \subseteq Tags
  BY <1>2, CallFacts
<1>4. UNCHANGED <<rip, queue, flushtag, rpcfree, rpctag, rpc, r, then,
                     msg, q, rflush, hung, lost, faults>>
  BY DEF Send, At, Goto, mvars, net, loc
<1>5. /\ pc[p] = Write
      /\ pc'[p] = Gate
      /\ ~hung
      /\ asked' = asked \cup {Request(p)}
      /\ \A o \in Procs \ {p} : pc'[o] = pc[o]
  BY <1>1, <1>2 DEF MntType, StateType
<1>6. /\ Request(p).kind = "request" /\ Request(p).call = p
      /\ Request(p).tag = r[p] /\ r[p] \in Tags /\ Request(p) \in Messages
  BY <1>3, <1>5 DEF Request, Messages, Tags
<1>7. MntType'
  <2>1. StateType'
    BY <1>1, <1>2, <1>4 DEF MntType, StateType
  <2>2. RpcsType'
    BY <1>2, <1>4 DEF MntType, RpcsType
  <2>3. MsgsType'
    BY <1>2, <1>4, <1>5, <1>6 DEF MntType, MsgsType, MsgOK
  <2> QED
    BY <2>1, <2>2, <2>3 DEF MntType
<1>8. CallInv'
  BY <1>2, <1>4, <1>5 DEF CallInv
<1>9. LocalInv'
  BY <1>2, <1>4, <1>5 DEF LocalInv
<1>10. ReaderInv'
  BY <1>2, <1>4, <1>5 DEF ReaderInv, Reader
<1>11. Broken' = Broken
  BY <1>5 DEF Broken, MntType
<1>12. ASSUME ~Broken' PROVE OwnInv'
  <2>1. OwnInv
    BY <1>11, <1>12 DEF MntInv
  <2>2. FreeInv'
    BY <1>4, <2>1 DEF OwnInv, FreeInv
  <2>3. QueuedInv'
    BY <1>4, <1>5, <2>1 DEF OwnInv, QueuedInv
  <2>4. LeftInv'
    BY <1>4, <1>5, <2>1 DEF OwnInv, LeftInv
  <2>5. TakenInv'
    BY <1>4, <1>5, <2>1 DEF OwnInv, TakenInv
  <2> QED
    BY <2>2, <2>3, <2>4, <2>5 DEF OwnInv
<1>13. ASSUME ~hung' PROVE NetInv'
  <2>1. NetInv /\ OwnInv
    BY <1>2, <1>4, <1>13 DEF MntInv
  <2>2. AskedInv'
    <3>1. \A m \in asked : MsgInv(m)'
      BY <1>2, <1>4, <1>5, <2>1, TransitFacts DEF NetInv, AskedInv, MsgInv
    <3>2. ASSUME NEW m, m = Request(p) PROVE MsgInv(m)'
      BY <1>4, <1>5, <1>6, <2>1, <3>2 DEF NetInv, WaitInv, MsgInv
    <3> QED
      BY <1>5, <3>1, <3>2 DEF AskedInv
  <2>3. ReadInv'
    <3>1. ASSUME NEW o \in Procs, pc'[o] \in {Mux, MuxDone}
          PROVE  /\ o # p /\ pc[o] \in {Mux, MuxDone}
                 /\ msg[o].call \in Procs \ {p} /\ MsgInv(msg[o])
      BY <1>2, <1>5, <2>1, <3>1, TransitFacts DEF NetInv, ReadInv, MsgInv
    <3>2. ASSUME NEW o \in Procs, pc'[o] \in {Mux, MuxDone}
          PROVE  MsgInv(msg[o])'
      BY <1>4, <1>5, <3>1, <3>2 DEF MsgInv
    <3> QED
      BY <1>4, <1>5, <1>6, <2>1, <3>1, <3>2 DEF NetInv, ReadInv
  <2>4. FlushInv'
    BY <1>4, <1>5, <2>1 DEF NetInv, FlushInv
  <2>5. WaitInv'
    BY <1>4, <1>5, <2>1 DEF NetInv, WaitInv
  <2>6. AsleepInv'
    BY <1>4, <1>5, <2>1 DEF NetInv, AsleepInv
  <2>7. GateInv'
    BY <1>4, <1>5, <2>1 DEF NetInv, GateInv, Outstanding, Relief, Coming
  <2>8. ReplyIsOwn'
    BY <1>4, <1>5, <2>1 DEF NetInv, ReplyIsOwn
  <2> QED
    BY <2>2, <2>3, <2>4, <2>5, <2>6, <2>7, <2>8 DEF NetInv
<1> QED
  BY <1>4, <1>7, <1>8, <1>9, <1>10, <1>11, <1>12, <1>13 DEF MntInv, PlaceInv

LEMMA SendInterruptedStep ==
  ASSUME MntInv, NEW p \in Procs, SendInterrupted(p)
  PROVE  MntInv'
<1>1. /\ pc[p] = Write
      /\ pc' = [pc EXCEPT ![p] = Flush]
      /\ ~hung
      /\ then' = [then EXCEPT ![p] = Gate]
      /\ faults < MaxFaults
      /\ faults' = faults + 1
      /\ asked' = asked \/ asked' = asked \cup {Request(p)}
      /\ lost' = lost \/ lost' = lost \cup {o \in {p} : pc[o] # Over}
  BY DEF SendInterrupted, Interrupted, Loses, Goto
<1>2. MntType /\ CallInv /\ LocalInv /\ ReaderInv /\ (Broken => hung)
  BY DEF MntInv, PlaceInv
<1>3. /\ 0 \notin Procs /\ 0 \notin Tags
      /\ \A o \in Procs : pc[o] \notin {Idle, Over} => r[o] \in Tags
      /\ \A o \in Procs : r[o] # 0 => r[o] \in Tags /\ pc[o] \notin {Idle, Over}
      /\ \A o \in Procs : pc[o] \in {MuxDone, MuxWake, GateWk} => q[o] \in Tags
      /\ ToSet(queue) \subseteq Tags
  BY <1>2, CallFacts
<1>4. UNCHANGED <<rip, queue, flushtag, rpcfree, rpctag, rpc,
                     r, msg, q, rflush, hung>>
  BY DEF SendInterrupted, Interrupted, Loses, Goto, mvars, net, loc
<1>5. /\ pc[p] = Write
      /\ pc'[p] = Flush
      /\ ~hung
      /\ then'[p] = Gate
      /\ faults < MaxFaults
      /\ faults' = faults + 1
      /\ asked' = asked \/ asked' = asked \cup {Request(p)}
      /\ lost' = lost \/ lost' = lost \cup {o \in {p} : pc[o] # Over}
      /\ \A o \in Procs \ {p} : pc'[o] = pc[o] /\ then'[o] = then[o]
  BY <1>1, <1>2 DEF MntType, StateType
<1>6. /\ Request(p).kind = "request" /\ Request(p).call = p
      /\ Request(p).tag = r[p] /\ r[p] \in Tags /\ Request(p) \in Messages
  BY <1>3, <1>5 DEF Request, Messages, Tags
<1>7. MntType'
  <2>1. StateType'
    BY <1>1, <1>2, <1>4, MntAssumption DEF MntType, StateType
  <2>2. RpcsType'
    BY <1>2, <1>4 DEF MntType, RpcsType
  <2>3. MsgsType'
    BY <1>2, <1>4, <1>5, <1>6 DEF MntType, MsgsType, MsgOK
  <2> QED
    BY <2>1, <2>2, <2>3 DEF MntType
<1>8. CallInv'
  BY <1>2, <1>4, <1>5 DEF CallInv
<1>9. LocalInv'
  BY <1>2, <1>4, <1>5 DEF LocalInv
<1>10. ReaderInv'
  BY <1>2, <1>4, <1>5 DEF ReaderInv, Reader
<1>11. Broken' = Broken
  BY <1>5 DEF Broken, MntType
<1>12. ASSUME ~Broken' PROVE OwnInv'
  <2>1. OwnInv
    BY <1>11, <1>12 DEF MntInv
  <2>2. FreeInv'
    BY <1>4, <2>1 DEF OwnInv, FreeInv
  <2>3. QueuedInv'
    BY <1>4, <1>5, <2>1 DEF OwnInv, QueuedInv
  <2>4. LeftInv'
    BY <1>4, <1>5, <2>1 DEF OwnInv, LeftInv
  <2>5. TakenInv'
    BY <1>4, <1>5, <2>1 DEF OwnInv, TakenInv
  <2> QED
    BY <2>2, <2>3, <2>4, <2>5 DEF OwnInv
<1>13. ASSUME ~hung' PROVE NetInv'
  <2>1. NetInv /\ OwnInv
    BY <1>2, <1>4, <1>13 DEF MntInv
  <2>2. AskedInv'
    <3>1. \A m \in asked : MsgInv(m)'
      BY <1>2, <1>4, <1>5, <2>1, TransitFacts DEF NetInv, AskedInv, MsgInv
    <3>2. ASSUME NEW m, m = Request(p) PROVE MsgInv(m)'
      BY <1>4, <1>5, <1>6, <2>1, <3>2 DEF NetInv, WaitInv, MsgInv
    <3> QED
      BY <1>5, <3>1, <3>2 DEF AskedInv
  <2>3. ReadInv'
    <3>1. ASSUME NEW o \in Procs, pc'[o] \in {Mux, MuxDone}
          PROVE  /\ o # p /\ pc[o] \in {Mux, MuxDone}
                 /\ msg[o].call \in Procs \ {p} /\ MsgInv(msg[o])
      BY <1>2, <1>5, <2>1, <3>1, TransitFacts DEF NetInv, ReadInv, MsgInv
    <3>2. ASSUME NEW o \in Procs, pc'[o] \in {Mux, MuxDone}
          PROVE  MsgInv(msg[o])'
      BY <1>4, <1>5, <3>1, <3>2 DEF MsgInv
    <3> QED
      BY <1>4, <1>5, <1>6, <2>1, <3>1, <3>2 DEF NetInv, ReadInv
  <2>4. FlushInv'
    BY <1>4, <1>5, <2>1 DEF NetInv, FlushInv
  <2>5. WaitInv'
    BY <1>4, <1>5, <2>1 DEF NetInv, WaitInv
  <2>6. AsleepInv'
    BY <1>4, <1>5, <2>1 DEF NetInv, AsleepInv
  <2>7. GateInv'
    BY <1>4, <1>5, <2>1 DEF NetInv, GateInv, Outstanding, Relief, Coming
  <2>8. ReplyIsOwn'
    BY <1>4, <1>5, <2>1 DEF NetInv, ReplyIsOwn
  <2> QED
    BY <2>2, <2>3, <2>4, <2>5, <2>6, <2>7, <2>8 DEF NetInv
<1> QED
  BY <1>4, <1>7, <1>8, <1>9, <1>10, <1>11, <1>12, <1>13 DEF MntInv, PlaceInv

LEMMA SendFailsStep ==
  ASSUME MntInv, NEW p \in Procs, SendFails(p)
  PROVE  MntInv'
<1>1. /\ pc[p] = Write
      /\ pc' = [pc EXCEPT ![p] = Flush]
      /\ hung
  BY DEF SendFails, At, Goto
<1>2. MntType /\ CallInv /\ LocalInv /\ ReaderInv /\ (Broken => hung)
  BY DEF MntInv, PlaceInv
<1>4. UNCHANGED <<rip, queue, flushtag, rpcfree, rpctag, rpc, r, then,
                     msg, q, asked, rflush, hung, lost, faults>>
  BY DEF SendFails, At, Goto, mvars, net, loc
<1>5. /\ pc[p] = Write
      /\ pc'[p] = Flush
      /\ hung
      /\ \A o \in Procs \ {p} : pc'[o] = pc[o]
  BY <1>1, <1>2 DEF MntType, StateType
<1>7. MntType'
  <2>1. StateType'
    BY <1>1, <1>2, <1>4 DEF MntType, StateType
  <2>2. RpcsType'
    BY <1>2, <1>4 DEF MntType, RpcsType
  <2>3. MsgsType'
    BY <1>2, <1>4 DEF MntType, MsgsType, MsgOK
  <2> QED
    BY <2>1, <2>2, <2>3 DEF MntType
<1>8. CallInv'
  BY <1>2, <1>4, <1>5 DEF CallInv
<1>9. LocalInv'
  BY <1>2, <1>4, <1>5 DEF LocalInv
<1>10. ReaderInv'
  BY <1>2, <1>4, <1>5 DEF ReaderInv, Reader, LocalInv
<1>11. Broken' = Broken
  BY <1>5 DEF Broken, MntType
<1>12. ASSUME ~Broken' PROVE OwnInv'
  <2>1. OwnInv
    BY <1>11, <1>12 DEF MntInv
  <2>2. FreeInv'
    BY <1>4, <2>1 DEF OwnInv, FreeInv
  <2>3. QueuedInv'
    BY <1>4, <1>5, <2>1 DEF OwnInv, QueuedInv, Sending
  <2>4. LeftInv'
    BY <1>4, <1>5, <2>1 DEF OwnInv, LeftInv
  <2>5. TakenInv'
    BY <1>4, <1>5, <2>1 DEF OwnInv, TakenInv, Sending
  <2> QED
    BY <2>2, <2>3, <2>4, <2>5 DEF OwnInv
<1>13. hung'
  BY <1>1, <1>4
<1> QED
  BY <1>7, <1>8, <1>9, <1>10, <1>11, <1>12, <1>13 DEF MntInv, PlaceInv

LEMMA EnterGateStep ==
  ASSUME MntInv, NEW p \in Procs, EnterGate(p)
  PROVE  MntInv'
<1>1. /\ pc[p] = Gate
      /\ \/ rip = NoProc /\ rip' = p /\ rpc[r[p]].done /\ pc' = [pc EXCEPT ![p] = GateOut]
         \/ rip = NoProc /\ rip' = p /\ ~rpc[r[p]].done /\ pc' = [pc EXCEPT ![p] = Read]
         \/ rip # NoProc /\ rip' = rip /\ pc' = [pc EXCEPT ![p] = ToSleep]
  BY DEF EnterGate, Loop, Goto
<1>2. MntType /\ CallInv /\ LocalInv /\ ReaderInv /\ (Broken => hung)
  BY DEF MntInv, PlaceInv
<1>3. /\ 0 \notin Procs /\ 0 \notin Tags
      /\ \A o \in Procs : pc[o] \notin {Idle, Over} => r[o] \in Tags
      /\ \A o \in Procs : r[o] # 0 => r[o] \in Tags /\ pc[o] \notin {Idle, Over}
      /\ \A o \in Procs : pc[o] \in {MuxDone, MuxWake, GateWk} => q[o] \in Tags
      /\ ToSet(queue) \subseteq Tags
  BY <1>2, CallFacts
<1>4. UNCHANGED <<queue, flushtag, rpcfree, rpctag, rpc, r, then, msg,
                     q, asked, rflush, hung, lost, faults>>
  BY DEF EnterGate, Loop, Goto, mvars, net, loc
<1>5. /\ pc[p] = Gate
      /\ \/ rip = NoProc /\ rip' = p /\ rpc[r[p]].done /\ pc'[p] = GateOut
         \/ rip = NoProc /\ rip' = p /\ ~rpc[r[p]].done /\ pc'[p] = Read
         \/ rip # NoProc /\ rip' = rip /\ pc'[p] = ToSleep
      /\ \A o \in Procs \ {p} : pc'[o] = pc[o]
  BY <1>1, <1>2 DEF MntType, StateType
<1>7. MntType'
  <2>1. StateType'
    BY <1>1, <1>2, <1>4 DEF MntType, StateType
  <2>2. RpcsType'
    BY <1>2, <1>4 DEF MntType, RpcsType
  <2>3. MsgsType'
    BY <1>2, <1>4 DEF MntType, MsgsType, MsgOK
  <2> QED
    BY <2>1, <2>2, <2>3 DEF MntType
<1>8. CallInv'
  BY <1>2, <1>4, <1>5 DEF CallInv
<1>9. LocalInv'
  BY <1>2, <1>4, <1>5 DEF LocalInv
<1>10. ReaderInv'
  BY <1>2, <1>3, <1>4, <1>5 DEF ReaderInv, Reader
<1>11. Broken' = Broken
  BY <1>5 DEF Broken, MntType
<1>12. ASSUME ~Broken' PROVE OwnInv'
  <2>1. OwnInv
    BY <1>11, <1>12 DEF MntInv
  <2>2. FreeInv'
    BY <1>4, <2>1 DEF OwnInv, FreeInv
  <2>3. QueuedInv'
    BY <1>4, <1>5, <2>1 DEF OwnInv, QueuedInv, Sending
  <2>4. LeftInv'
    BY <1>3, <1>4, <1>5, <2>1 DEF OwnInv, FreeInv, QueuedInv, LeftInv,
                                  TakenInv, Sending
  <2>5. TakenInv'
    BY <1>4, <1>5, <2>1 DEF OwnInv, TakenInv, Sending
  <2> QED
    BY <2>2, <2>3, <2>4, <2>5 DEF OwnInv
<1>13. ASSUME ~hung' PROVE NetInv'
  <2>1. NetInv /\ OwnInv
    BY <1>2, <1>4, <1>13 DEF MntInv
  <2>2. AskedInv'
    BY <1>2, <1>4, <1>5, <2>1, TransitFacts DEF NetInv, AskedInv, MsgInv
  <2>3. ReadInv'
    BY <1>2, <1>4, <1>5, <2>1, TransitFacts DEF NetInv, ReadInv, MsgInv
  <2>4. FlushInv'
    BY <1>4, <1>5, <2>1 DEF NetInv, FlushInv
  <2>5. WaitInv'
    BY <1>4, <1>5, <2>1 DEF NetInv, WaitInv
  <2>6. AsleepInv'
    BY <1>4, <1>5, <2>1 DEF NetInv, AsleepInv
  <2>7. GateInv'
    BY <1>3, <1>5 DEF NetInv, GateInv, Outstanding, Relief, Coming
  <2>8. ReplyIsOwn'
    BY <1>4, <1>5, <2>1 DEF NetInv, ReplyIsOwn
  <2> QED
    BY <2>2, <2>3, <2>4, <2>5, <2>6, <2>7, <2>8 DEF NetInv
<1> QED
  BY <1>4, <1>7, <1>8, <1>9, <1>10, <1>11, <1>12, <1>13 DEF MntInv, PlaceInv

LEMMA SleepStep ==
  ASSUME MntInv, NEW p \in Procs, Sleep(p)
  PROVE  MntInv'
<1>1. /\ pc[p] = ToSleep
      /\ \/ rpc[r[p]].done /\ pc' = [pc EXCEPT ![p] = Return] /\ rpc' = rpc
         \/ /\ ~rpc[r[p]].done /\ rip = NoProc
            /\ pc' = [pc EXCEPT ![p] = Gate] /\ rpc' = rpc
         \/ /\ ~rpc[r[p]].done /\ rip # NoProc /\ pc' = [pc EXCEPT ![p] = Asleep]
            /\ rpc' = [rpc EXCEPT ![r[p]].asleep = TRUE]
  BY DEF Sleep, rpcattn, Awake, Goto
<1>2. MntType /\ CallInv /\ LocalInv /\ ReaderInv /\ (Broken => hung)
  BY DEF MntInv, PlaceInv
<1>3. /\ 0 \notin Procs /\ 0 \notin Tags
      /\ \A o \in Procs : pc[o] \notin {Idle, Over} => r[o] \in Tags
      /\ \A o \in Procs : r[o] # 0 => r[o] \in Tags /\ pc[o] \notin {Idle, Over}
      /\ \A o \in Procs : pc[o] \in {MuxDone, MuxWake, GateWk} => q[o] \in Tags
      /\ ToSet(queue) \subseteq Tags
  BY <1>2, CallFacts
<1>4. UNCHANGED <<rip, queue, flushtag, rpcfree, rpctag, r, then, msg,
                     q, asked, rflush, hung, lost, faults>>
  BY DEF Sleep, rpcattn, Awake, Goto, mvars, net, loc
<1>5. /\ pc[p] = ToSleep
      /\ \A o \in Procs \ {p} : pc'[o] = pc[o]
  BY <1>1, <1>2 DEF MntType, StateType
<1>6. /\ \A t \in Tags : /\ rpc'[t].done = rpc[t].done /\ rpc'[t].flushed = rpc[t].flushed
                         /\ rpc'[t].flushtag = rpc[t].flushtag /\ rpc'[t].reply = rpc[t].reply
                         /\ t # r[p] => rpc'[t].asleep = rpc[t].asleep
      /\ \/ rpc[r[p]].done /\ pc'[p] = Return /\ rpc'[r[p]].asleep = rpc[r[p]].asleep
         \/ /\ ~rpc[r[p]].done /\ rip = NoProc /\ pc'[p] = Gate
            /\ rpc'[r[p]].asleep = rpc[r[p]].asleep
         \/ /\ ~rpc[r[p]].done /\ rip # NoProc /\ pc'[p] = Asleep
            /\ rpc'[r[p]].asleep
      /\ rpc' \in [Tags -> RpcType] /\ r[p] \in Tags
  <2>1. rpc \in [Tags -> RpcType] /\ r[p] \in Tags
    BY <1>1, <1>2, <1>3 DEF MntType, RpcsType
  <2>2. p \in DOMAIN pc
    BY <1>2 DEF MntType, StateType
  <2>3. CASE rpc[r[p]].done /\ pc' = [pc EXCEPT ![p] = Return] /\ rpc' = rpc
    BY <2>1, <2>2, <2>3
  <2>4. CASE /\ ~rpc[r[p]].done /\ rip = NoProc
             /\ pc' = [pc EXCEPT ![p] = Gate] /\ rpc' = rpc
    BY <2>1, <2>2, <2>4
  <2>5. CASE /\ ~rpc[r[p]].done /\ rip # NoProc /\ pc' = [pc EXCEPT ![p] = Asleep]
             /\ rpc' = [rpc EXCEPT ![r[p]].asleep = TRUE]
    <3>1. /\ rpc' \in [Tags -> RpcType]
          /\ \A t \in Tags : /\ rpc'[t].done = rpc[t].done /\ rpc'[t].flushed = rpc[t].flushed
                             /\ rpc'[t].flushtag = rpc[t].flushtag /\ rpc'[t].reply = rpc[t].reply
                             /\ t # r[p] => rpc'[t].asleep = rpc[t].asleep
          /\ rpc'[r[p]].asleep
      BY <2>1, <2>5 DEF RpcType
    <3> QED
      BY <2>1, <2>2, <2>5, <3>1
  <2> QED
    BY <1>1, <2>3, <2>4, <2>5
<1>7. MntType'
  <2>1. StateType'
    BY <1>1, <1>2, <1>3, <1>4 DEF MntType, StateType
  <2>2. RpcsType'
    BY <1>2, <1>4, <1>6 DEF MntType, RpcsType
  <2>3. MsgsType'
    BY <1>2, <1>4 DEF MntType, MsgsType, MsgOK
  <2> QED
    BY <2>1, <2>2, <2>3 DEF MntType
<1>8. CallInv'
  BY <1>2, <1>4, <1>5, <1>6 DEF CallInv
<1>9. LocalInv'
  BY <1>2, <1>3, <1>4, <1>5, <1>6 DEF LocalInv
<1>10. ReaderInv'
  BY <1>2, <1>4, <1>5, <1>6 DEF ReaderInv, Reader
<1>11. Broken' = Broken
  BY <1>5, <1>6 DEF Broken
<1>12. ASSUME ~Broken' PROVE OwnInv'
  <2>1. OwnInv
    BY <1>11, <1>12 DEF MntInv
  <2>2. FreeInv'
    BY <1>4, <2>1 DEF OwnInv, FreeInv
  <2>3. QueuedInv'
    BY <1>3, <1>4, <1>5, <1>6, <2>1 DEF OwnInv, QueuedInv, Sending
  <2>4. LeftInv'
    BY <1>3, <1>4, <1>5, <1>6, <2>1 DEF OwnInv, FreeInv, QueuedInv, LeftInv,
      TakenInv,
       Sending
  <2>5. TakenInv'
    BY <1>3, <1>4, <1>5, <1>6, <2>1 DEF OwnInv, TakenInv, Sending
  <2> QED
    BY <2>2, <2>3, <2>4, <2>5 DEF OwnInv
<1>13. ASSUME ~hung' PROVE NetInv'
  <2>1. NetInv /\ OwnInv
    BY <1>2, <1>4, <1>13 DEF MntInv
  <2>2. AskedInv'
    BY <1>2, <1>3, <1>4, <1>5, <1>6, <2>1, TransitFacts DEF NetInv, AskedInv,
      MsgInv
  <2>3. ReadInv'
    BY <1>2, <1>3, <1>4, <1>5, <1>6, <2>1, TransitFacts DEF NetInv, ReadInv,
      MsgInv
  <2>4. FlushInv'
    BY <1>3, <1>4, <1>5, <1>6, <2>1 DEF NetInv, FlushInv
  <2>5. WaitInv'
    BY <1>3, <1>4, <1>5, <1>6, <2>1 DEF NetInv, WaitInv
  <2>6. AsleepInv'
    BY <1>4, <1>5, <1>6, <2>1 DEF NetInv, AsleepInv
  <2>7. GateInv'
    BY <1>3, <1>4, <1>5, <1>6, <2>1 DEF NetInv, GateInv, Outstanding, Relief,
      Coming
  <2>8. ReplyIsOwn'
    BY <1>3, <1>4, <1>5, <1>6, <2>1 DEF NetInv, ReplyIsOwn
  <2> QED
    BY <2>2, <2>3, <2>4, <2>5, <2>6, <2>7, <2>8 DEF NetInv
<1> QED
  BY <1>4, <1>7, <1>8, <1>9, <1>10, <1>11, <1>12, <1>13 DEF MntInv, PlaceInv

LEMMA SleepReturnStep ==
  ASSUME MntInv, NEW p \in Procs, SleepReturn(p)
  PROVE  MntInv'
<1>1. /\ pc[p] = Asleep
      /\ ~rpc[r[p]].asleep
      /\ \/ rpc[r[p]].done /\ pc' = [pc EXCEPT ![p] = Return]
         \/ ~rpc[r[p]].done /\ pc' = [pc EXCEPT ![p] = Gate]
  BY DEF SleepReturn, Awake, Goto
<1>2. MntType /\ CallInv /\ LocalInv /\ ReaderInv /\ (Broken => hung)
  BY DEF MntInv, PlaceInv
<1>3. /\ 0 \notin Procs /\ 0 \notin Tags
      /\ \A o \in Procs : pc[o] \notin {Idle, Over} => r[o] \in Tags
      /\ \A o \in Procs : r[o] # 0 => r[o] \in Tags /\ pc[o] \notin {Idle, Over}
      /\ \A o \in Procs : pc[o] \in {MuxDone, MuxWake, GateWk} => q[o] \in Tags
      /\ ToSet(queue) \subseteq Tags
  BY <1>2, CallFacts
<1>4. UNCHANGED <<rip, queue, flushtag, rpcfree, rpctag, rpc, r, then,
                     msg, q, asked, rflush, hung, lost, faults>>
  BY DEF SleepReturn, Awake, Goto, mvars, net, loc
<1>5. /\ pc[p] = Asleep
      /\ ~rpc[r[p]].asleep
      /\ \/ rpc[r[p]].done /\ pc'[p] = Return
         \/ ~rpc[r[p]].done /\ pc'[p] = Gate
      /\ \A o \in Procs \ {p} : pc'[o] = pc[o]
  BY <1>1, <1>2 DEF MntType, StateType
<1>7. MntType'
  <2>1. StateType'
    BY <1>1, <1>2, <1>4 DEF MntType, StateType
  <2>2. RpcsType'
    BY <1>2, <1>4 DEF MntType, RpcsType
  <2>3. MsgsType'
    BY <1>2, <1>4 DEF MntType, MsgsType, MsgOK
  <2> QED
    BY <2>1, <2>2, <2>3 DEF MntType
<1>8. CallInv'
  BY <1>2, <1>4, <1>5 DEF CallInv
<1>9. LocalInv'
  BY <1>2, <1>4, <1>5 DEF LocalInv
<1>10. ReaderInv'
  BY <1>2, <1>4, <1>5 DEF ReaderInv, Reader
<1>11. Broken' = Broken
  BY <1>5 DEF Broken, MntType
<1>12. ASSUME ~Broken' PROVE OwnInv'
  <2>1. OwnInv
    BY <1>11, <1>12 DEF MntInv
  <2>2. FreeInv'
    BY <1>4, <2>1 DEF OwnInv, FreeInv
  <2>3. QueuedInv'
    BY <1>4, <1>5, <2>1 DEF OwnInv, QueuedInv, Sending
  <2>4. LeftInv'
    BY <1>3, <1>4, <1>5, <2>1 DEF OwnInv, FreeInv, QueuedInv, LeftInv,
                                  TakenInv, Sending
  <2>5. TakenInv'
    BY <1>4, <1>5, <2>1 DEF OwnInv, TakenInv, Sending
  <2> QED
    BY <2>2, <2>3, <2>4, <2>5 DEF OwnInv
<1>13. ASSUME ~hung' PROVE NetInv'
  <2>1. NetInv /\ OwnInv
    BY <1>2, <1>4, <1>13 DEF MntInv
  <2>2. AskedInv'
    BY <1>2, <1>4, <1>5, <2>1, TransitFacts DEF NetInv, AskedInv, MsgInv
  <2>3. ReadInv'
    BY <1>2, <1>4, <1>5, <2>1, TransitFacts DEF NetInv, ReadInv, MsgInv
  <2>4. FlushInv'
    BY <1>4, <1>5, <2>1 DEF NetInv, FlushInv
  <2>5. WaitInv'
    BY <1>4, <1>5, <2>1 DEF NetInv, WaitInv
  <2>6. AsleepInv'
    BY <1>4, <1>5, <2>1 DEF NetInv, AsleepInv
  <2>7. GateInv'
    BY <1>4, <1>5, <2>1 DEF NetInv, GateInv, Outstanding, Relief, Coming
  <2>8. ReplyIsOwn'
    BY <1>4, <1>5, <2>1 DEF NetInv, ReplyIsOwn
  <2> QED
    BY <2>2, <2>3, <2>4, <2>5, <2>6, <2>7, <2>8 DEF NetInv
<1> QED
  BY <1>4, <1>7, <1>8, <1>9, <1>10, <1>11, <1>12, <1>13 DEF MntInv, PlaceInv

LEMMA SleepInterruptedStep ==
  ASSUME MntInv, NEW p \in Procs, SleepInterrupted(p)
  PROVE  MntInv'
<1>1. /\ pc[p] = Asleep
      /\ rpc[r[p]].asleep
      /\ pc' = [pc EXCEPT ![p] = Flush]
      /\ then' = [then EXCEPT ![p] = Gate]
      /\ faults < MaxFaults
      /\ faults' = faults + 1
  BY DEF SleepInterrupted, Interrupted, Goto
<1>2. MntType /\ CallInv /\ LocalInv /\ ReaderInv /\ (Broken => hung)
  BY DEF MntInv, PlaceInv
<1>3. /\ 0 \notin Procs /\ 0 \notin Tags
      /\ \A o \in Procs : pc[o] \notin {Idle, Over} => r[o] \in Tags
      /\ \A o \in Procs : r[o] # 0 => r[o] \in Tags /\ pc[o] \notin {Idle, Over}
      /\ \A o \in Procs : pc[o] \in {MuxDone, MuxWake, GateWk} => q[o] \in Tags
      /\ ToSet(queue) \subseteq Tags
  BY <1>2, CallFacts
<1>4. UNCHANGED <<rip, queue, flushtag, rpcfree, rpctag, r, msg,
                     q, asked, rflush, hung, lost>>
  BY DEF SleepInterrupted, Interrupted, Goto, mvars, net, loc
<1>5. /\ pc[p] = Asleep
      /\ rpc[r[p]].asleep
      /\ pc'[p] = Flush
      /\ then'[p] = Gate
      /\ faults < MaxFaults
      /\ faults' = faults + 1
      /\ \A o \in Procs \ {p} : pc'[o] = pc[o] /\ then'[o] = then[o]
  BY <1>1, <1>2 DEF MntType, StateType
<1>6. /\ \A t \in Tags : /\ rpc'[t].done = rpc[t].done /\ rpc'[t].flushed = rpc[t].flushed
                         /\ rpc'[t].flushtag = rpc[t].flushtag /\ rpc'[t].reply = rpc[t].reply
                         /\ t # r[p] => rpc'[t].asleep = rpc[t].asleep
      /\ ~rpc'[r[p]].asleep
      /\ rpc' \in [Tags -> RpcType] /\ r[p] \in Tags
  <2>1. rpc' = [rpc EXCEPT ![r[p]].asleep = FALSE]
    BY DEF SleepInterrupted, Interrupted, Goto
  <2>2. rpc \in [Tags -> RpcType] /\ r[p] \in Tags /\ flushtag \in Nat
    BY <1>1, <1>2, <1>3 DEF MntType, StateType, RpcsType
  <2> QED
    BY <2>1, <2>2 DEF RpcType
<1>7. MntType'
  <2>1. StateType'
    BY <1>1, <1>2, <1>4, MntAssumption DEF MntType, StateType
  <2>2. RpcsType'
    BY <1>2, <1>4, <1>6 DEF MntType, RpcsType
  <2>3. MsgsType'
    BY <1>2, <1>4 DEF MntType, MsgsType, MsgOK
  <2> QED
    BY <2>1, <2>2, <2>3 DEF MntType
<1>8. CallInv'
  BY <1>2, <1>4, <1>5 DEF CallInv
<1>9. LocalInv'
  BY <1>2, <1>3, <1>4, <1>5, <1>6 DEF LocalInv
<1>10. ReaderInv'
  BY <1>2, <1>4, <1>5 DEF ReaderInv, Reader
<1>11. Broken' = Broken
  BY <1>5 DEF Broken, MntType
<1>12. ASSUME ~Broken' PROVE OwnInv'
  <2>1. OwnInv
    BY <1>11, <1>12 DEF MntInv
  <2>2. FreeInv'
    BY <1>4, <2>1 DEF OwnInv, FreeInv
  <2>3. QueuedInv'
    BY <1>3, <1>4, <1>5, <1>6, <2>1 DEF OwnInv, QueuedInv, Sending
  <2>4. LeftInv'
    BY <1>3, <1>4, <1>5, <1>6, <2>1 DEF OwnInv, LeftInv
  <2>5. TakenInv'
    BY <1>3, <1>4, <1>5, <1>6, <2>1 DEF OwnInv, TakenInv, Sending
  <2> QED
    BY <2>2, <2>3, <2>4, <2>5 DEF OwnInv
<1>13. ASSUME ~hung' PROVE NetInv'
  <2>1. NetInv /\ OwnInv
    BY <1>2, <1>4, <1>13 DEF MntInv
  <2>2. AskedInv'
    BY <1>2, <1>3, <1>4, <1>5, <1>6, <2>1, TransitFacts DEF NetInv, AskedInv,
      MsgInv
  <2>3. ReadInv'
    BY <1>2, <1>3, <1>4, <1>5, <1>6, <2>1, TransitFacts DEF NetInv, ReadInv,
      MsgInv
  <2>4. FlushInv'
    BY <1>3, <1>4, <1>5, <1>6, <2>1 DEF NetInv, FlushInv
  <2>5. WaitInv'
    BY <1>3, <1>4, <1>5, <1>6, <2>1 DEF NetInv, WaitInv
  <2>6. AsleepInv'
    BY <1>4, <1>5, <1>6, <2>1 DEF NetInv, AsleepInv
  <2>7. GateInv'
    BY <1>3, <1>4, <1>5, <1>6, <2>1 DEF NetInv, GateInv, Outstanding, Relief,
      Coming
  <2>8. ReplyIsOwn'
    BY <1>3, <1>4, <1>5, <1>6, <2>1 DEF NetInv, ReplyIsOwn
  <2> QED
    BY <2>2, <2>3, <2>4, <2>5, <2>6, <2>7, <2>8 DEF NetInv
<1> QED
  BY <1>4, <1>7, <1>8, <1>9, <1>10, <1>11, <1>12, <1>13 DEF MntInv, PlaceInv

\* The reply that is read is the answer to one message; if that is a flush, the
\* request is answered no more.
LEMMA MntrpcreadStep ==
  ASSUME MntInv, NEW p \in Procs, Mntrpcread(p)
  PROVE  MntInv'
<1>1. /\ pc[p] = Read
      /\ pc' = [pc EXCEPT ![p] = Mux]
      /\ \E m \in asked : asked' = Answered(m) /\ msg' = [msg EXCEPT ![p] = m]
  BY DEF Mntrpcread, At, Goto
<1>2. MntType /\ CallInv /\ LocalInv /\ ReaderInv /\ (Broken => hung)
  BY DEF MntInv, PlaceInv
<1>4. UNCHANGED <<rip, queue, flushtag, rpcfree, rpctag, rpc, r,
                     then, q, rflush, hung, lost, faults>>
  BY DEF Mntrpcread, At, Goto, mvars, net, loc
<1>5. /\ pc[p] = Read
      /\ pc'[p] = Mux
      /\ \A o \in Procs \ {p} : pc'[o] = pc[o] /\ msg'[o] = msg[o]
  BY <1>1, <1>2 DEF MntType, StateType
<1>6. PICK m \in asked :
         /\ asked' = Answered(m) /\ asked' \subseteq asked
         /\ msg'[p] = m /\ msg' \in [Procs -> Messages \cup {NoMsg}]
         /\ m \in Messages /\ m # NoMsg /\ MsgOK(m)
  <2>1. PICK m \in asked : asked' = Answered(m) /\ msg' = [msg EXCEPT ![p] = m]
    BY <1>1
  <2>2. m \in Messages /\ MsgOK(m) /\ msg \in [Procs -> Messages \cup {NoMsg}]
    BY <1>2 DEF MntType, MsgsType
  <2>3. m # NoMsg
    BY <2>2, MessageFacts DEF NoMsg
  <2> QED
    BY <2>1, <2>2, <2>3 DEF Answered
<1>7. MntType'
  <2>1. StateType'
    BY <1>1, <1>2, <1>4 DEF MntType, StateType
  <2>2. RpcsType'
    BY <1>2, <1>4 DEF MntType, RpcsType
  <2>3. MsgsType'
    BY <1>2, <1>4, <1>5, <1>6 DEF MntType, MsgsType, MsgOK
  <2> QED
    BY <2>1, <2>2, <2>3 DEF MntType
<1>8. CallInv'
  BY <1>2, <1>4, <1>5 DEF CallInv
<1>9. LocalInv'
  BY <1>2, <1>4, <1>5, <1>6 DEF LocalInv
<1>10. ReaderInv'
  BY <1>2, <1>4, <1>5 DEF ReaderInv, Reader
<1>11. Broken' = Broken
  BY <1>5 DEF Broken, MntType
<1>12. ASSUME ~Broken' PROVE OwnInv'
  <2>1. OwnInv
    BY <1>11, <1>12 DEF MntInv
  <2>2. FreeInv'
    BY <1>4, <2>1 DEF OwnInv, FreeInv
  <2>3. QueuedInv'
    BY <1>4, <1>5, <2>1 DEF OwnInv, QueuedInv, Sending
  <2>4. LeftInv'
    BY <1>4, <1>5, <2>1 DEF OwnInv, LeftInv
  <2>5. TakenInv'
    BY <1>4, <1>5, <2>1 DEF OwnInv, TakenInv, Sending
  <2> QED
    BY <2>2, <2>3, <2>4, <2>5 DEF OwnInv
<1>13. ASSUME ~hung' PROVE NetInv'
  <2>1. NetInv /\ OwnInv
    BY <1>2, <1>4, <1>13 DEF MntInv
  <2>2. AskedInv'
    <3>1. \A n \in asked : MsgInv(n)'
      BY <1>2, <1>4, <1>5, <2>1, TransitFacts DEF NetInv, AskedInv, MsgInv
    <3> QED
      BY <1>6, <3>1 DEF AskedInv
  <2>3. ReadInv'
    <3>1. MsgInv(m)'
      BY <1>2, <1>4, <1>5, <2>1, TransitFacts DEF NetInv, AskedInv, MsgInv
    <3>2. ASSUME NEW o \in Procs, pc'[o] \in {Mux, MuxDone} PROVE o = p
      BY <1>2, <1>5, <3>2 DEF ReaderInv, Reader
    <3>3. ASSUME NEW n \in asked', n.kind = "request", n.call = m.call PROVE FALSE
      <4>1. n \in asked /\ n \in Messages /\ n # m /\ m.kind # "flush"
        BY <1>2, <1>6, <3>3 DEF Answered, MntType, MsgsType
      <4>2. m.kind = "request" /\ n.tag = m.tag
        BY <1>6, <2>1, <3>3, <4>1, MessageFacts DEF NetInv, AskedInv, MsgInv
      <4> QED
        BY <1>6, <3>3, <4>1, <4>2, SameMessage
    <3> QED
      BY <1>5, <1>6, <3>1, <3>2, <3>3 DEF ReadInv
  <2>4. FlushInv'
    BY <1>4, <1>5, <2>1 DEF NetInv, FlushInv
  <2>5. WaitInv'
    BY <1>4, <1>5, <2>1 DEF NetInv, WaitInv
  <2>6. AsleepInv'
    BY <1>4, <1>5, <2>1 DEF NetInv, AsleepInv
  <2>7. GateInv'
    BY <1>4, <1>5, <2>1 DEF NetInv, GateInv, Outstanding, Relief, Coming
  <2>8. ReplyIsOwn'
    BY <1>4, <1>5, <2>1 DEF NetInv, ReplyIsOwn
  <2> QED
    BY <2>2, <2>3, <2>4, <2>5, <2>6, <2>7, <2>8 DEF NetInv
<1> QED
  BY <1>4, <1>7, <1>8, <1>9, <1>10, <1>11, <1>12, <1>13 DEF MntInv, PlaceInv

LEMMA ReadInterruptedStep ==
  ASSUME MntInv, NEW p \in Procs, ReadInterrupted(p)
  PROVE  MntInv'
<1>1. /\ pc[p] = Read
      /\ pc' = [pc EXCEPT ![p] = Flush]
      /\ then' = [then EXCEPT ![p] = Read]
      /\ faults < MaxFaults
      /\ faults' = faults + 1
      /\ asked' \subseteq asked
      /\ lost' = lost \/ lost' \subseteq lost \cup Procs
  <2>1. /\ pc[p] = Read
        /\ pc' = [pc EXCEPT ![p] = Flush]
        /\ then' = [then EXCEPT ![p] = Read]
        /\ faults < MaxFaults
        /\ faults' = faults + 1
        /\ \/ UNCHANGED <<asked, lost>>
           \/ \E m \in asked : asked' = Answered(m) /\ Loses({m.call})
    BY DEF ReadInterrupted, Interrupted, Goto
  <2>2. asked' \subseteq asked
    BY <2>1 DEF Answered
  <2>3. lost' = lost \/ lost' \subseteq lost \cup Procs
    <3>1. ASSUME NEW m \in asked, Loses({m.call}) PROVE lost' \subseteq lost \cup Procs
      <4>1. m.call \in Procs
        BY TransitFacts DEF MntInv, PlaceInv
      <4> QED
        BY <3>1, <4>1 DEF Loses
    <3> QED
      BY <2>1, <3>1
  <2> QED
    BY <2>1, <2>2, <2>3
<1>2. MntType /\ CallInv /\ LocalInv /\ ReaderInv /\ (Broken => hung)
  BY DEF MntInv, PlaceInv
<1>4. UNCHANGED <<rip, queue, flushtag, rpcfree, rpctag, rpc,
                     r, msg, q, rflush, hung>>
  BY DEF ReadInterrupted, Interrupted, Answered, Loses, Goto, mvars, net, loc
<1>5. /\ pc[p] = Read
      /\ pc'[p] = Flush
      /\ then'[p] = Read
      /\ faults < MaxFaults
      /\ faults' = faults + 1
      /\ asked' \subseteq asked
      /\ lost' = lost \/ lost' \subseteq lost \cup Procs
      /\ \A o \in Procs \ {p} : pc'[o] = pc[o] /\ then'[o] = then[o]
  BY <1>1, <1>2 DEF MntType, StateType
<1>7. MntType'
  <2>1. StateType'
    BY <1>1, <1>2, <1>4, MntAssumption DEF MntType, StateType
  <2>2. RpcsType'
    BY <1>2, <1>4 DEF MntType, RpcsType
  <2>3. MsgsType'
    BY <1>1, <1>2, <1>4 DEF MntType, MsgsType, MsgOK
  <2> QED
    BY <2>1, <2>2, <2>3 DEF MntType
<1>8. CallInv'
  BY <1>2, <1>4, <1>5 DEF CallInv
<1>9. LocalInv'
  BY <1>2, <1>4, <1>5 DEF LocalInv
<1>10. ReaderInv'
  BY <1>2, <1>4, <1>5 DEF ReaderInv, Reader
<1>11. Broken' = Broken
  BY <1>5 DEF Broken, MntType
<1>12. ASSUME ~Broken' PROVE OwnInv'
  <2>1. OwnInv
    BY <1>11, <1>12 DEF MntInv
  <2>2. FreeInv'
    BY <1>4, <2>1 DEF OwnInv, FreeInv
  <2>3. QueuedInv'
    BY <1>4, <1>5, <2>1 DEF OwnInv, QueuedInv, Sending
  <2>4. LeftInv'
    BY <1>4, <1>5, <2>1 DEF OwnInv, LeftInv
  <2>5. TakenInv'
    BY <1>4, <1>5, <2>1 DEF OwnInv, TakenInv, Sending
  <2> QED
    BY <2>2, <2>3, <2>4, <2>5 DEF OwnInv
<1>13. ASSUME ~hung' PROVE NetInv'
  <2>1. NetInv /\ OwnInv
    BY <1>2, <1>4, <1>13 DEF MntInv
  <2>2. AskedInv'
    BY <1>2, <1>4, <1>5, <2>1, TransitFacts DEF NetInv, AskedInv, MsgInv
  <2>3. ReadInv'
    BY <1>2, <1>4, <1>5, <2>1, TransitFacts DEF NetInv, ReadInv, MsgInv
  <2>4. FlushInv'
    BY <1>4, <1>5, <2>1 DEF NetInv, FlushInv
  <2>5. WaitInv'
    BY <1>4, <1>5, <2>1 DEF NetInv, WaitInv
  <2>6. AsleepInv'
    BY <1>4, <1>5, <2>1 DEF NetInv, AsleepInv
  <2>7. GateInv'
    BY <1>4, <1>5, <2>1 DEF NetInv, GateInv, Outstanding, Relief, Coming
  <2>8. ReplyIsOwn'
    BY <1>4, <1>5, <2>1 DEF NetInv, ReplyIsOwn
  <2> QED
    BY <2>2, <2>3, <2>4, <2>5, <2>6, <2>7, <2>8 DEF NetInv
<1> QED
  BY <1>4, <1>7, <1>8, <1>9, <1>10, <1>11, <1>12, <1>13 DEF MntInv, PlaceInv

\* After this nothing is claimed of owners and messages.
LEMMA ReadHungupStep ==
  ASSUME MntInv, NEW p \in Procs, ReadHungup(p)
  PROVE  MntInv'
<1>1. /\ pc[p] = Read
      /\ pc' = [pc EXCEPT ![p] = Hungup]
      /\ hung
      /\ rpcfree' = <<r[p]>> \o rpcfree
  BY DEF ReadHungup, At, Goto
<1>2. MntType /\ CallInv /\ LocalInv /\ ReaderInv /\ (Broken => hung)
  BY DEF MntInv, PlaceInv
<1>3. /\ 0 \notin Procs /\ 0 \notin Tags
      /\ \A o \in Procs : pc[o] \notin {Idle, Over} => r[o] \in Tags
      /\ \A o \in Procs : r[o] # 0 => r[o] \in Tags /\ pc[o] \notin {Idle, Over}
      /\ \A o \in Procs : pc[o] \in {MuxDone, MuxWake, GateWk} => q[o] \in Tags
      /\ ToSet(queue) \subseteq Tags
  BY <1>2, CallFacts
<1>4. UNCHANGED <<rip, queue, flushtag, rpctag, rpc, r, then, msg,
                     q, asked, rflush, hung, lost, faults>>
  BY DEF ReadHungup, At, Goto, mvars, net, loc
<1>5. /\ pc[p] = Read
      /\ pc'[p] = Hungup
      /\ hung
      /\ rpcfree' = <<r[p]>> \o rpcfree
      /\ \A o \in Procs \ {p} : pc'[o] = pc[o]
  BY <1>1, <1>2 DEF MntType, StateType
<1>7. MntType'
  <2>1. StateType'
    <3>1. rpcfree \in Seq(Tags) /\ r[p] \in Tags
      BY <1>1, <1>2, <1>3 DEF MntType, StateType
    <3>2. <<r[p]>> \o rpcfree \in Seq(Tags)
      BY <3>1
    <3> QED
      BY <1>1, <1>2, <1>4, <3>2 DEF MntType, StateType
  <2>2. RpcsType'
    BY <1>2, <1>4 DEF MntType, RpcsType
  <2>3. MsgsType'
    BY <1>2, <1>4 DEF MntType, MsgsType, MsgOK
  <2> QED
    BY <2>1, <2>2, <2>3 DEF MntType
<1>8. CallInv'
  BY <1>2, <1>4, <1>5 DEF CallInv
<1>9. LocalInv'
  BY <1>2, <1>4, <1>5 DEF LocalInv
<1>10. ReaderInv'
  BY <1>2, <1>4, <1>5 DEF ReaderInv, Reader
<1>11. hung' /\ Broken'
  BY <1>4, <1>5 DEF Broken
<1> QED
  BY <1>7, <1>8, <1>9, <1>10, <1>11 DEF MntInv, PlaceInv

\* The one rpc on the queue that the message matches is its own call's.
LEMMA MuxFindStep ==
  ASSUME MntInv, NEW p \in Procs, MuxFind(p)
  PROVE  MntInv'
<1>1. /\ pc[p] = Mux
      /\ \/ UNCHANGED <<queue, q>> /\ pc' = [pc EXCEPT ![p] = Read]
         \/ \E t \in ToSet(queue) :
               /\ Matches(t, msg[p])
               /\ pc' = [pc EXCEPT ![p] = MuxDone] /\ q' = [q EXCEPT ![p] = t]
               /\ queue' \in Seq(Tags) /\ IsInjective(queue')
               /\ ToSet(queue') = ToSet(queue) \ {t} /\ t \in Tags
  <2> DEFINE I == {j \in 1 .. Len(queue) : Matches(queue[j], msg[p])}
             i == SelectInSeq(queue, LAMBDA t : Matches(t, msg[p]))
  <2>1. /\ pc[p] = Mux
        /\ IF i = 0 THEN Goto(p, Read) /\ UNCHANGED <<queue, q>>
           ELSE /\ Goto(p, MuxDone) /\ queue' = RemoveFirst(queue, queue[i])
                /\ q' = [q EXCEPT ![p] = queue[i]]
    BY DEF MuxFind
  <2>2. i = IF I # {} THEN Min(I) ELSE 0
    BY DEF SelectInSeq
  <2>3. I # {} => i \in I
    <3>1. I \subseteq Nat
      OBVIOUS
    <3> HIDE DEF I, i
    <3> QED
      BY <2>2, <3>1, MinFacts
  <2>4. queue \in Seq(Tags) /\ IsInjective(queue)
    BY DEF MntInv, MntType, StateType
  <2>5. CASE i = 0
    BY <2>1, <2>5 DEF Goto
  <2>6. CASE i # 0
    <3>1. i \in 1 .. Len(queue) /\ Matches(queue[i], msg[p])
      BY <2>2, <2>3, <2>6
    <3> HIDE DEF I, i
    <3>2. queue[i] \in ToSet(queue) /\ queue[i] \in Tags
      BY <2>4, <3>1 DEF ToSet
    <3>3. /\ queue' \in Seq(Tags) /\ IsInjective(queue')
          /\ ToSet(queue') = ToSet(queue) \ {queue[i]}
      BY <2>1, <2>4, <2>6, RemoveSet
    <3> QED
      BY <2>1, <2>6, <3>1, <3>2, <3>3 DEF Goto
  <2> QED
    BY <2>5, <2>6
<1>2. MntType /\ CallInv /\ LocalInv /\ ReaderInv /\ (Broken => hung)
  BY DEF MntInv, PlaceInv
<1>4. UNCHANGED <<rip, flushtag, rpcfree, rpctag, rpc, r, then,
                     msg, asked, rflush, hung, lost, faults>>
  BY DEF MuxFind, Goto, mvars, net, loc
<1>5. /\ pc[p] = Mux
      /\ \/ UNCHANGED <<queue, q>> /\ pc'[p] = Read
         \/ \E t \in ToSet(queue) :
               /\ Matches(t, msg[p])
               /\ pc'[p] = MuxDone /\ q'[p] = t
               /\ queue' \in Seq(Tags) /\ IsInjective(queue')
               /\ ToSet(queue') = ToSet(queue) \ {t} /\ t \in Tags
      /\ \A o \in Procs \ {p} : pc'[o] = pc[o] /\ q'[o] = q[o]
  BY <1>1, <1>2 DEF MntType, StateType
<1>7. MntType'
  <2>1. StateType'
    <3>1. pc' \in [Procs -> Places] /\ q' \in [Procs -> Tags \cup {0}]
      BY <1>1, <1>2 DEF MntType, StateType
    <3>2. queue' \in Seq(Tags) /\ IsInjective(queue')
      BY <1>1, <1>2 DEF MntType, StateType
    <3> QED
      BY <1>2, <1>4, <3>1, <3>2 DEF MntType, StateType
  <2>2. RpcsType'
    BY <1>2, <1>4 DEF MntType, RpcsType
  <2>3. MsgsType'
    BY <1>2, <1>4 DEF MntType, MsgsType, MsgOK
  <2> QED
    BY <2>1, <2>2, <2>3 DEF MntType
<1>8. CallInv'
  BY <1>2, <1>4, <1>5 DEF CallInv
<1>9. LocalInv'
  BY <1>2, <1>4, <1>5 DEF LocalInv
<1>10. ReaderInv'
  BY <1>2, <1>4, <1>5 DEF ReaderInv, Reader
<1>11. Broken' = Broken
  BY <1>5 DEF Broken, MntType
<1>12. ASSUME ~Broken' PROVE OwnInv'
  <2>1. OwnInv
    BY <1>11, <1>12 DEF MntInv
  <2>2. FreeInv'
    BY <1>4, <2>1 DEF OwnInv, FreeInv
  <2>3. QueuedInv'
    BY <1>4, <1>5, <2>1 DEF OwnInv, QueuedInv, Sending
  <2>4. LeftInv'
    BY <1>4, <1>5, <2>1 DEF OwnInv, LeftInv
  <2>5. TakenInv'
    BY <1>2, <1>4, <1>5, <2>1 DEF OwnInv, TakenInv, QueuedInv, ReaderInv,
                                  Reader
  <2> QED
    BY <2>2, <2>3, <2>4, <2>5 DEF OwnInv
<1>13. ASSUME ~hung' PROVE NetInv'
  <2>1. NetInv /\ OwnInv
    BY <1>2, <1>4, <1>13 DEF MntInv
  <2>2. AskedInv'
    BY <1>2, <1>4, <1>5, <2>1, TransitFacts DEF NetInv, AskedInv, MsgInv
  <2>3. ReadInv'
    <3>1. \A o \in Procs \ {p} : pc'[o] \notin {Mux, MuxDone}
      BY <1>2, <1>5 DEF ReaderInv, Reader
    <3>2. /\ MsgInv(msg[p]) /\ msg[p].call \in Procs
          /\ \A m \in asked : m.kind = "request" => m.call # msg[p].call
      BY <1>2, <1>5, <2>1, TransitFacts DEF NetInv, ReadInv
    <3>3. MsgInv(msg[p])'
      BY <1>4, <1>5, <3>2 DEF MsgInv
    <3>4. ASSUME pc'[p] = MuxDone PROVE r[msg[p].call] = q'[p]
      <4>1. PICK t \in ToSet(queue) : Matches(t, msg[p]) /\ q'[p] = t /\ t \in Tags
        BY <1>5, <3>4
      <4>2. CASE msg[p].kind = "request"
        <5>1. r[msg[p].call] = msg[p].tag /\ msg[p].tag \in Tags
          BY <1>2, <1>5, <3>2, <4>2, TransitFacts DEF MsgInv
        <5>2. rpc[t].flushed => rpc[t].flushtag # msg[p].tag
          BY <2>1, <4>1, <5>1, MntAssumption DEF NetInv, FlushInv, Tags
        <5> QED
          BY <4>1, <5>1, <5>2 DEF Matches
      <4>3. CASE msg[p].kind = "flush"
        <5>1. Tagfls <= msg[p].tag /\ msg[p].tag \in Nat
          BY <1>2, <1>5, <4>3, TransitFacts
        <5>2. t # msg[p].tag
          BY <4>1, <5>1, MntAssumption DEF Tags
        <5> QED
          BY <3>2, <4>1, <4>3, <5>2 DEF Matches, MsgInv
      <4> QED
        BY <1>2, <1>5, <4>2, <4>3, TransitFacts
    <3> QED
      BY <1>4, <3>1, <3>2, <3>3, <3>4 DEF ReadInv
  <2>4. FlushInv'
    BY <1>4, <1>5, <2>1 DEF NetInv, FlushInv
  <2>5. WaitInv'
    BY <1>4, <1>5, <2>1 DEF NetInv, WaitInv
  <2>6. AsleepInv'
    BY <1>4, <1>5, <2>1 DEF NetInv, AsleepInv
  <2>7. GateInv'
    BY <1>4, <1>5, <2>1 DEF NetInv, GateInv, Outstanding, Relief, Coming
  <2>8. ReplyIsOwn'
    BY <1>4, <1>5, <2>1 DEF NetInv, ReplyIsOwn
  <2> QED
    BY <2>2, <2>3, <2>4, <2>5, <2>6, <2>7, <2>8 DEF NetInv
<1> QED
  BY <1>4, <1>7, <1>8, <1>9, <1>10, <1>11, <1>12, <1>13 DEF MntInv, PlaceInv

LEMMA MuxCompleteStep ==
  ASSUME MntInv, NEW p \in Procs, MuxComplete(p)
  PROVE  MntInv'
<1>1. /\ pc[p] = MuxDone
      /\ \/ q[p] = r[p] /\ pc' = [pc EXCEPT ![p] = GateOut] /\ q' = [q EXCEPT ![p] = 0]
         \/ q[p] # r[p] /\ pc' = [pc EXCEPT ![p] = MuxWake] /\ q' = q
      /\ msg' = [msg EXCEPT ![p] = NoMsg]
  BY DEF MuxComplete, Goto
<1>2. MntType /\ CallInv /\ LocalInv /\ ReaderInv /\ (Broken => hung)
  BY DEF MntInv, PlaceInv
<1>3. /\ 0 \notin Procs /\ 0 \notin Tags
      /\ \A o \in Procs : pc[o] \notin {Idle, Over} => r[o] \in Tags
      /\ \A o \in Procs : r[o] # 0 => r[o] \in Tags /\ pc[o] \notin {Idle, Over}
      /\ \A o \in Procs : pc[o] \in {MuxDone, MuxWake, GateWk} => q[o] \in Tags
      /\ ToSet(queue) \subseteq Tags
  BY <1>2, CallFacts
<1>4. UNCHANGED <<rip, queue, flushtag, rpcfree, rpctag, r, then,
                     asked, rflush, hung, lost, faults>>
  BY DEF MuxComplete, Goto, mvars, net, loc
<1>5. /\ pc[p] = MuxDone
      /\ \/ q[p] = r[p] /\ pc'[p] = GateOut /\ q'[p] = 0
         \/ q[p] # r[p] /\ pc'[p] = MuxWake /\ q'[p] = q[p]
      /\ msg'[p] = NoMsg
      /\ \A o \in Procs \ {p} : pc'[o] = pc[o] /\ msg'[o] = msg[o] /\ q'[o] = q[o]
  BY <1>1, <1>2 DEF MntType, StateType, MsgsType
<1>6. /\ \A t \in Tags : /\ rpc'[t].asleep = rpc[t].asleep /\ rpc'[t].flushed = rpc[t].flushed
                         /\ rpc'[t].flushtag = rpc[t].flushtag
                         /\ t # q[p] => rpc'[t].done = rpc[t].done /\ rpc'[t].reply = rpc[t].reply
      /\ rpc'[q[p]].done /\ rpc'[q[p]].reply = msg[p].call
      /\ rpc' \in [Tags -> RpcType] /\ q[p] \in Tags
  <2>1. rpc' = [rpc EXCEPT ![q[p]].reply = msg[p].call, ![q[p]].done = TRUE]
    BY DEF MuxComplete, Goto
  <2>2. rpc \in [Tags -> RpcType] /\ q[p] \in Tags /\ flushtag \in Nat
    BY <1>1, <1>2 DEF MntType, StateType, RpcsType, LocalInv
  <2>3. msg[p].call \in Procs
    BY <1>1, <1>2, TransitFacts
  <2> QED
    BY <2>1, <2>2, <2>3 DEF RpcType
<1>7. MntType'
  <2>1. StateType'
    BY <1>1, <1>2, <1>4 DEF MntType, StateType
  <2>2. RpcsType'
    BY <1>2, <1>4, <1>6 DEF MntType, RpcsType
  <2>3. MsgsType'
    BY <1>1, <1>2, <1>4 DEF MntType, MsgsType, MsgOK
  <2> QED
    BY <2>1, <2>2, <2>3 DEF MntType
<1>8. CallInv'
  BY <1>2, <1>4, <1>5 DEF CallInv
<1>9. LocalInv'
  BY <1>2, <1>3, <1>4, <1>5, <1>6 DEF LocalInv
<1>10. ReaderInv'
  BY <1>2, <1>4, <1>5 DEF ReaderInv, Reader
<1>11. Broken' = Broken
  BY <1>5 DEF Broken, MntType
<1>12. ASSUME ~Broken' PROVE OwnInv'
  <2>1. OwnInv
    BY <1>11, <1>12 DEF MntInv
  <2>2. FreeInv'
    BY <1>4, <2>1 DEF OwnInv, FreeInv
  <2>3. QueuedInv'
    BY <1>3, <1>4, <1>5, <1>6, <2>1 DEF OwnInv, QueuedInv, TakenInv, Sending
  <2>4. LeftInv'
    BY <1>3, <1>4, <1>5, <1>6, <2>1 DEF OwnInv, FreeInv, QueuedInv, LeftInv,
      TakenInv,
       Sending
  <2>5. TakenInv'
    BY <1>2, <1>5 DEF TakenInv, ReaderInv, Reader
  <2> QED
    BY <2>2, <2>3, <2>4, <2>5 DEF OwnInv
<1>13. ASSUME ~hung' PROVE NetInv'
  <2>1. NetInv /\ OwnInv
    BY <1>2, <1>4, <1>13 DEF MntInv
  <2>2. AskedInv'
    BY <1>2, <1>3, <1>4, <1>5, <1>6, <2>1, TransitFacts DEF NetInv, OwnInv,
      AskedInv,
       MsgInv, ReadInv, FreeInv
  <2>3. ReadInv'
    BY <1>2, <1>5 DEF ReadInv, ReaderInv, Reader
  <2>4. FlushInv'
    BY <1>3, <1>4, <1>5, <1>6, <2>1 DEF NetInv, FlushInv
  <2>5. WaitInv'
    BY <1>2, <1>3, <1>4, <1>5, <1>6, <2>1, TransitFacts DEF NetInv, OwnInv,
      WaitInv,
       ReadInv, MsgInv, FreeInv, ReaderInv
  <2>6. AsleepInv'
    BY <1>4, <1>5, <1>6, <2>1 DEF NetInv, AsleepInv
  <2>7. GateInv'
    BY <1>2, <1>3, <1>4, <1>5 DEF GateInv, ReaderInv, Reader
  <2>8. ReplyIsOwn'
    BY <1>2, <1>3, <1>4, <1>5, <1>6, <2>1, TransitFacts DEF NetInv, OwnInv,
      ReplyIsOwn,
       ReadInv, FreeInv
  <2> QED
    BY <2>2, <2>3, <2>4, <2>5, <2>6, <2>7, <2>8 DEF NetInv
<1> QED
  BY <1>4, <1>7, <1>8, <1>9, <1>10, <1>11, <1>12, <1>13 DEF MntInv, PlaceInv

LEMMA MuxWakeupStep ==
  ASSUME MntInv, NEW p \in Procs, MuxWakeup(p)
  PROVE  MntInv'
<1>1. /\ pc[p] = MuxWake
      /\ pc' = [pc EXCEPT ![p] = Read]
      /\ q' = [q EXCEPT ![p] = 0]
  BY DEF MuxWakeup, At, Goto, Wakeup
<1>2. MntType /\ CallInv /\ LocalInv /\ ReaderInv /\ (Broken => hung)
  BY DEF MntInv, PlaceInv
<1>3. /\ 0 \notin Procs /\ 0 \notin Tags
      /\ \A o \in Procs : pc[o] \notin {Idle, Over} => r[o] \in Tags
      /\ \A o \in Procs : r[o] # 0 => r[o] \in Tags /\ pc[o] \notin {Idle, Over}
      /\ \A o \in Procs : pc[o] \in {MuxDone, MuxWake, GateWk} => q[o] \in Tags
      /\ ToSet(queue) \subseteq Tags
  BY <1>2, CallFacts
<1>4. UNCHANGED <<rip, queue, flushtag, rpcfree, rpctag, r, then,
                     msg, asked, rflush, hung, lost, faults>>
  BY DEF MuxWakeup, At, Goto, Wakeup, mvars, net, loc
<1>5. /\ pc[p] = MuxWake
      /\ pc'[p] = Read
      /\ q'[p] = 0
      /\ \A o \in Procs \ {p} : pc'[o] = pc[o] /\ q'[o] = q[o]
  BY <1>1, <1>2 DEF MntType, StateType
<1>6. /\ \A t \in Tags : /\ rpc'[t].done = rpc[t].done /\ rpc'[t].flushed = rpc[t].flushed
                         /\ rpc'[t].flushtag = rpc[t].flushtag /\ rpc'[t].reply = rpc[t].reply
                         /\ t # q[p] => rpc'[t].asleep = rpc[t].asleep
      /\ ~rpc'[q[p]].asleep
      /\ rpc' \in [Tags -> RpcType] /\ q[p] \in Tags
  <2>1. rpc' = [rpc EXCEPT ![q[p]].asleep = FALSE]
    BY DEF MuxWakeup, At, Goto, Wakeup
  <2>2. rpc \in [Tags -> RpcType] /\ q[p] \in Tags /\ flushtag \in Nat
    BY <1>1, <1>2 DEF MntType, StateType, RpcsType, LocalInv
  <2> QED
    BY <2>1, <2>2 DEF RpcType
<1>7. MntType'
  <2>1. StateType'
    BY <1>1, <1>2, <1>4 DEF MntType, StateType
  <2>2. RpcsType'
    BY <1>2, <1>4, <1>6 DEF MntType, RpcsType
  <2>3. MsgsType'
    BY <1>2, <1>4 DEF MntType, MsgsType, MsgOK
  <2> QED
    BY <2>1, <2>2, <2>3 DEF MntType
<1>8. CallInv'
  BY <1>2, <1>4, <1>5 DEF CallInv
<1>9. LocalInv'
  BY <1>2, <1>3, <1>4, <1>5, <1>6 DEF LocalInv
<1>10. ReaderInv'
  BY <1>2, <1>4, <1>5 DEF ReaderInv, Reader
<1>11. Broken' = Broken
  BY <1>5 DEF Broken, MntType
<1>12. ASSUME ~Broken' PROVE OwnInv'
  <2>1. OwnInv
    BY <1>11, <1>12 DEF MntInv
  <2>2. FreeInv'
    BY <1>4, <2>1 DEF OwnInv, FreeInv
  <2>3. QueuedInv'
    BY <1>3, <1>4, <1>5, <1>6, <2>1 DEF OwnInv, QueuedInv, Sending
  <2>4. LeftInv'
    BY <1>3, <1>4, <1>5, <1>6, <2>1 DEF OwnInv, LeftInv
  <2>5. TakenInv'
    BY <1>3, <1>4, <1>5, <1>6, <2>1 DEF OwnInv, TakenInv, Sending
  <2> QED
    BY <2>2, <2>3, <2>4, <2>5 DEF OwnInv
<1>13. ASSUME ~hung' PROVE NetInv'
  <2>1. NetInv /\ OwnInv
    BY <1>2, <1>4, <1>13 DEF MntInv
  <2>2. AskedInv'
    BY <1>2, <1>3, <1>4, <1>5, <1>6, <2>1, TransitFacts DEF NetInv, AskedInv,
      MsgInv
  <2>3. ReadInv'
    BY <1>2, <1>3, <1>4, <1>5, <1>6, <2>1, TransitFacts DEF NetInv, ReadInv,
      MsgInv
  <2>4. FlushInv'
    BY <1>3, <1>4, <1>5, <1>6, <2>1 DEF NetInv, FlushInv
  <2>5. WaitInv'
    BY <1>3, <1>4, <1>5, <1>6, <2>1 DEF NetInv, WaitInv
  <2>6. AsleepInv'
    BY <1>4, <1>5, <1>6, <2>1 DEF NetInv, AsleepInv
  <2>7. GateInv'
    BY <1>2, <1>3, <1>4, <1>5 DEF GateInv, ReaderInv, Reader
  <2>8. ReplyIsOwn'
    BY <1>3, <1>4, <1>5, <1>6, <2>1 DEF NetInv, ReplyIsOwn
  <2> QED
    BY <2>2, <2>3, <2>4, <2>5, <2>6, <2>7, <2>8 DEF NetInv
<1> QED
  BY <1>4, <1>7, <1>8, <1>9, <1>10, <1>11, <1>12, <1>13 DEF MntInv, PlaceInv

LEMMA GateWakeupStep ==
  ASSUME MntInv, NEW p \in Procs, GateWakeup(p)
  PROVE  MntInv'
<1>1. /\ pc[p] = GateWk
      /\ pc' = [pc EXCEPT ![p] = Return]
      /\ q' = [q EXCEPT ![p] = 0]
  BY DEF GateWakeup, At, Goto, Wakeup
<1>2. MntType /\ CallInv /\ LocalInv /\ ReaderInv /\ (Broken => hung)
  BY DEF MntInv, PlaceInv
<1>3. /\ 0 \notin Procs /\ 0 \notin Tags
      /\ \A o \in Procs : pc[o] \notin {Idle, Over} => r[o] \in Tags
      /\ \A o \in Procs : r[o] # 0 => r[o] \in Tags /\ pc[o] \notin {Idle, Over}
      /\ \A o \in Procs : pc[o] \in {MuxDone, MuxWake, GateWk} => q[o] \in Tags
      /\ ToSet(queue) \subseteq Tags
  BY <1>2, CallFacts
<1>4. UNCHANGED <<rip, queue, flushtag, rpcfree, rpctag, r, then,
                     msg, asked, rflush, hung, lost, faults>>
  BY DEF GateWakeup, At, Goto, Wakeup, mvars, net, loc
<1>5. /\ pc[p] = GateWk
      /\ pc'[p] = Return
      /\ q'[p] = 0
      /\ \A o \in Procs \ {p} : pc'[o] = pc[o] /\ q'[o] = q[o]
  BY <1>1, <1>2 DEF MntType, StateType
<1>6. /\ \A t \in Tags : /\ rpc'[t].done = rpc[t].done /\ rpc'[t].flushed = rpc[t].flushed
                         /\ rpc'[t].flushtag = rpc[t].flushtag /\ rpc'[t].reply = rpc[t].reply
                         /\ t # q[p] => rpc'[t].asleep = rpc[t].asleep
      /\ ~rpc'[q[p]].asleep
      /\ rpc' \in [Tags -> RpcType] /\ q[p] \in Tags
  <2>1. rpc' = [rpc EXCEPT ![q[p]].asleep = FALSE]
    BY DEF GateWakeup, At, Goto, Wakeup
  <2>2. rpc \in [Tags -> RpcType] /\ q[p] \in Tags /\ flushtag \in Nat
    BY <1>1, <1>2 DEF MntType, StateType, RpcsType, LocalInv
  <2> QED
    BY <2>1, <2>2 DEF RpcType
<1>7. MntType'
  <2>1. StateType'
    BY <1>1, <1>2, <1>4 DEF MntType, StateType
  <2>2. RpcsType'
    BY <1>2, <1>4, <1>6 DEF MntType, RpcsType
  <2>3. MsgsType'
    BY <1>2, <1>4 DEF MntType, MsgsType, MsgOK
  <2> QED
    BY <2>1, <2>2, <2>3 DEF MntType
<1>8. CallInv'
  BY <1>2, <1>4, <1>5 DEF CallInv
<1>9. LocalInv'
  BY <1>2, <1>3, <1>4, <1>5, <1>6 DEF LocalInv
<1>10. ReaderInv'
  BY <1>2, <1>4, <1>5 DEF ReaderInv, Reader
<1>11. Broken' = Broken
  BY <1>5 DEF Broken, MntType
<1>12. ASSUME ~Broken' PROVE OwnInv'
  <2>1. OwnInv
    BY <1>11, <1>12 DEF MntInv
  <2>2. FreeInv'
    BY <1>4, <2>1 DEF OwnInv, FreeInv
  <2>3. QueuedInv'
    BY <1>3, <1>4, <1>5, <1>6, <2>1 DEF OwnInv, QueuedInv, Sending
  <2>4. LeftInv'
    BY <1>3, <1>4, <1>5, <1>6, <2>1 DEF OwnInv, LeftInv
  <2>5. TakenInv'
    BY <1>3, <1>4, <1>5, <1>6, <2>1 DEF OwnInv, TakenInv, Sending
  <2> QED
    BY <2>2, <2>3, <2>4, <2>5 DEF OwnInv
<1>13. ASSUME ~hung' PROVE NetInv'
  <2>1. NetInv /\ OwnInv
    BY <1>2, <1>4, <1>13 DEF MntInv
  <2>2. AskedInv'
    BY <1>2, <1>3, <1>4, <1>5, <1>6, <2>1, TransitFacts DEF NetInv, AskedInv,
      MsgInv
  <2>3. ReadInv'
    BY <1>2, <1>3, <1>4, <1>5, <1>6, <2>1, TransitFacts DEF NetInv, ReadInv,
      MsgInv
  <2>4. FlushInv'
    BY <1>3, <1>4, <1>5, <1>6, <2>1 DEF NetInv, FlushInv
  <2>5. WaitInv'
    BY <1>3, <1>4, <1>5, <1>6, <2>1 DEF NetInv, WaitInv
  <2>6. AsleepInv'
    BY <1>4, <1>5, <1>6, <2>1 DEF NetInv, AsleepInv
  <2>7. GateInv'
    <3>1. \A o \in Procs : Outstanding(o)' => Outstanding(o)
      BY <1>3, <1>4, <1>5, <1>6 DEF Outstanding
    <3>2. \A o \in Procs : Coming(o) /\ ~rpc[r[o]].done => Relief(o)'
      BY <1>3, <1>4, <1>5, <1>6 DEF Relief, Coming
    <3>3. ASSUME NEW o \in Procs, pc[o] = GateWk, rpc[q[o]].asleep, ~rpc[q[o]].done
          PROVE  \E u \in Procs : Relief(u)'
      <4>1. q[o] \in Tags
        BY <1>3, <3>3
      <4>2. CASE q[o] = q[p]
        <5>1. PICK u \in Procs : r[u] = q[p] /\ pc[u] = Asleep
          BY <1>6, <2>1, <3>3, <4>2 DEF NetInv, AsleepInv
        <5>2. Relief(u)'
          BY <1>4, <1>5, <1>6, <3>3, <4>2, <5>1 DEF Relief, Coming
        <5> QED
          BY <5>2
      <4>3. CASE q[o] # q[p]
        <5>1. Relief(o)'
          BY <1>5, <1>6, <3>3, <4>1, <4>3 DEF Relief
        <5> QED
          BY <5>1
      <4> QED
        BY <4>2, <4>3
    <3> QED
      BY <1>4, <2>1, <3>1, <3>2, <3>3 DEF NetInv, GateInv, Relief
  <2>8. ReplyIsOwn'
    BY <1>3, <1>4, <1>5, <1>6, <2>1 DEF NetInv, ReplyIsOwn
  <2> QED
    BY <2>2, <2>3, <2>4, <2>5, <2>6, <2>7, <2>8 DEF NetInv
<1> QED
  BY <1>4, <1>7, <1>8, <1>9, <1>10, <1>11, <1>12, <1>13 DEF MntInv, PlaceInv

\* The first sleeper on the queue that is not done is woken; if there is none,
\* nobody sleeps with its reply outstanding.
LEMMA MntgateStep ==
  ASSUME MntInv, NEW p \in Procs, Mntgate(p)
  PROVE  MntInv'
<1>1. /\ pc[p] = GateOut
      /\ rip' = NoProc
      /\ \/ /\ q' = q /\ pc' = [pc EXCEPT ![p] = Return]
            /\ \A t \in ToSet(queue) : ~(~rpc[t].done /\ rpc[t].asleep)
         \/ \E t \in ToSet(queue) :
               /\ t \in Tags /\ ~rpc[t].done /\ rpc[t].asleep
               /\ pc' = [pc EXCEPT ![p] = GateWk] /\ q' = [q EXCEPT ![p] = t]
  <2> DEFINE I == {j \in 1 .. Len(queue) : ~rpc[queue[j]].done /\ rpc[queue[j]].asleep}
             i == SelectInSeq(queue, LAMBDA t : ~rpc[t].done /\ rpc[t].asleep)
  <2>1. /\ pc[p] = GateOut /\ rip' = NoProc
        /\ IF i = 0 THEN Goto(p, Return) /\ UNCHANGED q
           ELSE Goto(p, GateWk) /\ q' = [q EXCEPT ![p] = queue[i]]
    BY DEF Mntgate
  <2>2. i = IF I # {} THEN Min(I) ELSE 0
    BY DEF SelectInSeq
  <2>3. I # {} => i \in I
    <3>1. I \subseteq Nat
      OBVIOUS
    <3> HIDE DEF I, i
    <3> QED
      BY <2>2, <3>1, MinFacts
  <2>4. queue \in Seq(Tags)
    BY DEF MntInv, MntType, StateType
  <2>5. CASE i = 0
    <3>1. I = {}
      BY <2>2, <2>3, <2>5
    <3>2. \A t \in ToSet(queue) : ~(~rpc[t].done /\ rpc[t].asleep)
      BY <2>4, <3>1 DEF ToSet
    <3> QED
      BY <2>1, <2>5, <3>2 DEF Goto
  <2>6. CASE i # 0
    <3>1. /\ i \in 1 .. Len(queue)
          /\ ~rpc[queue[i]].done /\ rpc[queue[i]].asleep
      BY <2>2, <2>3, <2>6
    <3> HIDE DEF I, i
    <3>2. queue[i] \in ToSet(queue) /\ queue[i] \in Tags
      BY <2>4, <3>1 DEF ToSet
    <3> QED
      BY <2>1, <2>6, <3>1, <3>2 DEF Goto
  <2> QED
    BY <2>5, <2>6
<1>2. MntType /\ CallInv /\ LocalInv /\ ReaderInv /\ (Broken => hung)
  BY DEF MntInv, PlaceInv
<1>3. /\ 0 \notin Procs /\ 0 \notin Tags
      /\ \A o \in Procs : pc[o] \notin {Idle, Over} => r[o] \in Tags
      /\ \A o \in Procs : r[o] # 0 => r[o] \in Tags /\ pc[o] \notin {Idle, Over}
      /\ \A o \in Procs : pc[o] \in {MuxDone, MuxWake, GateWk} => q[o] \in Tags
      /\ ToSet(queue) \subseteq Tags
  BY <1>2, CallFacts
<1>4. UNCHANGED <<queue, flushtag, rpcfree, rpctag, rpc, r, then,
                     msg, asked, rflush, hung, lost, faults>>
  BY DEF Mntgate, Goto, mvars, net, loc
<1>5. /\ pc[p] = GateOut
      /\ rip' = NoProc
      /\ \/ /\ q'[p] = q[p] /\ pc'[p] = Return
            /\ \A t \in ToSet(queue) : ~(~rpc[t].done /\ rpc[t].asleep)
         \/ \E t \in ToSet(queue) :
               /\ t \in Tags /\ ~rpc[t].done /\ rpc[t].asleep
               /\ pc'[p] = GateWk /\ q'[p] = t
      /\ \A o \in Procs \ {p} : pc'[o] = pc[o] /\ q'[o] = q[o]
  BY <1>1, <1>2 DEF MntType, StateType
<1>7. MntType'
  <2>1. StateType'
    BY <1>1, <1>2, <1>4 DEF MntType, StateType
  <2>2. RpcsType'
    BY <1>2, <1>4 DEF MntType, RpcsType
  <2>3. MsgsType'
    BY <1>2, <1>4 DEF MntType, MsgsType, MsgOK
  <2> QED
    BY <2>1, <2>2, <2>3 DEF MntType
<1>8. CallInv'
  BY <1>2, <1>4, <1>5 DEF CallInv
<1>9. LocalInv'
  BY <1>2, <1>4, <1>5 DEF LocalInv
<1>10. ReaderInv'
  BY <1>2, <1>4, <1>5 DEF ReaderInv, Reader
<1>11. Broken' = Broken
  BY <1>5 DEF Broken, MntType
<1>12. ASSUME ~Broken' PROVE OwnInv'
  <2>1. OwnInv
    BY <1>11, <1>12 DEF MntInv
  <2>2. FreeInv'
    BY <1>4, <2>1 DEF OwnInv, FreeInv
  <2>3. QueuedInv'
    BY <1>4, <1>5, <2>1 DEF OwnInv, QueuedInv, Sending
  <2>4. LeftInv'
    BY <1>4, <1>5, <2>1 DEF OwnInv, LeftInv
  <2>5. TakenInv'
    BY <1>4, <1>5, <2>1 DEF OwnInv, TakenInv, Sending
  <2> QED
    BY <2>2, <2>3, <2>4, <2>5 DEF OwnInv
<1>13. ASSUME ~hung' PROVE NetInv'
  <2>1. NetInv /\ OwnInv
    BY <1>2, <1>4, <1>13 DEF MntInv
  <2>2. AskedInv'
    BY <1>2, <1>4, <1>5, <2>1, TransitFacts DEF NetInv, AskedInv, MsgInv
  <2>3. ReadInv'
    BY <1>2, <1>4, <1>5, <2>1, TransitFacts DEF NetInv, ReadInv, MsgInv
  <2>4. FlushInv'
    BY <1>4, <1>5, <2>1 DEF NetInv, FlushInv
  <2>5. WaitInv'
    BY <1>4, <1>5, <2>1 DEF NetInv, WaitInv
  <2>6. AsleepInv'
    BY <1>4, <1>5, <2>1 DEF NetInv, AsleepInv
  <2>7. GateInv'
    <3>1. CASE pc'[p] = Return
      <4>1. \A o \in Procs : pc[o] # MuxDone
        BY <1>2, <1>5 DEF ReaderInv, Reader
      <4>2. \A o \in Procs : ~Outstanding(o)'
        BY <1>3, <1>4, <1>5, <2>1, <3>1, <4>1 DEF NetInv, WaitInv, Outstanding
      <4> QED
        BY <4>2 DEF GateInv
    <3>2. CASE pc'[p] = GateWk
      BY <1>4, <1>5, <3>2 DEF GateInv, Relief
    <3> QED
      BY <1>5, <3>1, <3>2
  <2>8. ReplyIsOwn'
    BY <1>4, <1>5, <2>1 DEF NetInv, ReplyIsOwn
  <2> QED
    BY <2>2, <2>3, <2>4, <2>5, <2>6, <2>7, <2>8 DEF NetInv
<1> QED
  BY <1>4, <1>7, <1>8, <1>9, <1>10, <1>11, <1>12, <1>13 DEF MntInv, PlaceInv

LEMMA MntflushTagStep ==
  ASSUME MntInv, NEW p \in Procs, MntflushTag(p)
  PROVE  MntInv'
<1>1. /\ pc[p] = Flush
      /\ pc' = [pc EXCEPT ![p] = FlushWr]
      /\ flushtag' = flushtag + 1
  BY DEF MntflushTag, At, Goto
<1>2. MntType /\ CallInv /\ LocalInv /\ ReaderInv /\ (Broken => hung)
  BY DEF MntInv, PlaceInv
<1>3. /\ 0 \notin Procs /\ 0 \notin Tags
      /\ \A o \in Procs : pc[o] \notin {Idle, Over} => r[o] \in Tags
      /\ \A o \in Procs : r[o] # 0 => r[o] \in Tags /\ pc[o] \notin {Idle, Over}
      /\ \A o \in Procs : pc[o] \in {MuxDone, MuxWake, GateWk} => q[o] \in Tags
      /\ ToSet(queue) \subseteq Tags
  BY <1>2, CallFacts
<1>4. UNCHANGED <<rip, queue, rpcfree, rpctag, r, then, msg,
                     q, asked, rflush, hung, lost, faults>>
  BY DEF MntflushTag, At, Goto, mvars, net, loc
<1>5. /\ pc[p] = Flush
      /\ pc'[p] = FlushWr
      /\ flushtag' = flushtag + 1
      /\ \A o \in Procs \ {p} : pc'[o] = pc[o]
  BY <1>1, <1>2 DEF MntType, StateType
<1>6. /\ \A t \in Tags : /\ rpc'[t].done = rpc[t].done /\ rpc'[t].asleep = rpc[t].asleep
                         /\ rpc'[t].reply = rpc[t].reply
                         /\ t # r[p] => /\ rpc'[t].flushed = rpc[t].flushed
                                        /\ rpc'[t].flushtag = rpc[t].flushtag
      /\ rpc'[r[p]].flushed /\ rpc'[r[p]].flushtag = flushtag
      /\ rpc' \in [Tags -> RpcType] /\ r[p] \in Tags
  <2>1. rpc' = [rpc EXCEPT ![r[p]].flushed = TRUE, ![r[p]].flushtag = flushtag]
    BY DEF MntflushTag, At, Goto
  <2>2. rpc \in [Tags -> RpcType] /\ r[p] \in Tags /\ flushtag \in Nat
    BY <1>1, <1>2, <1>3 DEF MntType, StateType, RpcsType
  <2> QED
    BY <2>1, <2>2 DEF RpcType
<1>7. MntType'
  <2>1. StateType'
    BY <1>1, <1>2, <1>4, MntAssumption DEF MntType, StateType
  <2>2. RpcsType'
    <3>1. flushtag \in Nat /\ \A t \in Tags : rpc[t].flushtag \in Nat /\ rpc[t].flushtag < flushtag
      BY <1>2 DEF MntType, StateType, RpcsType, RpcType
    <3>2. \A t \in Tags : rpc'[t].flushtag < flushtag'
      BY <1>5, <1>6, <3>1
    <3>3. \A t \in Tags : rpc'[t].flushtag = 0 \/ Tagfls <= rpc'[t].flushtag
      BY <1>2, <1>6 DEF MntType, StateType, RpcsType
    <3> QED
      BY <1>6, <3>2, <3>3 DEF RpcsType
  <2>3. MsgsType'
    <3>1. flushtag \in Nat
      BY <1>2 DEF MntType, StateType
    <3>2. asked \subseteq Messages /\ msg \in [Procs -> Messages \cup {NoMsg}]
      BY <1>2 DEF MntType, MsgsType
    <3>3. ASSUME NEW m \in Messages, MsgOK(m) PROVE MsgOK(m)'
      BY <1>5, <3>1, <3>3, MessageFacts DEF MsgOK
    <3> QED
      BY <1>2, <1>4, <3>2, <3>3 DEF MntType, MsgsType
  <2> QED
    BY <2>1, <2>2, <2>3 DEF MntType
<1>8. CallInv'
  BY <1>2, <1>4, <1>5 DEF CallInv
<1>9. LocalInv'
  <2>1. Tagfls <= flushtag
    BY <1>2 DEF MntType, StateType
  <2> QED
    BY <1>2, <1>3, <1>4, <1>5, <1>6, <2>1 DEF LocalInv
<1>10. ReaderInv'
  BY <1>2, <1>4, <1>5 DEF ReaderInv, Reader
<1>11. Broken' = Broken
  BY <1>5 DEF Broken, MntType
<1>12. ASSUME ~Broken' PROVE OwnInv'
  <2>1. OwnInv
    BY <1>11, <1>12 DEF MntInv
  <2>2. FreeInv'
    BY <1>4, <2>1 DEF OwnInv, FreeInv
  <2>3. QueuedInv'
    BY <1>3, <1>4, <1>5, <1>6, <2>1 DEF OwnInv, QueuedInv, Sending
  <2>4. LeftInv'
    BY <1>3, <1>4, <1>5, <1>6, <2>1 DEF OwnInv, LeftInv
  <2>5. TakenInv'
    BY <1>3, <1>4, <1>5, <1>6, <2>1 DEF OwnInv, TakenInv, Sending
  <2> QED
    BY <2>2, <2>3, <2>4, <2>5 DEF OwnInv
<1>13. ASSUME ~hung' PROVE NetInv'
  <2>1. NetInv /\ OwnInv
    BY <1>2, <1>4, <1>13 DEF MntInv
  <2>2. AskedInv'
    BY <1>2, <1>3, <1>4, <1>5, <1>6, <2>1, TransitFacts DEF NetInv, AskedInv,
      MsgInv
  <2>3. ReadInv'
    BY <1>2, <1>3, <1>4, <1>5, <1>6, <2>1, TransitFacts DEF NetInv, ReadInv,
      MsgInv
  <2>4. FlushInv'
    <3>1. /\ flushtag \in Nat /\ Tagfls <= flushtag
          /\ \A t \in Tags : rpc[t].flushtag # flushtag
      BY <1>2 DEF MntType, StateType, RpcsType
    <3> QED
      BY <1>3, <1>4, <1>5, <1>6, <2>1, <3>1 DEF NetInv, FlushInv
  <2>5. WaitInv'
    BY <1>3, <1>4, <1>5, <1>6, <2>1 DEF NetInv, WaitInv
  <2>6. AsleepInv'
    BY <1>4, <1>5, <1>6, <2>1 DEF NetInv, AsleepInv
  <2>7. GateInv'
    BY <1>3, <1>4, <1>5, <1>6, <2>1 DEF NetInv, GateInv, Outstanding, Relief,
      Coming
  <2>8. ReplyIsOwn'
    BY <1>3, <1>4, <1>5, <1>6, <2>1 DEF NetInv, ReplyIsOwn
  <2> QED
    BY <2>2, <2>3, <2>4, <2>5, <2>6, <2>7, <2>8 DEF NetInv
<1> QED
  BY <1>4, <1>7, <1>8, <1>9, <1>10, <1>11, <1>12, <1>13 DEF MntInv, PlaceInv

LEMMA MntflushSendStep ==
  ASSUME MntInv, NEW p \in Procs, MntflushSend(p)
  PROVE  MntInv'
<1>1. /\ pc[p] = FlushWr
      /\ pc' = [pc EXCEPT ![p] = then[p]]
      /\ ~hung
      /\ then' = [then EXCEPT ![p] = Gate]
      /\ asked' = asked \cup Tflush(p)
  BY DEF MntflushSend, At, Goto
<1>2. MntType /\ CallInv /\ LocalInv /\ ReaderInv /\ (Broken => hung)
  BY DEF MntInv, PlaceInv
<1>3. /\ 0 \notin Procs /\ 0 \notin Tags
      /\ \A o \in Procs : pc[o] \notin {Idle, Over} => r[o] \in Tags
      /\ \A o \in Procs : r[o] # 0 => r[o] \in Tags /\ pc[o] \notin {Idle, Over}
      /\ \A o \in Procs : pc[o] \in {MuxDone, MuxWake, GateWk} => q[o] \in Tags
      /\ ToSet(queue) \subseteq Tags
  BY <1>2, CallFacts
<1>4. UNCHANGED <<rip, queue, flushtag, rpcfree, rpctag, rpc, r,
                     msg, q, rflush, hung, lost, faults>>
  BY DEF MntflushSend, At, Goto, mvars, net, loc
<1>5. /\ pc[p] = FlushWr
      /\ \/ then[p] = Gate /\ pc'[p] = Gate
         \/ then[p] = Read /\ pc'[p] = Read /\ rip = p
      /\ ~hung
      /\ then'[p] = Gate
      /\ asked' = asked \cup Tflush(p)
      /\ \A o \in Procs \ {p} : pc'[o] = pc[o] /\ then'[o] = then[o]
  BY <1>1, <1>2 DEF MntType, StateType, ReaderInv, Reader
<1>6. ASSUME NEW m, m \in Tflush(p)
      PROVE  /\ m \in Messages /\ m.kind = "flush" /\ m.call = p
             /\ m.tag = rpc[r[p]].flushtag /\ m.tag \in Nat
             /\ Tagfls <= m.tag /\ m.tag < flushtag
  <2>1. m = [kind |-> "flush", tag |-> rpc[r[p]].flushtag, call |-> p]
    BY <1>6 DEF Tflush
  <2>2. /\ r[p] \in Tags /\ rpc[r[p]].flushtag \in Nat
        /\ Tagfls <= rpc[r[p]].flushtag /\ rpc[r[p]].flushtag < flushtag
    BY <1>2, <1>3, <1>5 DEF LocalInv, MntType, RpcsType, RpcType
  <2> QED
    BY <2>1, <2>2 DEF Messages
<1>7. MntType'
  <2>1. StateType'
    BY <1>1, <1>2, <1>4 DEF MntType, StateType
  <2>2. RpcsType'
    BY <1>2, <1>4 DEF MntType, RpcsType
  <2>3. MsgsType'
    BY <1>2, <1>4, <1>5, <1>6 DEF MntType, MsgsType, MsgOK
  <2> QED
    BY <2>1, <2>2, <2>3 DEF MntType
<1>8. CallInv'
  BY <1>2, <1>4, <1>5 DEF CallInv
<1>9. LocalInv'
  BY <1>2, <1>4, <1>5 DEF LocalInv
<1>10. ReaderInv'
  BY <1>2, <1>4, <1>5 DEF ReaderInv, Reader
<1>11. Broken' = Broken
  BY <1>5 DEF Broken, MntType
<1>12. ASSUME ~Broken' PROVE OwnInv'
  <2>1. OwnInv
    BY <1>11, <1>12 DEF MntInv
  <2>2. FreeInv'
    BY <1>4, <2>1 DEF OwnInv, FreeInv
  <2>3. QueuedInv'
    BY <1>4, <1>5, <2>1 DEF OwnInv, QueuedInv
  <2>4. LeftInv'
    BY <1>4, <1>5, <2>1 DEF OwnInv, LeftInv
  <2>5. TakenInv'
    BY <1>4, <1>5, <2>1 DEF OwnInv, TakenInv
  <2> QED
    BY <2>2, <2>3, <2>4, <2>5 DEF OwnInv
<1>13. ASSUME ~hung' PROVE NetInv'
  <2>1. NetInv /\ OwnInv
    BY <1>2, <1>4, <1>13 DEF MntInv
  <2>2. AskedInv'
    <3>1. \A m \in asked : MsgInv(m)'
      BY <1>2, <1>4, <1>5, <2>1, TransitFacts DEF NetInv, AskedInv, MsgInv
    <3>2. ASSUME NEW m, m \in Tflush(p) PROVE MsgInv(m)'
      <4>1. r[p] \in Tags /\ rpc[r[p]].flushed
        BY <1>3, <1>5, <2>1 DEF NetInv, FlushInv
      <4>2. \A t \in ToSet(queue) :
              rpc[t].flushed /\ rpc[t].flushtag = m.tag => r[p] = t
        BY <1>3, <1>6, <2>1, <3>2, <4>1 DEF NetInv, FlushInv
      <4> QED
        BY <1>4, <1>5, <1>6, <3>2, <4>2 DEF MsgInv
    <3> QED
      BY <1>5, <3>1, <3>2 DEF AskedInv
  <2>3. ReadInv'
    <3>1. \A o \in Procs : pc'[o] \in {Mux, MuxDone} => o # p /\ pc[o] = pc'[o]
      BY <1>5
    <3>2. \A m \in asked' : m.kind = "request" => m \in asked
      BY <1>5, <1>6
    <3>3. ASSUME NEW o \in Procs, pc'[o] \in {Mux, MuxDone} PROVE MsgInv(msg[o])'
      BY <1>2, <1>4, <1>5, <2>1, <3>1, <3>3, TransitFacts DEF NetInv,
        ReadInv, MsgInv
    <3> QED
      BY <1>4, <2>1, <3>1, <3>2, <3>3 DEF NetInv, ReadInv
  <2>4. FlushInv'
    BY <1>4, <1>5, <2>1 DEF NetInv, FlushInv
  <2>5. WaitInv'
    BY <1>4, <1>5, <2>1 DEF NetInv, WaitInv
  <2>6. AsleepInv'
    BY <1>4, <1>5, <2>1 DEF NetInv, AsleepInv
  <2>7. GateInv'
    BY <1>4, <1>5, <2>1 DEF NetInv, GateInv, Outstanding, Relief, Coming
  <2>8. ReplyIsOwn'
    BY <1>4, <1>5, <2>1 DEF NetInv, ReplyIsOwn
  <2> QED
    BY <2>2, <2>3, <2>4, <2>5, <2>6, <2>7, <2>8 DEF NetInv
<1> QED
  BY <1>4, <1>7, <1>8, <1>9, <1>10, <1>11, <1>12, <1>13 DEF MntInv, PlaceInv

LEMMA MntflushInterruptedStep ==
  ASSUME MntInv, NEW p \in Procs, MntflushInterrupted(p)
  PROVE  MntInv'
<1>1. /\ pc[p] = FlushWr
      /\ pc' = [pc EXCEPT ![p] = then[p]]
      /\ ~hung
      /\ then' = [then EXCEPT ![p] = Gate]
      /\ faults < MaxFaults
      /\ faults' = faults + 1
      /\ asked' = asked \/ asked' = asked \cup Tflush(p)
      /\ lost' = lost \/ lost' = lost \cup {o \in {p} : pc[o] # Over}
  BY DEF MntflushInterrupted, At, Goto, Loses
<1>2. MntType /\ CallInv /\ LocalInv /\ ReaderInv /\ (Broken => hung)
  BY DEF MntInv, PlaceInv
<1>3. /\ 0 \notin Procs /\ 0 \notin Tags
      /\ \A o \in Procs : pc[o] \notin {Idle, Over} => r[o] \in Tags
      /\ \A o \in Procs : r[o] # 0 => r[o] \in Tags /\ pc[o] \notin {Idle, Over}
      /\ \A o \in Procs : pc[o] \in {MuxDone, MuxWake, GateWk} => q[o] \in Tags
      /\ ToSet(queue) \subseteq Tags
  BY <1>2, CallFacts
<1>4. UNCHANGED <<rip, queue, flushtag, rpcfree, rpctag, rpc,
                     r, msg, q, rflush, hung>>
  BY DEF MntflushInterrupted, At, Goto, Loses, mvars, net, loc
<1>5. /\ pc[p] = FlushWr
      /\ \/ then[p] = Gate /\ pc'[p] = Gate
         \/ then[p] = Read /\ pc'[p] = Read /\ rip = p
      /\ ~hung
      /\ then'[p] = Gate
      /\ faults < MaxFaults
      /\ faults' = faults + 1
      /\ asked' = asked \/ asked' = asked \cup Tflush(p)
      /\ lost' = lost \/ lost' = lost \cup {o \in {p} : pc[o] # Over}
      /\ \A o \in Procs \ {p} : pc'[o] = pc[o] /\ then'[o] = then[o]
  BY <1>1, <1>2 DEF MntType, StateType, ReaderInv, Reader
<1>6. ASSUME NEW m, m \in Tflush(p)
      PROVE  /\ m \in Messages /\ m.kind = "flush" /\ m.call = p
             /\ m.tag = rpc[r[p]].flushtag /\ m.tag \in Nat
             /\ Tagfls <= m.tag /\ m.tag < flushtag
  <2>1. m = [kind |-> "flush", tag |-> rpc[r[p]].flushtag, call |-> p]
    BY <1>6 DEF Tflush
  <2>2. /\ r[p] \in Tags /\ rpc[r[p]].flushtag \in Nat
        /\ Tagfls <= rpc[r[p]].flushtag /\ rpc[r[p]].flushtag < flushtag
    BY <1>2, <1>3, <1>5 DEF LocalInv, MntType, RpcsType, RpcType
  <2> QED
    BY <2>1, <2>2 DEF Messages
<1>7. MntType'
  <2>1. StateType'
    BY <1>1, <1>2, <1>4, MntAssumption DEF MntType, StateType
  <2>2. RpcsType'
    BY <1>2, <1>4 DEF MntType, RpcsType
  <2>3. MsgsType'
    BY <1>2, <1>4, <1>5, <1>6 DEF MntType, MsgsType, MsgOK
  <2> QED
    BY <2>1, <2>2, <2>3 DEF MntType
<1>8. CallInv'
  BY <1>2, <1>4, <1>5 DEF CallInv
<1>9. LocalInv'
  BY <1>2, <1>4, <1>5 DEF LocalInv
<1>10. ReaderInv'
  BY <1>2, <1>4, <1>5 DEF ReaderInv, Reader
<1>11. Broken' = Broken
  BY <1>5 DEF Broken, MntType
<1>12. ASSUME ~Broken' PROVE OwnInv'
  <2>1. OwnInv
    BY <1>11, <1>12 DEF MntInv
  <2>2. FreeInv'
    BY <1>4, <2>1 DEF OwnInv, FreeInv
  <2>3. QueuedInv'
    BY <1>4, <1>5, <2>1 DEF OwnInv, QueuedInv
  <2>4. LeftInv'
    BY <1>4, <1>5, <2>1 DEF OwnInv, LeftInv
  <2>5. TakenInv'
    BY <1>4, <1>5, <2>1 DEF OwnInv, TakenInv
  <2> QED
    BY <2>2, <2>3, <2>4, <2>5 DEF OwnInv
<1>13. ASSUME ~hung' PROVE NetInv'
  <2>1. NetInv /\ OwnInv
    BY <1>2, <1>4, <1>13 DEF MntInv
  <2>2. AskedInv'
    <3>1. \A m \in asked : MsgInv(m)'
      BY <1>2, <1>4, <1>5, <2>1, TransitFacts DEF NetInv, AskedInv, MsgInv
    <3>2. ASSUME NEW m, m \in Tflush(p) PROVE MsgInv(m)'
      <4>1. r[p] \in Tags /\ rpc[r[p]].flushed
        BY <1>3, <1>5, <2>1 DEF NetInv, FlushInv
      <4>2. \A t \in ToSet(queue) :
              rpc[t].flushed /\ rpc[t].flushtag = m.tag => r[p] = t
        BY <1>3, <1>6, <2>1, <3>2, <4>1 DEF NetInv, FlushInv
      <4> QED
        BY <1>4, <1>5, <1>6, <3>2, <4>2 DEF MsgInv
    <3> QED
      BY <1>5, <3>1, <3>2 DEF AskedInv
  <2>3. ReadInv'
    <3>1. \A o \in Procs : pc'[o] \in {Mux, MuxDone} => o # p /\ pc[o] = pc'[o]
      BY <1>5
    <3>2. \A m \in asked' : m.kind = "request" => m \in asked
      BY <1>5, <1>6
    <3>3. ASSUME NEW o \in Procs, pc'[o] \in {Mux, MuxDone} PROVE MsgInv(msg[o])'
      BY <1>2, <1>4, <1>5, <2>1, <3>1, <3>3, TransitFacts DEF NetInv,
        ReadInv, MsgInv
    <3> QED
      BY <1>4, <2>1, <3>1, <3>2, <3>3 DEF NetInv, ReadInv
  <2>4. FlushInv'
    BY <1>4, <1>5, <2>1 DEF NetInv, FlushInv
  <2>5. WaitInv'
    BY <1>4, <1>5, <2>1 DEF NetInv, WaitInv
  <2>6. AsleepInv'
    BY <1>4, <1>5, <2>1 DEF NetInv, AsleepInv
  <2>7. GateInv'
    BY <1>4, <1>5, <2>1 DEF NetInv, GateInv, Outstanding, Relief, Coming
  <2>8. ReplyIsOwn'
    BY <1>4, <1>5, <2>1 DEF NetInv, ReplyIsOwn
  <2> QED
    BY <2>2, <2>3, <2>4, <2>5, <2>6, <2>7, <2>8 DEF NetInv
<1> QED
  BY <1>4, <1>7, <1>8, <1>9, <1>10, <1>11, <1>12, <1>13 DEF MntInv, PlaceInv

LEMMA MntflushFailsStep ==
  ASSUME MntInv, NEW p \in Procs, MntflushFails(p)
  PROVE  MntInv'
<1>1. /\ pc[p] = FlushWr
      /\ hung
      /\ queue' = RemoveFirst(queue, r[p])
      /\ \/ then[p] = Read /\ pc' = [pc EXCEPT ![p] = GateOut]
         \/ then[p] # Read /\ pc' = [pc EXCEPT ![p] = Return]
      /\ then' = [then EXCEPT ![p] = Gate]
  BY DEF MntflushFails, Goto
<1>2. MntType /\ CallInv /\ LocalInv /\ ReaderInv /\ (Broken => hung)
  BY DEF MntInv, PlaceInv
<1>3. /\ 0 \notin Procs /\ 0 \notin Tags
      /\ \A o \in Procs : pc[o] \notin {Idle, Over} => r[o] \in Tags
      /\ \A o \in Procs : r[o] # 0 => r[o] \in Tags /\ pc[o] \notin {Idle, Over}
      /\ \A o \in Procs : pc[o] \in {MuxDone, MuxWake, GateWk} => q[o] \in Tags
      /\ ToSet(queue) \subseteq Tags
  BY <1>2, CallFacts
<1>4. UNCHANGED <<rip, flushtag, rpcfree, rpctag, r, msg, q,
                     asked, rflush, hung, lost, faults>>
  BY DEF MntflushFails, Goto, mvars, net, loc
<1>5. /\ pc[p] = FlushWr
      /\ hung
      /\ queue' \in Seq(Tags) /\ IsInjective(queue') /\ ToSet(queue') = ToSet(queue) \ {r[p]}
      /\ \/ then[p] = Read /\ pc'[p] = GateOut
         \/ then[p] # Read /\ pc'[p] = Return
      /\ then'[p] = Gate
      /\ \A o \in Procs \ {p} : pc'[o] = pc[o] /\ then'[o] = then[o]
  BY <1>1, <1>2, RemoveSet DEF MntType, StateType
<1>6. /\ \A t \in Tags : /\ rpc'[t].asleep = rpc[t].asleep /\ rpc'[t].flushtag = rpc[t].flushtag
                         /\ rpc'[t].reply = rpc[t].reply
                         /\ t # r[p] => /\ rpc'[t].done = rpc[t].done
                                        /\ rpc'[t].flushed = rpc[t].flushed
      /\ rpc'[r[p]].done /\ ~rpc'[r[p]].flushed
      /\ rpc' \in [Tags -> RpcType] /\ r[p] \in Tags
  <2>1. rpc' = [rpc EXCEPT ![r[p]].done = TRUE, ![r[p]].flushed = FALSE]
    BY DEF MntflushFails, Goto
  <2>2. rpc \in [Tags -> RpcType] /\ r[p] \in Tags /\ flushtag \in Nat
    BY <1>1, <1>2, <1>3 DEF MntType, StateType, RpcsType
  <2>3. rpc[r[p]] \in RpcType
    BY <2>2
  <2>4. /\ rpc'[r[p]] = [rpc[r[p]] EXCEPT !.done = TRUE, !.flushed = FALSE]
        /\ \A t \in Tags : t # r[p] => rpc'[t] = rpc[t]
        /\ rpc' \in [Tags -> RpcType]
    BY <2>1, <2>2 DEF RpcType
  <2>5. rpc'[r[p]].done = TRUE /\ rpc'[r[p]].flushed = FALSE
        /\ rpc'[r[p]].asleep = rpc[r[p]].asleep
        /\ rpc'[r[p]].flushtag = rpc[r[p]].flushtag
        /\ rpc'[r[p]].reply = rpc[r[p]].reply
    BY <2>3, <2>4 DEF RpcType
  <2>6. ASSUME NEW t \in Tags
        PROVE  /\ rpc'[t].asleep = rpc[t].asleep
               /\ rpc'[t].flushtag = rpc[t].flushtag
               /\ rpc'[t].reply = rpc[t].reply
               /\ t # r[p] => /\ rpc'[t].done = rpc[t].done
                              /\ rpc'[t].flushed = rpc[t].flushed
    <3>1. CASE t = r[p]
      BY <2>5, <3>1, Zenon
    <3>2. CASE t # r[p]
      BY <2>4, <3>2, Zenon
    <3> QED
      BY <3>1, <3>2
  <2>7. rpc'[r[p]].done /\ ~rpc'[r[p]].flushed
    BY <2>5
  <2>8. rpc' \in [Tags -> RpcType] /\ r[p] \in Tags
    BY <2>2, <2>4, Zenon
  <2> QED
    BY ONLY <2>6, <2>7, <2>8
<1>7. MntType'
  <2>1. StateType'
    BY <1>1, <1>2, <1>4, <1>5 DEF MntType, StateType
  <2>2. RpcsType'
    BY <1>2, <1>4, <1>6 DEF MntType, RpcsType
  <2>3. MsgsType'
    BY <1>2, <1>4 DEF MntType, MsgsType, MsgOK
  <2> QED
    BY <2>1, <2>2, <2>3 DEF MntType
<1>8. CallInv'
  BY <1>2, <1>4, <1>5 DEF CallInv
<1>9. LocalInv'
  BY <1>2, <1>3, <1>4, <1>5, <1>6 DEF LocalInv
<1>10. ReaderInv'
  BY <1>2, <1>4, <1>5 DEF ReaderInv, Reader
<1>11. Broken' = Broken
  BY <1>5 DEF Broken, MntType
<1>12. ASSUME ~Broken' PROVE OwnInv'
  <2>1. OwnInv
    BY <1>11, <1>12 DEF MntInv
  <2>2. FreeInv'
    BY <1>4, <2>1 DEF OwnInv, FreeInv
  <2>3. QueuedInv'
    BY <1>3, <1>4, <1>5, <1>6, <2>1 DEF OwnInv, QueuedInv, Sending
  <2>4. LeftInv'
    BY <1>3, <1>4, <1>5, <1>6, <2>1 DEF OwnInv, LeftInv
  <2>5. TakenInv'
    BY <1>4, <1>5, <2>1 DEF OwnInv, TakenInv, Sending
  <2> QED
    BY <2>2, <2>3, <2>4, <2>5 DEF OwnInv
<1>13. hung'
  BY <1>1, <1>4
<1> QED
  BY <1>7, <1>8, <1>9, <1>10, <1>11, <1>12, <1>13 DEF MntInv, PlaceInv

\* What is freed is done, off the queue, and not awaited by any message.
LEMMA MntfreeStep ==
  ASSUME MntInv, NEW p \in Procs, Mntfree(p)
  PROVE  MntInv'
<1>1. /\ pc[p] = Return
      /\ pc' = [pc EXCEPT ![p] = Over]
      /\ rpcfree' = <<r[p]>> \o rpcfree
      /\ r' = [r EXCEPT ![p] = 0]
      /\ lost' = lost \ {p}
  BY DEF Mntfree, At, Goto
<1>2. MntType /\ CallInv /\ LocalInv /\ ReaderInv /\ (Broken => hung)
  BY DEF MntInv, PlaceInv
<1>3. /\ 0 \notin Procs /\ 0 \notin Tags
      /\ \A o \in Procs : pc[o] \notin {Idle, Over} => r[o] \in Tags
      /\ \A o \in Procs : r[o] # 0 => r[o] \in Tags /\ pc[o] \notin {Idle, Over}
      /\ \A o \in Procs : pc[o] \in {MuxDone, MuxWake, GateWk} => q[o] \in Tags
      /\ ToSet(queue) \subseteq Tags
  BY <1>2, CallFacts
<1>4. UNCHANGED <<rip, queue, flushtag, rpctag, rpc, then, msg,
                     q, asked, rflush, hung, faults>>
  BY DEF Mntfree, At, Goto, mvars, net, loc
<1>5. /\ pc[p] = Return
      /\ pc'[p] = Over
      /\ rpcfree' = <<r[p]>> \o rpcfree
      /\ r'[p] = 0
      /\ lost' = lost \ {p}
      /\ \A o \in Procs \ {p} : pc'[o] = pc[o] /\ r'[o] = r[o]
  BY <1>1, <1>2 DEF MntType, StateType
<1>7. MntType'
  <2>1. StateType'
    BY <1>1, <1>2, <1>3, <1>4 DEF MntType, StateType
  <2>2. RpcsType'
    BY <1>2, <1>4 DEF MntType, RpcsType
  <2>3. MsgsType'
    BY <1>2, <1>4 DEF MntType, MsgsType, MsgOK
  <2> QED
    BY <2>1, <2>2, <2>3 DEF MntType
<1>8. CallInv'
  BY <1>2, <1>4, <1>5 DEF CallInv, MntType, StateType
<1>9. LocalInv'
  BY <1>2, <1>4, <1>5 DEF LocalInv
<1>10. ReaderInv'
  BY <1>2, <1>4, <1>5 DEF ReaderInv, Reader
<1>11. Broken' = Broken
  BY <1>5 DEF Broken, MntType
<1>12. ASSUME ~Broken' PROVE OwnInv'
  <2>1. OwnInv
    BY <1>11, <1>12 DEF MntInv
  <2>2. FreeInv'
    <3>1. r[p] \in Tags /\ rpcfree \in Seq(Tags) /\ r[p] < rpctag
      BY <1>2, <1>5 DEF MntType, StateType, CallInv
    <3>2. IsInjective(rpcfree) /\ r[p] \notin ToSet(rpcfree)
      BY <2>1 DEF OwnInv, FreeInv
    <3>3. IsInjective(rpcfree') /\ ToSet(rpcfree') = ToSet(rpcfree) \cup {r[p]}
      BY <1>5, <3>1, <3>2, ConsSet
    <3>4. \A o \in Procs \ {p} : r[o] # r[p]
      BY <1>3, <2>1, <3>1 DEF OwnInv, FreeInv
    <3>5. \A t \in ToSet(rpcfree') : t < rpctag' /\ \A o \in Procs : r'[o] # t
      <4>1. ToSet(rpcfree) \subseteq Tags
        BY <3>1, EmptySet
      <4>2. ASSUME NEW t \in ToSet(rpcfree') PROVE t < rpctag'
        BY <1>4, <2>1, <3>1, <3>3, <4>2 DEF OwnInv, FreeInv
      <4>3. ASSUME NEW t \in ToSet(rpcfree'), NEW o \in Procs PROVE r'[o] # t
        <5>1. CASE o = p
          BY <1>3, <1>5, <3>1, <3>3, <4>1, <5>1
        <5>2. CASE o # p
          BY <1>5, <2>1, <3>3, <3>4, <5>2 DEF OwnInv, FreeInv
        <5> QED
          BY <5>1, <5>2
      <4> QED
        BY <4>2, <4>3
    <3> QED
      BY <1>3, <1>4, <1>5, <2>1, <3>3, <3>5 DEF OwnInv, FreeInv
  <2>3. QueuedInv'
    <3>1. ASSUME NEW t \in ToSet(queue)
          PROVE  /\ \E o \in Procs : r'[o] = t
                 /\ rpc[t].done => hung /\ Sending(t)'
      <4>1. t # r[p]
        BY <1>5, <2>1 DEF OwnInv, LeftInv
      <4>2. PICK o \in Procs : r[o] = t
        BY <2>1 DEF OwnInv, QueuedInv
      <4>3. r'[o] = t
        BY <1>5, <4>1, <4>2
      <4>4. Sending(t) => Sending(t)'
        BY <1>5 DEF Sending
      <4> QED
        BY <2>1, <4>3, <4>4 DEF OwnInv, QueuedInv
    <3> QED
      BY <1>4, <3>1 DEF QueuedInv
  <2>4. LeftInv'
    BY <1>4, <1>5, <2>1 DEF OwnInv, LeftInv
  <2>5. TakenInv'
    <3>1. \A t : Sending(t) => Sending(t)'
      BY <1>5 DEF Sending
    <3>2. rpc[r[p]].done
      BY <1>5, <2>1 DEF OwnInv, LeftInv
    <3>3. \A t, o : o \in Procs /\ r[o] = t /\ ~rpc[t].done => r'[o] = t
      BY <1>5, <3>2
    <3> QED
      BY <1>4, <1>5, <2>1, <3>1, <3>3 DEF OwnInv, TakenInv
  <2> QED
    BY <2>2, <2>3, <2>4, <2>5 DEF OwnInv
<1>13. ASSUME ~hung' PROVE NetInv'
  <2>1. NetInv /\ OwnInv
    BY <1>2, <1>4, <1>13 DEF MntInv
  <2>2. AskedInv'
    <3>1. \A m \in asked : m.kind = "request" => m.call # p
      BY <1>5, <2>1 DEF NetInv, AskedInv, MsgInv, OwnInv, LeftInv
    <3>2. \A t \in ToSet(queue) : t # r[p]
      BY <1>5, <2>1 DEF OwnInv, LeftInv
    <3> QED
      BY <1>2, <1>4, <1>5, <2>1, <3>1, <3>2, TransitFacts DEF NetInv,
        AskedInv, MsgInv
  <2>3. ReadInv'
    <3>1. ASSUME NEW o \in Procs, pc[o] \in {Mux, MuxDone}
          PROVE  /\ MsgInv(msg[o])'
                 /\ pc[o] = MuxDone => r'[msg[o].call] = q[o]
      <4> DEFINE m == msg[o]
      <4>1. MsgInv(m) /\ m.call \in Procs /\ m.kind \in {"request", "flush"}
            /\ (pc[o] = MuxDone => r[m.call] = q[o] /\ ~rpc[q[o]].done)
            /\ (m.kind = "request" => m.tag \in Tags)
        BY <1>2, <1>4, <1>13, <2>1, <3>1, TransitFacts DEF NetInv, ReadInv,
          OwnInv,
           TakenInv
      <4>2. rpc[r[p]].done /\ r[p] \notin ToSet(queue)
        BY <1>5, <2>1 DEF OwnInv, LeftInv
      <4>3. m.kind = "request" => m.call # p
        BY <4>1, <4>2 DEF MsgInv
      <4> HIDE DEF m
      <4>4. MsgInv(m)'
        BY <1>4, <1>5, <4>1, <4>2, <4>3 DEF MsgInv, m
      <4> QED
        BY <1>5, <4>1, <4>2, <4>4 DEF m
    <3> QED
      BY <1>4, <1>5, <2>1, <3>1 DEF NetInv, ReadInv
  <2>4. FlushInv'
    BY <1>4, <1>5, <2>1 DEF NetInv, FlushInv
  <2>5. WaitInv'
    <3>1. ASSUME NEW o \in Procs
          PROVE  /\ pc'[o] = Write => ~rpc'[r'[o]].done
                 /\ r'[o] # 0 /\ ~rpc'[r'[o]].done =>
                       \/ r'[o] \in ToSet(queue')
                       \/ \E u \in Procs : pc'[u] = MuxDone /\ q'[u] = r'[o]
      <4>1. CASE o = p
        BY <1>5, <4>1
      <4>2. CASE o # p
        BY <1>4, <1>5, <2>1, <4>2 DEF NetInv, WaitInv
      <4> QED
        BY <4>1, <4>2
    <3> QED
      BY <3>1 DEF WaitInv
  <2>6. AsleepInv'
    <3>1. ASSUME NEW t \in Tags, rpc[t].asleep
          PROVE  \E o \in Procs : r'[o] = t /\ pc'[o] = Asleep
      <4>1. PICK o \in Procs : r[o] = t /\ pc[o] = Asleep
        BY <2>1, <3>1 DEF NetInv, AsleepInv
      <4> QED
        BY <1>5, <4>1
    <3> QED
      BY <1>4, <3>1 DEF AsleepInv
  <2>7. GateInv'
    BY <1>4, <1>5, <2>1 DEF NetInv, GateInv, Outstanding, Relief, Coming
  <2>8. ReplyIsOwn'
    BY <1>4, <1>5, <2>1 DEF NetInv, ReplyIsOwn
  <2> QED
    BY <2>2, <2>3, <2>4, <2>5, <2>6, <2>7, <2>8 DEF NetInv
<1> QED
  BY <1>4, <1>7, <1>8, <1>9, <1>10, <1>11, <1>12, <1>13 DEF MntInv, PlaceInv

\* The tag is nobody's: the first free one, or one more than all in use.
LEMMA MntrallocStep ==
  ASSUME MntInv, NEW p \in Procs, Mntralloc(p)
  PROVE  MntInv'
<1>1. /\ pc[p] = Idle
      /\ pc' = [pc EXCEPT ![p] = Write]
      /\ \A o \in 1 .. p - 1 : pc[o] # Idle
      /\ ~Broken
  BY DEF Mntralloc, At, Goto
<1>2. MntType /\ CallInv /\ LocalInv /\ ReaderInv /\ OwnInv
  BY <1>1 DEF MntInv, PlaceInv
<1>3. /\ 0 \notin Procs /\ 0 \notin Tags
      /\ \A o \in Procs : pc[o] \notin {Idle, Over} => r[o] \in Tags
      /\ \A o \in Procs : r[o] # 0 => r[o] \in Tags /\ pc[o] \notin {Idle, Over}
      /\ \A o \in Procs : pc[o] \in {MuxDone, MuxWake, GateWk} => q[o] \in Tags
      /\ ToSet(queue) \subseteq Tags
  BY <1>2, CallFacts
<1>4. UNCHANGED <<rip, flushtag, then, msg, q, asked, rflush, hung, lost, faults>>
  BY DEF Mntralloc, net
<1> DEFINE t == r'[p]
<1>5. /\ \/ rpcfree # <<>> /\ t = Head(rpcfree) /\ rpcfree' = Tail(rpcfree) /\ rpctag' = rpctag
         \/ rpcfree = <<>> /\ t = rpctag /\ rpcfree' = rpcfree /\ rpctag' = rpctag + 1
      /\ r' = [r EXCEPT ![p] = t]
      /\ rpc' = [rpc EXCEPT ![t].done = FALSE, ![t].flushed = FALSE, ![t].reply = NoProc]
      /\ queue' = <<t>> \o queue
  <2>1. r \in [Procs -> Tags \cup {0}]
    BY <1>2 DEF MntType, StateType
  <2> QED
    BY <2>1 DEF Mntralloc
<1>6. /\ t \in Tags /\ t # 0 /\ t < rpctag'
      /\ \A o \in Procs : r[o] # t
      /\ t \notin ToSet(queue)
      /\ rpcfree' \in Seq(Tags) /\ IsInjective(rpcfree')
      /\ ToSet(rpcfree') = ToSet(rpcfree) \ {t}
      /\ rpctag \in Nat \ {0} /\ rpctag <= p /\ p \in Nat /\ p <= MaxCalls
      /\ rpctag' \in {rpctag, rpctag + 1}
      /\ \A u \in Tags : u < rpctag' => u < rpctag \/ u = t
  <2>1. /\ rpctag \in Nat \ {0} /\ rpctag <= p /\ p \in 1 .. MaxCalls /\ MaxCalls \in Nat
        /\ r \in [Procs -> Tags \cup {0}]
    BY <1>1, <1>2, MntAssumption DEF Procs, CallInv, MntType, StateType
  <2>2. rpcfree \in Seq(Tags) /\ IsInjective(rpcfree)
    BY <1>2 DEF MntType, StateType, OwnInv, FreeInv
  <2>3. CASE /\ rpcfree # <<>> /\ t = Head(rpcfree)
             /\ rpcfree' = Tail(rpcfree) /\ rpctag' = rpctag
    <3>1. /\ t \in Tags /\ t \in ToSet(rpcfree)
          /\ rpcfree' \in Seq(Tags) /\ IsInjective(rpcfree')
          /\ ToSet(rpcfree') = ToSet(rpcfree) \ {t}
      BY <2>2, <2>3, TailSet
    <3>2. t < rpctag /\ \A o \in Procs : r[o] # t
      BY <1>2, <3>1 DEF OwnInv, FreeInv
    <3> QED
      BY <1>2, <2>1, <2>3, <3>1, <3>2 DEF OwnInv, QueuedInv, Tags
  <2>4. CASE /\ rpcfree = <<>> /\ t = rpctag
             /\ rpcfree' = rpcfree /\ rpctag' = rpctag + 1
    <3>1. t \in Tags /\ \A o \in Procs : r[o] # t
      BY <1>2, <2>1, <2>4 DEF Tags, CallInv
    <3>2. ToSet(rpcfree) = {}
      BY <2>4, EmptySet
    <3>3. t \notin ToSet(queue)
      BY <1>2, <3>1 DEF OwnInv, QueuedInv
    <3>4. \A u \in Tags : u < rpctag' => u < rpctag \/ u = t
      BY <2>1, <2>4 DEF Tags
    <3> QED
      BY <2>1, <2>2, <2>4, <3>1, <3>2, <3>3, <3>4
  <2> QED
    BY <1>5, <2>3, <2>4
<1>7. /\ pc'[p] = Write /\ r[p] = 0 /\ r'[p] = t
      /\ \A o \in Procs \ {p} : pc'[o] = pc[o] /\ r'[o] = r[o]
      /\ r' \in [Procs -> Tags \cup {0}] /\ pc' \in [Procs -> Places]
  BY <1>1, <1>2, <1>5, <1>6 DEF MntType, StateType, CallInv
<1> HIDE DEF t
<1>8. /\ ~rpc'[t].done /\ ~rpc'[t].flushed
      /\ \A u \in Tags : rpc'[u].flushtag = rpc[u].flushtag /\ rpc'[u].asleep = rpc[u].asleep
      /\ \A u \in Tags \ {t} : rpc'[u] = rpc[u]
      /\ rpc' \in [Tags -> RpcType]
  <2>1. rpc \in [Tags -> RpcType] /\ NoProc \in Procs \cup {NoProc}
    BY <1>2 DEF MntType, RpcsType
  <2>2. /\ rpc' = [rpc EXCEPT ![t] = [rpc[t] EXCEPT !.done = FALSE, !.flushed = FALSE,
                                                  !.reply = NoProc]]
    BY <1>5
  <2> DEFINE u == [rpc[t] EXCEPT !.done = FALSE, !.flushed = FALSE, !.reply = NoProc]
  <2>3. /\ u \in RpcType /\ ~u.done /\ ~u.flushed
        /\ u.flushtag = rpc[t].flushtag /\ u.asleep = rpc[t].asleep
    BY <1>6, <2>1 DEF RpcType
  <2> HIDE DEF u
  <2>4. rpc' = [rpc EXCEPT ![t] = u]
    BY <2>2 DEF u
  <2> QED
    BY <1>6, <2>1, <2>3, <2>4
<1>9. /\ queue' \in Seq(Tags) /\ IsInjective(queue')
      /\ ToSet(queue') = ToSet(queue) \cup {t}
  BY <1>2, <1>5, <1>6, ConsSet DEF MntType, StateType
<1>10. MntType'
  <2>1. StateType'
    BY <1>2, <1>4, <1>6, <1>7, <1>9, MntAssumption DEF MntType, StateType
  <2>2. RpcsType'
    BY <1>2, <1>4, <1>8 DEF MntType, RpcsType
  <2>3. MsgsType'
    BY <1>2, <1>4 DEF MntType, MsgsType, MsgOK
  <2> QED
    BY <2>1, <2>2, <2>3 DEF MntType
<1>11. CallInv'
  <2>1. \A o \in Procs : o \in Nat /\ (pc[o] = Idle /\ o # p => p < o)
    BY <1>1 DEF Procs
  <2>2. \A o \in Procs : r[o] \in Nat /\ r[o] < rpctag
    BY <1>2, <1>3 DEF CallInv, Tags
  <2>3. \A o \in Procs : (pc'[o] \in {Idle, Over} <=> r'[o] = 0) /\ r'[o] < rpctag'
    BY <1>2, <1>6, <1>7, <2>2 DEF CallInv, t
  <2>4. \A o \in Procs : pc'[o] = Idle => rpctag' <= o
    BY <1>6, <1>7, <2>1
  <2>5. \A u, o \in Procs : pc'[o] = Idle /\ o < u => pc'[u] = Idle
    BY <1>2, <1>7, <2>1 DEF CallInv
  <2> QED
    BY <2>3, <2>4, <2>5 DEF CallInv
<1>12. LocalInv'
  BY <1>2, <1>3, <1>4, <1>7, <1>8 DEF LocalInv
<1>13. ReaderInv'
  BY <1>2, <1>4, <1>7 DEF ReaderInv, Reader
<1>14. ~Broken'
  BY <1>1, <1>7 DEF Broken
<1>15. OwnInv'
  <2>1. FreeInv'
    <3>1. \A o, u \in Procs : r'[o] = r'[u] /\ r'[o] # 0 => o = u
      BY <1>2, <1>6, <1>7 DEF OwnInv, FreeInv
    <3>2. \A o \in Procs : r'[o] \notin ToSet(rpcfree')
      BY <1>2, <1>6, <1>7 DEF OwnInv, FreeInv
    <3>3. \A u \in ToSet(rpcfree') : u < rpctag'
      <4>1. ToSet(rpcfree') \subseteq Tags
        BY <1>6, EmptySet
      <4>2. ASSUME NEW u \in ToSet(rpcfree') PROVE u < rpctag'
        <5>1. u \in Nat /\ u < rpctag
          BY <1>2, <1>6, <4>1 DEF OwnInv, FreeInv, Tags
        <5> QED
          BY <1>6, <5>1
      <4> QED
        BY <4>2
    <3>4. ASSUME NEW u \in Tags, u < rpctag'
          PROVE  u \in ToSet(rpcfree') \/ \E o \in Procs : r'[o] = u
      <4>1. CASE u = t
        BY <1>7, <4>1
      <4>2. CASE u # t
        <5>1. u \in ToSet(rpcfree) \/ \E o \in Procs : r[o] = u
          BY <1>2, <1>6, <3>4, <4>2 DEF OwnInv, FreeInv
        <5>2. \A o \in Procs : r[o] = u => o # p
          BY <1>3, <1>7
        <5> QED
          BY <1>6, <1>7, <4>2, <5>1, <5>2
      <4> QED
        BY <4>1, <4>2
    <3> QED
      BY <1>6, <3>1, <3>2, <3>3, <3>4 DEF FreeInv
  <2>2. QueuedInv'
    <3>1. ASSUME NEW u \in ToSet(queue)
          PROVE  (\E o \in Procs : r'[o] = u) /\ (rpc'[u].done => hung' /\ Sending(u)')
      <4>1. PICK o \in Procs : r[o] = u
        BY <1>2 DEF OwnInv, QueuedInv
      <4>2. u \in Tags /\ u # t /\ o # p /\ r'[o] = u
        BY <1>3, <1>6, <1>7, <4>1
      <4>3. Sending(u) => Sending(u)'
        BY <1>3, <1>7, <4>2 DEF Sending
      <4> QED
        BY <1>2, <1>4, <1>8, <4>2, <4>3 DEF OwnInv, QueuedInv
    <3>2. r'[p] = t
      BY DEF t
    <3> QED
      BY <1>8, <1>9, <3>1, <3>2 DEF QueuedInv
  <2>3. LeftInv'
    BY <1>2, <1>3, <1>6, <1>7, <1>8, <1>9 DEF OwnInv, LeftInv
  <2>4. TakenInv'
    <3>1. ASSUME NEW o \in Procs, pc'[o] = MuxDone
          PROVE  /\ q[o] \in ToSet(queue') => hung /\ Sending(q[o])'
                 /\ hung \/ (~rpc'[q[o]].done /\ \E u \in Procs : r'[u] = q[o])
      <4>1. o # p /\ pc[o] = MuxDone /\ q[o] \in Tags
        BY <1>3, <1>7, <3>1
      <4>2. CASE q[o] = t
        <5>1. hung
          BY <1>2, <1>6, <4>1, <4>2 DEF OwnInv, TakenInv
        <5>2. Sending(q[o])'
          BY <1>4, <1>7, <4>2 DEF Sending, t
        <5> QED
          BY <5>1, <5>2
      <4>3. CASE q[o] # t
        <5>1. Sending(q[o]) => Sending(q[o])'
          BY <1>3, <1>4, <1>7, <4>1 DEF Sending
        <5>2. \A u \in Procs : r[u] = q[o] => r'[u] = q[o]
          BY <1>3, <1>7, <4>1
        <5> QED
          BY <1>2, <1>8, <1>9, <4>1, <4>3, <5>1, <5>2 DEF OwnInv, TakenInv
      <4> QED
        BY <4>2, <4>3
    <3> QED
      BY <1>4, <3>1 DEF TakenInv
  <2> QED
    BY <2>1, <2>2, <2>3, <2>4 DEF OwnInv
<1>16. ASSUME ~hung' PROVE NetInv'
  <2>1. NetInv
    BY <1>4, <1>16 DEF MntInv
  <2>2. ASSUME NEW m, MsgInv(m), m.call \in Procs, m.kind = "request" => m.tag \in Tags
        PROVE  MsgInv(m)' /\ r'[m.call] = r[m.call]
    <3>1. m.call # p
      BY <1>1, <2>2 DEF MsgInv
    <3> QED
      BY <1>3, <1>7, <1>8, <1>9, <2>2, <3>1 DEF MsgInv
  <2>3. AskedInv'
    BY <1>2, <1>4, <2>1, <2>2, TransitFacts DEF NetInv, AskedInv
  <2>4. ReadInv'
    <3>1. \A o \in Procs : pc'[o] \in {Mux, MuxDone} => pc[o] = pc'[o]
      BY <1>7
    <3> QED
      BY <1>2, <1>4, <2>1, <2>2, <3>1, TransitFacts DEF NetInv, ReadInv
  <2>5. FlushInv'
    BY <1>3, <1>6, <1>7, <1>8, <2>1 DEF NetInv, FlushInv
  <2>6. WaitInv'
    <3>1. /\ pc'[p] = Write => ~rpc'[r'[p]].done
          /\ r'[p] \in ToSet(queue')
      BY <1>7, <1>8, <1>9
    <3>2. ASSUME NEW o \in Procs \ {p}
          PROVE  /\ pc'[o] = Write => ~rpc'[r'[o]].done
                 /\ r'[o] # 0 /\ ~rpc'[r'[o]].done =>
                       \/ r'[o] \in ToSet(queue')
                       \/ \E u \in Procs : pc'[u] = MuxDone /\ q[u] = r'[o]
      <4>1. r'[o] = r[o] /\ pc'[o] = pc[o] /\ (r[o] # 0 => rpc'[r[o]] = rpc[r[o]])
        BY <1>6, <1>7, <1>8
      <4>2. pc[o] = Write => r[o] # 0
        BY <1>3
      <4>3. \A u \in Procs : pc[u] = MuxDone => pc'[u] = MuxDone
        BY <1>1, <1>7
      <4> QED
        BY <1>9, <2>1, <4>1, <4>2, <4>3 DEF NetInv, WaitInv
    <3> QED
      BY <1>4, <3>1, <3>2 DEF WaitInv
  <2>7. AsleepInv'
    BY <1>1, <1>7, <1>8, <2>1 DEF NetInv, AsleepInv
  <2>8. GateInv'
    <3>1. \A o \in Procs : Outstanding(o)' => Outstanding(o)
      BY <1>3, <1>6, <1>7, <1>8 DEF Outstanding
    <3>2. ASSUME NEW o \in Procs, Relief(o) PROVE Relief(o)'
      <4>1. CASE Coming(o) /\ ~rpc[r[o]].done
        BY <1>3, <1>4, <1>7, <1>8, <4>1 DEF Relief, Coming
      <4>2. CASE pc[o] = GateWk /\ rpc[q[o]].asleep /\ ~rpc[q[o]].done
        <5>1. q[o] \in Tags /\ q[o] # t
          BY <1>3, <1>6, <2>1, <4>2 DEF NetInv, AsleepInv
        <5> QED
          BY <1>1, <1>4, <1>7, <1>8, <4>2, <5>1 DEF Relief
      <4> QED
        BY <3>2, <4>1, <4>2 DEF Relief
    <3> QED
      BY <1>4, <2>1, <3>1, <3>2 DEF NetInv, GateInv
  <2>9. ReplyIsOwn'
    <3>1. ASSUME NEW o \in Procs \ {p}, pc'[o] \notin {Idle, Over, Hungup}
          PROVE  r'[o] = r[o] /\ rpc'[r[o]] = rpc[r[o]] /\ pc'[o] = pc[o]
      BY <1>3, <1>6, <1>7, <1>8, <3>1
    <3> QED
      BY <1>4, <1>7, <1>8, <2>1, <3>1 DEF NetInv, ReplyIsOwn
  <2> QED
    BY <2>3, <2>4, <2>5, <2>6, <2>7, <2>8, <2>9 DEF NetInv
<1> QED
  BY <1>10, <1>11, <1>12, <1>13, <1>14, <1>15, <1>16 DEF MntInv, PlaceInv

\* From here on nothing is claimed of messages.
LEMMA HangUpStep ==
  ASSUME MntInv, HangUp
  PROVE  MntInv'
<1>1. /\ ~hung /\ hung' = TRUE /\ lost' = {}
      /\ faults < MaxFaults /\ faults' = faults + 1
      /\ UNCHANGED <<rip, queue, flushtag, rpcfree, rpctag, rpc, pc, r, then, msg, q,
                     asked, rflush>>
  BY DEF HangUp, mvars, loc
<1>2. MntType /\ PlaceInv /\ ~Broken
  BY <1>1 DEF MntInv, PlaceInv
<1>3. MntType'
  <2>1. StateType'
    BY <1>1, <1>2, MntAssumption DEF MntType, StateType
  <2>2. RpcsType' /\ MsgsType'
    BY <1>1, <1>2 DEF MntType, RpcsType, MsgsType, MsgOK
  <2> QED
    BY <2>1, <2>2 DEF MntType
<1>4. PlaceInv'
  BY <1>1, <1>2 DEF PlaceInv, CallInv, LocalInv, ReaderInv, Reader
<1>5. OwnInv'
  <2>1. OwnInv
    BY <1>2 DEF MntInv
  <2>2. FreeInv'
    BY <1>1, <2>1 DEF OwnInv, FreeInv
  <2>3. QueuedInv'
    BY <1>1, <2>1 DEF OwnInv, QueuedInv
  <2>4. LeftInv'
    BY <1>1, <2>1 DEF OwnInv, LeftInv
  <2>5. TakenInv'
    BY <1>1, <2>1 DEF OwnInv, TakenInv
  <2> QED
    BY <2>2, <2>3, <2>4, <2>5 DEF OwnInv
<1> QED
  BY <1>1, <1>3, <1>4, <1>5 DEF MntInv

----------------------------------------------------------------------------
LEMMA InitMntInv ==
  ASSUME Init
  PROVE  MntInv
<1>1. 0 \notin Procs /\ 0 \notin Tags /\ \A p \in Procs : p \in Nat /\ 1 <= p
  BY MntAssumption DEF Procs, Tags
<1>2. queue = <<>> /\ rpcfree = <<>> /\ ToSet(<<>>) = {} /\ IsInjective(<<>>)
      /\ <<>> \in Seq(Tags)
  BY EmptySet DEF Init
<1>3. /\ rip = NoProc /\ flushtag = Tagfls /\ rpctag = 1
      /\ rpc = [t \in Tags |-> NewRpc]
      /\ pc = [p \in Procs |-> Idle] /\ r = [p \in Procs |-> 0]
      /\ then = [p \in Procs |-> Gate] /\ msg = [p \in Procs |-> NoMsg]
      /\ q = [p \in Procs |-> 0]
      /\ asked = {} /\ rflush \in BOOLEAN
      /\ hung = FALSE /\ lost = {} /\ faults = 0
  BY DEF Init
<1>4. StateType
  <2>1. queue \in Seq(Tags) /\ IsInjective(queue) /\ rpcfree \in Seq(Tags)
    BY <1>2
  <2>2. /\ flushtag \in Nat /\ Tagfls <= flushtag
        /\ rpctag \in Nat \ {0} /\ rpctag <= MaxCalls + 1
        /\ faults \in Nat /\ faults <= MaxFaults
    BY <1>3, MntAssumption
  <2>3. /\ pc \in [Procs -> Places] /\ then \in [Procs -> {Gate, Read}]
        /\ r \in [Procs -> Tags \cup {0}] /\ q \in [Procs -> Tags \cup {0}]
    BY <1>3
  <2> QED
    BY <1>3, <2>1, <2>2, <2>3 DEF StateType
<1>5. RpcsType
  BY <1>3, MntAssumption DEF RpcsType, RpcType, NewRpc
<1>6. MsgsType
  BY <1>3 DEF MsgsType
<1>7. PlaceInv
  BY <1>1, <1>3 DEF PlaceInv, CallInv, LocalInv, ReaderInv, Reader, Broken
<1>8. OwnInv
  BY <1>2, <1>3 DEF OwnInv, FreeInv, QueuedInv, LeftInv, TakenInv, Tags
<1>9. NetInv
  <2>1. AskedInv /\ ReadInv
    BY <1>3 DEF AskedInv, ReadInv
  <2>2. FlushInv /\ AsleepInv
    BY <1>3 DEF FlushInv, AsleepInv, NewRpc
  <2>3. WaitInv /\ GateInv /\ ReplyIsOwn
    BY <1>3 DEF WaitInv, GateInv, Outstanding, ReplyIsOwn
  <2> QED
    BY <2>1, <2>2, <2>3 DEF NetInv
<1> QED
  BY <1>4, <1>5, <1>6, <1>7, <1>8, <1>9 DEF MntInv, MntType

LEMMA ProceedStep ==
  ASSUME MntInv, NEW p \in Procs, Proceed(p)
  PROVE  MntInv'
BY SendStep, SendFailsStep, EnterGateStep, SleepStep, SleepReturnStep, MntrpcreadStep,
   ReadHungupStep, MuxFindStep, MuxCompleteStep, MuxWakeupStep, MntgateStep,
   GateWakeupStep, MntflushTagStep, MntflushSendStep, MntflushFailsStep, MntfreeStep
   DEF Proceed

LEMMA NextMntInv ==
  ASSUME MntInv, [Next]_vars
  PROVE  MntInv'
<1>1. CASE Next
  <2>1. ASSUME NEW p \in Procs, Mntralloc(p) PROVE MntInv'
    BY <2>1, MntrallocStep
  <2>2. ASSUME NEW p \in Procs, Proceed(p) PROVE MntInv'
    BY <2>2, ProceedStep
  <2>3. ASSUME NEW p \in Procs, Kill(p) PROVE MntInv'
    BY <2>3, SendInterruptedStep, SleepInterruptedStep, ReadInterruptedStep,
       MntflushInterruptedStep DEF Kill
  <2>4. CASE HangUp
    BY <2>4, HangUpStep
  <2> QED
    BY <1>1, <2>1, <2>2, <2>3, <2>4 DEF Next
<1>2. CASE UNCHANGED vars
  <2>1. UNCHANGED <<rip, queue, flushtag, rpcfree, rpctag, rpc, pc, r, then, msg, q,
                    asked, rflush, hung, lost, faults>>
    BY <1>2 DEF vars, mvars, net, loc
  <2>2. MntType' /\ PlaceInv' /\ Broken' = Broken
    BY <2>1 DEF MntInv, MntType, StateType, RpcsType, MsgsType, MsgOK,
                PlaceInv,
       CallInv, LocalInv, ReaderInv, Reader, Broken
  <2>3. OwnInv' = OwnInv
    BY <2>1 DEF OwnInv, FreeInv, QueuedInv, LeftInv, TakenInv, Sending
  <2>4. NetInv' = NetInv
    BY <2>1 DEF NetInv, AskedInv, ReadInv, MsgInv, FlushInv, WaitInv,
                AsleepInv,
       GateInv, Outstanding, Relief, Coming, ReplyIsOwn
  <2> QED
    BY <2>1, <2>2, <2>3, <2>4 DEF MntInv
<1> QED
  BY <1>1, <1>2

LEMMA MntInvariant == Spec => []MntInv
<1>1. Init => MntInv
  BY InitMntInv
<1>2. MntInv /\ [Next]_vars => MntInv'
  BY NextMntInv
<1> QED
  BY <1>1, <1>2, PTL DEF Spec

----------------------------------------------------------------------------
\* The variables have their types, whatever the calls, interrupts and hang-ups:
\* mntralloc hands out no more tags than there are calls, and mountio and mntflush
\* leave no request and no flush without a tag of its kind.
THEOREM TypeCorrect == Spec => []TypeOK
<1>1. ASSUME MntInv PROVE TypeOK
  <2>1. StateType /\ RpcsType /\ MsgsType
    BY <1>1 DEF MntInv, MntType
  <2>2. /\ flushtag \in Nat /\ Tagfls <= flushtag /\ Tagfls \in Nat /\ MaxFaults \in Nat
        /\ rpctag \in Nat \ {0} /\ rpctag <= MaxCalls + 1 /\ MaxCalls \in Nat
        /\ faults \in Nat /\ faults <= MaxFaults
    BY <2>1, MntAssumption DEF StateType
  <2>3. rpctag \in 1 .. MaxCalls + 1 /\ faults \in 0 .. MaxFaults /\ flushtag >= Tagfls
    BY <2>2
  <2>4. rpc \in [Tags -> [done : BOOLEAN, flushed : BOOLEAN,
                          flushtag : {0} \cup (Tagfls .. flushtag),
                          reply : Procs \cup {NoProc}, asleep : BOOLEAN]]
    <3>1. rpc \in [Tags -> RpcType]
      BY <2>1 DEF RpcsType
    <3>2. \A t \in Tags : rpc[t].flushtag \in {0} \cup (Tagfls .. flushtag)
      BY <2>1, <2>2, <3>1 DEF RpcsType, RpcType
    <3> QED
      BY <3>1, <3>2 DEF RpcType
  <2>5. ASSUME NEW m \in Messages, MsgOK(m)
        PROVE  /\ m.kind \in {"request", "flush"} /\ m.call \in Procs
               /\ m.tag \in Tags \cup (Tagfls .. flushtag)
    BY <2>2, <2>5, MessageFacts DEF MsgOK
  <2>6. \A m \in asked : m \in Messages /\ MsgOK(m)
    BY <2>1 DEF MsgsType
  <2>7. \A m \in Range(msg) \ {NoMsg} : m \in Messages /\ MsgOK(m)
    BY <2>1 DEF MsgsType, Range
  <2>8. {rflush, hung} \subseteq BOOLEAN
    BY <2>1 DEF StateType
  <2> QED
    BY <2>1, <2>3, <2>4, <2>5, <2>6, <2>7, <2>8 DEF StateType, TypeOK
<1> QED
  BY <1>1, MntInvariant, PTL

\* A call is completed with the reply to its own request, though rpc structures and
\* their tags are used again, flush tags too are matched by mountmux, and replies and
\* Rflushes may be read long after the call that sent for them has returned.
THEOREM RepliesOwn == Spec => []ReplyIsOwn
<1>1. ASSUME MntInv PROVE ReplyIsOwn
  <2>1. CASE hung
    BY <2>1 DEF ReplyIsOwn
  <2>2. CASE ~hung
    BY <1>1, <2>2 DEF MntInv, NetInv
  <2> QED
    BY <2>1, <2>2
<1> QED
  BY <1>1, MntInvariant, PTL

\* Until a reader's error(Ehungup) an rpc is on mntalloc's free list once or belongs to
\* one call, what is on m->queue belongs to one and is not done, and what mountmux has
\* taken off it has not been freed when mountmux completes it.
THEOREM RpcsOwned == Spec => []FreeOrPending
<1>1. ASSUME MntInv, ~Broken
      PROVE  /\ IsInjective(rpcfree) /\ IsInjective(queue)
             /\ \A t \in 1 .. rpctag - 1 : Owned(t) # (t \in Range(rpcfree))
             /\ \A p, o \in Procs : r[p] = r[o] /\ r[p] # 0 => p = o
             /\ \A t \in Range(queue) : Owned(t) /\ (rpc[t].done => hung)
             /\ \A p \in Procs : pc[p] = MuxDone => hung \/ Owned(q[p])
  <2>1. OwnInv /\ StateType
    BY <1>1 DEF MntInv, MntType
  <2>2. \A t : Owned(t) <=> \E p \in Procs : r[p] = t
    BY <1>1 DEF Owned, Broken
  <2>3. Range(rpcfree) = ToSet(rpcfree) /\ Range(queue) = ToSet(queue)
    BY DEF Range, ToSet
  <2>4. \A t \in 1 .. rpctag - 1 : t \in Tags /\ t < rpctag
    BY <2>1, MntAssumption DEF StateType, Tags
  <2>5. \A t \in 1 .. rpctag - 1 : Owned(t) # (t \in Range(rpcfree))
    BY <2>1, <2>2, <2>3, <2>4 DEF OwnInv, FreeInv
  <2>6. \A t \in Range(queue) : Owned(t) /\ (rpc[t].done => hung)
    BY <2>1, <2>2, <2>3 DEF OwnInv, QueuedInv
  <2>7. \A p \in Procs : pc[p] = MuxDone => hung \/ Owned(q[p])
    BY <2>1, <2>2 DEF OwnInv, TakenInv
  <2> QED
    BY <2>1, <2>5, <2>6, <2>7 DEF OwnInv, FreeInv, StateType
<1>2. MntInv => FreeOrPending
  BY <1>1 DEF FreeOrPending
<1> QED
  BY <1>2, MntInvariant, PTL

\* While a caller sleeps in mountio with its reply outstanding, somebody reads the
\* connection, or a caller comes to the gate, or mntgate is about to wake a sleeper:
\* no interrupt and no reply taken at the wrong moment leaves the connection unread.
THEOREM GateKept == Spec => []SomebodyReads
<1>1. ASSUME MntInv, ~hung, rip = NoProc,
             \E p \in Procs : pc[p] = Asleep /\ rpc[r[p]].asleep /\ ~rpc[r[p]].done
      PROVE  \E o \in Procs : Coming(o) \/ (pc[o] = GateWk /\ rpc[q[o]].asleep)
  <2>1. GateInv
    BY <1>1 DEF MntInv, NetInv
  <2>2. PICK o \in Procs : Relief(o)
    BY <1>1, <2>1 DEF GateInv, Outstanding
  <2> QED
    BY <2>2 DEF Relief
<1>2. MntInv => SomebodyReads
  BY <1>1 DEF SomebodyReads
<1> QED
  BY <1>2, MntInvariant, PTL

=============================================================================
