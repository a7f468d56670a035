-------------------------------- MODULE Qio --------------------------------
(***************************************************************************)
(* The stream queues of emu/qio.c, between processes and devices.  Three   *)
(* uses are modelled: "input", a device fills the queue and processes read *)
(* it; "pipe", processes write and read; "output", processes write and a   *)
(* device empties it.  A further party closes, hangs up, flushes, reopens  *)
(* and sets the queue nonblocking.                                         *)
(*                                                                         *)
(* Each section under q->l is two steps: lock(&q->l), and the rest with    *)
(* the unlock.  What touches the queue without q->l comes between: the     *)
(* tests of Sleep, and qbwrite's q->state |= Qflow, which reads the word   *)
(* in one step and stores it in another.                                   *)
(*                                                                         *)
(* Sleep and Wakeup are atomic here, as Rendez has them step by step, and  *)
(* rlock and wlock are mutexes, as QLock shows.  A byte is a number, which *)
(* counts on in a circle from the last byte in flight, so that no two      *)
(* bytes in flight are alike.  The kick routine and q->eof are left out.   *)
(***************************************************************************)
EXTENDS Naturals, Sequences, FiniteSets, SequencesExt

CONSTANTS Readers, Writers,  \* processes
          Device, Control,   \* the device's side, and who closes the queue
          Nobody,
          Limit,             \* q->limit
          MaxBlock,          \* bound: bytes of one write, and of one read
          MaxLen,            \* bound: q->len at which qiwrite, qpass stop
          FlushRead          \* a queue that processes read is flushed too

Procs == Readers \cup Writers \cup {Device, Control}
Uses  == {"input", "pipe", "output"}

ASSUME QioAssumption ==
    /\ Readers \cap Writers = {} /\ Device # Control
    /\ {Device, Control} \cap (Readers \cup Writers) = {}
    /\ Nobody \notin Procs
    /\ Limit \in Nat \ {0} /\ MaxBlock \in Nat \ {0} /\ MaxLen \in Nat
    /\ FlushRead \in BOOLEAN

VARIABLES use,      \* which of the three uses this queue is put to
          msg,      \* Qmsg in q->state: fixed by qopen
          interlocked, \* the host loses no update of q->state to another
          blocks,   \* q->bfirst .. blast
          len,      \* q->len
          state,    \* the other flags of q->state
          noblock,  \* q->noblock
          l,        \* q->l: the process inside, or Nobody
          seen,     \* q->state as a process in an update has read it
          rlock, wlock,
          rr, wr,   \* q->rr.p, q->wr.p
          split,    \* the bytes of a block that qbread has still to put back
          dowakeup, \* qbread's local, for the time of a split
          got,      \* what the qbread under way has for its caller; what the
                    \* last qget or qconsume returned
          pc

fixed == <<use, msg, interlocked>>
buffer == <<blocks, len>>
locks == <<rlock, wlock>>
sleepers == <<rr, wr>>
reading == <<split, dowakeup, got>>
vars == <<fixed, buffer, state, noblock, l, seen, locks, sleepers, reading, pc>>

Flags == {"starve", "closed", "flow"}

\* Any process.
Idle   == "idle"
\* qbread.
RLock  == "qbread"       \* has rlock, at lock(&q->l)
RIn    == "qbreadin"
RSleep == "qbreadsleep" \* at Sleep(&q->rr)
RWait  == "qbreadasleep"
RPut   == "qbreadput"   \* has split a block, at the second lock(&q->l)
RPutIn == "qbreadputin"
RWake  == "qbreadwake"  \* at Wakeup(&q->wr)
RDone  == "qbreaddone"  \* at qunlock(&q->rlock)
\* qbwrite.
WTest  == "qbwrite"      \* has wlock, at the test of qnotfull
WFlow  == "qbwriteflow" \* has read q->state, to store it with Qflow
WSleep == "qbwritesleep"
WWait  == "qbwriteasleep"
WLock  == "qbwritelock"
WIn    == "qbwritein"
WWake  == "qbwritewake" \* at Wakeup(&q->rr)
WDone  == "qbwritedone" \* at qunlock(&q->wlock)
\* The device and the control.
In     == "in"
WakeR  == "wakeuprr"    \* at Wakeup(&q->rr), nothing after it
WakeW  == "wakeupwr"
WakeRW == "wakeuprrwr"

ReaderPCs == {Idle, RLock, RIn, RSleep, RWait, RPut, RPutIn, RWake, RDone}
WriterPCs == {Idle, WTest, WFlow, WSleep, WWait, WLock, WIn, WWake, WDone}
OtherPCs  == {Idle, In, WakeR, WakeW, WakeRW}

Goto(p, to) == pc' = [pc EXCEPT ![p] = to]
At(p, from, to) == pc[p] = from /\ Goto(p, to)

\* The next n bytes: they go on from the last that is in flight.
Ring == MaxLen + 2 * MaxBlock
Fresh(n) ==
    LET flight == FlattenSeq(<<split>> \o blocks)
        first == IF flight = <<>> THEN 0 ELSE Last(flight) + 1
    IN  [i \in 1 .. n |-> (first + i - 1) % Ring]

\* qopen
Init ==
    /\ use \in Uses /\ msg \in (IF use = "output" THEN {FALSE} ELSE BOOLEAN)
    /\ interlocked \in BOOLEAN
    /\ blocks = <<>> /\ len = 0 /\ split = <<>> /\ got = <<>>
    /\ state = {"starve"} /\ noblock = FALSE /\ dowakeup = FALSE
    /\ l = Nobody /\ rlock = Nobody /\ wlock = Nobody
    /\ rr = Nobody /\ wr = Nobody
    /\ seen = [p \in Procs |-> {}]
    /\ pc = [p \in Procs |-> Idle]

----------------------------------------------------------------------------
(* The pieces of the sections under q->l *)

\* The first half of an update of q->state by p; the value it then updates.
Load(p) == seen' = [seen EXCEPT ![p] = IF interlocked THEN {} ELSE state]
Base(p) == IF interlocked THEN state ELSE seen[p]
Forget(p) == seen' = [seen EXCEPT ![p] = {}]

\* lock(&q->l)
Lock(p, from, to) ==
    /\ At(p, from, to)
    /\ l = Nobody
    /\ l' = p
    /\ Load(p)
    /\ UNCHANGED <<fixed, buffer, state, noblock, locks, sleepers, reading>>

\* unlock(&q->l)
Unlock(p, to) ==
    /\ l = p
    /\ l' = Nobody
    /\ Forget(p)
    /\ Goto(p, to)

(* Faulty variants of these and of the actions, used by no specification   *)
(* of this module.                                                         *)

\* The queue counts as full only when it is over the limit.
qnotfullLate == len <= Limit \/ "closed" \in state

\* Writers are restarted at a quarter of the limit.
RestartQuarter(p, n) == "flow" \in Base(p) /\ n < Limit \div 4

\* qbread goes to sleep without saying that it is starved.
QbreadEmptySilent(r) ==
    /\ pc[r] = RIn
    /\ blocks = <<>>
    /\ Unlock(r, IF "closed" \in state THEN RDone ELSE RSleep)
    /\ UNCHANGED <<fixed, buffer, state, noblock, locks, sleepers, reading>>

\* Sleep does not test the condition again.
QbreadSleepUntested(r) ==
    /\ At(r, RSleep, RWait)
    /\ rr' = r
    /\ UNCHANGED <<fixed, buffer, state, noblock, l, seen, locks, wr, reading>>

\* What is left of a block is not put back.
PartedNever(b, n) == FALSE

\* qhangup wakes only a reader.
QhangupReader ==
    /\ pc[Control] = In
    /\ state' = Base(Control) \cup {"closed"}
    /\ Unlock(Control, WakeR)
    /\ UNCHANGED <<fixed, buffer, noblock, locks, sleepers, reading>>

----------------------------------------------------------------------------
notempty == "closed" \in state \/ blocks # <<>>
qnotfull == len < Limit \/ "closed" \in state

\* "if writer flow controlled, restart", when n bytes are left
Restart(p, n) == "flow" \in Base(p) /\ n < Limit \div 2
Parted(b, n) == Len(b) > n /\ ~msg

\* The first n bytes of a block, which are passed to the caller.
Passed(b, n) == SubSeq(b, 1, IF n < Len(b) THEN n ELSE Len(b))
Unflow(p, n) ==
    state' = IF Restart(p, n) THEN Base(p) \ {"flow"} ELSE state

\* Append n new bytes, and call a starved reader.
Starved(p) == "starve" \in Base(p)
Append1(n) ==
    /\ blocks' = Append(blocks, Fresh(n))
    /\ len' = len + n
Produce(p, n, wake, done) ==
    /\ Append1(n)
    /\ state' = IF Starved(p) THEN Base(p) \ {"starve"} ELSE state
    /\ Unlock(p, IF Starved(p) THEN wake ELSE done)
    /\ UNCHANGED <<fixed, noblock, locks, sleepers, reading>>

\* Wakeup(&q->rr), Wakeup(&q->wr): the sleeper goes round its loop again.
Wakeup(p, to, s, back) ==
    pc' = [q \in Procs |-> IF q = p THEN to ELSE IF q = s THEN back ELSE pc[q]]

WakeupR(p, from, to) ==
    /\ pc[p] = from
    /\ Wakeup(p, to, rr, RLock)
    /\ rr' = Nobody
    /\ UNCHANGED <<fixed, buffer, state, noblock, l, seen, locks, wr, reading>>

WakeupW(p, from, to) ==
    /\ pc[p] = from
    /\ Wakeup(p, to, wr, WTest)
    /\ wr' = Nobody
    /\ UNCHANGED <<fixed, buffer, state, noblock, l, seen, locks, rr, reading>>

----------------------------------------------------------------------------
(* qread: qbread *)

QbreadStart(r) ==
    /\ use # "output"
    /\ At(r, Idle, RLock)
    /\ rlock = Nobody
    /\ rlock' = r
    /\ UNCHANGED <<fixed, buffer, state, noblock, l, seen, wlock, sleepers,
                   reading>>

QbreadLock(r) == Lock(r, RLock, RIn)

\* Nothing to read: end of file if the queue is closed, or else wait.
QbreadEmpty(r) ==
    /\ pc[r] = RIn
    /\ blocks = <<>>
    /\ IF "closed" \in state
         THEN Unlock(r, RDone) /\ UNCHANGED state
         ELSE Unlock(r, RSleep) /\ state' = Base(r) \cup {"starve"}
    /\ UNCHANGED <<fixed, buffer, noblock, locks, sleepers, reading>>

QbreadSleep(r) ==
    /\ At(r, RSleep, IF notempty THEN RLock ELSE RWait)
    /\ rr' = IF notempty THEN rr ELSE r
    /\ UNCHANGED <<fixed, buffer, state, noblock, l, seen, locks, wr, reading>>

\* Take the first block; if it is longer than the n bytes asked for, a stream
\* gets the rest back, a message loses it.
QbreadTake(r, n) ==
    /\ pc[r] = RIn
    /\ blocks # <<>>
    /\ LET b == Head(blocks)
           left == len - Len(b)
       IN  /\ blocks' = Tail(blocks)
           /\ len' = left
           /\ Unflow(r, left)
           /\ got' = Passed(b, n)
           /\ split' = IF Parted(b, n) THEN SubSeq(b, n + 1, Len(b)) ELSE <<>>
           /\ dowakeup' = (Parted(b, n) /\ Restart(r, left))
           /\ Unlock(r, IF Parted(b, n) THEN RPut
                        ELSE IF Restart(r, left) THEN RWake ELSE RDone)
    /\ UNCHANGED <<fixed, noblock, locks, sleepers>>

QbreadRelock(r) == Lock(r, RPut, RPutIn)

QbreadPut(r) ==
    /\ pc[r] = RPutIn
    /\ blocks' = <<split>> \o blocks
    /\ len' = len + Len(split)
    /\ split' = <<>>
    /\ dowakeup' = FALSE
    /\ Unlock(r, IF dowakeup THEN RWake ELSE RDone)
    /\ UNCHANGED <<fixed, state, noblock, locks, sleepers, got>>

QbreadWakeup(r) == WakeupW(r, RWake, RDone)

QbreadReturn(r) ==
    /\ At(r, RDone, Idle)
    /\ rlock' = Nobody
    /\ got' = <<>>
    /\ UNCHANGED <<fixed, buffer, state, noblock, l, seen, wlock, sleepers,
                   split, dowakeup>>

(* qwrite: qbwrite *)

QbwriteStart(w) ==
    /\ use # "input"
    /\ At(w, Idle, WTest)
    /\ wlock = Nobody
    /\ wlock' = w
    /\ UNCHANGED <<fixed, buffer, state, noblock, l, seen, rlock, sleepers,
                   reading>>

\* qnotfull, without q->l; a nonblocking queue that is full drops the block.
QbwriteTest(w) ==
    /\ IF qnotfull \/ noblock
         THEN At(w, WTest, IF qnotfull THEN WLock ELSE WDone) /\ UNCHANGED seen
         ELSE At(w, WTest, WFlow) /\ Load(w)
    /\ UNCHANGED <<fixed, buffer, state, noblock, l, locks, sleepers, reading>>

\* q->state |= Qflow, without q->l.
QbwriteFlow(w) ==
    /\ At(w, WFlow, WSleep)
    /\ state' = Base(w) \cup {"flow"}
    /\ Forget(w)
    /\ UNCHANGED <<fixed, buffer, noblock, l, locks, sleepers, reading>>

QbwriteSleep(w) ==
    /\ At(w, WSleep, IF qnotfull THEN WTest ELSE WWait)
    /\ wr' = IF qnotfull THEN wr ELSE w
    /\ UNCHANGED <<fixed, buffer, state, noblock, l, seen, locks, rr, reading>>

QbwriteLock(w) == Lock(w, WLock, WIn)

\* The queue has been closed: free the block and raise q->err.
QbwriteClosed(w) ==
    /\ pc[w] = WIn
    /\ "closed" \in state
    /\ Unlock(w, WDone)
    /\ UNCHANGED <<fixed, buffer, state, noblock, locks, sleepers, reading>>

QbwriteAppend(w, n) ==
    /\ pc[w] = WIn
    /\ "closed" \notin state
    /\ Produce(w, n, WWake, WDone)

QbwriteWakeup(w) == WakeupR(w, WWake, WDone)

QbwriteReturn(w) ==
    /\ At(w, WDone, Idle)
    /\ wlock' = Nobody
    /\ UNCHANGED <<fixed, buffer, state, noblock, l, seen, rlock, sleepers,
                   reading>>

\* swiproc pulls a sleeper out of Sleep: Eintr, and the error path unlocks.
Interrupt(p) ==
    \/ /\ At(p, RWait, RDone)
       /\ rr' = Nobody
       /\ UNCHANGED <<fixed, buffer, state, noblock, l, seen, locks, wr,
                      reading>>
    \/ /\ At(p, WWait, WDone)
       /\ wr' = Nobody
       /\ UNCHANGED <<fixed, buffer, state, noblock, l, seen, locks, rr,
                      reading>>

----------------------------------------------------------------------------
(* The device *)

DeviceLock == use # "pipe" /\ Lock(Device, Idle, In)

\* qproduce: it refuses when the queue is full.
Qproduce(n) ==
    /\ use = "input" /\ pc[Device] = In
    /\ IF len < Limit
         THEN Produce(Device, n, WakeR, Idle)
         ELSE /\ Unlock(Device, Idle)
              /\ state' = Base(Device) \cup {"flow"}
              /\ UNCHANGED <<fixed, buffer, noblock, locks, sleepers, reading>>

\* qiwrite: no flow control.
Qiwrite(n) ==
    /\ use = "input" /\ pc[Device] = In
    /\ len < MaxLen
    /\ Produce(Device, n, WakeR, Idle)

\* qpass: no flow control either, but the flag.
Qpass(n) ==
    /\ use = "input" /\ pc[Device] = In
    /\ len < MaxLen
    /\ Append1(n)
    /\ state' = LET flow == IF len + n >= Limit \div 2 THEN {"flow"} ELSE {}
                IN  (Base(Device) \cup flow) \ {"starve"}
    /\ Unlock(Device, IF Starved(Device) THEN WakeR ELSE Idle)
    /\ UNCHANGED <<fixed, noblock, locks, sleepers, reading>>

\* qget takes a block, qconsume up to n bytes of one; both note a starved
\* consumer.
Qempty ==
    /\ use = "output" /\ pc[Device] = In
    /\ blocks = <<>>
    /\ Unlock(Device, Idle)
    /\ state' = Base(Device) \cup {"starve"}
    /\ got' = <<>>
    /\ UNCHANGED <<fixed, buffer, noblock, locks, sleepers, split, dowakeup>>

Consume(b, n, rest) ==
    LET left == len - Len(Passed(b, n))
    IN  /\ got' = Passed(b, n)
        /\ len' = left
        /\ blocks' = rest
        /\ Unflow(Device, left)
        /\ Unlock(Device, IF Restart(Device, left) THEN WakeW ELSE Idle)
        /\ UNCHANGED <<fixed, noblock, locks, sleepers, split, dowakeup>>

Qget ==
    /\ use = "output" /\ pc[Device] = In
    /\ blocks # <<>>
    /\ Consume(Head(blocks), Len(Head(blocks)), Tail(blocks))

Qconsume(n) ==
    /\ use = "output" /\ pc[Device] = In
    /\ blocks # <<>>
    /\ LET b == Head(blocks)
       IN  Consume(b, n, IF Len(b) <= n THEN Tail(blocks)
                         ELSE <<SubSeq(b, n + 1, Len(b))>> \o Tail(blocks))

(* The control *)

ControlLock == Lock(Control, Idle, In)

Qclose ==
    /\ pc[Control] = In
    /\ state' = Base(Control) \cup {"closed"}
    /\ blocks' = <<>> /\ len' = 0
    /\ noblock' = FALSE
    /\ Unlock(Control, WakeRW)
    /\ UNCHANGED <<fixed, locks, sleepers, reading>>

Qhangup ==
    /\ pc[Control] = In
    /\ state' = Base(Control) \cup {"closed"}
    /\ Unlock(Control, WakeRW)
    /\ UNCHANGED <<fixed, buffer, noblock, locks, sleepers, reading>>

Qflush ==
    /\ pc[Control] = In
    /\ use = "output" \/ FlushRead
    /\ blocks' = <<>> /\ len' = 0
    /\ Unlock(Control, WakeW)
    /\ UNCHANGED <<fixed, state, noblock, locks, sleepers, reading>>

\* The device is opened again, when nobody uses the queue any more.
Qreopen ==
    /\ \A p \in Procs : pc[p] = Idle
    /\ "closed" \in state
    /\ state' = (state \ {"closed"}) \cup {"starve"}
    /\ UNCHANGED <<fixed, buffer, noblock, l, seen, locks, sleepers, reading,
                   pc>>

Qnoblock ==
    /\ pc[Control] = Idle
    /\ noblock' = ~noblock
    /\ UNCHANGED <<fixed, buffer, state, l, seen, locks, sleepers, reading, pc>>

----------------------------------------------------------------------------
Sizes == 1 .. MaxBlock

ReaderStep(r) ==
    \/ QbreadEmpty(r)  \/ QbreadSleep(r)  \/ \E n \in Sizes : QbreadTake(r, n)
    \/ QbreadPut(r)    \/ QbreadWakeup(r) \/ QbreadReturn(r)

WriterStep(w) ==
    \/ QbwriteTest(w)  \/ QbwriteFlow(w)  \/ QbwriteSleep(w)
    \/ QbwriteClosed(w) \/ \E n \in Sizes : QbwriteAppend(w, n)
    \/ QbwriteWakeup(w) \/ QbwriteReturn(w)

DeviceStep ==
    \/ \E n \in Sizes : Qproduce(n) \/ Qiwrite(n) \/ Qpass(n) \/ Qconsume(n)
    \/ Qget \/ Qempty
    \/ WakeupR(Device, WakeR, Idle) \/ WakeupW(Device, WakeW, Idle)

ControlStep ==
    \/ Qclose \/ Qhangup \/ Qflush
    \/ WakeupR(Control, WakeRW, WakeW) \/ WakeupW(Control, WakeW, Idle)

Next ==
    \/ \E r \in Readers : QbreadStart(r) \/ QbreadLock(r) \/ QbreadRelock(r)
                          \/ ReaderStep(r)
    \/ \E w \in Writers : QbwriteStart(w) \/ QbwriteLock(w) \/ WriterStep(w)
    \/ \E p \in Readers \cup Writers : Interrupt(p)
    \/ DeviceLock \/ DeviceStep
    \/ ControlLock \/ ControlStep \/ Qreopen \/ Qnoblock

Spec == Init /\ [][Next]_vars

\* Calls run on, and a spin for q->l wins in the end.  Nothing makes a
\* process read or write, the device work or anybody close the queue.
FairSpec ==
    /\ Spec
    /\ \A r \in Readers : /\ WF_vars(ReaderStep(r))
                          /\ SF_vars(QbreadLock(r)) /\ SF_vars(QbreadRelock(r))
    /\ \A w \in Writers : WF_vars(WriterStep(w)) /\ SF_vars(QbwriteLock(w))
    /\ WF_vars(DeviceStep) /\ WF_vars(ControlStep)

----------------------------------------------------------------------------
Bytes(bs) == Len(FlattenSeq(bs))

TypeOK ==
    /\ blocks \in Seq(Seq(0 .. Ring - 1))
    /\ \A i \in DOMAIN blocks : Len(blocks[i]) \in Sizes
    /\ len \in Nat /\ Len(split) < MaxBlock
    /\ state \subseteq Flags /\ noblock \in BOOLEAN
    /\ \A r \in Readers : pc[r] \in ReaderPCs
    /\ \A w \in Writers : pc[w] \in WriterPCs
    /\ pc[Device] \in OtherPCs /\ pc[Control] \in OtherPCs
    /\ {rlock, wlock, rr, wr, l} \subseteq Procs \cup {Nobody}

\* "bytes in queue": q->len is the length of the blocks, through splits,
\* closes and flushes.
LenExact == len = Bytes(blocks)

\* The bytes of a stream, each a unit of its own.
Units(bytes) == [i \in DOMAIN bytes |-> <<bytes[i]>>]

\* What has been written and not yet read, in order: the rest of a block that
\* is being split comes first.
Content ==
    IF msg THEN blocks ELSE Units(FlattenSeq(<<split>> \o blocks))

\* What a reader or the device has received.
Received == IF ~msg THEN Units(got) ELSE IF got = <<>> THEN <<>> ELSE <<got>>

\* qclose, qhangup or qflush is under way.
Emptying == pc[Control] = In

\* Devices produce into a closed queue too; and the unlocked update of q->state
\* can undo Qclosed itself.
Shut == interlocked /\ use # "input" /\ "closed" \in state

Ordered == INSTANCE Stream WITH content <- Content, shut <- Shut,
                                out <- Received, emptying <- Emptying

\* The queue is a stream: whatever comes between the two halves of a split,
\* qbread, qget and qconsume return what they take out, in order, and nothing
\* goes without that but by qclose and qflush; and a queue that only processes
\* write accepts nothing once it is closed, not even from a writer that was
\* waiting ("No further IO is permitted"), until it is reopened.
ImplementsStream == Ordered!StreamSpec

\* Who is about to call Wakeup(&q->rr), Wakeup(&q->wr).
CallsR == {p \in Procs : pc[p] \in {WWake, WakeR, WakeRW}}
CallsW == {p \in Procs : \/ pc[p] \in {RWake, WakeW, WakeRW}
                         \/ (pc[p] \in {RPut, RPutIn} /\ dowakeup)}

\* A reader does not sleep on when there is something to read or the queue is
\* closed: Qstarve, "flag requesting producer to wake me", has reached the
\* producer, who is about to call Wakeup; qclose, qhangup and qflush "wake up
\* readers/writers".  (Not so where qbwrite's unlocked
\* update of q->state can undo that of a reader, or miss it.)
Whole == interlocked \/ use = "input"
StarvedReaderCalled ==
    Whole /\ rr # Nobody /\ notempty => CallsR # {}

\* What qbread puts back of a block does not fill a queue that was less than
\* half full.
BlocksFit == MaxBlock + Limit \div 2 <= Limit + 1

\* A writer that sleeps has its Qflow in q->state, for the reader that makes
\* room to see, or its Wakeup is to come; so it has when the queue is closed.
SleeperCalled ==
    Whole /\ wr # Nobody =>
        \/ CallsW # {}
        \/ /\ "flow" \in state /\ "closed" \notin state
           /\ len >= Limit \div 2

\* So it is with blocks of any size, where qbread puts nothing back: in queues
\* of messages, and in those that a device empties.  In a stream that
\* processes read it is so if BlocksFit.  (Without, the reader may clear Qflow
\* and call Wakeup before the writer sleeps, and yet the queue be full again
\* when it does.)
PutBackFits == msg \/ use # "pipe" \/ BlocksFit
FlowedWriterCalled == PutBackFits => SleeperCalled

\* Writers overrun the limit by less than a block, and by less than another
\* that is being split while they look.
QueueBounded ==
    use # "input" => Len(split) + Bytes(blocks) <= Limit + 2 * (MaxBlock - 1)

\* A reader that sleeps while there is something to read wakes.
ReaderServed == \A r \in Readers :
    (Whole /\ pc[r] = RWait /\ notempty) ~> pc[r] # RWait

\* A writer that sleeps wakes, if the queue is emptied again and again.
WriterServed == []<>(blocks = <<>>) =>
    \A w \in Writers : (Whole /\ pc[w] = WWait) ~> pc[w] # WWait
=============================================================================
