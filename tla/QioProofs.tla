----------------------------- MODULE QioProofs -----------------------------
(***************************************************************************)
(* Proofs about Qio, for any processes, limit and length of a block: the   *)
(* queue is a stream; writers overrun its limit by less than two blocks; a *)
(* reader does not sleep on when there is something to read; nor does a    *)
(* writer when there is room, except in a stream that processes read and   *)
(* whose blocks are too long for what qbread puts back.                    *)
(***************************************************************************)
EXTENDS Qio, QueueFacts

Byte  == 0 .. Ring - 1
Block == {b \in Seq(Byte) : Len(b) \in Sizes}

PCs    == ReaderPCs \cup WriterPCs \cup OtherPCs
Inside == {RIn, RPutIn, WIn, In}

\* What the queue holds, and what is known of its bytes.
Data ==
    /\ use \in Uses /\ msg \in BOOLEAN /\ interlocked \in BOOLEAN
    /\ blocks \in Seq(Block)
    /\ split \in Seq(Byte) /\ Len(split) < MaxBlock
    /\ len = Bytes(blocks)
    /\ state \subseteq Flags /\ seen \in [Procs -> SUBSET Flags]
    /\ noblock \in BOOLEAN /\ dowakeup \in BOOLEAN
    /\ use = "output" => msg = FALSE

\* Where the processes are, and what they hold: a process that reads has
\* rlock, one that writes wlock, one in a section q->l; the sleepers are in
\* rr and wr.
Places ==
    /\ pc \in [Procs -> PCs]
    /\ \A r \in Readers : pc[r] \in ReaderPCs
    /\ \A w \in Writers : pc[w] \in WriterPCs
    /\ pc[Device] \in OtherPCs /\ pc[Control] \in OtherPCs
    /\ rlock \in Readers \cup {Nobody} /\ wlock \in Writers \cup {Nobody}
    /\ \A r \in Readers : pc[r] # Idle => rlock = r
    /\ \A w \in Writers : pc[w] # Idle => wlock = w
    /\ l \in Procs \cup {Nobody}
    /\ \A p \in Procs : l = p <=> pc[p] \in Inside
    /\ rr \in Readers \cup {Nobody} /\ wr \in Writers \cup {Nobody}
    /\ \A r \in Readers : rr = r <=> pc[r] = RWait
    /\ \A w \in Writers : wr = w <=> pc[w] = WWait

\* Each use has its own readers and writers.
UsedSo ==
    /\ use = "output" => \A r \in Readers : pc[r] = Idle
    /\ use = "input" => \A w \in Writers : pc[w] = Idle
    /\ use = "pipe" => pc[Device] = Idle

\* There is the rest of a block, and a Wakeup after it, only while a reader
\* puts it back.
Parting ==
    /\ \A r \in Readers :
          pc[r] \in {RPut, RPutIn} => split # <<>> /\ msg = FALSE
    /\ \/ split = <<>> /\ dowakeup = FALSE
       \/ \E r \in Readers : pc[r] \in {RPut, RPutIn}

\* What an update of q->state does with the value it has read: it is current
\* where no update is lost, and Qclosed is in it if it has been set.
Flagged ==
    /\ l # Nobody /\ "closed" \in state => "closed" \in Base(l)
    /\ \A w \in Writers : pc[w] = WFlow => "closed" \notin seen[w]
    /\ Whole /\ l # Nobody => Base(l) = state

\* A writer that has passed the test adds a block to a queue that is not full,
\* but for what is put back of another.
Bounded ==
    use # "input" =>
        /\ Len(split) + len <= Limit + 2 * (MaxBlock - 1)
        /\ \A w \in Writers : pc[w] \in {WLock, WIn} =>
              "closed" \in state \/ Len(split) + len <= Limit + MaxBlock - 2

IInv == Data /\ Places /\ UsedSo /\ Parting /\ Flagged /\ Bounded

\* Before and in its Sleep a reader has its Qstarve in q->state, or what it
\* waits for is there.
ReadersCalled ==
    Whole => \A r \in Readers :
        /\ pc[r] = RSleep => notempty \/ "starve" \in state
        /\ pc[r] = RWait =>
              CallsR # {} \/ (~notempty /\ "starve" \in state)

\* Before and in its Sleep a writer has its Qflow in q->state, or there is
\* room, also for what is put back.
Room == "closed" \in state \/ Len(split) + len < Limit

WritersCalled ==
    Whole => \A w \in Writers :
        /\ pc[w] = WSleep => Room \/ "flow" \in state
        /\ pc[w] = WWait =>
              \/ CallsW # {}
              \/ /\ "flow" \in state /\ "closed" \notin state
                 /\ len >= Limit \div 2

USE DEF Idle, RLock, RIn, RSleep, RWait, RPut, RPutIn, RWake, RDone, WTest,
        WFlow, WSleep, WWait, WLock, WIn, WWake, WDone, In, WakeR, WakeW,
        WakeRW

----------------------------------------------------------------------------
(* The constants, the blocks, and their bytes. *)

\* The constants tell processes, devices and nobody apart.
LEMMA Basics ==
  /\ Limit \in Nat \ {0} /\ MaxBlock \in Nat \ {0} /\ MaxLen \in Nat
  /\ Limit \div 2 \in Nat /\ Limit \div 2 <= Limit
  /\ Ring \in Nat \ {0} /\ Sizes = 1 .. MaxBlock
  /\ Readers \subseteq Procs /\ Writers \subseteq Procs
  /\ Device \in Procs /\ Control \in Procs /\ Device # Control
  /\ \A r \in Readers : r \notin Writers /\ r # Device /\ r # Control
  /\ \A w \in Writers : w \notin Readers /\ w # Device /\ w # Control
  /\ Nobody \notin Procs
<1>1. Limit \in Nat \ {0} /\ MaxBlock \in Nat \ {0} /\ MaxLen \in Nat
  BY QioAssumption
<1>2. Limit \div 2 \in Nat /\ Limit \div 2 <= Limit
  BY <1>1
<1>3. Ring \in Nat \ {0} /\ Sizes = 1 .. MaxBlock
  BY <1>1 DEF Ring, Sizes
<1>4. /\ Readers \subseteq Procs /\ Writers \subseteq Procs
      /\ Device \in Procs /\ Control \in Procs
  BY DEF Procs
<1>5. /\ Device # Control /\ Nobody \notin Procs
      /\ \A r \in Readers : r \notin Writers /\ r # Device /\ r # Control
      /\ \A w \in Writers : w \notin Readers /\ w # Device /\ w # Control
  BY QioAssumption
<1> QED
  BY <1>1, <1>2, <1>3, <1>4, <1>5

LEMMA BlockFacts ==
  /\ \A b \in Block : b \in Seq(Byte) /\ Len(b) \in 1 .. MaxBlock
  /\ \A b \in Seq(Byte) : Len(b) \in 1 .. MaxBlock => b \in Block
  /\ Block \subseteq Seq(Byte)
  /\ \A bs \in Seq(Block) : bs \in Seq(Seq(Byte))
<1>1. Block \subseteq Seq(Byte)
  BY DEF Block
<1>2. \A bs \in Seq(Block) : bs \in Seq(Seq(Byte))
  BY <1>1, SeqMonotonic
<1> QED
  BY <1>1, <1>2, Basics DEF Block

\* What is left of a block when n bytes have been taken.
LEMMA RestFacts ==
  ASSUME NEW b \in Block, NEW n \in Sizes, Len(b) > n
  PROVE  /\ SubSeq(b, n + 1, Len(b)) \in Block
         /\ Len(SubSeq(b, n + 1, Len(b))) = Len(b) - n
         /\ Len(b) - n < MaxBlock
         /\ SubSeq(b, 1, n) \in Block /\ Len(SubSeq(b, 1, n)) = n
         /\ b = SubSeq(b, 1, n) \o SubSeq(b, n + 1, Len(b))
<1> DEFINE m == Len(b)
<1>1. b \in Seq(Byte) /\ m \in 1 .. MaxBlock /\ n \in 1 .. m /\ n < m
  BY BlockFacts, Basics
<1>2. \A i \in 1 .. m : b[i] \in Byte
  BY <1>1, ElementOfSeq
<1>3. SubSeq(b, n + 1, m) \in Seq(Byte) /\ Len(SubSeq(b, n + 1, m)) = m - n
  <2>1. n + 1 \in Int /\ m \in Int /\ n + 1 <= m
    BY <1>1, Basics
  <2>2. \A i \in (n + 1) .. m : b[i] \in Byte
    BY <1>1, <1>2
  <2>3. /\ SubSeq(b, n + 1, m) \in Seq(Byte)
        /\ Len(SubSeq(b, n + 1, m)) =
              IF n + 1 <= m THEN m - (n + 1) + 1 ELSE 0
    BY <2>1, <2>2, SubSeqProperties
  <2> HIDE DEF m
  <2> QED
    BY <1>1, <2>1, <2>3, Basics
<1>4. SubSeq(b, 1, n) \in Seq(Byte) /\ Len(SubSeq(b, 1, n)) = n
  <2>1. 1 \in Int /\ n \in Int /\ 1 <= n
    BY <1>1, Basics
  <2>2. \A i \in 1 .. n : b[i] \in Byte
    BY <1>1, <1>2
  <2>3. /\ SubSeq(b, 1, n) \in Seq(Byte)
        /\ Len(SubSeq(b, 1, n)) = IF 1 <= n THEN n - 1 + 1 ELSE 0
    BY <2>1, <2>2, SubSeqProperties
  <2> QED
    BY <2>1, <2>3
<1>5. b = SubSeq(b, 1, n) \o SubSeq(b, n + 1, m)
  <2>1. SubSeq(b, 1, n) \o SubSeq(b, n + 1, m) = SubSeq(b, 1, m)
    <3>1. 1 \in 1 .. m + 1 /\ n \in 1 - 1 .. m /\ m \in n .. m
      BY <1>1, Basics
    <3> QED
      BY <1>1, <3>1, ConcatAdjacentSubSeq
  <2>2. SubSeq(b, 1, m) = b
    BY <1>1, SubSeqFull
  <2> QED
    BY <2>1, <2>2
<1> HIDE DEF m
<1>6. m - n < MaxBlock /\ m - n \in 1 .. MaxBlock /\ n \in 1 .. MaxBlock
  BY <1>1, Basics
<1> QED
  BY <1>3, <1>4, <1>5, <1>6, BlockFacts DEF m

\* What is passed to the caller that asks for n bytes.
LEMMA PassedFacts ==
  ASSUME NEW b \in Block, NEW n \in Sizes
  PROVE  /\ Len(b) > n =>
               Passed(b, n) = SubSeq(b, 1, n) /\ Len(Passed(b, n)) = n
         /\ ~(Len(b) > n) => Passed(b, n) = b
         /\ Passed(b, n) \in Block
         /\ Len(Passed(b, n)) \in 1 .. Len(b)
         /\ Passed(b, n) = SubSeq(b, 1, Len(Passed(b, n)))
<1>1. b \in Seq(Byte) /\ Len(b) \in 1 .. MaxBlock /\ n \in 1 .. MaxBlock
  BY BlockFacts, Basics
<1>2. CASE Len(b) > n
  <2>1. Passed(b, n) = SubSeq(b, 1, n)
    BY <1>1, <1>2, Basics DEF Passed
  <2>2. SubSeq(b, 1, n) \in Block /\ Len(SubSeq(b, 1, n)) = n
    BY <1>2, RestFacts
  <2> QED
    BY <1>1, <1>2, <2>1, <2>2, Basics
<1>3. CASE ~(Len(b) > n)
  <2>1. Passed(b, n) = SubSeq(b, 1, Len(b))
    BY <1>1, <1>3, Basics DEF Passed
  <2>2. SubSeq(b, 1, Len(b)) = b
    BY <1>1, SubSeqFull
  <2>3. Passed(b, n) = b
    BY <2>1, <2>2
  <2>4. Len(b) \in 1 .. Len(b) /\ b = SubSeq(b, 1, Len(b))
    BY <1>1, <2>2
  <2> QED
    BY <1>3, <2>3, <2>4, Zenon
<1> QED
  BY <1>2, <1>3

LEMMA BytesFacts ==
  ASSUME NEW bs \in Seq(Block)
  PROVE  /\ FlattenSeq(bs) \in Seq(Byte) /\ Bytes(bs) \in Nat
         /\ Bytes(<<>>) = 0 /\ <<>> \in Seq(Block)
         /\ \A b \in Block :
               /\ Append(bs, b) \in Seq(Block)
               /\ FlattenSeq(Append(bs, b)) = FlattenSeq(bs) \o b
               /\ Bytes(Append(bs, b)) = Bytes(bs) + Len(b)
               /\ <<b>> \o bs \in Seq(Block)
               /\ FlattenSeq(<<b>> \o bs) = b \o FlattenSeq(bs)
               /\ Bytes(<<b>> \o bs) = Bytes(bs) + Len(b)
<1>1. bs \in Seq(Seq(Byte)) /\ <<>> \in Seq(Byte) /\ <<>> \in Seq(Block)
  BY BlockFacts, EmptySeq
<1>2. FlattenSeq(bs) \in Seq(Byte) /\ Bytes(bs) \in Nat
  BY <1>1, FlattenAppend, LenProperties DEF Bytes
<1>3. Bytes(<<>>) = 0
  BY FlattenEmpty DEF Bytes
<1>4. ASSUME NEW b \in Block
      PROVE  /\ Append(bs, b) \in Seq(Block)
             /\ FlattenSeq(Append(bs, b)) = FlattenSeq(bs) \o b
             /\ Bytes(Append(bs, b)) = Bytes(bs) + Len(b)
             /\ <<b>> \o bs \in Seq(Block)
             /\ FlattenSeq(<<b>> \o bs) = b \o FlattenSeq(bs)
             /\ Bytes(<<b>> \o bs) = Bytes(bs) + Len(b)
  <2>1. b \in Seq(Byte) /\ Len(b) \in Nat
    BY BlockFacts, LenProperties
  <2>2. Append(bs, b) \in Seq(Block) /\ <<b>> \o bs \in Seq(Block)
    BY ConsSet, AppendProperties
  <2>3. /\ FlattenSeq(Append(bs, b)) = FlattenSeq(bs) \o b
        /\ FlattenSeq(<<b>> \o bs) = b \o FlattenSeq(bs)
    BY <1>1, <2>1, FlattenAppend, FlattenCons
  <2>4. /\ Len(FlattenSeq(bs) \o b) = Len(FlattenSeq(bs)) + Len(b)
        /\ Len(b \o FlattenSeq(bs)) = Len(b) + Len(FlattenSeq(bs))
    BY <1>2, <2>1, ConcatProperties
  <2>5. Len(b) + Len(FlattenSeq(bs)) = Len(FlattenSeq(bs)) + Len(b)
    BY <1>2, <2>1 DEF Bytes
  <2> QED
    BY <2>2, <2>3, <2>4, <2>5 DEF Bytes
<1> QED
  BY <1>1, <1>2, <1>3, <1>4

\* The first block.
LEMMA HeadFacts ==
  ASSUME NEW bs \in Seq(Block), bs # <<>>
  PROVE  /\ Head(bs) \in Block /\ Tail(bs) \in Seq(Block)
         /\ FlattenSeq(bs) = Head(bs) \o FlattenSeq(Tail(bs))
         /\ Bytes(bs) = Bytes(Tail(bs)) + Len(Head(bs))
         /\ Bytes(Tail(bs)) \in Nat /\ Len(Head(bs)) \in 1 .. MaxBlock
<1>1. Head(bs) \in Block /\ Tail(bs) \in Seq(Block)
  BY HeadTailProperties
<1>2. bs = <<Head(bs)>> \o Tail(bs)
  OBVIOUS
<1> QED
  BY <1>1, <1>2, BytesFacts, BlockFacts

\* A block of new bytes.
LEMMA FreshFacts ==
  ASSUME Data, NEW n \in Sizes
  PROVE  Fresh(n) \in Block /\ Len(Fresh(n)) = n
<1> DEFINE flight == FlattenSeq(<<split>> \o blocks)
           first == IF flight = <<>> THEN 0 ELSE Last(flight) + 1
           x == [i \in 1 .. n |-> (first + i - 1) % Ring]
<1>1. flight \in Seq(Byte)
  <2>1. split \in Seq(Byte) /\ blocks \in Seq(Seq(Byte))
    BY BlockFacts DEF Data
  <2>2. FlattenSeq(<<split>> \o blocks) = split \o FlattenSeq(blocks)
    BY <2>1, FlattenCons
  <2>3. FlattenSeq(blocks) \in Seq(Byte)
    BY BytesFacts DEF Data
  <2> QED
    BY <2>1, <2>2, <2>3, ConcatProperties
<1> HIDE DEF flight
<1>2. first \in Nat
  <2>1. ASSUME flight # <<>> PROVE Last(flight) \in Byte
    <3>1. Len(flight) \in 1 .. Len(flight)
      BY <1>1, <2>1, EmptySeq
    <3> QED
      BY <1>1, <3>1, ElementOfSeq DEF Last
  <2>2. Byte \subseteq Nat
    BY Basics DEF Byte
  <2>3. CASE flight = <<>>
    BY <2>3
  <2>4. CASE flight # <<>>
    <3>1. Last(flight) \in Nat
      BY <2>1, <2>2, <2>4
    <3>2. first = Last(flight) + 1
      BY <2>4
    <3> HIDE DEF first
    <3> QED
      BY <3>1, <3>2
  <2> QED
    BY <2>3, <2>4
<1> HIDE DEF first
<1>3. \A i \in 1 .. n : (first + i - 1) % Ring \in Byte
  <2>1. \A a \in Nat, d \in Nat \ {0} : a % d \in 0 .. d - 1
    OBVIOUS
  <2>2. \A i \in 1 .. n : first + i - 1 \in Nat
    BY <1>2, Basics
  <2> QED
    BY <2>1, <2>2, Basics DEF Byte
<1>4. n \in Nat
  BY Basics
<1>5. x \in Seq(Byte) /\ Len(x) = n
  <2>1. x \in [1 .. n -> Byte]
    BY <1>3
  <2> HIDE DEF x
  <2> QED
    BY <1>4, <2>1
<1>6. Fresh(n) = x
  BY DEF Fresh, x, first, flight
<1> QED
  BY <1>5, <1>6, BlockFacts, Basics

\* A block more at the end.
LEMMA AddFacts ==
  ASSUME Data, NEW n \in Sizes, Append1(n)
  PROVE  blocks' \in Seq(Block) /\ blocks' # <<>> /\ len' = Bytes(blocks')
         /\ len' = len + n /\ len \in Nat
<1>1. Fresh(n) \in Block /\ Len(Fresh(n)) = n
  BY FreshFacts
<1>2. blocks \in Seq(Block) /\ len = Bytes(blocks)
  BY DEF Data
<1>3. blocks' = Append(blocks, Fresh(n))
  BY DEF Append1
<1>4. len' = len + n
  BY DEF Append1
<1>5. blocks' \in Seq(Block)
  BY <1>1, <1>2, <1>3, BytesFacts
<1>6. len' = Bytes(blocks')
  BY <1>1, <1>2, <1>3, <1>4, BytesFacts
<1>7. len \in Nat
  BY <1>2, BytesFacts
<1>8. blocks' # <<>>
  BY <1>1, <1>2, <1>3, AppendProperties
<1> QED
  BY <1>4, <1>5, <1>6, <1>7, <1>8

\* The first block taken.
LEMMA TakeFacts ==
  ASSUME Data, blocks # <<>>
  PROVE  /\ Head(blocks) \in Block /\ Len(Head(blocks)) \in 1 .. MaxBlock
         /\ Tail(blocks) \in Seq(Block) /\ len \in Nat
         /\ len - Len(Head(blocks)) = Bytes(Tail(blocks))
         /\ len - Len(Head(blocks)) \in Nat
         /\ FlattenSeq(blocks) = Head(blocks) \o FlattenSeq(Tail(blocks))
<1>1. blocks \in Seq(Block) /\ len = Bytes(blocks)
  BY DEF Data
<1>2. /\ Head(blocks) \in Block /\ Tail(blocks) \in Seq(Block)
      /\ FlattenSeq(blocks) = Head(blocks) \o FlattenSeq(Tail(blocks))
      /\ Bytes(blocks) = Bytes(Tail(blocks)) + Len(Head(blocks))
      /\ Bytes(Tail(blocks)) \in Nat /\ Len(Head(blocks)) \in 1 .. MaxBlock
  BY <1>1, HeadFacts
<1> QED
  BY <1>1, <1>2

\* What an update of q->state starts from.
LEMMA BaseFacts ==
  ASSUME Data, NEW p \in Procs
  PROVE  Base(p) \subseteq Flags
  BY DEF Data, Base

----------------------------------------------------------------------------
(* What keeps the parts of the invariant that are about counts and calls. *)

\* A step that adds no bytes and lets no writer pass the test.
LEMMA BoundedKept ==
  ASSUME Data, Bounded, use' = use, Len(split') \in Nat, len' \in Nat,
         Len(split') + len' <= Len(split) + len,
         "closed" \in state => "closed" \in state',
         \A w \in Writers : pc'[w] \in {WLock, WIn} => pc[w] \in {WLock, WIn}
  PROVE  Bounded'
<1>1. Len(split) \in Nat /\ len \in Nat
  BY BytesFacts, LenProperties DEF Data
<1>2. Limit \in Nat /\ MaxBlock \in Nat
  BY Basics
<1>3. ASSUME use # "input"
      PROVE  Len(split') + len' <= Limit + 2 * (MaxBlock - 1)
  BY <1>1, <1>2, <1>3 DEF Bounded
<1>4. ASSUME use # "input", NEW w \in Writers, pc'[w] \in {WLock, WIn}
      PROVE  "closed" \in state' \/ Len(split') + len' <= Limit + MaxBlock - 2
  <2>1. "closed" \in state \/ Len(split) + len <= Limit + MaxBlock - 2
    BY <1>4 DEF Bounded
  <2> QED
    BY <1>1, <1>2, <2>1
<1> QED
  BY <1>3, <1>4 DEF Bounded

\* A step after which no reader sleeps that did not before.
LEMMA ReadersKept ==
  ASSUME ReadersCalled, use' = use, interlocked' = interlocked,
         \A r \in Readers : /\ pc'[r] = RSleep => pc[r] = RSleep
                            /\ pc'[r] = RWait => pc[r] = RWait,
         Whole /\ (notempty \/ "starve" \in state) =>
            notempty' \/ "starve" \in state',
         CallsR # {} => CallsR' # {},
         Whole /\ ~notempty /\ "starve" \in state =>
            CallsR' # {} \/ (~notempty' /\ "starve" \in state')
  PROVE  ReadersCalled'
<1> HIDE DEF RSleep, RWait
<1> QED
  BY DEF ReadersCalled, Whole

\* A step after which no writer sleeps that did not before.
LEMMA WritersKept ==
  ASSUME WritersCalled, use' = use, interlocked' = interlocked,
         \A w \in Writers : /\ pc'[w] = WSleep => pc[w] = WSleep
                            /\ pc'[w] = WWait => pc[w] = WWait,
         Whole /\ (Room \/ "flow" \in state) => Room' \/ "flow" \in state',
         CallsW # {} => CallsW' # {},
         /\ Whole /\ "flow" \in state /\ "closed" \notin state
         /\ len >= Limit \div 2
         => \/ CallsW' # {}
            \/ /\ "flow" \in state' /\ "closed" \notin state'
               /\ len' >= Limit \div 2
  PROVE  WritersCalled'
<1> HIDE DEF WSleep, WWait
<1> QED
  BY DEF WritersCalled, Whole

----------------------------------------------------------------------------
(* The steps of Qio.  ReadersCalled is kept if queues that processes read  *)
(* are not flushed, WritersCalled where what qbread puts back fits.        *)

\* What a step has to keep.
Kept ==
    /\ IInv'
    /\ FlushRead = FALSE /\ ReadersCalled => ReadersCalled'
    /\ PutBackFits /\ WritersCalled => WritersCalled'

\* Who takes q->l, and who calls Wakeup, and where.
Locker(p, from, to) ==
    \/ p \in Readers /\ from = RLock /\ to = RIn
    \/ p \in Readers /\ from = RPut /\ to = RPutIn
    \/ p \in Writers /\ from = WLock /\ to = WIn
    \/ p = Device /\ use # "pipe" /\ from = Idle /\ to = In
    \/ p = Control /\ from = Idle /\ to = In

CallerR(p, from, to) ==
    \/ p \in Writers /\ from = WWake /\ to = WDone
    \/ p = Device /\ from = WakeR /\ to = Idle
    \/ p = Control /\ from = WakeRW /\ to = WakeW

CallerW(p, from, to) ==
    \/ p \in Readers /\ from = RWake /\ to = RDone
    \/ p \in {Device, Control} /\ from = WakeW /\ to = Idle

\* lock(&q->l).
LEMMA LockStep ==
  ASSUME IInv, NEW p \in Procs, NEW from, NEW to,
         Locker(p, from, to), Lock(p, from, to)
  PROVE  Kept
<1> USE DEF fixed, buffer, locks, sleepers, reading
<1>0. Data /\ Places /\ UsedSo /\ Parting /\ Flagged /\ Bounded
  BY DEF IInv
<1>1. Data'
  BY <1>0 DEF Data, Lock, Load
<1>2. Places'
  BY <1>0, Basics DEF Places, PCs, ReaderPCs, WriterPCs, OtherPCs, Inside,
                      Locker, Lock, Goto, At
<1>3. UsedSo'
  BY <1>0, Basics DEF UsedSo, Locker, Lock, Goto, At
<1>4. Parting'
  BY <1>0 DEF Parting, Locker, Lock, Goto, At
<1>5. Flagged'
  BY <1>0 DEF Flagged, Data, Base, Locker, Lock, Load, Goto, At
<1>6. Bounded'
  BY <1>0 DEF Bounded, Locker, Lock, Goto, At
<1>7. ASSUME FlushRead = FALSE, ReadersCalled PROVE ReadersCalled'
  BY <1>7 DEF ReadersCalled, CallsR, notempty, Whole, Locker, Lock, Goto, At
<1>8. ASSUME PutBackFits, WritersCalled PROVE WritersCalled'
  BY <1>8 DEF WritersCalled, CallsW, Room, Whole, Locker, Lock, Goto, At
<1> QED
  BY <1>1, <1>2, <1>3, <1>4, <1>5, <1>6, <1>7, <1>8 DEF IInv, Kept

\* Wakeup(&q->rr) and Wakeup(&q->wr).
LEMMA WakeupRStep ==
  ASSUME IInv, NEW p \in Procs, NEW from, NEW to,
         CallerR(p, from, to), WakeupR(p, from, to)
  PROVE  Kept
<1> USE DEF fixed, buffer, locks, sleepers, reading
<1>0. Data /\ Places /\ UsedSo /\ Parting /\ Flagged /\ Bounded
  BY DEF IInv
<1>1. Data'
  BY <1>0 DEF Data, WakeupR
<1>2. Places'
  BY <1>0, Basics DEF Places, PCs, ReaderPCs, WriterPCs, OtherPCs, Inside,
                      CallerR, WakeupR, Wakeup
<1>3. UsedSo'
  BY <1>0, Basics DEF UsedSo, Places, Uses, CallerR, WakeupR, Wakeup
<1>4. Parting'
  BY <1>0, Basics DEF Parting, Places, CallerR, WakeupR, Wakeup
<1>5. Flagged'
  BY <1>0, Basics DEF Flagged, Whole, Base, CallerR, WakeupR, Wakeup
<1>6. Bounded'
  BY <1>0, Basics DEF Bounded, CallerR, WakeupR, Wakeup
<1>7. ASSUME FlushRead = FALSE, ReadersCalled PROVE ReadersCalled'
  BY <1>0, <1>7, Basics DEF ReadersCalled, notempty, Places, Whole, CallerR,
                            WakeupR, Wakeup
<1>8. ASSUME PutBackFits, WritersCalled PROVE WritersCalled'
  <2>1. /\ UNCHANGED <<use, interlocked, state, len, split, dowakeup>>
        /\ pc[p] = from
    BY DEF WakeupR
  <2>2. \A w \in Writers : pc'[w] \in {WSleep, WWait} => pc'[w] = pc[w]
    BY Basics DEF CallerR, WakeupR, Wakeup
  <2>3. \A q \in CallsW : q \in CallsW'
    BY <1>0, Basics DEF CallerR, WakeupR, Wakeup, Places, CallsW
  <2>4. CallsW # {} => CallsW' # {}
    BY <2>3
  <2> QED
    BY <1>8, <2>1, <2>2, <2>4, WritersKept DEF Room
<1> QED
  BY <1>1, <1>2, <1>3, <1>4, <1>5, <1>6, <1>7, <1>8 DEF IInv, Kept

LEMMA WakeupWStep ==
  ASSUME IInv, NEW p \in Procs, NEW from, NEW to,
         CallerW(p, from, to), WakeupW(p, from, to)
  PROVE  Kept
<1> USE DEF fixed, buffer, locks, sleepers, reading
<1>0. Data /\ Places /\ UsedSo /\ Parting /\ Flagged /\ Bounded
  BY DEF IInv
<1>1. Data'
  BY <1>0 DEF Data, WakeupW
<1>2. Places'
  BY <1>0, Basics DEF Places, PCs, ReaderPCs, WriterPCs, OtherPCs, Inside,
                      CallerW, WakeupW, Wakeup
<1>3. UsedSo'
  BY <1>0, Basics DEF UsedSo, Places, Uses, CallerW, WakeupW, Wakeup
<1>4. Parting'
  BY <1>0, Basics DEF Parting, Places, CallerW, WakeupW, Wakeup
<1>5. Flagged'
  BY <1>0, Basics DEF Flagged, Whole, Base, CallerW, WakeupW, Wakeup
<1>6. Bounded'
  BY <1>0, Basics DEF Bounded, CallerW, WakeupW, Wakeup
<1>7. ASSUME FlushRead = FALSE, ReadersCalled PROVE ReadersCalled'
  <2>1. UNCHANGED <<use, interlocked, state, blocks>> /\ pc[p] = from
    BY DEF WakeupW
  <2>2. \A r \in Readers : pc'[r] \in {RSleep, RWait} => pc'[r] = pc[r]
    BY Basics DEF CallerW, WakeupW, Wakeup
  <2>3. \A q \in CallsR : q \in CallsR'
    BY <1>0, Basics DEF CallerW, WakeupW, Wakeup, Places, CallsR
  <2>4. CallsR # {} => CallsR' # {}
    BY <2>3
  <2> QED
    BY <1>7, <2>1, <2>2, <2>4, ReadersKept DEF notempty
<1>8. ASSUME PutBackFits, WritersCalled PROVE WritersCalled'
  BY <1>0, <1>8, Basics DEF WritersCalled, Room, Places, Whole, CallerW,
                            WakeupW, Wakeup
<1> QED
  BY <1>1, <1>2, <1>3, <1>4, <1>5, <1>6, <1>7, <1>8 DEF IInv, Kept

\* qread and qbread.
LEMMA QbreadStartStep ==
  ASSUME IInv, NEW r \in Readers, QbreadStart(r)
  PROVE  Kept
<1> USE DEF fixed, buffer, locks, sleepers, reading
<1>0. Data /\ Places /\ UsedSo /\ Parting /\ Flagged /\ Bounded
  BY DEF IInv
<1>1. Data'
  BY <1>0 DEF Data, QbreadStart
<1>2. Places'
  BY <1>0, Basics DEF Places, PCs, ReaderPCs, Inside, QbreadStart, Goto, At
<1>3. UsedSo'
  BY <1>0, Basics DEF UsedSo, Uses, QbreadStart, Goto, At
<1>4. Parting'
  BY <1>0 DEF Parting, QbreadStart, Goto, At
<1>5. Flagged'
  BY <1>0 DEF Flagged, Whole, Base, QbreadStart, Goto, At
<1>6. Bounded'
  BY <1>0 DEF Bounded, QbreadStart, Goto, At
<1>7. ASSUME FlushRead = FALSE, ReadersCalled PROVE ReadersCalled'
  BY <1>0, Basics DEF ReadersCalled, Places, QbreadStart, Goto, At
<1>8. ASSUME PutBackFits, WritersCalled PROVE WritersCalled'
  BY <1>8 DEF WritersCalled, CallsW, Room, Whole, QbreadStart, Goto, At
<1> QED
  BY <1>1, <1>2, <1>3, <1>4, <1>5, <1>6, <1>7, <1>8 DEF IInv, Kept

LEMMA QbreadEmptyStep ==
  ASSUME IInv, NEW r \in Readers, QbreadEmpty(r)
  PROVE  Kept
<1> USE DEF fixed, buffer, locks, sleepers, reading
<1>0. Data /\ Places /\ UsedSo /\ Parting /\ Flagged /\ Bounded
  BY DEF IInv
<1>1. Data'
  BY <1>0, BaseFacts, Basics DEF Data, QbreadEmpty, Unlock, Forget, Flags
<1>2. Places'
  BY <1>0, Basics DEF Places, PCs, ReaderPCs, Inside, QbreadEmpty, Unlock,
                      Goto
<1>3. UsedSo'
  BY <1>0, Basics DEF UsedSo, Places, QbreadEmpty, Unlock, Goto
<1>4. Parting'
  BY <1>0, Basics DEF Parting, Places, QbreadEmpty, Unlock, Goto
<1>5. Flagged'
  BY <1>0, Basics DEF Flagged, Places, Data, QbreadEmpty, Unlock, Forget, Goto
<1>6. Bounded'
  BY <1>0, Basics DEF Bounded, Places, QbreadEmpty, Unlock, Goto
<1>7. ASSUME FlushRead = FALSE, ReadersCalled PROVE ReadersCalled'
  BY <1>0, Basics DEF ReadersCalled, Places, QbreadEmpty, Unlock, Goto
<1>8. ASSUME PutBackFits, WritersCalled PROVE WritersCalled'
  BY <1>0, <1>8, Basics DEF WritersCalled, CallsW, Room, Places, Flagged,
                            Whole, QbreadEmpty, Unlock, Goto
<1> QED
  BY <1>1, <1>2, <1>3, <1>4, <1>5, <1>6, <1>7, <1>8 DEF IInv, Kept

LEMMA QbreadSleepStep ==
  ASSUME IInv, NEW r \in Readers, QbreadSleep(r)
  PROVE  Kept
<1> USE DEF fixed, buffer, locks, sleepers, reading
<1>0. Data /\ Places /\ UsedSo /\ Parting /\ Flagged /\ Bounded
  BY DEF IInv
<1>1. Data'
  BY <1>0 DEF Data, QbreadSleep
<1>2. Places'
  BY <1>0, Basics DEF Places, PCs, ReaderPCs, Inside, QbreadSleep, Goto, At
<1>3. UsedSo'
  BY <1>0 DEF UsedSo, QbreadSleep, Goto, At
<1>4. Parting'
  BY <1>0 DEF Parting, QbreadSleep, Goto, At
<1>5. Flagged'
  BY <1>0 DEF Flagged, Whole, Base, QbreadSleep, Goto, At
<1>6. Bounded'
  BY <1>0 DEF Bounded, QbreadSleep, Goto, At
<1>7. ASSUME FlushRead = FALSE, ReadersCalled PROVE ReadersCalled'
  BY <1>7 DEF ReadersCalled, CallsR, notempty, Whole, QbreadSleep, Goto, At
<1>8. ASSUME PutBackFits, WritersCalled PROVE WritersCalled'
  BY <1>8 DEF WritersCalled, CallsW, Room, Whole, QbreadSleep, Goto, At
<1> QED
  BY <1>1, <1>2, <1>3, <1>4, <1>5, <1>6, <1>7, <1>8 DEF IInv, Kept

\* What qbread takes and what it keeps to put back are not more than there was.
LEMMA TakenFacts ==
  ASSUME IInv, NEW r \in Readers, NEW n \in Sizes, QbreadTake(r, n),
         split' \in Seq(Byte)
  PROVE  Len(split') \in Nat /\ Len(split') + len' <= Len(split) + len
<1> DEFINE b == Head(blocks)
<1>1. Data /\ Places /\ Parting
  BY DEF IInv
<1>2. blocks # <<>> /\ pc[r] = RIn /\ len' = len - Len(b)
  BY DEF QbreadTake
<1>3. b \in Block /\ len \in Nat /\ Len(b) \in Nat
  BY <1>1, <1>2, TakeFacts
<1>4. Len(split') <= Len(b)
  <2>1. CASE Parted(b, n)
    <3>1. split' = SubSeq(b, n + 1, Len(b)) /\ Len(b) > n
      BY <2>1 DEF QbreadTake, Parted
    <3>2. Len(split') = Len(b) - n /\ n \in Nat
      BY <3>1, Basics
    <3> QED
      BY <3>2
  <2>2. CASE ~Parted(b, n)
    BY <2>2 DEF QbreadTake
  <2> QED
    BY <2>1, <2>2
<1> HIDE DEF b
<1> QED
  BY <1>2, <1>3, <1>4

LEMMA QbreadTakeStep ==
  ASSUME IInv, NEW r \in Readers, NEW n \in Sizes, QbreadTake(r, n)
  PROVE  Kept
<1> USE DEF fixed, buffer, locks, sleepers, reading
<1>0. Data /\ Places /\ UsedSo /\ Parting /\ Flagged /\ Bounded
  BY DEF IInv
<1>1. Data'
  <2> DEFINE b == Head(blocks)
  <2>1. blocks # <<>> /\ blocks' = Tail(blocks) /\ len' = len - Len(b)
    BY DEF QbreadTake
  <2>2. blocks' \in Seq(Block) /\ len' = Bytes(blocks')
    BY <1>0, <2>1, TakeFacts
  <2>3. split' \in Seq(Byte) /\ Len(split') < MaxBlock
    <3>1. CASE Parted(b, n)
      <4>1. split' = SubSeq(b, n + 1, Len(b)) /\ Len(b) > n
        BY <3>1 DEF QbreadTake, Parted
      <4>2. b \in Block
        BY <1>0, <2>1, TakeFacts
      <4>3. split' \in Block /\ Len(split') < MaxBlock
        BY <4>1, <4>2, RestFacts
      <4> QED
        BY <4>3, BlockFacts
    <3>2. CASE ~Parted(b, n)
      <4>1. split' = <<>>
        BY <3>2 DEF QbreadTake
      <4> QED
        BY <4>1, Basics
    <3> QED
      BY <3>1, <3>2
  <2>4. dowakeup' \in BOOLEAN
    BY DEF QbreadTake
  <2>5. state' \subseteq Flags
    BY <1>0, BaseFacts, Basics DEF QbreadTake, Unflow, Data
  <2> QED
    BY <1>0, <2>2, <2>3, <2>4, <2>5 DEF QbreadTake, Unlock, Forget, Data
<1>2. Places'
  BY <1>0, Basics DEF Places, PCs, ReaderPCs, Inside, QbreadTake, Unlock, Goto
<1>3. UsedSo'
  BY <1>0 DEF UsedSo, QbreadTake, Unlock, Goto
<1>4. Parting'
  <2>1. \A q \in Readers : q # r => pc'[q] = Idle
    BY <1>0 DEF QbreadTake, Unlock, Goto, Places
  <2>2. CASE Parted(Head(blocks), n)
    <3>1. pc'[r] = RPut /\ msg' = FALSE
      BY <1>0, <2>2 DEF QbreadTake, Unlock, Goto, Places, Parted
    <3>2. split' # <<>>
      <4>1. /\ split' = SubSeq(Head(blocks), n + 1, Len(Head(blocks)))
            /\ Len(Head(blocks)) > n /\ blocks # <<>>
        BY <2>2 DEF QbreadTake, Parted
      <4>2. split' \in Block
        BY <1>0, <4>1, TakeFacts, RestFacts
      <4> QED
        BY <4>2, BlockFacts
    <3> QED
      BY <3>1, <3>2 DEF Parting
  <2>3. CASE ~Parted(Head(blocks), n)
    <3>1. pc'[r] \notin {RPut, RPutIn}
      BY <2>3 DEF QbreadTake, Unlock, Goto
    <3>2. split' = <<>> /\ dowakeup' = FALSE
      BY <2>3 DEF QbreadTake
    <3> QED
      BY <2>1, <3>1, <3>2 DEF Parting
  <2> QED
    BY <2>2, <2>3
<1>5. Flagged'
  BY <1>0 DEF Flagged, QbreadTake, Unlock, Forget, Goto
<1>6. Bounded'
  <2>1. split' \in Seq(Byte) /\ len' \in Nat
    BY <1>1, BytesFacts DEF Data
  <2>2. Len(split') \in Nat /\ Len(split') + len' <= Len(split) + len
    BY <2>1, TakenFacts
  <2>3. use' = use /\ ("closed" \in state => "closed" \in state')
    BY <1>0, Basics DEF QbreadTake, Unflow, Flagged, Places, Inside
  <2>4. \A w \in Writers : pc'[w] = pc[w]
    BY Basics DEF QbreadTake, Unlock, Goto
  <2> QED
    BY <1>0, <2>1, <2>2, <2>3, <2>4, BoundedKept
<1>7. ASSUME FlushRead = FALSE, ReadersCalled PROVE ReadersCalled'
  BY <1>0 DEF ReadersCalled, Places, QbreadTake, Unlock, Goto
<1>8. ASSUME PutBackFits, WritersCalled PROVE WritersCalled'
  <2> DEFINE b == Head(blocks)
             left == len - Len(b)
  <2>1. /\ UNCHANGED <<use, interlocked>> /\ pc[r] = RIn /\ blocks # <<>>
        /\ len' = left
    BY DEF QbreadTake
  <2>2. split = <<>> /\ dowakeup = FALSE
    BY <1>0, <2>1 DEF Parting, Places
  <2>3. /\ Len(split) = 0 /\ len \in Nat /\ left \in Nat /\ left < len
        /\ Limit \div 2 \in Nat /\ Limit \div 2 <= Limit /\ Limit \in Nat
        /\ MaxBlock \in Nat
    BY <1>0, <2>1, <2>2, TakeFacts, Basics
  <2>4. Len(split') \in Nat /\ Len(split') < MaxBlock
    BY <1>1 DEF Data
  <2>5. Len(split') + left <= len
    <3>1. split' \in Seq(Byte)
      BY <1>1 DEF Data
    <3>2. Len(split') + len' <= Len(split) + len
      BY <3>1, TakenFacts
    <3> QED
      BY <2>1, <2>3, <3>2
  <2>6. Whole => Base(r) = state
    BY <1>0, <2>1, Basics DEF Flagged, Places, Inside
  <2>7. \A w \in Writers : pc'[w] = pc[w]
    BY Basics DEF QbreadTake, Unlock, Goto
  <2>8. \A q \in CallsW : q \in CallsW'
    BY <2>2 DEF QbreadTake, Unlock, Goto, CallsW
  <2>12. CASE use = "input"
    BY <1>0, <2>1, <2>7, <2>12 DEF UsedSo, WritersCalled
  <2>11. Len(split') = 0 \/ BlocksFit \/ use = "input"
    <3>1. use # "output"
      BY <1>0, <2>1 DEF UsedSo
    <3>2. ASSUME msg = TRUE PROVE split' = <<>>
      BY <3>2 DEF QbreadTake, Parted
    <3>3. use = "pipe" \/ use = "input"
      BY <1>0, <3>1 DEF Data, Uses
    <3>4. msg \in BOOLEAN /\ Len(<<>>) = 0
      BY <1>0 DEF Data
    <3> QED
      BY <1>8, <3>2, <3>3, <3>4 DEF PutBackFits
  <2>9. CASE use # "input" /\ Restart(r, left)
    <3>1. r \in CallsW'
      BY <1>0, <2>9, Basics DEF QbreadTake, Unlock, Goto, Places, CallsW
    <3>2. CallsW' # {}
      BY <3>1
    <3>3. Room'
      <4> HIDE DEF b, left
      <4>1. left < Limit \div 2
        BY <2>9 DEF Restart
      <4>2. Len(split') + left < Limit
        BY <2>3, <2>4, <2>9, <2>11, <4>1 DEF BlocksFit
      <4> QED
        BY <2>1, <4>2 DEF Room
    <3> QED
      BY <1>8, <2>1, <2>7, <3>2, <3>3, WritersKept
  <2>10. CASE ~Restart(r, left)
    <3>1. state' = state
      BY <2>10 DEF QbreadTake, Unflow
    <3>2. Room => Room'
      <4> HIDE DEF b, left
      <4> QED
        BY <2>1, <2>3, <2>5, <3>1 DEF Room
    <3>3. Whole /\ "flow" \in state => len' >= Limit \div 2
      <4> HIDE DEF b, left
      <4> QED
        BY <2>1, <2>3, <2>6, <2>10 DEF Restart
    <3>4. CallsW # {} => CallsW' # {}
      BY <2>8
    <3> QED
      BY <1>8, <2>1, <2>7, <3>1, <3>2, <3>3, <3>4, WritersKept
  <2> QED
    BY <2>9, <2>10, <2>12
<1> QED
  BY <1>1, <1>2, <1>3, <1>4, <1>5, <1>6, <1>7, <1>8 DEF IInv, Kept

LEMMA QbreadPutStep ==
  ASSUME IInv, NEW r \in Readers, QbreadPut(r)
  PROVE  Kept
<1> USE DEF fixed, buffer, locks, sleepers, reading
<1>0. Data /\ Places /\ UsedSo /\ Parting /\ Flagged /\ Bounded
  BY DEF IInv
<1>1. Data'
  <2>1. pc[r] = RPutIn /\ blocks' = <<split>> \o blocks
    BY DEF QbreadPut
  <2>2. split \in Block
    <3>1. split # <<>> /\ split \in Seq(Byte) /\ Len(split) < MaxBlock
      BY <1>0, <2>1 DEF Parting, Data
    <3>2. Len(split) \in 1 .. MaxBlock
      BY <3>1, Basics
    <3> QED
      BY <3>1, <3>2, BlockFacts
  <2>3. blocks \in Seq(Block) /\ len = Bytes(blocks)
    BY <1>0 DEF Data
  <2>4. blocks' \in Seq(Block) /\ Bytes(blocks') = len + Len(split)
    BY <2>1, <2>2, <2>3, BytesFacts
  <2>5. len' = Bytes(blocks') /\ split' = <<>> /\ <<>> \in Seq(Byte)
    BY <2>4 DEF QbreadPut
  <2>6. Len(split') < MaxBlock
    BY <2>5, Basics
  <2> QED
    BY <1>0, <2>4, <2>5, <2>6, Basics DEF QbreadPut, Unlock, Forget, Data
<1>2. Places'
  BY <1>0, Basics DEF Places, PCs, ReaderPCs, Inside, QbreadPut, Unlock, Goto
<1>3. UsedSo'
  BY <1>0 DEF UsedSo, QbreadPut, Unlock, Goto
<1>4. Parting'
  BY <1>0 DEF Parting, Places, Data, QbreadPut, Unlock, Forget, Goto
<1>5. Flagged'
  BY <1>0 DEF Flagged, QbreadPut, Unlock, Forget, Goto
<1>6. Bounded'
  BY <1>0, <1>1 DEF Bounded, Data, QbreadPut, Unlock, Goto
<1>7. ASSUME FlushRead = FALSE, ReadersCalled PROVE ReadersCalled'
  BY <1>0 DEF ReadersCalled, Places, QbreadPut, Unlock, Goto
<1>8. ASSUME PutBackFits, WritersCalled PROVE WritersCalled'
  <2>1. /\ UNCHANGED <<use, interlocked, state>> /\ pc[r] = RPutIn
        /\ len' = len + Len(split) /\ split' = <<>>
    BY DEF QbreadPut
  <2>2. Len(split) \in Nat /\ len \in Nat /\ Limit \div 2 \in Nat
    BY <1>0, BytesFacts, Basics DEF Data
  <2>3. \A w \in Writers : pc'[w] = pc[w]
    BY Basics DEF QbreadPut, Unlock, Goto
  <2>4. \A q \in CallsW : q \in CallsW'
    <3>1. pc'[r] = IF dowakeup THEN RWake ELSE RDone
      BY <1>0 DEF QbreadPut, Unlock, Goto, Places
    <3>2. \A q \in Procs : q # r =>
             pc'[q] = pc[q] /\ pc[q] \notin {RPut, RPutIn}
      BY <1>0 DEF QbreadPut, Unlock, Goto, Places, Procs, WriterPCs, OtherPCs
    <3> QED
      BY <2>1, <3>1, <3>2 DEF CallsW
  <2>5. CallsW # {} => CallsW' # {}
    BY <2>4
  <2>6. Room => Room'
    BY <2>1, <2>2 DEF Room
  <2>7. len >= Limit \div 2 => len' >= Limit \div 2
    BY <2>1, <2>2
  <2> QED
    BY <1>8, <2>1, <2>3, <2>5, <2>6, <2>7, WritersKept
<1> QED
  BY <1>1, <1>2, <1>3, <1>4, <1>5, <1>6, <1>7, <1>8 DEF IInv, Kept

LEMMA QbreadReturnStep ==
  ASSUME IInv, NEW r \in Readers, QbreadReturn(r)
  PROVE  Kept
<1> USE DEF fixed, buffer, locks, sleepers, reading
<1>0. Data /\ Places /\ UsedSo /\ Parting /\ Flagged /\ Bounded
  BY DEF IInv
<1>1. Data'
  BY <1>0 DEF Data, QbreadReturn
<1>2. Places'
  BY <1>0, Basics DEF Places, PCs, ReaderPCs, Inside, QbreadReturn, Goto, At
<1>3. UsedSo'
  BY <1>0 DEF UsedSo, QbreadReturn, Goto, At
<1>4. Parting'
  BY <1>0 DEF Parting, QbreadReturn, Goto, At
<1>5. Flagged'
  BY <1>0 DEF Flagged, Whole, Base, QbreadReturn, Goto, At
<1>6. Bounded'
  BY <1>0 DEF Bounded, QbreadReturn, Goto, At
<1>7. ASSUME FlushRead = FALSE, ReadersCalled PROVE ReadersCalled'
  BY <1>0 DEF ReadersCalled, Places, QbreadReturn, Goto, At
<1>8. ASSUME PutBackFits, WritersCalled PROVE WritersCalled'
  BY <1>8 DEF WritersCalled, CallsW, Room, Whole, QbreadReturn, Goto, At
<1> QED
  BY <1>1, <1>2, <1>3, <1>4, <1>5, <1>6, <1>7, <1>8 DEF IInv, Kept

\* qwrite and qbwrite.
LEMMA QbwriteStartStep ==
  ASSUME IInv, NEW w \in Writers, QbwriteStart(w)
  PROVE  Kept
<1> USE DEF fixed, buffer, locks, sleepers, reading
<1>0. Data /\ Places /\ UsedSo /\ Parting /\ Flagged /\ Bounded
  BY DEF IInv
<1>1. Data'
  BY <1>0 DEF Data, QbwriteStart
<1>2. Places'
  BY <1>0, Basics DEF Places, PCs, WriterPCs, Inside, QbwriteStart, Goto, At
<1>3. UsedSo'
  BY <1>0, Basics DEF UsedSo, Uses, QbwriteStart, Goto, At
<1>4. Parting'
  BY <1>0 DEF Parting, QbwriteStart, Goto, At
<1>5. Flagged'
  BY <1>0 DEF Flagged, Whole, Base, QbwriteStart, Goto, At
<1>6. Bounded'
  BY <1>0 DEF Bounded, QbwriteStart, Goto, At
<1>7. ASSUME FlushRead = FALSE, ReadersCalled PROVE ReadersCalled'
  BY <1>7 DEF ReadersCalled, CallsR, notempty, Whole, QbwriteStart, Goto, At
<1>8. ASSUME PutBackFits, WritersCalled PROVE WritersCalled'
  BY <1>8 DEF WritersCalled, CallsW, Room, Whole, QbwriteStart, Goto, At
<1> QED
  BY <1>1, <1>2, <1>3, <1>4, <1>5, <1>6, <1>7, <1>8 DEF IInv, Kept

LEMMA QbwriteTestStep ==
  ASSUME IInv, NEW w \in Writers, QbwriteTest(w)
  PROVE  Kept
<1> USE DEF fixed, buffer, locks, sleepers, reading
<1>0. Data /\ Places /\ UsedSo /\ Parting /\ Flagged /\ Bounded
  BY DEF IInv
<1>1. Data'
  BY <1>0, BytesFacts, HeadFacts, RestFacts, FreshFacts, BlockFacts DEF Data,
    QbwriteTest, Load, Goto, At, Base, Flags
<1>2. Places'
  BY <1>0, Basics DEF Places, PCs, WriterPCs, Inside, QbwriteTest, Goto, At
<1>3. UsedSo'
  BY <1>0, Basics DEF UsedSo, Places, QbwriteTest, Goto, At
<1>4. Parting'
  BY <1>0, Basics DEF Parting, Places, QbwriteTest, Goto, At
<1>5. Flagged'
  <2>1. UNCHANGED <<state, l, use, interlocked>>
    BY DEF QbwriteTest
  <2>2. l # Nobody => Base(l)' = Base(l)
    <3>1. l # w
      BY <1>0 DEF QbwriteTest, At, Places, Inside
    <3>2. seen' = seen \/ Load(w)
      BY DEF QbwriteTest
    <3> QED
      BY <1>0, <2>1, <3>1, <3>2 DEF Load, Base, Data, Places
  <2>3. ASSUME NEW q \in Writers, pc'[q] = WFlow PROVE "closed" \notin seen'[q]
    BY <1>0, <2>3, Basics DEF QbwriteTest, At, Goto, Load, qnotfull, Data,
                              Places
  <2> QED
    BY <1>0, <2>1, <2>2, <2>3 DEF Flagged, Whole
<1>6. Bounded'
  <2>1. UNCHANGED <<use, state, split, len>>
    BY DEF QbwriteTest
  <2>2. Len(split) \in Nat /\ len \in Nat /\ Limit \in Nat /\ MaxBlock \in Nat
    BY <1>0, BytesFacts, Basics DEF Data
  <2>3. ASSUME pc'[w] = WLock
        PROVE  "closed" \in state \/ Len(split) + len <= Limit + MaxBlock - 2
    <3>1. "closed" \in state \/ len < Limit
      BY <1>0, <2>3 DEF QbwriteTest, At, Goto, Places, qnotfull
    <3>2. Len(split) < MaxBlock
      BY <1>0 DEF Data
    <3> QED
      BY <2>2, <3>1, <3>2
  <2>4. pc'[w] # WIn /\ \A q \in Writers : q # w => pc'[q] = pc[q]
    BY <1>0, Basics DEF QbwriteTest, At, Goto, Places
  <2> QED
    BY <1>0, <2>1, <2>3, <2>4 DEF Bounded
<1>7. ASSUME FlushRead = FALSE, ReadersCalled PROVE ReadersCalled'
  BY <1>0, <1>7, Basics DEF ReadersCalled, CallsR, notempty, Places, Whole,
                            QbwriteTest, Goto, At
<1>8. ASSUME PutBackFits, WritersCalled PROVE WritersCalled'
  BY <1>0, Basics DEF WritersCalled, Places, QbwriteTest, Goto, At
<1> QED
  BY <1>1, <1>2, <1>3, <1>4, <1>5, <1>6, <1>7, <1>8 DEF IInv, Kept

LEMMA QbwriteFlowStep ==
  ASSUME IInv, NEW w \in Writers, QbwriteFlow(w)
  PROVE  Kept
<1> USE DEF fixed, buffer, locks, sleepers, reading
<1>0. Data /\ Places /\ UsedSo /\ Parting /\ Flagged /\ Bounded
  BY DEF IInv
<1>1. Data'
  BY <1>0, BaseFacts, Basics DEF Data, QbwriteFlow, Forget, Flags
<1>2. Places'
  BY <1>0, Basics DEF Places, PCs, WriterPCs, Inside, QbwriteFlow, Goto, At
<1>3. UsedSo'
  BY <1>0 DEF UsedSo, QbwriteFlow, Goto, At
<1>4. Parting'
  BY <1>0 DEF Parting, QbwriteFlow, Goto, At
<1>5. Flagged'
  <2>1. w \in Procs /\ l # w /\ "closed" \notin seen[w]
    BY <1>0, Basics DEF QbwriteFlow, At, Flagged, Places, Inside
  <2>2. state' = Base(w) \cup {"flow"} /\ UNCHANGED <<l, use, interlocked>>
    BY DEF QbwriteFlow
  <2>3. \A q \in Writers : pc'[q] = WFlow => "closed" \notin seen'[q]
    BY <1>0, Basics DEF QbwriteFlow, At, Goto, Places
  <2>4. CASE interlocked
    <3>1. Base(l)' = state' /\ state' = state \cup {"flow"}
      BY <2>2, <2>4 DEF Base
    <3> QED
      BY <2>3, <3>1 DEF Flagged
  <2>5. CASE ~interlocked
    <3>1. Base(w) = seen[w] /\ "closed" \notin state' /\ use # "input"
      BY <1>0, <2>1, <2>5 DEF Base, QbwriteFlow, At, UsedSo
    <3> QED
      BY <2>2, <2>3, <2>5, <3>1 DEF Flagged, Whole
  <2> QED
    BY <2>4, <2>5
<1>6. Bounded'
  BY <1>0 DEF Bounded, Places, QbwriteFlow, Goto, At
<1>7. ASSUME FlushRead = FALSE, ReadersCalled PROVE ReadersCalled'
  BY <1>0, <1>7 DEF ReadersCalled, CallsR, notempty, Base, UsedSo, Whole,
                    QbwriteFlow, Goto, At
<1>8. ASSUME PutBackFits, WritersCalled PROVE WritersCalled'
  BY <1>0 DEF WritersCalled, Places, QbwriteFlow, Goto, At
<1> QED
  BY <1>1, <1>2, <1>3, <1>4, <1>5, <1>6, <1>7, <1>8 DEF IInv, Kept

LEMMA QbwriteSleepStep ==
  ASSUME IInv, NEW w \in Writers, QbwriteSleep(w)
  PROVE  Kept
<1> USE DEF fixed, buffer, locks, sleepers, reading
<1>0. Data /\ Places /\ UsedSo /\ Parting /\ Flagged /\ Bounded
  BY DEF IInv
<1>1. Data'
  BY <1>0 DEF Data, QbwriteSleep
<1>2. Places'
  BY <1>0, Basics DEF Places, PCs, WriterPCs, Inside, QbwriteSleep, Goto, At
<1>3. UsedSo'
  BY <1>0 DEF UsedSo, QbwriteSleep, Goto, At
<1>4. Parting'
  BY <1>0 DEF Parting, QbwriteSleep, Goto, At
<1>5. Flagged'
  BY <1>0 DEF Flagged, Whole, Base, QbwriteSleep, Goto, At
<1>6. Bounded'
  BY <1>0 DEF Bounded, QbwriteSleep, Goto, At
<1>7. ASSUME FlushRead = FALSE, ReadersCalled PROVE ReadersCalled'
  BY <1>7 DEF ReadersCalled, CallsR, notempty, Whole, QbwriteSleep, Goto, At
<1>8. ASSUME PutBackFits, WritersCalled PROVE WritersCalled'
  <2>1. /\ UNCHANGED <<use, interlocked, state, len, split, dowakeup>>
        /\ pc[w] = WSleep
    BY DEF QbwriteSleep, At
  <2>2. \A q \in CallsW : q \in CallsW'
    BY DEF QbwriteSleep, At, Goto, CallsW
  <2>3. ASSUME Whole, pc'[w] = WWait
        PROVE  /\ "flow" \in state /\ "closed" \notin state
               /\ len >= Limit \div 2
    <3>1. ~qnotfull
      BY <2>3 DEF QbwriteSleep, At, Goto
    <3>2. Len(split) \in Nat /\ len \in Nat
      BY <1>0, BytesFacts DEF Data
    <3>3. ~Room
      BY <3>1, <3>2, Basics DEF qnotfull, Room
    <3>4. "flow" \in state
      BY <1>8, <2>1, <2>3, <3>3 DEF WritersCalled
    <3> QED
      BY <3>1, <3>2, <3>4, Basics DEF qnotfull
  <2>4. \A q \in Writers : q # w => pc'[q] = pc[q]
    BY DEF QbwriteSleep, At, Goto
  <2>5. (CallsW # {} => CallsW' # {}) /\ (Whole' => Whole) /\ Room' = Room
    BY <2>1, <2>2 DEF Whole, Room
  <2> HIDE DEF WSleep, WWait
  <2> QED
    BY <1>8, <2>1, <2>3, <2>4, <2>5 DEF WritersCalled
<1> QED
  BY <1>1, <1>2, <1>3, <1>4, <1>5, <1>6, <1>7, <1>8 DEF IInv, Kept

LEMMA QbwriteClosedStep ==
  ASSUME IInv, NEW w \in Writers, QbwriteClosed(w)
  PROVE  Kept
<1> USE DEF fixed, buffer, locks, sleepers, reading
<1>0. Data /\ Places /\ UsedSo /\ Parting /\ Flagged /\ Bounded
  BY DEF IInv
<1>1. Data'
  BY <1>0, BytesFacts, HeadFacts, RestFacts, FreshFacts, BlockFacts DEF Data,
    QbwriteClosed, Unlock, Forget, Goto, Base, Flags
<1>2. Places'
  BY <1>0, Basics DEF Places, PCs, WriterPCs, Inside, QbwriteClosed, Unlock,
                      Goto
<1>3. UsedSo'
  BY <1>0 DEF UsedSo, QbwriteClosed, Unlock, Goto
<1>4. Parting'
  BY <1>0 DEF Parting, QbwriteClosed, Unlock, Goto
<1>5. Flagged'
  BY <1>0 DEF Flagged, Places, QbwriteClosed, Unlock, Goto
<1>6. Bounded'
  BY <1>0 DEF Bounded, QbwriteClosed
<1>7. ASSUME FlushRead = FALSE, ReadersCalled PROVE ReadersCalled'
  BY <1>7 DEF ReadersCalled, CallsR, notempty, Whole, QbwriteClosed, Unlock,
              Goto
<1>8. ASSUME PutBackFits, WritersCalled PROVE WritersCalled'
  BY <1>0 DEF WritersCalled, Places, QbwriteClosed, Unlock, Goto
<1> QED
  BY <1>1, <1>2, <1>3, <1>4, <1>5, <1>6, <1>7, <1>8 DEF IInv, Kept

LEMMA QbwriteAppendStep ==
  ASSUME IInv, NEW w \in Writers, NEW n \in Sizes, QbwriteAppend(w, n)
  PROVE  Kept
<1> USE DEF fixed, buffer, locks, sleepers, reading
<1>0. Data /\ Places /\ UsedSo /\ Parting /\ Flagged /\ Bounded
  BY DEF IInv
<1>1. Data'
  <2>1. Append1(n)
    BY DEF QbwriteAppend, Produce
  <2>2. blocks' \in Seq(Block) /\ blocks' # <<>> /\ len' = Bytes(blocks')
        /\ len' = len + n /\ len \in Nat
    BY <1>0, <2>1, AddFacts
  <2> QED
    BY <1>0, <2>2, BaseFacts, Basics DEF QbwriteAppend, Produce, Starved,
      Unlock, Forget, Data
<1>2. Places'
  BY <1>0, Basics DEF Places, PCs, WriterPCs, Inside, QbwriteAppend, Produce,
                      Unlock, Goto
<1>3. UsedSo'
  BY <1>0 DEF UsedSo, QbwriteAppend, Produce, Unlock, Goto
<1>4. Parting'
  BY <1>0 DEF Parting, QbwriteAppend, Produce, Unlock, Goto
<1>5. Flagged'
  BY <1>0 DEF Flagged, Places, QbwriteAppend, Produce, Unlock, Goto
<1>6. Bounded'
  <2>1. Append1(n) /\ pc[w] = WIn /\ "closed" \notin state
    BY DEF QbwriteAppend, Produce
  <2>2. len' = len + n /\ len \in Nat /\ n \in Nat /\ n <= MaxBlock
    BY <1>0, <2>1, AddFacts, Basics
  <2>3. Limit \in Nat /\ MaxBlock \in Nat /\ Len(split) \in Nat
    BY Basics
  <2>4. use # "input" /\ UNCHANGED <<use, split>>
    BY <1>0 DEF UsedSo, QbwriteAppend, Produce
  <2>5. Len(split) + len <= Limit + MaxBlock - 2
    BY <1>0, <2>1, <2>4 DEF Bounded
  <2>6. Len(split) + (len + n) <= Limit + 2 * (MaxBlock - 1)
    BY <2>2, <2>3, <2>5
  <2>7. \A q \in Writers : pc'[q] \notin {WLock, WIn}
    BY <1>0 DEF Places, QbwriteAppend, Produce, Unlock, Goto
  <2> QED
    BY <2>2, <2>4, <2>6, <2>7 DEF Bounded
<1>7. ASSUME FlushRead = FALSE, ReadersCalled PROVE ReadersCalled'
  BY <1>0, <1>7 DEF ReadersCalled, CallsR, notempty, Places, Flagged, Whole,
                    QbwriteAppend, Produce, Append1, Starved, Unlock, Forget, Goto
<1>8. ASSUME PutBackFits, WritersCalled PROVE WritersCalled'
  BY <1>0 DEF WritersCalled, Places, QbwriteAppend, Produce, Unlock, Goto
<1> QED
  BY <1>1, <1>2, <1>3, <1>4, <1>5, <1>6, <1>7, <1>8 DEF IInv, Kept

LEMMA QbwriteReturnStep ==
  ASSUME IInv, NEW w \in Writers, QbwriteReturn(w)
  PROVE  Kept
<1> USE DEF fixed, buffer, locks, sleepers, reading
<1>0. Data /\ Places /\ UsedSo /\ Parting /\ Flagged /\ Bounded
  BY DEF IInv
<1>1. Data'
  BY <1>0 DEF Data, QbwriteReturn
<1>2. Places'
  BY <1>0, Basics DEF Places, PCs, WriterPCs, Inside, QbwriteReturn, Goto, At
<1>3. UsedSo'
  BY <1>0 DEF UsedSo, QbwriteReturn, Goto, At
<1>4. Parting'
  BY <1>0 DEF Parting, QbwriteReturn, Goto, At
<1>5. Flagged'
  BY <1>0 DEF Flagged, Whole, Base, QbwriteReturn, Goto, At
<1>6. Bounded'
  BY <1>0 DEF Bounded, QbwriteReturn, Goto, At
<1>7. ASSUME FlushRead = FALSE, ReadersCalled PROVE ReadersCalled'
  BY <1>7 DEF ReadersCalled, CallsR, notempty, Whole, QbwriteReturn, Goto, At
<1>8. ASSUME PutBackFits, WritersCalled PROVE WritersCalled'
  BY <1>0 DEF WritersCalled, Places, QbwriteReturn, Goto, At
<1> QED
  BY <1>1, <1>2, <1>3, <1>4, <1>5, <1>6, <1>7, <1>8 DEF IInv, Kept

\* A kill while the process sleeps.
LEMMA InterruptStep ==
  ASSUME IInv, NEW p \in Readers \cup Writers, Interrupt(p)
  PROVE  Kept
<1> USE DEF fixed, buffer, locks, sleepers, reading
<1>0. Data /\ Places /\ UsedSo /\ Parting /\ Flagged /\ Bounded
  BY DEF IInv
<1>1. Data'
  BY <1>0, BytesFacts, HeadFacts, RestFacts, FreshFacts, BlockFacts DEF Data,
    Interrupt
<1>2. Places'
  BY <1>0, Basics DEF Places, PCs, ReaderPCs, WriterPCs, Inside, Interrupt,
                      Goto, At
<1>3. UsedSo'
  BY <1>0, Basics DEF UsedSo, Places, Uses, Interrupt, Goto, At
<1>4. Parting'
  BY <1>0, Basics DEF Parting, Places, Interrupt, Goto, At
<1>5. Flagged'
  BY <1>0, Basics DEF Flagged, Places, Whole, Base, Interrupt, Goto, At
<1>6. Bounded'
  BY <1>0, Basics DEF Bounded, Places, Interrupt, Goto, At
<1>7. ASSUME FlushRead = FALSE, ReadersCalled PROVE ReadersCalled'
  BY <1>0, <1>7, Basics DEF ReadersCalled, CallsR, notempty, Places, Whole,
                            Interrupt, Goto, At
<1>8. ASSUME PutBackFits, WritersCalled PROVE WritersCalled'
  BY <1>0, <1>8, Basics DEF WritersCalled, CallsW, Room, Places, Whole,
                            Interrupt, Goto, At
<1> QED
  BY <1>1, <1>2, <1>3, <1>4, <1>5, <1>6, <1>7, <1>8 DEF IInv, Kept

\* The devices: qproduce, qiwrite, qpass, qget and qconsume.
LEMMA QproduceStep ==
  ASSUME IInv, NEW n \in Sizes, Qproduce(n)
  PROVE  Kept
<1> USE DEF fixed, buffer, locks, sleepers, reading
<1>0. Data /\ Places /\ UsedSo /\ Parting /\ Flagged /\ Bounded
  BY DEF IInv
<1>1. Data'
  <2>1. CASE len < Limit
    <3>1. Append1(n)
      BY <2>1 DEF Qproduce, Produce
    <3>2. blocks' \in Seq(Block) /\ blocks' # <<>> /\ len' = Bytes(blocks')
          /\ len' = len + n /\ len \in Nat
      BY <1>0, <3>1, AddFacts
    <3> QED
      BY <1>0, <3>2, BaseFacts, Basics DEF Qproduce, Produce, Unlock, Forget,
        Data
  <2>2. CASE ~(len < Limit)
    BY <1>0, <2>2, BaseFacts, Basics DEF Qproduce, Unlock, Forget, Data, Flags
  <2> QED
    BY <2>1, <2>2
<1>2. Places'
  BY <1>0, Basics DEF Places, PCs, OtherPCs, Inside, Qproduce, Produce,
                      Unlock, Goto
<1>3. UsedSo'
  BY <1>0, Basics DEF UsedSo, Places, Qproduce, Produce, Unlock, Goto
<1>4. Parting'
  BY <1>0, Basics DEF Parting, Places, Qproduce, Produce, Unlock, Goto
<1>5. Flagged'
  BY <1>0, Basics DEF Flagged, Places, Data, Qproduce, Produce, Unlock,
                      Forget, Goto
<1>6. Bounded'
  BY DEF Bounded, Qproduce, Produce
<1>7. ASSUME FlushRead = FALSE, ReadersCalled PROVE ReadersCalled'
  BY <1>0, <1>7, Basics DEF ReadersCalled, CallsR, notempty, Places, Flagged,
                            Whole, Qproduce, Produce, Append1, Starved, Unlock, Goto
<1>8. ASSUME PutBackFits, WritersCalled PROVE WritersCalled'
  BY <1>0, Basics DEF WritersCalled, Places, UsedSo, Qproduce, Produce,
                      Unlock, Goto
<1> QED
  BY <1>1, <1>2, <1>3, <1>4, <1>5, <1>6, <1>7, <1>8 DEF IInv, Kept

LEMMA QiwriteStep ==
  ASSUME IInv, NEW n \in Sizes, Qiwrite(n)
  PROVE  Kept
<1> USE DEF fixed, buffer, locks, sleepers, reading
<1>0. Data /\ Places /\ UsedSo /\ Parting /\ Flagged /\ Bounded
  BY DEF IInv
<1>1. Data'
  <2>1. Append1(n)
    BY DEF Qiwrite, Produce
  <2>2. blocks' \in Seq(Block) /\ blocks' # <<>> /\ len' = Bytes(blocks')
        /\ len' = len + n /\ len \in Nat
    BY <1>0, <2>1, AddFacts
  <2> QED
    BY <1>0, <2>2, BaseFacts, Basics DEF Qiwrite, Produce, Unlock, Forget,
      Data
<1>2. Places'
  BY <1>0, Basics DEF Places, PCs, OtherPCs, Inside, Qiwrite, Produce,
                      Unlock, Goto
<1>3. UsedSo'
  BY <1>0 DEF UsedSo, Qiwrite, Produce, Unlock, Goto
<1>4. Parting'
  BY <1>0 DEF Parting, Qiwrite, Produce, Unlock, Goto
<1>5. Flagged'
  BY <1>0 DEF Flagged, Qiwrite, Produce, Unlock, Forget, Goto
<1>6. Bounded'
  BY DEF Bounded, Qiwrite, Produce
<1>7. ASSUME FlushRead = FALSE, ReadersCalled PROVE ReadersCalled'
  <2>1. UNCHANGED <<use, interlocked>> /\ pc[Device] = In /\ use = "input"
    BY DEF Qiwrite, Produce
  <2>2. Base(Device) = state
    BY <1>0, <2>1, Basics DEF Flagged, Places, Inside, Whole
  <2>3. notempty'
    <3>1. Append1(n)
      BY DEF Qiwrite, Produce
    <3> QED
      BY <1>0, <3>1, AddFacts DEF notempty
  <2>4. \A r \in Readers : pc'[r] = pc[r]
    BY Basics DEF Qiwrite, Produce, Unlock, Goto
  <2>5. \A q \in CallsR : q \in CallsR'
    BY DEF Qiwrite, Produce, Unlock, Goto, CallsR
  <2>6. "starve" \in state => Device \in CallsR'
    BY <1>0, <2>2, Basics DEF Qiwrite, Produce, Starved, Unlock, Goto,
                              Places, CallsR
  <2>7. CallsR # {} => CallsR' # {}
    BY <2>5
  <2>8. "starve" \in state => CallsR' # {}
    BY <2>6
  <2> QED
    BY <1>7, <2>1, <2>3, <2>4, <2>7, <2>8, ReadersKept
<1>8. ASSUME PutBackFits, WritersCalled PROVE WritersCalled'
  BY <1>0 DEF WritersCalled, UsedSo, Qiwrite, Produce, Unlock, Goto
<1> QED
  BY <1>1, <1>2, <1>3, <1>4, <1>5, <1>6, <1>7, <1>8 DEF IInv, Kept

LEMMA QpassStep ==
  ASSUME IInv, NEW n \in Sizes, Qpass(n)
  PROVE  Kept
<1> USE DEF fixed, buffer, locks, sleepers, reading
<1>0. Data /\ Places /\ UsedSo /\ Parting /\ Flagged /\ Bounded
  BY DEF IInv
<1>1. Data'
  <2>1. Append1(n)
    BY DEF Qpass
  <2>2. blocks' \in Seq(Block) /\ blocks' # <<>> /\ len' = Bytes(blocks')
        /\ len' = len + n /\ len \in Nat
    BY <1>0, <2>1, AddFacts
  <2> QED
    BY <1>0, <2>2, BaseFacts, Basics DEF Qpass, Unlock, Forget, Data, Flags
<1>2. Places'
  BY <1>0, Basics DEF Places, PCs, OtherPCs, Inside, Qpass, Unlock, Goto
<1>3. UsedSo'
  BY <1>0 DEF UsedSo, Qpass, Unlock, Goto
<1>4. Parting'
  BY <1>0 DEF Parting, Qpass, Unlock, Goto
<1>5. Flagged'
  BY <1>0 DEF Flagged, Qpass, Unlock, Forget, Goto
<1>6. Bounded'
  BY DEF Bounded, Qpass
<1>7. ASSUME FlushRead = FALSE, ReadersCalled PROVE ReadersCalled'
  <2>1. UNCHANGED <<use, interlocked>> /\ pc[Device] = In /\ use = "input"
    BY DEF Qpass
  <2>2. Base(Device) = state
    BY <1>0, <2>1, Basics DEF Flagged, Places, Inside, Whole
  <2>3. notempty'
    <3>1. Append1(n)
      BY DEF Qpass
    <3> QED
      BY <1>0, <3>1, AddFacts DEF notempty
  <2>4. \A r \in Readers : pc'[r] = pc[r]
    BY Basics DEF Qpass, Unlock, Goto
  <2>5. \A q \in CallsR : q \in CallsR'
    BY DEF Qpass, Unlock, Goto, CallsR
  <2>6. "starve" \in state => Device \in CallsR'
    BY <1>0, <2>2, Basics DEF Qpass, Starved, Unlock, Goto, Places, CallsR
  <2>7. CallsR # {} => CallsR' # {}
    BY <2>5
  <2>8. "starve" \in state => CallsR' # {}
    BY <2>6
  <2> QED
    BY <1>7, <2>1, <2>3, <2>4, <2>7, <2>8, ReadersKept
<1>8. ASSUME PutBackFits, WritersCalled PROVE WritersCalled'
  BY <1>0 DEF WritersCalled, UsedSo, Qpass, Unlock, Goto
<1> QED
  BY <1>1, <1>2, <1>3, <1>4, <1>5, <1>6, <1>7, <1>8 DEF IInv, Kept

LEMMA QemptyStep ==
  ASSUME IInv, Qempty
  PROVE  Kept
<1> USE DEF fixed, buffer, locks, sleepers, reading
<1>0. Data /\ Places /\ UsedSo /\ Parting /\ Flagged /\ Bounded
  BY DEF IInv
<1>1. Data'
  BY <1>0, BaseFacts, Basics DEF Data, Qempty, Unlock, Forget, Flags
<1>2. Places'
  BY <1>0, Basics DEF Places, PCs, OtherPCs, Inside, Qempty, Unlock, Goto
<1>3. UsedSo'
  BY <1>0 DEF UsedSo, Qempty, Unlock, Goto
<1>4. Parting'
  BY <1>0 DEF Parting, Qempty, Unlock, Goto
<1>5. Flagged'
  BY <1>0 DEF Flagged, Qempty, Unlock, Forget, Goto
<1>6. Bounded'
  <2>1. UNCHANGED <<use, split, len>> /\ pc[Device] = In
    BY DEF Qempty
  <2>2. Len(split) \in Nat /\ len \in Nat
    BY <1>0, BytesFacts DEF Data
  <2>3. "closed" \in state => "closed" \in state'
    BY <1>0, Basics DEF Qempty, Flagged, Places, Inside
  <2>4. \A w \in Writers : pc'[w] = pc[w]
    BY Basics DEF Qempty, Unlock, Goto
  <2> QED
    BY <1>0, <2>1, <2>2, <2>3, <2>4, BoundedKept
<1>7. ASSUME FlushRead = FALSE, ReadersCalled PROVE ReadersCalled'
  BY <1>0 DEF ReadersCalled, UsedSo, Qempty, Unlock, Goto
<1>8. ASSUME PutBackFits, WritersCalled PROVE WritersCalled'
  BY <1>8 DEF WritersCalled, CallsW, Room, Base, Whole, Qempty, Unlock, Goto
<1> QED
  BY <1>1, <1>2, <1>3, <1>4, <1>5, <1>6, <1>7, <1>8 DEF IInv, Kept

\* What qget takes, and what qconsume takes.
LEMMA QgetFacts ==
  ASSUME Data, Qget
  PROVE  /\ blocks # <<>> /\ blocks' = Tail(blocks)
         /\ len' = len - Len(Head(blocks)) /\ got' = Head(blocks)
<1>1. blocks # <<>> /\ Consume(Head(blocks), Len(Head(blocks)), Tail(blocks))
  BY DEF Qget
<1>2. Head(blocks) \in Block /\ Len(Head(blocks)) \in Sizes
  BY <1>1, TakeFacts, Basics
<1>3. Passed(Head(blocks), Len(Head(blocks))) = Head(blocks)
  BY <1>2, PassedFacts, Basics
<1> QED
  BY <1>1, <1>3 DEF Consume

LEMMA QconsumeFacts ==
  ASSUME Data, NEW n \in Sizes, Qconsume(n)
  PROVE  LET b == Head(blocks)
         IN  /\ blocks # <<>> /\ b \in Block
             /\ Len(Passed(b, n)) \in 1 .. Len(b)
             /\ Len(b) <= n => /\ blocks' = Tail(blocks)
                               /\ len' = len - Len(b) /\ got' = b
             /\ Len(b) > n =>
                   /\ blocks' = <<SubSeq(b, n + 1, Len(b))>> \o Tail(blocks)
                   /\ len' = len - n /\ got' = SubSeq(b, 1, n)
<1> DEFINE b == Head(blocks)
<1>1. /\ blocks # <<>>
      /\ Consume(b, n, IF Len(b) <= n THEN Tail(blocks)
                       ELSE <<SubSeq(b, n + 1, Len(b))>> \o Tail(blocks))
  BY DEF Qconsume
<1>2. b \in Block /\ Len(b) \in Nat /\ n \in Nat
  BY <1>1, TakeFacts, Basics
<1>3. CASE Len(b) <= n
  <2>1. ~(Len(b) > n)
    BY <1>2, <1>3
  <2>2. Passed(b, n) = b /\ Len(Passed(b, n)) \in 1 .. Len(b)
    BY <1>2, <2>1, PassedFacts
  <2> HIDE DEF b
  <2> QED
    BY <1>1, <1>2, <1>3, <2>1, <2>2 DEF Consume, b
<1>4. CASE Len(b) > n
  <2>1. /\ Passed(b, n) = SubSeq(b, 1, n) /\ Len(Passed(b, n)) = n
        /\ Len(Passed(b, n)) \in 1 .. Len(b)
    BY <1>2, <1>4, PassedFacts
  <2> HIDE DEF b
  <2> QED
    BY <1>1, <1>2, <1>4, <2>1 DEF Consume, b
<1>5. Len(b) <= n \/ Len(b) > n
  BY <1>2
<1> QED
  BY <1>3, <1>4, <1>5

LEMMA QgetStep ==
  ASSUME IInv, Qget
  PROVE  Kept
<1> USE DEF fixed, buffer, locks, sleepers, reading
<1>0. Data /\ Places /\ UsedSo /\ Parting /\ Flagged /\ Bounded
  BY DEF IInv
<1>1. Data'
  <2>1. blocks # <<>>
    BY DEF Qget
  <2>2. /\ blocks' = Tail(blocks) /\ len' = len - Len(Head(blocks))
    BY <1>0, QgetFacts
  <2>3. blocks' \in Seq(Block) /\ len' = Bytes(blocks')
    BY <1>0, <2>1, <2>2, TakeFacts
  <2> QED
    BY <1>0, <2>3, BaseFacts, Basics DEF Qget, Consume, Unflow, Unlock,
      Forget, Data
<1>2. Places'
  BY <1>0, Basics DEF Places, PCs, OtherPCs, Inside, Qget, Consume, Unlock,
                      Goto
<1>3. UsedSo'
  BY <1>0 DEF UsedSo, Qget, Consume, Unlock, Goto
<1>4. Parting'
  BY <1>0 DEF Parting, Qget, Consume, Unlock, Goto
<1>5. Flagged'
  BY <1>0 DEF Flagged, Qget, Consume, Unlock, Forget, Goto
<1>6. Bounded'
  <2>1. /\ UNCHANGED <<use, split>> /\ pc[Device] = In /\ blocks # <<>>
        /\ len' = len - Len(Head(blocks))
    BY <1>0, QgetFacts DEF Qget, Consume
  <2>2. Len(split) \in Nat /\ len \in Nat /\ len' \in Nat
    BY <1>0, <1>1, BytesFacts DEF Data
  <2>3. Len(split) + len' <= Len(split) + len
    <3> DEFINE k == Len(Head(blocks))
    <3>1. k \in Nat
      BY <1>0, <2>1, TakeFacts
    <3>2. len' = len - k
      BY <2>1
    <3> HIDE DEF k
    <3> QED
      BY <2>2, <3>1, <3>2
  <2>4. "closed" \in state => "closed" \in state'
    BY <1>0, Basics DEF Qget, Consume, Unflow, Flagged, Places, Inside
  <2>5. \A w \in Writers : pc'[w] = pc[w]
    BY <1>0, Basics DEF Qget, Consume, Unlock, Goto, Places
  <2> QED
    BY <1>0, <2>1, <2>2, <2>3, <2>4, <2>5, BoundedKept
<1>7. ASSUME FlushRead = FALSE, ReadersCalled PROVE ReadersCalled'
  BY <1>0 DEF ReadersCalled, UsedSo, Qget, Consume, Unlock, Goto
<1>8. ASSUME PutBackFits, WritersCalled PROVE WritersCalled'
  <2>1. /\ UNCHANGED <<use, interlocked, split, dowakeup>>
        /\ pc[Device] = In /\ blocks # <<>>
    BY DEF Qget, Consume
  <2>2. PICK m \in Nat : /\ m >= 0 /\ len' = len - m
                         /\ Unflow(Device, len - m)
                         /\ Restart(Device, len - m) => pc'[Device] = WakeW
    <3>1. Len(Passed(Head(blocks), Len(Head(blocks)))) \in Nat
      BY <1>0, <2>1, TakeFacts, PassedFacts, Basics
    <3> QED
      BY <1>0, <3>1, Basics DEF Qget, Consume, Unlock, Goto, Places
  <2>3. /\ Len(split) \in Nat /\ len \in Nat /\ len' \in Nat
        /\ Limit \div 2 \in Nat /\ Limit \div 2 <= Limit /\ Limit \in Nat
    BY <1>0, <1>1, BytesFacts, Basics DEF Data
  <2>4. Whole => Base(Device) = state
    BY <1>0, <2>1, Basics DEF Flagged, Places, Inside
  <2>5. \A w \in Writers : pc'[w] = pc[w]
    BY Basics DEF Qget, Consume, Unlock, Goto
  <2>6. \A q \in CallsW : q \in CallsW'
    BY DEF Qget, Consume, Unlock, Goto, CallsW
  <2>7. split = <<>>
    BY <1>0 DEF Parting, UsedSo, Qget
  <2>8. CASE Restart(Device, len - m)
    <3>1. Device \in CallsW'
      BY <2>2, <2>8, Basics DEF CallsW
    <3>2. CallsW' # {}
      BY <3>1
    <3>3. Room'
      <4>1. Len(split') = 0
        BY <2>1, <2>7
      <4> QED
        BY <2>2, <2>3, <2>8, <4>1 DEF Restart, Room
    <3> QED
      BY <1>8, <2>1, <2>5, <3>2, <3>3, WritersKept
  <2>9. CASE ~Restart(Device, len - m)
    <3>1. state' = state
      BY <2>2, <2>9 DEF Unflow
    <3>2. Room => Room'
      BY <2>1, <2>2, <2>3, <3>1 DEF Room
    <3>3. Whole /\ "flow" \in state => len' >= Limit \div 2
      BY <2>2, <2>3, <2>4, <2>9 DEF Restart
    <3>4. CallsW # {} => CallsW' # {}
      BY <2>6
    <3> QED
      BY <1>8, <2>1, <2>5, <3>1, <3>2, <3>3, <3>4, WritersKept
  <2> QED
    BY <2>8, <2>9
<1> QED
  BY <1>1, <1>2, <1>3, <1>4, <1>5, <1>6, <1>7, <1>8 DEF IInv, Kept

LEMMA QconsumeStep ==
  ASSUME IInv, NEW n \in Sizes, Qconsume(n)
  PROVE  Kept
<1> USE DEF fixed, buffer, locks, sleepers, reading
<1>0. Data /\ Places /\ UsedSo /\ Parting /\ Flagged /\ Bounded
  BY DEF IInv
<1>1. Data'
  <2>1. blocks # <<>>
    BY DEF Qconsume
  <2>2. blocks' \in Seq(Block) /\ len' = Bytes(blocks')
    <3>1. CASE Len(Head(blocks)) <= n
      <4>1. blocks' = Tail(blocks) /\ len' = len - Len(Head(blocks))
        BY <1>0, <3>1, QconsumeFacts
      <4> QED
        BY <1>0, <2>1, <4>1, TakeFacts
    <3>2. CASE ~(Len(Head(blocks)) <= n)
      <4> DEFINE rest == SubSeq(Head(blocks), n + 1, Len(Head(blocks)))
      <4>1. blocks' = <<rest>> \o Tail(blocks) /\ len' = len - n
        <5>1. Len(Head(blocks)) > n
          BY <1>0, <2>1, <3>2, TakeFacts, Basics
        <5> QED
          BY <1>0, <5>1, QconsumeFacts
      <4>2. /\ Head(blocks) \in Block /\ Tail(blocks) \in Seq(Block)
            /\ len - Len(Head(blocks)) = Bytes(Tail(blocks)) /\ len \in Nat
            /\ Len(Head(blocks)) \in 1 .. MaxBlock
        BY <1>0, <2>1, TakeFacts
      <4>3. rest \in Block /\ Len(rest) = Len(Head(blocks)) - n
        BY <3>2, <4>2, RestFacts, Basics
      <4> HIDE DEF rest
      <4>4. /\ blocks' \in Seq(Block)
            /\ Bytes(blocks') = Bytes(Tail(blocks)) + Len(rest)
        BY <4>1, <4>2, <4>3, BytesFacts
      <4>5. n \in Nat
        BY Basics
      <4> QED
        BY <4>1, <4>2, <4>3, <4>4, <4>5
    <3> QED
      BY <3>1, <3>2
  <2> QED
    BY <1>0, <2>2, BaseFacts, Basics DEF Qconsume, Consume, Unflow, Unlock,
      Forget, Data
<1>2. Places'
  BY <1>0, Basics DEF Places, PCs, ReaderPCs, OtherPCs, Inside, Qconsume,
                      Consume, Unlock, Goto
<1>3. UsedSo'
  BY <1>0, Basics DEF UsedSo, Places, Qconsume, Consume, Unlock, Goto
<1>4. Parting'
  BY <1>0, Basics DEF Parting, Places, Qconsume, Consume, Unlock, Goto
<1>5. Flagged'
  BY <1>0, Basics DEF Flagged, Places, Data, Qconsume, Consume, Unlock,
                      Forget, Goto
<1>6. Bounded'
  <2>1. UNCHANGED <<use, split>> /\ pc[Device] = In /\ blocks # <<>>
    BY DEF Qconsume, Consume
  <2>2. Len(split) \in Nat /\ len \in Nat /\ len' \in Nat
    BY <1>0, <1>1, BytesFacts DEF Data
  <2>3. Len(split) + len' <= Len(split) + len
    <3> DEFINE k == Len(Head(blocks))
    <3>1. k \in Nat /\ n \in Nat
      BY <1>0, <2>1, TakeFacts, Basics
    <3>2. k <= n \/ k > n
      BY <3>1
    <3>3. len' = len - k \/ len' = len - n
      BY <1>0, <3>2, QconsumeFacts
    <3> HIDE DEF k
    <3> QED
      BY <2>2, <3>1, <3>3
  <2>4. "closed" \in state => "closed" \in state'
    BY <1>0, Basics DEF Qconsume, Consume, Unflow, Flagged, Places, Inside
  <2>5. \A w \in Writers : pc'[w] = pc[w]
    BY <1>0, Basics DEF Qconsume, Consume, Unlock, Goto, Places
  <2> QED
    BY <1>0, <2>1, <2>2, <2>3, <2>4, <2>5, BoundedKept
<1>7. ASSUME FlushRead = FALSE, ReadersCalled PROVE ReadersCalled'
  BY <1>0, Basics DEF ReadersCalled, Places, UsedSo, Qconsume, Consume,
                      Unlock, Goto
<1>8. ASSUME PutBackFits, WritersCalled PROVE WritersCalled'
  <2>1. /\ UNCHANGED <<use, interlocked, split, dowakeup>>
        /\ pc[Device] = In /\ blocks # <<>>
    BY DEF Qconsume, Consume
  <2>2. PICK m \in Nat : /\ m >= 0 /\ len' = len - m
                         /\ Unflow(Device, len - m)
                         /\ Restart(Device, len - m) => pc'[Device] = WakeW
    <3>1. Len(Passed(Head(blocks), n)) \in Nat
      BY <1>0, QconsumeFacts
    <3> QED
      BY <1>0, <3>1, Basics DEF Qconsume, Consume, Unlock, Goto, Places
  <2>3. /\ Len(split) \in Nat /\ len \in Nat /\ len' \in Nat
        /\ Limit \div 2 \in Nat /\ Limit \div 2 <= Limit /\ Limit \in Nat
    BY <1>0, <1>1, BytesFacts, Basics DEF Data
  <2>4. Whole => Base(Device) = state
    BY <1>0, <2>1, Basics DEF Flagged, Places, Inside
  <2>5. \A w \in Writers : pc'[w] = pc[w]
    BY <1>0, Basics DEF Qconsume, Consume, Unlock, Goto, Places
  <2>6. \A q \in CallsW : q \in CallsW'
    BY <1>0 DEF Qconsume, Consume, Unlock, Goto, Places, CallsW
  <2>7. split = <<>>
    BY <1>0 DEF Parting, UsedSo, Qconsume
  <2>8. CASE Restart(Device, len - m)
    <3>1. Device \in CallsW'
      BY <2>2, <2>8, Basics DEF CallsW
    <3>2. CallsW' # {}
      BY <3>1
    <3>3. Room'
      <4>1. Len(split') = 0
        BY <2>1, <2>7
      <4> QED
        BY <2>2, <2>3, <2>8, <4>1 DEF Restart, Room
    <3> QED
      BY <1>8, <2>1, <2>5, <3>2, <3>3, WritersKept
  <2>9. CASE ~Restart(Device, len - m)
    <3>1. state' = state
      BY <2>2, <2>9 DEF Unflow
    <3>2. Room => Room'
      BY <2>1, <2>2, <2>3, <3>1 DEF Room
    <3>3. Whole /\ "flow" \in state => len' >= Limit \div 2
      BY <2>2, <2>3, <2>4, <2>9 DEF Restart
    <3>4. CallsW # {} => CallsW' # {}
      BY <2>6
    <3> QED
      BY <1>8, <2>1, <2>5, <3>1, <3>2, <3>3, <3>4, WritersKept
  <2> QED
    BY <2>8, <2>9
<1> QED
  BY <1>1, <1>2, <1>3, <1>4, <1>5, <1>6, <1>7, <1>8 DEF IInv, Kept

\* The control: qclose, qhangup, qflush, qreopen and qnoblock.
LEMMA QcloseStep ==
  ASSUME IInv, Qclose
  PROVE  Kept
<1> USE DEF fixed, buffer, locks, sleepers, reading
<1>0. Data /\ Places /\ UsedSo /\ Parting /\ Flagged /\ Bounded
  BY DEF IInv
<1>1. Data'
  BY <1>0, BaseFacts, BytesFacts, Basics DEF Data, Qclose, Unlock, Forget,
    Flags
<1>2. Places'
  BY <1>0, Basics DEF Places, PCs, OtherPCs, Inside, Qclose, Unlock, Goto
<1>3. UsedSo'
  BY <1>0 DEF UsedSo, Qclose, Unlock, Goto
<1>4. Parting'
  BY <1>0 DEF Parting, Qclose, Unlock, Goto
<1>5. Flagged'
  BY <1>0 DEF Flagged, Qclose, Unlock, Forget, Goto
<1>6. Bounded'
  BY <1>0, Basics DEF Bounded, Data, Qclose
<1>7. ASSUME FlushRead = FALSE, ReadersCalled PROVE ReadersCalled'
  BY <1>0, <1>1 DEF ReadersCalled, CallsR, notempty, Data, Places, Qclose,
                    Unlock, Forget, Goto
<1>8. ASSUME PutBackFits, WritersCalled PROVE WritersCalled'
  BY <1>0, Basics DEF WritersCalled, CallsW, Room, Places, Qclose, Unlock,
                      Goto
<1> QED
  BY <1>1, <1>2, <1>3, <1>4, <1>5, <1>6, <1>7, <1>8 DEF IInv, Kept

LEMMA QhangupStep ==
  ASSUME IInv, Qhangup
  PROVE  Kept
<1> USE DEF fixed, buffer, locks, sleepers, reading
<1>0. Data /\ Places /\ UsedSo /\ Parting /\ Flagged /\ Bounded
  BY DEF IInv
<1>1. Data'
  BY <1>0, BaseFacts, Basics DEF Data, Qhangup, Unlock, Forget, Flags
<1>2. Places'
  BY <1>0, Basics DEF Places, PCs, OtherPCs, Inside, Qhangup, Unlock, Goto
<1>3. UsedSo'
  BY <1>0 DEF UsedSo, Qhangup, Unlock, Goto
<1>4. Parting'
  BY <1>0 DEF Parting, Qhangup, Unlock, Goto
<1>5. Flagged'
  BY <1>0 DEF Flagged, Qhangup, Unlock, Forget, Goto
<1>6. Bounded'
  BY <1>0 DEF Bounded, Qhangup
<1>7. ASSUME FlushRead = FALSE, ReadersCalled PROVE ReadersCalled'
  BY <1>0, <1>1 DEF ReadersCalled, CallsR, notempty, Data, Places, Qhangup,
                    Unlock, Forget, Goto
<1>8. ASSUME PutBackFits, WritersCalled PROVE WritersCalled'
  BY <1>0, Basics DEF WritersCalled, CallsW, Room, Places, Qhangup, Unlock,
                      Goto
<1> QED
  BY <1>1, <1>2, <1>3, <1>4, <1>5, <1>6, <1>7, <1>8 DEF IInv, Kept

LEMMA QflushStep ==
  ASSUME IInv, Qflush
  PROVE  Kept
<1> USE DEF fixed, buffer, locks, sleepers, reading
<1>0. Data /\ Places /\ UsedSo /\ Parting /\ Flagged /\ Bounded
  BY DEF IInv
<1>1. Data'
  BY <1>0, BytesFacts, HeadFacts, RestFacts, FreshFacts, BlockFacts DEF Data,
    Qflush, Unlock, Forget, Goto, Base, Flags
<1>2. Places'
  BY <1>0, Basics DEF Places, PCs, OtherPCs, Inside, Qflush, Unlock, Goto
<1>3. UsedSo'
  BY <1>0 DEF UsedSo, Qflush, Unlock, Goto
<1>4. Parting'
  BY <1>0 DEF Parting, Qflush, Unlock, Goto
<1>5. Flagged'
  BY <1>0 DEF Flagged, Qflush, Unlock, Forget, Goto
<1>6. Bounded'
  BY <1>0, Basics DEF Bounded, Data, Qflush
<1>7. ASSUME FlushRead = FALSE, ReadersCalled PROVE ReadersCalled'
  BY <1>0, <1>7 DEF ReadersCalled, UsedSo, Qflush, Unlock, Goto
<1>8. ASSUME PutBackFits, WritersCalled PROVE WritersCalled'
  <2>1. /\ UNCHANGED <<use, interlocked, state, split>> /\ pc[Control] = In
        /\ len' = 0
    BY DEF Qflush
  <2>2. \A w \in Writers : pc'[w] = pc[w]
    BY Basics DEF Qflush, Unlock, Goto
  <2>3. Control \in CallsW'
    BY <1>0, Basics DEF Qflush, Unlock, Goto, Places, CallsW
  <2>4. Room => Room'
    <3>1. Len(split) \in Nat /\ len \in Nat
      BY <1>0, BytesFacts DEF Data
    <3> QED
      BY <2>1, <3>1, Basics DEF Room
  <2>5. CallsW' # {}
    BY <2>3
  <2> QED
    BY <1>8, <2>1, <2>2, <2>4, <2>5, WritersKept
<1> QED
  BY <1>1, <1>2, <1>3, <1>4, <1>5, <1>6, <1>7, <1>8 DEF IInv, Kept

LEMMA QreopenStep ==
  ASSUME IInv, Qreopen
  PROVE  Kept
<1> USE DEF fixed, buffer, locks, sleepers, reading
<1>0. Data /\ Places /\ UsedSo /\ Parting /\ Flagged /\ Bounded
  BY DEF IInv
<1>1. Data'
  BY <1>0 DEF Data, Qreopen, Flags
<1>2. Places'
  BY <1>0 DEF Places, Qreopen
<1>3. UsedSo'
  BY <1>0 DEF UsedSo, Qreopen
<1>4. Parting'
  BY <1>0 DEF Parting, Qreopen
<1>5. Flagged'
  BY <1>0 DEF Flagged, Places, Inside, Qreopen
<1>6. Bounded'
  BY <1>0, Basics DEF Bounded, Qreopen
<1>7. ASSUME FlushRead = FALSE, ReadersCalled PROVE ReadersCalled'
  BY Basics DEF ReadersCalled, Qreopen
<1>8. ASSUME PutBackFits, WritersCalled PROVE WritersCalled'
  BY Basics DEF WritersCalled, Qreopen
<1> QED
  BY <1>1, <1>2, <1>3, <1>4, <1>5, <1>6, <1>7, <1>8 DEF IInv, Kept

LEMMA QnoblockStep ==
  ASSUME IInv, Qnoblock
  PROVE  Kept
<1> USE DEF fixed, buffer, locks, sleepers, reading
<1>0. Data /\ Places /\ UsedSo /\ Parting /\ Flagged /\ Bounded
  BY DEF IInv
<1>1. Data'
  BY <1>0 DEF Data, Qnoblock
<1>2. Places'
  BY <1>0 DEF Places, Qnoblock
<1>3. UsedSo'
  BY <1>0 DEF UsedSo, Qnoblock
<1>4. Parting'
  BY <1>0 DEF Parting, Qnoblock
<1>5. Flagged'
  BY <1>0 DEF Flagged, Whole, Base, Qnoblock
<1>6. Bounded'
  BY <1>0 DEF Bounded, Qnoblock
<1>7. ASSUME FlushRead = FALSE, ReadersCalled PROVE ReadersCalled'
  BY <1>7 DEF ReadersCalled, CallsR, notempty, Whole, Qnoblock
<1>8. ASSUME PutBackFits, WritersCalled PROVE WritersCalled'
  BY <1>8 DEF WritersCalled, CallsW, Room, Whole, Qnoblock
<1> QED
  BY <1>1, <1>2, <1>3, <1>4, <1>5, <1>6, <1>7, <1>8 DEF IInv, Kept

LEMMA StutterStep ==
  ASSUME IInv, UNCHANGED vars
  PROVE  Kept
<1> USE DEF fixed, buffer, locks, sleepers, reading
<1>0. Data /\ Places /\ UsedSo /\ Parting /\ Flagged /\ Bounded
  BY DEF IInv
<1>1. Data'
  BY <1>0 DEF Data, vars
<1>2. Places'
  BY <1>0 DEF Places, vars
<1>3. UsedSo'
  BY <1>0 DEF UsedSo, vars
<1>4. Parting'
  BY <1>0 DEF Parting, vars
<1>5. Flagged'
  BY <1>0 DEF Flagged, Whole, Base, vars
<1>6. Bounded'
  BY <1>0 DEF Bounded, vars
<1>7. ASSUME FlushRead = FALSE, ReadersCalled PROVE ReadersCalled'
  BY <1>7 DEF ReadersCalled, CallsR, notempty, Whole, vars
<1>8. ASSUME PutBackFits, WritersCalled PROVE WritersCalled'
  BY <1>8 DEF WritersCalled, CallsW, Room, Whole, vars
<1> QED
  BY <1>1, <1>2, <1>3, <1>4, <1>5, <1>6, <1>7, <1>8 DEF IInv, Kept

----------------------------------------------------------------------------
(* The invariants. *)

LEMMA Initially == Init => IInv /\ ReadersCalled /\ WritersCalled
<1> SUFFICES ASSUME Init PROVE IInv /\ ReadersCalled /\ WritersCalled
  OBVIOUS
<1> USE DEF fixed, buffer, locks, sleepers, reading
<1>1. /\ blocks = <<>> /\ len = 0 /\ split = <<>> /\ dowakeup = FALSE
      /\ state = {"starve"} /\ l = Nobody /\ \A p \in Procs : pc[p] = Idle
  BY DEF Init
<1>2. Data
  <2>1. <<>> \in Seq(Block) /\ <<>> \in Seq(Byte) /\ Bytes(<<>>) = 0
    BY FlattenEmpty DEF Bytes
  <2>2. /\ blocks \in Seq(Block) /\ split \in Seq(Byte) /\ len = Bytes(blocks)
    BY <1>1, <2>1
  <2>3. Len(split) < MaxBlock
    BY <1>1, Basics
  <2>4. /\ use \in Uses /\ msg \in BOOLEAN /\ interlocked \in BOOLEAN
        /\ use = "output" => msg = FALSE
    BY DEF Init
  <2>5. seen \in [Procs -> SUBSET Flags] /\ state \subseteq Flags
    BY DEF Init, Flags
  <2>6. noblock \in BOOLEAN /\ dowakeup \in BOOLEAN
    BY DEF Init
  <2> QED
    BY <2>2, <2>3, <2>4, <2>5, <2>6 DEF Data
<1>3. Places
  BY Basics DEF Init, Places, PCs, ReaderPCs, WriterPCs, OtherPCs, Inside
<1>4. UsedSo
  BY <1>1, Basics DEF UsedSo
<1>5. Parting
  BY <1>1, Basics DEF Parting
<1>6. Flagged
  BY <1>1, Basics DEF Flagged
<1>7. Bounded
  BY <1>1, Basics DEF Bounded
<1>8. ReadersCalled /\ WritersCalled
  BY <1>1, Basics DEF ReadersCalled, WritersCalled
<1> QED
  BY <1>2, <1>3, <1>4, <1>5, <1>6, <1>7, <1>8 DEF IInv

LEMMA Inductive == IInv /\ [Next]_vars => Kept
<1> SUFFICES ASSUME IInv, [Next]_vars PROVE Kept
  OBVIOUS
<1>1. ASSUME NEW r \in Readers,
             QbreadStart(r) \/ QbreadLock(r) \/ QbreadRelock(r)
      PROVE  Kept
  <2>1. CASE QbreadStart(r)
    BY <2>1, QbreadStartStep
  <2>2. CASE QbreadLock(r)
    BY <2>2, LockStep, Basics DEF QbreadLock, Locker
  <2>3. CASE QbreadRelock(r)
    BY <2>3, LockStep, Basics DEF QbreadRelock, Locker
  <2> QED
    BY <1>1, <2>1, <2>2, <2>3
<1>2. ASSUME NEW r \in Readers, ReaderStep(r)
      PROVE  Kept
  <2>1. CASE QbreadWakeup(r)
    BY <2>1, WakeupWStep, Basics DEF QbreadWakeup, CallerW
  <2> QED
    BY <1>2, <2>1, QbreadEmptyStep, QbreadSleepStep, QbreadTakeStep,
       QbreadPutStep, QbreadReturnStep DEF ReaderStep
<1>3. ASSUME NEW w \in Writers, QbwriteStart(w) \/ QbwriteLock(w)
      PROVE  Kept
  <2>1. CASE QbwriteStart(w)
    BY <2>1, QbwriteStartStep
  <2>2. CASE QbwriteLock(w)
    BY <2>2, LockStep, Basics DEF QbwriteLock, Locker
  <2> QED
    BY <1>3, <2>1, <2>2
<1>4. ASSUME NEW w \in Writers, WriterStep(w)
      PROVE  Kept
  <2>1. CASE QbwriteWakeup(w)
    BY <2>1, WakeupRStep, Basics DEF QbwriteWakeup, CallerR
  <2> QED
    BY <1>4, <2>1, QbwriteTestStep, QbwriteFlowStep, QbwriteSleepStep,
       QbwriteClosedStep, QbwriteAppendStep, QbwriteReturnStep DEF WriterStep
<1>5. ASSUME NEW p \in Readers \cup Writers, Interrupt(p)
      PROVE  Kept
  BY <1>5, InterruptStep
<1>6. CASE DeviceLock
  BY <1>6, LockStep, Basics DEF DeviceLock, Locker
<1>7. CASE DeviceStep
  <2>1. CASE WakeupR(Device, WakeR, Idle)
    BY <2>1, WakeupRStep, Basics DEF CallerR
  <2>2. CASE WakeupW(Device, WakeW, Idle)
    BY <2>2, WakeupWStep, Basics DEF CallerW
  <2> QED
    BY <1>7, <2>1, <2>2, QproduceStep, QiwriteStep, QpassStep,
       QconsumeStep, QgetStep, QemptyStep DEF DeviceStep
<1>8. CASE ControlLock
  BY <1>8, LockStep, Basics DEF ControlLock, Locker
<1>9. CASE ControlStep
  <2>1. CASE WakeupR(Control, WakeRW, WakeW)
    BY <2>1, WakeupRStep, Basics DEF CallerR
  <2>2. CASE WakeupW(Control, WakeW, Idle)
    BY <2>2, WakeupWStep, Basics DEF CallerW
  <2> QED
    BY <1>9, <2>1, <2>2, QcloseStep, QhangupStep, QflushStep DEF ControlStep
<1>10. CASE Qreopen \/ Qnoblock
  BY <1>10, QreopenStep, QnoblockStep
<1>11. CASE UNCHANGED vars
  BY <1>11, StutterStep
<1> QED
  BY <1>1, <1>2, <1>3, <1>4, <1>5, <1>6, <1>7, <1>8, <1>9, <1>10, <1>11
  DEF Next

\* The use of a queue and its Qmsg are fixed.
LEMMA FixedKept == [Next]_vars => UNCHANGED fixed
  BY DEF Next, ReaderStep, WriterStep, DeviceStep, ControlStep, QbreadStart,
     QbreadLock, QbreadRelock, QbreadEmpty, QbreadSleep, QbreadTake, QbreadPut,
     QbreadWakeup, QbreadReturn, QbwriteStart, QbwriteTest, QbwriteFlow,
     QbwriteSleep, QbwriteLock, QbwriteClosed, QbwriteAppend, QbwriteWakeup,
     QbwriteReturn, Interrupt, DeviceLock, Qproduce, Qiwrite, Qpass, Qempty,
     Qget, Qconsume, Consume, Produce, ControlLock, Qclose, Qhangup, Qflush,
     Qreopen, Qnoblock, Lock, WakeupR, WakeupW, vars

LEMMA Invariant == Spec => []IInv
<1>1. Init => IInv
  BY Initially
<1>2. IInv /\ [Next]_vars => IInv'
  BY Inductive DEF Kept
<1> QED
  BY <1>1, <1>2, PTL DEF Spec

\* The variables of Qio keep their types: blocks are neither empty nor too
\* long, also what is left of one that has been split.
THEOREM TypeCorrect == Spec => []TypeOK
<1>1. IInv => TypeOK
  <2> SUFFICES ASSUME IInv PROVE TypeOK
    OBVIOUS
  <2>1. Data /\ Places
    BY DEF IInv
  <2>2. /\ blocks \in Seq(Seq(0 .. Ring - 1))
        /\ \A i \in DOMAIN blocks : Len(blocks[i]) \in Sizes
    <3>1. blocks \in Seq(Block) /\ blocks \in Seq(Seq(Byte))
      BY <2>1, BlockFacts DEF Data
    <3> QED
      BY <3>1 DEF Block, Byte
  <2>3. len \in Nat /\ Len(split) < MaxBlock
    BY <2>1, BytesFacts DEF Data
  <2>4. state \subseteq Flags /\ noblock \in BOOLEAN
    BY <2>1 DEF Data
  <2>5. {rlock, wlock, rr, wr, l} \subseteq Procs \cup {Nobody}
    BY <2>1, Basics DEF Places
  <2> QED
    BY <2>1, <2>2, <2>3, <2>4, <2>5 DEF TypeOK, Places
<1> QED
  BY <1>1, Invariant, PTL

\* Whatever comes between the two halves of a split, a close, a flush or a
\* consumer that takes half a block: q->len is the length of the blocks.
THEOREM LenRight == Spec => []LenExact
<1>1. IInv => LenExact
  BY DEF IInv, Data, LenExact
<1> QED
  BY <1>1, Invariant, PTL

\* Writers that test the limit without q->l overrun it by less than a block,
\* and by less than another that is being split while they look.
THEOREM BoundKept == Spec => []QueueBounded
<1>1. IInv => QueueBounded
  BY DEF IInv, Data, Bounded, QueueBounded
<1> QED
  BY <1>1, Invariant, PTL

\* On queues that are not flushed while processes read them, a reader that
\* sleeps although there is something to read, or the queue is closed, is
\* about to be called.
THEOREM ReaderCalled == ASSUME FlushRead = FALSE
                        PROVE  Spec => []StarvedReaderCalled
<1> DEFINE I == IInv /\ ReadersCalled
<1>1. Init => I
  BY Initially
<1>2. I /\ [Next]_vars => I'
  BY Inductive DEF Kept
<1>3. I => StarvedReaderCalled
  <2> SUFFICES ASSUME I, Whole, rr # Nobody, notempty PROVE CallsR # {}
    BY DEF StarvedReaderCalled
  <2>1. rr \in Readers /\ pc[rr] = RWait
    BY DEF IInv, Places
  <2> QED
    BY <2>1 DEF ReadersCalled
<1> QED
  BY <1>1, <1>2, <1>3, PTL DEF Spec

\* In queues of messages, in those a device empties and in those whose blocks
\* are no longer than half the limit and one byte, a writer that sleeps is
\* about to be called, or has its Qflow in the state of a queue that is not
\* closed and at least half full.
THEOREM WriterCalled == Spec => []FlowedWriterCalled
<1> DEFINE I == IInv /\ (PutBackFits => WritersCalled)
<1>1. Init => I
  BY Initially
<1>2. I /\ [Next]_vars => I'
  <2> SUFFICES ASSUME I, [Next]_vars PROVE I'
    OBVIOUS
  <2>1. IInv' /\ (PutBackFits /\ WritersCalled => WritersCalled')
    BY Inductive DEF Kept
  <2>2. UNCHANGED fixed
    BY FixedKept
  <2>3. PutBackFits' = PutBackFits
    BY <2>2 DEF PutBackFits, BlocksFit, fixed
  <2> QED
    BY <2>1, <2>3
<1>3. I => FlowedWriterCalled
  <2> SUFFICES ASSUME I, PutBackFits, Whole, wr # Nobody
               PROVE  \/ CallsW # {}
                      \/ /\ "flow" \in state /\ "closed" \notin state
                         /\ len >= Limit \div 2
    BY DEF FlowedWriterCalled, SleeperCalled
  <2>1. wr \in Writers /\ pc[wr] = WWait
    BY DEF IInv, Places
  <2> QED
    BY <2>1 DEF WritersCalled
<1> QED
  BY <1>1, <1>2, <1>3, PTL DEF Spec

----------------------------------------------------------------------------
(* The queue is a stream.  Its bytes are those of the block that is being  *)
(* split and those of the blocks; a unit of Content is a byte, or a block  *)
(* of a message queue.                                                     *)

Held(s, bs, m) == IF m THEN bs ELSE Units(s \o FlattenSeq(bs))

LEMMA UnitFacts ==
  ASSUME NEW s \in Seq(Byte)
  PROVE  /\ Units(s) \in Seq(Seq(Byte)) /\ Len(Units(s)) = Len(s)
         /\ \A x \in Seq(Byte) : Units(s \o x) = Units(s) \o Units(x)
<1>1. ASSUME NEW x \in Seq(Byte)
      PROVE  /\ Units(x) \in Seq(Seq(Byte)) /\ Len(Units(x)) = Len(x)
             /\ \A i \in 1 .. Len(x) : Units(x)[i] = <<x[i]>>
  <2>1. Len(x) \in Nat /\ DOMAIN x = 1 .. Len(x)
    OBVIOUS
  <2> QED
    BY <2>1 DEF Units
<1>2. ASSUME NEW x \in Seq(Byte)
      PROVE  Units(s \o x) = Units(s) \o Units(x)
  <2> DEFINE m == Len(s)
             k == Len(x)
             c == Units(s \o x)
             d == Units(s) \o Units(x)
  <2>1. m \in Nat /\ k \in Nat
    OBVIOUS
  <2>2. /\ s \o x \in Seq(Byte) /\ Len(s \o x) = m + k
        /\ \A i \in 1 .. m : (s \o x)[i] = s[i]
        /\ \A i \in m + 1 .. m + k : (s \o x)[i] = x[i - m]
    OBVIOUS
  <2>3. /\ c \in Seq(Seq(Byte)) /\ Len(c) = m + k
        /\ \A i \in 1 .. m + k : c[i] = <<(s \o x)[i]>>
    BY <1>1, <2>2
  <2>4. /\ Units(s) \in Seq(Seq(Byte)) /\ Len(Units(s)) = m
        /\ Units(x) \in Seq(Seq(Byte)) /\ Len(Units(x)) = k
        /\ \A i \in 1 .. m : Units(s)[i] = <<s[i]>>
        /\ \A i \in 1 .. k : Units(x)[i] = <<x[i]>>
    BY <1>1
  <2>5. /\ d \in Seq(Seq(Byte)) /\ Len(d) = m + k
        /\ \A i \in 1 .. m : d[i] = Units(s)[i]
        /\ \A i \in m + 1 .. m + k : d[i] = Units(x)[i - m]
    <3>1. ASSUME NEW u \in Seq(Seq(Byte)), NEW v \in Seq(Seq(Byte)),
                 Len(u) = m, Len(v) = k
          PROVE  /\ u \o v \in Seq(Seq(Byte)) /\ Len(u \o v) = m + k
                 /\ \A i \in 1 .. m : (u \o v)[i] = u[i]
                 /\ \A i \in m + 1 .. m + k : (u \o v)[i] = v[i - m]
      <4>1. /\ u \o v \in Seq(Seq(Byte)) /\ Len(u \o v) = Len(u) + Len(v)
            /\ \A i \in 1 .. Len(u) + Len(v) :
                  (u \o v)[i] = IF i <= Len(u) THEN u[i] ELSE v[i - Len(u)]
        OBVIOUS
      <4> HIDE DEF m, k
      <4> QED
        BY <3>1, <4>1
    <3> QED
      BY <2>4, <3>1
  <2> HIDE DEF m, k, c, d
  <2>6. ASSUME NEW i \in 1 .. m + k PROVE c[i] = d[i]
    <3>1. CASE i \in 1 .. m
      <4>1. c[i] = <<(s \o x)[i]>> /\ (s \o x)[i] = s[i]
        BY <2>2, <2>3, <3>1
      <4>2. d[i] = <<s[i]>>
        BY <2>4, <2>5, <3>1
      <4> QED
        BY <4>1, <4>2
    <3>2. CASE i \notin 1 .. m
      <4>1. i \in m + 1 .. m + k /\ i - m \in 1 .. k
        BY <2>1, <3>2
      <4>2. c[i] = <<(s \o x)[i]>> /\ (s \o x)[i] = x[i - m]
        BY <2>2, <2>3, <4>1
      <4>3. d[i] = <<x[i - m]>>
        BY <2>4, <2>5, <4>1
      <4> QED
        BY <4>2, <4>3
    <3> QED
      BY <3>1, <3>2
  <2> QED
    BY <2>3, <2>5, <2>6, SeqEqual DEF c, d
<1> QED
  BY <1>1, <1>2

LEMMA HeldFacts ==
  ASSUME NEW s \in Seq(Byte), NEW bs \in Seq(Block), NEW m \in BOOLEAN
  PROVE  Held(s, bs, m) \in Seq(Seq(Byte))
<1>1. bs \in Seq(Seq(Byte)) /\ FlattenSeq(bs) \in Seq(Byte)
  BY BlockFacts, BytesFacts
<1>2. s \o FlattenSeq(bs) \in Seq(Byte)
  BY <1>1
<1> QED
  BY <1>1, <1>2, UnitFacts DEF Held

LEMMA ContentIs ==
  /\ Data => Content = Held(split, blocks, msg)
  /\ Data' => Content' = Held(split', blocks', msg')
<1>1. ASSUME NEW s \in Seq(Byte), NEW bs \in Seq(Block)
      PROVE  FlattenSeq(<<s>> \o bs) = s \o FlattenSeq(bs)
  BY BlockFacts, FlattenCons
<1>2. Data => Content = Held(split, blocks, msg)
  BY <1>1 DEF Data, Content, Held, Units
<1>3. Data' => Content' = Held(split', blocks', msg')
  BY <1>1 DEF Data, Content, Held, Units
<1> QED
  BY <1>2, <1>3

\* What a reader has got, as units.
Taken(g, m) == IF ~m THEN Units(g) ELSE IF g = <<>> THEN <<>> ELSE <<g>>

LEMMA TakenNothing ==
  ASSUME NEW m \in BOOLEAN
  PROVE  Taken(<<>>, m) = <<>> /\ Units(<<>>) = <<>>
<1>1. <<>> \in Seq(Byte)
  OBVIOUS
<1>2. Units(<<>>) \in Seq(Seq(Byte)) /\ Len(Units(<<>>)) = 0
  BY <1>1, UnitFacts, EmptySeq
<1> QED
  BY <1>2 DEF Taken

\* The steps of a stream, as sequences.
LEMMA PutSequence ==
  ASSUME NEW E, NEW a \in Seq(E), NEW x \in Seq(E), x # <<>>
  PROVE  Len(a \o x) > Len(a) /\ SubSeq(a \o x, 1, Len(a)) = a
OBVIOUS

LEMMA GetSequence ==
  ASSUME NEW E, NEW a \in Seq(E), NEW x \in Seq(E), x # <<>>
  PROVE  /\ Len(x) \in 1 .. Len(x \o a)
         /\ \A i \in 1 .. Len(x) : (x \o a)[i] = x[i]
         /\ a = SubSeq(x \o a, Len(x) + 1, Len(x \o a))
OBVIOUS

LEMMA DiscardSequence ==
  ASSUME NEW E, NEW a \in Seq(E), NEW x \in Seq(E)
  PROVE  \E k \in 0 .. Len(a \o x) : a = SubSeq(a \o x, 1, k)
OBVIOUS

\* Steps of the queue that are steps of the stream.
LEMMA PutStep ==
  ASSUME NEW E, Content \in Seq(E), NEW x \in Seq(E), x # <<>>,
         Content' = Content \o x, Shut = FALSE, Shut' = FALSE,
         UNCHANGED <<Received, Emptying>>
  PROVE  Ordered!Put
  BY PutSequence DEF Ordered!Put

LEMMA GetStep ==
  ASSUME NEW E, Content' \in Seq(E), NEW x \in Seq(E), x # <<>>,
         Content = x \o Content', UNCHANGED <<Shut, Emptying>>,
         Len(Received') = Len(x),
         \A i \in 1 .. Len(x) : Ordered!Begins(Received'[i], x[i])
  PROVE  Ordered!Get
<1>1. /\ Len(x) \in 1 .. Len(Content)
      /\ \A i \in 1 .. Len(x) : Content[i] = x[i]
      /\ Content' = SubSeq(Content, Len(x) + 1, Len(Content))
  BY GetSequence
<1> HIDE DEF Content, Received, Shut, Emptying
<1> QED
  BY <1>1 DEF Ordered!Get

LEMMA DiscardStep ==
  ASSUME NEW E, Content' \in Seq(E), NEW x \in Seq(E),
         Content = Content' \o x, Emptying = TRUE, Emptying' = FALSE,
         Received' = Received, Shut => Shut'
  PROVE  Ordered!Discard
<1>1. Shut' \in BOOLEAN
  BY DEF Shut
<1>2. \E k \in 0 .. Len(Content) : Content' = SubSeq(Content, 1, k)
  BY DiscardSequence
<1> QED
  BY <1>1, <1>2 DEF Ordered!Discard

LEMMA AddsToStream ==
  ASSUME Data, Data', NEW n \in Sizes, Append1(n),
         UNCHANGED <<msg, split, got, Emptying>>, Shut = FALSE, Shut' = FALSE
  PROVE  Ordered!Put
<1> DEFINE x == Fresh(n)
           s == split \o FlattenSeq(blocks)
<1>1. /\ x \in Block /\ x \in Seq(Byte) /\ x # <<>>
      /\ blocks' = Append(blocks, x)
  BY FreshFacts, BlockFacts DEF Append1
<1>2. /\ blocks \in Seq(Block) /\ split \in Seq(Byte) /\ msg \in BOOLEAN
      /\ blocks \in Seq(Seq(Byte)) /\ FlattenSeq(blocks) \in Seq(Byte)
  BY BlockFacts, BytesFacts DEF Data
<1>3. Content = Held(split, blocks, msg) /\ Content' = Held(split, blocks', msg)
  BY ContentIs
<1>4. Content \in Seq(Seq(Byte))
  BY <1>2, <1>3, HeldFacts
<1>7. UNCHANGED <<Received, Emptying>>
  BY DEF Received
<1> HIDE DEF x
<1>5. CASE msg = TRUE
  <2>1. Content = blocks /\ Content' = Append(blocks, x)
    BY <1>1, <1>3, <1>5 DEF Held
  <2>2. <<x>> \in Seq(Seq(Byte)) /\ <<x>> # <<>>
    BY <1>1
  <2>3. Append(blocks, x) = blocks \o <<x>>
    OBVIOUS
  <2> QED
    BY <1>4, <1>7, <2>1, <2>2, <2>3, PutStep
<1>6. CASE msg = FALSE
  <2>1. s \in Seq(Byte)
    BY <1>2
  <2>2. FlattenSeq(blocks') = FlattenSeq(blocks) \o x
    BY <1>1, <1>2, BytesFacts
  <2>3. split \o FlattenSeq(blocks') = s \o x
    BY <2>2
  <2>4. Content = Units(s) /\ Content' = Units(s \o x)
    BY <1>3, <1>6, <2>3 DEF Held
  <2> HIDE DEF s
  <2>5. Content' = Content \o Units(x) /\ Units(x) \in Seq(Seq(Byte))
    BY <1>1, <2>1, <2>4, UnitFacts
  <2>6. Units(x) # <<>>
    BY <1>1, UnitFacts
  <2> QED
    BY <1>4, <1>7, <2>5, <2>6, PutStep
<1> QED
  BY <1>2, <1>5, <1>6

\* What qbread, qget or qconsume takes out of the queue is what it returns, or
\* the message of which it returns the beginning.
LEMMA TakesFromStream ==
  ASSUME Data, Data', blocks # <<>>, split = <<>>,
         UNCHANGED <<msg, Shut, Emptying>>, got' \in Block,
         msg = TRUE => /\ blocks' = Tail(blocks)
                       /\ Len(got') \in 1 .. Len(Head(blocks))
                       /\ got' = SubSeq(Head(blocks), 1, Len(got')),
         msg = FALSE =>
            FlattenSeq(blocks) = got' \o (split' \o FlattenSeq(blocks'))
  PROVE  Ordered!Get
<1>1. /\ blocks \in Seq(Block) /\ split \in Seq(Byte) /\ msg \in BOOLEAN
      /\ FlattenSeq(blocks) \in Seq(Byte)
  BY BytesFacts DEF Data
<1>2. /\ blocks' \in Seq(Block) /\ split' \in Seq(Byte)
      /\ FlattenSeq(blocks') \in Seq(Byte)
  BY BytesFacts DEF Data
<1>3. /\ Content = Held(split, blocks, msg)
      /\ Content' = Held(split', blocks', msg)
  BY ContentIs
<1>4. Content' \in Seq(Seq(Byte))
  BY <1>1, <1>2, <1>3, HeldFacts
<1>7. got' \in Seq(Byte) /\ got' # <<>> /\ Len(got') \in Nat
  BY BlockFacts
<1>5. CASE msg = TRUE
  <2> DEFINE x == <<Head(blocks)>>
  <2>1. Content = blocks /\ Content' = Tail(blocks)
    BY <1>3, <1>5 DEF Held
  <2>2. /\ x \in Seq(Seq(Byte)) /\ x # <<>> /\ Len(x) = 1
        /\ x[1] = Head(blocks) /\ blocks = x \o Tail(blocks)
    BY <1>1, BlockFacts
  <2>3. Received' = <<got'>>
    BY <1>5, <1>7 DEF Received
  <2>4. Ordered!Begins(got', Head(blocks))
    BY <1>5 DEF Ordered!Begins
  <2>5. Len(Received') = 1 /\ Received'[1] = got'
    BY <2>3
  <2> HIDE DEF x
  <2>6. \A i \in 1 .. Len(x) : Ordered!Begins(Received'[i], x[i])
    BY <2>2, <2>4, <2>5
  <2> QED
    BY <1>4, <2>1, <2>2, <2>5, <2>6, GetStep
<1>6. CASE msg = FALSE
  <2> DEFINE x == Units(got')
             a == split' \o FlattenSeq(blocks')
  <2>1. a \in Seq(Byte)
    BY <1>2
  <2>2. Content = Units(got' \o a) /\ Content' = Units(a)
    <3>1. /\ Content = Units(split \o FlattenSeq(blocks))
          /\ Content' = Units(a)
      BY <1>3, <1>6 DEF Held
    <3>2. split \o FlattenSeq(blocks) = got' \o a
      BY <1>1, <1>6
    <3> QED
      BY <3>1, <3>2, Zenon
  <2>3. Received' = x
    BY <1>6 DEF Received
  <2>4. /\ x \in Seq(Seq(Byte)) /\ Len(x) = Len(got')
        /\ \A i \in 1 .. Len(got') : x[i] = <<got'[i]>>
    <3>1. DOMAIN got' = 1 .. Len(got')
      BY <1>7
    <3> QED
      BY <1>7, <3>1, UnitFacts DEF Units
  <2> HIDE DEF x, a
  <2>5. Content = Units(got') \o Content'
    BY <1>7, <2>1, <2>2, UnitFacts
  <2>6. x # <<>>
    BY <1>7, <2>4
  <2>7. \A b : Ordered!Begins(<<b>>, <<b>>)
    BY DEF Ordered!Begins
  <2>8. \A i \in 1 .. Len(x) : Ordered!Begins(Received'[i], x[i])
    BY <2>3, <2>4, <2>7
  <2>9. Content = x \o Content'
    BY <2>5 DEF x
  <2> QED
    BY <1>4, <2>3, <2>4, <2>6, <2>8, <2>9, GetStep
<1> QED
  BY <1>1, <1>5, <1>6

\* A close or a flush leaves what is being split.
LEMMA EmptiesStream ==
  ASSUME Data, Data', blocks' = <<>>, UNCHANGED <<msg, split, got>>,
         Emptying = TRUE, Emptying' = FALSE, Shut => Shut'
  PROVE  Ordered!Discard
<1>1. /\ blocks \in Seq(Block) /\ split \in Seq(Byte) /\ msg \in BOOLEAN
      /\ FlattenSeq(blocks) \in Seq(Byte) /\ blocks \in Seq(Seq(Byte))
  BY BytesFacts, BlockFacts DEF Data
<1>2. Content = Held(split, blocks, msg) /\ Content' = Held(split, <<>>, msg)
  BY ContentIs
<1>3. Content' \in Seq(Seq(Byte))
  BY <1>1, <1>2, EmptySeq, HeldFacts
<1>6. Received' = Received
  BY DEF Received
<1>4. CASE msg = TRUE
  <2>1. Content = blocks /\ Content' = <<>>
    BY <1>2, <1>4 DEF Held
  <2>2. Content = Content' \o blocks
    BY <1>1, <2>1
  <2> QED
    BY <1>1, <1>3, <1>6, <2>2, DiscardStep
<1>5. CASE msg = FALSE
  <2>1. split \o <<>> = split
    OBVIOUS
  <2>2. Content' = Units(split)
    BY <1>2, <1>5, <2>1, FlattenEmpty DEF Held
  <2>3. Content = Units(split \o FlattenSeq(blocks))
    BY <1>2, <1>5 DEF Held
  <2>4. /\ Content = Content' \o Units(FlattenSeq(blocks))
        /\ Units(FlattenSeq(blocks)) \in Seq(Seq(Byte))
    BY <1>1, <2>2, <2>3, UnitFacts
  <2> QED
    BY <1>3, <1>6, <2>4, DiscardStep
<1> QED
  BY <1>1, <1>4, <1>5

\* The first block, and the parts of a block.
LEMMA FirstFacts ==
  ASSUME Data, blocks # <<>>
  PROVE  /\ Head(blocks) \in Block /\ Head(blocks) \in Seq(Byte)
         /\ Head(blocks) # <<>> /\ Len(Head(blocks)) \in Nat
         /\ FlattenSeq(blocks) = Head(blocks) \o FlattenSeq(Tail(blocks))
         /\ Tail(blocks) \in Seq(Block)
         /\ FlattenSeq(Tail(blocks)) \in Seq(Byte)
<1>1. /\ Head(blocks) \in Block /\ Tail(blocks) \in Seq(Block)
      /\ FlattenSeq(blocks) = Head(blocks) \o FlattenSeq(Tail(blocks))
  BY TakeFacts
<1>2. Head(blocks) \in Seq(Byte) /\ Len(Head(blocks)) \in 1 .. MaxBlock
  BY <1>1, BlockFacts
<1>3. FlattenSeq(Tail(blocks)) \in Seq(Byte)
  BY <1>1, BytesFacts
<1> QED
  BY <1>1, <1>2, <1>3

LEMMA PartFacts ==
  ASSUME NEW b \in Block, NEW n \in Sizes, Len(b) > n
  PROVE  /\ SubSeq(b, n + 1, Len(b)) \in Block
         /\ SubSeq(b, n + 1, Len(b)) \in Seq(Byte)
         /\ SubSeq(b, 1, n) \in Seq(Byte) /\ SubSeq(b, 1, n) # <<>>
         /\ b = SubSeq(b, 1, n) \o SubSeq(b, n + 1, Len(b))
<1>1. SubSeq(b, n + 1, Len(b)) \in Block /\ SubSeq(b, 1, n) \in Block
  BY RestFacts
<1>2. SubSeq(b, n + 1, Len(b)) \in Seq(Byte) /\ SubSeq(b, 1, n) \in Seq(Byte)
  BY <1>1, BlockFacts
<1>3. SubSeq(b, 1, n) # <<>>
  <2>1. ASSUME NEW x \in Block PROVE x # <<>>
    BY BlockFacts
  <2> QED
    BY <1>1, <2>1
<1> QED
  BY <1>1, <1>2, <1>3, RestFacts

LEMMA BytesTogether ==
  \A x, y, z \in Seq(Byte) : (x \o y) \o z = x \o (y \o z)
BY ConcatAssociative

\* Where the others go is nothing to the control.
LEMMA ControlStays ==
  ASSUME Places, NEW p \in Procs, p # Control, NEW to, Goto(p, to)
  PROVE  Emptying' = Emptying
<1>1. pc'[Control] = pc[Control]
  BY Basics DEF Places, Goto
<1> QED
  BY <1>1 DEF Emptying

\* What leaves q->state's Qclosed alone, where no update is lost.
LEMMA ShutStays ==
  ASSUME UNCHANGED <<use, interlocked>>, interlocked \in BOOLEAN,
         interlocked = TRUE => ("closed" \in state' <=> "closed" \in state)
  PROVE  Shut' = Shut
  BY DEF Shut

LEMMA StreamStep ==
  IInv /\ IInv' /\ [Next]_vars =>
    [Ordered!Put \/ Ordered!Get \/ Ordered!Leave \/ Ordered!Begin
     \/ Ordered!Discard \/ Ordered!Reopen]_(Ordered!streamVars)
<1> DEFINE Same == UNCHANGED <<Content, Shut, Received, Emptying>>
<1> SUFFICES ASSUME IInv, IInv', [Next]_vars
             PROVE  \/ Ordered!Put \/ Ordered!Get \/ Ordered!Leave
                    \/ Ordered!Begin \/ Ordered!Discard \/ Ordered!Reopen
                    \/ Same
  BY DEF Ordered!streamVars
<1> USE DEF fixed, buffer, locks, sleepers, reading
<1>0. Data /\ Data' /\ Places /\ UsedSo /\ Parting /\ Flagged
  BY DEF IInv
<1>1. ASSUME UNCHANGED <<msg, blocks, split, got>>
      PROVE  UNCHANGED <<Content, Received>>
  BY <1>1 DEF Content, Received
<1>21. ASSUME NEW p \in Procs, p # Control, NEW to, Goto(p, to)
       PROVE  Emptying' = Emptying
  BY <1>0, <1>21, ControlStays
<1>22. ASSUME UNCHANGED <<msg, blocks, split>>, got' = <<>>
       PROVE  Content' = Content /\ Received' = <<>>
  <2>1. Received' = Taken(<<>>, msg')
    BY <1>22 DEF Received, Taken
  <2>2. msg' \in BOOLEAN
    BY <1>0 DEF Data
  <2> QED
    BY <1>22, <2>1, <2>2, TakenNothing DEF Content
<1>23. ASSUME UNCHANGED <<use, interlocked>>,
              interlocked = TRUE => ("closed" \in state' <=> "closed" \in state)
       PROVE  Shut' = Shut
  BY <1>0, <1>23, ShutStays DEF Data
<1>2. ASSUME NEW r \in Readers, NEW n \in Sizes, QbreadTake(r, n)
      PROVE  Ordered!Get
  <2> DEFINE b == Head(blocks)
             rest == SubSeq(b, n + 1, Len(b))
  <2>1. /\ blocks # <<>> /\ blocks' = Tail(blocks) /\ UNCHANGED fixed
        /\ pc[r] = RIn /\ got' = Passed(b, n)
    BY <1>2 DEF QbreadTake
  <2>2. split = <<>>
    BY <1>0, <2>1, Basics DEF Places, Inside, Parting
  <2>3. Shut' = Shut
    BY <1>2, <1>23 DEF QbreadTake, Unflow, Base
  <2>4. Emptying' = Emptying
    BY <1>2, <1>21, Basics DEF QbreadTake, Unlock
  <2>5. /\ b \in Block /\ b \in Seq(Byte) /\ b # <<>>
        /\ FlattenSeq(blocks) = b \o FlattenSeq(Tail(blocks))
        /\ FlattenSeq(Tail(blocks)) \in Seq(Byte)
    BY <1>0, <2>1, FirstFacts
  <2>6. /\ got' \in Block /\ Len(got') \in 1 .. Len(b)
        /\ got' = SubSeq(b, 1, Len(got'))
    BY <2>1, <2>5, PassedFacts
  <2>7. ASSUME msg = FALSE
        PROVE  FlattenSeq(blocks) = got' \o (split' \o FlattenSeq(blocks'))
    <3>1. CASE Len(b) > n
      <4> DEFINE x == SubSeq(b, 1, n)
      <4>1. split' = rest
        BY <1>2, <2>7, <3>1 DEF QbreadTake, Parted
      <4>2. /\ rest \in Seq(Byte) /\ x \in Seq(Byte) /\ b = x \o rest
            /\ got' = x
        BY <2>1, <2>5, <3>1, PartFacts, PassedFacts
      <4> HIDE DEF b, rest, x
      <4>3. FlattenSeq(blocks) = x \o (rest \o FlattenSeq(Tail(blocks)))
        <5>1. (x \o rest) \o FlattenSeq(Tail(blocks)) =
                 x \o (rest \o FlattenSeq(Tail(blocks)))
          BY <2>5, <4>2, BytesTogether, Zenon
        <5> QED
          BY <2>5, <4>2, <5>1, Zenon
      <4> QED
        BY <2>1, <4>1, <4>2, <4>3
    <3>2. CASE ~(Len(b) > n)
      <4>1. split' = <<>> /\ got' = b
        <5>1. split' = <<>>
          BY <1>2, <3>2 DEF QbreadTake, Parted
        <5>2. Passed(b, n) = b
          BY <2>5, <3>2, PassedFacts
        <5> QED
          BY <2>1, <5>1, <5>2
      <4>2. split' \o FlattenSeq(blocks') = FlattenSeq(Tail(blocks))
        BY <2>1, <2>5, <4>1
      <4> HIDE DEF b
      <4> QED
        BY <2>5, <4>1, <4>2
    <3> QED
      BY <3>1, <3>2
  <2> QED
    BY <1>0, <2>1, <2>2, <2>3, <2>4, <2>6, <2>7, TakesFromStream
<1>3. ASSUME NEW r \in Readers, QbreadPut(r)
      PROVE  Same
  <2>1. /\ pc[r] = RPutIn /\ UNCHANGED <<fixed, state, got>>
        /\ blocks' = <<split>> \o blocks /\ split' = <<>>
    BY <1>3 DEF QbreadPut
  <2>2. msg = FALSE
    BY <1>0, <2>1 DEF Parting
  <2>3. split \in Seq(Byte) /\ blocks \in Seq(Seq(Byte))
    BY <1>0, BlockFacts DEF Data
  <2>4. /\ FlattenSeq(blocks') = split \o FlattenSeq(blocks)
        /\ FlattenSeq(blocks') \in Seq(Byte)
    <3>1. FlattenSeq(<<split>> \o blocks) = split \o FlattenSeq(blocks)
      BY <2>3, FlattenCons
    <3>2. FlattenSeq(blocks) \in Seq(Byte)
      BY <1>0, BytesFacts DEF Data
    <3>3. FlattenSeq(blocks') = FlattenSeq(<<split>> \o blocks)
      BY <2>1, Zenon
    <3>4. split \o FlattenSeq(blocks) \in Seq(Byte)
      BY <2>3, <3>2
    <3> QED
      BY <3>1, <3>3, <3>4, Zenon
  <2>5. split' \o FlattenSeq(blocks') = split \o FlattenSeq(blocks)
    <3>1. <<>> \o FlattenSeq(blocks') = FlattenSeq(blocks')
      BY <2>4
    <3> QED
      BY <2>1, <2>4, <3>1, Zenon
  <2>6. Content' = Content
    BY <1>0, <2>1, <2>2, <2>5, ContentIs DEF Held
  <2>7. Received' = Received
    BY <2>1 DEF Received
  <2>8. Shut' = Shut
    BY <2>1, <1>23
  <2>9. Emptying' = Emptying
    BY <1>3, <1>21, Basics DEF QbreadPut, Unlock
  <2> QED
    BY <2>6, <2>7, <2>8, <2>9
<1>4. ASSUME NEW w \in Writers, NEW n \in Sizes, QbwriteAppend(w, n)
      PROVE  Ordered!Put
  <2>1. /\ Append1(n) /\ UNCHANGED <<msg, split, got>> /\ Shut = FALSE
    BY <1>4 DEF QbwriteAppend, Produce, Shut
  <2>2. Shut' = FALSE
    BY <1>4 DEF QbwriteAppend, Produce, Base, Shut
  <2>3. Emptying' = Emptying
    BY <1>4, <1>21, Basics DEF QbwriteAppend, Produce, Unlock
  <2> QED
    BY <1>0, <2>1, <2>2, <2>3, AddsToStream
<1>5. ASSUME use = "input", use' = use, NEW n \in Sizes, Append1(n),
             UNCHANGED <<msg, split, got>>, NEW to, Goto(Device, to)
      PROVE  Ordered!Put
  <2>1. Emptying' = Emptying
    BY <1>5, <1>21, Basics
  <2> QED
    BY <1>0, <1>5, <2>1, AddsToStream DEF Shut
<1>6. ASSUME NEW n \in Sizes, Qproduce(n) \/ Qiwrite(n) \/ Qpass(n)
      PROVE  Ordered!Put \/ Same
  <2>1. CASE Qproduce(n) /\ ~(len < Limit)
    <3>1. /\ UNCHANGED <<fixed, blocks, split, got>> /\ use = "input"
          /\ Goto(Device, Idle)
      BY <2>1 DEF Qproduce, Unlock
    <3>2. Shut' = Shut
      BY <3>1 DEF Shut
    <3>3. Emptying' = Emptying
      BY <1>21, <3>1, Basics
    <3> QED
      BY <1>1, <3>1, <3>2, <3>3
  <2>2. CASE ~(Qproduce(n) /\ ~(len < Limit))
    BY <1>5, <1>6, <2>2 DEF Qproduce, Qiwrite, Qpass, Produce, Unlock
  <2> QED
    BY <2>1, <2>2
<1>7. ASSUME NEW b, NEW m, NEW rest, Consume(b, m, rest), use = "output",
             pc[Device] = In, blocks # <<>>, got' \in Block,
             FlattenSeq(blocks) = got' \o FlattenSeq(rest)
      PROVE  Ordered!Get
  <2>1. blocks' = rest /\ UNCHANGED <<split, msg, use, interlocked>>
    BY <1>7 DEF Consume
  <2>2. msg = FALSE /\ split = <<>>
    BY <1>0, <1>7, Basics DEF Data, Parting, UsedSo, Places, Inside
  <2>3. split' \o FlattenSeq(blocks') = FlattenSeq(rest)
    <3>1. FlattenSeq(blocks') \in Seq(Byte)
      BY <1>0, BytesFacts DEF Data
    <3> QED
      BY <2>1, <2>2, <3>1
  <2>4. Shut' = Shut
    BY <1>7, <1>23, <2>1 DEF Consume, Unflow, Base
  <2>5. Emptying' = Emptying
    BY <1>7, <1>21, Basics DEF Consume, Unlock
  <2> QED
    BY <1>0, <1>7, <2>1, <2>2, <2>3, <2>4, <2>5, TakesFromStream
<1>8. ASSUME Qget
      PROVE  Ordered!Get
  <2>1. /\ Head(blocks) \in Block /\ got' = Head(blocks)
        /\ FlattenSeq(blocks) = Head(blocks) \o FlattenSeq(Tail(blocks))
    BY <1>0, <1>8, FirstFacts, QgetFacts DEF Qget
  <2> QED
    BY <1>7, <1>8, <2>1 DEF Qget
<1>9. ASSUME NEW n \in Sizes, Qconsume(n)
      PROVE  Ordered!Get
  <2> DEFINE b == Head(blocks)
             x == SubSeq(b, 1, n)
             rest == SubSeq(b, n + 1, Len(b))
  <2>1. blocks # <<>> /\ n \in Nat
    BY <1>9, Basics DEF Qconsume
  <2>2. /\ b \in Block /\ b \in Seq(Byte) /\ b # <<>> /\ Len(b) \in Nat
        /\ FlattenSeq(blocks) = b \o FlattenSeq(Tail(blocks))
        /\ Tail(blocks) \in Seq(Block)
        /\ FlattenSeq(Tail(blocks)) \in Seq(Byte)
    BY <1>0, <2>1, FirstFacts
  <2>3. CASE Len(b) <= n
    <3>1. got' = b
      BY <1>0, <1>9, <2>3, QconsumeFacts
    <3> QED
      BY <1>7, <1>9, <2>2, <2>3, <3>1 DEF Qconsume
  <2>4. CASE Len(b) > n
    <3>1. /\ rest \in Block /\ rest \in Seq(Byte)
          /\ x \in Seq(Byte) /\ x # <<>> /\ b = x \o rest /\ x \in Block
      BY <2>2, <2>4, PartFacts, RestFacts
    <3>2. Consume(b, n, <<rest>> \o Tail(blocks))
      BY <1>9, <2>1, <2>2, <2>4 DEF Qconsume
    <3>6. got' = x
      BY <1>0, <1>9, <2>4, QconsumeFacts
    <3> HIDE DEF x, rest, b
    <3>3. FlattenSeq(<<rest>> \o Tail(blocks)) =
             rest \o FlattenSeq(Tail(blocks))
      BY <2>2, <3>1, BytesFacts
    <3>4. b \o FlattenSeq(Tail(blocks)) =
             x \o (rest \o FlattenSeq(Tail(blocks)))
      <4>1. (x \o rest) \o FlattenSeq(Tail(blocks)) =
               x \o (rest \o FlattenSeq(Tail(blocks)))
        BY <2>2, <3>1, BytesTogether, Zenon
      <4> QED
        BY <3>1, <4>1, Zenon
    <3>5. FlattenSeq(blocks) = x \o FlattenSeq(<<rest>> \o Tail(blocks))
      BY <2>2, <3>3, <3>4
    <3> QED
      BY <1>7, <1>9, <3>1, <3>2, <3>5, <3>6 DEF Qconsume
  <2> QED
    BY <2>1, <2>2, <2>3, <2>4
<1>10. ASSUME Qclose \/ Qflush
       PROVE  Ordered!Discard
  <2>1. /\ blocks' = <<>> /\ UNCHANGED <<fixed, split, got>>
        /\ pc[Control] = In /\ "closed" \in state => "closed" \in state'
    BY <1>0, <1>10, Basics DEF Qclose, Qflush, Flagged, Places, Inside
  <2>2. Emptying = TRUE /\ Emptying' = FALSE
    BY <1>0, <1>10, Basics DEF Qclose, Qflush, Unlock, Goto, Places, Emptying
  <2>3. Shut => Shut'
    BY <1>10 DEF Qclose, Qflush, Base, Shut
  <2> QED
    BY <1>0, <1>10, <2>1, <2>2, <2>3, EmptiesStream DEF Qclose, Qflush
<1>24. ASSUME Qhangup
       PROVE  Ordered!Discard
  <2>1. UNCHANGED <<msg, blocks, split, got>>
    BY <1>24 DEF Qhangup
  <2>2. Emptying = TRUE /\ Emptying' = FALSE
    BY <1>0, <1>24, Basics DEF Qhangup, Unlock, Goto, Places, Emptying
  <2>3. Shut => Shut'
    BY <1>24 DEF Qhangup, Base, Shut
  <2>4. Content \in Seq(Seq(Byte)) /\ Content' = Content /\ Received' = Received
    BY <1>0, <1>1, <2>1, ContentIs, HeldFacts DEF Data
  <2>5. <<>> \in Seq(Seq(Byte)) /\ Content = Content' \o <<>>
    BY <2>4
  <2> QED
    BY <2>2, <2>3, <2>4, <2>5, DiscardStep
<1>25. ASSUME NEW p \in Procs, p # Control, NEW from, NEW to, Lock(p, from, to)
       PROVE  Same
  BY <1>1, <1>21, <1>23, <1>25 DEF Lock, At
<1>26. ASSUME NEW p \in Procs, NEW from, NEW to,
              WakeupR(p, from, to) \/ WakeupW(p, from, to),
              p = Control => from # In /\ to # In
       PROVE  Same
  <2>1. UNCHANGED <<msg, blocks, split, got>> /\ Shut' = Shut
    BY <1>23, <1>26 DEF WakeupR, WakeupW
  <2>2. rr # Control /\ wr # Control
    BY <1>0, Basics DEF Places
  <2>3. Emptying' = Emptying
    BY <1>26, <2>2, Basics DEF WakeupR, WakeupW, Wakeup, Emptying
  <2> QED
    BY <1>1, <2>1, <2>3
<1>11. ASSUME NEW r \in Readers,
              QbreadStart(r) \/ QbreadLock(r) \/ QbreadRelock(r)
       PROVE  Same
  <2>1. CASE QbreadStart(r)
    BY <1>1, <1>21, <1>23, <2>1, Basics DEF QbreadStart, At
  <2>2. CASE QbreadLock(r) \/ QbreadRelock(r)
    BY <1>25, <2>2, Basics DEF QbreadLock, QbreadRelock
  <2> QED
    BY <1>11, <2>1, <2>2
<1>12. ASSUME NEW r \in Readers, ReaderStep(r)
       PROVE  Ordered!Get \/ Ordered!Leave \/ Same
  <2>1. CASE QbreadEmpty(r)
    <3>1. /\ UNCHANGED <<fixed, blocks, split, got>>
          /\ interlocked = TRUE => ("closed" \in state' <=> "closed" \in state)
      BY <2>1 DEF QbreadEmpty, Base
    <3>2. Emptying' = Emptying
      BY <1>21, <2>1, Basics DEF QbreadEmpty, Unlock
    <3> QED
      BY <1>1, <1>23, <3>1, <3>2
  <2>2. CASE QbreadSleep(r)
    BY <1>1, <1>21, <1>23, <2>2, Basics DEF QbreadSleep, At
  <2>3. CASE QbreadWakeup(r)
    BY <1>26, <2>3, Basics DEF QbreadWakeup
  <2>4. CASE QbreadReturn(r)
    <3>1. /\ UNCHANGED <<fixed, blocks, split, state>> /\ got' = <<>>
          /\ Goto(r, Idle)
      BY <2>4 DEF QbreadReturn, At
    <3>2. UNCHANGED <<Shut, Emptying>>
      BY <1>21, <1>23, <3>1, Basics
    <3> QED
      BY <1>22, <3>1, <3>2 DEF Ordered!Leave
  <2> QED
    BY <1>2, <1>3, <1>12, <2>1, <2>2, <2>3, <2>4 DEF ReaderStep
<1>13. ASSUME NEW w \in Writers, QbwriteStart(w) \/ QbwriteLock(w)
       PROVE  Same
  <2>1. CASE QbwriteStart(w)
    BY <1>1, <1>21, <1>23, <2>1, Basics DEF QbwriteStart, At
  <2>2. CASE QbwriteLock(w)
    BY <1>25, <2>2, Basics DEF QbwriteLock
  <2> QED
    BY <1>13, <2>1, <2>2
<1>14. ASSUME NEW w \in Writers, WriterStep(w)
       PROVE  Ordered!Put \/ Same
  <2>1. CASE QbwriteTest(w) \/ QbwriteSleep(w) \/ QbwriteReturn(w)
    BY <1>1, <1>21, <1>23, <2>1, Basics
    DEF QbwriteTest, QbwriteSleep, QbwriteReturn, At
  <2>2. CASE QbwriteFlow(w)
    BY <1>1, <1>21, <1>23, <2>2, Basics DEF QbwriteFlow, At, Base
  <2>3. CASE QbwriteClosed(w)
    BY <1>1, <1>21, <1>23, <2>3, Basics DEF QbwriteClosed, Unlock
  <2>4. CASE QbwriteWakeup(w)
    BY <1>26, <2>4, Basics DEF QbwriteWakeup
  <2> QED
    BY <1>4, <1>14, <2>1, <2>2, <2>3, <2>4 DEF WriterStep
<1>15. ASSUME NEW p \in Readers \cup Writers, Interrupt(p)
       PROVE  Same
  BY <1>1, <1>15, <1>21, <1>23, Basics DEF Interrupt, At
<1>16. CASE DeviceLock
  BY <1>16, <1>25, Basics DEF DeviceLock
<1>27. CASE ControlLock
  <2>1. /\ UNCHANGED <<fixed, state, blocks, split, got>>
        /\ pc[Control] = Idle /\ Goto(Control, In)
    BY <1>27 DEF ControlLock, Lock, At
  <2>2. Emptying = FALSE /\ Emptying' = TRUE
    BY <1>0, <2>1, Basics DEF Emptying, Goto, Places
  <2>3. Shut' = Shut
    BY <1>23, <2>1
  <2> QED
    BY <1>1, <2>1, <2>2, <2>3 DEF Ordered!Begin
<1>17. CASE DeviceStep
  <2>1. CASE Qempty
    <3>1. /\ UNCHANGED <<fixed, blocks, split>> /\ got' = <<>>
          /\ interlocked = TRUE => ("closed" \in state' <=> "closed" \in state)
          /\ Goto(Device, Idle)
      BY <2>1 DEF Qempty, Unlock, Base
    <3>2. UNCHANGED <<Shut, Emptying>>
      BY <1>21, <1>23, <3>1, Basics
    <3> QED
      BY <1>22, <3>1, <3>2 DEF Ordered!Leave
  <2>2. CASE WakeupR(Device, WakeR, Idle) \/ WakeupW(Device, WakeW, Idle)
    BY <1>26, <2>2, Basics
  <2> QED
    BY <1>6, <1>8, <1>9, <1>17, <2>1, <2>2 DEF DeviceStep
<1>18. CASE ControlStep
  <2>2. CASE WakeupR(Control, WakeRW, WakeW) \/ WakeupW(Control, WakeW, Idle)
    BY <1>26, <2>2, Basics
  <2> QED
    BY <1>10, <1>18, <1>24, <2>2 DEF ControlStep
<1>19. CASE Qreopen
  <2>1. /\ UNCHANGED <<fixed, blocks, split, got, pc>>
        /\ "closed" \notin state'
    BY <1>19 DEF Qreopen
  <2>2. Shut' = FALSE /\ Shut \in BOOLEAN /\ Emptying' = Emptying
    BY <2>1 DEF Shut, Emptying
  <2> QED
    BY <1>1, <2>1, <2>2 DEF Ordered!Reopen
<1>28. CASE Qnoblock
  BY <1>1, <1>23, <1>28 DEF Qnoblock, Emptying
<1>20. CASE UNCHANGED vars
  BY <1>1, <1>20, <1>23 DEF vars, Emptying
<1> QED
  BY <1>11, <1>12, <1>13, <1>14, <1>15, <1>16, <1>17, <1>18, <1>19, <1>20,
     <1>27, <1>28
  DEF Next

\* The queue of processes and devices, with its two sections of one qbread and
\* its unlocked updates, is a stream for any processes, limit and blocks: what
\* is taken out is what the taker returns, or the message it returns the
\* beginning of, and it leaves the queue.
THEOREM QueueIsStream == Spec => ImplementsStream
<1>1. Init => Ordered!StreamInit
  <2> SUFFICES ASSUME Init
               PROVE  /\ Content = <<>> /\ Shut = FALSE
                      /\ Received = <<>> /\ Emptying = FALSE
    BY DEF Ordered!StreamInit
  <2>1. /\ blocks = <<>> /\ split = <<>> /\ got = <<>> /\ state = {"starve"}
        /\ pc[Control] = Idle
    BY Basics DEF Init
  <2>2. Data
    BY Initially DEF IInv
  <2>3. <<>> \o <<>> = <<>> /\ Units(<<>>) = <<>>
    <3>1. <<>> \o <<>> = <<>>
      OBVIOUS
    <3> QED
      BY <3>1, TakenNothing
  <2>4. Content = <<>>
    BY <2>1, <2>2, <2>3, ContentIs, FlattenEmpty DEF Held
  <2>5. Received = <<>>
    BY <2>1, <2>3 DEF Received
  <2> QED
    BY <2>1, <2>4, <2>5 DEF Shut, Emptying
<1> QED
  BY <1>1, Invariant, StreamStep, PTL DEF Spec, ImplementsStream,
    Ordered!StreamSpec
=============================================================================
