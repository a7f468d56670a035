-------------------------------- MODULE Alt --------------------------------
(***************************************************************************)
(* Channel communication of the Dis virtual machine: isend and irecv of    *)
(* interp/xec.c, alt and nbalt of interp/alt.c, and what killprog of       *)
(* emu/dis.c does to a thread that waits for a communication.              *)
(*                                                                         *)
(* One host process at a time runs the virtual machine, so an instruction  *)
(* is one step of the thread at the head of the run queue.  The two fields *)
(* of a channel that serve senders (send, sendalt) and the two that serve  *)
(* receivers (recv, recvalt) are indexed by the direction; isend and irecv *)
(* are then the same code with the directions exchanged.                   *)
(*                                                                         *)
(* The value passed is represented by the peer it comes from.  A receive   *)
(* entry of an alt is an array of channels, some of them nil; a single     *)
(* channel is an entry of one.                                             *)
(*                                                                         *)
(* A thread that waits is unlinked by way of its operands: killprog reads  *)
(* the channel variable again, altunmark the elements of the arrays.       *)
(* Another thread may have assigned to them (Assign), and then the thread  *)
(* stays linked where it waited.  Reassigned says whether threads are      *)
(* unlinked then too; the properties are about programs in which none is.  *)
(***************************************************************************)
EXTENDS Naturals, Sequences, SequencesExt, FiniteSets

CONSTANTS Progs, Chans, NoProg,
          Alts,         \* Alts[p]: the alt statements of p's program
          Shared,       \* the threads whose operands others may assign to
          Reassigned    \* whether a thread is unlinked after an operand of
                        \* its changed

NoChan == "nil"

\* The arrays among the receive entries are those whose number is in a.array.
IsAlt(a) ==
    /\ DOMAIN a = {"send", "recv", "array"}
    /\ a.send \in Seq(Chans) /\ a.recv \in Seq(Seq(Chans \cup {NoChan}))
    /\ \A k \in DOMAIN a.recv \ a.array : a.recv[k] \in {<<c>> : c \in Chans}

ASSUME AltAssumption ==
    /\ IsFiniteSet(Progs)
    /\ NoProg \notin Progs /\ NoChan \notin Chans
    /\ \A p \in Progs : \A a \in Alts[p] : IsAlt(a)
    /\ Shared \subseteq Progs /\ Reassigned \in BOOLEAN

VARIABLES queue,    \* queue[d][c]: c->send, c->recv, linked through comm
          mark,     \* mark[d][c]: c->sendalt, c->recvalt
          state,    \* p->state
          runq,     \* isched.runhd .. runtl
          chan,     \* the channel of a thread in Psend or Precv
          alt,      \* the Alt of a thread in Palt, or of its last alt
          operand,  \* what the operand of a waiting thread holds now: the
                    \* channel variable, the Alt with its arrays
          index,    \* the result of p's last alt, NoResult if used up
          last      \* the last communication of p: direction, channel, peer

vars == <<queue, mark, state, runq, chan, alt, operand, index, last>>

Dirs == {"send", "recv"}
Co(d) == IF d = "send" THEN "recv" ELSE "send"

NoAlt == [send |-> <<>>, recv |-> <<>>, array |-> {}]
NoComm == [dir |-> "none"]
NoResult == [n |-> 0, at |-> 0, chosen |-> FALSE]

Waiting == {"send", "recv", "alt"}
States == Waiting \cup {"ready", "broken", "dead"}

Init ==
    /\ queue = [d \in Dirs |-> [c \in Chans |-> <<>>]]
    /\ mark = [d \in Dirs |-> [c \in Chans |-> NoProg]]
    /\ state = [p \in Progs |-> "ready"]
    /\ runq \in {s \in [1 .. Cardinality(Progs) -> Progs] : IsInjective(s)}
    /\ chan = [p \in Progs |-> NoChan]
    /\ alt = [p \in Progs |-> NoAlt]
    /\ operand = [p \in Progs |-> NoChan]
    /\ index = [p \in Progs |-> NoResult]
    /\ last = [p \in Progs |-> NoComm]

Running(p) == runq # <<>> /\ p = Head(runq)

----------------------------------------------------------------------------
(* The helpers of alt.c *)

\* The channels the alt names in a direction.
Names(a, d) ==
    IF d = "send" THEN ToSet(a.send)
                  ELSE (UNION {ToSet(e) : e \in ToSet(a.recv)}) \ {NoChan}

\* An alternative is given as an alt returns it: the number n of the entry, the
\* sends before the receives, and in an array the number at of the element.
Result(n, at) == [n |-> n, at |-> at, chosen |-> TRUE]

Dir(a, i) == IF i.n < Len(a.send) THEN "send" ELSE "recv"
ChanOf(a, i) == IF i.n < Len(a.send) THEN a.send[i.n + 1]
                                     ELSE a.recv[i.n - Len(a.send) + 1][i.at + 1]

Alternatives(a) ==
    {Result(k - 1, 0) : k \in DOMAIN a.send}
    \cup UNION {{Result(Len(a.send) + k - 1, j - 1) : j \in DOMAIN a.recv[k]} :
                k \in DOMAIN a.recv}

(* Faulty variants, used by no specification of this module: killprog that *)
(* leaves one kind of link alone, isend and irecv that do not look for a   *)
(* partner in an alt, altdone that clears the marks of others, and one     *)
(* that does not count the sends it passes.                                *)
KillMarkNot(q) == mark
KillQueueNot(q) == queue
PartnerNoAlt(m, d, c) == queue[Co(d)][c] # <<>>
UnmarkAll(m, a, p) ==
    [d \in Dirs |-> [c \in Chans |->
        IF c \in Names(a, d) THEN NoProg ELSE m[d][c]]]
PassSendNot(r, s, d, c) ==
    IF ~r.chosen /\ d = "send" /\ s = c THEN [r EXCEPT !.chosen = TRUE] ELSE r

\* A partner for direction d waits on c: queued, or in an alt.
Partner(m, d, c) == m[Co(d)][c] # NoProg \/ queue[Co(d)][c] # <<>>

\* altrdy, altmark: the first ns sends and all receives are marked as p's,
\* over whatever mark was there.
Mark(m, a, ns, p) ==
    [d \in Dirs |-> [c \in Chans |->
        IF \/ d = "recv" /\ c \in Names(a, "recv")
           \/ d = "send" /\ c \in ToSet(SubSeq(a.send, 1, ns))
          THEN p ELSE m[d][c]]]

\* altdone, altunmark: the marks of p's alt that are still p's go away.
Unmark(m, a, p) ==
    [d \in Dirs |-> [c \in Chans |->
        IF c \in Names(a, d) /\ m[d][c] = p THEN NoProg ELSE m[d][c]]]

\* altdone passes the entries, counting them, for the first that is the channel
\* sel in the direction sr; altunmark passes an array in the same way.
PassSend(r, s, d, c) ==
    IF r.chosen THEN r
    ELSE IF d = "send" /\ s = c THEN [r EXCEPT !.chosen = TRUE]
    ELSE [r EXCEPT !.n = @ + 1]

PassRecv(r, e, d, c) ==
    IF r.chosen THEN r
    ELSE IF d = "recv" /\ c \in ToSet(e)
           THEN Result(r.n, SelectInSeq(e, LAMBDA x : x = c) - 1)
    ELSE [r EXCEPT !.n = @ + 1]

\* The result of an alt whose partner communicated on c.
AltResult(a, d, c) ==
    LET sends == FoldLeft(LAMBDA r, s : PassSend(r, s, d, c), NoResult, a.send)
    IN  FoldLeft(LAMBDA r, e : PassRecv(r, e, d, c), sends, a.recv)

\* altrdy: the alternatives that could communicate now.
Ready(a) ==
    {i \in Alternatives(a) : /\ ChanOf(a, i) # NoChan
                             /\ Partner(mark, Dir(a, i), ChanOf(a, i))}

\* altrdy: the first send on a channel from which the alt also receives.
Clashes(a) == {i \in DOMAIN a.send : a.send[i] \in Names(a, "recv")}

\* The operand by which q is unlinked is the one with which it blocked.
Unmoved(q) ==
    /\ state[q] \in Dirs => operand[q] = chan[q]
    /\ state[q] = "alt" => operand[q] = alt[q]

\* p communicates with a waiting partner on c, the marks being m: one that
\* waits in an alt is taken first.  own is p's alt, of which it performs the
\* alternative i; NoAlt and NoResult for isend and irecv.
Exchange(p, d, c, m, own, i) ==
    LET e == Co(d)
        alted == m[e][c] # NoProg
        q == IF alted THEN m[e][c] ELSE Head(queue[e][c])
        left == IF alted
                  THEN Unmark([m EXCEPT ![e][c] = NoProg], operand[q], q)
                  ELSE m
    IN  /\ alted /\ ~Reassigned => Unmoved(q)
        /\ mark' = Unmark(left, own, p)
        /\ queue' = IF alted THEN queue
                             ELSE [queue EXCEPT ![e][c] = Tail(@)]
        /\ last' = [last EXCEPT ![p] = [dir |-> d, chan |-> c, peer |-> q],
                                ![q] = [dir |-> e, chan |-> c, peer |-> p]]
        /\ state' = [state EXCEPT ![q] = "ready"]
        /\ runq' = Append(runq, q)
        /\ chan' = [chan EXCEPT ![q] = NoChan]
        /\ operand' = [operand EXCEPT ![q] = NoChan]
        /\ index' = [index EXCEPT
                ![q] = IF alted THEN AltResult(operand[q], e, c) ELSE NoResult,
                ![p] = i]

\* p blocks: delrun.
Block(p, s) ==
    /\ state' = [state EXCEPT ![p] = s]
    /\ runq' = Tail(runq)
    /\ index' = [index EXCEPT ![p] = NoResult]

----------------------------------------------------------------------------
(* isend, irecv *)

\* The instruction finds a partner, or queues p behind the others.
Communicate(p, d, c) ==
    /\ Running(p)
    /\ IF Partner(mark, d, c)
         THEN Exchange(p, d, c, mark, NoAlt, NoResult) /\ UNCHANGED alt
         ELSE /\ Block(p, d)
              /\ queue' = [queue EXCEPT ![d][c] = Append(@, p)]
              /\ chan' = [chan EXCEPT ![p] = c]
              /\ operand' = [operand EXCEPT ![p] = c]
              /\ UNCHANGED <<mark, alt, last>>

Isend(p, c) == Communicate(p, "send", c)
Irecv(p, c) == Communicate(p, "recv", c)

(* xecalt *)

\* A channel both sent to and received from: altrdy stops at the first such
\* send, unmarks and raises an error, which breaks the thread.
AltClash(p, a) ==
    /\ Running(p)
    /\ Clashes(a) # {}
    /\ LET first == CHOOSE i \in Clashes(a) : \A j \in Clashes(a) : i <= j
       IN  mark' = Unmark(Mark(mark, a, first - 1, p), a, p)
    /\ Block(p, "broken")
    /\ UNCHANGED <<queue, chan, alt, operand, last>>

\* Some alternatives are ready: altcomm performs one of them, at random.
AltComm(p, a) ==
    /\ Running(p)
    /\ Clashes(a) = {}
    /\ \E i \in Ready(a) :
         Exchange(p, Dir(a, i), ChanOf(a, i), Mark(mark, a, Len(a.send), p), a,
                  i)
    /\ alt' = [alt EXCEPT ![p] = a]

\* None is ready and alt waits.
AltBlock(p, a) ==
    /\ Running(p)
    /\ Clashes(a) = {}
    /\ Ready(a) = {}
    /\ mark' = Mark(mark, a, Len(a.send), p)
    /\ alt' = [alt EXCEPT ![p] = a]
    /\ operand' = [operand EXCEPT ![p] = a]
    /\ Block(p, "alt")
    /\ UNCHANGED <<queue, chan, last>>

\* None is ready and nbalt does not wait: it returns the number of entries.
AltNone(p, a) ==
    /\ Running(p)
    /\ Clashes(a) = {}
    /\ Ready(a) = {}
    /\ mark' = Unmark(Mark(mark, a, Len(a.send), p), a, p)
    /\ index' = [index EXCEPT ![p] = NoResult]
    /\ UNCHANGED <<queue, state, runq, chan, alt, operand, last>>

(* An instruction of p assigns to a variable through which q waits. *)

AssignVariable(q, c) ==
    /\ state[q] \in Dirs
    /\ operand' = [operand EXCEPT ![q] = c]

AssignElement(q, c) ==
    /\ state[q] = "alt"
    /\ \E k \in operand[q].array : \E j \in DOMAIN operand[q].recv[k] :
         operand' = [operand EXCEPT ![q].recv[k][j] = c]

Assign(p, q) ==
    /\ Running(p)
    /\ q \in Shared
    /\ \E c \in Chans \cup {NoChan} :
         AssignVariable(q, c) \/ AssignElement(q, c)
    /\ index' = [index EXCEPT ![p] = NoResult]
    /\ UNCHANGED <<queue, mark, state, runq, chan, alt, last>>

(* killprog, exit, spawn and the end of a quantum *)

\* What killprog does to the links of its victim q: altdone for an alt,
\* delcomm for the queue of the channel that the variable holds now (with nil
\* in it the code follows a bad pointer), delrunq for the run queue.
KillMark(q) == IF state[q] = "alt" THEN Unmark(mark, operand[q], q) ELSE mark
KillQueue(q) ==
    IF state[q] \in Dirs /\ operand[q] # NoChan
      THEN [queue EXCEPT ![state[q]][operand[q]] = RemoveFirst(@, q)]
      ELSE queue
KillRunq(q) == RemoveFirst(runq, q)

\* killprog unlinks its victim and deletes it.
Killprog(p, q) ==
    /\ Running(p)
    /\ p # q
    /\ state[q] # "dead"
    /\ ~Reassigned => Unmoved(q)
    /\ mark' = KillMark(q)
    /\ queue' = KillQueue(q)
    /\ runq' = KillRunq(q)
    /\ state' = [state EXCEPT ![q] = "dead"]
    /\ chan' = [chan EXCEPT ![q] = NoChan]
    /\ operand' = [operand EXCEPT ![q] = NoChan]
    /\ index' = [index EXCEPT ![p] = NoResult, ![q] = NoResult]
    /\ UNCHANGED <<alt, last>>

\* The running thread ends, of itself or because it killed itself.
Progexit(p) ==
    /\ Running(p)
    /\ Block(p, "dead")
    /\ UNCHANGED <<queue, mark, chan, alt, operand, last>>

\* newprog: a thread starts, in the memory of a dead one.
Newprog(p, q) ==
    /\ Running(p)
    /\ state[q] = "dead"
    /\ state' = [state EXCEPT ![q] = "ready"]
    /\ runq' = Append(runq, q)
    /\ alt' = [alt EXCEPT ![q] = NoAlt]
    /\ index' = [index EXCEPT ![p] = NoResult]
    /\ UNCHANGED <<queue, mark, chan, operand, last>>

\* vmachine moves the head of the run queue to its tail.
Quantum ==
    /\ Len(runq) > 1
    /\ runq' = Append(Tail(runq), Head(runq))
    /\ UNCHANGED <<queue, mark, state, chan, alt, operand, index, last>>

Next ==
    \/ \E p \in Progs, c \in Chans : Isend(p, c) \/ Irecv(p, c)
    \/ \E p \in Progs : \E a \in Alts[p] :
         AltClash(p, a) \/ AltComm(p, a) \/ AltBlock(p, a) \/ AltNone(p, a)
    \/ \E p, q \in Progs : Assign(p, q) \/ Killprog(p, q) \/ Newprog(p, q)
    \/ \E p \in Progs : Progexit(p)
    \/ Quantum

Spec == Init /\ [][Next]_vars

----------------------------------------------------------------------------
\* The channels of direction d that altrdy marks for a: it stops at the first
\* send on a channel from which the alt also receives.
Claims(a, d) ==
    IF d = "recv" THEN Names(a, "recv")
    ELSE {a.send[i] : i \in {j \in DOMAIN a.send :
                                 \A k \in Clashes(a) : j < k}}

\* "Single prog waiting to receive in ALT": no two threads have a direction
\* of a channel in their alts.  The code does not test it; AltFindable,
\* NoMissedPartner and ImplementsChannels are about programs of this kind.
OwnAlts ==
    \A p, r \in Progs : p # r =>
        \A a \in Alts[p], b \in Alts[r], d \in Dirs :
            Claims(a, d) \cap Claims(b, d) = {}

TypeOK ==
    /\ queue \in [Dirs -> [Chans -> Seq(Progs)]]
    /\ mark \in [Dirs -> [Chans -> Progs \cup {NoProg}]]
    /\ state \in [Progs -> States]
    /\ runq \in Seq(Progs)
    /\ chan \in [Progs -> Chans \cup {NoChan}]
    /\ \A p \in Progs : IsAlt(alt[p])

Distinct(s) == IsInjective(s)

\* The run queue holds the ready threads, each once: no communication, kill
\* or alt makes a thread ready twice or drops a ready one.
RunqExact ==
    /\ ToSet(runq) = {p \in Progs : state[p] = "ready"}
    /\ Distinct(runq)

\* A channel refers only to threads that wait for it: nothing that was
\* killed, matched elsewhere or restarted in the same memory stays linked.
NoStaleLink ==
    \A d \in Dirs, c \in Chans :
        /\ Distinct(queue[d][c])
        /\ ToSet(queue[d][c]) = {p \in Progs : state[p] = d /\ chan[p] = c}
        /\ mark[d][c] # NoProg =>
              /\ state[mark[d][c]] = "alt"
              /\ c \in Names(alt[mark[d][c]], d)

\* What a thread waits for.
Offer(p) ==
    IF state[p] \in Dirs THEN {<<state[p], chan[p]>>}
    ELSE IF state[p] = "alt"
         THEN {o \in Dirs \X Chans : o[2] \in Names(alt[p], o[1])}
    ELSE {}

\* A thread that waits in an alt can be found through every channel of the
\* alt ("Single prog waiting to receive in ALT").
AltFindable ==
    \A p \in Progs : state[p] = "alt" =>
        \A d \in Dirs : \A c \in Names(alt[p], d) : mark[d][c] = p

\* No sender and receiver wait for each other on a channel.
NoMissedPartner ==
    \A p, q \in Progs : \A o \in Offer(p) : <<Co(o[1]), o[2]>> \notin Offer(q)

\* The result of an alt, as altdone counts it for a thread that waited and
\* altcomm for one that did not, is an alternative of the alt: the one of the
\* direction and channel on which the thread communicated.
AltResultRight ==
    \A p \in Progs : index[p] # NoResult =>
        /\ index[p] \in Alternatives(alt[p])
        /\ Dir(alt[p], index[p]) = last[p].dir
        /\ ChanOf(alt[p], index[p]) = last[p].chan

Channels == INSTANCE ChanSpec WITH offer <- [p \in Progs |-> Offer(p)]

\* isend, irecv, alt, nbalt and killprog implement the matching of offers:
\* partners are paired, one to one, as soon as both offer.
ImplementsChannels == Channels!ChannelSpec
=============================================================================
