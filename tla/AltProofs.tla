----------------------------- MODULE AltProofs -----------------------------
(***************************************************************************)
(* Proofs about Alt.  For any threads, channels and alts, when no thread   *)
(* is unlinked after an operand of its changed: a channel refers only to   *)
(* threads that wait for it and the run queue holds the ready threads.     *)
(* For programs in which besides no two threads have one direction of a    *)
(* channel in their alts (OwnAlts) a waiting alt is found through every    *)
(* channel it names, no partner is missed, and the code implements         *)
(* ChanSpec.                                                               *)
(***************************************************************************)
EXTENDS Alt, QueueFacts, FiniteSetTheorems

AltType ==
    /\ queue \in [Dirs -> [Chans -> Seq(Progs)]]
    /\ mark \in [Dirs -> [Chans -> Progs \cup {NoProg}]]
    /\ state \in [Progs -> States]
    /\ runq \in Seq(Progs)
    /\ chan \in [Progs -> Chans \cup {NoChan}]
    /\ alt = [p \in Progs |-> alt[p]] /\ \A p \in Progs : IsAlt(alt[p])
    /\ last = [p \in Progs |-> last[p]]
    /\ \A p \in Progs : state[p] \in Dirs => chan[p] \in Chans

LinkInv == AltType /\ RunqExact /\ NoStaleLink

\* A thread waits in an alt of its own that altrdy accepted.
WaitsInOwn ==
    \A p \in Progs : state[p] = "alt" =>
        alt[p] \in Alts[p] /\ Clashes(alt[p]) = {}

\* r waits for a communication on x in direction f.
Offers(r, f, x) ==
    \/ state[r] = f /\ chan[r] = x
    \/ state[r] = "alt" /\ x \in Names(alt[r], f)

Unmatched ==
    \A p, r \in Progs, f \in Dirs, x \in Chans :
        ~(Offers(p, f, x) /\ Offers(r, Co(f), x))

MatchInv == WaitsInOwn /\ AltFindable /\ Unmatched

----------------------------------------------------------------------------
(* The operators of alt.c. *)

MarkType == [Dirs -> [Chans -> Progs \cup {NoProg}]]

\* altmark marks channels of the alt, and with all its sends all of them.
LEMMA MarkFacts ==
  ASSUME NEW m \in MarkType, NEW a, IsAlt(a), NEW p \in Progs,
         NEW ns \in 0 .. Len(a.send)
  PROVE  /\ Mark(m, a, ns, p) \in MarkType
         /\ \A d \in Dirs, c \in Chans :
               \/ Mark(m, a, ns, p)[d][c] = m[d][c]
               \/ Mark(m, a, ns, p)[d][c] = p /\ c \in Names(a, d)
         /\ ns = Len(a.send) =>
               \A d \in Dirs, c \in Chans :
                  Mark(m, a, ns, p)[d][c] = IF c \in Names(a, d) THEN p ELSE m[d][c]
<1>1. a.send \in Seq(Chans) /\ Len(a.send) \in Nat
  BY DEF IsAlt
<1>2. ToSet(SubSeq(a.send, 1, ns)) \subseteq Names(a, "send")
  <2> DEFINE s == a.send
             t == SubSeq(a.send, 1, ns)
  <2>1. \A i \in 1 .. ns : s[i] \in Chans /\ i \in DOMAIN s
    BY <1>1
  <2>2. /\ t \in Seq(Chans) /\ Len(t) = IF 1 <= ns THEN ns - 1 + 1 ELSE 0
        /\ \A i \in 1 .. ns - 1 + 1 : t[i] = s[1 + i - 1]
    BY <2>1, SubSeqProperties
  <2> HIDE DEF s, t
  <2>3. DOMAIN t = 1 .. ns /\ \A i \in 1 .. ns : t[i] = s[i]
    BY <2>2
  <2> QED
    BY <2>1, <2>3 DEF s, t, ToSet, Names
<1>3. ns = Len(a.send) => SubSeq(a.send, 1, ns) = a.send
  BY <1>1, SubSeqFull
<1> QED
  BY <1>2, <1>3 DEF Mark, MarkType, Dirs, Names

\* altunmark takes the marks of p off the channels of the alt.
LEMMA UnmarkFacts ==
  ASSUME NEW m \in MarkType, NEW a, NEW p
  PROVE  /\ Unmark(m, a, p) \in MarkType
         /\ \A d \in Dirs, c \in Chans :
               Unmark(m, a, p)[d][c] =
                  IF c \in Names(a, d) /\ m[d][c] = p THEN NoProg ELSE m[d][c]
BY DEF Unmark, MarkType

\* The sends of an alt.
LEMMA SendFacts ==
  ASSUME NEW a, IsAlt(a)
  PROVE  \E ns \in Nat : /\ Len(a.send) = ns /\ DOMAIN a.send = 1 .. ns
                         /\ \A k \in 1 .. ns : a.send[k] \in Chans
<1>1. PICK s : s = a.send /\ s \in Seq(Chans)
  BY DEF IsAlt
<1>2. /\ Len(s) \in Nat /\ DOMAIN s = 1 .. Len(s)
      /\ \A k \in 1 .. Len(s) : s[k] \in Chans
  BY <1>1
<1> QED
  BY <1>1, <1>2

\* An alt names channels, and accepted by altrdy none in both directions.
LEMMA NamesFacts ==
  ASSUME NEW a, IsAlt(a)
  PROVE  /\ \A d \in Dirs : Names(a, d) \subseteq Chans
         /\ Names(a, "send") = ToSet(a.send)
         /\ Clashes(a) = {} =>
               \A d \in Dirs : Names(a, d) \cap Names(a, Co(d)) = {}
<1>1. Names(a, "send") = ToSet(a.send) /\ ToSet(a.send) \subseteq Chans
  BY SendFacts DEF Names, ToSet
<1>2. Names(a, "recv") \subseteq Chans
  <2>1. PICK r : r = a.recv /\ r \in Seq(Seq(Chans \cup {NoChan}))
    BY DEF IsAlt
  <2>2. ASSUME NEW e \in ToSet(r)
        PROVE  ToSet(e) \subseteq Chans \cup {NoChan}
    <3>1. e \in Seq(Chans \cup {NoChan})
      BY <2>1, EmptySet
    <3> QED
      BY <3>1, EmptySet
  <2> QED
    BY <2>1, <2>2 DEF Names
<1>3. Clashes(a) = {} => Names(a, "send") \cap Names(a, "recv") = {}
  <2> SUFFICES ASSUME NEW c \in Names(a, "send"), c \in Names(a, "recv")
               PROVE  Clashes(a) # {}
    OBVIOUS
  <2>1. PICK k \in DOMAIN a.send : a.send[k] = c
    BY <1>1 DEF ToSet
  <2> QED
    BY <2>1 DEF Clashes
<1> QED
  BY <1>1, <1>2, <1>3 DEF Dirs, Co

\* Every channel that an alt names is that of an alternative.
LEMMA AlternativeExists ==
  ASSUME NEW a, IsAlt(a), NEW d \in Dirs, NEW c \in Names(a, d)
  PROVE  \E i \in Alternatives(a) : Dir(a, i) = d /\ ChanOf(a, i) = c
<1>1. PICK ns \in Nat : Len(a.send) = ns /\ DOMAIN a.send = 1 .. ns
  BY SendFacts
<1>2. CASE d = "send"
  <2>1. PICK k \in 1 .. ns : a.send[k] = c
    BY <1>1, <1>2 DEF Names, ToSet
  <2>2. Result(k - 1, 0) \in Alternatives(a)
    BY <1>1, <2>1 DEF Alternatives
  <2>3. Result(k - 1, 0).n = k - 1 /\ k - 1 < ns /\ k - 1 + 1 = k
    BY <2>1 DEF Result
  <2> QED
    BY <1>1, <1>2, <2>1, <2>2, <2>3 DEF Dir, ChanOf
<1>3. CASE d = "recv"
  <2>1. PICK r : r = a.recv /\ r \in Seq(Seq(Chans \cup {NoChan}))
    BY DEF IsAlt
  <2>2. PICK k \in DOMAIN r : c \in ToSet(r[k])
    BY <1>3, <2>1 DEF Names, ToSet
  <2>3. k \in Nat /\ k >= 1 /\ r[k] \in Seq(Chans \cup {NoChan})
    BY <2>1, <2>2
  <2>4. PICK e : e = r[k] /\ e \in Seq(Chans \cup {NoChan})
    BY <2>3
  <2>5. PICK j \in DOMAIN e : e[j] = c
    BY <2>2, <2>4 DEF ToSet
  <2>6. j \in Nat /\ j >= 1
    BY <2>4, <2>5
  <2>7. Result(ns + k - 1, j - 1) \in Alternatives(a)
    BY <1>1, <2>1, <2>2, <2>4, <2>5 DEF Alternatives
  <2>8. /\ Result(ns + k - 1, j - 1).n = ns + k - 1
        /\ Result(ns + k - 1, j - 1).at = j - 1
        /\ ~(ns + k - 1 < ns) /\ ns + k - 1 - ns + 1 = k /\ j - 1 + 1 = j
    BY <2>3, <2>6 DEF Result
  <2> QED
    BY <1>1, <1>3, <2>1, <2>4, <2>5, <2>7, <2>8 DEF Dir, ChanOf
<1> QED
  BY <1>2, <1>3 DEF Dirs

\* An alternative is one of the channels the alt names, or a nil element.
LEMMA AlternativeFacts ==
  ASSUME NEW a, IsAlt(a), NEW i \in Alternatives(a), ChanOf(a, i) # NoChan
  PROVE  /\ Dir(a, i) \in Dirs
         /\ ChanOf(a, i) \in Names(a, Dir(a, i)) /\ ChanOf(a, i) \in Chans
<1>1. PICK ns \in Nat : Len(a.send) = ns /\ DOMAIN a.send = 1 .. ns
  BY SendFacts
<1>2. ASSUME NEW k \in DOMAIN a.send, i = Result(k - 1, 0)
      PROVE  Dir(a, i) = "send" /\ ChanOf(a, i) \in Names(a, "send")
  <2>1. i.n = k - 1 /\ k - 1 < ns /\ k - 1 + 1 = k
    BY <1>1, <1>2 DEF Result
  <2> QED
    BY <1>1, <2>1 DEF Dir, ChanOf, Names, ToSet
<1>3. ASSUME NEW k \in DOMAIN a.recv, NEW j \in DOMAIN a.recv[k],
             i = Result(Len(a.send) + k - 1, j - 1)
      PROVE  Dir(a, i) = "recv" /\ ChanOf(a, i) \in Names(a, "recv")
  <2>1. PICK r : r = a.recv /\ r \in Seq(Seq(Chans \cup {NoChan}))
    BY DEF IsAlt
  <2>2. k \in Nat /\ k >= 1 /\ r[k] \in Seq(Chans \cup {NoChan})
    BY <1>3, <2>1
  <2>3. PICK e : e = r[k] /\ e \in Seq(Chans \cup {NoChan})
    BY <2>2
  <2>4. j \in Nat /\ j >= 1 /\ j \in DOMAIN e
    BY <1>3, <2>1, <2>3
  <2>5. /\ i.n = ns + k - 1 /\ i.at = j - 1
        /\ ~(ns + k - 1 < ns) /\ ns + k - 1 - ns + 1 = k /\ j - 1 + 1 = j
    BY <1>1, <1>3, <2>2, <2>4 DEF Result
  <2>6. ChanOf(a, i) = e[j] /\ Dir(a, i) = "recv"
    BY <1>1, <2>1, <2>3, <2>5 DEF ChanOf, Dir
  <2>7. e[j] \in ToSet(e) /\ e \in ToSet(a.recv)
    BY <1>3, <2>1, <2>3, <2>4 DEF ToSet
  <2>8. e[j] \in UNION {ToSet(f) : f \in ToSet(a.recv)} /\ e[j] # NoChan
    BY <2>6, <2>7
  <2> QED
    BY <2>6, <2>8 DEF Names
<1>4. \/ \E k \in DOMAIN a.send : i = Result(k - 1, 0)
      \/ \E k \in DOMAIN a.recv : \E j \in DOMAIN a.recv[k] :
            i = Result(Len(a.send) + k - 1, j - 1)
  BY DEF Alternatives
<1>5. Dir(a, i) \in Dirs /\ ChanOf(a, i) \in Names(a, Dir(a, i))
  BY <1>2, <1>3, <1>4 DEF Dirs
<1> QED
  BY <1>5, NamesFacts

----------------------------------------------------------------------------
(* One step. *)

LEMMA CoFacts ==
  \A d \in Dirs : Co(d) \in Dirs /\ Co(d) # d /\ Co(Co(d)) = d
BY DEF Dirs, Co

\* The running thread is linked nowhere but in the run queue.
LEMMA RunningFacts ==
  ASSUME LinkInv, NEW p \in Progs, Running(p)
  PROVE  /\ state[p] = "ready"
         /\ Tail(runq) \in Seq(Progs) /\ IsInjective(Tail(runq))
         /\ ToSet(Tail(runq)) = {r \in Progs : state[r] = "ready"} \ {p}
         /\ \A d \in Dirs, c \in Chans :
               p \notin ToSet(queue[d][c]) /\ mark[d][c] # p
         /\ p # NoProg
<1>1. runq \in Seq(Progs) /\ runq # <<>> /\ IsInjective(runq) /\ p = Head(runq)
  BY DEF LinkInv, AltType, RunqExact, Distinct, Running
<1>2. /\ Tail(runq) \in Seq(Progs) /\ p \in ToSet(runq)
      /\ IsInjective(Tail(runq)) /\ ToSet(Tail(runq)) = ToSet(runq) \ {p}
  BY <1>1, TailSet
<1>3. state[p] = "ready"
  BY <1>2 DEF LinkInv, RunqExact
<1>4. p # NoProg
  BY AltAssumption
<1>5. \A d \in Dirs, c \in Chans : p \notin ToSet(queue[d][c]) /\ mark[d][c] # p
  <2> SUFFICES ASSUME NEW d \in Dirs, NEW c \in Chans
               PROVE  p \notin ToSet(queue[d][c]) /\ mark[d][c] # p
    OBVIOUS
  <2>1. /\ ToSet(queue[d][c]) = {r \in Progs : state[r] = d /\ chan[r] = c}
        /\ mark[d][c] # NoProg => state[mark[d][c]] = "alt"
    BY DEF LinkInv, NoStaleLink
  <2> QED
    BY <1>3, <1>4, <2>1 DEF Dirs
<1> QED
  BY <1>2, <1>3, <1>4, <1>5 DEF LinkInv, RunqExact

\* The marks m are those of a running thread that wants to communicate on c
\* in direction d: its own alt's, over the others'.
Marking(p, d, c, m, own) ==
    /\ m \in MarkType
    /\ IsAlt(own)
    /\ m[Co(d)][c] = mark[Co(d)][c]
    /\ \A f \in Dirs, x \in Chans :
          m[f][x] = mark[f][x] \/ (m[f][x] = p /\ x \in Names(own, f))

\* What Exchange does when it finds the partner q: q leaves every queue and
\* every mark, and p leaves the marks it made.
Exchanged(p, d, c, m, own, q) ==
    /\ q # p
    /\ \/ state[q] = Co(d) /\ chan[q] = c
       \/ state[q] = "alt" /\ c \in Names(alt[q], Co(d))
    /\ mark' \in MarkType
    /\ \A f \in Dirs, x \in Chans :
          mark'[f][x] = IF m[f][x] \in {p, q} THEN NoProg ELSE mark[f][x]
    /\ queue' \in [Dirs -> [Chans -> Seq(Progs)]]
    /\ \A f \in Dirs, x \in Chans :
          /\ IsInjective(queue'[f][x])
          /\ ToSet(queue'[f][x]) = ToSet(queue[f][x]) \ {q}
    /\ last' = [last EXCEPT ![p] = [dir |-> d, chan |-> c, peer |-> q],
                            ![q] = [dir |-> Co(d), chan |-> c, peer |-> p]]
    /\ state' = [state EXCEPT ![q] = "ready"]
    /\ runq' = Append(runq, q)
    /\ chan' = [chan EXCEPT ![q] = NoChan]

\* That is so whether the partner is found in an alt or in a queue.
LEMMA ExchangeFacts ==
  ASSUME LinkInv, NEW p \in Progs, Running(p), NEW d \in Dirs, NEW c \in Chans,
         NEW m, NEW own, NEW j, Marking(p, d, c, m, own),
         Partner(mark, d, c), Exchange(p, d, c, m, own, j), Reassigned = FALSE
  PROVE  \E q \in Progs : Exchanged(p, d, c, m, own, q)
<1> USE DEF Marking
<1>1. /\ state[p] = "ready" /\ p # NoProg
      /\ \A f \in Dirs, x \in Chans : mark[f][x] # p
  BY RunningFacts
<1> DEFINE e == Co(d)
<1>2. e \in Dirs
  BY CoFacts
<1>3. /\ mark \in MarkType /\ queue \in [Dirs -> [Chans -> Seq(Progs)]]
      /\ \A r \in Progs : IsAlt(alt[r])
  BY DEF LinkInv, AltType, MarkType
<1>4. \A f \in Dirs, x \in Chans :
        /\ IsInjective(queue[f][x])
        /\ ToSet(queue[f][x]) = {r \in Progs : state[r] = f /\ chan[r] = x}
        /\ mark[f][x] # NoProg => state[mark[f][x]] = "alt"
                                  /\ x \in Names(alt[mark[f][x]], f)
  BY DEF LinkInv, NoStaleLink, Distinct
<1> HIDE DEF e
<1>5. CASE mark[e][c] # NoProg
  <2>1. PICK q \in Progs : q = mark[e][c]
    BY <1>2, <1>3, <1>5 DEF MarkType
  <2>2. state[q] = "alt" /\ c \in Names(alt[q], e) /\ IsAlt(alt[q]) /\ q # p
    BY <1>1, <1>2, <1>3, <1>4, <1>5, <2>1
  <2>3. operand[q] = alt[q]
    BY <1>5, <2>1, <2>2 DEF Exchange, Unmoved, e
  <2>6. PICK m1 : m1 = [m EXCEPT ![e][c] = NoProg]
    OBVIOUS
  <2>7. m1 \in MarkType
    BY <1>2, <2>6 DEF MarkType
  <2>8. PICK m2 : m2 = Unmark(m1, alt[q], q)
    OBVIOUS
  <2>9. /\ m2 \in MarkType
        /\ \A f \in Dirs, x \in Chans :
              m2[f][x] = IF x \in Names(alt[q], f) /\ m1[f][x] = q
                           THEN NoProg ELSE m1[f][x]
    BY <2>7, <2>8, UnmarkFacts
  <2>10. /\ mark' = Unmark(m2, own, p) /\ queue' = queue
         /\ last' = [last EXCEPT ![p] = [dir |-> d, chan |-> c, peer |-> q],
                                 ![q] = [dir |-> e, chan |-> c, peer |-> p]]
         /\ state' = [state EXCEPT ![q] = "ready"]
         /\ runq' = Append(runq, q)
         /\ chan' = [chan EXCEPT ![q] = NoChan]
    BY <1>5, <2>1, <2>3, <2>6, <2>8 DEF Exchange, e
  <2>11. /\ mark' \in MarkType
         /\ \A f \in Dirs, x \in Chans :
               mark'[f][x] = IF x \in Names(own, f) /\ m2[f][x] = p
                               THEN NoProg ELSE m2[f][x]
    BY <2>9, <2>10, UnmarkFacts
  <2>12. ASSUME NEW f \in Dirs, NEW x \in Chans
         PROVE  mark'[f][x] = IF m[f][x] \in {p, q} THEN NoProg ELSE mark[f][x]
    <3>1. CASE f = e /\ x = c
      <4>1. m[f][x] = q /\ m1[f][x] = NoProg
        BY <1>2, <2>1, <2>6, <3>1 DEF MarkType, e
      <4>2. m2[f][x] = NoProg
        BY <2>9, <4>1
      <4> QED
        BY <1>1, <2>11, <4>1, <4>2
    <3>2. CASE ~(f = e /\ x = c)
      <4>1. m1[f][x] = m[f][x]
        BY <2>6, <3>2 DEF MarkType
      <4>2. m[f][x] = q => x \in Names(alt[q], f)
        BY <1>1, <1>4, <2>2, AltAssumption
      <4>3. m2[f][x] = IF m[f][x] = q THEN NoProg ELSE m[f][x]
        BY <2>9, <4>1, <4>2
      <4>4. m[f][x] = p => x \in Names(own, f)
        BY <1>1
      <4>5. m[f][x] # p => m[f][x] = mark[f][x]
        OBVIOUS
      <4> QED
        BY <1>1, <2>2, <2>11, <4>3, <4>4, <4>5
    <3> QED
      BY <3>1, <3>2
  <2>13. \A f \in Dirs, x \in Chans :
            /\ IsInjective(queue'[f][x])
            /\ ToSet(queue'[f][x]) = ToSet(queue[f][x]) \ {q}
    BY <1>4, <2>2, <2>10 DEF Dirs
  <2> QED
    BY <1>3, <2>2, <2>10, <2>11, <2>12, <2>13 DEF e, Exchanged
<1>6. CASE mark[e][c] = NoProg
  <2>1. queue[e][c] # <<>> /\ queue[e][c] \in Seq(Progs)
    BY <1>2, <1>3, <1>6 DEF Partner, e
  <2>2. PICK q : q = Head(queue[e][c])
    OBVIOUS
  <2>3. /\ q \in Progs /\ q \in ToSet(queue[e][c])
        /\ Tail(queue[e][c]) \in Seq(Progs)
        /\ IsInjective(Tail(queue[e][c]))
        /\ ToSet(Tail(queue[e][c])) = ToSet(queue[e][c]) \ {q}
    BY <1>2, <1>4, <2>1, <2>2, TailSet
  <2>4. state[q] = e /\ chan[q] = c /\ q # p
    BY <1>1, <1>2, <1>4, <2>3 DEF Dirs
  <2>5. /\ mark' = Unmark(m, own, p)
        /\ queue' = [queue EXCEPT ![e][c] = Tail(queue[e][c])]
        /\ last' = [last EXCEPT ![p] = [dir |-> d, chan |-> c, peer |-> q],
                                ![q] = [dir |-> e, chan |-> c, peer |-> p]]
        /\ state' = [state EXCEPT ![q] = "ready"]
        /\ runq' = Append(runq, q)
        /\ chan' = [chan EXCEPT ![q] = NoChan]
    BY <1>6, <2>2 DEF Exchange, e
  <2>6. /\ mark' \in MarkType
        /\ \A f \in Dirs, x \in Chans :
              mark'[f][x] = IF x \in Names(own, f) /\ m[f][x] = p
                              THEN NoProg ELSE m[f][x]
    BY <2>5, UnmarkFacts
  <2>7. ASSUME NEW f \in Dirs, NEW x \in Chans
        PROVE  mark'[f][x] = IF m[f][x] \in {p, q} THEN NoProg ELSE mark[f][x]
    <3>1. mark[f][x] # q
      BY <1>2, <1>4, <2>3, <2>4, AltAssumption DEF Dirs
    <3> QED
      BY <1>1, <2>4, <2>6, <3>1
  <2>8. queue' \in [Dirs -> [Chans -> Seq(Progs)]]
    BY <1>2, <1>3, <2>3, <2>5
  <2>9. ASSUME NEW f \in Dirs, NEW x \in Chans
        PROVE  /\ IsInjective(queue'[f][x])
               /\ ToSet(queue'[f][x]) = ToSet(queue[f][x]) \ {q}
    <3>1. CASE f = e /\ x = c
      <4>1. queue'[f][x] = Tail(queue[e][c])
        BY <1>2, <1>3, <2>5, <3>1
      <4> QED
        BY <2>3, <3>1, <4>1
    <3>2. CASE ~(f = e /\ x = c)
      <4>1. queue'[f][x] = queue[f][x]
        BY <1>2, <1>3, <2>5, <3>2
      <4> QED
        BY <1>4, <2>4, <3>2, <4>1
    <3> QED
      BY <3>1, <3>2
  <2> QED
    BY <2>3, <2>4, <2>5, <2>6, <2>7, <2>8, <2>9 DEF e, Exchanged
<1> QED
  BY <1>5, <1>6

\* An exchange keeps the links: isend and irecv, whose own is NoAlt, and the
\* alternative that altcomm performs.
LEMMA ExchangeLinkInv ==
  ASSUME LinkInv, NEW p \in Progs, Running(p), NEW d \in Dirs, NEW c \in Chans,
         NEW m, NEW own, NEW j, Marking(p, d, c, m, own),
         Partner(mark, d, c), Exchange(p, d, c, m, own, j), Reassigned = FALSE,
         \/ own = NoAlt /\ alt' = alt
         \/ c \in Names(own, d) /\ alt' = [alt EXCEPT ![p] = own]
  PROVE  LinkInv'
<1> USE DEF Marking
<1>1. PICK q \in Progs : Exchanged(p, d, c, m, own, q)
  BY ExchangeFacts
<1>2. /\ state[p] = "ready" /\ p # NoProg /\ q # NoProg
      /\ \A f \in Dirs, x \in Chans : mark[f][x] # p
      /\ \A f \in Dirs : f # "ready" /\ f # "alt"
  BY RunningFacts, AltAssumption DEF Dirs
<1>3. /\ state \in [Progs -> States] /\ runq \in Seq(Progs)
      /\ chan \in [Progs -> Chans \cup {NoChan}]
      /\ alt = [r \in Progs |-> alt[r]] /\ (\A r \in Progs : IsAlt(alt[r]))
      /\ last = [r \in Progs |-> last[r]]
      /\ \A r \in Progs : state[r] \in Dirs => chan[r] \in Chans
  BY DEF LinkInv, AltType
<1>4. /\ Co(d) \in Dirs /\ state[q] # "ready" /\ state[q] # "dead"
  BY <1>1, CoFacts DEF Dirs, Exchanged
<1>8. /\ alt' = [r \in Progs |-> alt'[r]] /\ (\A r \in Progs : IsAlt(alt'[r]))
      /\ \A r \in Progs \ {p} : alt'[r] = alt[r]
  <2>1. CASE alt' = alt
    BY <1>3, <2>1
  <2>2. CASE alt' = [alt EXCEPT ![p] = own]
    BY <1>3, <2>2
  <2> QED
    BY <2>1, <2>2
<1>9. /\ state'[q] = "ready" /\ chan'[q] = NoChan
      /\ \A r \in Progs \ {q} : state'[r] = state[r] /\ chan'[r] = chan[r]
      /\ state' \in [Progs -> States] /\ chan' \in [Progs -> Chans \cup {NoChan}]
  BY <1>1, <1>3 DEF States, Exchanged
<1>10. /\ last'[p] = [dir |-> d, chan |-> c, peer |-> q]
       /\ last'[q] = [dir |-> Co(d), chan |-> c, peer |-> p]
       /\ \A r \in Progs \ {p, q} : last'[r] = last[r]
       /\ last' = [r \in Progs |-> last'[r]]
  BY <1>1, <1>3 DEF Exchanged
<1>11. /\ q \notin ToSet(runq) /\ IsInjective(runq)
       /\ ToSet(runq) = {r \in Progs : state[r] = "ready"}
  BY <1>4 DEF LinkInv, RunqExact, Distinct
<1>12. /\ runq' \in Seq(Progs) /\ IsInjective(runq')
       /\ ToSet(runq') = ToSet(runq) \cup {q}
  BY <1>1, <1>3, <1>11, AppendSet DEF Exchanged
<1>13. AltType'
  <2>1. \A r \in Progs : state'[r] \in Dirs => chan'[r] \in Chans
    BY <1>2, <1>3, <1>9
  <2> QED
    BY <1>1, <1>8, <1>9, <1>10, <1>12, <2>1 DEF AltType, MarkType, Exchanged
<1>14. RunqExact'
  BY <1>9, <1>11, <1>12 DEF RunqExact, Distinct
<1>15. NoStaleLink'
  <2> SUFFICES ASSUME NEW f \in Dirs, NEW x \in Chans
               PROVE  /\ Distinct(queue'[f][x])
                      /\ ToSet(queue'[f][x]) =
                            {r \in Progs : state'[r] = f /\ chan'[r] = x}
                      /\ mark'[f][x] # NoProg =>
                            /\ state'[mark'[f][x]] = "alt"
                            /\ x \in Names(alt'[mark'[f][x]], f)
    BY DEF NoStaleLink
  <2>1. /\ ToSet(queue[f][x]) = {r \in Progs : state[r] = f /\ chan[r] = x}
        /\ mark[f][x] # NoProg => state[mark[f][x]] = "alt"
                                  /\ x \in Names(alt[mark[f][x]], f)
        /\ mark[f][x] \in Progs \cup {NoProg}
    BY DEF LinkInv, NoStaleLink, AltType
  <2>2. ToSet(queue'[f][x]) = {r \in Progs : state'[r] = f /\ chan'[r] = x}
    <3>1. ToSet(queue'[f][x]) = ToSet(queue[f][x]) \ {q}
      BY <1>1 DEF Exchanged
    <3>2. state'[q] # f
      BY <1>2, <1>9
    <3> QED
      BY <1>9, <2>1, <3>1, <3>2
  <2>3. ASSUME mark'[f][x] # NoProg
        PROVE  /\ state'[mark'[f][x]] = "alt"
               /\ x \in Names(alt'[mark'[f][x]], f)
    <3>1. mark'[f][x] = mark[f][x] /\ m[f][x] \notin {p, q}
      BY <1>1, <2>3 DEF Exchanged
    <3>2. mark[f][x] \in Progs \ {p, q}
      BY <2>1, <2>3, <3>1
    <3> QED
      BY <1>8, <1>9, <2>1, <2>3, <3>1, <3>2
  <2> QED
    BY <1>1, <2>2, <2>3 DEF Distinct, Exchanged
<1> QED
  BY <1>13, <1>14, <1>15 DEF LinkInv

LEMMA AltsFacts ==
  ASSUME NEW p \in Progs, NEW a \in Alts[p]
  PROVE  IsAlt(a)
BY AltAssumption

\* LinkInv in the facts about single threads, channels and marks.
LEMMA LinkFacts ==
  ASSUME LinkInv
  PROVE  /\ mark \in MarkType /\ queue \in [Dirs -> [Chans -> Seq(Progs)]]
         /\ state \in [Progs -> States] /\ runq \in Seq(Progs)
         /\ chan \in [Progs -> Chans \cup {NoChan}]
         /\ alt = [r \in Progs |-> alt[r]] /\ (\A r \in Progs : IsAlt(alt[r]))
         /\ last = [r \in Progs |-> last[r]]
         /\ \A r \in Progs : state[r] \in Dirs => chan[r] \in Chans
         /\ IsInjective(runq)
         /\ ToSet(runq) = {r \in Progs : state[r] = "ready"}
         /\ \A f \in Dirs, x \in Chans :
              /\ IsInjective(queue[f][x])
              /\ ToSet(queue[f][x]) = {r \in Progs : state[r] = f /\ chan[r] = x}
              /\ mark[f][x] # NoProg => /\ mark[f][x] \in Progs
                                        /\ state[mark[f][x]] = "alt"
                                        /\ x \in Names(alt[mark[f][x]], f)
BY DEF LinkInv, AltType, MarkType, RunqExact, NoStaleLink, Distinct

LEMMA NoAltFacts == IsAlt(NoAlt)
<1>1. <<>> \in Seq(Chans) /\ <<>> \in Seq(Seq(Chans \cup {NoChan}))
      /\ DOMAIN <<>> = {}
  BY EmptySet
<1>2. /\ NoAlt.send = <<>> /\ NoAlt.recv = <<>>
      /\ DOMAIN NoAlt = {"send", "recv", "array"}
  BY DEF NoAlt
<1> QED
  BY <1>1, <1>2 DEF IsAlt

\* isend and irecv.
LEMMA CommunicateLinkInv ==
  ASSUME LinkInv, NEW p \in Progs, NEW d \in Dirs, NEW c \in Chans,
         Communicate(p, d, c), Reassigned = FALSE
  PROVE  LinkInv'
<1>1. Running(p)
  BY DEF Communicate
<1>2. CASE Partner(mark, d, c)
  <2>1. Exchange(p, d, c, mark, NoAlt, NoResult) /\ alt' = alt
    BY <1>2 DEF Communicate
  <2>2. IsAlt(NoAlt)
    BY NoAltFacts
  <2>3. Marking(p, d, c, mark, NoAlt)
    BY <2>2, LinkFacts DEF Marking
  <2> QED
    BY <1>1, <1>2, <2>1, <2>3, ExchangeLinkInv
<1>3. CASE ~Partner(mark, d, c)
  <2>1. /\ state' = [state EXCEPT ![p] = d] /\ runq' = Tail(runq)
        /\ queue' = [queue EXCEPT ![d][c] = Append(queue[d][c], p)]
        /\ chan' = [chan EXCEPT ![p] = c]
        /\ mark' = mark /\ alt' = alt /\ last' = last
    BY <1>3 DEF Communicate, Block
  <2>2. /\ state[p] = "ready"
        /\ Tail(runq) \in Seq(Progs) /\ IsInjective(Tail(runq))
        /\ ToSet(Tail(runq)) = {r \in Progs : state[r] = "ready"} \ {p}
        /\ \A f \in Dirs, x \in Chans : p \notin ToSet(queue[f][x])
        /\ \A f \in Dirs, x \in Chans : mark[f][x] # p
    BY <1>1, RunningFacts
  <2>3. /\ Append(queue[d][c], p) \in Seq(Progs)
        /\ ToSet(Append(queue[d][c], p)) = ToSet(queue[d][c]) \cup {p}
        /\ IsInjective(Append(queue[d][c], p))
    BY <2>2, LinkFacts, AppendSet
  <2>4. /\ state'[p] = d /\ chan'[p] = c
        /\ \A r \in Progs \ {p} : state'[r] = state[r] /\ chan'[r] = chan[r]
        /\ state' \in [Progs -> States] /\ chan' \in [Progs -> Chans \cup {NoChan}]
    BY <2>1, LinkFacts DEF States, Waiting, Dirs
  <2>5. queue' \in [Dirs -> [Chans -> Seq(Progs)]]
    BY <2>1, <2>3, LinkFacts
  <2>6. AltType'
    <3>1. \A r \in Progs : state'[r] \in Dirs => chan'[r] \in Chans
      BY <2>4, LinkFacts
    <3> QED
      BY <2>1, <2>2, <2>4, <2>5, <3>1, LinkFacts DEF AltType, MarkType
  <2>7. RunqExact'
    BY <2>1, <2>2, <2>4 DEF RunqExact, Distinct, Dirs
  <2>8. NoStaleLink'
    <3> SUFFICES ASSUME NEW f \in Dirs, NEW x \in Chans
                 PROVE  /\ Distinct(queue'[f][x])
                        /\ ToSet(queue'[f][x]) =
                              {r \in Progs : state'[r] = f /\ chan'[r] = x}
                        /\ mark'[f][x] # NoProg =>
                              /\ state'[mark'[f][x]] = "alt"
                              /\ x \in Names(alt'[mark'[f][x]], f)
      BY DEF NoStaleLink
    <3>1. mark'[f][x] # NoProg => /\ state'[mark'[f][x]] = "alt"
                                  /\ x \in Names(alt'[mark'[f][x]], f)
      BY <2>1, <2>2, <2>4, LinkFacts
    <3>2. CASE f = d /\ x = c
      <4>1. queue'[f][x] = Append(queue[d][c], p)
        BY <2>1, <3>2, LinkFacts
      <4>2. ToSet(queue[f][x]) = {r \in Progs : state[r] = f /\ chan[r] = x}
        BY LinkFacts
      <4> QED
        BY <2>3, <2>4, <3>1, <3>2, <4>1, <4>2 DEF Distinct
    <3>3. CASE ~(f = d /\ x = c)
      <4>1. queue'[f][x] = queue[f][x]
        BY <2>1, <3>3, LinkFacts
      <4>2. ToSet(queue[f][x]) = {r \in Progs : state[r] = f /\ chan[r] = x}
        BY LinkFacts
      <4> QED
        BY <2>2, <2>4, <3>1, <3>3, <4>1, <4>2, LinkFacts DEF Distinct
    <3> QED
      BY <3>2, <3>3
  <2> QED
    BY <2>6, <2>7, <2>8 DEF LinkInv
<1> QED
  BY <1>2, <1>3

\* The steps of an alt that does not communicate, progexit: p goes on, or
\* leaves the run queue for the state s, and its marks stay only if it waits
\* in the alt.
LEMMA StayLinkInv ==
  ASSUME LinkInv, NEW p \in Progs, Running(p),
         NEW s \in {"ready", "alt", "broken", "dead"},
         \/ s = "ready" /\ state' = state /\ runq' = runq
         \/ s # "ready" /\ Block(p, s),
         mark' \in MarkType,
         \A f \in Dirs, x \in Chans :
            \/ mark'[f][x] = NoProg
            \/ mark'[f][x] = mark[f][x]
            \/ mark'[f][x] = p /\ s = "alt" /\ x \in Names(alt'[p], f),
         alt' = alt \/ \E a : IsAlt(a) /\ alt' = [alt EXCEPT ![p] = a],
         queue' = queue, chan' = chan, last' = last
  PROVE  LinkInv'
<1>1. /\ state[p] = "ready"
      /\ Tail(runq) \in Seq(Progs) /\ IsInjective(Tail(runq))
      /\ ToSet(Tail(runq)) = {r \in Progs : state[r] = "ready"} \ {p}
      /\ \A f \in Dirs, x \in Chans : mark[f][x] # p
      /\ p # NoProg
  BY RunningFacts
<1>2. /\ state'[p] = s /\ \A r \in Progs \ {p} : state'[r] = state[r]
      /\ state' \in [Progs -> States]
  <2>1. CASE s = "ready"
    <3>1. state' = state
      BY <2>1
    <3> QED
      BY <1>1, <2>1, <3>1, LinkFacts
  <2>2. CASE s # "ready"
    <3>1. state' = [state EXCEPT ![p] = s] /\ state \in [Progs -> States]
      BY <2>2, LinkFacts DEF Block
    <3>2. s \in States
      BY DEF States, Waiting
    <3> QED
      BY <3>1, <3>2
  <2> QED
    BY <2>1, <2>2
<1>3. /\ alt' = [r \in Progs |-> alt'[r]] /\ (\A r \in Progs : IsAlt(alt'[r]))
      /\ \A r \in Progs \ {p} : alt'[r] = alt[r]
  BY LinkFacts
<1>4. /\ runq' \in Seq(Progs) /\ IsInjective(runq')
      /\ ToSet(runq') = {r \in Progs : state'[r] = "ready"}
  <2>1. CASE s = "ready"
    BY <1>1, <1>2, <2>1, LinkFacts DEF Block
  <2>2. CASE s # "ready"
    <3>1. runq' = Tail(runq)
      BY <2>2 DEF Block
    <3> QED
      BY <1>1, <1>2, <2>2, <3>1
  <2> QED
    BY <2>1, <2>2
<1>5. AltType'
  <2>1. \A r \in Progs : state'[r] \in Dirs => chan'[r] \in Chans
    BY <1>2, LinkFacts DEF Dirs
  <2> QED
    BY <1>2, <1>3, <1>4, <2>1, LinkFacts DEF AltType, MarkType
<1>6. RunqExact'
  BY <1>4 DEF RunqExact, Distinct
<1>7. NoStaleLink'
  <2> SUFFICES ASSUME NEW f \in Dirs, NEW x \in Chans
               PROVE  /\ Distinct(queue'[f][x])
                      /\ ToSet(queue'[f][x]) =
                            {r \in Progs : state'[r] = f /\ chan'[r] = x}
                      /\ mark'[f][x] # NoProg =>
                            /\ state'[mark'[f][x]] = "alt"
                            /\ x \in Names(alt'[mark'[f][x]], f)
    BY DEF NoStaleLink
  <2>1. Distinct(queue'[f][x])
    BY LinkFacts DEF Distinct
  <2>2. ToSet(queue'[f][x]) = {r \in Progs : state'[r] = f /\ chan'[r] = x}
    <3>1. ToSet(queue[f][x]) = {r \in Progs : state[r] = f /\ chan[r] = x}
      BY LinkFacts
    <3>2. state[p] # f /\ state'[p] # f
      BY <1>1, <1>2 DEF Dirs
    <3> QED
      BY <1>2, <3>1, <3>2
  <2>3. ASSUME mark'[f][x] # NoProg
        PROVE  /\ state'[mark'[f][x]] = "alt"
               /\ x \in Names(alt'[mark'[f][x]], f)
    <3>1. CASE mark'[f][x] = p /\ s = "alt" /\ x \in Names(alt'[p], f)
      BY <1>2, <3>1
    <3>2. CASE mark'[f][x] = mark[f][x]
      BY <1>1, <1>2, <1>3, <2>3, <3>2, LinkFacts
    <3> QED
      BY <2>3, <3>1, <3>2
  <2> QED
    BY <2>1, <2>2, <2>3
<1> QED
  BY <1>5, <1>6, <1>7 DEF LinkInv

\* The marks of altrdy and their withdrawal.
LEMMA MarkedFacts ==
  ASSUME LinkInv, NEW p \in Progs, Running(p), NEW a, IsAlt(a),
         NEW ns \in 0 .. Len(a.send)
  PROVE  /\ Unmark(Mark(mark, a, ns, p), a, p) \in MarkType
         /\ \A f \in Dirs, x \in Chans :
               \/ Unmark(Mark(mark, a, ns, p), a, p)[f][x] = NoProg
               \/ Unmark(Mark(mark, a, ns, p), a, p)[f][x] = mark[f][x]
         /\ Mark(mark, a, ns, p) \in MarkType
         /\ \A f \in Dirs, x \in Chans :
               \/ Mark(mark, a, ns, p)[f][x] = mark[f][x]
               \/ Mark(mark, a, ns, p)[f][x] = p /\ x \in Names(a, f)
<1>1. mark \in MarkType
  BY LinkFacts
<1>2. PICK m : m = Mark(mark, a, ns, p)
  OBVIOUS
<1>3. /\ m \in MarkType
      /\ \A f \in Dirs, x \in Chans :
            m[f][x] = mark[f][x] \/ (m[f][x] = p /\ x \in Names(a, f))
  BY <1>1, <1>2, MarkFacts
<1>4. /\ Unmark(m, a, p) \in MarkType
      /\ \A f \in Dirs, x \in Chans :
            Unmark(m, a, p)[f][x] =
               IF x \in Names(a, f) /\ m[f][x] = p THEN NoProg ELSE m[f][x]
  BY <1>3, UnmarkFacts
<1> QED
  BY <1>2, <1>3, <1>4

\* The first send on which altrdy stops is one of the sends.
LEMMA FirstClash ==
  ASSUME NEW a, IsAlt(a), Clashes(a) # {}
  PROVE  \E k \in 1 .. Len(a.send) :
            /\ k \in Clashes(a) /\ \A j \in Clashes(a) : k <= j
            /\ k = CHOOSE i \in Clashes(a) : \A j \in Clashes(a) : i <= j
<1>1. PICK ns \in Nat : Len(a.send) = ns /\ DOMAIN a.send = 1 .. ns
  BY SendFacts
<1>2. Clashes(a) \subseteq 1 .. ns /\ 1 .. ns \subseteq Nat
  BY <1>1 DEF Clashes
<1>3. PICK n \in Clashes(a) : \A j \in Clashes(a) : n <= j
  BY <1>2, LeastElement
<1>4. PICK k : k = CHOOSE i \in Clashes(a) : \A j \in Clashes(a) : i <= j
  OBVIOUS
<1>5. k \in Clashes(a) /\ \A j \in Clashes(a) : k <= j
  BY <1>3, <1>4
<1> QED
  BY <1>1, <1>2, <1>4, <1>5

\* The marks with which altcomm communicates.
LEMMA AltCommMarking ==
  ASSUME LinkInv, NEW p \in Progs, NEW a, IsAlt(a), Clashes(a) = {},
         NEW d \in Dirs, NEW c \in Chans, c \in Names(a, d)
  PROVE  Marking(p, d, c, Mark(mark, a, Len(a.send), p), a)
<1>1. PICK m : m = Mark(mark, a, Len(a.send), p)
  OBVIOUS
<1>2. Len(a.send) \in 0 .. Len(a.send)
  <2>1. Len(a.send) \in Nat
    BY SendFacts
  <2> QED
    BY <2>1
<1>3. /\ m \in MarkType
      /\ \A f \in Dirs, x \in Chans :
            m[f][x] = IF x \in Names(a, f) THEN p ELSE mark[f][x]
  <2>1. mark \in MarkType
    BY LinkFacts
  <2> QED
    BY <1>1, <1>2, <2>1, MarkFacts
<1>4. c \notin Names(a, Co(d))
  BY NamesFacts
<1>5. m[Co(d)][c] = mark[Co(d)][c]
  BY <1>3, <1>4, CoFacts
<1> QED
  BY <1>1, <1>3, <1>5 DEF Marking

\* alt and nbalt.
LEMMA AltLinkInv ==
  ASSUME LinkInv, NEW p \in Progs, NEW a \in Alts[p],
         AltClash(p, a) \/ AltComm(p, a) \/ AltBlock(p, a) \/ AltNone(p, a),
         Reassigned = FALSE
  PROVE  LinkInv'
<1>1. Running(p)
  BY DEF AltClash, AltComm, AltBlock, AltNone
<1>2. IsAlt(a)
  BY AltsFacts
<1>3. Len(a.send) \in 0 .. Len(a.send)
  <2>1. Len(a.send) \in Nat
    BY <1>2, SendFacts
  <2> QED
    BY <2>1
<1>4. CASE AltClash(p, a)
  <2>1. PICK k \in 1 .. Len(a.send) :
           k = CHOOSE i \in Clashes(a) : \A j \in Clashes(a) : i <= j
    BY <1>2, <1>4, FirstClash DEF AltClash
  <2>2. k - 1 \in 0 .. Len(a.send)
    BY <1>2, SendFacts
  <2>3. mark' = Unmark(Mark(mark, a, k - 1, p), a, p)
    BY <1>4, <2>1 DEF AltClash
  <2>4. /\ mark' \in MarkType
        /\ \A f \in Dirs, x \in Chans :
              mark'[f][x] = NoProg \/ mark'[f][x] = mark[f][x]
    BY <1>1, <1>2, <2>2, <2>3, MarkedFacts
  <2>5. Block(p, "broken")
        /\ alt' = alt /\ queue' = queue /\ chan' = chan /\ last' = last
    BY <1>4 DEF AltClash, Block
  <2>6. \A f \in Dirs, x \in Chans :
           \/ mark'[f][x] = NoProg
           \/ mark'[f][x] = mark[f][x]
           \/ mark'[f][x] = p /\ "broken" = "alt" /\ x \in Names(alt'[p], f)
    BY <2>4
  <2> HIDE DEF Block, Running, LinkInv
  <2> QED
    BY <1>1, <2>4, <2>5, <2>6, StayLinkInv
<1>5. CASE AltComm(p, a)
  <2>1. PICK i \in Ready(a) :
           Exchange(p, Dir(a, i), ChanOf(a, i), Mark(mark, a, Len(a.send), p), a,
                    i)
    BY <1>5 DEF AltComm
  <2>2. PICK d, c, m : /\ d = Dir(a, i) /\ c = ChanOf(a, i)
                       /\ m = Mark(mark, a, Len(a.send), p)
    OBVIOUS
  <2>3. /\ i \in Alternatives(a) /\ c # NoChan /\ Partner(mark, d, c)
        /\ Exchange(p, d, c, m, a, i) /\ alt' = [alt EXCEPT ![p] = a]
        /\ Clashes(a) = {}
    BY <1>5, <2>1, <2>2 DEF AltComm, Ready
  <2>4. d \in Dirs /\ c \in Chans /\ c \in Names(a, d)
    BY <1>2, <2>2, <2>3, AlternativeFacts
  <2>5. Marking(p, d, c, m, a)
    BY <1>2, <2>2, <2>3, <2>4, AltCommMarking
  <2> QED
    BY <1>1, <2>3, <2>4, <2>5, ExchangeLinkInv
<1>6. CASE AltBlock(p, a)
  <2>1. /\ mark' = Mark(mark, a, Len(a.send), p)
        /\ Block(p, "alt")
        /\ alt' = [alt EXCEPT ![p] = a]
        /\ queue' = queue /\ chan' = chan /\ last' = last
    BY <1>6 DEF AltBlock, Block
  <2>2. alt'[p] = a
    BY <2>1, LinkFacts
  <2>3. /\ mark' \in MarkType
        /\ \A f \in Dirs, x \in Chans :
              \/ mark'[f][x] = mark[f][x]
              \/ mark'[f][x] = p /\ x \in Names(alt'[p], f)
    BY <1>1, <1>2, <1>3, <2>1, <2>2, MarkedFacts
  <2>4. \A f \in Dirs, x \in Chans :
           \/ mark'[f][x] = NoProg
           \/ mark'[f][x] = mark[f][x]
           \/ mark'[f][x] = p /\ "alt" = "alt" /\ x \in Names(alt'[p], f)
    BY <2>3
  <2>5. \E b : IsAlt(b) /\ alt' = [alt EXCEPT ![p] = b]
    BY <1>2, <2>1
  <2> QED
    BY <1>1, <2>1, <2>3, <2>4, <2>5, StayLinkInv
<1>7. CASE AltNone(p, a)
  <2>1. /\ mark' = Unmark(Mark(mark, a, Len(a.send), p), a, p)
        /\ state' = state /\ runq' = runq
        /\ alt' = alt /\ queue' = queue /\ chan' = chan /\ last' = last
    BY <1>7 DEF AltNone
  <2>2. /\ mark' \in MarkType
        /\ \A f \in Dirs, x \in Chans :
              mark'[f][x] = NoProg \/ mark'[f][x] = mark[f][x]
    BY <1>1, <1>2, <1>3, <2>1, MarkedFacts
  <2> QED
    BY <1>1, <2>1, <2>2, StayLinkInv
<1> QED
  BY <1>4, <1>5, <1>6, <1>7

LEMMA ProgexitLinkInv ==
  ASSUME LinkInv, NEW p \in Progs, Progexit(p)
  PROVE  LinkInv'
<1>1. /\ Running(p) /\ Block(p, "dead")
      /\ queue' = queue /\ mark' = mark /\ chan' = chan /\ alt' = alt
      /\ last' = last
  BY DEF Progexit, Block
<1>2. mark' \in MarkType
  BY <1>1, LinkFacts
<1> QED
  BY <1>1, <1>2, StayLinkInv

\* killprog unlinks its victim from whatever it is linked in.
LEMMA KillFacts ==
  ASSUME LinkInv, NEW p \in Progs, NEW q \in Progs, Killprog(p, q),
         Reassigned = FALSE
  PROVE  /\ Running(p) /\ p # q /\ state[q] # "dead"
         /\ mark' \in MarkType
         /\ \A f \in Dirs, x \in Chans :
               mark'[f][x] = IF mark[f][x] = q THEN NoProg ELSE mark[f][x]
         /\ queue' \in [Dirs -> [Chans -> Seq(Progs)]]
         /\ \A f \in Dirs, x \in Chans :
               /\ IsInjective(queue'[f][x])
               /\ ToSet(queue'[f][x]) = ToSet(queue[f][x]) \ {q}
         /\ runq' \in Seq(Progs) /\ IsInjective(runq')
         /\ ToSet(runq') = ToSet(runq) \ {q}
         /\ state'[q] = "dead" /\ state' \in [Progs -> States]
         /\ \A r \in Progs \ {q} : state'[r] = state[r]
         /\ chan'[q] = NoChan /\ chan' \in [Progs -> Chans \cup {NoChan}]
         /\ \A r \in Progs \ {q} : chan'[r] = chan[r]
         /\ alt' = alt /\ last' = last
<1>1. /\ Running(p) /\ p # q /\ state[q] # "dead"
      /\ mark' = KillMark(q) /\ queue' = KillQueue(q)
      /\ runq' = RemoveFirst(runq, q)
      /\ state' = [state EXCEPT ![q] = "dead"]
      /\ chan' = [chan EXCEPT ![q] = NoChan]
      /\ alt' = alt /\ last' = last /\ Unmoved(q)
  BY DEF Killprog, KillRunq
<1>2. runq' \in Seq(Progs) /\ IsInjective(runq') /\ ToSet(runq') = ToSet(runq) \ {q}
  BY <1>1, LinkFacts, RemoveSet
<1>3. /\ mark' \in MarkType
      /\ \A f \in Dirs, x \in Chans :
            mark'[f][x] = IF mark[f][x] = q THEN NoProg ELSE mark[f][x]
  <2>1. q # NoProg
    BY AltAssumption
  <2>2. CASE state[q] = "alt"
    <3>1. mark' = Unmark(mark, alt[q], q)
      BY <1>1, <2>2 DEF KillMark, Unmoved
    <3>2. /\ mark' \in MarkType
          /\ \A f \in Dirs, x \in Chans :
                mark'[f][x] = IF x \in Names(alt[q], f) /\ mark[f][x] = q
                                THEN NoProg ELSE mark[f][x]
      BY <3>1, LinkFacts, UnmarkFacts
    <3>3. \A f \in Dirs, x \in Chans : mark[f][x] = q => x \in Names(alt[q], f)
      BY <2>1, LinkFacts
    <3> QED
      BY <3>2, <3>3
  <2>3. CASE state[q] # "alt"
    <3>1. mark' = mark
      BY <1>1, <2>3 DEF KillMark
    <3>2. \A f \in Dirs, x \in Chans : mark[f][x] # q
      BY <2>1, <2>3, LinkFacts
    <3> QED
      BY <3>1, <3>2, LinkFacts
  <2> QED
    BY <2>2, <2>3
<1>4. /\ queue' \in [Dirs -> [Chans -> Seq(Progs)]]
      /\ \A f \in Dirs, x \in Chans :
            /\ IsInjective(queue'[f][x])
            /\ ToSet(queue'[f][x]) = ToSet(queue[f][x]) \ {q}
  <2>1. CASE state[q] \in Dirs
    <3>1. PICK d \in Dirs, c \in Chans : d = state[q] /\ c = chan[q]
      BY <2>1, LinkFacts
    <3>2. queue' = [queue EXCEPT ![d][c] = RemoveFirst(queue[d][c], q)]
      <4>1. operand[q] = c /\ c # NoChan
        BY <1>1, <2>1, <3>1, AltAssumption DEF Unmoved
      <4> QED
        BY <1>1, <2>1, <3>1, <4>1 DEF KillQueue
    <3>3. queue[d][c] \in Seq(Progs) /\ IsInjective(queue[d][c])
      BY LinkFacts
    <3>4. /\ RemoveFirst(queue[d][c], q) \in Seq(Progs)
          /\ IsInjective(RemoveFirst(queue[d][c], q))
          /\ ToSet(RemoveFirst(queue[d][c], q)) = ToSet(queue[d][c]) \ {q}
      BY <3>3, RemoveSet
    <3>5. queue' \in [Dirs -> [Chans -> Seq(Progs)]]
      BY <3>2, <3>4, LinkFacts
    <3>6. ASSUME NEW f \in Dirs, NEW x \in Chans
          PROVE  /\ IsInjective(queue'[f][x])
                 /\ ToSet(queue'[f][x]) = ToSet(queue[f][x]) \ {q}
      <4>1. CASE f = d /\ x = c
        <5>1. queue'[f][x] = RemoveFirst(queue[d][c], q)
          BY <3>2, <4>1, LinkFacts
        <5> QED
          BY <3>4, <4>1, <5>1
      <4>2. CASE ~(f = d /\ x = c)
        <5>1. queue'[f][x] = queue[f][x]
          BY <3>2, <4>2, LinkFacts
        <5>2. q \notin ToSet(queue[f][x])
          BY <3>1, <4>2, LinkFacts
        <5> QED
          BY <5>1, <5>2, LinkFacts
      <4> QED
        BY <4>1, <4>2
    <3> QED
      BY <3>5, <3>6
  <2>2. CASE state[q] \notin Dirs
    <3>1. queue' = queue
      BY <1>1, <2>2 DEF KillQueue
    <3>2. \A f \in Dirs, x \in Chans : q \notin ToSet(queue[f][x])
      BY <2>2, LinkFacts
    <3> QED
      BY <3>1, <3>2, LinkFacts
  <2> QED
    BY <2>1, <2>2
<1>5. /\ state'[q] = "dead" /\ state' \in [Progs -> States]
      /\ \A r \in Progs \ {q} : state'[r] = state[r]
  BY <1>1, LinkFacts DEF States
<1>6. /\ chan'[q] = NoChan /\ chan' \in [Progs -> Chans \cup {NoChan}]
      /\ \A r \in Progs \ {q} : chan'[r] = chan[r]
  BY <1>1, LinkFacts
<1> QED
  BY <1>1, <1>2, <1>3, <1>4, <1>5, <1>6

LEMMA KillprogLinkInv ==
  ASSUME LinkInv, NEW p \in Progs, NEW q \in Progs, Killprog(p, q),
         Reassigned = FALSE
  PROVE  LinkInv'
<1>1. /\ mark' \in MarkType
      /\ \A f \in Dirs, x \in Chans :
            mark'[f][x] = IF mark[f][x] = q THEN NoProg ELSE mark[f][x]
  BY KillFacts
<1>2. /\ queue' \in [Dirs -> [Chans -> Seq(Progs)]]
      /\ \A f \in Dirs, x \in Chans :
            /\ IsInjective(queue'[f][x])
            /\ ToSet(queue'[f][x]) = ToSet(queue[f][x]) \ {q}
  BY KillFacts
<1>3. /\ runq' \in Seq(Progs) /\ IsInjective(runq')
      /\ ToSet(runq') = ToSet(runq) \ {q}
  BY KillFacts
<1>4. /\ state'[q] = "dead" /\ state' \in [Progs -> States]
      /\ \A r \in Progs \ {q} : state'[r] = state[r]
      /\ chan' \in [Progs -> Chans \cup {NoChan}]
      /\ \A r \in Progs \ {q} : chan'[r] = chan[r]
  BY KillFacts
<1>5. alt' = alt /\ last' = last
  BY KillFacts
<1>6. AltType'
  <2>1. \A r \in Progs : state'[r] \in Dirs => chan'[r] \in Chans
    BY <1>4, LinkFacts DEF Dirs
  <2> QED
    BY <1>1, <1>2, <1>3, <1>4, <1>5, <2>1, LinkFacts DEF AltType, MarkType
<1>7. RunqExact'
  BY <1>3, <1>4, LinkFacts DEF RunqExact, Distinct
<1>8. NoStaleLink'
  <2> SUFFICES ASSUME NEW f \in Dirs, NEW x \in Chans
               PROVE  /\ Distinct(queue'[f][x])
                      /\ ToSet(queue'[f][x]) =
                            {r \in Progs : state'[r] = f /\ chan'[r] = x}
                      /\ mark'[f][x] # NoProg =>
                            /\ state'[mark'[f][x]] = "alt"
                            /\ x \in Names(alt'[mark'[f][x]], f)
    BY DEF NoStaleLink
  <2>1. ToSet(queue'[f][x]) = {r \in Progs : state'[r] = f /\ chan'[r] = x}
    <3>1. ToSet(queue[f][x]) = {r \in Progs : state[r] = f /\ chan[r] = x}
      BY LinkFacts
    <3>2. state'[q] # f
      BY <1>4 DEF Dirs
    <3>3. ToSet(queue'[f][x]) = ToSet(queue[f][x]) \ {q}
      BY <1>2
    <3> QED
      BY <1>4, <3>1, <3>2, <3>3
  <2>2. ASSUME mark'[f][x] # NoProg
        PROVE  /\ state'[mark'[f][x]] = "alt"
               /\ x \in Names(alt'[mark'[f][x]], f)
    <3>1. mark'[f][x] = mark[f][x] /\ mark[f][x] # q
      BY <1>1, <2>2
    <3> QED
      BY <1>4, <1>5, <2>2, <3>1, LinkFacts
  <2> QED
    BY <1>2, <2>1, <2>2 DEF Distinct
<1> QED
  BY <1>6, <1>7, <1>8 DEF LinkInv

LEMMA NewprogLinkInv ==
  ASSUME LinkInv, NEW p \in Progs, NEW q \in Progs, Newprog(p, q)
  PROVE  LinkInv'
<1>1. /\ Running(p) /\ state[q] = "dead"
      /\ state' = [state EXCEPT ![q] = "ready"]
      /\ runq' = Append(runq, q)
      /\ alt' = [alt EXCEPT ![q] = NoAlt]
      /\ queue' = queue /\ mark' = mark /\ chan' = chan /\ last' = last
  BY DEF Newprog
<1>2. /\ state'[q] = "ready" /\ state' \in [Progs -> States]
      /\ \A r \in Progs \ {q} : state'[r] = state[r]
  BY <1>1, LinkFacts DEF States
<1>3. /\ runq' \in Seq(Progs) /\ IsInjective(runq')
      /\ ToSet(runq') = ToSet(runq) \cup {q}
  BY <1>1, LinkFacts, AppendSet
<1>4. IsAlt(NoAlt)
  BY NoAltFacts
<1>5. /\ alt' = [r \in Progs |-> alt'[r]] /\ (\A r \in Progs : IsAlt(alt'[r]))
      /\ \A r \in Progs \ {q} : alt'[r] = alt[r]
  BY <1>1, <1>4, LinkFacts
<1>6. AltType'
  <2>1. \A r \in Progs : state'[r] \in Dirs => chan'[r] \in Chans
    BY <1>1, <1>2, LinkFacts DEF Dirs
  <2> QED
    BY <1>1, <1>2, <1>3, <1>5, <2>1, LinkFacts DEF AltType, MarkType
<1>7. RunqExact'
  BY <1>2, <1>3, LinkFacts DEF RunqExact, Distinct
<1>8. NoStaleLink'
  <2> SUFFICES ASSUME NEW f \in Dirs, NEW x \in Chans
               PROVE  /\ Distinct(queue'[f][x])
                      /\ ToSet(queue'[f][x]) =
                            {r \in Progs : state'[r] = f /\ chan'[r] = x}
                      /\ mark'[f][x] # NoProg =>
                            /\ state'[mark'[f][x]] = "alt"
                            /\ x \in Names(alt'[mark'[f][x]], f)
    BY DEF NoStaleLink
  <2>1. ToSet(queue'[f][x]) = {r \in Progs : state'[r] = f /\ chan'[r] = x}
    <3>1. ToSet(queue[f][x]) = {r \in Progs : state[r] = f /\ chan[r] = x}
      BY LinkFacts
    <3>2. state[q] # f /\ state'[q] # f
      BY <1>1, <1>2 DEF Dirs
    <3> QED
      BY <1>1, <1>2, <3>1, <3>2
  <2>2. mark'[f][x] # NoProg => /\ state'[mark'[f][x]] = "alt"
                                /\ x \in Names(alt'[mark'[f][x]], f)
    BY <1>1, <1>2, <1>5, LinkFacts
  <2> QED
    BY <1>1, <2>1, <2>2, LinkFacts DEF Distinct
<1> QED
  BY <1>6, <1>7, <1>8 DEF LinkInv

\* An assignment changes no link.
LEMMA AssignLinkInv ==
  ASSUME LinkInv, NEW p \in Progs, NEW q \in Progs, Assign(p, q)
  PROVE  LinkInv'
<1>1. UNCHANGED <<queue, mark, state, runq, chan, alt, last>>
  BY DEF Assign
<1> QED
  BY <1>1 DEF LinkInv, AltType, RunqExact, NoStaleLink

LEMMA QuantumLinkInv ==
  ASSUME LinkInv, Quantum
  PROVE  LinkInv'
<1>1. /\ runq \in Seq(Progs) /\ runq # <<>> /\ IsInjective(runq)
      /\ runq' = Append(Tail(runq), Head(runq))
      /\ queue' = queue /\ mark' = mark /\ state' = state /\ chan' = chan
      /\ alt' = alt /\ last' = last
  BY LinkFacts DEF Quantum
<1>2. /\ Tail(runq) \in Seq(Progs) /\ Head(runq) \in Progs
      /\ Head(runq) \in ToSet(runq) /\ IsInjective(Tail(runq))
      /\ ToSet(Tail(runq)) = ToSet(runq) \ {Head(runq)}
  BY <1>1, TailSet
<1>3. PICK h, t : h = Head(runq) /\ t = Tail(runq)
  OBVIOUS
<1>4. /\ runq' \in Seq(Progs) /\ IsInjective(runq') /\ ToSet(runq') = ToSet(runq)
  <2>1. t \in Seq(Progs) /\ h \in Progs /\ IsInjective(t) /\ h \notin ToSet(t)
        /\ ToSet(runq) = ToSet(t) \cup {h} /\ runq' = Append(t, h)
    BY <1>1, <1>2, <1>3
  <2> QED
    BY <2>1, AppendSet
<1>5. AltType'
  BY <1>1, <1>4 DEF LinkInv, AltType
<1>6. RunqExact'
  BY <1>1, <1>4 DEF LinkInv, RunqExact, Distinct
<1>7. NoStaleLink'
  BY <1>1 DEF LinkInv, NoStaleLink
<1> QED
  BY <1>5, <1>6, <1>7 DEF LinkInv

LEMMA InitLinkInv == Init => LinkInv
<1> SUFFICES ASSUME Init PROVE LinkInv
  OBVIOUS
<1>1. <<>> \in Seq(Progs) /\ <<>> \in Seq(Chans) /\ ToSet(<<>>) = {}
      /\ IsInjective(<<>>)
  BY EmptySet
<1>2. IsAlt(NoAlt)
  BY NoAltFacts
<1>3. /\ runq \in Seq(Progs) /\ IsInjective(runq)
      /\ DOMAIN runq = 1 .. Cardinality(Progs) /\ Cardinality(Progs) \in Nat
  <2>1. Cardinality(Progs) \in Nat
    BY AltAssumption, FS_CardinalityType
  <2> QED
    BY <2>1 DEF Init
<1>4. ToSet(runq) = Progs
  <2>1. ToSet(runq) \subseteq Progs
    BY <1>3, EmptySet
  <2>2. runq \in Bijection(1 .. Cardinality(Progs), ToSet(runq))
    BY <1>3 DEF Init, Bijection, Injection, Surjection, IsInjective, ToSet
  <2>3. Cardinality(ToSet(runq)) = Cardinality(Progs)
    BY <1>3, <2>2, FS_CardinalityType, FS_CountingElements DEF ExistsBijection
  <2> QED
    BY <2>1, <2>3, AltAssumption, FS_Subset
<1>5. AltType
  BY <1>1, <1>2, <1>3 DEF Init, AltType, States, Dirs
<1>6. RunqExact
  BY <1>3, <1>4 DEF Init, RunqExact, Distinct
<1>7. NoStaleLink
  BY <1>1 DEF Init, NoStaleLink, Distinct, Dirs
<1> QED
  BY <1>5, <1>6, <1>7 DEF LinkInv

LEMMA NextLinkInv ==
  ASSUME LinkInv, [Next]_vars, Reassigned = FALSE
  PROVE  LinkInv'
<1>1. CASE UNCHANGED vars
  BY <1>1 DEF vars, LinkInv, AltType, RunqExact, NoStaleLink
<1>2. CASE Next
  BY <1>2, CommunicateLinkInv, AltLinkInv, AssignLinkInv, KillprogLinkInv,
     NewprogLinkInv, ProgexitLinkInv, QuantumLinkInv, CoFacts DEF Next, Isend, Irecv, Dirs
<1> QED
  BY <1>1, <1>2

LEMMA LinkInvariant ==
  ASSUME Reassigned = FALSE
  PROVE  Spec => []LinkInv
BY InitLinkInv, NextLinkInv, PTL DEF Spec

\* The variables keep their types.
THEOREM TypeCorrect ==
  ASSUME Reassigned = FALSE
  PROVE  Spec => []TypeOK
<1>1. LinkInv => TypeOK
  BY DEF LinkInv, AltType, TypeOK
<1> QED
  BY <1>1, LinkInvariant, PTL

\* The run queue holds the ready threads, each once, if no thread is unlinked
\* after an operand of its changed.
THEOREM RunqKept ==
  ASSUME Reassigned = FALSE
  PROVE  Spec => []RunqExact
BY LinkInvariant, PTL DEF LinkInv

\* Whatever communicates, is killed or starts again in the same memory, a
\* channel refers only to threads that wait for it, if no thread is unlinked
\* after an operand of its changed.
THEOREM LinksKept ==
  ASSUME Reassigned = FALSE
  PROVE  Spec => []NoStaleLink
BY LinkInvariant, PTL DEF LinkInv

----------------------------------------------------------------------------
(* Threads that keep to alts of their own. *)

\* Offers says of one channel what Offer says of all.
LEMMA OfferFacts ==
  ASSUME LinkInv, NEW r \in Progs
  PROVE  /\ Offer(r) \subseteq Dirs \X Chans
         /\ \A f \in Dirs, x \in Chans : <<f, x>> \in Offer(r) <=> Offers(r, f, x)
         /\ state[r] \notin Waiting => Offer(r) = {}
<1>1. state[r] \in Dirs => chan[r] \in Chans
  BY LinkFacts
<1>2. CASE state[r] \in Dirs
  BY <1>1, <1>2 DEF Offer, Offers, Dirs, Waiting
<1>3. CASE state[r] = "alt"
  BY <1>3 DEF Offer, Offers, Dirs, Waiting
<1>4. CASE state[r] \notin Waiting
  BY <1>4 DEF Offer, Offers, Dirs, Waiting
<1> QED
  BY <1>2, <1>3, <1>4 DEF Waiting, Dirs

\* Who offers is found through the channel.
LEMMA OfferFound ==
  ASSUME LinkInv, AltFindable, NEW r \in Progs, NEW f \in Dirs, NEW x \in Chans,
         Offers(r, f, x)
  PROVE  mark[f][x] # NoProg \/ queue[f][x] # <<>>
<1>1. CASE state[r] = f /\ chan[r] = x
  <2>1. r \in ToSet(queue[f][x])
    BY <1>1, LinkFacts
  <2> QED
    BY <2>1, EmptySet
<1>2. CASE state[r] = "alt" /\ x \in Names(alt[r], f)
  BY <1>2, AltAssumption DEF AltFindable
<1> QED
  BY <1>1, <1>2 DEF Offers

\* What a waiting thread's marks cover, and what altrdy marks for another.
LEMMA ClaimFacts ==
  ASSUME NEW a, IsAlt(a), NEW ns \in 0 .. Len(a.send),
         \/ Clashes(a) = {}
         \/ \A k \in Clashes(a) : ns < k
  PROVE  /\ Clashes(a) = {} => \A f \in Dirs : Claims(a, f) = Names(a, f)
         /\ ToSet(SubSeq(a.send, 1, ns)) \subseteq Claims(a, "send")
         /\ Claims(a, "recv") = Names(a, "recv")
<1>1. PICK n \in Nat : /\ Len(a.send) = n /\ DOMAIN a.send = 1 .. n
                       /\ \A k \in 1 .. n : a.send[k] \in Chans
  BY SendFacts
<1>2. Claims(a, "recv") = Names(a, "recv")
  BY DEF Claims
<1>3. Clashes(a) = {} => Claims(a, "send") = Names(a, "send")
  BY NamesFacts DEF Claims, ToSet
<1>4. ToSet(SubSeq(a.send, 1, ns)) \subseteq Claims(a, "send")
  <2> DEFINE s == a.send
             t == SubSeq(a.send, 1, ns)
  <2>1. \A i \in 1 .. ns : s[i] \in Chans /\ i \in DOMAIN s
    BY <1>1
  <2>2. /\ t \in Seq(Chans) /\ Len(t) = IF 1 <= ns THEN ns - 1 + 1 ELSE 0
        /\ \A i \in 1 .. ns - 1 + 1 : t[i] = s[1 + i - 1]
    BY <1>1, <2>1, SubSeqProperties
  <2> HIDE DEF s, t
  <2>3. DOMAIN t = 1 .. ns /\ \A i \in 1 .. ns : t[i] = s[i]
    BY <1>1, <2>2
  <2>4. \A k \in Clashes(a) : k \in 1 .. n
    BY <1>1 DEF Clashes
  <2>5. \A i \in 1 .. ns : i \in DOMAIN s /\ \A k \in Clashes(a) : i < k
    BY <1>1, <2>1, <2>4
  <2> QED
    BY <2>3, <2>5 DEF s, t, ToSet, Claims
<1> QED
  BY <1>2, <1>3, <1>4 DEF Dirs

\* altmark takes nobody's mark away.
LEMMA SoleMarks ==
  ASSUME OwnAlts, LinkInv, WaitsInOwn, NEW p \in Progs, Running(p),
         NEW a \in Alts[p], NEW ns \in 0 .. Len(a.send),
         \/ Clashes(a) = {}
         \/ \A k \in Clashes(a) : ns < k,
         NEW f \in Dirs, NEW x \in Chans
  PROVE  \/ Mark(mark, a, ns, p)[f][x] = mark[f][x]
         \/ Mark(mark, a, ns, p)[f][x] = p /\ mark[f][x] = NoProg
<1>1. IsAlt(a)
  BY AltsFacts
<1>2. /\ ToSet(SubSeq(a.send, 1, ns)) \subseteq Claims(a, "send")
      /\ Claims(a, "recv") = Names(a, "recv")
  BY <1>1, ClaimFacts
<1>3. \/ Mark(mark, a, ns, p)[f][x] = mark[f][x]
      \/ Mark(mark, a, ns, p)[f][x] = p /\ x \in Claims(a, f)
  BY <1>2 DEF Mark, Dirs
<1>4. ASSUME x \in Claims(a, f), mark[f][x] # NoProg
      PROVE  FALSE
  <2>1. PICK r \in Progs : r = mark[f][x]
    BY <1>4, LinkFacts
  <2>2. state[r] = "alt" /\ x \in Names(alt[r], f) /\ IsAlt(alt[r])
    BY <1>4, <2>1, LinkFacts
  <2>3. r # p
    BY <2>1, RunningFacts
  <2>4. PICK b \in Alts[r] : b = alt[r] /\ Clashes(b) = {}
    BY <2>2 DEF WaitsInOwn
  <2>5. 0 \in 0 .. Len(b.send)
    BY <2>2, <2>4, SendFacts
  <2>6. Claims(b, f) = Names(b, f)
    BY <2>2, <2>4, <2>5, ClaimFacts
  <2> QED
    BY <1>4, <2>2, <2>3, <2>4, <2>6 DEF OwnAlts
<1> QED
  BY <1>3, <1>4

\* A step after which nobody waits who did not wait before for the same, and
\* which leaves the marks of who still does.
LEMMA FewerMatchInv ==
  ASSUME LinkInv, MatchInv,
         \A r \in Progs : state'[r] \in Waiting => state'[r] = state[r],
         \A r \in Progs : state'[r] \in Dirs => chan'[r] = chan[r],
         \A r \in Progs : state'[r] = "alt" => alt'[r] = alt[r],
         \A r \in Progs, f \in Dirs, x \in Chans :
            state'[r] = "alt" /\ mark[f][x] = r => mark'[f][x] = r
  PROVE  MatchInv'
<1>1. WaitsInOwn'
  <2>1. \A r \in Progs : state'[r] = "alt" =>
           alt'[r] \in Alts[r] /\ Clashes(alt'[r]) = {}
    BY DEF MatchInv, WaitsInOwn, Waiting
  <2> QED
    BY <2>1 DEF WaitsInOwn, Clashes
<1>2. AltFindable'
  <2> SUFFICES ASSUME NEW r \in Progs, state'[r] = "alt", NEW f \in Dirs,
                      NEW x \in Names(alt'[r], f)
               PROVE  mark'[f][x] = r
    BY DEF AltFindable
  <2>1. state[r] = "alt" /\ x \in Names(alt[r], f)
    BY DEF Waiting
  <2>2. x \in Chans
    <3>1. IsAlt(alt[r])
      BY LinkFacts
    <3> QED
      BY <2>1, <3>1, NamesFacts
  <2> QED
    BY <2>1, <2>2 DEF MatchInv, AltFindable
<1>3. \A r \in Progs, f \in Dirs, x \in Chans :
         (\/ state'[r] = f /\ chan'[r] = x
          \/ state'[r] = "alt" /\ x \in Names(alt'[r], f)) => Offers(r, f, x)
  BY DEF Offers, Waiting, Dirs
<1>4. Unmatched'
  <2> SUFFICES ASSUME NEW p \in Progs, NEW r \in Progs, NEW f \in Dirs, NEW x \in Chans
               PROVE  ~(Offers(p, f, x)' /\ Offers(r, Co(f), x)')
    BY DEF Unmatched, Co
  <2>1. ~(Offers(p, f, x) /\ Offers(r, Co(f), x))
    BY DEF MatchInv, Unmatched
  <2>2. Offers(p, f, x)' => Offers(p, f, x)
    BY <1>3 DEF Offers
  <2>3. Offers(r, Co(f), x)' => Offers(r, Co(f), x)
    BY <1>3, CoFacts DEF Offers, Co
  <2> QED
    BY <2>1, <2>2, <2>3
<1> QED
  BY <1>1, <1>2, <1>4 DEF MatchInv

\* A step after which one more thread waits, and found nobody to match.
LEMMA WaitMatchInv ==
  ASSUME LinkInv, MatchInv, NEW p \in Progs, Running(p),
         NEW s \in Waiting, state' = [state EXCEPT ![p] = s],
         \A r \in Progs \ {p} : chan'[r] = chan[r] /\ alt'[r] = alt[r],
         s = "alt" => /\ alt'[p] \in Alts[p] /\ Clashes(alt'[p]) = {}
                      /\ \A f \in Dirs : \A x \in Names(alt'[p], f) : mark'[f][x] = p,
         \A r \in Progs \ {p}, f \in Dirs, x \in Chans :
            mark[f][x] = r => mark'[f][x] = r,
         \A f \in Dirs, x \in Chans :
            Offers(p, f, x)' => /\ ~Partner(mark, f, x) /\ ~Offers(p, Co(f), x)'
  PROVE  MatchInv'
<1>1. state'[p] = s /\ \A r \in Progs \ {p} : state'[r] = state[r]
  BY LinkFacts
<1>2. WaitsInOwn'
  <2>1. \A r \in Progs : state'[r] = "alt" =>
           alt'[r] \in Alts[r] /\ Clashes(alt'[r]) = {}
    BY <1>1 DEF MatchInv, WaitsInOwn
  <2> QED
    BY <2>1 DEF WaitsInOwn, Clashes
<1>3. AltFindable'
  <2> SUFFICES ASSUME NEW r \in Progs, state'[r] = "alt", NEW f \in Dirs,
                      NEW x \in Names(alt'[r], f)
               PROVE  mark'[f][x] = r
    BY DEF AltFindable
  <2>1. CASE r = p
    BY <1>1, <2>1
  <2>2. CASE r # p
    <3>1. state[r] = "alt" /\ x \in Names(alt[r], f)
      BY <1>1, <2>2
    <3>2. IsAlt(alt[r])
      BY LinkFacts
    <3>3. x \in Chans
      BY <3>1, <3>2, NamesFacts
    <3>4. mark[f][x] = r
      BY <3>1 DEF MatchInv, AltFindable
    <3> QED
      BY <2>2, <3>3, <3>4
  <2> QED
    BY <2>1, <2>2
<1>4. \A r \in Progs \ {p}, f \in Dirs, x \in Chans :
         Offers(r, f, x)' => Offers(r, f, x)
  BY <1>1 DEF Offers
<1>5. \A r \in Progs \ {p}, f \in Dirs, x \in Chans :
         ~(Offers(p, f, x)' /\ Offers(r, Co(f), x)')
  <2> SUFFICES ASSUME NEW r \in Progs \ {p}, NEW f \in Dirs, NEW x \in Chans,
                      Offers(p, f, x)', Offers(r, Co(f), x)'
               PROVE  FALSE
    OBVIOUS
  <2>1. ~Partner(mark, f, x) /\ Co(f) \in Dirs
    BY CoFacts
  <2>2. Offers(r, Co(f), x)
    BY <1>4, <2>1 DEF Offers, Co
  <2>3. mark[Co(f)][x] # NoProg \/ queue[Co(f)][x] # <<>>
    BY <2>1, <2>2, OfferFound DEF MatchInv
  <2> QED
    BY <2>1, <2>3 DEF Partner
<1>6. Unmatched'
  <2> SUFFICES ASSUME NEW q \in Progs, NEW r \in Progs, NEW f \in Dirs, NEW x \in Chans,
                      Offers(q, f, x)', Offers(r, Co(f), x)'
               PROVE  FALSE
    BY DEF Unmatched, Co
  <2>1. PICK e \in Dirs : e = Co(f) /\ Co(e) = f
    BY CoFacts
  <2>2. CASE q = p /\ r = p
    BY <2>2
  <2>3. CASE q = p /\ r # p
    BY <1>5, <2>3
  <2>4. CASE q # p /\ r = p
    <3>1. Offers(r, e, x)' /\ Offers(q, Co(e), x)'
      BY <2>1
    <3> QED
      BY <1>5, <2>4, <3>1
  <2>5. CASE q # p /\ r # p
    <3>1. Offers(q, f, x) /\ Offers(r, e, x)
      BY <1>4, <2>1, <2>5
    <3> QED
      BY <2>1, <3>1 DEF MatchInv, Unmatched
  <2> QED
    BY <2>2, <2>3, <2>4, <2>5
<1> QED
  BY <1>2, <1>3, <1>6 DEF MatchInv

\* The marks m that p made were nobody's.
FreeMarks(m, p) ==
    \A f \in Dirs, x \in Chans :
        m[f][x] = mark[f][x] \/ (m[f][x] = p /\ mark[f][x] = NoProg)

LEMMA ExchangeMatchInv ==
  ASSUME LinkInv, MatchInv, NEW p \in Progs, Running(p),
         NEW d \in Dirs, NEW c \in Chans,
         NEW m, NEW own, NEW j, Marking(p, d, c, m, own),
         FreeMarks(m, p),
         Partner(mark, d, c), Exchange(p, d, c, m, own, j), Reassigned = FALSE,
         alt' = alt \/ alt' = [alt EXCEPT ![p] = own]
  PROVE  MatchInv'
<1>1. PICK q \in Progs : Exchanged(p, d, c, m, own, q)
  BY ExchangeFacts
<1>2. /\ q # p /\ state' = [state EXCEPT ![q] = "ready"]
      /\ chan' = [chan EXCEPT ![q] = NoChan]
      /\ \A f \in Dirs, x \in Chans :
            mark'[f][x] = IF m[f][x] \in {p, q} THEN NoProg ELSE mark[f][x]
  BY <1>1 DEF Exchanged
<1>3. state[p] = "ready"
  BY RunningFacts
<1>4. /\ state'[p] = "ready" /\ state'[q] = "ready"
      /\ \A r \in Progs \ {q} : state'[r] = state[r] /\ chan'[r] = chan[r]
  BY <1>2, <1>3, LinkFacts
<1>5. \A r \in Progs : state'[r] \in Waiting =>
         /\ r # p /\ r # q /\ state'[r] = state[r] /\ chan'[r] = chan[r]
         /\ alt'[r] = alt[r]
  BY <1>4, LinkFacts DEF Waiting
<1>6. ASSUME NEW r \in Progs, NEW f \in Dirs, NEW x \in Chans,
             state'[r] = "alt", mark[f][x] = r
      PROVE  mark'[f][x] = r
  <2>1. r # p /\ r # q /\ r # NoProg
    BY <1>5, <1>6, AltAssumption DEF Waiting
  <2> QED
    BY <1>2, <1>6, <2>1 DEF FreeMarks
<1> QED
  BY <1>5, <1>6, FewerMatchInv DEF Waiting, Dirs

\* Nothing that altrdy marks for an alt it accepts belongs to another.
LEMMA AcceptedMarks ==
  ASSUME OwnAlts, LinkInv, MatchInv, NEW p \in Progs, Running(p),
         NEW a \in Alts[p], Clashes(a) = {}
  PROVE  /\ Len(a.send) \in 0 .. Len(a.send)
         /\ \A f \in Dirs, x \in Chans :
               /\ Mark(mark, a, Len(a.send), p)[f][x] =
                     IF x \in Names(a, f) THEN p ELSE mark[f][x]
               /\ x \in Names(a, f) => mark[f][x] = NoProg
<1>1. IsAlt(a) /\ Len(a.send) \in 0 .. Len(a.send)
  <2>1. IsAlt(a) /\ Len(a.send) \in Nat
    BY AltsFacts, SendFacts
  <2> QED
    BY <2>1
<1>2. \A f \in Dirs, x \in Chans :
         Mark(mark, a, Len(a.send), p)[f][x] =
            IF x \in Names(a, f) THEN p ELSE mark[f][x]
  <2>1. mark \in MarkType
    BY LinkFacts
  <2> QED
    BY <1>1, <2>1, MarkFacts
<1>3. \A f \in Dirs, x \in Chans :
         \/ Mark(mark, a, Len(a.send), p)[f][x] = mark[f][x]
         \/ mark[f][x] = NoProg
  BY <1>1, SoleMarks DEF MatchInv
<1>4. \A f \in Dirs, x \in Chans : mark[f][x] # p
  BY RunningFacts
<1>5. ASSUME NEW f \in Dirs, NEW x \in Chans, x \in Names(a, f)
      PROVE  mark[f][x] = NoProg
  BY <1>2, <1>3, <1>4, <1>5
<1> QED
  BY <1>1, <1>2, <1>5

LEMMA CommunicateMatchInv ==
  ASSUME LinkInv, MatchInv, NEW p \in Progs, NEW d \in Dirs, NEW c \in Chans,
         Communicate(p, d, c), Reassigned = FALSE
  PROVE  MatchInv'
<1>1. Running(p)
  BY DEF Communicate
<1>2. CASE Partner(mark, d, c)
  <2>1. Exchange(p, d, c, mark, NoAlt, NoResult) /\ alt' = alt
    BY <1>2 DEF Communicate
  <2>2. IsAlt(NoAlt)
    BY NoAltFacts
  <2>3. Marking(p, d, c, mark, NoAlt) /\ FreeMarks(mark, p)
    BY <2>2, LinkFacts DEF Marking, FreeMarks
  <2> QED
    BY <1>1, <1>2, <2>1, <2>3, ExchangeMatchInv
<1>3. CASE ~Partner(mark, d, c)
  <2>1. /\ state' = [state EXCEPT ![p] = d]
        /\ chan' = [chan EXCEPT ![p] = c]
        /\ mark' = mark /\ alt' = alt
    BY <1>3 DEF Communicate, Block
  <2>2. chan'[p] = c /\ state'[p] = d
    BY <2>1, LinkFacts
  <2>3. \A f \in Dirs, x \in Chans : Offers(p, f, x)' <=> f = d /\ x = c
    BY <2>2 DEF Offers, Dirs
  <2>4. ASSUME NEW f \in Dirs, NEW x \in Chans, Offers(p, f, x)'
        PROVE  ~Partner(mark, f, x) /\ ~Offers(p, Co(f), x)'
    <3>1. f = d /\ x = c
      BY <2>3, <2>4
    <3>2. Co(f) \in Dirs /\ Co(f) # d
      BY <3>1, CoFacts
    <3> QED
      BY <1>3, <2>2, <3>1, <3>2 DEF Offers, Dirs, Co
  <2>5. d \in Waiting /\ d # "alt"
    BY DEF Dirs, Waiting
  <2>6. \A r \in Progs \ {p} : chan'[r] = chan[r] /\ alt'[r] = alt[r]
    BY <2>1, LinkFacts
  <2> QED
    BY <1>1, <2>1, <2>4, <2>5, <2>6, WaitMatchInv
<1> QED
  BY <1>2, <1>3

LEMMA AltMatchInv ==
  ASSUME OwnAlts, LinkInv, MatchInv, NEW p \in Progs, NEW a \in Alts[p],
         AltClash(p, a) \/ AltComm(p, a) \/ AltBlock(p, a) \/ AltNone(p, a),
         Reassigned = FALSE
  PROVE  MatchInv'
<1>1. Running(p) /\ IsAlt(a)
  BY AltsFacts DEF AltClash, AltComm, AltBlock, AltNone
<1>2. state[p] = "ready" /\ \A f \in Dirs, x \in Chans : mark[f][x] # p
  BY <1>1, RunningFacts
<1>3. CASE AltClash(p, a)
  <2>1. PICK k \in 1 .. Len(a.send) :
           /\ \A j \in Clashes(a) : k <= j
           /\ k = CHOOSE i \in Clashes(a) : \A j \in Clashes(a) : i <= j
    BY <1>1, <1>3, FirstClash DEF AltClash
  <2>2. PICK n \in Nat : Len(a.send) = n /\ DOMAIN a.send = 1 .. n
    BY <1>1, SendFacts
  <2>3. k - 1 \in 0 .. Len(a.send) /\ \A j \in Clashes(a) : k - 1 < j
    <3>1. \A j \in Clashes(a) : j \in 1 .. n
      BY <2>2 DEF Clashes
    <3> QED
      BY <2>1, <2>2, <3>1
  <2>4. PICK m : m = Mark(mark, a, k - 1, p)
    OBVIOUS
  <2>5. /\ mark' = Unmark(m, a, p) /\ Block(p, "broken")
        /\ alt' = alt /\ chan' = chan
    BY <1>3, <2>1, <2>4 DEF AltClash
  <2>6. \A f \in Dirs, x \in Chans :
           m[f][x] = mark[f][x] \/ mark[f][x] = NoProg
    BY <1>1, <2>3, <2>4, SoleMarks DEF MatchInv
  <2>7. m \in MarkType
    BY <1>1, <2>3, <2>4, MarkedFacts
  <2>8. \A f \in Dirs, x \in Chans :
           mark'[f][x] = IF x \in Names(a, f) /\ m[f][x] = p THEN NoProg ELSE m[f][x]
    BY <2>5, <2>7, UnmarkFacts
  <2>9. state' = [state EXCEPT ![p] = "broken"]
    BY <2>5 DEF Block
  <2>10. \A r \in Progs : state'[r] \in Waiting => state'[r] = state[r] /\ r # p
    BY <2>9, LinkFacts DEF Waiting
  <2>11. \A r \in Progs, f \in Dirs, x \in Chans :
            state'[r] = "alt" /\ mark[f][x] = r => mark'[f][x] = r
    BY <1>2, <2>6, <2>8, AltAssumption
  <2> QED
    BY <2>5, <2>10, <2>11, FewerMatchInv
<1>4. CASE AltComm(p, a)
  <2>1. PICK i \in Ready(a) :
           Exchange(p, Dir(a, i), ChanOf(a, i), Mark(mark, a, Len(a.send), p), a,
                    i)
    BY <1>4 DEF AltComm
  <2>2. PICK d, c, m : /\ d = Dir(a, i) /\ c = ChanOf(a, i)
                       /\ m = Mark(mark, a, Len(a.send), p)
    OBVIOUS
  <2>3. /\ i \in Alternatives(a) /\ c # NoChan /\ Partner(mark, d, c)
        /\ Exchange(p, d, c, m, a, i) /\ alt' = [alt EXCEPT ![p] = a]
        /\ Clashes(a) = {}
    BY <1>4, <2>1, <2>2 DEF AltComm, Ready
  <2>4. d \in Dirs /\ c \in Chans /\ c \in Names(a, d)
    BY <1>1, <2>2, <2>3, AlternativeFacts
  <2>5. Marking(p, d, c, m, a)
    BY <1>1, <2>2, <2>3, <2>4, AltCommMarking
  <2>6. FreeMarks(m, p)
    BY <1>1, <2>2, <2>3, AcceptedMarks DEF FreeMarks
  <2>7. alt' = alt \/ alt' = [alt EXCEPT ![p] = a]
    BY <2>3
  <2> QED
    BY <1>1, <2>3, <2>4, <2>5, <2>6, <2>7, ExchangeMatchInv
<1>5. CASE AltBlock(p, a)
  <2>1. /\ mark' = Mark(mark, a, Len(a.send), p)
        /\ state' = [state EXCEPT ![p] = "alt"]
        /\ alt' = [alt EXCEPT ![p] = a] /\ chan' = chan
        /\ Clashes(a) = {} /\ Ready(a) = {}
    BY <1>5 DEF AltBlock, Block
  <2>2. \A f \in Dirs, x \in Chans :
           /\ mark'[f][x] = IF x \in Names(a, f) THEN p ELSE mark[f][x]
           /\ x \in Names(a, f) => mark[f][x] = NoProg
    BY <1>1, <2>1, AcceptedMarks
  <2>3. alt'[p] = a /\ state'[p] = "alt"
    BY <2>1, LinkFacts
  <2>4. \A f \in Dirs : \A x \in Names(a, f) : x \in Chans
    BY <1>1, NamesFacts
  <2>5. \A f \in Dirs, x \in Chans : Offers(p, f, x)' => x \in Names(a, f)
    BY <2>3 DEF Offers, Dirs
  <2>6. ASSUME NEW f \in Dirs, NEW x \in Names(a, f)
        PROVE  ~Partner(mark, f, x) /\ x \notin Names(a, Co(f))
    <3>1. PICK i \in Alternatives(a) : Dir(a, i) = f /\ ChanOf(a, i) = x
      BY <1>1, AlternativeExists
    <3>2. ~Partner(mark, f, x)
      <4>1. x # NoChan
        BY <2>4, AltAssumption
      <4> QED
        BY <2>1, <3>1, <4>1 DEF Ready
    <3>3. x \notin Names(a, Co(f))
      BY <1>1, <2>1, NamesFacts
    <3> QED
      BY <3>2, <3>3
  <2>7. ASSUME NEW f \in Dirs, NEW x \in Chans, Offers(p, f, x)'
        PROVE  ~Partner(mark, f, x) /\ ~Offers(p, Co(f), x)'
    <3>1. x \in Names(a, f)
      BY <2>5, <2>7
    <3>2. Co(f) \in Dirs /\ x \notin Names(a, Co(f))
      BY <2>6, <3>1, CoFacts
    <3> QED
      BY <2>3, <2>6, <3>1, <3>2 DEF Offers, Dirs, Co
  <2>8. \A r \in Progs \ {p} : chan'[r] = chan[r] /\ alt'[r] = alt[r]
    BY <2>1, LinkFacts
  <2>9. /\ alt'[p] \in Alts[p] /\ Clashes(alt'[p]) = {}
        /\ \A f \in Dirs : \A x \in Names(alt'[p], f) : mark'[f][x] = p
    BY <2>1, <2>2, <2>3, <2>4
  <2>10. \A r \in Progs \ {p}, f \in Dirs, x \in Chans :
            mark[f][x] = r => mark'[f][x] = r
    BY <2>2, AltAssumption
  <2>11. "alt" \in Waiting
    BY DEF Waiting
  <2> QED
    BY <1>1, <2>1, <2>7, <2>8, <2>9, <2>10, <2>11, WaitMatchInv
<1>6. CASE AltNone(p, a)
  <2>1. PICK m : m = Mark(mark, a, Len(a.send), p)
    OBVIOUS
  <2>2. /\ mark' = Unmark(m, a, p) /\ Clashes(a) = {}
        /\ state' = state /\ alt' = alt /\ chan' = chan
    BY <1>6, <2>1 DEF AltNone
  <2>3. /\ m \in MarkType
        /\ \A f \in Dirs, x \in Chans :
             /\ m[f][x] = IF x \in Names(a, f) THEN p ELSE mark[f][x]
             /\ x \in Names(a, f) => mark[f][x] = NoProg
    BY <1>1, <2>1, <2>2, AcceptedMarks, MarkedFacts
  <2>4. \A f \in Dirs, x \in Chans :
           mark'[f][x] = IF x \in Names(a, f) /\ m[f][x] = p THEN NoProg ELSE m[f][x]
    BY <2>2, <2>3, UnmarkFacts
  <2>5. \A r \in Progs, f \in Dirs, x \in Chans :
            state'[r] = "alt" /\ mark[f][x] = r => mark'[f][x] = r
    BY <1>2, <2>3, <2>4, AltAssumption
  <2> QED
    BY <2>2, <2>5, FewerMatchInv
<1> QED
  BY <1>3, <1>4, <1>5, <1>6

LEMMA InitMatchInv == Init => MatchInv
<1> SUFFICES ASSUME Init PROVE MatchInv
  OBVIOUS
<1>1. \A p \in Progs : state[p] = "ready"
  BY DEF Init
<1> QED
  BY <1>1 DEF MatchInv, WaitsInOwn, AltFindable, Unmatched, Offers, Dirs

LEMMA NextMatchInv ==
  ASSUME OwnAlts, LinkInv, MatchInv, [Next]_vars, Reassigned = FALSE
  PROVE  MatchInv'
<1>1. CASE UNCHANGED vars
  BY <1>1, FewerMatchInv DEF vars
<1>2. CASE Next
  <2>1. CASE \E p \in Progs, c \in Chans : Isend(p, c) \/ Irecv(p, c)
    BY <2>1, CommunicateMatchInv DEF Isend, Irecv, Dirs
  <2>2. CASE \E p \in Progs : \E a \in Alts[p] :
                AltClash(p, a) \/ AltComm(p, a) \/ AltBlock(p, a) \/ AltNone(p, a)
    BY <2>2, AltMatchInv
  <2>3. ASSUME NEW p \in Progs, NEW q \in Progs, Killprog(p, q)
        PROVE  MatchInv'
    <3>1. /\ state'[q] = "dead" /\ \A r \in Progs \ {q} : state'[r] = state[r]
          /\ \A r \in Progs \ {q} : chan'[r] = chan[r]
          /\ alt' = alt
      BY <2>3, KillFacts
    <3>2. \A f \in Dirs, x \in Chans :
             mark'[f][x] = IF mark[f][x] = q THEN NoProg ELSE mark[f][x]
      BY <2>3, KillFacts
    <3> QED
      BY <3>1, <3>2, FewerMatchInv DEF Waiting, Dirs
  <2>4. ASSUME NEW p \in Progs, NEW q \in Progs, Newprog(p, q)
        PROVE  MatchInv'
    <3>1. /\ state' = [state EXCEPT ![q] = "ready"]
          /\ alt' = [alt EXCEPT ![q] = NoAlt]
          /\ mark' = mark /\ chan' = chan
      BY <2>4 DEF Newprog
    <3>2. \A r \in Progs : state'[r] \in Waiting =>
             state'[r] = state[r] /\ alt'[r] = alt[r]
      BY <3>1, LinkFacts DEF Waiting
    <3> QED
      BY <3>1, <3>2, FewerMatchInv DEF Waiting
  <2>5. ASSUME NEW p \in Progs, Progexit(p)
        PROVE  MatchInv'
    <3>1. /\ state' = [state EXCEPT ![p] = "dead"]
          /\ mark' = mark /\ chan' = chan /\ alt' = alt
      BY <2>5 DEF Progexit, Block
    <3>2. \A r \in Progs : state'[r] \in Waiting => state'[r] = state[r]
      BY <3>1, LinkFacts DEF Waiting
    <3> QED
      BY <3>1, <3>2, FewerMatchInv
  <2>6. CASE Quantum
    BY <2>6, FewerMatchInv DEF Quantum
  <2>7. CASE \E p, q \in Progs : Assign(p, q)
    BY <2>7, FewerMatchInv DEF Assign
  <2> QED
    BY <1>2, <2>1, <2>2, <2>3, <2>4, <2>5, <2>6, <2>7 DEF Next
<1> QED
  BY <1>1, <1>2

LEMMA MatchInvariant ==
  ASSUME OwnAlts, Reassigned = FALSE
  PROVE  Spec => [](LinkInv /\ MatchInv)
<1>1. Init => LinkInv /\ MatchInv
  BY InitLinkInv, InitMatchInv
<1>2. LinkInv /\ MatchInv /\ [Next]_vars => (LinkInv /\ MatchInv)'
  BY NextLinkInv, NextMatchInv
<1> QED
  BY <1>1, <1>2, PTL DEF Spec

\* A thread that waits in an alt is found through every channel of the alt, if
\* no two threads have one direction of a channel in their alts and none is
\* unlinked after an operand of its changed.
THEOREM AltsFound ==
  ASSUME OwnAlts, Reassigned = FALSE
  PROVE  Spec => []AltFindable
<1>1. LinkInv /\ MatchInv => AltFindable
  BY DEF MatchInv
<1> QED
  BY <1>1, MatchInvariant, PTL

\* No sender and receiver wait for each other, if no two threads have one
\* direction of a channel in their alts and none is unlinked after an operand
\* of its changed.
THEOREM PartnersMeet ==
  ASSUME OwnAlts, Reassigned = FALSE
  PROVE  Spec => []NoMissedPartner
<1>1. LinkInv /\ MatchInv => NoMissedPartner
  <2> SUFFICES ASSUME LinkInv, MatchInv, NEW p \in Progs, NEW q \in Progs,
                      NEW o \in Offer(p), <<Co(o[1]), o[2]>> \in Offer(q)
               PROVE  FALSE
    BY DEF NoMissedPartner
  <2>1. PICK f \in Dirs, x \in Chans : o = <<f, x>>
    BY OfferFacts
  <2>2. Offers(p, f, x)
    BY <2>1, OfferFacts
  <2>3. Offers(q, Co(f), x)
    BY <2>1, OfferFacts, CoFacts
  <2> QED
    BY <2>2, <2>3 DEF MatchInv, Unmatched
<1> QED
  BY <1>1, MatchInvariant, PTL

----------------------------------------------------------------------------
(* The refinement of ChanSpec. *)

Offering == [p \in Progs |-> Offer(p)]

\* Who waits for the same as before offers the same.
LEMMA SameOffer ==
  ASSUME NEW r \in Progs,
         \/ /\ state'[r] = state[r] /\ chan'[r] = chan[r]
            /\ state[r] = "alt" => alt'[r] = alt[r]
         \/ state[r] \notin Waiting /\ state'[r] \notin Waiting
  PROVE  Offer(r)' = Offer(r)
BY DEF Offer, Waiting, Dirs

\* An exchange is a match.
LEMMA ExchangeMatches ==
  ASSUME LinkInv, NEW p \in Progs, Running(p), NEW d \in Dirs, NEW c \in Chans,
         NEW m, NEW own, NEW j, Marking(p, d, c, m, own),
         Partner(mark, d, c), Exchange(p, d, c, m, own, j), Reassigned = FALSE,
         alt' = alt \/ alt' = [alt EXCEPT ![p] = own]
  PROVE  \E q \in Progs : Channels!Match(p, q, d, c)
<1>1. PICK q \in Progs : Exchanged(p, d, c, m, own, q)
  BY ExchangeFacts
<1>2. /\ q # p /\ state' = [state EXCEPT ![q] = "ready"]
      /\ chan' = [chan EXCEPT ![q] = NoChan]
      /\ \/ state[q] = Co(d) /\ chan[q] = c
         \/ state[q] = "alt" /\ c \in Names(alt[q], Co(d))
  BY <1>1 DEF Exchanged
<1>3. last' = [last EXCEPT ![p] = [dir |-> d, chan |-> c, peer |-> q],
                           ![q] = [dir |-> Co(d), chan |-> c, peer |-> p]]
  BY <1>1 DEF Exchanged
<1>4. state[p] = "ready" /\ Co(d) \in Dirs
  BY RunningFacts, CoFacts
<1>5. Offer(p) = {}
  BY <1>4 DEF Offer, Dirs
<1>6. <<Co(d), c>> \in Offer(q)
  BY <1>2, <1>4, OfferFacts DEF Offers
<1>7. state'[q] = "ready" /\ \A r \in Progs \ {q} : state'[r] = state[r]
                          /\ chan'[r] = chan[r]
  BY <1>2, LinkFacts
<1>8. Offer(q)' = {}
  BY <1>7 DEF Offer, Dirs
<1>9. ASSUME NEW r \in Progs \ {q}
      PROVE  Offer(r)' = Offer(r)
  <2>1. state[r] = "alt" => alt'[r] = alt[r]
    BY <1>4, LinkFacts
  <2> QED
    BY <1>7, <2>1, SameOffer
<1>10. Offering' = [Offering EXCEPT ![q] = {}]
  BY <1>8, <1>9 DEF Offering
<1>11. Channels!Co(d) = Co(d)
  BY DEF Channels!Co, Co
<1> QED
  BY <1>3, <1>5, <1>6, <1>10, <1>11
     DEF Channels!Match, Channels!Comm, Channels!Co, Co, Offering

\* A thread that finds nobody and blocks, waits; one that waits for nothing,
\* in an alt without alternatives, takes no step of ChanSpec.
LEMMA BlockWaits ==
  ASSUME LinkInv, MatchInv, NEW p \in Progs, Running(p),
         \A r \in Progs \ {p} : Offer(r)' = Offer(r),
         Offer(p)' \subseteq Dirs \X Chans,
         \A f \in Dirs, x \in Chans :
            <<f, x>> \in Offer(p)' => ~Partner(mark, f, x),
         last' = last
  PROVE  Channels!ChanNext \/ UNCHANGED <<Offering, last>>
<1>1. Offer(p) = {}
  BY RunningFacts DEF Offer, Dirs
<1>2. CASE Offer(p)' = {}
  <2>1. \A r \in Progs : Offer(r)' = Offer(r)
    BY <1>1, <1>2
  <2> QED
    BY <2>1 DEF Offering
<1>3. CASE Offer(p)' # {}
  <2>1. PICK O : O = Offer(p)'
    OBVIOUS
  <2>2. Offering' = [Offering EXCEPT ![p] = O]
    BY <2>1 DEF Offering
  <2>3. ASSUME NEW o \in O, NEW q \in Progs, <<Co(o[1]), o[2]>> \in Offer(q)
        PROVE  FALSE
    <3>1. PICK f \in Dirs, x \in Chans : o = <<f, x>>
      BY <2>1, <2>3
    <3>2. ~Partner(mark, f, x) /\ Co(f) \in Dirs
      BY <2>1, <2>3, <3>1, CoFacts
    <3>3. Offers(q, Co(f), x)
      BY <2>3, <3>1, <3>2, OfferFacts
    <3>4. mark[Co(f)][x] # NoProg \/ queue[Co(f)][x] # <<>>
      BY <3>2, <3>3, OfferFound DEF MatchInv
    <3> QED
      BY <3>2, <3>4 DEF Partner
  <2>4. ~Channels!Matchable(O)
    BY <2>3 DEF Channels!Matchable, Channels!Co, Co
  <2>5. Offering[p] = {} /\ O # {}
    BY <1>1, <1>3, <2>1 DEF Offering
  <2>6. Channels!Wait(p, O)
    BY <2>2, <2>4, <2>5 DEF Channels!Wait, Offering
  <2>7. O \in Channels!Offers
    BY <2>1 DEF Channels!Offers, Channels!Dirs, Dirs
  <2> QED
    BY <2>6, <2>7 DEF Channels!ChanNext
<1> QED
  BY <1>2, <1>3

LEMMA CommunicateStep ==
  ASSUME LinkInv, MatchInv, NEW p \in Progs, NEW d \in Dirs, NEW c \in Chans,
         Communicate(p, d, c), Reassigned = FALSE
  PROVE  Channels!ChanNext \/ UNCHANGED <<Offering, last>>
<1>1. Running(p)
  BY DEF Communicate
<1>2. CASE Partner(mark, d, c)
  <2>1. Exchange(p, d, c, mark, NoAlt, NoResult) /\ alt' = alt
    BY <1>2 DEF Communicate
  <2>2. IsAlt(NoAlt)
    BY NoAltFacts
  <2>3. Marking(p, d, c, mark, NoAlt)
    BY <2>2, LinkFacts DEF Marking
  <2>4. PICK q \in Progs : Channels!Match(p, q, d, c)
    BY <1>1, <1>2, <2>1, <2>3, ExchangeMatches
  <2> QED
    BY <2>4 DEF Channels!ChanNext, Channels!Dirs, Dirs
<1>3. CASE ~Partner(mark, d, c)
  <2>1. /\ state' = [state EXCEPT ![p] = d]
        /\ chan' = [chan EXCEPT ![p] = c]
        /\ mark' = mark /\ alt' = alt /\ last' = last
    BY <1>3 DEF Communicate, Block
  <2>2. chan'[p] = c /\ state'[p] = d
    BY <2>1, LinkFacts
  <2>3. Offer(p)' = {<<d, c>>}
    BY <2>2 DEF Offer
  <2>4. ASSUME NEW r \in Progs \ {p}
        PROVE  Offer(r)' = Offer(r)
    <3>1. state'[r] = state[r] /\ chan'[r] = chan[r] /\ alt'[r] = alt[r]
      BY <2>1, LinkFacts
    <3> QED
      BY <3>1, SameOffer
  <2>5. Offer(p)' \subseteq Dirs \X Chans
    BY <2>3
  <2>6. \A f \in Dirs, x \in Chans :
            <<f, x>> \in Offer(p)' => ~Partner(mark, f, x)
    BY <1>3, <2>3
  <2> QED
    BY <1>1, <2>1, <2>4, <2>5, <2>6, BlockWaits
<1> QED
  BY <1>2, <1>3

LEMMA AltStep ==
  ASSUME LinkInv, MatchInv, NEW p \in Progs, NEW a \in Alts[p],
         AltClash(p, a) \/ AltComm(p, a) \/ AltBlock(p, a) \/ AltNone(p, a),
         Reassigned = FALSE
  PROVE  Channels!ChanNext \/ UNCHANGED <<Offering, last>>
<1>1. Running(p) /\ IsAlt(a)
  BY AltsFacts DEF AltClash, AltComm, AltBlock, AltNone
<1>2. state[p] = "ready"
  BY <1>1, RunningFacts
<1>3. CASE AltClash(p, a) \/ AltNone(p, a)
  <2>1. /\ state' = state \/ state' = [state EXCEPT ![p] = "broken"]
        /\ alt' = alt /\ chan' = chan /\ last' = last
    BY <1>3 DEF AltClash, AltNone, Block
  <2>2. ASSUME NEW r \in Progs
        PROVE  Offer(r)' = Offer(r)
    <3>1. state'[r] = state[r] \/ (r = p /\ state'[r] = "broken")
      BY <2>1, LinkFacts
    <3> QED
      BY <1>2, <2>1, <3>1, SameOffer DEF Waiting
  <2> QED
    BY <2>1, <2>2 DEF Offering
<1>4. CASE AltComm(p, a)
  <2>1. PICK i \in Ready(a) :
           Exchange(p, Dir(a, i), ChanOf(a, i), Mark(mark, a, Len(a.send), p), a,
                    i)
    BY <1>4 DEF AltComm
  <2>2. PICK d, c, m : /\ d = Dir(a, i) /\ c = ChanOf(a, i)
                       /\ m = Mark(mark, a, Len(a.send), p)
    OBVIOUS
  <2>3. /\ i \in Alternatives(a) /\ c # NoChan /\ Partner(mark, d, c)
        /\ Exchange(p, d, c, m, a, i) /\ alt' = [alt EXCEPT ![p] = a]
        /\ Clashes(a) = {}
    BY <1>4, <2>1, <2>2 DEF AltComm, Ready
  <2>4. d \in Dirs /\ c \in Chans /\ c \in Names(a, d)
    BY <1>1, <2>2, <2>3, AlternativeFacts
  <2>5. Marking(p, d, c, m, a)
    BY <1>1, <2>2, <2>3, <2>4, AltCommMarking
  <2>6. alt' = alt \/ alt' = [alt EXCEPT ![p] = a]
    BY <2>3
  <2>7. PICK q \in Progs : Channels!Match(p, q, d, c)
    BY <1>1, <2>3, <2>4, <2>5, <2>6, ExchangeMatches
  <2> QED
    BY <2>4, <2>7 DEF Channels!ChanNext, Channels!Dirs, Dirs
<1>5. CASE AltBlock(p, a)
  <2>1. /\ state' = [state EXCEPT ![p] = "alt"]
        /\ alt' = [alt EXCEPT ![p] = a] /\ chan' = chan /\ last' = last
        /\ Ready(a) = {}
    BY <1>5 DEF AltBlock, Block
  <2>2. alt'[p] = a /\ state'[p] = "alt"
    BY <2>1, LinkFacts
  <2>3. Offer(p)' = {o \in Dirs \X Chans : o[2] \in Names(a, o[1])}
    BY <2>2 DEF Offer, Dirs
  <2>4. ASSUME NEW r \in Progs \ {p}
        PROVE  Offer(r)' = Offer(r)
    <3>1. state'[r] = state[r] /\ chan'[r] = chan[r] /\ alt'[r] = alt[r]
      BY <2>1, LinkFacts
    <3> QED
      BY <3>1, SameOffer
  <2>5. Offer(p)' \subseteq Dirs \X Chans
    BY <2>3
  <2>6. ASSUME NEW f \in Dirs, NEW x \in Chans, <<f, x>> \in Offer(p)'
        PROVE  ~Partner(mark, f, x)
    <3>1. x \in Names(a, f)
      BY <2>3, <2>6
    <3>2. PICK i \in Alternatives(a) : Dir(a, i) = f /\ ChanOf(a, i) = x
      BY <1>1, <3>1, AlternativeExists
    <3>3. x # NoChan
      BY AltAssumption
    <3> QED
      BY <2>1, <3>2, <3>3 DEF Ready
  <2> QED
    BY <1>1, <2>1, <2>4, <2>5, <2>6, BlockWaits
<1> QED
  BY <1>3, <1>4, <1>5

\* Killing a thread that waits withdraws its offer.
LEMMA KillprogStep ==
  ASSUME LinkInv, NEW p \in Progs, NEW q \in Progs, Killprog(p, q),
         Reassigned = FALSE
  PROVE  Channels!ChanNext \/ UNCHANGED <<Offering, last>>
<1>1. /\ state'[q] = "dead" /\ \A r \in Progs \ {q} : state'[r] = state[r]
      /\ \A r \in Progs \ {q} : chan'[r] = chan[r]
      /\ alt' = alt /\ last' = last
  BY KillFacts
<1>2. Offer(q)' = {}
  BY <1>1 DEF Offer, Dirs
<1>3. ASSUME NEW r \in Progs \ {q}
      PROVE  Offer(r)' = Offer(r)
  BY <1>1, SameOffer
<1>4. CASE Offer(q) = {}
  BY <1>1, <1>2, <1>3, <1>4 DEF Offering
<1>5. CASE Offer(q) # {}
  <2>1. Offering' = [Offering EXCEPT ![q] = {}] /\ Offering[q] # {}
    BY <1>2, <1>3, <1>5 DEF Offering
  <2>2. Channels!Withdraw(q)
    BY <1>1, <2>1 DEF Channels!Withdraw, Offering
  <2> QED
    BY <2>2 DEF Channels!ChanNext
<1> QED
  BY <1>4, <1>5

LEMMA NextStep ==
  ASSUME LinkInv, MatchInv, [Next]_vars, Reassigned = FALSE
  PROVE  Channels!ChanNext \/ UNCHANGED <<Offering, last>>
<1>1. CASE UNCHANGED vars
  BY <1>1 DEF vars, Offering, Offer
<1>2. CASE Next
  <2>1. CASE \E p \in Progs, c \in Chans : Isend(p, c) \/ Irecv(p, c)
    BY <2>1, CommunicateStep DEF Isend, Irecv, Dirs
  <2>2. CASE \E p \in Progs : \E a \in Alts[p] :
                AltClash(p, a) \/ AltComm(p, a) \/ AltBlock(p, a) \/ AltNone(p, a)
    BY <2>2, AltStep
  <2>3. CASE \E p, q \in Progs : Killprog(p, q)
    BY <2>3, KillprogStep
  <2>4. ASSUME NEW p \in Progs, NEW q \in Progs, Newprog(p, q)
        PROVE  UNCHANGED <<Offering, last>>
    <3>1. /\ state[q] = "dead" /\ state' = [state EXCEPT ![q] = "ready"]
          /\ alt' = [alt EXCEPT ![q] = NoAlt] /\ chan' = chan /\ last' = last
      BY <2>4 DEF Newprog
    <3>2. ASSUME NEW r \in Progs
          PROVE  Offer(r)' = Offer(r)
      <4>1. CASE r = q
        <5>1. state'[q] = "ready"
          BY <3>1, LinkFacts
        <5> QED
          BY <3>1, <4>1, <5>1, SameOffer DEF Waiting
      <4>2. CASE r # q
        <5>1. state'[r] = state[r] /\ chan'[r] = chan[r] /\ alt'[r] = alt[r]
          BY <3>1, <4>2, LinkFacts
        <5> QED
          BY <5>1, SameOffer
      <4> QED
        BY <4>1, <4>2
    <3> QED
      BY <3>1, <3>2 DEF Offering
  <2>5. ASSUME NEW p \in Progs, Progexit(p)
        PROVE  UNCHANGED <<Offering, last>>
    <3>1. /\ state' = [state EXCEPT ![p] = "dead"] /\ state[p] = "ready"
          /\ alt' = alt /\ chan' = chan /\ last' = last
      BY <2>5, RunningFacts DEF Progexit, Block
    <3>2. ASSUME NEW r \in Progs
          PROVE  Offer(r)' = Offer(r)
      <4>1. state'[r] = state[r] \/ (r = p /\ state'[r] = "dead")
        BY <3>1, LinkFacts
      <4> QED
        BY <3>1, <4>1, SameOffer DEF Waiting
    <3> QED
      BY <3>1, <3>2 DEF Offering
  <2>6. CASE Quantum
    BY <2>6 DEF Quantum, Offering, Offer
  <2>7. CASE \E p, q \in Progs : Assign(p, q)
    BY <2>7 DEF Assign, Offering, Offer
  <2> QED
    BY <1>2, <2>1, <2>2, <2>3, <2>4, <2>5, <2>6, <2>7 DEF Next
<1> QED
  BY <1>1, <1>2

\* isend, irecv, alt, nbalt and killprog implement the matching of offers, if
\* no two threads have one direction of a channel in their alts and none is
\* unlinked after an operand of its changed: who exchanges a value was matched,
\* and who waits found no partner.
THEOREM ChannelsImplemented ==
  ASSUME OwnAlts, Reassigned = FALSE
  PROVE  Spec => ImplementsChannels
<1>1. Init => Channels!ChanInit
  BY DEF Init, Channels!ChanInit, Offer, Dirs, NoComm, Channels!NoComm
<1>2. LinkInv /\ MatchInv /\ [Next]_vars => [Channels!ChanNext]_(Channels!chanVars)
  BY NextStep DEF Channels!chanVars, Offering
<1> QED
  BY <1>1, <1>2, MatchInvariant, PTL
     DEF Spec, ImplementsChannels, Channels!ChannelSpec
=============================================================================
