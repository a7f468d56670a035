----------------------------- MODULE QueueFacts -----------------------------
(***************************************************************************)
(* What linking and unlinking do to a queue, as a sequence and, where its  *)
(* members are different, as the set of its members.                       *)
(***************************************************************************)
EXTENDS Integers, Sequences, SequencesExt, SequenceTheorems,
        WellFoundedInduction, TLAPS

\* What linking at the tail does to the queue.
LEMMA AppendFacts ==
  ASSUME NEW S, NEW s \in Seq(S), NEW x \in S
  PROVE  /\ Append(s, x) \in Seq(S)
         /\ DOMAIN s = 1 .. Len(s) /\ Len(s) \in Nat
         /\ \A i \in DOMAIN s : s[i] \in S
         /\ DOMAIN Append(s, x) = 1 .. (Len(s) + 1)
         /\ \A i \in DOMAIN s : Append(s, x)[i] = s[i]
         /\ Append(s, x)[Len(s) + 1] = x
  OBVIOUS

\* What unlinking the head does to the queue.
LEMMA TailFacts ==
  ASSUME NEW S, NEW s \in Seq(S), s # <<>>
  PROVE  /\ Tail(s) \in Seq(S)
         /\ Len(s) \in Nat \ {0}
         /\ DOMAIN s = 1 .. Len(s)
         /\ \A i \in DOMAIN s : s[i] \in S
         /\ DOMAIN Tail(s) = 1 .. (Len(s) - 1)
         /\ \A i \in DOMAIN Tail(s) :
               i + 1 \in DOMAIN s /\ Tail(s)[i] = s[i + 1]
         /\ 1 \in DOMAIN s /\ Head(s) = s[1] /\ s[1] \in S
  OBVIOUS

\* The empty queue.
LEMMA EmptyFacts ==
  ASSUME NEW S
  PROVE  <<>> \in Seq(S) /\ Len(<<>>) <= 1 /\ DOMAIN <<>> = {}
  OBVIOUS

----------------------------------------------------------------------------
(* The members of a queue that has each of them once. *)

\* Linking at the tail.
LEMMA AppendSet ==
  ASSUME NEW S, NEW s \in Seq(S), NEW x \in S
  PROVE  /\ Append(s, x) \in Seq(S)
         /\ ToSet(Append(s, x)) = ToSet(s) \cup {x}
         /\ IsInjective(s) /\ x \notin ToSet(s) => IsInjective(Append(s, x))
         /\ Append(s, x) # <<>>
         /\ s # <<>> => Head(Append(s, x)) = Head(s)
         /\ s = <<>> => Head(Append(s, x)) = x
<1>1. /\ Append(s, x) \in Seq(S) /\ Len(s) \in Nat
      /\ DOMAIN s = 1 .. Len(s) /\ DOMAIN Append(s, x) = 1 .. (Len(s) + 1)
      /\ \A i \in DOMAIN s : Append(s, x)[i] = s[i]
      /\ Append(s, x)[Len(s) + 1] = x
  OBVIOUS
<1>2. ToSet(Append(s, x)) = ToSet(s) \cup {x}
  BY <1>1 DEF ToSet
<1>3. ASSUME IsInjective(s), x \notin ToSet(s)
      PROVE  IsInjective(Append(s, x))
  BY <1>1, <1>3 DEF IsInjective, ToSet
<1>4. /\ Append(s, x) # <<>>
      /\ s # <<>> => Head(Append(s, x)) = Head(s)
      /\ s = <<>> => Head(Append(s, x)) = x
  OBVIOUS
<1> QED
  BY <1>1, <1>2, <1>3, <1>4

\* Linking at the head.
LEMMA ConsSet ==
  ASSUME NEW S, NEW s \in Seq(S), NEW x \in S
  PROVE  /\ <<x>> \o s \in Seq(S)
         /\ ToSet(<<x>> \o s) = ToSet(s) \cup {x}
         /\ IsInjective(s) /\ x \notin ToSet(s) => IsInjective(<<x>> \o s)
         /\ <<x>> \o s # <<>> /\ Head(<<x>> \o s) = x
<1> DEFINE t == <<x>> \o s
<1>1. /\ t \in Seq(S) /\ Len(s) \in Nat
      /\ DOMAIN s = 1 .. Len(s) /\ DOMAIN t = 1 .. (Len(s) + 1)
      /\ t[1] = x /\ \A i \in DOMAIN s : t[i + 1] = s[i]
  OBVIOUS
<1>2. t # <<>> /\ Head(t) = x
  OBVIOUS
<1> HIDE DEF t
<1>3. \A i \in DOMAIN t : i = 1 \/ (i - 1 \in DOMAIN s /\ t[i] = s[i - 1])
  <2>1. ASSUME NEW i \in DOMAIN t, i # 1
        PROVE  i - 1 \in DOMAIN s /\ t[i] = s[i - 1]
    <3>1. i - 1 \in DOMAIN s /\ (i - 1) + 1 = i
      BY <1>1, <2>1
    <3>2. t[(i - 1) + 1] = s[i - 1]
      BY <1>1, <3>1
    <3> QED
      BY <3>1, <3>2
  <2>2. ASSUME NEW i \in DOMAIN t
        PROVE  i = 1 \/ (i - 1 \in DOMAIN s /\ t[i] = s[i - 1])
    BY <2>1
  <2> QED
    BY <2>2
<1>4. ToSet(t) = ToSet(s) \cup {x}
  <2>1. \A i \in DOMAIN t : t[i] \in ToSet(s) \cup {x}
    BY <1>1, <1>3 DEF ToSet
  <2>2. \A i \in DOMAIN s : s[i] \in ToSet(t)
    <3>1. \A i \in DOMAIN s : i + 1 \in DOMAIN t
      BY <1>1
    <3> QED
      BY <1>1, <3>1 DEF ToSet
  <2>3. x \in ToSet(t)
    <3>1. 1 \in DOMAIN t
      BY <1>1
    <3> QED
      BY <1>1, <3>1 DEF ToSet
  <2> QED
    BY <2>1, <2>2, <2>3 DEF ToSet
<1>5. ASSUME IsInjective(s), x \notin ToSet(s)
      PROVE  IsInjective(t)
  BY <1>1, <1>3, <1>5 DEF IsInjective, ToSet
<1> QED
  BY <1>1, <1>2, <1>4, <1>5 DEF t

\* Unlinking the head.
LEMMA TailSet ==
  ASSUME NEW S, NEW s \in Seq(S), s # <<>>
  PROVE  /\ Tail(s) \in Seq(S)
         /\ Head(s) \in ToSet(s) /\ Head(s) \in S
         /\ IsInjective(s) =>
               IsInjective(Tail(s)) /\ ToSet(Tail(s)) = ToSet(s) \ {Head(s)}
<1>1. /\ Tail(s) \in Seq(S) /\ Len(s) \in Nat \ {0}
      /\ DOMAIN s = 1 .. Len(s) /\ DOMAIN Tail(s) = 1 .. (Len(s) - 1)
      /\ \A i \in DOMAIN Tail(s) : Tail(s)[i] = s[i + 1]
      /\ Head(s) = s[1] /\ s[1] \in S
  OBVIOUS
<1>2. Head(s) \in ToSet(s)
  BY <1>1 DEF ToSet
<1>3. ASSUME IsInjective(s)
      PROVE  IsInjective(Tail(s)) /\ ToSet(Tail(s)) = ToSet(s) \ {Head(s)}
  <2>1. IsInjective(Tail(s))
    BY <1>1, <1>3 DEF IsInjective
  <2>2. \A i \in DOMAIN s : s[i] # Head(s) =>
            i - 1 \in DOMAIN Tail(s) /\ s[i] = Tail(s)[i - 1]
    BY <1>1
  <2>3. \A i \in DOMAIN Tail(s) : i + 1 \in DOMAIN s /\ Tail(s)[i] # Head(s)
    BY <1>1, <1>3 DEF IsInjective
  <2> QED
    BY <1>1, <2>1, <2>2, <2>3 DEF ToSet
<1> QED
  BY <1>1, <1>2, <1>3

\* The empty queue, and queues with members.
LEMMA EmptySet ==
  ASSUME NEW S
  PROVE  /\ <<>> \in Seq(S) /\ ToSet(<<>>) = {} /\ IsInjective(<<>>)
         /\ \A s \in Seq(S) : s # <<>> => ToSet(s) # {}
         /\ \A s \in Seq(S) : ToSet(s) \subseteq S
<1>1. <<>> \in Seq(S) /\ DOMAIN <<>> = {}
  OBVIOUS
<1>2. ToSet(<<>>) = {} /\ IsInjective(<<>>)
  BY <1>1 DEF ToSet, IsInjective
<1>3. \A s \in Seq(S) : s # <<>> => 1 \in DOMAIN s
  OBVIOUS
<1>4. \A s \in Seq(S) : \A i \in DOMAIN s : s[i] \in S
  OBVIOUS
<1> QED
  BY <1>1, <1>2, <1>3, <1>4 DEF ToSet

\* Unlinking a member, wherever it stands.
LEMMA RemoveSet ==
  ASSUME NEW S, NEW s \in Seq(S), NEW x, IsInjective(s)
  PROVE  /\ RemoveFirst(s, x) \in Seq(S) /\ IsInjective(RemoveFirst(s, x))
         /\ ToSet(RemoveFirst(s, x)) = ToSet(s) \ {x}
         /\ s # <<>> /\ Head(s) # x =>
               RemoveFirst(s, x) # <<>> /\ Head(RemoveFirst(s, x)) = Head(s)
<1>1. Len(s) \in Nat /\ DOMAIN s = 1 .. Len(s)
  OBVIOUS
<1>2. CASE ~\E i \in 1 .. Len(s) : s[i] = x
  <2>1. RemoveFirst(s, x) = s
    BY <1>2 DEF RemoveFirst
  <2> QED
    BY <1>1, <1>2, <2>1 DEF ToSet
<1>3. CASE \E i \in 1 .. Len(s) : s[i] = x
  <2>1. PICK k \in 1 .. Len(s) : s[k] = x
    BY <1>3
  <2>2. \A i \in 1 .. Len(s) : s[i] = x => i = k
    BY <1>1, <2>1 DEF IsInjective
  <2>3. SelectInSeq(s, LAMBDA v : v = x) = k
    BY <1>1, <2>1, <2>2 DEF SelectInSeq, Min
  <2>4. RemoveFirst(s, x) = RemoveAt(s, k)
    BY <1>3, <2>3 DEF RemoveFirst
  <2> DEFINE t == RemoveAt(s, k)
  <2>5. /\ t \in Seq(S) /\ DOMAIN t = 1 .. (Len(s) - 1)
        /\ \A i \in 1 .. (k - 1) : t[i] = s[i]
        /\ \A i \in k .. (Len(s) - 1) : t[i] = s[i + 1]
    <3> DEFINE a == SubSeq(s, 1, k - 1)
               b == SubSeq(s, k + 1, Len(s))
    <3>0. /\ k \in Int /\ k - 1 \in Int /\ k + 1 \in Int
          /\ 1 \in Int /\ Len(s) \in Int
          /\ (\A i \in 1 .. (k - 1) : s[i] \in S)
          /\ (\A i \in (k + 1) .. Len(s) : s[i] \in S)
      BY <1>1, <2>1
    <3>1. /\ a \in Seq(S) /\ Len(a) = k - 1
          /\ \A i \in 1 .. (k - 1) : a[i] = s[i]
      BY <1>1, <2>1
    <3>2. /\ b \in Seq(S) /\ Len(b) = Len(s) - k
          /\ \A i \in 1 .. (Len(s) - k) : b[i] = s[i + k]
      <4>1. /\ b \in Seq(S)
            /\ Len(b) = IF k + 1 <= Len(s) THEN Len(s) - (k + 1) + 1 ELSE 0
            /\ \A i \in 1 .. Len(s) - (k + 1) + 1 : b[i] = s[(k + 1) + i - 1]
        BY <3>0, SubSeqProperties
      <4> HIDE DEF b
      <4>2. Len(b) = Len(s) - k
        BY <1>1, <2>1, <4>1
      <4>3. ASSUME NEW i \in 1 .. (Len(s) - k)
            PROVE  b[i] = s[i + k]
        <5>1. i \in 1 .. Len(s) - (k + 1) + 1 /\ (k + 1) + i - 1 = i + k
          BY <1>1, <2>1
        <5> QED
          BY <4>1, <5>1
      <4> QED
        BY <4>1, <4>2, <4>3
    <3>3. t = a \o b
      BY DEF RemoveAt
    <3> HIDE DEF a, b, t
    <3>4. t \in Seq(S) /\ Len(t) = Len(s) - 1 /\ DOMAIN t = 1 .. Len(t)
      <4>1. t \in Seq(S) /\ Len(t) = Len(a) + Len(b)
        BY <3>1, <3>2, <3>3, ConcatProperties
      <4>2. Len(t) = Len(s) - 1
        BY <1>1, <2>1, <3>1, <3>2, <4>1
      <4> QED
        BY <4>1, <4>2
    <3>5. \A i \in 1 .. (k - 1) : t[i] = s[i]
      BY <1>1, <2>1, <3>1, <3>2, <3>3
    <3>6. \A i \in k .. (Len(s) - 1) : t[i] = s[i + 1]
      <4> TAKE i \in k .. (Len(s) - 1)
      <4>1. t[i] = b[i - (k - 1)]
        BY <1>1, <2>1, <3>1, <3>2, <3>3
      <4>2. i - (k - 1) \in 1 .. (Len(s) - k) /\ (i - (k - 1)) + k = i + 1
        BY <1>1, <2>1
      <4> QED
        BY <3>2, <4>1, <4>2
    <3> QED
      BY <3>4, <3>5, <3>6
  <2>6. s # <<>> /\ Head(s) # x => k # 1
    BY <2>1
  <2>7. k # 1 => t # <<>> /\ Head(t) = Head(s)
    BY <1>1, <2>1, <2>5
  <2> HIDE DEF t
  <2>8. IsInjective(t)
    <3> DEFINE o(i) == IF i < k THEN i ELSE i + 1
    <3>1. ASSUME NEW i \in DOMAIN t
          PROVE  o(i) \in DOMAIN s /\ t[i] = s[o(i)]
      <4>1. i \in 1 .. (k - 1) \/ i \in k .. (Len(s) - 1)
        BY <1>1, <2>1, <2>5, <3>1
      <4> QED
        BY <1>1, <2>1, <2>5, <4>1
    <3>2. ASSUME NEW i \in DOMAIN t, NEW j \in DOMAIN t, t[i] = t[j]
          PROVE  i = j
      <4>1. i \in Nat /\ j \in Nat
        BY <1>1, <2>5
      <4>2. o(i) = o(j)
        <5>1. s[o(i)] = s[o(j)]
          BY <3>1, <3>2
        <5> HIDE DEF o
        <5> QED
          BY <3>1, <5>1 DEF IsInjective
      <4> QED
        BY <2>1, <4>1, <4>2
    <3> QED
      BY <3>2 DEF IsInjective
  <2>9. ToSet(t) = ToSet(s) \ {x}
    <3>1. ASSUME NEW i \in DOMAIN t
          PROVE  t[i] \in ToSet(s) \ {x}
      <4>1. CASE i < k
        <5>1. i \in DOMAIN s /\ t[i] = s[i] /\ i # k
          BY <1>1, <2>1, <2>5, <4>1
        <5> QED
          BY <1>1, <2>2, <5>1 DEF ToSet
      <4>2. CASE i >= k
        <5>1. i + 1 \in DOMAIN s /\ t[i] = s[i + 1] /\ i + 1 # k
          BY <1>1, <2>1, <2>5, <4>2
        <5> QED
          BY <1>1, <2>2, <5>1 DEF ToSet
      <4> QED
        BY <1>1, <2>1, <2>5, <4>1, <4>2
    <3>2. ASSUME NEW i \in DOMAIN s, s[i] # x
          PROVE  s[i] \in ToSet(t)
      <4>1. CASE i < k
        BY <1>1, <2>1, <2>5, <4>1 DEF ToSet
      <4>2. CASE i > k
        <5>1. i - 1 \in DOMAIN t /\ t[i - 1] = s[i]
          BY <1>1, <2>1, <2>5, <4>2
        <5> QED
          BY <5>1 DEF ToSet
      <4> QED
        BY <1>1, <2>1, <3>2, <4>1, <4>2
    <3> QED
      BY <3>1, <3>2 DEF ToSet
  <2> QED
    BY <2>4, <2>5, <2>6, <2>7, <2>8, <2>9 DEF t
<1> QED
  BY <1>2, <1>3

----------------------------------------------------------------------------
(* Induction over the naturals, in terms of sets. *)

LEMMA LeastElement ==
  ASSUME NEW T, T \subseteq Nat, T # {}
  PROVE  \E n \in T : \A m \in T : n <= m
<1>1. \E x \in T : \A y \in T : <<y, x>> \notin OpToRel(<, Nat)
  BY NatLessThanWellFounded, WFMin
<1>2. PICK n \in T : \A y \in T : <<y, n>> \notin OpToRel(<, Nat)
  BY <1>1
<1>3. ASSUME NEW m \in T PROVE n <= m
  <2>1. ~(m < n)
    BY <1>2 DEF OpToRel
  <2> QED
    BY <2>1
<1> QED
  BY <1>3

LEMMA InductiveSet ==
  ASSUME NEW T, 0 \in T, \A n \in T \cap Nat : n + 1 \in T
  PROVE  Nat \subseteq T
<1> SUFFICES ASSUME Nat \ T # {} PROVE FALSE
  OBVIOUS
<1>1. PICK n \in Nat \ T : \A m \in Nat \ T : n <= m
  BY LeastElement
<1>2. n # 0 /\ n - 1 \in Nat
  BY <1>1
<1>3. n - 1 \in T \cap Nat /\ (n - 1) + 1 = n
  BY <1>1, <1>2
<1> QED
  BY <1>1, <1>2, <1>3

----------------------------------------------------------------------------
(* The contents of a queue of blocks, joined: FlattenSeq.                  *)

\* How FlattenSeq joins them.
LEMMA FlattenSteps ==
  ASSUME NEW E, NEW s \in Seq(Seq(E)), s # <<>>
  PROVE  \E f \in [1 .. Len(s) -> Seq(E)] :
            /\ \A i \in 1 .. Len(s) :
                  f[i] = IF i = 1 THEN s[i] ELSE f[i - 1] \o s[i]
            /\ FlattenSeq(s) = f[Len(s)]
<1> DEFINE n == Len(s)
           Step(g, i) == IF i = 1 THEN s[i] ELSE g[i - 1] \o s[i]
           Joins(g, k) == \A i \in 1 .. k : g[i] = Step(g, i)
           flat == CHOOSE g : g = [i \in 1 .. n |-> Step(g, i)]
<1>1. n \in Nat \ {0} /\ \A i \in 1 .. n : s[i] \in Seq(E)
  BY EmptySeq, ElementOfSeq
<1>2. FlattenSeq(s) = flat[n]
  BY <1>1 DEF FlattenSeq
<1> HIDE DEF flat, n
<1>3. \E g \in [1 .. n -> Seq(E)] : Joins(g, n)
  <2> DEFINE Has(k) == \E g \in [1 .. k -> Seq(E)] : Joins(g, k)
             T == {k \in Nat : k = 0 \/ k > n \/ Has(k)}
  <2>1. ASSUME NEW k \in Nat, Has(k), k < n, k # 0 PROVE Has(k + 1)
    <3>1. PICK g \in [1 .. k -> Seq(E)] : Joins(g, k)
      BY <2>1
    <3> DEFINE x == g[k] \o s[k + 1]
               h == [i \in 1 .. (k + 1) |-> IF i <= k THEN g[i] ELSE x]
    <3>2. x \in Seq(E)
      <4>1. k + 1 \in 1 .. n /\ k \in 1 .. k
        BY <1>1, <2>1
      <4> QED
        BY <1>1, <4>1, ConcatProperties
    <3> HIDE DEF x
    <3>3. h \in [1 .. (k + 1) -> Seq(E)]
      BY <3>2
    <3>4. /\ \A i \in 1 .. k : h[i] = g[i]
          /\ h[k + 1] = x
      BY <2>1
    <3> HIDE DEF h
    <3>5. ASSUME NEW i \in 1 .. (k + 1) PROVE h[i] = Step(h, i)
      <4>1. CASE i = 1
        <5>1. i \in 1 .. k
          BY <2>1, <4>1
        <5> QED
          BY <3>1, <3>4, <4>1, <5>1
      <4>2. CASE i # 1 /\ i # k + 1
        <5>1. i \in 1 .. k /\ i - 1 \in 1 .. k
          BY <2>1, <4>2
        <5>2. g[i] = g[i - 1] \o s[i]
          BY <3>1, <4>2, <5>1
        <5> QED
          BY <3>4, <4>2, <5>1, <5>2
      <4>3. CASE i = k + 1
        <5>1. i # 1 /\ i - 1 = k /\ k \in 1 .. k
          BY <2>1, <4>3
        <5>2. h[k + 1] = h[k] \o s[k + 1]
          BY <3>4, <5>1 DEF x
        <5> QED
          BY <4>3, <5>1, <5>2
      <4> QED
        BY <4>1, <4>2, <4>3
    <3> QED
      BY <3>3, <3>5
  <2>2. Has(1)
    <3> DEFINE g == [i \in 1 .. 1 |-> s[1]]
    <3>1. g \in [1 .. 1 -> Seq(E)] /\ \A i \in 1 .. 1 : i = 1 /\ g[i] = s[i]
      BY <1>1
    <3> HIDE DEF g
    <3>2. Joins(g, 1)
      BY <3>1
    <3> QED
      BY <3>1, <3>2
  <2> HIDE DEF Has
  <2>3. ASSUME NEW k \in T \cap Nat PROVE k + 1 \in T
    <3>1. k = 0 \/ k > n \/ Has(k)
      OBVIOUS
    <3> QED
      BY <1>1, <2>1, <2>2, <3>1
  <2>4. 0 \in T
    OBVIOUS
  <2>5. Nat \subseteq T
    <3> HIDE DEF T
    <3> QED
      BY <2>3, <2>4, InductiveSet
  <2>6. Has(n)
    BY <1>1, <2>5
  <2> QED
    BY <2>6 DEF Has
<1>4. PICK g \in [1 .. n -> Seq(E)] : Joins(g, n)
  BY <1>3
<1>5. g = [i \in 1 .. n |-> Step(g, i)]
  BY <1>4
<1>6. flat = [i \in 1 .. n |-> Step(flat, i)]
  BY <1>5 DEF flat
<1>7. Joins(flat, n)
  BY <1>6
<1>8. \A i \in 1 .. n : flat[i] = g[i]
  <2> DEFINE T == {k \in Nat : k \in 1 .. n => flat[k] = g[k]}
  <2>1. ASSUME NEW k \in T \cap Nat PROVE k + 1 \in T
    <3>1. CASE k + 1 \in 1 .. n
      <4>1. k = 0 \/ flat[k] = g[k]
        <5>1. k \in 1 .. n => flat[k] = g[k]
          OBVIOUS
        <5>2. k = 0 \/ k \in 1 .. n
          BY <1>1, <3>1
        <5> QED
          BY <5>1, <5>2
      <4>2. flat[k + 1] = Step(flat, k + 1) /\ g[k + 1] = Step(g, k + 1)
        BY <1>4, <1>7, <3>1
      <4>3. k = 0 \/ (k + 1 # 1 /\ (k + 1) - 1 = k)
        OBVIOUS
      <4>4. flat[k + 1] = g[k + 1]
        BY <4>1, <4>2, <4>3
      <4> QED
        BY <4>4
    <3> QED
      BY <3>1
  <2>2. 0 \in T
    OBVIOUS
  <2> HIDE DEF T
  <2>3. Nat \subseteq T
    BY <2>1, <2>2, InductiveSet
  <2> QED
    BY <1>1, <2>3 DEF T
<1>9. flat[n] = g[n]
  BY <1>1, <1>8
<1> QED
  BY <1>2, <1>4, <1>9 DEF n

LEMMA FlattenEmpty == FlattenSeq(<<>>) = <<>>
  BY DEF FlattenSeq

LEMMA FlattenAppend ==
  ASSUME NEW E, NEW s \in Seq(Seq(E)), NEW b \in Seq(E)
  PROVE  /\ FlattenSeq(s) \in Seq(E)
         /\ FlattenSeq(Append(s, b)) = FlattenSeq(s) \o b
<1> DEFINE t == Append(s, b)
           n == Len(s)
<1>1. /\ t \in Seq(Seq(E)) /\ t # <<>> /\ Len(t) = n + 1 /\ n \in Nat
      /\ \A i \in 1 .. n : t[i] = s[i]
      /\ t[n + 1] = b
  BY AppendProperties, LenProperties
<1> HIDE DEF t
<1>2. PICK g \in [1 .. Len(t) -> Seq(E)] :
         /\ \A i \in 1 .. Len(t) :
               g[i] = IF i = 1 THEN t[i] ELSE g[i - 1] \o t[i]
         /\ FlattenSeq(t) = g[Len(t)]
  BY <1>1, FlattenSteps
<1>3. CASE s = <<>>
  <2>1. FlattenSeq(s) = <<>> /\ FlattenSeq(s) \in Seq(E)
    BY <1>3, FlattenEmpty, EmptySeq
  <2>2. n = 0
    BY <1>3
  <2>3. FlattenSeq(t) = b
    BY <1>1, <1>2, <2>2
  <2> QED
    BY <2>1, <2>3, ConcatEmptySeq DEF t
<1>4. CASE s # <<>>
  <2>1. n \in Nat \ {0}
    BY <1>4, EmptySeq
  <2>2. PICK f \in [1 .. n -> Seq(E)] :
           /\ \A i \in 1 .. n :
                 f[i] = IF i = 1 THEN s[i] ELSE f[i - 1] \o s[i]
           /\ FlattenSeq(s) = f[n]
    BY <1>4, FlattenSteps
  <2> HIDE DEF n
  <2>3. \A i \in 1 .. n : g[i] = f[i]
    <3> DEFINE T == {k \in Nat : k \in 1 .. n => g[k] = f[k]}
    <3>1. ASSUME NEW k \in T \cap Nat PROVE k + 1 \in T
      <4>1. CASE k + 1 \in 1 .. n
        <5>1. k = 0 \/ g[k] = f[k]
          <6>1. k \in 1 .. n => g[k] = f[k]
            OBVIOUS
          <6>2. k = 0 \/ k \in 1 .. n
            BY <2>1, <4>1
          <6> QED
            BY <6>1, <6>2
        <5>2. g[k + 1] = IF k + 1 = 1 THEN t[k + 1]
                         ELSE g[(k + 1) - 1] \o t[k + 1]
          <6>1. k + 1 \in 1 .. Len(t)
            BY <1>1, <2>1, <4>1
          <6> QED
            BY <1>2, <6>1
        <5>3. f[k + 1] = IF k + 1 = 1 THEN s[k + 1]
                         ELSE f[(k + 1) - 1] \o s[k + 1]
          BY <2>2, <4>1
        <5>4. t[k + 1] = s[k + 1]
          BY <1>1, <4>1
        <5>5. k = 0 \/ (k + 1 # 1 /\ (k + 1) - 1 = k)
          OBVIOUS
        <5>6. g[k + 1] = f[k + 1]
          BY <5>1, <5>2, <5>3, <5>4, <5>5
        <5> QED
          BY <5>6
      <4> QED
        BY <4>1
    <3>2. 0 \in T
      OBVIOUS
    <3> HIDE DEF T
    <3>3. Nat \subseteq T
      BY <3>1, <3>2, InductiveSet
    <3> QED
      BY <2>1, <3>3 DEF T
  <2>4. FlattenSeq(t) = g[n] \o b
    <3>1. n + 1 \in 1 .. Len(t) /\ n + 1 # 1 /\ (n + 1) - 1 = n
      BY <1>1, <2>1
    <3> QED
      BY <1>1, <1>2, <3>1
  <2>5. g[n] = f[n] /\ f[n] \in Seq(E)
    BY <2>1, <2>2, <2>3
  <2> QED
    BY <2>2, <2>4, <2>5 DEF t
<1> QED
  BY <1>3, <1>4

LEMMA FlattenCons ==
  ASSUME NEW E, NEW s \in Seq(Seq(E)), NEW b \in Seq(E)
  PROVE  FlattenSeq(<<b>> \o s) = b \o FlattenSeq(s)
<1> DEFINE Q(z) == FlattenSeq(<<b>> \o z) = b \o FlattenSeq(z)
           All(n) == \A z \in Seq(Seq(E)) : Len(z) = n => Q(z)
           T == {n \in Nat : All(n)}
<1>1. <<b>> \in Seq(Seq(E)) /\ <<b>> = Append(<<>>, b)
  OBVIOUS
<1>2. All(0)
  <2>1. ASSUME NEW z \in Seq(Seq(E)), Len(z) = 0 PROVE Q(z)
    <3>1. z = <<>>
      BY <2>1, EmptySeq
    <3>2. <<b>> \o z = Append(<<>>, b)
      BY <1>1, <3>1, ConcatEmptySeq
    <3>3. FlattenSeq(Append(<<>>, b)) = <<>> \o b
      <4>1. <<>> \in Seq(Seq(E))
        OBVIOUS
      <4>2. FlattenSeq(Append(<<>>, b)) = FlattenSeq(<<>>) \o b
        BY <4>1, FlattenAppend
      <4> QED
        BY <4>2, FlattenEmpty
    <3>4. <<>> \o b = b /\ b \o <<>> = b
      BY ConcatEmptySeq
    <3> QED
      BY <3>1, <3>2, <3>3, <3>4, FlattenEmpty
  <2> QED
    BY <2>1
<1>3. ASSUME NEW n \in Nat, All(n) PROVE All(n + 1)
  <2>1. ASSUME NEW z \in Seq(Seq(E)), Len(z) = n + 1 PROVE Q(z)
    <3>1. z # <<>>
      BY <2>1, EmptySeq
    <3>2. PICK y \in Seq(Seq(E)), x \in Seq(E) : z = Append(y, x)
      BY <3>1, SequenceEmptyOrAppend
    <3>3. Len(y) = n
      BY <2>1, <3>2, AppendProperties, LenProperties
    <3>4. Q(y)
      BY <1>3, <3>3
    <3>5. /\ <<b>> \o y \in Seq(Seq(E)) /\ y \o <<x>> = z
          /\ <<x>> \in Seq(Seq(E))
          /\ Append(<<b>> \o y, x) = (<<b>> \o y) \o <<x>>
      BY <1>1, <3>2, AppendIsConcat, ConcatProperties
    <3>6. <<b>> \o z = Append(<<b>> \o y, x)
      <4>1. (<<b>> \o y) \o <<x>> = <<b>> \o (y \o <<x>>)
        BY <1>1, <3>5, ConcatAssociative
      <4> QED
        BY <3>5, <4>1
    <3>7. FlattenSeq(<<b>> \o z) = FlattenSeq(<<b>> \o y) \o x
      BY <3>5, <3>6, FlattenAppend
    <3>8. FlattenSeq(z) = FlattenSeq(y) \o x /\ FlattenSeq(y) \in Seq(E)
      BY <3>2, FlattenAppend
    <3>9. (b \o FlattenSeq(y)) \o x = b \o (FlattenSeq(y) \o x)
      BY <3>8, ConcatAssociative
    <3> QED
      BY <3>4, <3>7, <3>8, <3>9
  <2> QED
    BY <2>1
<1> HIDE DEF All
<1>4. 0 \in T /\ \A n \in T \cap Nat : n + 1 \in T
  BY <1>2, <1>3
<1>5. Nat \subseteq T
  <2> HIDE DEF T
  <2> QED
    BY <1>4, InductiveSet
<1>6. All(Len(s))
  BY <1>5, LenProperties
<1> QED
  BY <1>6 DEF All
=============================================================================
