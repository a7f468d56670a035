------------------------------ MODULE GcProofs ------------------------------
(***************************************************************************)
(* Proofs about Gc, for a heap of any size, any number of roots and any    *)
(* limits: an object that a program can reach is never freed, and reference*)
(* counts never fall behind the references.  An instruction that waits for *)
(* a file to close, with its store not yet done, is taken for one that has *)
(* done it (inuse, points): the collector stands still till then, and what *)
(* the instruction is destroying is its own, if programs share no place    *)
(* with it (Shared = FALSE).                                               *)
(***************************************************************************)
EXTENDS Gc, FiniteSetTheorems, TLAPS

Facts == INSTANCE QueueFacts

\* The objects that are there once the store under way is done; what points
\* to what then is points.
inuse == alive \ doomed

GcType ==
    /\ inuse \subseteq Blocks
    /\ color \in [Blocks -> 0 .. propagator]
    /\ ref \in [Blocks -> 0 .. MaxRef]
    /\ points \in [Places -> Blocks \cup {Nil}]
    /\ \A o \in Blocks \ inuse : points[o] = Nil
    /\ mutator \in 0 .. 2 /\ nprop \in 0 .. 1
    /\ ptr \in Blocks \cup {Leader, Nil} /\ prev \in Blocks \cup {Leader, Nil}
    /\ visit \in 0 .. Quanta

\* The objects that this epoch does not free, and who holds one of them.
Live == {o \in inuse : color[o] # sweeper}
Holders(o) == {p \in Roots \cup Live : points[p] = o}

\* What is not to be swept refers to nothing that is.
Kept == \A p \in Roots \cup Live : points[p] # Nil => points[p] \in Live

Covered == \A o \in Live : ref[o] >= Cardinality(Holders(o))

\* A root, and an object that has been marked and visited, refers to objects
\* that have been marked.
TriColor ==
    \A p \in Roots \cup {o \in inuse : color[o] = mutator} :
        points[p] # Nil => color[points[p]] \in {mutator, propagator}

\* Behind the block to visit next nothing is left to sweep, nor, if nothing
\* has been marked since the pass began, to visit.
BehindPtr ==
    \A o \in inuse : ptr # Nil /\ o < ptr =>
        /\ color[o] # sweeper
        /\ nprop = 0 => color[o] # propagator

\* A call of rungc is at a block, and knows one before it; a file is closed
\* for the object it is at, which is swept then.
WalkInv ==
    /\ visit > 0 => ptr # Nil
    /\ visit = 0 => prev = Nil
    /\ prev # Nil => prev <= ptr
    /\ closing # Nil => /\ visit > 0 /\ closing = ptr
                        /\ closing \in inuse /\ color[closing] = sweeper

GcInv == GcType /\ Kept /\ Covered /\ TriColor /\ BehindPtr /\ WalkInv

HeapType ==
    /\ alive \subseteq Blocks /\ doomed \subseteq alive
    /\ val \in [Places -> Blocks \cup {Nil}]
    /\ \A o \in Blocks \ alive : val[o] = Nil

\* While an instruction waits for a file to close, rungc does not run; its
\* place leads to nothing but what it destroys, and the root it has come by
\* still leads to its place.
DropInv ==
    /\ dst = Nil => doomed = {} /\ root = Nil /\ sv = Nil
    /\ dst # Nil =>
          /\ visit = 0 /\ dst \in Roots \cup Live /\ val[dst] \in doomed
          /\ root \in Roots /\ (root = dst \/ points[root] = dst)
          /\ \A o \in doomed : /\ ref[o] = 0 /\ color[o] # sweeper
                               /\ val[o] \in doomed \cup {Nil}

HeapInv == GcInv /\ HeapType /\ DropInv

----------------------------------------------------------------------------
(* Colours, blocks and sets of them. *)

LEMMA ColorFacts ==
  ASSUME NEW m \in 0 .. 2
  PROVE  /\ (m + 1) % 3 \in 0 .. 2 /\ (m + 2) % 3 \in 0 .. 2
         /\ (m + 1) % 3 # m /\ (m + 2) % 3 # m /\ (m + 1) % 3 # (m + 2) % 3
         /\ (((m + 1) % 3) + 1) % 3 = (m + 2) % 3
<1>1. m = 0 \/ m = 1 \/ m = 2
  OBVIOUS
<1> QED
  BY <1>1

LEMMA PlaceFacts ==
  /\ NBlocks \in Nat /\ NRoots \in Nat /\ Quanta \in Nat \ {0}
  /\ MaxDepth \in Nat \ {0} /\ MaxRef \in Nat \ {0}
  /\ IsFiniteSet(Blocks) /\ IsFiniteSet(Places)
  /\ Blocks \cap Roots = {} /\ Nil \notin Places /\ Leader \notin Places
  /\ Leader # Nil /\ Blocks \subseteq Nat /\ Nil \in Nat
  /\ \A o \in Blocks : o < Nil /\ Leader < o
<1>1. /\ NBlocks \in Nat /\ NRoots \in Nat /\ Quanta \in Nat \ {0}
      /\ MaxDepth \in Nat \ {0} /\ MaxRef \in Nat \ {0}
  BY GcAssumption
<1>2. IsFiniteSet(Blocks) /\ IsFiniteSet(Roots)
  BY <1>1, FS_Interval DEF Blocks, Roots
<1>3. IsFiniteSet(Places)
  BY <1>2, FS_Union DEF Places
<1> QED
  BY <1>1, <1>2, <1>3 DEF Blocks, Roots, Places, Nil, Leader

LEMMA PointsFacts ==
  ASSUME HeapInv
  PROVE  /\ dst \notin doomed /\ Live \subseteq inuse /\ inuse \subseteq alive
         /\ \A p \in Places : /\ p \in doomed => points[p] = Nil
                              /\ p = dst => points[p] = sv
                              /\ p \notin doomed /\ p # dst => points[p] = val[p]
<1>1. dst \notin doomed
  <2>1. doomed \subseteq Blocks /\ Nil \notin Blocks /\ Blocks \cap Roots = {}
    BY PlaceFacts DEF HeapInv, HeapType, Places
  <2> QED
    BY <2>1 DEF HeapInv, DropInv, Live, inuse
<1> QED
  BY <1>1 DEF points, Live, inuse

----------------------------------------------------------------------------
(* destroy. *)

\* What loses its last reference when v is dropped and D has been freed.
Lost(v, r, D) == {o \in alive : Dropped(o, v, D) > 0 /\ Dropped(o, v, D) = r[o]}

\* What destroy frees to a depth of n.
Depth(v, r, f, n) == f = [k \in 0 .. n |-> IF k = 0 THEN {} ELSE Lost(v, r, f[k - 1])]

LEMMA DepthExists ==
  ASSUME NEW v, NEW r, NEW n \in Nat
  PROVE  \E f : Depth(v, r, f, n)
<1> DEFINE T == {k \in Nat : \E f : Depth(v, r, f, k)}
<1>1. 0 \in T
  <2>1. Depth(v, r, [k \in 0 .. 0 |-> {}], 0)
    BY DEF Depth
  <2> QED
    BY <2>1
<1>2. ASSUME NEW k \in T PROVE k + 1 \in T
  <2>1. PICK f : Depth(v, r, f, k)
    BY <1>2
  <2>2. k \in Nat /\ k + 1 \in Nat
    BY <1>2
  <2> DEFINE g == [j \in 0 .. k + 1 |->
                     IF j = k + 1 THEN Lost(v, r, f[k]) ELSE f[j]]
  <2>3. ASSUME NEW j \in 0 .. k + 1
        PROVE  g[j] = IF j = 0 THEN {} ELSE Lost(v, r, g[j - 1])
    <3>1. CASE j = k + 1
      <4>1. j # 0 /\ j - 1 = k /\ g[k] = f[k] /\ g[j] = Lost(v, r, f[k])
        BY <2>2, <3>1
      <4> QED
        BY <4>1
    <3>2. CASE j # k + 1
      <4>1. j \in 0 .. k /\ g[j] = f[j]
        BY <2>2, <3>2
      <4>2. f[j] = IF j = 0 THEN {} ELSE Lost(v, r, f[j - 1])
        BY <2>1, <4>1 DEF Depth
      <4>3. j # 0 => g[j - 1] = f[j - 1]
        BY <2>2, <4>1
      <4> QED
        BY <4>1, <4>2, <4>3
    <3> QED
      BY <3>1, <3>2
  <2>4. Depth(v, r, g, k + 1)
    BY <2>3 DEF Depth
  <2> QED
    BY <2>2, <2>4
<1> HIDE DEF T
<1>3. Nat \subseteq T
  BY <1>1, <1>2, Facts!InductiveSet
<1> QED
  BY <1>3 DEF T

LEMMA LevelsNat ==
  ASSUME HeapInv
  PROVE  gchalt \in Nat /\ Levels \in Nat /\ (gchalt = 0 => doomed = {})
<1>1. IsFiniteSet(doomed) /\ Cardinality(doomed) \in Nat
  <2>1. doomed \subseteq Blocks
    BY DEF HeapInv, HeapType
  <2> QED
    BY <2>1, PlaceFacts, FS_Subset, FS_CardinalityType
<1>2. gchalt \in Nat /\ (gchalt = 0 => Cardinality(doomed) = 0)
  BY <1>1 DEF gchalt
<1> QED
  BY <1>1, <1>2, PlaceFacts, FS_EmptySet DEF Levels

LEMMA DestroyedDepth ==
  ASSUME HeapInv, NEW v, NEW r
  PROVE  \E f : Depth(v, r, f, Levels) /\ Destroyed(v, r) = f[Levels]
<1> DEFINE f == CHOOSE f :
              f = [n \in 0 .. Levels |->
                     IF n = 0 THEN {}
                     ELSE {o \in alive : Dropped(o, v, f[n - 1]) > 0
                              /\ Dropped(o, v, f[n - 1]) = r[o]}]
<1>1. PICK g : Depth(v, r, g, Levels)
  BY LevelsNat, DepthExists
<1>2. f = [n \in 0 .. Levels |->
             IF n = 0 THEN {}
             ELSE {o \in alive : Dropped(o, v, f[n - 1]) > 0
                              /\ Dropped(o, v, f[n - 1]) = r[o]}]
  BY <1>1 DEF Depth, Lost
<1>3. Destroyed(v, r) = f[Levels]
  BY DEF Destroyed
<1> HIDE DEF f
<1>4. Depth(v, r, f, Levels)
  BY <1>2 DEF Depth, Lost
<1> QED
  BY <1>3, <1>4

\* The references to o that go are those in the freed objects and the dropped
\* one, at d.
LEMMA DroppedCount ==
  ASSUME HeapInv, NEW d \in Roots \cup Live, NEW D \in SUBSET Live, d \notin D,
         d # dst, dst \notin D, NEW o \in Blocks
  PROVE  /\ IsFiniteSet(Holders(o)) /\ Cardinality(Holders(o)) \in Nat
         /\ Dropped(o, points[d], D) = Cardinality(Holders(o) \cap (D \cup {d}))
         /\ Dropped(o, points[d], D) \in Nat
<1>1. Holders(o) \subseteq Places /\ D \subseteq Places /\ d \in Places
  BY DEF Holders, Live, HeapInv, GcInv, GcType, Places
<1>2. IsFiniteSet(Holders(o)) /\ Cardinality(Holders(o)) \in Nat
  BY <1>1, PlaceFacts, FS_Subset, FS_CardinalityType
<1> DEFINE X == {p \in D : points[p] = o}
<1>7. \A p \in D \cup {d} : p \in Places /\ p \notin doomed /\ p # dst
  <2>1. doomed \subseteq Blocks /\ Blocks \cap Roots = {}
    BY PlaceFacts DEF HeapInv, HeapType
  <2> QED
    BY <1>1, <2>1 DEF Live, inuse
<1>8. \A p \in D \cup {d} : points[p] = val[p]
  BY <1>7, PointsFacts
<1>3. IsFiniteSet(X) /\ Cardinality(X) \in Nat
  <2>1. X \subseteq Places
    BY <1>1
  <2> QED
    BY <2>1, PlaceFacts, FS_Subset, FS_CardinalityType
<1>4. Dropped(o, points[d], D) = Cardinality(X) + (IF o = points[d] THEN 1 ELSE 0)
  <2>1. {p \in D : val[p] = o} = X
    BY <1>8
  <2> HIDE DEF X
  <2> QED
    BY <2>1 DEF Dropped
<1>5. CASE o = points[d]
  <2>1. Holders(o) \cap (D \cup {d}) = X \cup {d} /\ d \notin X
    BY <1>5 DEF Holders
  <2> HIDE DEF X
  <2>2. Cardinality(X \cup {d}) = Cardinality(X) + 1
    BY <1>3, <2>1, FS_AddElement
  <2> QED
    BY <1>2, <1>3, <1>4, <1>5, <2>1, <2>2
<1>6. CASE o # points[d]
  <2>1. Holders(o) \cap (D \cup {d}) = X
    BY <1>6 DEF Holders
  <2> HIDE DEF X
  <2> QED
    BY <1>2, <1>3, <1>4, <1>6, <2>1
<1> QED
  BY <1>5, <1>6

\* What destroy frees when the pointer at d is dropped, with counts r: objects
\* that the epoch keeps, never the one d is in, and all who hold them with
\* them.
Doomed(d, r, D) ==
    /\ D \subseteq Live /\ d \notin D /\ dst \notin D
    /\ \A o \in D : /\ Holders(o) # {} /\ Holders(o) \subseteq D \cup {d}
                    /\ r[o] = Cardinality(Holders(o))

\* A place that an instruction can write.
Writable(d) ==
    /\ d # dst /\ d # root
    /\ d \in Roots \/ (d \in Live /\ \E s \in Roots : points[s] = d)

LEMMA DoomedStep ==
  ASSUME HeapInv, NEW d, Writable(d), NEW r,
         \A o \in Live : r[o] \in Nat /\ r[o] >= Cardinality(Holders(o)),
         NEW D, Doomed(d, r, D)
  PROVE  Doomed(d, r, Lost(points[d], r, D)) /\ D \subseteq Lost(points[d], r, D)
<1> DEFINE X == Lost(points[d], r, D)
<1>1. D \subseteq Live /\ d \notin D /\ d \in Roots \cup Live
  BY DEF Doomed, Writable
<1>0. dst \notin D /\ d # dst
  BY DEF Doomed, Writable
<1>2. /\ inuse \subseteq Blocks /\ Live \subseteq inuse /\ inuse \subseteq alive
      /\ alive \subseteq Blocks
  BY DEF HeapInv, HeapType, GcInv, GcType, Live, inuse
<1>3. ASSUME NEW o \in Live
      PROVE  /\ o \in X <=> /\ Holders(o) # {}
                            /\ Holders(o) \subseteq D \cup {d}
                            /\ r[o] = Cardinality(Holders(o))
  <2> DEFINE H == Holders(o)
             I == Holders(o) \cap (D \cup {d})
  <2>1. /\ IsFiniteSet(H) /\ Cardinality(H) \in Nat
        /\ Dropped(o, points[d], D) = Cardinality(I)
    BY <1>0, <1>1, <1>2, DroppedCount
  <2>2. I \subseteq H /\ (I = H <=> Holders(o) \subseteq D \cup {d})
    OBVIOUS
  <2> HIDE DEF H, I
  <2>3. /\ IsFiniteSet(I) /\ Cardinality(I) \in Nat
        /\ Cardinality(I) <= Cardinality(H)
        /\ Cardinality(I) = Cardinality(H) => I = H
        /\ Cardinality(I) = 0 <=> I = {}
    BY <2>1, <2>2, FS_Subset, FS_CardinalityType, FS_EmptySet
  <2>4. r[o] \in Nat /\ r[o] >= Cardinality(H)
    BY DEF H
  <2>5. o \in X <=> Cardinality(I) > 0 /\ Cardinality(I) = r[o]
    BY <1>2, <2>1 DEF Lost
  <2>6. o \in X => I = H /\ I # {} /\ r[o] = Cardinality(H)
    BY <2>1, <2>3, <2>4, <2>5
  <2>7. I = H /\ H # {} /\ r[o] = Cardinality(H) => o \in X
    BY <2>1, <2>3, <2>5
  <2> QED
    BY <2>2, <2>6, <2>7 DEF H
<1>4. X \subseteq Live
  <2> SUFFICES ASSUME NEW o \in X PROVE o \in Live
    OBVIOUS
  <2>1. o \in Blocks /\ Dropped(o, points[d], D) > 0
    BY <1>2 DEF Lost
  <2>2. /\ Dropped(o, points[d], D) = Cardinality(Holders(o) \cap (D \cup {d}))
    BY <1>0, <1>1, <2>1, DroppedCount
  <2>3. Holders(o) # {}
    <3>1. ASSUME Holders(o) = {} PROVE FALSE
      <4>1. Holders(o) \cap (D \cup {d}) = {}
        BY <3>1
      <4>2. Cardinality({}) = 0
        BY FS_EmptySet
      <4> QED
        BY <2>1, <2>2, <4>1, <4>2
    <3> QED
      BY <3>1
  <2>4. PICK p \in Roots \cup Live : points[p] = o
    BY <2>3 DEF Holders
  <2> QED
    BY <2>1, <2>4, PlaceFacts DEF HeapInv, GcInv, Kept, Places
<1> HIDE DEF X
<1>5. D \subseteq X
  BY <1>1, <1>3 DEF Doomed
<1>6. d \notin X
  <2> SUFFICES ASSUME d \in X PROVE FALSE
    OBVIOUS
  <2>1. d \in Live
    BY <1>4
  <2>2. d \notin Roots
    BY <1>2, <2>1, PlaceFacts
  <2>3. PICK s \in Roots : points[s] = d
    BY <2>2 DEF Writable
  <2>4. s \in Holders(d)
    BY <2>3 DEF Holders
  <2>5. s \in D \cup {d}
    BY <1>3, <2>1, <2>4
  <2> QED
    BY <1>1, <1>2, <2>1, <2>5, PlaceFacts
<1>7. \A o \in X : /\ Holders(o) # {} /\ Holders(o) \subseteq X \cup {d}
                   /\ r[o] = Cardinality(Holders(o))
  BY <1>3, <1>4, <1>5
<1>8. dst \notin X
  <2> SUFFICES ASSUME dst \in X PROVE FALSE
    OBVIOUS
  <2>1. dst \in Live /\ dst \in Blocks /\ dst # Nil /\ dst \notin Roots
    BY <1>2, <1>4, PlaceFacts DEF Places
  <2>2. root \in Roots /\ points[root] = dst
    BY <2>1 DEF HeapInv, DropInv
  <2>3. root \in D \cup {d}
    BY <1>3, <2>1, <2>2 DEF Holders
  <2>4. root # d
    BY DEF Writable
  <2> QED
    BY <1>1, <1>2, <2>2, <2>3, <2>4, PlaceFacts
<1> QED
  BY <1>4, <1>5, <1>6, <1>7, <1>8 DEF Doomed, X

LEMMA DestroyedDoomed ==
  ASSUME HeapInv, NEW d, Writable(d), NEW r,
         \A o \in Live : r[o] \in Nat /\ r[o] >= Cardinality(Holders(o))
  PROVE  /\ Doomed(d, r, Destroyed(points[d], r))
         /\ Destroyed(points[d], r) # {} => points[d] \in Destroyed(points[d], r)
<1>1. PICK f : Depth(points[d], r, f, Levels) /\ Destroyed(points[d], r) = f[Levels]
  BY DestroyedDepth
<1>2. Levels \in Nat
  BY LevelsNat
<1> DEFINE Good(D) == Doomed(d, r, D) /\ (D # {} => points[d] \in D)
           T == {n \in Nat : n <= Levels => Good(f[n])}
<1>3. 0 \in T
  <2>1. 0 \in 0 .. Levels
    BY <1>2
  <2>2. f[0] = {}
    BY <1>1, <2>1 DEF Depth
  <2>3. d \notin {} /\ dst \notin {}
    OBVIOUS
  <2> QED
    BY <2>2 DEF Doomed
<1>4. ASSUME NEW n \in T \cap Nat PROVE n + 1 \in T
  <2> SUFFICES ASSUME n + 1 <= Levels PROVE Good(f[n + 1])
    OBVIOUS
  <2>1. n <= Levels /\ n + 1 \in 0 .. Levels /\ n + 1 # 0 /\ (n + 1) - 1 = n
    BY <1>2
  <2>2. f[n + 1] = Lost(points[d], r, f[n])
    BY <1>1, <2>1 DEF Depth
  <2>3. Good(f[n])
    BY <1>4, <2>1
  <2>4. Doomed(d, r, f[n + 1]) /\ f[n] \subseteq f[n + 1]
    BY <2>2, <2>3, DoomedStep
  <2>5. ASSUME f[n] = {}, NEW o \in f[n + 1]
        PROVE  o = points[d]
    <3>1. Dropped(o, points[d], {}) > 0
      BY <2>2, <2>5 DEF Lost
    <3>2. {p \in {} : val[p] = o} = {} /\ Cardinality({}) = 0
      BY FS_EmptySet
    <3> QED
      BY <3>1, <3>2 DEF Dropped
  <2>6. f[n + 1] # {} => points[d] \in f[n + 1]
    BY <2>3, <2>4, <2>5
  <2> QED
    BY <2>4, <2>6
<1>5. Levels \in T
  <2> HIDE DEF T
  <2>1. Nat \subseteq T
    BY <1>3, <1>4, Facts!InductiveSet
  <2> QED
    BY <1>2, <2>1
<1> QED
  BY <1>1, <1>2, <1>5

----------------------------------------------------------------------------
(* The instructions. *)

\* An instruction prepares to store v: its block is in use with A, and its
\* count and its mark in r and c say that one more place holds it.
Prepared(v, A, r, c) ==
    /\ v \in Blocks \cup {Nil}
    /\ A = alive \cup ({v} \ {Nil})
    /\ c \in [Blocks -> 0 .. propagator] /\ r \in [Blocks -> 0 .. MaxRef]
    /\ \A o \in Blocks : o # v => c[o] = color[o] /\ r[o] = ref[o]
    /\ v # Nil => /\ c[v] \in {mutator, propagator}
                  /\ r[v] >= Cardinality(Holders(v)) + 1
                  /\ v \in Live \/ v \notin alive
                  /\ v \in inuse /\ c[v] = mutator => color[v] = mutator
    /\ nprop' \in 0 .. 1
    /\ nprop' = 0 =>
          /\ nprop = 0
          /\ v # Nil /\ c[v] = propagator => v \in inuse /\ color[v] = propagator

\* What a store does: D is freed, d holds v, and the counts go down by who
\* held them in D and at d.
Replaced(d, v, A, r, c, D) ==
    /\ Doomed(d, r, D) /\ v \notin D
    /\ inuse' = (inuse \cup ({v} \ {Nil})) \ D
    /\ \A o \in Blocks :
          /\ o \notin D => color'[o] = c[o]
          /\ ref'[o] = IF o \in D THEN 0
                       ELSE r[o] - Cardinality(Holders(o) \cap (D \cup {d}))
    /\ \A p \in Places :
          points'[p] = IF p \in D THEN Nil ELSE IF p = d THEN v ELSE points[p]
    /\ color' \in [Blocks -> 0 .. propagator]
    /\ ref' = [o \in Blocks |-> ref'[o]]
    /\ points' = [p \in Places |-> points'[p]]

LEMMA HoldersFacts ==
  ASSUME GcType, NEW o \in Blocks
  PROVE  IsFiniteSet(Holders(o)) /\ Cardinality(Holders(o)) \in Nat
<1>1. Holders(o) \subseteq Places
  BY DEF Holders, Live, GcType, Places
<1> QED
  BY <1>1, PlaceFacts, FS_Subset, FS_CardinalityType

LEMMA StoreFacts ==
  ASSUME HeapInv, NEW d, Writable(d), NEW v, NEW A, NEW r, NEW c,
         Prepared(v, A, r, c), Store(d, v, A, r, c)
  PROVE  /\ Replaced(d, v, A, r, c, Destroyed(val[d], r))
         /\ Destroyed(val[d], r) # {} => val[d] \in Destroyed(val[d], r)
         /\ v \notin doomed /\ d \notin doomed
<1> USE DEF HeapInv, GcInv
<1>1. PICK D : D = Destroyed(val[d], r)
  OBVIOUS
<1>2. /\ Live \subseteq Blocks /\ Live \subseteq inuse /\ inuse \subseteq alive
      /\ alive \subseteq Blocks /\ doomed \subseteq alive
      /\ Live \cap doomed = {} /\ Blocks \cap Roots = {}
      /\ Nil \notin Places /\ Blocks \subseteq Places /\ Roots \subseteq Places
  BY PlaceFacts DEF HeapType, Live, inuse, Places
<1>3. \A o \in Live : r[o] \in Nat /\ r[o] >= Cardinality(Holders(o))
  <2> SUFFICES ASSUME NEW o \in Live
               PROVE  r[o] \in Nat /\ r[o] >= Cardinality(Holders(o))
    OBVIOUS
  <2>1. /\ Cardinality(Holders(o)) \in Nat /\ r[o] \in Nat /\ o \in Blocks
        /\ o # Nil
    BY <1>2, HoldersFacts, PlaceFacts DEF Prepared, Places
  <2>2. CASE o = v
    BY <2>1, <2>2 DEF Prepared
  <2>3. CASE o # v
    BY <2>1, <2>3 DEF Prepared, Covered
  <2> QED
    BY <2>2, <2>3
<1>4. /\ d \in Roots \cup Live /\ d # dst /\ d \notin doomed /\ d \in Places
      /\ points[d] = val[d]
  <2>1. d \in Roots \cup Live /\ d # dst
    BY DEF Writable
  <2>2. d \notin doomed /\ d \in Places
    BY <1>2, <2>1
  <2> QED
    BY <2>1, <2>2, PointsFacts
<1>5. Doomed(d, r, D) /\ (D # {} => val[d] \in D)
  BY <1>1, <1>3, <1>4, DestroyedDoomed
<1>6. v \notin D
  <2> SUFFICES ASSUME v \in D PROVE FALSE
    OBVIOUS
  <2>1. /\ v \in Blocks /\ v # Nil /\ r[v] = Cardinality(Holders(v))
    BY <1>2, <1>5 DEF Doomed
  <2>2. Cardinality(Holders(v)) \in Nat
    BY <2>1, HoldersFacts
  <2> QED
    BY <2>1, <2>2 DEF Prepared
<1>7. D \in SUBSET Live /\ d \notin D /\ dst \notin D /\ D \cap doomed = {}
  BY <1>2, <1>5 DEF Doomed
<1>8. \A o \in Blocks :
         Dropped(o, val[d], D) = Cardinality(Holders(o) \cap (D \cup {d}))
  BY <1>4, <1>7, DroppedCount
<1>9. /\ v \in Blocks \cup {Nil} /\ v \notin doomed
      /\ A = alive \cup ({v} \ {Nil})
      /\ c \in [Blocks -> 0 .. propagator]
  BY <1>2 DEF Prepared
<1>10. /\ ref' = [o \in Blocks |-> IF o \in D THEN 0
                                   ELSE r[o] - Dropped(o, val[d], D)]
  BY <1>1 DEF Store, Replace, BeginDrop
<1>11. ASSUME NEW o \in Blocks
       PROVE  ref'[o] = IF o \in D THEN 0
                        ELSE r[o] - Cardinality(Holders(o) \cap (D \cup {d}))
  BY <1>8, <1>10
<1>12. ref' = [o \in Blocks |-> ref'[o]] /\ points' = [p \in Places |-> points'[p]]
  BY <1>10 DEF points
<1>13. /\ color' \in [Blocks -> 0 .. propagator]
       /\ \A o \in Blocks : o \notin D => color'[o] = c[o]
       /\ inuse' = (inuse \cup ({v} \ {Nil})) \ D
       /\ \A p \in Places :
            points'[p] = IF p \in D THEN Nil ELSE IF p = d THEN v ELSE points[p]
  <2>1. CASE Replace(d, v, A, r, c, val) /\ UNCHANGED dropvars
    <3>1. /\ alive' = A \ D
          /\ color' = [o \in Blocks |-> IF o \in D THEN 0 ELSE c[o]]
          /\ val' = [p \in Places |->
                       CASE p \in D -> Nil [] p = d -> v [] OTHER -> val[p]]
          /\ dst' = dst /\ sv' = sv /\ doomed' = doomed
      BY <1>1, <2>1 DEF Replace, dropvars
    <3>2. /\ color' \in [Blocks -> 0 .. propagator]
          /\ \A o \in Blocks : o \notin D => color'[o] = c[o]
      BY <1>9, <3>1 DEF propagator
    <3>3. inuse' = (inuse \cup ({v} \ {Nil})) \ D
      BY <1>7, <1>9, <3>1 DEF inuse
    <3>4. ASSUME NEW p \in Places
          PROVE  points'[p] = IF p \in D THEN Nil ELSE IF p = d THEN v ELSE points[p]
      <4>1. points'[p] = CASE p \in doomed -> Nil [] p = dst -> sv [] OTHER -> val'[p]
        BY <3>1 DEF points
      <4>2. val'[p] = CASE p \in D -> Nil [] p = d -> v [] OTHER -> val[p]
        BY <3>1
      <4>3. dst \notin doomed
        BY PointsFacts
      <4>4. CASE p \in doomed
        BY <1>4, <1>7, <4>1, <4>3, <4>4, PointsFacts
      <4>5. CASE p = dst
        BY <1>4, <1>7, <4>1, <4>3, <4>5, PointsFacts
      <4>6. CASE p \notin doomed /\ p # dst
        <5>1. points'[p] = val'[p] /\ points[p] = val[p]
          BY <4>1, <4>6, PointsFacts
        <5> QED
          BY <1>7, <4>2, <5>1
      <4> QED
        BY <4>4, <4>5, <4>6
    <3> QED
      BY <3>2, <3>3, <3>4
  <2>2. CASE BeginDrop(d, v, A, r, c)
    <3>1. /\ dst = Nil /\ alive' = A /\ color' = c /\ val' = val
          /\ dst' = d /\ sv' = v /\ doomed' = D
      BY <1>1, <2>2 DEF BeginDrop
    <3>2. doomed = {} /\ inuse = alive
      BY <3>1 DEF DropInv, inuse
    <3>3. inuse' = (inuse \cup ({v} \ {Nil})) \ D
      BY <1>9, <3>1, <3>2 DEF inuse
    <3>4. ASSUME NEW p \in Places
          PROVE  points'[p] = IF p \in D THEN Nil ELSE IF p = d THEN v ELSE points[p]
      <4>1. points'[p] = CASE p \in D -> Nil [] p = d -> v [] OTHER -> val[p]
        BY <3>1 DEF points
      <4>2. points[p] = val[p]
        BY <1>2, <3>1, <3>2, PointsFacts
      <4> QED
        BY <1>7, <4>1, <4>2
    <3> QED
      BY <1>9, <3>1, <3>3, <3>4
  <2> QED
    BY <2>1, <2>2 DEF Store
<1>14. Replaced(d, v, A, r, c, D)
  BY <1>5, <1>6, <1>11, <1>12, <1>13 DEF Replaced
<1> QED
  BY <1>1, <1>4, <1>5, <1>9, <1>14

LEMMA ReplacedInv ==
  ASSUME GcInv, NEW d, Writable(d), NEW v, NEW A, NEW r, NEW c, NEW D,
         Prepared(v, A, r, c), Replaced(d, v, A, r, c, D),
         UNCHANGED <<mutator, gcvars>>
  PROVE  GcInv'
<1>1. Replaced(d, v, A, r, c, D)
  OBVIOUS
<1>2. /\ D \subseteq Live /\ d \notin D /\ v \notin D
      /\ \A o \in D : Holders(o) \subseteq D \cup {d}
      /\ d \in Roots \cup Live /\ d \in Places
  <2>1. Live \subseteq Places
    BY DEF GcInv, GcType, Live, Places
  <2> QED
    BY <1>1, <2>1 DEF Replaced, Doomed, Writable, Places
<1>3. /\ inuse \subseteq Blocks /\ Live \subseteq inuse
      /\ color \in [Blocks -> 0 .. propagator] /\ ref \in [Blocks -> 0 .. MaxRef]
      /\ points \in [Places -> Blocks \cup {Nil}]
      /\ \A o \in Blocks \ inuse : points[o] = Nil
      /\ mutator \in 0 .. 2
  BY DEF GcInv, GcType, Live
<1>4. /\ v \in Blocks \cup {Nil} /\ Nil \notin Places
      /\ Blocks \subseteq Places /\ Roots \subseteq Places
      /\ Blocks \cap Roots = {}
  BY PlaceFacts DEF Prepared, Places
<1>5. \A p \in Places :
         points'[p] = IF p \in D THEN Nil ELSE IF p = d THEN v ELSE points[p]
  BY <1>1 DEF Replaced
<1>6. \A o \in Blocks :
         o \notin D => color'[o] = IF o = v THEN c[v] ELSE color[o]
  BY <1>1 DEF Replaced, Prepared
<1>7. inuse' = (inuse \cup ({v} \ {Nil})) \ D
  BY <1>1 DEF Replaced
<1>8. sweeper' = sweeper /\ sweeper # mutator /\ sweeper # propagator /\ mutator' = mutator
  BY <1>3, ColorFacts DEF sweeper, propagator
<1>9. v # Nil => /\ c[v] \in {mutator, propagator}
                 /\ v \in Live \/ v \notin inuse
                 /\ v \in inuse /\ c[v] = mutator => color[v] = mutator
  BY DEF Prepared, inuse
<1>10. Live' = (Live \cup ({v} \ {Nil})) \ D
  BY <1>3, <1>4, <1>6, <1>7, <1>8, <1>9 DEF Live
<1>11. ASSUME NEW o \in Blocks
       PROVE  /\ IsFiniteSet(Holders(o) \cap (D \cup {d}))
              /\ Cardinality(Holders(o) \cap (D \cup {d})) \in Nat
              /\ IsFiniteSet(Holders(o) \ (D \cup {d}))
              /\ Cardinality(Holders(o) \ (D \cup {d})) \in Nat
              /\ Cardinality(Holders(o)) = Cardinality(Holders(o) \cap (D \cup {d}))
                                           + Cardinality(Holders(o) \ (D \cup {d}))
  <2>1. IsFiniteSet(Holders(o)) /\ Cardinality(Holders(o)) \in Nat
    BY HoldersFacts DEF GcInv
  <2>2. /\ IsFiniteSet(Holders(o) \cap (D \cup {d}))
        /\ IsFiniteSet(Holders(o) \ (D \cup {d}))
        /\ Cardinality(Holders(o) \ (D \cup {d})) =
              Cardinality(Holders(o)) - Cardinality(Holders(o) \cap (D \cup {d}))
    BY <2>1, FS_Intersection, FS_Difference
  <2>3. /\ Cardinality(Holders(o) \cap (D \cup {d})) \in Nat
        /\ Cardinality(Holders(o) \ (D \cup {d})) \in Nat
    BY <2>2, FS_CardinalityType
  <2> QED
    BY <2>1, <2>2, <2>3
<1>12. ASSUME NEW o \in Blocks, o \notin D
       PROVE  Holders(o)' = (Holders(o) \ (D \cup {d})) \cup (IF o = v THEN {d} ELSE {})
  <2>1. \A p \in Places : p \notin D /\ p # d => points'[p] = points[p]
    BY <1>5
  <2>2. points'[d] = v
    BY <1>2, <1>5
  <2>3. v \notin Live /\ v # Nil => points[v] # o
    BY <1>3, <1>4, <1>9
  <2>4. d \in Roots \cup Live'
    BY <1>2, <1>10
  <2>5. o # Nil
    BY <1>4
  <2> QED
    BY <1>2, <1>3, <1>4, <1>10, <2>1, <2>2, <2>3, <2>4, <2>5 DEF Holders
<1>13. ASSUME NEW o \in Blocks, o \notin D
       PROVE  /\ ref'[o] = r[o] - Cardinality(Holders(o) \cap (D \cup {d}))
              /\ r[o] \in 0 .. MaxRef
              /\ r[o] >= Cardinality(Holders(o)) + (IF o = v THEN 1 ELSE 0)
                 \/ o \notin Live'
              /\ r[o] >= Cardinality(Holders(o) \cap (D \cup {d}))
  <2>1. ref'[o] = r[o] - Cardinality(Holders(o) \cap (D \cup {d}))
    BY <1>1, <1>13 DEF Replaced
  <2>2. r[o] \in 0 .. MaxRef /\ MaxRef \in Nat
    BY PlaceFacts DEF Prepared
  <2>3. ASSUME o \in Live \/ o = v
        PROVE  r[o] >= Cardinality(Holders(o)) + (IF o = v THEN 1 ELSE 0)
    <3>1. CASE o = v
      BY <1>4, <3>1 DEF Prepared
    <3>2. CASE o # v
      <4>1. r[o] = ref[o] /\ ref[o] >= Cardinality(Holders(o))
        BY <2>3, <3>2 DEF Prepared, GcInv, Covered
      <4>2. Cardinality(Holders(o)) \in Nat
        BY HoldersFacts DEF GcInv
      <4> QED
        BY <3>2, <4>1, <4>2
    <3> QED
      BY <3>1, <3>2
  <2>4. CASE o \in Live \/ o = v
    <3>1. PICK h, i : h = Cardinality(Holders(o))
                      /\ i = Cardinality(Holders(o) \cap (D \cup {d}))
      OBVIOUS
    <3>2. h \in Nat /\ i \in Nat /\ i <= h
      <4>1. PICK j \in Nat : i \in Nat /\ h = i + j
        BY <1>11, <3>1
      <4> QED
        BY <4>1
    <3>3. r[o] \in Nat /\ r[o] >= h + (IF o = v THEN 1 ELSE 0)
      BY <2>2, <2>3, <2>4, <3>1
    <3>4. r[o] >= i
      BY <3>2, <3>3
    <3> QED
      BY <2>1, <2>2, <2>3, <2>4, <3>1, <3>4
  <2>5. CASE ~(o \in Live \/ o = v)
    <3>1. o \notin Live'
      BY <1>10, <2>5
    <3>2. Holders(o) = {}
      BY <1>4, <2>5 DEF Holders, GcInv, Kept
    <3>3. Cardinality(Holders(o) \cap (D \cup {d})) = 0
      <4>1. Holders(o) \cap (D \cup {d}) = {}
        BY <3>2
      <4> QED
        BY <4>1, FS_EmptySet
    <3> QED
      BY <2>1, <2>2, <3>1, <3>3
  <2> QED
    BY <2>4, <2>5
<1>14. GcType'
  <2>1. inuse' \subseteq Blocks
    BY <1>3, <1>4, <1>7
  <2>2. color' \in [Blocks -> 0 .. propagator]
    BY <1>1 DEF Replaced
  <2>3. ref' \in [Blocks -> 0 .. MaxRef]
    <3>1. ASSUME NEW o \in Blocks PROVE ref'[o] \in 0 .. MaxRef
      <4>1. MaxRef \in Nat
        BY PlaceFacts
      <4>2. CASE o \in D
        <5>1. ref'[o] = 0
          BY <1>1, <4>2 DEF Replaced
        <5> QED
          BY <4>1, <5>1
      <4>3. CASE o \notin D
        <5>1. PICK i : i = Cardinality(Holders(o) \cap (D \cup {d}))
          OBVIOUS
        <5>2. i \in Nat /\ ref'[o] = r[o] - i /\ r[o] \in 0 .. MaxRef /\ r[o] >= i
          BY <1>11, <1>13, <4>3, <5>1
        <5> QED
          BY <4>1, <5>2
      <4> QED
        BY <4>2, <4>3
    <3>2. ref' = [o \in Blocks |-> ref'[o]]
      BY <1>1 DEF Replaced
    <3> QED
      BY <3>1, <3>2
  <2>4. points' \in [Places -> Blocks \cup {Nil}]
    <3>1. \A p \in Places : points'[p] \in Blocks \cup {Nil}
      BY <1>3, <1>4, <1>5
    <3>2. points' = [p \in Places |-> points'[p]]
      BY <1>1 DEF Replaced
    <3> QED
      BY <3>1, <3>2
  <2>5. \A o \in Blocks \ inuse' : points'[o] = Nil
    BY <1>2, <1>3, <1>4, <1>5, <1>7
  <2>6. /\ mutator' \in 0 .. 2 /\ nprop' \in 0 .. 1
        /\ ptr' \in Blocks \cup {Leader, Nil} /\ prev' \in Blocks \cup {Leader, Nil}
        /\ visit' \in 0 .. Quanta
    BY DEF Prepared, gcvars, GcInv, GcType
  <2> QED
    BY <2>1, <2>2, <2>3, <2>4, <2>5, <2>6 DEF GcType
<1>15. Kept'
  <2> SUFFICES ASSUME NEW p \in Roots \cup Live', points'[p] # Nil
               PROVE  points'[p] \in Live'
    BY DEF Kept
  <2>1. p \in Places /\ p \notin D
    BY <1>2, <1>3, <1>4, <1>10
  <2>2. CASE p = d
    BY <1>2, <1>5, <1>10, <2>1, <2>2
  <2>3. CASE p # d
    <3>1. points'[p] = points[p]
      BY <1>5, <2>1, <2>3
    <3>2. p \in Roots \cup Live
      BY <1>3, <1>4, <1>9, <1>10, <3>1
    <3>3. points[p] \in Live
      BY <3>1, <3>2 DEF GcInv, Kept
    <3>4. p \in Holders(points[p])
      BY <3>2 DEF Holders
    <3> QED
      BY <1>2, <1>10, <2>1, <2>3, <3>1, <3>3, <3>4
  <2> QED
    BY <2>2, <2>3
<1>16. Covered'
  <2> SUFFICES ASSUME NEW o \in Live'
               PROVE  ref'[o] >= Cardinality(Holders(o)')
    BY DEF Covered
  <2>1. o \in Blocks /\ o \notin D
    BY <1>3, <1>4, <1>10
  <2>2. PICK R : R = Holders(o) \ (D \cup {d})
    OBVIOUS
  <2>3. IsFiniteSet(R) /\ Cardinality(R) \in Nat /\ d \notin R
    BY <1>11, <2>1, <2>2
  <2>4. Cardinality(Holders(o)') = Cardinality(R) + (IF o = v THEN 1 ELSE 0)
    <3>1. CASE o = v
      <4>1. Holders(o)' = R \cup {d}
        BY <1>12, <2>1, <2>2, <3>1
      <4>2. Cardinality(R \cup {d}) = Cardinality(R) + 1
        BY <2>3, FS_AddElement
      <4> QED
        BY <3>1, <4>1, <4>2
    <3>2. CASE o # v
      <4>1. Holders(o)' = R
        BY <1>12, <2>1, <2>2, <3>2
      <4> QED
        BY <2>3, <3>2, <4>1
    <3> QED
      BY <3>1, <3>2
  <2>5. PICK I : I = Cardinality(Holders(o) \cap (D \cup {d}))
    OBVIOUS
  <2>6. /\ I \in Nat /\ Cardinality(Holders(o)) = I + Cardinality(R)
        /\ ref'[o] = r[o] - I /\ r[o] \in Nat
        /\ r[o] >= Cardinality(Holders(o)) + (IF o = v THEN 1 ELSE 0)
    BY <1>11, <1>13, <2>1, <2>2, <2>5
  <2> QED
    BY <2>3, <2>4, <2>6
<1>17. TriColor'
  <2> SUFFICES ASSUME NEW p \in Roots \cup inuse',
                      p \in Roots \/ color'[p] = mutator, points'[p] # Nil
               PROVE  color'[points'[p]] \in {mutator, propagator}
    BY <1>8 DEF TriColor
  <2>1. p \in Places /\ p \notin D
    BY <1>2, <1>3, <1>4, <1>7
  <2>2. CASE p = d
    BY <1>2, <1>4, <1>5, <1>6, <1>9, <2>1, <2>2
  <2>3. CASE p # d
    <3>1. points'[p] = points[p]
      BY <1>5, <2>1, <2>3
    <3>2. p \in Roots \/ (p \in inuse /\ p \in Blocks)
      BY <1>3, <1>4, <1>7, <3>1
    <3>3. p \in Roots \/ color[p] = mutator
      BY <1>4, <1>6, <1>9, <2>1, <3>2
    <3>4. color[points[p]] \in {mutator, propagator}
      BY <3>1, <3>2, <3>3 DEF GcInv, TriColor
    <3>5. points[p] \in Live /\ p \in Holders(points[p])
      BY <1>8, <3>1, <3>2, <3>3 DEF GcInv, Kept, Live, Holders
    <3> QED
      BY <1>2, <1>3, <1>6, <1>9, <2>1, <2>3, <3>1, <3>4, <3>5
  <2> QED
    BY <2>2, <2>3
<1>18. BehindPtr'
  <2> SUFFICES ASSUME NEW o \in inuse', ptr' # Nil, o < ptr'
               PROVE  /\ color'[o] # sweeper
                      /\ nprop' = 0 => color'[o] # propagator
    BY <1>8 DEF BehindPtr
  <2>1. o \in Blocks /\ o \notin D /\ ptr' = ptr
    BY <1>3, <1>4, <1>7 DEF gcvars
  <2>2. o \in inuse => /\ color[o] # sweeper
                       /\ nprop = 0 => color[o] # propagator
    BY <2>1 DEF GcInv, BehindPtr
  <2>3. nprop' = 0 => /\ nprop = 0
                      /\ v # Nil /\ c[v] = propagator =>
                            v \in inuse /\ color[v] = propagator
    BY DEF Prepared
  <2>4. CASE o = v
    <3>1. color'[o] = c[v] /\ v # Nil
      BY <1>4, <1>6, <2>1, <2>4
    <3> QED
      BY <1>8, <1>9, <2>2, <2>3, <2>4, <3>1
  <2>5. CASE o # v
    BY <1>6, <1>7, <2>1, <2>2, <2>3, <2>5
  <2> QED
    BY <2>4, <2>5
<1>19. WalkInv'
  <2>1. UNCHANGED <<ptr, prev, visit, closing>>
    BY DEF gcvars
  <2>2. closing # Nil => closing \in inuse' /\ color'[closing] = sweeper
    BY <1>2, <1>3, <1>6, <1>7, <1>9 DEF GcInv, WalkInv, Live
  <2> QED
    BY <1>8, <2>1, <2>2 DEF GcInv, WalkInv
<1> QED
  BY <1>14, <1>15, <1>16, <1>17, <1>18, <1>19 DEF GcInv

LEMMA SetmarkFacts ==
  ASSUME NEW c \in [Blocks -> 0 .. propagator], NEW S, NEW m \in 0 .. 2
  PROVE  /\ Setmark(S, m, c) \in [Blocks -> 0 .. propagator]
         /\ \A o \in Blocks :
               /\ o \notin S => Setmark(S, m, c)[o] = c[o]
               /\ o \in S => Setmark(S, m, c)[o] \in {m, propagator}
               /\ Setmark(S, m, c)[o] \in {c[o], propagator}
BY DEF Setmark, propagator

LEMMA MarkedFacts ==
  ASSUME NEW c \in [Blocks -> 0 .. propagator], NEW S \in SUBSET Blocks,
         NEW m \in 0 .. 2, NEW np \in 0 .. 1
  PROVE  /\ Marked(S, m, c, np) \in 0 .. 1
         /\ Marked(S, m, c, np) = 0 => np = 0 /\ Setmark(S, m, c) = c
<1>1. /\ Marked(S, m, c, np) \in 0 .. 1
      /\ Marked(S, m, c, np) = 0 => np = 0 /\ \A o \in S : c[o] = m
  BY DEF Marked
<1>2. (\A o \in S : c[o] = m) => Setmark(S, m, c) = c
  BY DEF Setmark
<1> QED
  BY <1>1, <1>2

LEMMA StoreInv ==
  ASSUME HeapInv, NEW d, Writable(d), NEW v, NEW A, NEW r, NEW c,
         Prepared(v, A, r, c), Store(d, v, A, r, c),
         UNCHANGED <<mutator, gcvars>>
  PROVE  HeapInv'
<1> USE DEF HeapInv
<1>1. PICK D : D = Destroyed(val[d], r)
  OBVIOUS
<1>2. /\ Replaced(d, v, A, r, c, D) /\ v \notin doomed /\ d \notin doomed
      /\ D # {} => val[d] \in D
  BY <1>1, StoreFacts
<1>3. GcInv'
  BY <1>2, ReplacedInv
<1>4. /\ D \subseteq Live /\ d \notin D /\ dst \notin D /\ v \notin D
      /\ d # dst /\ d # root /\ d \in Roots \cup Live
      /\ \A o \in D : Holders(o) # {} /\ Holders(o) \subseteq D \cup {d}
  BY <1>2 DEF Replaced, Doomed, Writable
<1>5. /\ Live \subseteq inuse /\ inuse \subseteq alive /\ alive \subseteq Blocks
      /\ doomed \subseteq alive /\ D \cap doomed = {} /\ Blocks \cap Roots = {}
      /\ Nil \notin Places /\ Blocks \subseteq Places /\ Roots \subseteq Places
      /\ d \in Places /\ v \in Blocks \cup {Nil}
      /\ A = alive \cup ({v} \ {Nil})
  BY <1>4, PlaceFacts DEF HeapType, Live, inuse, Places, Prepared
<1>6. /\ \A o \in Blocks \ D : color'[o] = c[o]
      /\ \A p \in Places :
           points'[p] = IF p \in D THEN Nil ELSE IF p = d THEN v ELSE points[p]
      /\ inuse' = (inuse \cup ({v} \ {Nil})) \ D
  BY <1>2 DEF Replaced
<1>7. /\ sweeper' = sweeper /\ sweeper # mutator /\ sweeper # propagator
      /\ visit' = visit
  BY ColorFacts DEF sweeper, propagator, GcInv, GcType, gcvars
<1>8. /\ \A o \in Blocks : o # v => c[o] = color[o]
      /\ v # Nil => c[v] \in {mutator, propagator}
  BY DEF Prepared
<1>9. (Live \cup ({v} \ {Nil})) \ D \subseteq Live'
  BY <1>5, <1>6, <1>7, <1>8 DEF Live
<1>10. val \in [Places -> Blocks \cup {Nil}] /\ \A o \in Blocks \ alive : val[o] = Nil
  BY DEF HeapType
<1>11. CASE Replace(d, v, A, r, c, val) /\ UNCHANGED dropvars
  <2>1. /\ alive' = A \ D
        /\ val' = [p \in Places |->
                     CASE p \in D -> Nil [] p = d -> v [] OTHER -> val[p]]
        /\ dst' = dst /\ root' = root /\ sv' = sv /\ doomed' = doomed
    BY <1>1, <1>11 DEF Replace, dropvars
  <2>2. \A p \in Places :
           val'[p] = IF p \in D THEN Nil ELSE IF p = d THEN v ELSE val[p]
    BY <1>4, <2>1
  <2>3. HeapType'
    <3>1. alive' \subseteq Blocks /\ doomed' \subseteq alive'
      BY <1>5, <2>1
    <3>2. val' \in [Places -> Blocks \cup {Nil}]
      <4>1. \A p \in Places : val'[p] \in Blocks \cup {Nil}
        BY <1>5, <1>10, <2>2
      <4>2. val' = [p \in Places |-> val'[p]]
        BY <2>1
      <4> QED
        BY <4>1, <4>2
    <3>3. \A o \in Blocks \ alive' : val'[o] = Nil
      BY <1>4, <1>5, <1>10, <2>1, <2>2
    <3> QED
      BY <3>1, <3>2, <3>3 DEF HeapType
  <2>4. ASSUME dst # Nil
        PROVE  /\ dst \in Roots \cup Live' /\ val'[dst] \in doomed
               /\ root \in Roots /\ (root = dst \/ points'[root] = dst)
    <3>1. /\ dst \in Roots \cup Live /\ val[dst] \in doomed
          /\ root \in Roots /\ (root = dst \/ points[root] = dst)
      BY <2>4 DEF DropInv
    <3>2. dst \in Places /\ root \in Places /\ root \notin D
      BY <1>4, <1>5, <3>1
    <3> QED
      BY <1>4, <1>6, <1>9, <2>2, <3>1, <3>2
  <2>5. ASSUME dst # Nil, NEW o \in doomed
        PROVE  ref'[o] = 0 /\ color'[o] # sweeper /\ val'[o] \in doomed \cup {Nil}
    <3>1. /\ o \in Blocks /\ o \notin D /\ o # v /\ o # d /\ o # Nil
          /\ o \in Places
      BY <1>2, <1>5
    <3>2. ref[o] = 0 /\ color[o] # sweeper /\ val[o] \in doomed \cup {Nil}
      BY <2>5 DEF DropInv
    <3>3. Holders(o) = {}
      <4>1. o \notin Live
        BY DEF Live, inuse
      <4> QED
        BY <3>1, <4>1 DEF Holders, GcInv, Kept
    <3>4. r[o] = ref[o]
      BY <3>1 DEF Prepared
    <3>5. ref'[o] = r[o] - Cardinality(Holders(o) \cap (D \cup {d}))
      BY <1>2, <3>1 DEF Replaced
    <3>6. Holders(o) \cap (D \cup {d}) = {} /\ Cardinality({}) = 0
      BY <3>3, FS_EmptySet
    <3>7. ref'[o] = 0
      BY <3>2, <3>4, <3>5, <3>6
    <3> QED
      BY <1>6, <1>8, <2>2, <3>1, <3>2, <3>7
  <2>6. DropInv'
    BY <1>7, <2>1, <2>4, <2>5 DEF DropInv
  <2> QED
    BY <1>3, <2>3, <2>6
<1>12. CASE BeginDrop(d, v, A, r, c)
  <2>1. /\ dst = Nil /\ visit = 0 /\ alive' = A /\ color' = c /\ val' = val
        /\ dst' = d /\ sv' = v /\ doomed' = D
        /\ D # {} /\ \A o \in D : val[o] \in D \cup {Nil}
        /\ root' \in {s \in Roots : s = d \/ val[s] = d}
        /\ ref' = [o \in Blocks |-> IF o \in D THEN 0
                                    ELSE r[o] - Dropped(o, val[d], D)]
    BY <1>1, <1>12 DEF BeginDrop
  <2>2. doomed = {} /\ inuse = alive
    BY <2>1 DEF DropInv, inuse
  <2>3. \A p \in Places : points[p] = val[p]
    BY <1>5, <2>1, <2>2, PointsFacts
  <2>4. HeapType'
    BY <1>4, <1>5, <1>10, <2>1 DEF HeapType
  <2>5. d \in Roots \cup Live'
    BY <1>4, <1>9
  <2>6. val[d] \in D
    BY <1>2, <2>1
  <2>7. root' \in Roots /\ (root' = d \/ points'[root'] = d)
    <3>1. root' \in Roots /\ root' \in Places /\ root' \notin D
      BY <1>4, <1>5, <2>1
    <3>2. CASE root' = d
      BY <3>1, <3>2
    <3>3. CASE root' # d /\ val[root'] = d
      <4>1. points[root'] = d
        BY <2>3, <3>1, <3>3
      <4>2. \A p \in Places : p \notin D /\ p # d => points'[p] = points[p]
        BY <1>6
      <4> QED
        BY <3>1, <3>3, <4>1, <4>2
    <3> QED
      BY <2>1, <3>2, <3>3
  <2>8. ASSUME NEW o \in D
        PROVE  ref'[o] = 0 /\ color'[o] # sweeper /\ val'[o] \in D \cup {Nil}
    <3>1. o \in Blocks /\ o # v /\ o \in Live
      BY <1>4, <1>5
    <3>2. c[o] = color[o] /\ color[o] # sweeper
      BY <1>8, <3>1 DEF Live
    <3> QED
      BY <2>1, <3>1, <3>2
  <2>9. DropInv'
    <3>1. d # Nil
      BY <1>5
    <3> QED
      BY <1>7, <2>1, <2>5, <2>6, <2>7, <2>8, <3>1 DEF DropInv
  <2> QED
    BY <1>3, <2>4, <2>9
<1> QED
  BY <1>11, <1>12 DEF Store

\* An instruction finds its operands where it may write, and in them objects
\* that the epoch keeps.
LEMMA OperandFacts ==
  ASSUME HeapInv, NEW d \in Free
  PROVE  /\ Writable(d)
         /\ d \in Places /\ d \notin doomed /\ d # dst /\ points[d] = val[d]
         /\ val[d] # Nil => val[d] \in Live
<1> USE DEF HeapInv, GcInv
<1>1. /\ Live \subseteq Blocks /\ doomed \subseteq Blocks /\ Blocks \cap Roots = {}
      /\ Nil \notin Places /\ Blocks \subseteq Places /\ Roots \subseteq Places
  BY PlaceFacts DEF HeapType, Live, inuse, Places
<1>2. /\ d \in Roots \/ (d # Nil /\ \E s \in Roots : val[s] = d)
      /\ d # dst /\ d # root /\ d \notin doomed
  BY DEF Free, Operands
<1>3. ASSUME d \notin Roots
      PROVE  d \in Live /\ \E s \in Roots : points[s] = d
  <2>1. PICK s \in Roots : val[s] = d
    BY <1>2, <1>3
  <2>2. s # dst
    BY <1>1, <1>2, <2>1 DEF DropInv
  <2>3. s \notin doomed /\ s \in Places
    BY <1>1
  <2>4. points[s] = d
    BY <2>1, <2>2, <2>3, PointsFacts
  <2> QED
    BY <1>2, <1>3, <2>4 DEF Kept
<1>4. d \in Roots \cup Live /\ d \in Places
  BY <1>1, <1>3
<1>5. points[d] = val[d]
  BY <1>2, <1>4, PointsFacts
<1>6. val[d] # Nil => val[d] \in Live
  BY <1>4, <1>5 DEF Kept
<1>7. Writable(d)
  BY <1>2, <1>3 DEF Writable
<1> QED
  BY <1>2, <1>4, <1>5, <1>6, <1>7

LEMMA MovpInv ==
  ASSUME HeapInv, NEW d \in Free, NEW v, v = Nil \/ v \in Live,
         Movp(d, v), UNCHANGED <<mutator, gcvars>>
  PROVE  HeapInv'
<1> USE DEF HeapInv, GcInv
<1> DEFINE S == {v} \ {Nil}
           r == [o \in Blocks |-> IF o \in S THEN ref[o] + 1 ELSE ref[o]]
           c == Setmark(S, mutator, color)
<1>1. /\ v # Nil => ref[v] < MaxRef
      /\ Store(d, v, alive, r, c)
      /\ nprop' = Marked(S, mutator, color, nprop)
  BY DEF Movp
<1>2. /\ alive \subseteq Blocks /\ Live \subseteq alive /\ Live \subseteq inuse
      /\ color \in [Blocks -> 0 .. propagator] /\ ref \in [Blocks -> 0 .. MaxRef]
      /\ mutator \in 0 .. 2 /\ nprop \in 0 .. 1 /\ MaxRef \in Nat
  BY PlaceFacts DEF GcType, HeapType, Live, inuse
<1>3. /\ c \in [Blocks -> 0 .. propagator]
      /\ \A o \in Blocks : o # v => c[o] = color[o]
      /\ v # Nil => c[v] \in {mutator, propagator} /\ c[v] \in {color[v], propagator}
  BY <1>2, SetmarkFacts
<1>4. /\ r \in [Blocks -> 0 .. MaxRef]
      /\ \A o \in Blocks : o # v => r[o] = ref[o]
      /\ v # Nil => r[v] = ref[v] + 1
  <2>1. v # Nil => v \in Blocks
    BY <1>2
  <2>2. ASSUME NEW o \in Blocks PROVE r[o] \in 0 .. MaxRef
    <3>1. ref[o] \in 0 .. MaxRef
      BY <1>2
    <3> QED
      BY <1>1, <1>2, <3>1
  <2> QED
    BY <2>1, <2>2
<1>5. v # Nil => r[v] >= Cardinality(Holders(v)) + 1
  <2> SUFFICES ASSUME v # Nil PROVE r[v] >= Cardinality(Holders(v)) + 1
    OBVIOUS
  <2>1. v \in Live /\ v \in Blocks /\ ref[v] >= Cardinality(Holders(v))
    BY <1>2 DEF Covered
  <2>2. Cardinality(Holders(v)) \in Nat /\ ref[v] \in Nat
    BY <1>2, <2>1, HoldersFacts
  <2>3. r[v] = ref[v] + 1
    BY <1>4
  <2> HIDE DEF r
  <2> QED
    BY <2>1, <2>2, <2>3
<1>6. /\ nprop' \in 0 .. 1
      /\ nprop' = 0 => nprop = 0 /\ c = color
  <2>1. S \subseteq Blocks
    BY <1>2
  <2> HIDE DEF S
  <2> QED
    BY <1>1, <1>2, <2>1, MarkedFacts
<1> HIDE DEF r, c
<1>7. Prepared(v, alive, r, c)
  <2>1. alive = alive \cup ({v} \ {Nil}) /\ v \in Blocks \cup {Nil}
    BY <1>2
  <2>2. v # Nil => /\ v \in Live /\ v \in inuse /\ propagator # mutator
                   /\ c[v] = mutator => color[v] = mutator
    BY <1>2, <1>3 DEF propagator
  <2> QED
    BY <1>3, <1>4, <1>5, <1>6, <2>1, <2>2 DEF Prepared
<1> QED
  BY <1>1, <1>7, OperandFacts, StoreInv

\* A free block is held by nobody.
LEMMA FreeFacts ==
  ASSUME HeapInv, NEW o \in Blocks, o \notin alive
  PROVE  /\ Holders(o) = {} /\ Cardinality(Holders(o)) = 0 /\ o # Nil
         /\ o \notin inuse /\ o \notin doomed /\ points[o] = Nil
<1>1. o # Nil /\ o \notin inuse /\ o \notin doomed /\ points[o] = Nil
  BY PlaceFacts DEF Places, HeapInv, HeapType, GcInv, GcType, inuse
<1>2. Holders(o) = {}
  BY <1>1 DEF HeapInv, GcInv, Kept, Holders, Live
<1> QED
  BY <1>1, <1>2, FS_EmptySet

LEMMA NewInv ==
  ASSUME HeapInv, NEW d \in Free, NEW o \in Blocks, New(d, o),
         UNCHANGED <<mutator, gcvars>>
  PROVE  HeapInv'
<1>1. PICK A, r, c : /\ A = alive \cup {o} /\ r = [ref EXCEPT ![o] = 1]
                     /\ c = [color EXCEPT ![o] = mutator]
  OBVIOUS
<1>2. o \notin alive /\ Store(d, o, A, r, c) /\ nprop' = nprop
  BY <1>1 DEF New, Heap
<1>3. /\ color \in [Blocks -> 0 .. propagator] /\ ref \in [Blocks -> 0 .. MaxRef]
      /\ mutator \in 0 .. 2 /\ nprop \in 0 .. 1 /\ MaxRef \in Nat \ {0}
  BY PlaceFacts DEF HeapInv, GcInv, GcType
<1>4. /\ c \in [Blocks -> 0 .. propagator] /\ c[o] = mutator
      /\ \A x \in Blocks : x # o => c[x] = color[x]
  BY <1>1, <1>3 DEF propagator
<1>5. /\ r \in [Blocks -> 0 .. MaxRef] /\ r[o] = 1
      /\ \A x \in Blocks : x # o => r[x] = ref[x]
  BY <1>1, <1>3
<1>6. o # Nil /\ Cardinality(Holders(o)) = 0 /\ o \notin inuse
  BY <1>2, FreeFacts
<1>7. r[o] >= Cardinality(Holders(o)) + 1
  BY <1>5, <1>6
<1>8. mutator # propagator /\ A = alive \cup ({o} \ {Nil})
  BY <1>1, <1>3, <1>6 DEF propagator
<1>9. Prepared(o, A, r, c)
  BY <1>2, <1>3, <1>4, <1>5, <1>6, <1>7, <1>8 DEF Prepared
<1> QED
  BY <1>2, <1>9, OperandFacts, StoreInv

LEMMA ConsInv ==
  ASSUME HeapInv, NEW d \in Free, NEW o \in Blocks, Cons(d, o),
         UNCHANGED <<mutator, gcvars>>
  PROVE  HeapInv'
<1> USE DEF HeapInv
<1>1. PICK x, c : x = val[d] /\ c = Setmark({x} \ {Nil}, mutator, color)
  OBVIOUS
<1>2. /\ o \notin alive /\ alive' = alive \cup {o}
      /\ ref' = [ref EXCEPT ![o] = 1]
      /\ color' = [c EXCEPT ![o] = mutator]
      /\ nprop' = Marked({x} \ {Nil}, mutator, color, nprop)
      /\ val' = [val EXCEPT ![o] = x, ![d] = o]
      /\ UNCHANGED dropvars
  BY <1>1 DEF Cons, Heap
<1>3. /\ inuse \subseteq Blocks /\ Live \subseteq inuse
      /\ color \in [Blocks -> 0 .. propagator] /\ ref \in [Blocks -> 0 .. MaxRef]
      /\ points \in [Places -> Blocks \cup {Nil}]
      /\ \A b \in Blocks \ inuse : points[b] = Nil
      /\ mutator \in 0 .. 2 /\ nprop \in 0 .. 1
      /\ propagator \in 0 .. propagator /\ mutator \in 0 .. propagator
      /\ Nil \notin Places /\ Blocks \subseteq Places /\ Roots \subseteq Places
      /\ Blocks \cap Roots = {}
  BY PlaceFacts DEF GcInv, GcType, Live, Places, propagator
<1>4. /\ Writable(d) /\ (x # Nil => x \in Live)
      /\ points[d] = x /\ d \notin doomed /\ d # dst /\ d # root
  BY <1>1, OperandFacts DEF Writable
<1>21. /\ o \notin inuse /\ o \notin doomed /\ points[o] = Nil
  BY <1>2, FreeFacts
<1>22. /\ HeapType /\ alive \subseteq Blocks /\ doomed \subseteq alive
       /\ val \in [Places -> Blocks \cup {Nil}]
       /\ \A b \in Blocks \ alive : val[b] = Nil
       /\ inuse \subseteq alive
       /\ dst' = dst /\ root' = root /\ sv' = sv /\ doomed' = doomed
  BY <1>2 DEF HeapType, inuse, dropvars
<1>5. d \in Roots \cup Live /\ d \in Places /\ d # o /\ x # o /\ o # Nil
  BY <1>3, <1>4, <1>21 DEF Writable
<1>6. /\ c \in [Blocks -> 0 .. propagator]
      /\ \A b \in Blocks : b # x => c[b] = color[b]
      /\ x # Nil => c[x] \in {mutator, propagator} /\ c[x] \in {color[x], propagator}
  BY <1>1, <1>3, <1>4, SetmarkFacts
<1>7. /\ \A b \in Blocks : color'[b] = IF b = o THEN mutator ELSE c[b]
      /\ \A b \in Blocks : ref'[b] = IF b = o THEN 1 ELSE ref[b]
  BY <1>2, <1>3, <1>6
<1>23. \A p \in Places :
          val'[p] = IF p = d THEN o ELSE IF p = o THEN x ELSE val[p]
  BY <1>2, <1>3, <1>5, <1>22
<1>24. o # dst /\ o # root
  BY <1>3, <1>5, <1>21 DEF DropInv, Live
<1>8. \A p \in Places :
         points'[p] = IF p = d THEN o ELSE IF p = o THEN x ELSE points[p]
  <2> SUFFICES ASSUME NEW p \in Places
               PROVE  points'[p] = IF p = d THEN o ELSE IF p = o THEN x ELSE points[p]
    OBVIOUS
  <2>1. points'[p] = CASE p \in doomed -> Nil [] p = dst -> sv [] OTHER -> val'[p]
    BY <1>22 DEF points
  <2>2. dst \notin doomed
    BY PointsFacts
  <2>3. CASE p \in doomed \/ p = dst
    BY <1>4, <1>21, <1>24, <2>1, <2>2, <2>3, PointsFacts
  <2>4. CASE p \notin doomed /\ p # dst
    <3>1. points'[p] = val'[p] /\ points[p] = val[p]
      BY <2>1, <2>4, PointsFacts
    <3> QED
      BY <1>23, <3>1
  <2> QED
    BY <2>3, <2>4
<1>25. inuse' = inuse \cup {o} /\ points' = [p \in Places |-> points'[p]]
  BY <1>2, <1>21, <1>22 DEF inuse, points
<1>9. sweeper' = sweeper /\ sweeper # mutator /\ sweeper # propagator /\ mutator' = mutator
  BY <1>3, ColorFacts DEF sweeper, propagator
<1>10. Live' = Live \cup {o}
  BY <1>3, <1>4, <1>6, <1>7, <1>9, <1>25 DEF Live
<1>11. Holders(o) = {} /\ points[o] = Nil
  BY <1>2, FreeFacts
<1>12. Holders(o)' = {d}
  BY <1>3, <1>5, <1>8, <1>10, <1>11 DEF Holders
<1>13. x # Nil => /\ d \in Holders(x) /\ o \notin Holders(x)
                  /\ Holders(x)' = (Holders(x) \ {d}) \cup {o}
  BY <1>3, <1>4, <1>5, <1>8, <1>10, <1>21 DEF Holders
<1>14. \A b \in Blocks : b # o /\ b # x => Holders(b)' = Holders(b)
  BY <1>3, <1>4, <1>5, <1>8, <1>10, <1>11, <1>21 DEF Holders
<1>26. nprop' \in 0 .. 1 /\ (nprop' = 0 => nprop = 0 /\ c = color)
  <2>1. {x} \ {Nil} \subseteq Blocks
    BY <1>3, <1>4
  <2> QED
    BY <1>1, <1>2, <1>3, <2>1, MarkedFacts
<1>15. GcType'
  <2>1. inuse' \subseteq Blocks /\ \A b \in Blocks \ inuse' : points'[b] = Nil
    BY <1>3, <1>4, <1>5, <1>8, <1>25
  <2>2. color' \in [Blocks -> 0 .. propagator]
    BY <1>2, <1>3, <1>6
  <2>3. 1 \in 0 .. MaxRef
    BY PlaceFacts
  <2>4. ref' \in [Blocks -> 0 .. MaxRef]
    BY <1>2, <1>3, <2>3
  <2>5. x \in Blocks \cup {Nil}
    BY <1>3, <1>4
  <2>6. points' \in [Places -> Blocks \cup {Nil}]
    <3>1. \A p \in Places : points'[p] \in Blocks \cup {Nil}
      BY <1>3, <1>8, <2>5
    <3> QED
      BY <1>25, <3>1
  <2>7. /\ mutator' \in 0 .. 2 /\ nprop' \in 0 .. 1
        /\ ptr' \in Blocks \cup {Leader, Nil} /\ prev' \in Blocks \cup {Leader, Nil}
        /\ visit' \in 0 .. Quanta
    BY <1>3, <1>26 DEF gcvars, GcInv, GcType
  <2> QED
    BY <2>1, <2>2, <2>4, <2>6, <2>7 DEF GcType
<1>16. Kept'
  <2> SUFFICES ASSUME NEW p \in Roots \cup Live', points'[p] # Nil
               PROVE  points'[p] \in Live'
    BY DEF Kept
  <2>1. \A q \in Roots \cup Live : points[q] # Nil => points[q] \in Live
    BY DEF GcInv, Kept
  <2> QED
    BY <1>3, <1>4, <1>8, <1>10, <2>1
<1>17. Covered'
  <2> SUFFICES ASSUME NEW b \in Live'
               PROVE  ref'[b] >= Cardinality(Holders(b)')
    BY DEF Covered
  <2>1. CASE b = o
    <3>1. Cardinality({d}) = 1
      BY FS_Singleton
    <3> QED
      BY <1>7, <1>12, <2>1, <3>1
  <2>2. CASE b # o
    <3>1. b \in Live /\ b \in Blocks /\ ref'[b] = ref[b]
      BY <1>3, <1>7, <1>10, <2>2
    <3>2. ref[b] >= Cardinality(Holders(b))
      BY <3>1 DEF GcInv, Covered
    <3>3. Cardinality(Holders(b)') = Cardinality(Holders(b))
      <4>1. CASE b = x
        <5>1. IsFiniteSet(Holders(x)) /\ Cardinality(Holders(x)) \in Nat
          BY <3>1, <4>1, HoldersFacts DEF GcInv
        <5>2. PICK R : R = Holders(x) \ {d}
          OBVIOUS
        <5>3. x # Nil
          BY <1>3, <3>1, <4>1
        <5>4. IsFiniteSet(R) /\ Cardinality(R) = Cardinality(Holders(x)) - 1
          BY <1>13, <5>1, <5>2, <5>3, FS_RemoveElement
        <5>5. Cardinality(R \cup {o}) = Cardinality(R) + 1
          BY <1>13, <5>2, <5>3, <5>4, FS_AddElement
        <5>6. Holders(b)' = R \cup {o} /\ Holders(b) = Holders(x)
          BY <1>13, <4>1, <5>2, <5>3
        <5> QED
          BY <5>1, <5>4, <5>5, <5>6
      <4>2. CASE b # x
        BY <1>14, <2>2, <3>1, <4>2
      <4> QED
        BY <4>1, <4>2
    <3> QED
      BY <3>1, <3>2, <3>3
  <2> QED
    BY <2>1, <2>2
<1>18. TriColor'
  <2> SUFFICES ASSUME NEW p \in Roots \cup inuse',
                      p \in Roots \/ color'[p] = mutator, points'[p] # Nil
               PROVE  color'[points'[p]] \in {mutator, propagator}
    BY <1>9 DEF TriColor
  <2>1. p \in Places
    BY <1>3, <1>25
  <2>2. CASE p = d
    BY <1>3, <1>7, <1>8, <2>1, <2>2
  <2>3. CASE p = o
    <3>1. points'[p] = x /\ x # Nil /\ x \in Blocks
      BY <1>3, <1>4, <1>5, <1>8, <2>1, <2>3
    <3> QED
      BY <1>5, <1>6, <1>7, <3>1
  <2>4. CASE p # d /\ p # o
    <3>1. points'[p] = points[p] /\ p \in Roots \cup inuse
      BY <1>8, <1>25, <2>1, <2>4
    <3>2. p \in Roots \/ color[p] = mutator
      <4>1. CASE p \in Roots
        BY <4>1
      <4>2. CASE p \in inuse
        <5>1. p \in Blocks /\ c[p] = mutator
          BY <1>3, <1>7, <2>4, <4>2
        <5>2. mutator # propagator
          BY <1>3 DEF propagator
        <5> QED
          BY <1>3, <1>6, <5>1, <5>2
      <4> QED
        BY <3>1, <4>1, <4>2
    <3>3. color[points[p]] \in {mutator, propagator}
      BY <3>1, <3>2 DEF GcInv, TriColor
    <3>4. points[p] \in Blocks
      BY <1>3, <2>1, <3>1
    <3> QED
      BY <1>6, <1>7, <3>1, <3>3, <3>4
  <2> QED
    BY <2>2, <2>3, <2>4
<1>19. BehindPtr'
  <2> SUFFICES ASSUME NEW b \in inuse', ptr' # Nil, b < ptr'
               PROVE  /\ color'[b] # sweeper
                      /\ nprop' = 0 => color'[b] # propagator
    BY <1>9 DEF BehindPtr
  <2>1. ptr' = ptr /\ b \in Blocks /\ mutator # propagator
    BY <1>3, <1>25 DEF gcvars, propagator
  <2>2. CASE b = o
    BY <1>7, <1>9, <2>1, <2>2
  <2>3. CASE b # o
    <3>1. /\ color[b] # sweeper
          /\ nprop = 0 => color[b] # propagator
      BY <1>25, <2>1, <2>3 DEF GcInv, BehindPtr
    <3>2. nprop' = 0 => nprop = 0 /\ c = color
      BY <1>26
    <3>3. c[b] \in {color[b], mutator, propagator} /\ color'[b] = c[b]
      <4>1. b # Nil
        BY <1>3, <2>1
      <4> QED
        BY <1>6, <1>7, <2>1, <2>3, <4>1
    <3> QED
      BY <1>9, <2>1, <3>1, <3>2, <3>3
  <2> QED
    BY <2>2, <2>3
<1>20. WalkInv'
  <2>1. UNCHANGED <<ptr, prev, visit, closing>>
    BY DEF gcvars
  <2>2. closing # Nil => closing \in inuse' /\ color'[closing] = sweeper
    <3> SUFFICES ASSUME closing # Nil
                 PROVE  closing \in inuse' /\ color'[closing] = sweeper
      OBVIOUS
    <3>1. closing \in inuse /\ color[closing] = sweeper /\ closing \in Blocks
      BY <1>3 DEF GcInv, WalkInv
    <3>2. closing # o /\ closing # x
      BY <1>4, <1>21, <3>1 DEF Live
    <3> QED
      BY <1>6, <1>7, <1>25, <3>1, <3>2
  <2> QED
    BY <1>9, <2>1, <2>2 DEF GcInv, WalkInv
<1>27. HeapType'
  <2>1. val' \in [Places -> Blocks \cup {Nil}]
    BY <1>2, <1>3, <1>4, <1>22
  <2>2. d \in alive'  \/ d \notin Blocks
    BY <1>2, <1>3, <1>5, <1>22
  <2>3. \A b \in Blocks \ alive' : val'[b] = Nil
    BY <1>2, <1>3, <1>22, <1>23, <2>2
  <2> QED
    BY <1>2, <1>22, <2>1, <2>3 DEF HeapType
<1>28. DropInv'
  <2>1. ASSUME dst # Nil
        PROVE  /\ visit' = 0 /\ dst \in Roots \cup Live' /\ val'[dst] \in doomed
               /\ root \in Roots /\ (root = dst \/ points'[root] = dst)
    <3>1. /\ visit = 0 /\ dst \in Roots \cup Live /\ val[dst] \in doomed
          /\ root \in Roots /\ (root = dst \/ points[root] = dst)
      BY <2>1 DEF DropInv
    <3>2. dst \in Places /\ root \in Places
      BY <1>3, <3>1
    <3>3. visit' = visit
      BY DEF gcvars
    <3> QED
      BY <1>4, <1>8, <1>10, <1>23, <1>24, <3>1, <3>2, <3>3
  <2>2. ASSUME dst # Nil, NEW b \in doomed
        PROVE  ref'[b] = 0 /\ color'[b] # sweeper' /\ val'[b] \in doomed \cup {Nil}
    <3>1. b \in Blocks /\ b \in Places /\ b # o /\ b # d /\ b # x
      BY <1>3, <1>4, <1>21, <1>22 DEF Live, inuse
    <3>2. ref[b] = 0 /\ color[b] # sweeper /\ val[b] \in doomed \cup {Nil}
      BY <2>2 DEF DropInv
    <3> QED
      BY <1>6, <1>7, <1>9, <1>23, <3>1, <3>2
  <2> QED
    BY <1>22, <2>1, <2>2 DEF DropInv
<1> QED
  BY <1>15, <1>16, <1>17, <1>18, <1>19, <1>20, <1>27, <1>28 DEF GcInv

LEMMA InstructionInv ==
  ASSUME HeapInv, Shared = FALSE, Instruction
  PROVE  HeapInv'
<1>1. UNCHANGED <<mutator, gcvars>>
  BY DEF Instruction
<1>2. PICK d \in Free :
         \/ \E v \in Loaded \cup {Nil} : Movp(d, v)
         \/ \E o \in Blocks : New(d, o) \/ Cons(d, o)
  BY DEF Instruction
<1>3. CASE \E v \in Loaded \cup {Nil} : Movp(d, v)
  <2>1. PICK v \in Loaded \cup {Nil} : Movp(d, v)
    BY <1>3
  <2>2. v = Nil \/ v \in Live
    BY OperandFacts DEF Loaded
  <2> QED
    BY <1>1, <2>1, <2>2, MovpInv
<1>4. CASE \E o \in Blocks : New(d, o)
  BY <1>1, <1>4, NewInv
<1>5. CASE \E o \in Blocks : Cons(d, o)
  BY <1>1, <1>5, ConsInv
<1> QED
  BY <1>2, <1>3, <1>4, <1>5

\* The store at the end: to those who read points, nothing happens.
LEMMA EndDropInv ==
  ASSUME HeapInv, EndDrop
  PROVE  HeapInv'
<1> USE DEF HeapInv
<1>1. /\ dst # Nil /\ alive' = alive \ doomed
      /\ color' = [o \in Blocks |-> IF o \in doomed THEN 0 ELSE color[o]]
      /\ ref' = [o \in Blocks |-> IF o \in doomed THEN 0 ELSE ref[o]]
      /\ val' = [p \in Places |->
                   CASE p \in doomed -> Nil [] p = dst -> sv [] OTHER -> val[p]]
      /\ dst' = Nil /\ root' = Nil /\ sv' = Nil /\ doomed' = {}
      /\ UNCHANGED <<mutator, nprop, ptr, prev, visit, closing>>
  BY DEF EndDrop, gcvars
<1>2. /\ alive \subseteq Blocks /\ doomed \subseteq alive /\ Live \subseteq inuse
      /\ inuse \subseteq Blocks /\ inuse \cap doomed = {}
      /\ points \in [Places -> Blocks \cup {Nil}]
      /\ color \in [Blocks -> 0 .. propagator] /\ ref \in [Blocks -> 0 .. MaxRef]
      /\ Nil \notin Places /\ Roots \subseteq Places /\ Blocks \subseteq Places
      /\ MaxRef \in Nat /\ Blocks \cap Roots = {}
  BY PlaceFacts DEF HeapType, GcInv, GcType, Live, inuse, Places
<1>3. inuse' = inuse /\ alive' = inuse
  BY <1>1 DEF inuse
<1>4. val' = points
  BY <1>1 DEF points
<1>5. points' = points
  <2>1. points' = [p \in Places |-> val'[p]]
    BY <1>1, <1>2 DEF points
  <2> QED
    BY <1>2, <1>4, <2>1
<1>6. /\ color' \in [Blocks -> 0 .. propagator] /\ ref' \in [Blocks -> 0 .. MaxRef]
      /\ \A o \in inuse : color'[o] = color[o] /\ ref'[o] = ref[o]
  BY <1>1, <1>2 DEF propagator
<1>7. sweeper' = sweeper /\ mutator' = mutator /\ mutator # sweeper
  BY <1>1, ColorFacts DEF sweeper, GcInv, GcType
<1>8. Live' = Live
  BY <1>3, <1>6, <1>7 DEF Live
<1>9. \A o : Holders(o)' = Holders(o)
  BY <1>5, <1>8 DEF Holders
<1>10. GcType'
  BY <1>1, <1>3, <1>5, <1>6 DEF GcInv, GcType
<1>11. Kept'
  BY <1>5, <1>8 DEF GcInv, Kept
<1>12. Covered'
  BY <1>2, <1>6, <1>8, <1>9 DEF GcInv, Covered
<1>13. TriColor'
  <2> SUFFICES ASSUME NEW p \in Roots \cup inuse,
                      p \in Roots \/ color'[p] = mutator, points[p] # Nil
               PROVE  color'[points[p]] \in {mutator, propagator}
    BY <1>3, <1>5, <1>7 DEF TriColor
  <2>1. p \in Roots \/ (p \in inuse /\ color[p] = mutator)
    BY <1>6
  <2>2. color[points[p]] \in {mutator, propagator}
    BY <2>1 DEF GcInv, TriColor
  <2>3. points[p] \in Live
    BY <1>7, <2>1 DEF GcInv, Kept, Live
  <2> QED
    BY <1>2, <1>6, <2>2, <2>3
<1>14. BehindPtr'
  BY <1>1, <1>3, <1>6, <1>7 DEF GcInv, BehindPtr
<1>15. WalkInv'
  BY <1>1, <1>3, <1>6, <1>7 DEF GcInv, WalkInv
<1>16. HeapType'
  BY <1>1, <1>2, <1>3, <1>4 DEF HeapType, GcInv, GcType
<1>17. DropInv'
  BY <1>1 DEF DropInv
<1> QED
  BY <1>10, <1>11, <1>12, <1>13, <1>14, <1>15, <1>16, <1>17 DEF GcInv

----------------------------------------------------------------------------
(* The collector. *)

LEMMA BeginInv ==
  ASSUME GcInv, Begin \/ ChainBroken,
         inuse = alive, points = val, inuse' = alive', points' = val'
  PROVE  GcInv'
<1>1. /\ UNCHANGED <<inuse, color, ref, points, mutator, nprop, prev, closing>>
      /\ visit = 0 /\ closing = Nil
      /\ \/ visit' = Quanta /\ (ptr' = Leader \/ (ptr' = ptr /\ ptr # Nil))
         \/ visit' = visit /\ ptr' = Nil
  BY DEF Begin, ChainBroken, heapvars, okbhdr, GcInv, WalkInv
<1>2. /\ Quanta \in Nat \ {0} /\ Leader # Nil
      /\ \A o \in Blocks : Leader < o /\ o \in Nat
  BY PlaceFacts
<1>3. sweeper' = sweeper /\ Live' = Live
  BY <1>1 DEF sweeper, Live
<1>4. \A o : Holders(o)' = Holders(o)
  BY <1>1, <1>3 DEF Holders
<1>5. GcType'
  BY <1>1, <1>2 DEF GcInv, GcType
<1>6. Kept' /\ TriColor'
  BY <1>1, <1>3 DEF GcInv, Kept, TriColor
<1>7. Covered'
  BY <1>1, <1>3, <1>4 DEF GcInv, Covered
<1>8. BehindPtr'
  <2> SUFFICES ASSUME NEW o \in inuse, ptr' # Nil, o < ptr'
               PROVE  color[o] # sweeper /\ (nprop = 0 => color[o] # propagator)
    BY <1>1, <1>3 DEF BehindPtr
  <2>1. o \in Blocks
    BY DEF GcInv, GcType
  <2>2. ptr' # Leader
    BY <1>2, <2>1 DEF Leader
  <2> QED
    BY <1>1, <2>2 DEF GcInv, BehindPtr
<1>9. WalkInv'
  BY <1>1, <1>2 DEF GcInv, WalkInv
<1> QED
  BY <1>5, <1>6, <1>7, <1>8, <1>9 DEF GcInv

LEMMA SweepFileInv ==
  ASSUME GcInv, SweepFile,
         inuse = alive, points = val, inuse' = alive', points' = val'
  PROVE  GcInv'
<1>1. /\ UNCHANGED <<inuse, color, ref, mutator, nprop, ptr, prev, visit>>
      /\ visit > 0 /\ ptr \in inuse /\ color[ptr] = sweeper
      /\ points' = [points EXCEPT ![ptr] = Nil] /\ closing' = ptr
  BY DEF SweepFile, Swept
<1>2. /\ inuse \subseteq Blocks /\ points \in [Places -> Blocks \cup {Nil}]
      /\ Blocks \subseteq Places /\ Roots \subseteq Places /\ Blocks \cap Roots = {}
      /\ Live \subseteq Places
  BY PlaceFacts DEF GcInv, GcType, Places, Live
<1>3. /\ sweeper' = sweeper /\ Live' = Live
      /\ ptr \notin Roots \cup Live /\ ptr \in Places
  BY <1>1, <1>2 DEF sweeper, Live
<1>4. \A p \in Roots \cup Live : points'[p] = points[p]
  BY <1>1, <1>2, <1>3
<1>5. \A o : Holders(o)' = Holders(o)
  BY <1>3, <1>4 DEF Holders
<1>6. GcType'
  <2>1. points' \in [Places -> Blocks \cup {Nil}]
    BY <1>1, <1>2
  <2>2. \A o \in Blocks \ inuse : points'[o] = Nil
    BY <1>1, <1>2 DEF GcInv, GcType
  <2> QED
    BY <1>1, <2>1, <2>2 DEF GcInv, GcType
<1>7. Kept'
  BY <1>3, <1>4 DEF GcInv, Kept
<1>8. Covered'
  BY <1>1, <1>3, <1>5 DEF GcInv, Covered
<1>9. TriColor'
  <2>1. \A p \in inuse : color[p] = mutator => p \in Live
    <3>1. mutator # sweeper
      BY ColorFacts DEF GcInv, GcType, sweeper
    <3> QED
      BY <3>1 DEF Live
  <2> QED
    BY <1>1, <1>4, <2>1 DEF GcInv, TriColor
<1>10. BehindPtr' /\ WalkInv'
  BY <1>1, <1>3 DEF GcInv, BehindPtr, WalkInv
<1> QED
  BY <1>6, <1>7, <1>8, <1>9, <1>10 DEF GcInv

LEMMA ReclaimInv ==
  ASSUME GcInv, NEW o, o = ptr, visit > 0, o \in inuse, color[o] = sweeper,
         Reclaim(o),
         inuse = alive, points = val, inuse' = alive', points' = val'
  PROVE  GcInv'
<1>1. /\ inuse' = inuse \ {o} /\ color' = [color EXCEPT ![o] = 0]
      /\ ref' = [ref EXCEPT ![o] = 0] /\ points' = [points EXCEPT ![o] = Nil]
      /\ closing' = Nil /\ mutator' = mutator /\ nprop' = nprop
      /\ \/ prev # Nil /\ ptr' = prev /\ visit' = visit - 1
         \/ ptr' = Nil /\ visit' = 0
      /\ prev' = IF visit' = 0 THEN Nil ELSE prev
  BY DEF Reclaim, okbhdr
<1>2. /\ inuse \subseteq Blocks /\ points \in [Places -> Blocks \cup {Nil}]
      /\ color \in [Blocks -> 0 .. propagator] /\ ref \in [Blocks -> 0 .. MaxRef]
      /\ Blocks \subseteq Places /\ Roots \subseteq Places /\ Blocks \cap Roots = {}
      /\ Live \subseteq inuse /\ o \in Blocks /\ MaxRef \in Nat
      /\ Quanta \in Nat /\ visit \in 0 .. Quanta /\ mutator \in 0 .. 2
  BY PlaceFacts DEF GcInv, GcType, Places, Live
<1>3. /\ \A b \in Blocks : b # o => color'[b] = color[b] /\ ref'[b] = ref[b]
      /\ \A p \in Places : p # o => points'[p] = points[p]
      /\ points'[o] = Nil
  BY <1>1, <1>2
<1>4. /\ sweeper' = sweeper /\ sweeper # mutator
      /\ Live' = Live /\ o \notin Roots \cup Live
  BY <1>1, <1>2, <1>3, ColorFacts DEF sweeper, Live
<1>5. \A p \in Roots \cup Live : p \in Places /\ points'[p] = points[p]
  BY <1>2, <1>3, <1>4
<1>6. \A b : Holders(b)' = Holders(b)
  BY <1>4, <1>5 DEF Holders
<1>7. visit' \in 0 .. visit /\ visit' \in 0 .. Quanta
  BY <1>1, <1>2
<1>8. GcType'
  <2>1. color' \in [Blocks -> 0 .. propagator] /\ ref' \in [Blocks -> 0 .. MaxRef]
    BY <1>1, <1>2 DEF propagator
  <2>2. points' \in [Places -> Blocks \cup {Nil}]
    BY <1>1, <1>2
  <2>3. \A b \in Blocks \ inuse' : points'[b] = Nil
    BY <1>1, <1>2, <1>3 DEF GcInv, GcType
  <2>4. /\ ptr' \in Blocks \cup {Leader, Nil} /\ prev' \in Blocks \cup {Leader, Nil}
        /\ nprop' \in 0 .. 1 /\ mutator' \in 0 .. 2 /\ inuse' \subseteq Blocks
    BY <1>1 DEF GcInv, GcType
  <2> QED
    BY <1>7, <2>1, <2>2, <2>3, <2>4 DEF GcType
<1>9. Kept'
  BY <1>4, <1>5 DEF GcInv, Kept
<1>10. Covered'
  BY <1>2, <1>3, <1>4, <1>6 DEF GcInv, Covered
<1>11. TriColor'
  <2> SUFFICES ASSUME NEW p \in Roots \cup inuse',
                      p \in Roots \/ color'[p] = mutator, points'[p] # Nil
               PROVE  color'[points'[p]] \in {mutator, propagator}
    BY <1>1 DEF TriColor
  <2>1. p \in Roots \cup Live /\ (p \in Roots \/ (p \in inuse /\ color[p] = mutator))
    BY <1>1, <1>2, <1>3, <1>4 DEF Live
  <2>2. points'[p] = points[p] /\ points[p] \in Live
    BY <1>5, <2>1 DEF GcInv, Kept
  <2>3. color[points[p]] \in {mutator, propagator}
    BY <2>1, <2>2 DEF GcInv, TriColor
  <2> QED
    BY <1>2, <1>3, <1>4, <2>2, <2>3
<1>12. BehindPtr'
  <2> SUFFICES ASSUME NEW b \in inuse', ptr' # Nil, b < ptr'
               PROVE  /\ color'[b] # sweeper
                      /\ nprop' = 0 => color'[b] # propagator
    BY <1>4 DEF BehindPtr
  <2>1. b \in inuse /\ b \in Blocks /\ b # o /\ b \in Nat
    BY <1>1, <1>2, PlaceFacts
  <2>2. ptr' = prev /\ prev # Nil /\ prev <= ptr
    BY <1>1 DEF GcInv, WalkInv
  <2>3. ptr \in Nat /\ prev \in Nat
    BY PlaceFacts DEF GcInv, GcType, Leader
  <2>4. ptr # Nil /\ b < ptr
    BY <2>1, <2>2, <2>3, <1>2 DEF GcInv, WalkInv
  <2> QED
    BY <1>1, <1>3, <2>1, <2>4 DEF GcInv, BehindPtr
<1>13. WalkInv'
  <2>1. prev' # Nil => prev' <= ptr'
    <3> SUFFICES ASSUME prev' # Nil PROVE prev' <= ptr'
      OBVIOUS
    <3>1. prev' = prev /\ ptr' = prev /\ prev # Nil
      BY <1>1
    <3>2. prev \in Nat
      BY PlaceFacts DEF GcInv, GcType, Leader
    <3> QED
      BY <3>1, <3>2
  <2> QED
    BY <1>1, <1>7, <2>1 DEF WalkInv
<1> QED
  BY <1>8, <1>9, <1>10, <1>11, <1>12, <1>13 DEF GcInv

\* The next block: nothing in use lies between.
LEMMA AfterFacts ==
  ASSUME alive \subseteq Blocks, NEW b \in Blocks \cup {Leader}
  PROVE  \/ After(b) = Nil /\ \A k \in alive : k <= b
         \/ /\ After(b) \in Blocks /\ b < After(b)
            /\ \A k \in alive : k <= b \/ After(b) <= k
<1>1. Blocks \subseteq Nat /\ Leader \in Nat /\ b \in Nat /\ Nil \notin Blocks
  BY PlaceFacts DEF Leader, Places
<1>2. \A k \in alive : okbhdr(k, alive)
  BY <1>1 DEF okbhdr
<1> DEFINE T == {n \in Blocks : n > b /\ okbhdr(n, alive)}
           Next1(n) == /\ n > b /\ okbhdr(n, alive)
                       /\ \A k \in b + 1 .. n - 1 : ~okbhdr(k, alive)
<1>3. CASE T = {}
  <2>1. After(b) = Nil
    BY <1>3 DEF After
  <2>2. \A k \in alive : k <= b
    BY <1>1, <1>2, <1>3
  <2> QED
    BY <2>1, <2>2
<1>4. CASE T # {}
  <2>1. PICK n \in T : \A k \in T : n <= k
    BY <1>1, <1>4, Facts!LeastElement
  <2>2. ASSUME NEW k \in b + 1 .. n - 1
        PROVE  ~okbhdr(k, alive)
    <3>1. n \in Nat /\ n <= NBlocks /\ NBlocks \in Nat
      BY <1>1, <2>1, PlaceFacts DEF Blocks
    <3>2. k \in Nat /\ b < k /\ k < n
      BY <1>1, <3>1
    <3>3. k \in Blocks /\ k \notin T
      <4>1. k \in Blocks /\ ~(n <= k)
        BY <1>1, <3>1, <3>2 DEF Blocks
      <4> HIDE DEF T
      <4> QED
        BY <2>1, <4>1
    <3> QED
      BY <3>2, <3>3
  <2>3. n \in Blocks /\ Next1(n)
    BY <2>1, <2>2
  <2>4. After(b) = CHOOSE i \in Blocks : Next1(i)
    BY <2>3 DEF After
  <2>5. After(b) \in Blocks /\ Next1(After(b))
    BY <2>3, <2>4
  <2>6. PICK a : /\ a = After(b) /\ a \in Nat /\ a \in Blocks /\ b < a
                 /\ \A k \in b + 1 .. a - 1 : ~okbhdr(k, alive)
    <3>1. PICK a : a = After(b)
      OBVIOUS
    <3>2. a \in Nat /\ a > b
      BY <1>1, <2>5, <3>1
    <3> QED
      BY <1>1, <2>5, <3>1, <3>2
  <2> HIDE DEF T, Next1
  <2>7. ASSUME NEW k \in alive, b < k, k < a
        PROVE  FALSE
    <3>1. k \in Nat
      BY <1>1
    <3>2. k \in b + 1 .. a - 1
      BY <1>1, <2>6, <2>7, <3>1
    <3> QED
      BY <1>2, <2>6, <3>2
  <2>8. a \in Blocks /\ b < a /\ \A k \in alive : k <= b \/ a <= k
    <3>1. \A k \in alive : k \in Nat
      BY <1>1
    <3>2. \A k \in alive : ~(b < k /\ k < a)
      BY <2>7
    <3> QED
      BY <1>1, <2>6, <3>1, <3>2
  <2> QED
    BY <2>6, <2>8
<1> QED
  BY <1>3, <1>4

\* The block at ptr has been visited, and the colours are c: nothing up to it
\* is to be swept nor, if nothing has been marked since the pass began, to be
\* visited.
Visited(c, np) ==
    /\ c \in [Blocks -> 0 .. propagator] /\ np \in 0 .. 1
    /\ \A b \in inuse : c[b] = sweeper <=> color[b] = sweeper
    /\ \A p \in Roots \cup {b \in inuse : c[b] = mutator} :
          points[p] # Nil => c[points[p]] \in {mutator, propagator}
    /\ \A b \in inuse : b <= ptr =>
          /\ c[b] # sweeper
          /\ np = 0 => c[b] # propagator

LEMMA VisitFacts ==
  ASSUME GcInv, Visit,
         inuse = alive, points = val, inuse' = alive', points' = val'
  PROVE  \E c, np :
            /\ Visited(c, np) /\ ptr # Nil /\ closing = Nil
            /\ UNCHANGED <<inuse, ref, points, closing>>
            /\ ptr' = After(ptr)
            /\ \/ ptr' = Nil /\ EndPass(c, np) /\ visit' = 0
               \/ /\ ptr' # Nil /\ color' = c /\ nprop' = np
                  /\ visit' = visit - 1 /\ visit > 0 /\ mutator' = mutator
            /\ prev' = IF visit' = 0 THEN Nil ELSE ptr
<1> DEFINE grey == ptr \in inuse /\ color[ptr] = propagator
           d1 == IF grey THEN [color EXCEPT ![ptr] = mutator] ELSE color
           dS == IF grey THEN {points[ptr]} \ {Nil} ELSE {}
           d2 == Setmark(dS, mutator, d1)
           dn == Marked(dS, mutator, d1, nprop)
<1>1. /\ visit > 0 /\ closing = Nil /\ ~Swept(ptr)
      /\ ptr' = After(ptr)
      /\ \/ ptr' = Nil /\ EndPass(d2, dn) /\ visit' = 0
         \/ /\ ptr' # Nil /\ color' = d2 /\ nprop' = dn
            /\ visit' = visit - 1 /\ mutator' = mutator
      /\ prev' = IF visit' = 0 THEN Nil ELSE ptr
      /\ UNCHANGED <<inuse, ref, points, closing>>
  BY DEF Visit
<1>2. /\ inuse \subseteq Blocks /\ Live \subseteq inuse
      /\ color \in [Blocks -> 0 .. propagator] /\ nprop \in 0 .. 1
      /\ points \in [Places -> Blocks \cup {Nil}] /\ mutator \in 0 .. 2
      /\ Nil \notin Places /\ Blocks \subseteq Places /\ Roots \subseteq Places
      /\ Blocks \cap Roots = {} /\ mutator \in 0 .. propagator
      /\ mutator # propagator
      /\ ptr # Nil
  BY <1>1, PlaceFacts DEF GcInv, GcType, Live, Places, propagator, WalkInv
<1>3. PICK c1, c2, np : c1 = d1 /\ c2 = d2 /\ np = dn
  OBVIOUS
<1>4. sweeper # mutator /\ sweeper # propagator
  BY <1>2, ColorFacts DEF sweeper, propagator
<1>5. CASE ~grey
  <2>1. c2 = color /\ np = nprop
    <3>1. Setmark({}, mutator, color) = color
      BY <1>2 DEF Setmark
    <3>2. Marked({}, mutator, color, nprop) = nprop
      BY DEF Marked
    <3> QED
      BY <1>3, <1>5, <3>1, <3>2
  <2>2. ASSUME NEW b \in inuse, b <= ptr
        PROVE  color[b] # sweeper /\ (nprop = 0 => color[b] # propagator)
    <3>1. CASE b = ptr
      BY <1>1, <1>5, <3>1 DEF Swept
    <3>2. CASE b # ptr
      <4>1. ptr \in Nat /\ b \in Nat
        BY <1>2, PlaceFacts DEF GcInv, GcType, Leader
      <4>2. b < ptr
        BY <2>2, <3>2, <4>1
      <4> QED
        BY <1>2, <4>2 DEF GcInv, BehindPtr
    <3> QED
      BY <3>1, <3>2
  <2>3. Visited(c2, np)
    BY <1>2, <2>1, <2>2 DEF Visited, GcInv, TriColor
  <2> QED
    BY <1>1, <1>2, <1>3, <2>3
<1>6. CASE grey
  <2>1. PICK x : x = points[ptr]
    OBVIOUS
  <2>2. ptr \in Blocks /\ ptr \in inuse /\ color[ptr] = propagator
    BY <1>2, <1>6
  <2>3. /\ c1 = [color EXCEPT ![ptr] = mutator]
        /\ c2 = Setmark({x} \ {Nil}, mutator, c1)
        /\ np = Marked({x} \ {Nil}, mutator, c1, nprop)
    BY <1>3, <1>6, <2>1
  <2>4. /\ c1 \in [Blocks -> 0 .. propagator] /\ c1[ptr] = mutator
        /\ \A b \in Blocks : b # ptr => c1[b] = color[b]
    BY <1>2, <2>2, <2>3
  <2>5. ptr \in Live /\ (x # Nil => x \in Live)
    BY <1>4, <2>1, <2>2 DEF Live, GcInv, Kept
  <2>6. /\ c2 \in [Blocks -> 0 .. propagator]
        /\ \A b \in Blocks : b # x => c2[b] = c1[b]
        /\ x # Nil => c2[x] \in {mutator, propagator}
        /\ \A b \in Blocks : c2[b] \in {c1[b], propagator}
    <3> DEFINE S == {x} \ {Nil}
    <3>1. x # Nil => x \in Blocks /\ x \in S
      BY <1>2, <2>5
    <3>2. \A b \in Blocks : b # x => b \notin S
      OBVIOUS
    <3>3. c2 = Setmark(S, mutator, c1)
      BY <2>3
    <3> HIDE DEF S
    <3>4. /\ c2 \in [Blocks -> 0 .. propagator]
          /\ \A b \in Blocks :
                /\ b \notin S => c2[b] = c1[b]
                /\ b \in S => c2[b] \in {mutator, propagator}
                /\ c2[b] \in {c1[b], propagator}
      BY <1>2, <2>4, <3>3, SetmarkFacts
    <3> QED
      BY <3>1, <3>2, <3>4
  <2>7. np \in 0 .. 1 /\ (np = 0 => nprop = 0 /\ c2 = c1)
    <3>1. PICK S : S = {x} \ {Nil}
      OBVIOUS
    <3>2. S \subseteq Blocks
      BY <1>2, <2>5, <3>1
    <3>3. c2 = Setmark(S, mutator, c1) /\ np = Marked(S, mutator, c1, nprop)
      BY <2>3, <3>1
    <3> QED
      BY <1>2, <2>4, <3>2, <3>3, MarkedFacts
  <2>8. \A b \in inuse : c2[b] = sweeper <=> color[b] = sweeper
    <3> SUFFICES ASSUME NEW b \in inuse
                 PROVE  c2[b] = sweeper <=> color[b] = sweeper
      OBVIOUS
    <3>1. CASE b = x
      <4>1. b \in Blocks /\ x # Nil /\ x \in Live
        BY <1>2, <2>5, <3>1
      <4> QED
        BY <1>4, <2>6, <3>1, <4>1 DEF Live
    <3>2. CASE b # x
      BY <1>2, <1>4, <2>2, <2>4, <2>6, <3>2
    <3> QED
      BY <3>1, <3>2
  <2>9. ASSUME NEW p \in Roots \cup inuse, p \in Roots \/ c2[p] = mutator,
               points[p] # Nil
        PROVE  c2[points[p]] \in {mutator, propagator}
    <3>1. p \in Places /\ points[p] \in Blocks
      BY <1>2, <2>9
    <3>2. CASE p = ptr
      BY <2>1, <2>6, <2>9, <3>2
    <3>3. CASE p # ptr
      <4>1. p \in Roots \/ (p \in inuse /\ color[p] = mutator)
        BY <1>2, <2>4, <2>6, <2>9, <3>3
      <4>2. color[points[p]] \in {mutator, propagator}
        BY <2>9, <4>1 DEF GcInv, TriColor
      <4>3. c1[points[p]] \in {mutator, propagator}
        BY <2>4, <3>1, <4>2
      <4> QED
        BY <2>6, <3>1, <4>3
    <3> QED
      BY <3>2, <3>3
  <2>10. ASSUME NEW b \in inuse, b <= ptr
         PROVE  c2[b] # sweeper /\ (np = 0 => c2[b] # propagator)
    <3>1. CASE b = ptr
      BY <1>2, <1>4, <2>2, <2>4, <2>7, <2>8, <3>1
    <3>2. CASE b # ptr
      <4>1. ptr \in Nat /\ b \in Nat /\ b \in Blocks
        BY <1>2, PlaceFacts DEF GcInv, GcType, Leader
      <4>2. b < ptr
        BY <2>10, <3>2, <4>1
      <4>3. color[b] # sweeper /\ (nprop = 0 => color[b] # propagator)
        BY <1>2, <4>2 DEF GcInv, BehindPtr
      <4> QED
        BY <2>4, <2>7, <2>8, <3>2, <4>1, <4>3
    <3> QED
      BY <3>1, <3>2
  <2>11. Visited(c2, np)
    BY <2>6, <2>7, <2>8, <2>9, <2>10 DEF Visited
  <2> HIDE DEF d1, d2, dn, dS, grey
  <2> QED
    BY <1>1, <1>2, <1>3, <2>11
<1> QED
  BY <1>5, <1>6

LEMMA VisitInv ==
  ASSUME GcInv, Visit,
         inuse = alive, points = val, inuse' = alive', points' = val'
  PROVE  GcInv'
<1>1. PICK c, np :
            /\ Visited(c, np) /\ ptr # Nil /\ closing = Nil
            /\ UNCHANGED <<inuse, ref, points, closing>>
            /\ ptr' = After(ptr)
            /\ \/ ptr' = Nil /\ EndPass(c, np) /\ visit' = 0
               \/ /\ ptr' # Nil /\ color' = c /\ nprop' = np
                  /\ visit' = visit - 1 /\ visit > 0 /\ mutator' = mutator
            /\ prev' = IF visit' = 0 THEN Nil ELSE ptr
  BY VisitFacts
<1>2. /\ inuse \subseteq Blocks /\ Live \subseteq inuse
      /\ mutator \in 0 .. 2
      /\ points \in [Places -> Blocks \cup {Nil}]
      /\ Nil \notin Places /\ Blocks \subseteq Places /\ Roots \subseteq Places
      /\ Blocks \cap Roots = {} /\ Blocks \subseteq Nat
      /\ ptr \in Blocks \cup {Leader} /\ ptr \in Nat
      /\ Quanta \in Nat /\ visit \in 0 .. Quanta
  BY <1>1, PlaceFacts DEF GcInv, GcType, Live, Places, Leader
<1>3. /\ c \in [Blocks -> 0 .. propagator] /\ np \in 0 .. 1
      /\ \A b \in inuse : c[b] = sweeper <=> color[b] = sweeper
      /\ \A p \in Roots \cup {b \in inuse : c[b] = mutator} :
            points[p] # Nil => c[points[p]] \in {mutator, propagator}
      /\ \A b \in inuse : b <= ptr =>
            /\ c[b] # sweeper
            /\ np = 0 => c[b] # propagator
  BY <1>1 DEF Visited
<1>4. \/ ptr' = Nil /\ \A k \in inuse : k <= ptr
      \/ /\ ptr' \in Blocks /\ ptr < ptr'
         /\ \A k \in inuse : k <= ptr \/ ptr' <= k
  BY <1>1, <1>2, AfterFacts
<1>5. /\ visit' \in 0 .. Quanta /\ prev' \in Blocks \cup {Leader, Nil}
      /\ ptr' \in Blocks \cup {Leader, Nil}
      /\ visit' > 0 => ptr' # Nil
      /\ prev' # Nil => prev' <= ptr'
  <2>1. visit' \in 0 .. Quanta
    BY <1>1, <1>2
  <2>2. prev' # Nil => prev' = ptr /\ visit' # 0
    BY <1>1
  <2>3. visit' # 0 => ptr' # Nil
    BY <1>1
  <2>4. ptr' \in Blocks \cup {Leader, Nil} /\ prev' \in Blocks \cup {Leader, Nil}
    BY <1>2, <1>4, <2>2
  <2>5. prev' # Nil => prev' <= ptr'
    <3> SUFFICES ASSUME prev' # Nil PROVE prev' <= ptr'
      OBVIOUS
    <3>1. prev' = ptr /\ ptr' \in Nat /\ ptr < ptr'
      BY <1>2, <1>4, <2>2, <2>3
    <3> QED
      BY <1>2, <3>1
  <2> QED
    BY <2>1, <2>3, <2>4, <2>5
<1>6. WalkInv'
  BY <1>1, <1>5 DEF WalkInv
\* The pass goes on, or ends without ending the epoch.
<1>7. ASSUME color' = c, mutator' = mutator, nprop' \in 0 .. 1,
             ptr' # Nil => nprop' = np
      PROVE  GcInv'
  <2>1. sweeper' = sweeper /\ Live' = Live
    BY <1>1, <1>3, <1>7 DEF sweeper, Live
  <2>2. \A b : Holders(b)' = Holders(b)
    BY <1>1, <2>1 DEF Holders
  <2>3. GcType'
    BY <1>1, <1>2, <1>3, <1>5, <1>7 DEF GcInv, GcType
  <2>4. Kept'
    BY <1>1, <2>1 DEF GcInv, Kept
  <2>5. Covered'
    BY <1>1, <2>1, <2>2 DEF GcInv, Covered
  <2>6. TriColor'
    BY <1>1, <1>3, <1>7 DEF TriColor
  <2>7. BehindPtr'
    <3> SUFFICES ASSUME NEW b \in inuse, ptr' # Nil, b < ptr'
                 PROVE  c[b] # sweeper /\ (nprop' = 0 => c[b] # propagator)
      BY <1>1, <1>7, <2>1 DEF BehindPtr
    <3>1. b \in Nat /\ ptr' \in Nat
      BY <1>2, <1>4
    <3>2. ~(ptr' <= b)
      BY <3>1
    <3>3. b <= ptr
      BY <1>4, <3>2
    <3> QED
      BY <1>3, <1>7, <3>3
  <2> QED
    BY <1>6, <2>3, <2>4, <2>5, <2>6, <2>7 DEF GcInv
\* The epoch ends: what has not been marked in it is the next one's to sweep.
<1>8. ASSUME ptr' = Nil, EndPass(c, np), np = 0
      PROVE  GcInv'
  <2> DEFINE m == (mutator + 1) % 3
  <2>1. /\ mutator' = m /\ color' = Setmark(RootSet, m, c)
        /\ nprop' \in 0 .. 1
    BY <1>8 DEF EndPass, Marked
  <2>2. /\ m = sweeper /\ sweeper \in 0 .. 2 /\ sweeper # mutator
        /\ sweeper # propagator /\ sweeper' = marker
        /\ marker \in 0 .. 2 /\ marker # sweeper /\ marker # mutator
        /\ marker # propagator /\ mutator # propagator
    BY <1>2, <2>1, ColorFacts DEF sweeper, marker, propagator
  <2> HIDE DEF m
  <2>3. \A b \in inuse : c[b] # sweeper /\ c[b] # propagator
    BY <1>3, <1>4, <1>8, PlaceFacts
  <2>4. \A p \in Roots \cup {b \in inuse : c[b] = mutator} :
           points[p] # Nil => points[p] \in Live /\ c[points[p]] = mutator
    <3> SUFFICES ASSUME NEW p \in Roots \cup inuse, p \in Roots \/ c[p] = mutator,
                        points[p] # Nil
                 PROVE  points[p] \in Live /\ c[points[p]] = mutator
      OBVIOUS
    <3>1. p \in Roots \cup Live
      BY <1>3, <2>2 DEF Live
    <3>2. points[p] \in Live
      BY <3>1 DEF GcInv, Kept
    <3>3. c[points[p]] \in {mutator, propagator}
      BY <1>3
    <3> QED
      BY <1>2, <2>3, <3>2, <3>3
  <2>5. RootSet \subseteq Live /\ \A b \in RootSet : c[b] = mutator
    BY <2>4 DEF RootSet
  <2>6. /\ color' \in [Blocks -> 0 .. propagator]
        /\ \A b \in Blocks :
              /\ b \notin RootSet => color'[b] = c[b]
              /\ b \in RootSet => color'[b] \in {sweeper, propagator}
              /\ color'[b] \in {c[b], propagator}
    BY <1>3, <2>1, <2>2, SetmarkFacts
  <2>7. \A b \in RootSet : color'[b] = propagator
    BY <1>2, <2>3, <2>5, <2>6
  <2>8. Live' = {b \in inuse : c[b] = mutator}
    <3>1. Live' = {b \in inuse : color'[b] # marker}
      BY <1>1, <2>2 DEF Live
    <3>2. ASSUME NEW b \in inuse PROVE color'[b] # marker <=> c[b] = mutator
      <4>1. c[b] \in 0 .. 3 /\ c[b] # sweeper /\ c[b] # propagator /\ b \in Blocks
        BY <1>2, <1>3, <2>3 DEF propagator
      <4>2. c[b] = mutator \/ c[b] = marker
        BY <1>2, <2>2, <4>1 DEF propagator
      <4> QED
        BY <2>2, <2>5, <2>6, <2>7, <4>1, <4>2
    <3> QED
      BY <3>1, <3>2
  <2>9. Live' \subseteq Live
    BY <1>3, <2>2, <2>8 DEF Live
  <2>10. GcType'
    BY <1>1, <1>2, <1>5, <2>1, <2>2, <2>6 DEF GcInv, GcType
  <2>11. Kept'
    BY <1>1, <2>4, <2>8 DEF Kept, Live
  <2>12. Covered'
    <3> SUFFICES ASSUME NEW o \in Live'
                 PROVE  ref[o] >= Cardinality(Holders(o)')
      BY <1>1 DEF Covered
    <3>1. o \in Live /\ o \in Blocks
      BY <1>2, <2>9
    <3>2. Holders(o)' \subseteq Holders(o)
      BY <1>1, <2>9 DEF Holders
    <3>3. IsFiniteSet(Holders(o)) /\ Cardinality(Holders(o)) \in Nat
      BY <3>1, HoldersFacts DEF GcInv
    <3>4. Cardinality(Holders(o)') \in Nat
          /\ Cardinality(Holders(o)') <= Cardinality(Holders(o))
      BY <3>2, <3>3, FS_Subset, FS_CardinalityType
    <3>5. ref[o] >= Cardinality(Holders(o)) /\ ref[o] \in Nat
      BY <3>1 DEF GcInv, GcType, Covered
    <3> QED
      BY <3>3, <3>4, <3>5
  <2>13. TriColor'
    <3> SUFFICES ASSUME NEW p \in Roots \cup inuse,
                        p \in Roots \/ color'[p] = sweeper, points[p] # Nil
                 PROVE  color'[points[p]] = propagator
      BY <1>1, <2>1, <2>2 DEF TriColor
    <3>1. ASSUME p \in inuse, p \notin Roots PROVE FALSE
      <4>1. p \in Blocks /\ c[p] # sweeper
        BY <1>2, <2>3, <3>1
      <4> QED
        BY <2>2, <2>6, <3>1, <4>1
    <3>2. points[p] \in RootSet
      BY <3>1 DEF RootSet
    <3> QED
      BY <2>7, <3>2
  <2>14. BehindPtr'
    BY <1>8 DEF BehindPtr
  <2> QED
    BY <1>6, <2>10, <2>11, <2>12, <2>13, <2>14 DEF GcInv
<1>9. CASE ptr' = Nil /\ EndPass(c, np)
  <2>1. CASE np = 0
    BY <1>8, <1>9, <2>1
  <2>2. CASE np # 0
    BY <1>7, <1>9, <2>2 DEF EndPass
  <2> QED
    BY <2>1, <2>2
<1>10. CASE ptr' # Nil /\ color' = c /\ nprop' = np /\ mutator' = mutator
  BY <1>3, <1>7, <1>10
<1> QED
  BY <1>1, <1>9, <1>10

----------------------------------------------------------------------------
(* The invariant, and what follows from it. *)

LEMMA InitHeapInv ==
  ASSUME Init
  PROVE  HeapInv
<1>1. /\ alive = {} /\ color = [o \in Blocks |-> 0] /\ ref = [o \in Blocks |-> 0]
      /\ val = [p \in Places |-> Nil]
      /\ mutator = 0 /\ nprop = 0
      /\ ptr = Nil /\ prev = Nil /\ visit = 0 /\ closing = Nil
      /\ dst = Nil /\ root = Nil /\ sv = Nil /\ doomed = {}
  BY DEF Init
<1>2. /\ inuse = {} /\ points = [p \in Places |-> Nil]
      /\ Roots \subseteq Places /\ Nil \notin Places
  BY <1>1, PlaceFacts DEF inuse, points, Places
<1>3. GcType
  BY <1>1, <1>2, PlaceFacts DEF GcType, propagator, Leader, Places
<1>4. Live = {} /\ \A p \in Roots : points[p] = Nil
  BY <1>2 DEF Live
<1>5. Kept /\ Covered /\ TriColor /\ BehindPtr
  BY <1>2, <1>4 DEF Kept, Covered, TriColor, BehindPtr
<1>6. WalkInv /\ DropInv
  BY <1>1 DEF WalkInv, DropInv
<1>7. HeapType
  BY <1>1 DEF HeapType, Places
<1> QED
  BY <1>3, <1>5, <1>6, <1>7 DEF GcInv, HeapInv

\* rungc stands still while a file is closed for an instruction.
LEMMA RungcInv ==
  ASSUME HeapInv, Rungc
  PROVE  HeapInv'
<1>1. dst = Nil /\ doomed = {} /\ root = Nil /\ sv = Nil
  <2>1. gchalt = 0 \/ visit > 0 \/ closing # Nil
    BY DEF Rungc, Begin, ChainBroken, Visit, Sweep, SweepFile, FileClosed
  <2>2. visit \in Nat /\ (closing # Nil => visit > 0)
    BY PlaceFacts DEF HeapInv, GcInv, GcType, WalkInv
  <2>3. dst = Nil
    BY <2>1, <2>2, LevelsNat DEF HeapInv, DropInv
  <2> QED
    BY <2>3 DEF HeapInv, DropInv
<1>2. /\ dst' = Nil /\ doomed' = {} /\ root' = Nil /\ sv' = Nil
  BY <1>1 DEF Rungc, dropvars
<1>3. /\ val = [p \in Places |-> val[p]] /\ val' = [p \in Places |-> val'[p]]
      /\ Nil \notin Places
  <2>1. val \in [Places -> Blocks \cup {Nil}] /\ Nil \notin Places
    BY PlaceFacts DEF HeapInv, HeapType
  <2>2. val' = val \/ \E o : val' = [val EXCEPT ![o] = Nil]
    BY DEF Rungc, Begin, ChainBroken, Visit, Sweep, SweepFile, FileClosed,
           Reclaim, heapvars
  <2> QED
    BY <2>1, <2>2
<1>4. inuse = alive /\ points = val
  BY <1>1, <1>3 DEF inuse, points
<1>5. inuse' = alive' /\ points' = val'
  <2>1. inuse' = alive'
    BY <1>2 DEF inuse
  <2>2. points' = [p \in Places |-> val'[p]]
    BY <1>2, <1>3 DEF points
  <2> QED
    BY <1>3, <2>1, <2>2
<1>6. GcInv
  BY DEF HeapInv
<1>7. ASSUME Begin \/ ChainBroken PROVE GcInv'
  BY <1>4, <1>5, <1>6, <1>7, BeginInv
<1>8. ASSUME Visit PROVE GcInv'
  BY <1>4, <1>5, <1>6, <1>8, VisitInv
<1>9. ASSUME Sweep PROVE GcInv'
  BY <1>4, <1>5, <1>6, <1>9, ReclaimInv DEF Sweep, Swept
<1>10. ASSUME SweepFile PROVE GcInv'
  BY <1>4, <1>5, <1>6, <1>10, SweepFileInv
<1>11. ASSUME FileClosed PROVE GcInv'
  <2>1. closing = ptr /\ visit > 0 /\ closing \in alive /\ color[closing] = sweeper
    BY <1>4, <1>6, <1>11 DEF FileClosed, GcInv, WalkInv
  <2> QED
    BY <1>4, <1>5, <1>6, <1>11, <2>1, ReclaimInv DEF FileClosed
<1>12. GcInv'
  BY <1>7, <1>8, <1>9, <1>10, <1>11 DEF Rungc
<1>13. HeapType'
  BY <1>2, <1>5, <1>12 DEF HeapType, GcInv, GcType
<1>14. DropInv'
  BY <1>2 DEF DropInv
<1> QED
  BY <1>12, <1>13, <1>14 DEF HeapInv

LEMMA NextHeapInv ==
  ASSUME HeapInv, Shared = FALSE, [Next]_vars
  PROVE  HeapInv'
<1>1. CASE Instruction
  BY <1>1, InstructionInv
<1>2. CASE EndDrop
  BY <1>2, EndDropInv
<1>3. CASE Rungc
  BY <1>3, RungcInv
<1>4. CASE UNCHANGED vars
  <2>1. /\ UNCHANGED <<alive, color, ref, val, mutator, nprop>>
        /\ UNCHANGED <<ptr, prev, visit, closing, dst, root, sv, doomed>>
    BY <1>4 DEF vars, heapvars, gcvars, dropvars
  <2>2. inuse' = inuse /\ points' = points
    BY <2>1 DEF inuse, points
  <2>3. sweeper' = sweeper /\ Live' = Live /\ \A o : Holders(o)' = Holders(o)
    BY <2>1, <2>2 DEF sweeper, Live, Holders
  <2>4. GcType' /\ WalkInv' /\ BehindPtr'
    BY <2>1, <2>2, <2>3 DEF HeapInv, GcInv, GcType, WalkInv, BehindPtr
  <2>5. Kept' /\ Covered' /\ TriColor'
    BY <2>1, <2>2, <2>3 DEF HeapInv, GcInv, Kept, Covered, TriColor
  <2>6. HeapType' /\ DropInv'
    BY <2>1, <2>2, <2>3 DEF HeapInv, HeapType, DropInv
  <2> QED
    BY <2>4, <2>5, <2>6 DEF HeapInv, GcInv
<1> QED
  BY <1>1, <1>2, <1>3, <1>4 DEF Next

LEMMA Invariant == ASSUME Shared = FALSE PROVE Spec => []HeapInv
<1>1. HeapInv /\ [Next]_vars => HeapInv'
  BY NextHeapInv
<1> QED
  BY <1>1, InitHeapInv, PTL DEF Spec

\* The variables of the collector and of the heap keep their types: counts
\* stay between 0 and what a program makes them, a free block has no pointer,
\* and a file is closed for objects in use (interp/heap.c, interp/gc.c);
\* Shared = FALSE: nobody loads what another is destroying.
THEOREM TypeCorrect == ASSUME Shared = FALSE PROVE Spec => []TypeOK
<1>1. ASSUME HeapInv PROVE TypeOK
  <2> USE <1>1 DEF HeapInv
  <2>1. /\ alive \subseteq Blocks /\ doomed \subseteq alive
        /\ val \in [Places -> Blocks \cup {Nil}]
        /\ \A o \in Blocks \ alive : val[o] = Nil
    BY DEF HeapType
  <2>2. /\ color \in [Blocks -> 0 .. propagator] /\ ref \in [Blocks -> 0 .. MaxRef]
        /\ mutator \in 0 .. 2 /\ nprop \in 0 .. 1
        /\ ptr \in Blocks \cup {Leader, Nil} /\ prev \in Blocks \cup {Leader, Nil}
        /\ visit \in 0 .. Quanta
    BY DEF GcInv, GcType
  <2>3. closing \in alive \cup {Nil}
    BY PointsFacts DEF GcInv, WalkInv
  <2>4. dst \in Places \cup {Nil} /\ root \in Roots \cup {Nil}
    BY <2>1, PointsFacts DEF DropInv, Places
  <2>5. sv \in alive \cup {Nil}
    <3>1. CASE dst = Nil
      BY <3>1 DEF DropInv
    <3>2. CASE dst # Nil
      <4>1. dst \in Roots \cup Live /\ dst \in Places
        BY <2>4, <3>2 DEF DropInv
      <4>2. points[dst] = sv
        BY <4>1, PointsFacts
      <4>3. sv = Nil \/ sv \in Live
        BY <4>1, <4>2 DEF GcInv, Kept
      <4> QED
        BY <4>3, PointsFacts
    <3> QED
      BY <3>1, <3>2
  <2> QED
    BY <2>1, <2>2, <2>3, <2>4, <2>5 DEF TypeOK
<1> QED
  BY <1>1, Invariant, PTL

\* rungc never frees an object that a program can reach from its roots, or is
\* about to store, nor lets it become one that this epoch frees, whatever
\* instructions run between its calls, while it closes a file and while one
\* of them destroys a pointer to a file: movp and cons mark what they store
\* and rungc marks what a visited object points to (interp/gc.c, movp in
\* interp/xec.c, freeFD in emu/inferno.c); Shared = FALSE: nobody loads what
\* another is destroying.
THEOREM ReachableSafe == ASSUME Shared = FALSE PROVE Spec => []ReachableKept
<1>1. ASSUME HeapInv PROVE ReachableKept
  <2> USE <1>1 DEF HeapInv
  <2> DEFINE S == Live \cup doomed
  <2>1. /\ S \subseteq Blocks /\ S \subseteq alive /\ Roots \subseteq Places
        /\ Blocks \subseteq Places /\ Nil \notin Places /\ Blocks \cap Roots = {}
    BY PointsFacts, PlaceFacts DEF HeapType, Places
  <2>2. ASSUME NEW p \in Roots \cup Live, val[p] # Nil
        PROVE  val[p] \in S
    <3>1. p \in Places /\ p \notin doomed
      BY <2>1 DEF HeapType, Live, inuse
    <3>2. CASE p = dst
      BY <2>1, <3>1, <3>2 DEF DropInv
    <3>3. CASE p # dst
      <4>1. points[p] = val[p]
        BY <3>1, <3>3, PointsFacts
      <4> QED
        BY <2>2, <4>1 DEF GcInv, Kept
    <3> QED
      BY <3>2, <3>3
  <2>3. ASSUME NEW o \in doomed, val[o] # Nil
        PROVE  val[o] \in S
    <3>1. dst # Nil
      BY DEF DropInv
    <3> QED
      BY <2>3, <3>1 DEF DropInv
  <2>4. sv # Nil => sv \in S
    <3> SUFFICES ASSUME sv # Nil PROVE sv \in S
      OBVIOUS
    <3>1. dst \in Roots \cup Live
      BY DEF DropInv
    <3>2. points[dst] = sv
      BY <2>1, <3>1, PointsFacts
    <3> QED
      BY <3>1, <3>2 DEF GcInv, Kept
  <2>5. RootSet \cup ({sv} \ {Nil}) \subseteq S
    BY <2>2, <2>4 DEF RootSet
  <2>6. \A o \in S : val[o] # Nil => val[o] \in S
    BY <2>2, <2>3
  <2>7. \A o \in S : o \in alive /\ color[o] # sweeper
    <3>1. doomed # {} => dst # Nil
      BY DEF DropInv
    <3> QED
      BY <2>1, <3>1 DEF DropInv, Live
  <2> HIDE DEF S
  <2>8. Reachable \subseteq S
    BY <2>1, <2>5, <2>6 DEF Reachable
  <2> QED
    BY <2>7, <2>8 DEF ReachableKept
<1> QED
  BY <1>1, Invariant, PTL

\* The count of an object is never less than the places that hold it, or will
\* when the stores under way are done, those of the objects left to sweep
\* aside: destroy, to any depth and with a file on its way, frees only what
\* nobody else holds (destroy in interp/heap.c, movp, new and cons in
\* interp/xec.c); Shared = FALSE: nobody loads what another is destroying.
THEOREM CountsCover == ASSUME Shared = FALSE PROVE Spec => []RefCovers
<1>1. ASSUME HeapInv PROVE RefCovers
  <2> USE <1>1 DEF HeapInv
  <2> SUFFICES ASSUME NEW o \in alive
               PROVE  ref[o] >= Cardinality({p \in Roots \cup alive :
                        points[p] = o /\ (p \in alive => color[p] # sweeper)})
    BY DEF RefCovers
  <2>1. /\ alive \subseteq Blocks /\ Blocks \cap Roots = {} /\ o \in Blocks
        /\ Live \subseteq alive /\ o # Nil /\ Blocks \subseteq Places
    BY PointsFacts, PlaceFacts DEF HeapType, Places
  <2>2. {p \in Roots \cup alive :
           points[p] = o /\ (p \in alive => color[p] # sweeper)} = Holders(o)
    <3>1. \A p \in doomed : points[p] # o
      BY <2>1, PointsFacts DEF HeapType
    <3> QED
      BY <2>1, <3>1 DEF Holders, Live, inuse
  <2>3. CASE o \in Live
    BY <2>2, <2>3 DEF GcInv, Covered
  <2>4. CASE o \notin Live
    <3>1. Holders(o) = {}
      BY <2>1, <2>4 DEF GcInv, Kept, Holders
    <3>2. ref[o] \in Nat
      BY <2>1 DEF GcInv, GcType
    <3> QED
      BY <2>2, <3>1, <3>2, FS_EmptySet
  <2> QED
    BY <2>3, <2>4
<1> QED
  BY <1>1, Invariant, PTL
=============================================================================
