----------------------------------- MODULE Gc -----------------------------------
(***************************************************************************)
(* The heap of the Dis machine: reference counts (interp/heap.c and the    *)
(* pointer instructions of interp/xec.c) and the incremental collector of  *)
(* interp/gc.c that takes the cycles counts cannot free.                   *)
(*                                                                         *)
(* rungc visits the blocks of the arena in the order of their addresses,   *)
(* at most Quanta in a call.  In an epoch one of three colours is the      *)
(* mutator, for objects that are new or have been marked; the colour       *)
(* before it is the marker; what is left of the one before that, the       *)
(* sweeper, is freed.  An object to be marked is a propagator until it is  *)
(* visited.  An epoch ends with a pass in which nothing became one.        *)
(*                                                                         *)
(* A block holds an object with one pointer; a root is a pointer of a      *)
(* frame or a module's data.  Programs run between two calls of rungc, and *)
(* in the middle of one that closes a file: freeFD lets the virtual        *)
(* machine go.  So it does in the middle of an instruction that destroys   *)
(* the last pointer to a file: others run while the pointer, and the       *)
(* objects on the way to the file, still stand with counts of 0.           *)
(*                                                                         *)
(* Blocks have one size, and free neighbours are joined as poolfree does,  *)
(* so that rungc may come back to a block that is no more.                 *)
(***************************************************************************)
EXTENDS Naturals, FiniteSets

CONSTANTS NBlocks,   \* bound: blocks of the arena
          NRoots,    \* bound: roots
          Quanta,    \* blocks a call of rungc visits (50 in the code)
          MaxDepth,  \* how deep destroy goes (256 in the code)
          MaxRef,    \* bound: references counted to one object
          Shared     \* programs load pointers that another is destroying

ASSUME GcAssumption ==
    /\ {NBlocks, NRoots} \subseteq Nat
    /\ {Quanta, MaxDepth, MaxRef} \subseteq Nat \ {0}
    /\ Shared \in BOOLEAN

Blocks == 1 .. NBlocks
Roots  == NBlocks + 1 .. NBlocks + NRoots
Places == Blocks \cup Roots      \* where a pointer may be
Leader == 0                      \* the first block of the arena, no object
Nil    == NBlocks + NRoots + 1   \* H, or no block
propagator == 3

VARIABLES alive,     \* the blocks with magic MAGIC_A
          color, ref,
          val,       \* what each place points to
          mutator, nprop,
          ptr,       \* the block to visit next; Nil if base is nil
          prev, visit,
          closing,   \* the object whose file rungc is closing
          dst,       \* the place whose pointer an instruction is destroying,
                     \* while a file is being closed for it; or Nil
          root,      \* the root by which it got there
          sv,        \* what it will store there
          doomed     \* the objects that have lost their last reference

heapvars == <<alive, color, ref, val>>
gcvars   == <<ptr, prev, visit, closing>>
dropvars == <<dst, root, sv, doomed>>
vars     == <<heapvars, mutator, nprop, gcvars, dropvars>>

marker  == (mutator + 2) % 3
sweeper == (mutator + 1) % 3

Init ==
    /\ alive = {} /\ color = [o \in Blocks |-> 0] /\ ref = [o \in Blocks |-> 0]
    /\ val = [p \in Places |-> Nil]
    /\ mutator = 0 /\ nprop = 0
    /\ ptr = Nil /\ prev = Nil /\ visit = 0 /\ closing = Nil
    /\ dst = Nil /\ root = Nil /\ sv = Nil /\ doomed = {}

\* A block that begins at b, when those of A are in use.  Free neighbours have
\* been joined, and the magic of the second is gone.
okbhdr(b, A) == b # Nil /\ ({b, b - 1} \cap (A \cup {Leader}) # {})

----------------------------------------------------------------------------
(* The heap.                                                               *)

\* Setmark of the objects of S: the colours after it, m being the mutator, and
\* nprop, which is set for a propagator too.
Setmark(S, m, c) ==
    [o \in Blocks |-> IF o \in S /\ c[o] # m THEN propagator ELSE c[o]]
Marked(S, m, c, np) == IF \E o \in S : c[o] # m THEN 1 ELSE np

\* The references to o that go when v is dropped and the objects of D freed.
Dropped(o, v, D) ==
    Cardinality({p \in D : val[p] = o}) + (IF o = v THEN 1 ELSE 0)

\* The calls of destroy under way, and how deep another goes.
gchalt == Cardinality(doomed) + (IF closing = Nil THEN 0 ELSE 1)
Levels == IF gchalt < MaxDepth THEN MaxDepth - gchalt ELSE 0

\* What destroy(v) frees, with counts r: as deep as it goes, the objects that
\* lose their last reference.
Destroyed(v, r) ==
    LET dead[n \in 0 .. Levels] ==
          IF n = 0 THEN {}
          ELSE LET above == dead[n - 1] IN
               {o \in alive : Dropped(o, v, above) > 0
                              /\ Dropped(o, v, above) = r[o]}
    IN dead[Levels]

\* The place d held a pointer; it is destroyed and replaced by v.  A, r and c
\* are the blocks in use, counts and colours to start from.
Replace(d, v, A, r, c, w) ==
    LET D == Destroyed(val[d], r) IN
    /\ alive' = A \ D
    /\ ref' = [o \in Blocks |->
                IF o \in D THEN 0 ELSE r[o] - Dropped(o, val[d], D)]
    /\ color' = [o \in Blocks |-> IF o \in D THEN 0 ELSE c[o]]
    /\ val' = [p \in Places |->
                CASE p \in D -> Nil [] p = d -> v [] OTHER -> w[p]]

\* The same where destroy gets to a pointer's last object, a file: the counts
\* have gone down, and nothing else has been done when freeFD lets the machine
\* go.  Bound: one file at a time, be it rungc's or a program's.
BeginDrop(d, v, A, r, c) ==
    /\ visit = 0 /\ dst = Nil
    /\ LET D == Destroyed(val[d], r) IN
         /\ D # {} /\ \A o \in D : val[o] \in D \cup {Nil}
         /\ ref' = [o \in Blocks |->
                     IF o \in D THEN 0 ELSE r[o] - Dropped(o, val[d], D)]
         /\ doomed' = D
    /\ alive' = A /\ color' = c /\ UNCHANGED val
    /\ dst' = d /\ sv' = v
    /\ root' \in {s \in Roots : s = d \/ val[s] = d}

\* The file is closed, and the instruction goes on: poolfree, and the store.
EndDrop ==
    /\ dst # Nil
    /\ alive' = alive \ doomed
    /\ color' = [o \in Blocks |-> IF o \in doomed THEN 0 ELSE color[o]]
    /\ ref' = [o \in Blocks |-> IF o \in doomed THEN 0 ELSE ref[o]]
    /\ val' = [p \in Places |->
                CASE p \in doomed -> Nil [] p = dst -> sv [] OTHER -> val[p]]
    /\ dst' = Nil /\ root' = Nil /\ sv' = Nil /\ doomed' = {}
    /\ UNCHANGED <<mutator, nprop, gcvars>>

Store(d, v, A, r, c) ==
    \/ Replace(d, v, A, r, c, val) /\ UNCHANGED dropvars
    \/ BeginDrop(d, v, A, r, c)

\* Where an instruction finds its operands: a root, or the pointer in an
\* object that a root points to.  Nobody else stores where an instruction is
\* in the middle of a store, in what it destroys, or in the root it uses; and
\* nobody loads from there, unless programs share these places.
Operands == Roots \cup ({val[p] : p \in Roots} \ {Nil})
Free     == Operands \ ({dst, root} \cup doomed)
Loaded   == {val[p] : p \in IF Shared THEN Operands ELSE Free}

\* Faulty: movp does not mark what it stores.
MovpUnmarked(d, v) ==
    /\ v # Nil => ref[v] < MaxRef
    /\ Store(d, v, alive,
             [o \in Blocks |-> IF o = v THEN ref[o] + 1 ELSE ref[o]], color)
    /\ UNCHANGED nprop

\* movp, with an operand or with H.
Movp(d, v) ==
    /\ v # Nil => ref[v] < MaxRef
    /\ LET S == {v} \ {Nil}
       IN /\ Store(d, v, alive,
                   [o \in Blocks |-> IF o \in S THEN ref[o] + 1 ELSE ref[o]],
                   Setmark(S, mutator, color))
          /\ nprop' = Marked(S, mutator, color, nprop)

\* heap: a block at the beginning of free space.
Heap(o) == o \notin alive /\ okbhdr(o, alive)

New(d, o) ==
    /\ Heap(o)
    /\ Store(d, o, alive \cup {o}, [ref EXCEPT ![o] = 1],
             [color EXCEPT ![o] = mutator])
    /\ UNCHANGED nprop

\* Faulty: cons destroys what d held, as new does.
ConsDestroys(d, o) ==
    /\ Heap(o)
    /\ Replace(d, o, alive \cup {o}, [ref EXCEPT ![o] = 1],
               [color EXCEPT ![o] = mutator], [val EXCEPT ![o] = val[d]])
    /\ UNCHANGED <<nprop, dropvars>>

\* cons: the list moves from d to the tail of the new element.
Cons(d, o) ==
    /\ Heap(o)
    /\ alive' = alive \cup {o}
    /\ ref' = [ref EXCEPT ![o] = 1]
    /\ LET S == {val[d]} \ {Nil} IN
         /\ color' = [Setmark(S, mutator, color) EXCEPT ![o] = mutator]
         /\ nprop' = Marked(S, mutator, color, nprop)
    /\ val' = [val EXCEPT ![o] = val[d], ![d] = o]
    /\ UNCHANGED dropvars

\* An instruction runs while rungc does not, or waits for a file to close.
Instruction ==
    /\ visit = 0 \/ closing # Nil
    /\ \E d \in Free :
         \/ \E v \in Loaded \cup {Nil} : Movp(d, v)
         \/ \E o \in Blocks : New(d, o) \/ Cons(d, o)
    /\ UNCHANGED <<mutator, gcvars>>

----------------------------------------------------------------------------
(* rungc.                                                                  *)

\* rungc returns at once if gchalt is set.
Begin ==
    /\ visit = 0 /\ gchalt = 0
    /\ visit' = Quanta
    /\ \/ ptr = Nil /\ ptr' = Leader
       \/ okbhdr(ptr, alive) /\ UNCHANGED ptr
    /\ UNCHANGED <<heapvars, mutator, nprop, prev, closing>>

\* The block to visit next has been freed and joined to the one before it.
ChainBroken ==
    /\ visit = 0 /\ gchalt = 0
    /\ ptr # Nil /\ ~okbhdr(ptr, alive)
    /\ ptr' = Nil
    /\ UNCHANGED <<heapvars, mutator, nprop, prev, visit, closing>>

\* The next block, Nil at the limit of the arena.
After(b) ==
    IF \E n \in Blocks : n > b /\ okbhdr(n, alive)
      THEN CHOOSE n \in Blocks :
             /\ n > b /\ okbhdr(n, alive)
             /\ \A k \in b + 1 .. n - 1 : ~okbhdr(k, alive)
      ELSE Nil

RootSet == {val[p] : p \in Roots} \ {Nil}

\* Faulty: nprop is not reset, and no epoch ends once it is set.
EndPassKeeps(c, np) ==
    IF np = 0
      THEN LET m == (mutator + 1) % 3 IN
           /\ mutator' = m
           /\ color' = Setmark(RootSet, m, c)
           /\ nprop' = Marked(RootSet, m, c, 0)
      ELSE color' = c /\ nprop' = np /\ UNCHANGED mutator

\* The end of a pass, with colours c: an epoch ends if nothing became a
\* propagator; rootset marks for the next one.
EndPass(c, np) ==
    IF np = 0
      THEN LET m == (mutator + 1) % 3 IN
           /\ mutator' = m
           /\ color' = Setmark(RootSet, m, c)
           /\ nprop' = Marked(RootSet, m, c, 0)
      ELSE color' = c /\ nprop' = 0 /\ UNCHANGED mutator

Swept(b) == b \in alive /\ color[b] = sweeper

\* A propagator becomes a mutator and marks what it points to; any other
\* block that is not to be swept is passed over.
Visit ==
    /\ visit > 0 /\ closing = Nil /\ ~Swept(ptr)
    /\ LET grey == ptr \in alive /\ color[ptr] = propagator
           c1 == IF grey THEN [color EXCEPT ![ptr] = mutator] ELSE color
           S == IF grey THEN {val[ptr]} \ {Nil} ELSE {}
           c2 == Setmark(S, mutator, c1)
           np == Marked(S, mutator, c1, nprop)
       IN /\ ptr' = After(ptr)
          /\ IF ptr' = Nil
               THEN EndPass(c2, np) /\ visit' = 0
               ELSE /\ color' = c2 /\ nprop' = np
                    /\ visit' = visit - 1
                    /\ UNCHANGED mutator
    /\ prev' = IF visit' = 0 THEN Nil ELSE ptr
    /\ UNCHANGED <<alive, ref, val, closing>>

\* poolfree, and back to the block before; at the beginning of a call there is
\* none, and the pass starts again.
Reclaim(o) ==
    /\ alive' = alive \ {o}
    /\ color' = [color EXCEPT ![o] = 0]
    /\ ref' = [ref EXCEPT ![o] = 0]
    /\ val' = [val EXCEPT ![o] = Nil]
    /\ closing' = Nil
    /\ IF okbhdr(prev, alive')
         THEN ptr' = prev /\ visit' = visit - 1
         ELSE ptr' = Nil /\ visit' = 0
    /\ prev' = IF visit' = 0 THEN Nil ELSE prev
    /\ UNCHANGED <<mutator, nprop>>

Sweep == visit > 0 /\ closing = Nil /\ Swept(ptr) /\ Reclaim(ptr)

\* An object with a file: its pointers are cleared, and it is closed.
SweepFile ==
    /\ visit > 0 /\ closing = Nil /\ Swept(ptr)
    /\ closing' = ptr
    /\ val' = [val EXCEPT ![ptr] = Nil]
    /\ UNCHANGED <<alive, color, ref, mutator, nprop, ptr, prev, visit>>

FileClosed == closing # Nil /\ Reclaim(closing)

Rungc ==
    /\ Begin \/ ChainBroken \/ Visit \/ Sweep \/ SweepFile \/ FileClosed
    /\ UNCHANGED dropvars

Next == Instruction \/ EndDrop \/ Rungc

Spec == Init /\ [][Next]_vars

\* vmachine calls rungc in every round of its loop; and a close ends.
FairSpec == Spec /\ WF_vars(Rungc) /\ WF_vars(EndDrop)

----------------------------------------------------------------------------
(* Properties.                                                             *)

\* The variables have their types; what is free has no pointer.
TypeOK ==
    /\ alive \subseteq Blocks
    /\ color \in [Blocks -> 0 .. propagator]
    /\ ref \in [Blocks -> 0 .. MaxRef]
    /\ val \in [Places -> Blocks \cup {Nil}]
    /\ \A o \in Blocks \ alive : val[o] = Nil
    /\ mutator \in 0 .. 2 /\ nprop \in 0 .. 1
    /\ ptr \in Blocks \cup {Leader, Nil} /\ prev \in Blocks \cup {Leader, Nil}
    /\ visit \in 0 .. Quanta /\ closing \in alive \cup {Nil}
    /\ dst \in Places \cup {Nil} /\ root \in Roots \cup {Nil}
    /\ sv \in alive \cup {Nil} /\ doomed \subseteq alive

\* What programs can get at from their roots, and from what one of them is
\* about to store.
Reachable ==
    LET closed == {S \in SUBSET Blocks :
                     /\ RootSet \cup ({sv} \ {Nil}) \subseteq S
                     /\ \A o \in S : val[o] # Nil => val[o] \in S}
    IN {o \in Blocks : \A S \in closed : o \in S}

\* No object a program can reach is freed, nor will be in this epoch: the
\* stores of programs between two calls of rungc, and in the middle of one and
\* of each other's, keep it from the sweep.
ReachableKept ==
    \A o \in Reachable : o \in alive /\ color[o] # sweeper

\* What each place points to once the store under way is done.
points == [p \in Places |-> CASE p \in doomed -> Nil
                              [] p = dst -> sv
                              [] OTHER -> val[p]]

\* The count of an object covers every root and every object not to be swept
\* that points to it, except the pointers that are being destroyed, and with
\* the one that will be stored: destroy never frees what somebody else holds.
\* It may be too high, when the collector has taken a holder.
RefCovers ==
    \A o \in alive :
        ref[o] >= Cardinality({p \in Roots \cup alive :
                    points[p] = o /\ (p \in alive => color[p] # sweeper)})

\* Garbage, cycles too, is freed some time, while programs run on, if rungc is
\* not called only when files are being closed; unless they free, again and
\* again, the very block that rungc would visit next.
GarbageFreed ==
    []<>(visit > 0) /\ <>[][~ChainBroken]_vars =>
        \A o \in Blocks : o \in alive \ Reachable ~> o \notin alive
=============================================================================
