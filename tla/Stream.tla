------------------------------- MODULE Stream -------------------------------
(***************************************************************************)
(* What a queue of emu/qio.c promises to its readers and writers: what     *)
(* goes in comes out once and in order, and nothing else comes out.        *)
(* Nothing goes in while the queue is shut.  Only the step that ends a     *)
(* close, hangup or flush throws anything away, and never what was first   *)
(* in line while something behind it stays.  The units are bytes, or whole *)
(* messages for a message queue, of which a reader may take only the       *)
(* beginning.                                                              *)
(***************************************************************************)
EXTENDS Naturals, Sequences

VARIABLES content,  \* what is in the queue and not yet taken, oldest first
          shut,     \* nothing more is accepted
          out,      \* what was last taken, until the reader goes on with it
          emptying  \* a close, hangup or flush is under way

streamVars == <<content, shut, out, emptying>>

StreamInit ==
    content = <<>> /\ shut = FALSE /\ out = <<>> /\ emptying = FALSE

\* A writer adds something at the end.
Put == /\ ~shut /\ UNCHANGED <<shut, out, emptying>>
       /\ Len(content') > Len(content)
       /\ SubSeq(content', 1, Len(content)) = content

\* u is the beginning of v, or all of it.
Begins(u, v) == Len(u) \in 1 .. Len(v) /\ u = SubSeq(v, 1, Len(u))

\* A reader gets the first units, and they leave the queue.
Get == /\ UNCHANGED <<shut, emptying>>
       /\ Len(out') \in 1 .. Len(content)
       /\ \A i \in 1 .. Len(out') : Begins(out'[i], content[i])
       /\ content' = SubSeq(content, Len(out') + 1, Len(content))

\* A reader goes away with what it got.
Leave == out' = <<>> /\ UNCHANGED <<content, shut, emptying>>

Begin == ~emptying /\ emptying' = TRUE /\ UNCHANGED <<content, shut, out>>

\* The last units may be thrown away, and the queue may be shut.
Discard == /\ emptying /\ emptying' = FALSE /\ UNCHANGED out
           /\ shut' \in BOOLEAN /\ (shut => shut')
           /\ \E k \in 0 .. Len(content) : content' = SubSeq(content, 1, k)

Reopen == shut /\ shut' = FALSE /\ UNCHANGED <<content, out, emptying>>

StreamSpec ==
    /\ StreamInit
    /\ [][Put \/ Get \/ Leave \/ Begin \/ Discard \/ Reopen]_streamVars
=============================================================================
