------------------------------- MODULE MCAlt -------------------------------
(* Model checking instances of Alt: three threads and two channels.         *)
EXTENDS Alt, TLC

CONSTANTS p1, p2, p3, c1, c2

\* An alt with the sends s and the receive entries r, those of x arrays.
A(s, r, x) == [send |-> s, recv |-> r, array |-> x]

\* No direction of a channel is in the alts of two threads, but for the
\* second alt of p2, which altrdy refuses: it sends to and receives from c1.
\* p1 may receive from c2 through its array or by itself.
MCOwnAlts ==
    p1 :> {A(<<c1>>, <<<<NoChan, c2>>, <<c2>>>>, {1})}
    @@ p2 :> {A(<<c2>>, <<<<c1>>>>, {}), A(<<c2, c1>>, <<<<c1>>>>, {})}
    @@ p3 :> {}

ASSUME MCAltAssumption == OwnAlts
=============================================================================
