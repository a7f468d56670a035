------------------------------ MODULE ChanSpec ------------------------------
(***************************************************************************)
(* What Limbo channels promise to the threads of a program, with no        *)
(* queues, no alt pointers and no scheduler.  A waiting thread offers a    *)
(* set of communications; two complementary offers on one channel are      *)
(* matched at once, both threads then go on, and a thread takes part in    *)
(* one communication per offer.                                            *)
(***************************************************************************)
CONSTANTS Progs, Chans

VARIABLES offer,    \* offer[p]: the communications p waits for; {} if none
          last      \* last[p]: the last communication p took part in

chanVars == <<offer, last>>

Dirs == {"send", "recv"}
Co(d) == IF d = "send" THEN "recv" ELSE "send"

Offers == SUBSET (Dirs \X Chans)

NoComm == [dir |-> "none"]
Comm(d, c, q) == [dir |-> d, chan |-> c, peer |-> q]

\* The offer O could be matched by a thread that already waits.
Matchable(O) == \E o \in O, q \in Progs : <<Co(o[1]), o[2]>> \in offer[q]

ChanInit ==
    /\ offer = [p \in Progs |-> {}]
    /\ last = [p \in Progs |-> NoComm]

\* p finds no partner and waits.
Wait(p, O) ==
    /\ offer[p] = {}
    /\ O # {}
    /\ ~Matchable(O)
    /\ offer' = [offer EXCEPT ![p] = O]
    /\ UNCHANGED last

\* p communicates on c with q, which waited for that.
Match(p, q, d, c) ==
    /\ offer[p] = {}
    /\ <<Co(d), c>> \in offer[q]
    /\ offer' = [offer EXCEPT ![q] = {}]
    /\ last' = [last EXCEPT ![p] = Comm(d, c, q), ![q] = Comm(Co(d), c, p)]

\* A waiting thread is killed.
Withdraw(q) ==
    /\ offer[q] # {}
    /\ offer' = [offer EXCEPT ![q] = {}]
    /\ UNCHANGED last

ChanNext ==
    \/ \E p \in Progs, O \in Offers : Wait(p, O)
    \/ \E p, q \in Progs, d \in Dirs, c \in Chans : Match(p, q, d, c)
    \/ \E q \in Progs : Withdraw(q)

ChannelSpec == ChanInit /\ [][ChanNext]_chanVars
=============================================================================
