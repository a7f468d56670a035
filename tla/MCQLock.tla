------------------------------ MODULE MCQLock ------------------------------
(* Model checking instances of QLock: three and four processes on one lock. *)
EXTENDS QLock
=============================================================================
