------------------------------ MODULE MCRWLock ------------------------------
(* Model checking instances of RWLock, one per order of wunlock. *)
EXTENDS RWLock
=============================================================================
