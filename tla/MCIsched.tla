------------------------------ MODULE MCIsched ------------------------------
(* Model checking instances of Isched: two or three vmachines, a kernel     *)
(* process or none, two or three threads.                                   *)
EXTENDS Isched
=============================================================================
