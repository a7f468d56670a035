------------------------------ MODULE MCRendez ------------------------------
(* Model checking instances of Rendez: one sleeper, two wakers, with and    *)
(* without a killer.                                                        *)
EXTENDS Rendez
=============================================================================
