--------------------------------- MODULE MCMnt ---------------------------------
(* A model checking instance of Mnt: three calls, and two interrupts, or an *)
(* interrupt and a hang-up.                                                 *)
EXTENDS Mnt
=============================================================================
