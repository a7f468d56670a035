--------------------------------- MODULE MCGc ---------------------------------
(* A model checking instance of Gc: three blocks and two roots.             *)
EXTENDS Gc
=============================================================================
