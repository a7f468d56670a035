-------------------------------- MODULE MCQio --------------------------------
(* Model checking instances of Qio: one reader, one writer, a device and  *)
(* a control; blocks of one and two bytes, a limit of two.                  *)
EXTENDS Qio
=============================================================================
