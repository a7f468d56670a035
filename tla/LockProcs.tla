----- MODULE LockProcs -----
(***************************************************************************)
(* The processes that call the locks: the Proc of emu/dat.h, of which the  *)
(* locks use no more than that one can be told from another and from nil.  *)
(***************************************************************************)
CONSTANTS Procs,      \* the processes that use the lock
          NoProc      \* "no process", the nil Proc*

ASSUME ProcsAssumption == NoProc \notin Procs

Idle == "idle"        \* in no call of the lock
=====
