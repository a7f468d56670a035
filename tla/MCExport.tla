------------------------------- MODULE MCExport -------------------------------
(* A model checking instance of Export: three requests, one flush.        *)
EXTENDS Export
=============================================================================
