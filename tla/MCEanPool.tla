----------------------------- MODULE MCEanPool -----------------------------
(* Model-checking instance of EanPool. *)
EXTENDS EanPool
=============================================================================
