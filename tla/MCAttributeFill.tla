-------------------------- MODULE MCAttributeFill --------------------------
(* Model-checking instances of AttributeFill. *)
EXTENDS AttributeFill

\* The environments of the passing run.
Weathers == {{"otto_error"},
             {"otto_error", "store_error", "kill"},
             {"otto_error", "kill", "lock_expires"},
             {"otto_error", "kill", "declared_stale"}}

\* Nothing fails, but the creation page is open.
OnlyPolled == {{"declared_stale"}}
=============================================================================
