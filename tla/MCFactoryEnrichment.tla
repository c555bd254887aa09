------------------------ MODULE MCFactoryEnrichment ------------------------
(* Model-checking instances of FactoryEnrichment. *)
EXTENDS FactoryEnrichment

\* The environments of the passing run.
Weathers == {{"chunk_error", "chunk_kill", "run_error"},
             {"polls", "chunk_error", "chunk_kill"},
             {"polls", "second_click"}}

\* One run, with nothing to disturb it.
Undisturbed == {{}}
=============================================================================
