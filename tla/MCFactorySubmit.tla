-------------------------- MODULE MCFactorySubmit --------------------------
(* Model-checking instances of FactorySubmit: jobs of one task of the XL   *)
(* controller, with two variants each.                                     *)
EXTENDS FactorySubmit, TLC

CONSTANTS j1, j2, p1

OneTask == [j \in Jobs |-> p1]
Two     == [j \in Jobs |-> 2]
=============================================================================
