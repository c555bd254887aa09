------------------------------- MODULE Places -------------------------------
(* What is left of a sequence when a loop passes over some of its elements: *)
(* those at a set of places, in their order.  Written without recursion, so *)
(* that it can be reasoned about.                                          *)
EXTENDS Naturals, FiniteSets

\* The i-th of a set of numbers.
Nth(places, i) == CHOOSE p \in places : Cardinality({q \in places : q <= p}) = i

Picked(s, places) == [i \in 1 .. Cardinality(places) |-> s[Nth(places, i)]]
=============================================================================
