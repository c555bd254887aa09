--------------------------- MODULE EanAllocation ---------------------------
(***************************************************************************)
(* What the EAN pool promises: an EAN is free, or held by one holder, or   *)
(* listed at OTTO for one holder, and a listed EAN is never given out      *)
(* again.  The promise is kept for the EANs of holders that do not fail    *)
(* and that nobody touches by hand; any other EAN may become void, and     *)
(* nothing is promised of it from then on.                                 *)
(***************************************************************************)
CONSTANTS Eans, Holders, Nobody

VARIABLES
    alloc,      \* the state of every EAN
    taken,      \* the EANs each holder has ever taken
    failed,     \* the holders that have failed
    byHand      \* the EANs somebody has touched by hand

vars == <<alloc, taken, failed, byHand>>

Free         == [state |-> "free", by |-> Nobody]
Held(h)      == [state |-> "held", by |-> h]
ListedFor(h) == [state |-> "listed", by |-> h]
Void         == [state |-> "void", by |-> Nobody]

Init ==
    /\ alloc = [e \in Eans |-> Free]
    /\ taken = [h \in Holders |-> {}]
    /\ failed = {}
    /\ byHand = {}

\* A holder takes an EAN that is free, or void.
Take(h, e) ==
    /\ \/ alloc[e] = Free /\ alloc' = [alloc EXCEPT ![e] = Held(h)]
       \/ alloc[e] = Void /\ UNCHANGED alloc
    /\ taken' = [taken EXCEPT ![h] = @ \cup {e}]
    /\ UNCHANGED <<failed, byHand>>

\* A holder gives back one EAN that it has not listed.
GiveBack(h, e) ==
    /\ alloc[e] = Held(h)
    /\ alloc' = [alloc EXCEPT ![e] = Free]
    /\ UNCHANGED <<taken, failed, byHand>>

\* A request to OTTO lists some of the EANs that the holder holds.
List(h, S) ==
    /\ \A e \in S : alloc[e] = Held(h)
    /\ alloc' = [e \in Eans |-> IF e \in S THEN ListedFor(h) ELSE alloc[e]]
    /\ UNCHANGED <<taken, failed, byHand>>

\* Holders fail or somebody acts by hand; EANs that failed holders have taken
\* and EANs touched by hand become void.
GiveUp(S) ==
    /\ failed \subseteq failed' /\ failed' \subseteq Holders
    /\ byHand \subseteq byHand' /\ byHand' \subseteq Eans
    /\ \A e \in S : e \in byHand' \/ \E h \in failed' : e \in taken[h]
    /\ alloc' = [e \in Eans |-> IF e \in S THEN Void ELSE alloc[e]]
    /\ UNCHANGED taken

Next == \/ \E h \in Holders, e \in Eans : Take(h, e) \/ GiveBack(h, e)
        \/ \E h \in Holders, S \in SUBSET Eans : List(h, S)
        \/ \E S \in SUBSET Eans : GiveUp(S)

Spec == Init /\ [][Next]_vars

=============================================================================
