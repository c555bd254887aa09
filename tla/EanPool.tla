------------------------------ MODULE EanPool ------------------------------
(***************************************************************************)
(* The pool of free EANs: app/services/ean_pool_service.py and the         *)
(* ean-pool routes of app/api/routes/products.py.                          *)
(*                                                                         *)
(* A row of the table is a record of its status and of the owner its       *)
(* reservation names.  Every service call is a database transaction of its *)
(* own: reserve_next locks the row it selects until it commits, so it is   *)
(* one step; mark_used and release select the row without a lock, decide,  *)
(* and write at commit, so each is two steps with any other client's       *)
(* commits between them.                                                   *)
(*                                                                         *)
(* An EAN is named by the primary key of its row: a smaller number is an   *)
(* EAN imported earlier.  reserve_next serves them in that order.          *)
(***************************************************************************)
EXTENDS Naturals, FiniteSets

CONSTANTS
    Eans,       \* the EANs that are in the table or may be imported
    Clients,    \* users of the ean-pool routes, each with its own session
    Nobody      \* the NULL of reserved_for

ASSUME EansAssumption == Eans \subseteq Nat /\ IsFiniteSet(Eans)

VARIABLES
    pool,       \* the ean_pool table: a row for every EAN
    call        \* the mark_used or release that a client has not committed

poolVars == <<pool, call>>

-----------------------------------------------------------------------------
(* Rows. "absent" stands for an EAN that has no row yet.                   *)

EanPoolStatuses == {"absent", "available", "reserved", "used", "disabled"}

NoRow        == [status |-> "absent", reservedFor |-> Nobody]
AvailableRow == [status |-> "available", reservedFor |-> Nobody]

Available(p) == {e \in Eans : p[e].status = "available"}

\* Seeded fault: the WHERE clause forgets the status.
IsNextUnfiltered(p, e) == /\ p[e].status # "absent"
                          /\ \A f \in Eans : p[f].status # "absent" => e <= f

\* reserve_next: the available row with the smallest id is reserved.  Its row
\* lock is held to the commit; a call that skips the locked row is that of a
\* call which follows it.
IsNext(p, e) == /\ e \in Available(p)
                /\ \A f \in Available(p) : e <= f

Reserved(p, e, owner) ==
    [p EXCEPT ![e] = [status |-> "reserved", reservedFor |-> owner]]

\* mark_used: no condition on the status.  The ORM writes the columns that
\* differ from the row it loaded, so a row it saw used keeps its status.
MarkedUsed(p, e, seen) ==
    IF seen = "used" THEN p ELSE [p EXCEPT ![e].status = "used"]

\* Seeded fault: release takes any row.
MayReleaseAny(seen) == TRUE

\* release: "Only reserved EAN can be released." is decided on the status the
\* session loaded; the write that follows is unconditional.
MayRelease(seen) == seen = "reserved"
Released(p, e)   == [p EXCEPT ![e] = AvailableRow]

-----------------------------------------------------------------------------
(* The routes.                                                             *)

Idle == [op |-> "idle"]
Pending(op, e, seen) == [op |-> op, ean |-> e, seen |-> seen]

\* POST /ean-pool/import: a batch gets the next ids; EANs that already have a
\* row are skipped by ON CONFLICT DO NOTHING.
Import(c) ==
    /\ call[c] = Idle
    /\ \E last \in Eans :
         /\ pool[last].status = "absent"
         /\ pool' = [e \in Eans |->
                       IF pool[e].status = "absent" /\ e <= last
                       THEN AvailableRow ELSE pool[e]]
    /\ UNCHANGED call

\* POST /ean-pool/reserve
Reserve(c) ==
    /\ call[c] = Idle
    /\ \E e \in Eans : IsNext(pool, e) /\ pool' = Reserved(pool, e, c)
    /\ UNCHANGED call

\* POST /ean-pool/{ean}/used: load the row, then commit.
LoadForUse(c) ==
    /\ call[c] = Idle
    /\ \E e \in Eans :
         /\ pool[e].status # "absent"
         /\ call' = [call EXCEPT ![c] = Pending("use", e, pool[e].status)]
    /\ UNCHANGED pool

CommitUse(c) ==
    /\ call[c].op = "use"
    /\ pool' = MarkedUsed(pool, call[c].ean, call[c].seen)
    /\ call' = [call EXCEPT ![c] = Idle]

\* POST /ean-pool/{ean}/release: load the row, refuse unless reserved, commit.
LoadForRelease(c) ==
    /\ call[c] = Idle
    /\ \E e \in Eans :
         /\ MayRelease(pool[e].status)
         /\ call' = [call EXCEPT ![c] = Pending("release", e, pool[e].status)]
    /\ UNCHANGED pool

CommitRelease(c) ==
    /\ call[c].op = "release"
    /\ pool' = Released(pool, call[c].ean)
    /\ call' = [call EXCEPT ![c] = Idle]

\* The connection or the server is lost before the commit.
Abort(c) ==
    /\ call[c] # Idle
    /\ call' = [call EXCEPT ![c] = Idle]
    /\ UNCHANGED pool

PoolInit ==
    /\ pool = [e \in Eans |-> NoRow]
    /\ call = [c \in Clients |-> Idle]

ClientStep(c) ==
    \/ Import(c)     \/ Reserve(c)
    \/ LoadForUse(c) \/ CommitUse(c)
    \/ LoadForRelease(c) \/ CommitRelease(c)
    \/ Abort(c)

PoolNext == \E c \in Clients : ClientStep(c)

PoolSpec == PoolInit /\ [][PoolNext]_poolVars

-----------------------------------------------------------------------------
Row == [status : EanPoolStatuses, reservedFor : Clients \cup {Nobody}]

Call == {Idle} \cup [op : {"use", "release"}, ean : Eans, seen : EanPoolStatuses]

\* The table and the calls in flight are well formed.
PoolTypeOK ==
    /\ pool \in [Eans -> Row]
    /\ call \in [Clients -> Call]

\* An EAN that was given to a product never returns to the free pool: release
\* answers "Only reserved EAN can be released." (ean_pool_service.py, release)
\* for an EAN that mark_used has taken.
UsedIsFinal ==
    [][\A e \in Eans : pool[e].status = "used" => pool'[e].status = "used"]_poolVars

=============================================================================
