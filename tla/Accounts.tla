------------------------------- MODULE Accounts -------------------------------
(***************************************************************************)
(* Creating an account and logging in (app/core/user_auth.py,               *)
(* app/repository/user_repository.py).  The user and the role are committed  *)
(* one after the other, after a look at whether the address is taken.        *)
(***************************************************************************)
EXTENDS Scenes, FiniteSets

CONSTANTS
    Addresses,  \* addresses as they are typed -> lower case and stripped
    SignUps     \* requests: request -> [address, role]

\* Lower case and stripped, an address stays as it is.
ASSUME AddressesAssumption ==
    /\ \A a \in DOMAIN Addresses :
          Addresses[a] \in DOMAIN Addresses /\ Addresses[Addresses[a]] = Addresses[a]
    /\ \A q \in DOMAIN SignUps : SignUps[q].address \in DOMAIN Addresses

VARIABLES
    people,     \* users: a set of [email, by : request]
    roles,      \* user_roles: a set of [by, role]
    signUpAt,   \* per request: where it is
    session     \* per request: what its token answers, "none" before

accountVars == <<people, roles, signUpAt, session>>

\* A seeded fault: the address is stored as it is typed.
NormalAsTyped(address) == address

Normal(address) == Addresses[address]

EmailOf(q) == Normal(SignUps[q].address)
Taken(email) == \E user \in people : user.email = email

\* _create_user_account: select_user_by_email
LookForUser(q) ==
    /\ signUpAt[q] = "idle"
    /\ signUpAt' = [signUpAt EXCEPT ![q] =
            IF Taken(Addresses[SignUps[q].address]) THEN "refused" ELSE "insert"]
    /\ UNCHANGED <<scene, people, roles, session>>

\* create_user: the address is unique, and the commit raises if it is taken meanwhile.
CreateUser(q) ==
    /\ signUpAt[q] = "insert"
    /\ IF Taken(EmailOf(q))
       THEN signUpAt' = [signUpAt EXCEPT ![q] = "refused"] /\ UNCHANGED people
       ELSE /\ signUpAt' = [signUpAt EXCEPT ![q] = "role"]
            /\ people' = people \cup {[email |-> EmailOf(q), by |-> q]}
    /\ UNCHANGED <<scene, roles, session>>

AssignRole(q) ==
    /\ signUpAt[q] = "role"
    /\ roles' = roles \cup {[by |-> q, role |-> SignUps[q].role]}
    /\ signUpAt' = [signUpAt EXCEPT ![q] = "created"]
    /\ UNCHANGED <<scene, people, session>>

\* The process stops, or the second commit raises: the user stays, without a role.
CutOff(q) ==
    /\ May("cut_off") /\ signUpAt[q] = "role"
    /\ signUpAt' = [signUpAt EXCEPT ![q] = "cut_off"]
    /\ UNCHANGED <<scene, people, roles, session>>

\* get_current_user and require_role: the outer join finds a user without a role, whom
\* every route with a role refuses.
LogIn(q) ==
    /\ session[q] = "none" /\ Taken(Addresses[SignUps[q].address])
    /\ LET user == CHOOSE x \in people : x.email = Addresses[SignUps[q].address]
           mine == {r.role : r \in {x \in roles : x.by = user.by}}
       IN  session' = [session EXCEPT ![q] =
                IF mine = {} THEN "forbidden" ELSE CHOOSE r \in mine : TRUE]
    /\ UNCHANGED <<scene, people, roles, signUpAt>>

AccountsInit ==
    /\ people = {} /\ roles = {}
    /\ signUpAt = [q \in DOMAIN SignUps |-> "idle"] /\ session = [q \in DOMAIN SignUps |-> "none"]

AccountsNext ==
    /\ Plays("accounts")
    /\ \E q \in DOMAIN SignUps :
          LookForUser(q) \/ CreateUser(q) \/ AssignRole(q) \/ CutOff(q) \/ LogIn(q)

-----------------------------------------------------------------------------
\* However requests for the same person interleave, and however the address is typed,
\* there is one account, and it has the role of the request that was answered with
\* success; only a request that was cut off leaves one without a role.
OneAccountPerPerson ==
    /\ \A a, b \in people : Addresses[a.email] = Addresses[b.email] => a = b
    /\ \A q \in DOMAIN SignUps : signUpAt[q] = "created" =>
          /\ Taken(Addresses[SignUps[q].address])
          /\ {r.role : r \in {x \in roles : x.by = q}} = {SignUps[q].role}
    /\ \A user \in people :
          (\A r \in roles : r.by # user.by) => signUpAt[user.by] \in {"role", "cut_off"}
    /\ \A q \in DOMAIN SignUps : session[q] \notin {"none", "forbidden"} =>
          \E user \in people : /\ user.email = Addresses[SignUps[q].address]
                              /\ session[q] = SignUps[user.by].role

=============================================================================
