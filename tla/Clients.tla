------------------------------- MODULE Clients -------------------------------
(***************************************************************************)
(* Two clients that all requests and jobs of a process share: the OTTO      *)
(* client with its cached tokens (app/core/otto_auth.py, app/clients/        *)
(* otto_client.py), and the DeepL client with its rate limit and retries     *)
(* (app/services/translation_service.py).                                   *)
(*                                                                         *)
(* Time is relative: what is cached or in flight has so many units left, a  *)
(* Tick takes one away.  A call takes at most CallTime units.               *)
(***************************************************************************)
EXTENDS Scenes, Integers, FiniteSets

CONSTANTS
    Callers,        \* coroutines that call OTTO: caller -> controller ("jv" or "xl")
    TokenLife,      \* expires_in, as OTTO answers it
    CallTime,       \* bound: how long a call may take (the client's timeout)
    SafetyMargin,   \* the 60 seconds a token is given up early
    Translators,    \* coroutines that call DeepL
    Interval,       \* deepl_min_interval_seconds
    MaxRetries      \* deepl_max_retries

ASSUME CallTimeAssumption ==
    /\ TokenLife \in Nat /\ CallTime \in Nat /\ SafetyMargin \in Nat /\ Interval \in Nat
    /\ MaxRetries \in Nat
    /\ CallTime * 2 <= SafetyMargin /\ CallTime * 2 < TokenLife
ASSUME CallersAssumption == \A c \in DOMAIN Callers : Callers[c] \in {"jv", "xl"}

VARIABLES
    tokens,     \* by key: [believed, left, account], units the client and OTTO give it
    callAt,     \* per caller: [at, waited, left, account]
    slotHolder, \* coroutine in _rate_limit_lock, or "nobody"
    slotIn,     \* units until _next_request_at
    sinceSlot,  \* units since the last slot was given, at most Interval
    tooClose,   \* history: a slot was given too early
    deeplAt     \* per translator: [at, attempt, delay]

clientVars == <<tokens, callAt, slotHolder, slotIn, sinceSlot, tooClose, deeplAt>>
tokenVars == <<tokens, callAt>>
deeplVars == <<slotHolder, slotIn, sinceSlot, tooClose, deeplAt>>

Less(n) == IF n = 0 THEN 0 ELSE n - 1
AtMost(n, most) == IF n < most THEN n ELSE most
AtLeast(n, least) == IF n > least THEN n ELSE least

-----------------------------------------------------------------------------
(* OttoAuth.get_token and OttoClient._send.                                *)

CredentialsOf(controller) == IF controller = "xl" THEN "XL" ELSE "JV"

Key(controller) == controller

NoToken == [believed |-> 0, left |-> 0, account |-> "none"]
NotCalling == [at |-> "idle", waited |-> 0, left |-> 0, account |-> "none"]

\* _header: the cached token is taken if the client believes in it.
GetToken(c) ==
    /\ callAt[c].at = "idle"
    /\ LET cached == tokens[Key(Callers[c])]
       IN  callAt' = [callAt EXCEPT ![c] =
             IF cached.believed > 0
             THEN [at |-> "send", waited |-> 0, left |-> cached.left, account |-> cached.account]
             ELSE [NotCalling EXCEPT !.at = "ask"]]
    /\ UNCHANGED <<scene, tokens, deeplVars>>

\* OTTO issues a token; the answer is under way.
IssueToken(c) ==
    /\ callAt[c].at = "ask"
    /\ callAt' = [callAt EXCEPT ![c].at = "issued", ![c].left = TokenLife,
                                ![c].account = CredentialsOf(Callers[c])]
    /\ UNCHANGED <<scene, tokens, deeplVars>>

\* A seeded fault: the token is used to its last second.
BelievedToTheEnd == TokenLife

Believed == AtLeast(TokenLife - SafetyMargin, 0)

\* The answers of two requests may come in either order: the last one is cached.
TokenArrives(c) ==
    /\ callAt[c].at = "issued"
    /\ tokens' = [tokens EXCEPT ![Key(Callers[c])] =
            [believed |-> Believed, left |-> callAt[c].left, account |-> callAt[c].account]]
    /\ callAt' = [callAt EXCEPT ![c].at = "send", ![c].waited = 0]
    /\ UNCHANGED <<scene, deeplVars>>

TokenRefused(c) ==
    /\ callAt[c].at = "ask"
    /\ callAt' = [callAt EXCEPT ![c] = NotCalling]
    /\ UNCHANGED <<scene, tokens, deeplVars>>

\* OTTO receives the request with the token.
RequestArrives(c) ==
    /\ callAt[c].at = "send"
    /\ callAt' = [callAt EXCEPT ![c] = NotCalling]
    /\ UNCHANGED <<scene, tokens, deeplVars>>

TokenTick ==
    /\ \A c \in DOMAIN Callers : callAt[c].waited < CallTime
    /\ tokens' = [k \in DOMAIN tokens |->
            [tokens[k] EXCEPT !.believed = Less(@), !.left = Less(@)]]
    /\ callAt' = [c \in DOMAIN Callers |->
            IF callAt[c].at = "idle" THEN callAt[c]
            ELSE [callAt[c] EXCEPT !.waited = @ + 1, !.left = Less(@)]]
    /\ UNCHANGED <<scene, deeplVars>>

-----------------------------------------------------------------------------
(* DeepLTranslationService._translate_batch                                *)

WantSlot(t) ==
    /\ deeplAt[t].at = "wants" /\ deeplAt[t].delay = 0 /\ slotHolder = "nobody"
    /\ slotHolder' = t
    /\ UNCHANGED <<scene, tokenVars, slotIn, sinceSlot, tooClose, deeplAt>>

\* A seeded fault: the wait is not done.
SlotIsFreeAlways == TRUE

\* asyncio.sleep until _next_request_at, inside the lock.
SlotIsFree == slotIn = 0

TakeSlot(t) ==
    /\ slotHolder = t /\ SlotIsFree
    /\ slotHolder' = "nobody" /\ slotIn' = Interval
    /\ tooClose' = (tooClose \/ sinceSlot < Interval) /\ sinceSlot' = 0
    /\ deeplAt' = [deeplAt EXCEPT ![t].at = "posting"]
    /\ UNCHANGED <<scene, tokenVars>>

\* A seeded fault: the attempts are not counted.
MayRetryAlways(attempt) == TRUE

\* _should_retry, for a status that allows it and for a broken connection.
MayRetry(attempt) == attempt < MaxRetries

\* _retry_delay: doubled with each attempt, or as the answer says, at least the interval.
DeepLAnswers(t) ==
    /\ deeplAt[t].at = "posting"
    /\ \/ deeplAt' = [deeplAt EXCEPT ![t].at = "translated"]
       \/ /\ ~MayRetry(deeplAt[t].attempt)
          /\ deeplAt' = [deeplAt EXCEPT ![t].at = "failed"]
       \/ /\ MayRetry(deeplAt[t].attempt)
          /\ \E retryAfter \in {0, 2 ^ deeplAt[t].attempt} :
                deeplAt' = [deeplAt EXCEPT ![t] =
                    [at |-> "wants", attempt |-> AtMost(@.attempt + 1, MaxRetries),
                     delay |-> AtLeast(retryAfter, Interval)]]
       \/ deeplAt' = [deeplAt EXCEPT ![t].at = "failed"]
    /\ UNCHANGED <<scene, tokenVars, slotHolder, slotIn, sinceSlot, tooClose>>

DeepLTick ==
    /\ slotIn' = Less(slotIn)
    /\ sinceSlot' = AtMost(sinceSlot + 1, Interval)
    /\ deeplAt' = [t \in Translators |-> [deeplAt[t] EXCEPT !.delay = Less(@)]]
    /\ UNCHANGED <<scene, tokenVars, slotHolder, tooClose>>

-----------------------------------------------------------------------------
ClientsInit ==
    /\ tokens = [k \in {"jv", "xl"} |-> NoToken]
    /\ callAt = [c \in DOMAIN Callers |-> NotCalling]
    /\ slotHolder = "nobody" /\ slotIn = 0 /\ sinceSlot = Interval /\ tooClose = FALSE
    /\ deeplAt = [t \in Translators |-> [at |-> "wants", attempt |-> 0, delay |-> 0]]

CallStep(c) == GetToken(c) \/ IssueToken(c) \/ TokenArrives(c) \/ TokenRefused(c) \/ RequestArrives(c)
TranslateStep(t) == WantSlot(t) \/ TakeSlot(t) \/ DeepLAnswers(t)

ClientsNext ==
    \/ Plays("token") /\ (TokenTick \/ \E c \in DOMAIN Callers : CallStep(c))
    \/ Plays("deepl") /\ (DeepLTick \/ \E t \in Translators : TranslateStep(t))

\* Time passes, and calls are answered.
ClientsFairness ==
    /\ WF_clientVars(Plays("deepl") /\ DeepLTick)
    /\ \A t \in Translators :
          SF_clientVars(Plays("deepl") /\ WantSlot(t)) /\ WF_clientVars(Plays("deepl") /\ TakeSlot(t))
          /\ WF_clientVars(Plays("deepl") /\ DeepLAnswers(t))

-----------------------------------------------------------------------------
(* Properties.                                                             *)

ClientsTypeOK ==
    /\ \A k \in DOMAIN tokens : tokens[k].left \in 0 .. TokenLife
    /\ \A c \in DOMAIN Callers : callAt[c].waited \in 0 .. CallTime
    /\ slotHolder \in Translators \cup {"nobody"} /\ slotIn \in 0 .. Interval
    /\ \A t \in Translators : deeplAt[t].attempt \in 0 .. MaxRetries

\* Whatever the order of the answers, a request that is on its way carries a token of
\* its own account, which OTTO still accepts when it arrives.
TokenIsGood ==
    \A c \in DOMAIN Callers : callAt[c].at = "send" =>
        callAt[c].left > 0 /\ callAt[c].account = CredentialsOf(Callers[c])

\* All coroutines of a process together call DeepL no faster than the interval allows.
SlotsApart == ~tooClose

\* Every translation comes to an end, however often DeepL is busy.
TranslationsEnd ==
    Plays("deepl") => <>(\A t \in Translators : deeplAt[t].at \in {"translated", "failed"})

=============================================================================
