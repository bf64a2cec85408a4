------------------------------ MODULE TokenGate ------------------------------
(***************************************************************************)
(* Token validation (auth/middleware.py): TokenValidationMiddleware and    *)
(* the JWKSCache it asks for the tenant's signing keys, for requests that  *)
(* run concurrently on one event loop, while Entra rotates its keys.       *)
(*                                                                         *)
(* A request awaits in one place only, the HTTP fetch of a refresh.  Entra *)
(* answers with the keys of one instant, between the sending of the        *)
(* request and the arrival of the answer, and answers may arrive in any    *)
(* order.  A token is its kid, its expiry and what is wrong with it.       *)
(***************************************************************************)
EXTENDS Integers, FiniteSets

CONSTANTS
    Kids,       \* key ids
    Requests,   \* requests in progress at once
    Tokens,     \* bearer tokens: [kid, exp, flaws]
    NoToken,    \* what an unused slot holds instead of a token
    Interval,   \* min_refresh_interval, in ticks
    Leeway,     \* jwt.decode's leeway, in ticks
    MaxTime,    \* bound on the clock
    CanFail     \* a fetch may fail (transport, HTTP status, body)

Flaws == {"header", "signature", "issuer", "audience", "role"}

ASSUME TokenGateAssumption ==
    /\ Interval \in Nat
    /\ Leeway \in Nat
    /\ MaxTime \in Nat
    /\ CanFail \in BOOLEAN
    /\ Tokens \subseteq [kid : Kids, exp : Nat, flaws : SUBSET Flaws]
    /\ NoToken \notin Tokens

VARIABLES
    clock,
    since,        \* Entra: since when each key is published, or Never
    keys,         \* _keys: the ids of the cached keys
    lastRefresh,  \* _last_refresh
    req           \* the requests

vars == <<clock, since, keys, lastRefresh, req>>

Never == -1

Published == {k \in Kids : since[k] # Never}

Outcomes == {"admitted", "unauthorized", "forbidden", "error"}
NoRequest == [pc |-> "idle", tok |-> NoToken, at |-> 0, fetched |-> FALSE, body |-> {}]

TypeOK ==
    /\ clock \in 0 .. MaxTime
    /\ since \in [Kids -> -1 .. MaxTime]
    /\ keys \subseteq Kids
    /\ lastRefresh \in -1 .. MaxTime
    /\ req \in [Requests -> [pc      : {"idle", "fetching", "answered"} \cup Outcomes,
                             tok     : Tokens \cup {NoToken},
                             at      : 0 .. MaxTime,
                             fetched : BOOLEAN,
                             body    : SUBSET Kids]]

(***************************************************************************)
(* What the handlers compute.                                              *)
(***************************************************************************)

\* Fault: the expiry is not checked once the key is known.
VerdictWithoutExpiry(tok, known, now) ==
    IF ~known \/ tok.flaws \cap {"signature", "issuer", "audience"} # {}
      THEN "unauthorized"
      ELSE IF "role" \in tok.flaws THEN "forbidden" ELSE "admitted"

\* __call__ once the signing key is looked up: decode, then issuer, audience, role.
Verdict(tok, known, now) ==
    IF \/ ~known
       \/ tok.exp <= now - Leeway
       \/ tok.flaws \cap {"signature", "issuer", "audience"} # {}
      THEN "unauthorized"
      ELSE IF "role" \in tok.flaws THEN "forbidden" ELSE "admitted"

\* _maybe_refresh's rate limit.
Gated == lastRefresh # Never /\ clock - lastRefresh < Interval

Finish(r, tok, outcome, fetched, body) ==
    req' = [req EXCEPT ![r] = [pc |-> outcome, tok |-> tok, at |-> clock,
                               fetched |-> fetched, body |-> body]]

Init ==
    /\ clock = 0
    /\ since \in [Kids -> {Never, 0}]
    /\ keys = {}
    /\ lastRefresh = Never
    /\ req = [r \in Requests |-> NoRequest]

(***************************************************************************)
(* The environment: time, and Entra's rotation of its signing keys.        *)
(***************************************************************************)
Tick ==
    /\ clock < MaxTime
    /\ clock' = clock + 1
    /\ UNCHANGED <<since, keys, lastRefresh, req>>

Publish(k) ==
    /\ since[k] = Never
    /\ since' = [since EXCEPT ![k] = clock]
    /\ UNCHANGED <<clock, keys, lastRefresh, req>>

Retire(k) ==
    /\ since[k] # Never
    /\ since' = [since EXCEPT ![k] = Never]
    /\ UNCHANGED <<clock, keys, lastRefresh, req>>

(***************************************************************************)
(* A request, from its arrival to its verdict.                             *)
(***************************************************************************)
Arrived(r) == req[r].pc \notin {"fetching", "answered"}

\* No usable Authorization header: refused before the key cache is asked.
RefuseMalformed(r, tok) ==
    /\ Arrived(r)
    /\ "header" \in tok.flaws
    /\ Finish(r, tok, "unauthorized", FALSE, {})
    /\ UNCHANGED <<clock, since, keys, lastRefresh>>

\* The key is cached, or a refresh is not due: decided without an await.
DecideFromCache(r, tok) ==
    /\ Arrived(r)
    /\ "header" \notin tok.flaws
    /\ tok.kid \in keys \/ Gated
    /\ Finish(r, tok, Verdict(tok, tok.kid \in keys, clock), FALSE, {})
    /\ UNCHANGED <<clock, since, keys, lastRefresh>>

\* An unknown kid and a refresh due: `now` is read, then the fetch is awaited.
StartFetch(r, tok) ==
    /\ Arrived(r)
    /\ "header" \notin tok.flaws
    /\ tok.kid \notin keys
    /\ ~Gated
    /\ req' = [req EXCEPT ![r] = [pc |-> "fetching", tok |-> tok, at |-> clock,
                                  fetched |-> TRUE, body |-> {}]]
    /\ UNCHANGED <<clock, since, keys, lastRefresh>>

\* Entra answers; the answer is on its way.
EntraAnswers(r) ==
    /\ req[r].pc = "fetching"
    /\ req' = [req EXCEPT ![r].pc = "answered", ![r].body = Published]
    /\ UNCHANGED <<clock, since, keys, lastRefresh>>

\* Fault: the refresh is dated by the arrival of the answer.
ReceiveDatedLate(r) ==
    /\ req[r].pc = "answered"
    /\ keys' = req[r].body
    /\ lastRefresh' = clock
    /\ Finish(r, req[r].tok, Verdict(req[r].tok, req[r].tok.kid \in keys', clock),
              TRUE, req[r].body)
    /\ UNCHANGED <<clock, since>>

\* Fault: the key is looked up in the set it had before its own refresh.
ReceiveUsesOldKeys(r) ==
    /\ req[r].pc = "answered"
    /\ keys' = req[r].body
    /\ lastRefresh' = req[r].at
    /\ Finish(r, req[r].tok, Verdict(req[r].tok, req[r].tok.kid \in keys, clock),
              TRUE, req[r].body)
    /\ UNCHANGED <<clock, since>>

\* Fault: the instant of the next refresh is stored, not that of the last one.
ReceiveStampsAhead(r) ==
    /\ req[r].pc = "answered"
    /\ keys' = req[r].body
    /\ lastRefresh' = req[r].at + Interval
    /\ Finish(r, req[r].tok, Verdict(req[r].tok, req[r].tok.kid \in keys', clock),
              TRUE, req[r].body)
    /\ UNCHANGED <<clock, since>>

\* The answer arrives: the whole key set is replaced, the refresh is dated by its
\* start, and the request is decided with no await in between.
Receive(r) ==
    /\ req[r].pc = "answered"
    /\ keys' = req[r].body
    /\ lastRefresh' = req[r].at
    /\ Finish(r, req[r].tok, Verdict(req[r].tok, req[r].tok.kid \in keys', clock),
              TRUE, req[r].body)
    /\ UNCHANGED <<clock, since>>

\* The fetch raises: the exception leaves the middleware, nothing is remembered.
FetchFails(r) ==
    /\ CanFail
    /\ req[r].pc \in {"fetching", "answered"}
    /\ Finish(r, req[r].tok, "error", TRUE, {})
    /\ UNCHANGED <<clock, since, keys, lastRefresh>>

Next ==
    \/ Tick
    \/ \E k \in Kids : Publish(k)
    \/ \E k \in Kids : Retire(k)
    \/ \E r \in Requests, tok \in Tokens : RefuseMalformed(r, tok)
    \/ \E r \in Requests, tok \in Tokens : DecideFromCache(r, tok)
    \/ \E r \in Requests, tok \in Tokens : StartFetch(r, tok)
    \/ \E r \in Requests : EntraAnswers(r)
    \/ \E r \in Requests : Receive(r)
    \/ \E r \in Requests : FetchFails(r)

Spec == Init /\ [][Next]_vars

-----------------------------------------------------------------------------
(***************************************************************************)
(* Properties.                                                             *)
(***************************************************************************)

\* A signing key that Entra has published for at least the refresh interval is
\* never unknown because the rate limit skipped the refresh: the outage a key
\* rotation can cause is shorter than the interval, even when a slow answer
\* overwrites the keys of a later one (_maybe_refresh dates a refresh by its start).
RotationOutageBounded ==
    \A k \in Published : k \notin keys /\ Gated => clock - since[k] < Interval

\* A request that fetched the keys itself is refused a sound, unexpired token only
\* if Entra's answer to that very fetch lacked the key, whatever other requests
\* stored meanwhile (get_signing_key reads the set its own refresh stored).
OwnFetchDecides ==
    \A r \in Requests :
        /\ req[r].pc = "unauthorized" /\ req[r].fetched
        /\ req[r].tok.flaws = {} /\ req[r].tok.exp > req[r].at - Leeway
        => req[r].tok.kid \notin req[r].body

\* What reaches the application carries a token with no flaw that had not expired
\* when the request was let through, however long the key fetch took (__call__).
AdmissionIsSound ==
    \A r \in Requests : req[r].pc = "admitted" =>
        /\ req[r].tok.flaws = {}
        /\ req[r].tok.exp > req[r].at - Leeway

\* JWKSCache's docstring: "never more than once per min_refresh_interval seconds".
OneRefreshPerInterval ==
    \A r, q \in Requests :
        /\ r # q
        /\ req[r].pc \in {"fetching", "answered"}
        /\ req[q].pc \in {"fetching", "answered"}
        => req[r].at - req[q].at >= Interval \/ req[q].at - req[r].at >= Interval
=============================================================================
