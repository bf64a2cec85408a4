-------------------------------- MODULE Server --------------------------------
(***************************************************************************)
(* The life of a server process: its start, with the permission canary     *)
(* that is awaited, and the metric probe and the eager index build that    *)
(* are not (server.py, common/telemetry.py); and the mirror of Entra's     *)
(* discovery document, fetched once by the requests that ask for it        *)
(* (auth/middleware.py).  Nothing outlives the process.                    *)
(*                                                                         *)
(* What the eager build does to the index is IndexManager's subject.       *)
(*                                                                         *)
(* A definition whose comment starts with "Fault" is a plausible bug; it   *)
(* is in no specification, and shows that a property can be violated.      *)
(***************************************************************************)
EXTENDS Integers, Sequences

CONSTANTS
    N,           \* the services in APIM_SERVICES are 1 .. N
    Risky,       \* those on which the identity may read secrets
    Requests,    \* the requests for the metadata that may be in progress at once
    MaxCrashes   \* bound on the ends of a process

ASSUME ServerAssumption == N \in Nat /\ Risky \subseteq 1 .. N /\ MaxCrashes \in Nat

VARIABLES
    proc,      \* the process: no request is accepted before it is "up"
    scope,     \* the service the canary looks at, N + 1 when it is over
    outcome,   \* what the canary met at each service
    warned,    \* the services it warned of
    probe,     \* the service the metric probe asks, N + 1 when it is over
    eager,     \* the first index build
    document,  \* whether Entra's document is cached
    queue,     \* the requests that wait for the lock
    req,       \* where each request is: "fetching" holds the lock
    fetched,   \* how each request's own fetch ended
    crashes

startup == <<proc, scope, outcome, warned>>
tasks   == <<probe, eager>>
mirror  == <<document, queue, req, fetched>>
vars    == <<startup, tasks, mirror, crashes>>

Services == 1 .. N
Waiting  == {"queued", "fetching"}
Fetchers == {r \in Requests : req[r] = "fetching"}

TypeOK ==
    /\ proc \in {"down", "starting", "up"}
    /\ scope \in 1 .. N + 1
    /\ outcome \in [Services -> {"unseen", "listed", "failed", "raised"}]
    /\ warned \subseteq Services
    /\ probe \in 0 .. N + 1
    /\ eager \in {"none", "running", "ended"}
    /\ document \in BOOLEAN
    /\ queue \in Seq(Requests)
    /\ req \in [Requests -> Waiting \cup {"idle", "ok", "unavailable", "error"}]
    /\ fetched \in [Requests -> {"none", "failed", "raised"}]
    /\ crashes \in 0 .. MaxCrashes

Unseen == [s \in Services |-> "unseen"]
AllIdle == [r \in Requests |-> "idle"]
NoFetch == [r \in Requests |-> "none"]

Init ==
    /\ proc = "down" /\ crashes = 0
    /\ scope = 1 /\ outcome = Unseen /\ warned = {}
    /\ probe = 0 /\ eager = "none"
    /\ document = FALSE /\ queue = <<>> /\ req = AllIdle /\ fetched = NoFetch

(***************************************************************************)
(* Start.                                                                  *)
(***************************************************************************)

\* The settings are valid: the process waits for the application's startup.
Boot ==
    /\ proc = "down"
    /\ proc' = "starting"
    /\ UNCHANGED <<scope, outcome, warned, tasks, mirror, crashes>>

Looked(how, next) ==
    /\ proc = "starting" /\ scope <= N
    /\ outcome' = [outcome EXCEPT ![scope] = how]
    /\ scope' = next
    /\ UNCHANGED <<proc, tasks, mirror, crashes>>

CanaryListed ==
    /\ Looked("listed", scope + 1)
    /\ warned' = warned \cup ({scope} \cap Risky)

\* Fault: a service that cannot be resolved ends the canary.
CanaryFailsForAll ==
    /\ Looked("failed", N + 1)
    /\ UNCHANGED warned

CanaryFails ==
    /\ Looked("failed", scope + 1)
    /\ UNCHANGED warned

\* An exception is caught outside the loop: the other services are not looked at.
CanaryRaises ==
    /\ Looked("raised", N + 1)
    /\ UNCHANGED warned

\* Fault: the eager build is awaited.
StartedWithIndex ==
    /\ proc = "starting" /\ scope = N + 1
    /\ IF eager = "none" THEN eager' = "running" /\ UNCHANGED proc
       ELSE eager = "ended" /\ proc' = "up" /\ UNCHANGED eager
    /\ UNCHANGED <<scope, outcome, warned, probe, mirror, crashes>>

\* The canary is over; two tasks are created which nobody awaits.
Started ==
    /\ proc = "starting" /\ scope = N + 1
    /\ proc' = "up"
    /\ probe' = 1
    /\ eager' = IF N = 0 THEN "none" ELSE "running"
    /\ UNCHANGED <<scope, outcome, warned, mirror, crashes>>

\* The probe goes on to the next service, whatever this one answers; not if it raises.
ProbeStep ==
    /\ proc # "down" /\ probe \in Services
    /\ probe' \in {probe + 1, N + 1}
    /\ UNCHANGED <<startup, eager, mirror, crashes>>

EagerEnds ==
    /\ proc # "down" /\ eager = "running"
    /\ eager' = "ended"
    /\ UNCHANGED <<startup, probe, mirror, crashes>>

\* The process is stopped or killed; a new one knows nothing of it.
Crash ==
    /\ proc # "down" /\ crashes < MaxCrashes
    /\ proc' = "down"
    /\ crashes' = crashes + 1
    /\ scope' = 1 /\ outcome' = Unseen /\ warned' = {}
    /\ probe' = 0 /\ eager' = "none"
    /\ document' = FALSE /\ queue' = <<>> /\ req' = AllIdle /\ fetched' = NoFetch

(***************************************************************************)
(* AuthorizationServerMetadataCache, and the route that asks it.           *)
(***************************************************************************)
Answered(r, how) == req' = [req EXCEPT ![r] = how]

\* The route's answer, with the document or without.
Reply(r, cached) == Answered(r, IF cached THEN "ok" ELSE "unavailable")

\* get_document until its first await: the cache, the lock, or the queue for the lock.
Ask(r) ==
    /\ proc = "up" /\ req[r] = "idle"
    /\ IF document THEN Reply(r, TRUE) /\ UNCHANGED queue
       ELSE IF Fetchers = {} /\ queue = <<>> THEN Answered(r, "fetching") /\ UNCHANGED queue
       ELSE Answered(r, "queued") /\ queue' = Append(queue, r)
    /\ UNCHANGED <<startup, tasks, document, fetched, crashes>>

\* Fault: the cache is not looked at again.
GrantedUnchecked(r) ==
    /\ proc = "up"
    /\ Fetchers = {} /\ queue # <<>> /\ r = Head(queue)
    /\ queue' = Tail(queue)
    /\ Answered(r, "fetching")
    /\ UNCHANGED <<startup, tasks, document, fetched, crashes>>

\* The lock goes to who waited longest, who looks at the cache again.
Granted(r) ==
    /\ proc = "up"
    /\ Fetchers = {} /\ queue # <<>> /\ r = Head(queue)
    /\ queue' = Tail(queue)
    /\ IF document THEN Reply(r, TRUE) ELSE Answered(r, "fetching")
    /\ UNCHANGED <<startup, tasks, document, fetched, crashes>>

Fetched(r) ==
    /\ req[r] = "fetching"
    /\ document' = TRUE
    /\ Reply(r, document')
    /\ UNCHANGED <<startup, tasks, queue, fetched, crashes>>

\* No answer in ten seconds, or a status that is no success: a failure is not cached.
FetchFails(r) ==
    /\ req[r] = "fetching"
    /\ fetched' = [fetched EXCEPT ![r] = "failed"]
    /\ Reply(r, document)
    /\ UNCHANGED <<startup, tasks, document, queue, crashes>>

\* The body is not JSON: the exception goes through get_document and the route.
FetchRaises(r) ==
    /\ req[r] = "fetching"
    /\ fetched' = [fetched EXCEPT ![r] = "raised"]
    /\ Answered(r, "error")
    /\ UNCHANGED <<startup, tasks, document, queue, crashes>>

\* The client has its answer, and may ask again.
Leave(r) ==
    /\ req[r] \notin Waiting \cup {"idle"}
    /\ Answered(r, "idle")
    /\ fetched' = [fetched EXCEPT ![r] = "none"]
    /\ UNCHANGED <<startup, tasks, document, queue, crashes>>

Canary == CanaryListed \/ CanaryFails \/ CanaryRaises
EntraAnswers(r) == Fetched(r) \/ FetchFails(r) \/ FetchRaises(r)

Next ==
    \/ Boot
    \/ Canary
    \/ Started
    \/ ProbeStep
    \/ EagerEnds
    \/ Crash
    \/ \E r \in Requests : Ask(r) \/ Granted(r) \/ EntraAnswers(r) \/ Leave(r)

Spec == Init /\ [][Next]_vars

\* ARM's retries and Entra's ten seconds are bounded, and the event loop runs.  Nothing
\* is asked of the probe or of the build.
Fairness ==
    /\ WF_vars(Canary)
    /\ WF_vars(Started)
    /\ \A r \in Requests : WF_vars(Granted(r)) /\ WF_vars(EntraAnswers(r))

FairSpec == Spec /\ Fairness

-----------------------------------------------------------------------------
(***************************************************************************)
(* Properties.                                                             *)
(***************************************************************************)

\* Before a process serves its first request, whatever its predecessors saw, it has
\* warned of each service whose secrets it may read: but for a service whose permissions
\* could not be read, and those that follow one that raised (run_permission_canary,
\* _run_startup_canary).
RiskReported ==
    proc = "up" =>
        \A s \in Risky :
            \/ s \in warned
            \/ outcome[s] \in {"failed", "raised"}
            \/ \E r \in 1 .. s - 1 : outcome[r] = "raised"

\* A process has one fetch of the metadata in flight at most, and none once it has the
\* document; a request is refused for nobody's failure but its own, and only while there
\* is no document to give (get_document).
MirrorFetchesOnce ==
    /\ \A q, r \in Fetchers : q = r
    /\ Fetchers # {} => ~document
    /\ \A r \in Requests :
          /\ req[r] = "unavailable" => fetched[r] = "failed"
          /\ req[r] = "error" => fetched[r] = "raised"

\* A process that starts comes to serve, though the metric probe and the index build may
\* hang; and a request for the metadata is answered, however many wait before it.
ComesToServe ==
    /\ proc = "starting" ~> proc # "starting"
    /\ \A r \in Requests : req[r] \in Waiting ~> req[r] \notin Waiting
=============================================================================
