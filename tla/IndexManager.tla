---------------------------- MODULE IndexManager ----------------------------
(***************************************************************************)
(* The lifecycle of the per-service search indexes (index/search.py, class *)
(* IndexManager): the eager build at startup, the TTL rebuild a search     *)
(* fires in the background, and the forced rebuild of apim_refresh_index,  *)
(* all of them tasks of one asyncio event loop that share _indexes, _locks *)
(* and _last_refresh_at.                                                   *)
(*                                                                         *)
(* The loop is cooperative, so one action is the code between two awaits.  *)
(* A task is a coroutine of _build_one, named by who created it and by the *)
(* key it builds; its pc says at which await it stands.  What a build      *)
(* reads from ARM is abstracted to the version of the service's API set at *)
(* the moment the list was read (`upstream`).                              *)
(*                                                                         *)
(* A definition whose comment starts with "Fault" is a plausible bug; it   *)
(* is in no specification, and shows that a property can be violated.      *)
(***************************************************************************)
EXTENDS Integers, FiniteSets

CONSTANTS
    Keys,           \* spellings of `service` in use: the keys of _indexes,
                    \* _locks and _last_refresh_at
    Configured,     \* the spellings in settings.apim_services
    Canon,          \* [Keys -> Configured]: the service settings.service() finds
    Callers,        \* concurrent apim_refresh_index calls
    Workers,        \* fire-and-forget rebuilds alive at once, per key (a bound)
    Startup,        \* the owner of build_all's tasks
    Free,           \* an unlocked asyncio.Lock
    TTL,            \* index_ttl_seconds, in ticks
    RateLimit,      \* _REFRESH_RATE_LIMIT_SECONDS, in ticks
    TicksPerSecond, \* the clock is a float; int() rounds it down to seconds
    MaxTime,        \* bound on the clock
    MaxVersion,     \* bound on the deployments upstream
    CanFail,        \* builds may end in an error
    CanCancel       \* a waiting refresh may be cancelled by its client

Owners == {Startup} \cup Callers \cup Workers

ASSUME ConstantsAssumption ==
    /\ Configured \subseteq Keys
    /\ Canon \in [Keys -> Configured]
    /\ \A k \in Configured : Canon[k] = k
    /\ Startup \notin Callers \cup Workers
    /\ Callers \cap Workers = {}
    /\ Free \notin Owners
    /\ TTL \in Nat /\ RateLimit \in Nat
    /\ TicksPerSecond \in Nat \ {0}
    /\ MaxTime \in Nat /\ MaxVersion \in Nat
    /\ CanFail \in BOOLEAN /\ CanCancel \in BOOLEAN

VARIABLES
    clock,        \* time.monotonic
    upstream,     \* version of each service's API set, as ARM would list it
    index,        \* _indexes: the version served and its built_at
    lock,         \* _locks: the task that holds each lock, or Free
    pc,           \* where each _build_one task stands
    seen,         \* the version a running build has read
    lastRefresh,  \* _last_refresh_at
    call          \* the apim_refresh_index calls

vars == <<clock, upstream, index, lock, pc, seen, lastRefresh, call>>

Missing == -1     \* no entry in _indexes / a build that has read nothing yet
Never   == -1     \* no entry in _last_refresh_at
NoIndex == [version |-> Missing, builtAt |-> Missing]

\* "listing" and "indexing" hold the lock; the last three are how a task ended,
\* kept for the refresh call that gathers it.
Phase == {"idle", "ready", "listing", "indexing", "built", "skipped", "failed"}
Building == {"listing", "indexing"}
Pending  == {"ready"} \cup Building

Version == -1 .. MaxVersion
Times   == -1 .. (MaxTime + RateLimit)

TypeOK ==
    /\ clock \in 0 .. MaxTime
    /\ upstream \in [Configured -> 0 .. MaxVersion]
    /\ index \in [Keys -> [version : Version, builtAt : -1 .. MaxTime]]
    /\ lock \in [Keys -> Owners \cup {Free}]
    /\ pc \in [Owners -> [Keys -> Phase]]
    /\ seen \in [Owners -> [Keys -> Version]]
    /\ lastRefresh \in [Keys -> -1 .. MaxTime]
    /\ call \in [Callers -> [st    : {"idle", "waiting", "throttled"},
                             keys  : SUBSET Keys,
                             at    : Times,
                             asked : [Configured -> Version]]]

NoCall == [st |-> "idle", keys |-> {}, at |-> -1,
           asked |-> [s \in Configured |-> Missing]]

(***************************************************************************)
(* What the handlers compute from the shared state.                        *)
(***************************************************************************)

\* _service_aliases: the one spelling the caller used, or every configured one.
Requests == {{k} : k \in Keys} \cup {Configured}

\* _is_stale
Stale(k) == \/ index[k].version = Missing
            \/ clock - index[k].builtAt >= TTL

\* The rate limit refresh applies to every key it names before it stamps any.
Limited(k)   == lastRefresh[k] # Never /\ clock - lastRefresh[k] < RateLimit
Throttled(S) == \E k \in S : Limited(k)

\* Fault: the elapsed time is added instead of taken off.
RetryInSignSlip(k) == (RateLimit + (clock - lastRefresh[k])) \div TicksPerSecond

\* `retry_in`, the whole seconds a throttled caller is told to wait.
RetryIn(k) == (RateLimit - (clock - lastRefresh[k])) \div TicksPerSecond

\* A task of a refresh is remembered until the call gathers it; the others are
\* fire and forget.
Ended(o, outcome) == IF o \in Callers THEN outcome ELSE "idle"

\* Fault: build_all is never started.
InitWithoutEagerBuild ==
    /\ clock = 0
    /\ upstream = [s \in Configured |-> 0]
    /\ index = [k \in Keys |-> NoIndex]
    /\ lock = [k \in Keys |-> Free]
    /\ pc = [o \in Owners |-> [k \in Keys |-> "idle"]]
    /\ seen = [o \in Owners |-> [k \in Keys |-> Missing]]
    /\ lastRefresh = [k \in Keys |-> Never]
    /\ call = [c \in Callers |-> NoCall]

Init ==
    /\ clock = 0
    /\ upstream = [s \in Configured |-> 0]
    /\ index = [k \in Keys |-> NoIndex]
    /\ lock = [k \in Keys |-> Free]
    \* build_all: one task per configured service, created before the lifespan
    \* completes and so before the first request
    /\ pc = [o \in Owners |-> [k \in Keys |->
                IF o = Startup /\ k \in Configured THEN "ready" ELSE "idle"]]
    /\ seen = [o \in Owners |-> [k \in Keys |-> Missing]]
    /\ lastRefresh = [k \in Keys |-> Never]
    /\ call = [c \in Callers |-> NoCall]

(***************************************************************************)
(* The environment: time passes, and someone deploys or changes an API.    *)
(***************************************************************************)
Tick ==
    /\ clock < MaxTime
    /\ clock' = clock + 1
    /\ UNCHANGED <<upstream, index, lock, pc, seen, lastRefresh, call>>

Deploy(s) ==
    /\ upstream[s] < MaxVersion
    /\ upstream' = [upstream EXCEPT ![s] = @ + 1]
    /\ UNCHANGED <<clock, index, lock, pc, seen, lastRefresh, call>>

(***************************************************************************)
(* _build_one, from its first step to its return.                          *)
(***************************************************************************)

\* The lock is held: another build of this key is in flight, return at once.
BuildSkip(o, k) ==
    /\ pc[o][k] = "ready"
    /\ lock[k] # Free
    /\ pc' = [pc EXCEPT ![o][k] = Ended(o, "skipped")]
    /\ UNCHANGED <<clock, upstream, index, lock, seen, lastRefresh, call>>

\* Fault: the lock is taken without looking whether a build is in flight.
BuildBeginUnguarded(o, k) ==
    /\ pc[o][k] = "ready"
    /\ lock' = [lock EXCEPT ![k] = o]
    /\ pc' = [pc EXCEPT ![o][k] = "listing"]
    /\ UNCHANGED <<clock, upstream, index, seen, lastRefresh, call>>

\* No await between the test of locked() and the acquisition of a free lock.
BuildBegin(o, k) ==
    /\ pc[o][k] = "ready"
    /\ lock[k] = Free
    /\ lock' = [lock EXCEPT ![k] = o]
    /\ pc' = [pc EXCEPT ![o][k] = "listing"]
    /\ UNCHANGED <<clock, upstream, index, seen, lastRefresh, call>>

\* Fault: the lock only covers the reading, not the publication.
BuildListUnlocks(o, k) ==
    /\ pc[o][k] = "listing"
    /\ pc' = [pc EXCEPT ![o][k] = "indexing"]
    /\ seen' = [seen EXCEPT ![o][k] = upstream[Canon[k]]]
    /\ lock' = [lock EXCEPT ![k] = Free]
    /\ UNCHANGED <<clock, upstream, index, lastRefresh, call>>

\* build_fn reads the API set of the service settings.service(alias) resolves to.
BuildList(o, k) ==
    /\ pc[o][k] = "listing"
    /\ pc' = [pc EXCEPT ![o][k] = "indexing"]
    /\ seen' = [seen EXCEPT ![o][k] = upstream[Canon[k]]]
    /\ UNCHANGED <<clock, upstream, index, lock, lastRefresh, call>>

\* Fault: the lock is not released after the publication.
BuildPublishKeepsLock(o, k) ==
    /\ pc[o][k] = "indexing"
    /\ index' = [index EXCEPT ![k] = [version |-> seen[o][k], builtAt |-> clock]]
    /\ pc' = [pc EXCEPT ![o][k] = Ended(o, "built")]
    /\ seen' = [seen EXCEPT ![o][k] = Missing]
    /\ UNCHANGED <<clock, upstream, lock, lastRefresh, call>>

\* build_fn returned a result: publish it and leave the lock.
BuildPublish(o, k) ==
    /\ pc[o][k] = "indexing"
    /\ index' = [index EXCEPT ![k] = [version |-> seen[o][k], builtAt |-> clock]]
    /\ lock' = [lock EXCEPT ![k] = Free]
    /\ pc' = [pc EXCEPT ![o][k] = Ended(o, "built")]
    /\ seen' = [seen EXCEPT ![o][k] = Missing]
    /\ UNCHANGED <<clock, upstream, lastRefresh, call>>

\* Fault: the early return of a failed build leaves the lock held.
BuildFailKeepsLock(o, k) ==
    /\ CanFail
    /\ pc[o][k] \in Building
    /\ pc' = [pc EXCEPT ![o][k] = Ended(o, "failed")]
    /\ seen' = [seen EXCEPT ![o][k] = Missing]
    /\ UNCHANGED <<clock, upstream, index, lock, lastRefresh, call>>

\* build_fn raised, or returned a result with an error: keep the old index.
BuildFail(o, k) ==
    /\ CanFail
    /\ pc[o][k] \in Building
    /\ lock' = [lock EXCEPT ![k] = Free]
    /\ pc' = [pc EXCEPT ![o][k] = Ended(o, "failed")]
    /\ seen' = [seen EXCEPT ![o][k] = Missing]
    /\ UNCHANGED <<clock, upstream, index, lastRefresh, call>>

(***************************************************************************)
(* search: runs without an await.  It reads the indexes as they are and    *)
(* creates one background task per stale key; with none stale it changes   *)
(* nothing.                                                                *)
(***************************************************************************)
Search(S) ==
    LET stale == {k \in S : Stale(k)}
    IN  \E w \in [stale -> Workers] :
          /\ \A k \in stale : pc[w[k]][k] = "idle"     \* the bound Workers
          /\ pc' = [o \in Owners |-> [k \in Keys |->
                       IF k \in stale /\ w[k] = o THEN "ready" ELSE pc[o][k]]]
          /\ UNCHANGED <<clock, upstream, index, lock, seen, lastRefresh, call>>

(***************************************************************************)
(* refresh, split at its one await (the gather of its builds).             *)
(***************************************************************************)
RefreshThrottled(c, S) ==
    /\ call[c].st # "waiting"
    /\ \E k \in S :
         /\ Limited(k)
         /\ call' = [call EXCEPT ![c] =
                [st |-> "throttled", keys |-> S, asked |-> NoCall.asked,
                 at |-> clock + TicksPerSecond * RetryIn(k)]]
    /\ UNCHANGED <<clock, upstream, index, lock, pc, seen, lastRefresh>>

\* Fault: the keys are not stamped before the builds are awaited.
RefreshAcceptUnstamped(c, S) ==
    /\ call[c].st # "waiting"
    /\ ~Throttled(S)
    /\ pc' = [pc EXCEPT ![c] =
                 [k \in Keys |-> IF k \in S THEN "ready" ELSE "idle"]]
    /\ call' = [call EXCEPT ![c] = [st |-> "waiting", keys |-> S, at |-> clock,
                                    asked |-> upstream]]
    /\ UNCHANGED <<clock, upstream, index, lock, seen, lastRefresh>>

\* Every key is stamped before any build starts, whatever becomes of the builds.
RefreshAccept(c, S) ==
    /\ call[c].st # "waiting"
    /\ ~Throttled(S)
    /\ lastRefresh' = [k \in Keys |-> IF k \in S THEN clock ELSE lastRefresh[k]]
    /\ pc' = [pc EXCEPT ![c] =
                 [k \in Keys |-> IF k \in S THEN "ready" ELSE "idle"]]
    /\ call' = [call EXCEPT ![c] = [st |-> "waiting", keys |-> S, at |-> clock,
                                    asked |-> upstream]]
    /\ UNCHANGED <<clock, upstream, index, lock, seen>>

\* Fault: the call insists on a build of its own for every key.
RefreshReturnWhenBuilt(c) ==
    /\ call[c].st = "waiting"
    /\ \A k \in call[c].keys : pc[c][k] = "built"
    /\ call' = [call EXCEPT ![c] = NoCall]
    /\ pc' = [pc EXCEPT ![c] = [k \in Keys |-> "idle"]]
    /\ UNCHANGED <<clock, upstream, index, lock, seen, lastRefresh>>

\* Every gathered build ended: the counts are read from _indexes and returned.
RefreshReturn(c) ==
    /\ call[c].st = "waiting"
    /\ \A k \in call[c].keys : pc[c][k] \notin Pending
    /\ call' = [call EXCEPT ![c] = NoCall]
    /\ pc' = [pc EXCEPT ![c] = [k \in Keys |-> "idle"]]
    /\ UNCHANGED <<clock, upstream, index, lock, seen, lastRefresh>>

\* The client goes away: gather cancels its tasks, and leaving `async with`
\* frees the locks they hold.  _last_refresh_at keeps its stamps.
RefreshCancel(c) ==
    /\ CanCancel
    /\ call[c].st = "waiting"
    /\ lock' = [k \in Keys |-> IF lock[k] = c THEN Free ELSE lock[k]]
    /\ pc' = [pc EXCEPT ![c] = [k \in Keys |-> "idle"]]
    /\ seen' = [seen EXCEPT ![c] = [k \in Keys |-> Missing]]
    /\ call' = [call EXCEPT ![c] = NoCall]
    /\ UNCHANGED <<clock, upstream, index, lastRefresh>>

BuildStep(o, k) ==
    \/ BuildSkip(o, k)
    \/ BuildBegin(o, k)
    \/ BuildList(o, k)
    \/ BuildPublish(o, k)
    \/ BuildFail(o, k)

Next ==
    \/ Tick
    \/ \E s \in Configured : Deploy(s)
    \/ \E o \in Owners, k \in Keys : BuildStep(o, k)
    \/ \E S \in Requests : Search(S)
    \/ \E c \in Callers, S \in Requests : RefreshThrottled(c, S)
    \/ \E c \in Callers, S \in Requests : RefreshAccept(c, S)
    \/ \E c \in Callers : RefreshReturn(c)
    \/ \E c \in Callers : RefreshCancel(c)

Spec == Init /\ [][Next]_vars

\* The event loop runs every ready task, and every await of a build ends: HTTP
\* calls time out, retries are bounded and so is the build as a whole.
Fairness ==
    /\ \A o \in Owners, k \in Keys : WF_vars(BuildStep(o, k))
    /\ \A c \in Callers : WF_vars(RefreshReturn(c))

FairSpec == Spec /\ Fairness
=============================================================================
