----------------------- MODULE IndexManagerProperties -----------------------
(***************************************************************************)
(* What the index manager promises, and what its documentation says.       *)
(***************************************************************************)
EXTENDS IndexManager

\* At most one build of a key is in flight, it is the task that holds the key's
\* lock, and a lock is never left held by a task that has gone: a skipped,
\* failed or cancelled build cannot block the key for ever (_build_one).
SingleFlight ==
    \A o \in Owners, k \in Keys : pc[o][k] \in Building <=> lock[k] = o

\* An index is never lost, and never replaced by one read earlier: a slow build
\* cannot overwrite the result of a later one (_build_one publishes under the
\* lock it took before reading).
IndexNeverRegresses ==
    [][\A k \in Keys : index'[k].version >= index[k].version]_index

\* A refresh whose own build of a key was published returns an index that holds
\* everything deployed before the call: the "deploy, refresh, search again" that
\* apim_refresh_index exists for.
OwnBuildCoversCall ==
    \A c \in Callers, k \in Keys :
        pc[c][k] = "built" => index[k].version >= call[c].asked[Canon[k]]

\* Two refreshes of a key that wait for their builds at the same time were
\* accepted at least the rate limit apart: the stamp is set before the await, so
\* a burst of calls cannot all pass the check.
OverlappingRefreshesSpaced ==
    \A c, d \in Callers : \A k \in Keys :
        /\ c # d
        /\ call[c].st = "waiting" /\ k \in call[c].keys
        /\ call[d].st = "waiting" /\ k \in call[d].keys
        => \/ call[c].at - call[d].at >= RateLimit
           \/ call[d].at - call[c].at >= RateLimit

\* A search that finds an index stale or missing gets it rebuilt, if no build
\* fails and no request is cancelled, even when its own background task finds
\* the lock taken and gives up.
StaleIndexRebuilt ==
    \A k \in Keys :
        (Stale(k) /\ \E w \in Workers : pc[w][k] = "ready") ~> ~Stale(k)

\* Every configured service gets its first index without any request.
EagerBuildLands == \A k \in Configured : <>(index[k].version # Missing)

\* A refresh that was accepted is answered, whatever becomes of its builds.
RefreshAnswered ==
    \A c \in Callers : call[c].st = "waiting" ~> call[c].st # "waiting"

(***************************************************************************)
(* Claims of the documentation that the code does not keep.                *)
(***************************************************************************)

\* docs/features/SEARCH_INDEX.md: apim_refresh_index "forces a rebuild ... and
\* waits for it to finish before returning counts", so what it returns holds
\* everything deployed before the call.
RefreshCoversCall ==
    [][\A c \in Callers : RefreshReturn(c) =>
          \A k \in call[c].keys :
              index[k].version >= call[c].asked[Canon[k]]]_vars

\* docs/development/SPEC.md: "one call per service per 60s", whatever spelling of
\* the service's name the callers use.
RefreshSpacedPerService ==
    [][\A k, j \in Keys :
          /\ Canon[k] = Canon[j]
          /\ lastRefresh[j] # Never
          /\ lastRefresh'[k] # lastRefresh[k]
          => lastRefresh'[k] - lastRefresh[j] >= RateLimit]_vars

=============================================================================
