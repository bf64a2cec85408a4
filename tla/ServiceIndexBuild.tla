-------------------------- MODULE ServiceIndexBuild --------------------------
(***************************************************************************)
(* One build of a service's search index (index/builder.py): list the      *)
(* APIs, index each in a task of its own under a semaphore, give up at a   *)
(* deadline.  Builds of the service follow one another: IndexManager never *)
(* runs two at once, but it may drop one whose caller went away, and the   *)
(* tasks of a dropped build run on.                                        *)
(*                                                                         *)
(* A task is at one of its awaits: the semaphore ("queued"), the list of   *)
(* operations ("operations"), the export of the document ("spec"), or on   *)
(* its way out after task.cancel ("leaving" inside the semaphore,          *)
(* "cancelled" at once when it was still queued).  Its other states are    *)
(* its ends.                                                               *)
(*                                                                         *)
(* A definition whose comment starts with "Fault" is a plausible bug; it   *)
(* is in no specification, and shows that a property can be violated.      *)
(***************************************************************************)
EXTENDS Integers, FiniteSets

CONSTANTS
    Apis,            \* the APIs ARM may list for the service
    Builds,          \* the builds of the service (a bound)
    MaxConcurrency,  \* index_max_concurrency
    Budget,          \* build_timeout_seconds, in ticks
    MaxTime          \* bound on the clock

ASSUME BuildAssumption ==
    /\ IsFiniteSet(Apis)
    /\ MaxConcurrency \in Nat
    /\ Budget \in Nat
    /\ MaxTime \in Nat

VARIABLES
    clock,
    build,     \* where each build_service_index stands, its deadline, its flag
    task,      \* the _index_one_api tasks of each build
    free,      \* permits left in each build's semaphore
    entries,   \* APIs with entries in each build's list
    failures   \* spec_failure_count

vars == <<clock, build, task, free, entries, failures>>

InFlight == {"listing", "indexing", "cancelling"}
Inside   == {"operations", "spec", "leaving"}
Live     == {"queued"} \cup Inside
Counted  == {"degraded", "dropped"}

TypeOK ==
    /\ clock \in 0 .. MaxTime
    /\ build \in [Builds -> [st : InFlight \cup {"idle", "error", "returned", "abandoned"},
                             deadline : 0 .. MaxTime,
                             partial  : BOOLEAN]]
    /\ task \in [Builds -> [Apis -> Live \cup Counted
                                \cup {"none", "indexed", "raised", "cancelled"}]]
    /\ free \in [Builds -> 0 .. MaxConcurrency]
    /\ entries \in [Builds -> SUBSET Apis]
    /\ failures \in [Builds -> Nat]

In(b, states) == {a \in Apis : task[b][a] \in states}

Move(b, a, state) == task' = [task EXCEPT ![b][a] = state]
Release(b)        == free' = [free EXCEPT ![b] = @ + 1]

Init ==
    /\ clock = 0
    /\ build = [b \in Builds |-> [st |-> "idle", deadline |-> 0, partial |-> FALSE]]
    /\ task = [b \in Builds |-> [a \in Apis |-> "none"]]
    /\ free = [b \in Builds |-> MaxConcurrency]
    /\ entries = [b \in Builds |-> {}]
    /\ failures = [b \in Builds |-> 0]

Tick ==
    /\ clock < MaxTime
    /\ clock' = clock + 1
    /\ UNCHANGED <<build, task, free, entries, failures>>

(***************************************************************************)
(* build_service_index.                                                    *)
(***************************************************************************)

\* `started` is read, and the list of APIs is awaited.  The manager's lock keeps
\* another build of the service out.
Start(b) ==
    /\ build[b].st = "idle"
    /\ \A c \in Builds : build[c].st \notin InFlight
    /\ clock + Budget <= MaxTime
    /\ build' = [build EXCEPT ![b].st = "listing", ![b].deadline = clock + Budget]
    /\ UNCHANGED <<clock, task, free, entries, failures>>

\* The list could not be read: an error result, or an exception of list_all.
ListingFails(b) ==
    /\ build[b].st = "listing"
    /\ build' = [build EXCEPT ![b].st = "error"]
    /\ UNCHANGED <<clock, task, free, entries, failures>>

\* One task per current revision.  What is left of the budget bounds the wait,
\* which does not happen at all when there is nothing to index.
Listed(b, current) ==
    /\ build[b].st = "listing"
    /\ build' = [build EXCEPT
          ![b].st = IF current = {} THEN "returned" ELSE "indexing",
          ![b].deadline = IF clock > @ THEN clock ELSE @]
    /\ task' = [task EXCEPT ![b] =
          [a \in Apis |-> IF a \in current THEN "queued" ELSE "none"]]
    /\ UNCHANGED <<clock, free, entries, failures>>

\* asyncio.wait finds every task ended.
AllEnded(b) ==
    /\ build[b].st = "indexing"
    /\ In(b, Live) = {}
    /\ build' = [build EXCEPT ![b].st = "returned"]
    /\ UNCHANGED <<clock, task, free, entries, failures>>

\* Fault: the pending tasks are not cancelled before they are gathered.
TimeOutWithoutCancel(b) ==
    /\ build[b].st = "indexing"
    /\ clock >= build[b].deadline
    /\ In(b, Live) # {}
    /\ build' = [build EXCEPT ![b].st = "cancelling", ![b].partial = TRUE]
    /\ UNCHANGED <<clock, task, free, entries, failures>>

\* Fault: the result is only called partial when it is empty.
TimeOutFlagsEmptyOnly(b) ==
    /\ build[b].st = "indexing"
    /\ clock >= build[b].deadline
    /\ In(b, Live) # {}
    /\ build' = [build EXCEPT ![b].st = "cancelling", ![b].partial = entries[b] = {}]
    /\ task' = [task EXCEPT ![b] = [a \in Apis |->
          CASE task[b][a] \in Inside  -> "leaving"
            [] task[b][a] = "queued"  -> "cancelled"
            [] OTHER                  -> task[b][a]]]
    /\ UNCHANGED <<clock, free, entries, failures>>

\* The deadline passed with tasks pending: every one of them is cancelled.
TimeOut(b) ==
    /\ build[b].st = "indexing"
    /\ clock >= build[b].deadline
    /\ In(b, Live) # {}
    /\ build' = [build EXCEPT ![b].st = "cancelling", ![b].partial = TRUE]
    /\ task' = [task EXCEPT ![b] = [a \in Apis |->
          CASE task[b][a] \in Inside  -> "leaving"
            [] task[b][a] = "queued"  -> "cancelled"
            [] OTHER                  -> task[b][a]]]
    /\ UNCHANGED <<clock, free, entries, failures>>

\* Fault: the cancelled tasks are not gathered.
GatheredAtOnce(b) ==
    /\ build[b].st = "cancelling"
    /\ build' = [build EXCEPT ![b].st = "returned"]
    /\ UNCHANGED <<clock, task, free, entries, failures>>

\* The cancelled tasks are gone: the partial result is returned.
Gathered(b) ==
    /\ build[b].st = "cancelling"
    /\ In(b, Live) = {}
    /\ build' = [build EXCEPT ![b].st = "returned"]
    /\ UNCHANGED <<clock, task, free, entries, failures>>

\* The caller is cancelled.  asyncio.wait does not pass that on to the tasks, and
\* asyncio.gather only raises once the tasks it cancelled are gone.
Abandon(b) ==
    /\ \/ build[b].st \in {"listing", "indexing"}
       \/ build[b].st = "cancelling" /\ In(b, Live) = {}
    /\ build' = [build EXCEPT ![b].st = "abandoned"]
    /\ UNCHANGED <<clock, task, free, entries, failures>>

(***************************************************************************)
(* _index_one_api.                                                         *)
(***************************************************************************)

\* A permit is free (asyncio.Semaphore): list the API's operations.
Enter(b, a) ==
    /\ task[b][a] = "queued"
    /\ free[b] > 0
    /\ free' = [free EXCEPT ![b] = @ - 1]
    /\ Move(b, a, "operations")
    /\ UNCHANGED <<clock, build, entries, failures>>

OperationsListed(b, a) ==
    /\ task[b][a] = "operations"
    /\ Move(b, a, "spec")
    /\ UNCHANGED <<clock, build, free, entries, failures>>

\* Fault: the early return leaves the semaphore taken.
OperationsFailKeepsPermit(b, a) ==
    /\ task[b][a] = "operations"
    /\ Move(b, a, "dropped")
    /\ failures' = [failures EXCEPT ![b] = @ + 1]
    /\ UNCHANGED <<clock, build, free, entries>>

\* Fault: the early return does not count the API.
OperationsFailUncounted(b, a) ==
    /\ task[b][a] = "operations"
    /\ Move(b, a, "dropped")
    /\ Release(b)
    /\ UNCHANGED <<clock, build, entries, failures>>

\* The list of operations is an error: the API is counted and left out.
OperationsFail(b, a) ==
    /\ task[b][a] = "operations"
    /\ Move(b, a, "dropped")
    /\ Release(b)
    /\ failures' = [failures EXCEPT ![b] = @ + 1]
    /\ UNCHANGED <<clock, build, entries>>

\* The document is exported, or cannot be: the API's operations are entered with
\* its property names or, counted, without them.
Exported(b, a, ok) ==
    /\ task[b][a] = "spec"
    /\ Move(b, a, IF ok THEN "indexed" ELSE "degraded")
    /\ Release(b)
    /\ entries' = [entries EXCEPT ![b] = @ \cup {a}]
    /\ failures' = IF ok THEN failures ELSE [failures EXCEPT ![b] = @ + 1]
    /\ UNCHANGED <<clock, build>>

\* Something raises: a body that is not JSON, a credential, or, when some entries
\* may be in the list already and the export's failure counted, a malformed
\* document or operation.  asyncio.wait does not look at a task's exception.
Raise(b, a) ==
    /\ task[b][a] \in {"operations", "spec"}
    /\ Move(b, a, "raised")
    /\ Release(b)
    /\ \/ UNCHANGED <<entries, failures>>
       \/ /\ task[b][a] = "spec"
          /\ entries' = [entries EXCEPT ![b] = @ \cup {a}]
          /\ \E n \in {0, 1} : failures' = [failures EXCEPT ![b] = @ + n]
    /\ UNCHANGED <<clock, build>>

\* Fault: the permit is given back by hand, and again by `async with`.
LeaveTwice(b, a) ==
    /\ task[b][a] = "leaving"
    /\ Move(b, a, "cancelled")
    /\ free' = [free EXCEPT ![b] = @ + 2]
    /\ UNCHANGED <<clock, build, entries, failures>>

\* CancelledError is thrown at the task's await, and leaves `async with`.
Leave(b, a) ==
    /\ task[b][a] = "leaving"
    /\ Move(b, a, "cancelled")
    /\ Release(b)
    /\ UNCHANGED <<clock, build, entries, failures>>

BuildStep(b) ==
    \/ Start(b)
    \/ ListingFails(b)
    \/ \E current \in SUBSET Apis : Listed(b, current)
    \/ AllEnded(b)
    \/ TimeOut(b)
    \/ Gathered(b)
    \/ Abandon(b)

TaskStep(b, a) ==
    \/ Enter(b, a)
    \/ OperationsListed(b, a)
    \/ OperationsFail(b, a)
    \/ \E ok \in BOOLEAN : Exported(b, a, ok)
    \/ Raise(b, a)
    \/ Leave(b, a)

Next ==
    \/ Tick
    \/ \E b \in Builds : BuildStep(b)
    \/ \E b \in Builds, a \in Apis : TaskStep(b, a)

Spec == Init /\ [][Next]_vars

\* Time passes, list_all returns (its pages, attempts and timeouts are bounded),
\* the loop runs a ready coroutine and delivers a cancellation.  No task is
\* assumed to get an answer from ARM.
Fairness ==
    /\ WF_vars(Tick)
    /\ \A b \in Builds :
         /\ WF_vars(\E current \in SUBSET Apis : Listed(b, current))
         /\ WF_vars(AllEnded(b)) /\ WF_vars(TimeOut(b)) /\ WF_vars(Gathered(b))
         /\ \A a \in Apis : WF_vars(Leave(b, a))

FairSpec == Spec /\ Fairness

-----------------------------------------------------------------------------
(***************************************************************************)
(* Properties.                                                             *)
(***************************************************************************)

\* No way out of _index_one_api, the early return, an exception or a cancellation
\* included, loses a permit or gives back two: within a build at most
\* MaxConcurrency APIs are being indexed, and a failing API cannot starve the rest.
PermitsConserved ==
    \A b \in Builds : free[b] + Cardinality(In(b, Inside)) = MaxConcurrency

\* When build_service_index returns, none of its tasks is still running: nothing
\* is added to the result after it was published, or counted against the next build.
NoTaskOutlivesResult ==
    \A b \in Builds : build[b].st = "returned" => In(b, Live) = {}

\* A returned result is flagged partial exactly when the deadline cut an API off:
\* not when the last task ends as the deadline passes, and not when APIs failed.
PartialIffCutOff ==
    \A b \in Builds : build[b].st = "returned" =>
        (build[b].partial <=> In(b, {"cancelled"}) # {})

\* The counters of a returned result account for every API that is degraded or
\* left out of it, except those cut off (the partial flag) and those whose task
\* raised, which show up nowhere.
ResultAccounts ==
    \A b \in Builds : build[b].st = "returned" =>
        /\ In(b, Counted \cup {"indexed"}) \ In(b, {"dropped"}) \subseteq entries[b]
        /\ failures[b] >= Cardinality(In(b, Counted))
        /\ failures[b] <= Cardinality(In(b, Counted \cup {"raised"}))

\* A build ends even when ARM never answers for some API: it is the deadline that
\* guarantees it.
BuildReturns ==
    \A b \in Builds : build[b].st \in InFlight ~> build[b].st \notin InFlight
=============================================================================
