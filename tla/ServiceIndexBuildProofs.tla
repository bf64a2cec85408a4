----------------------- MODULE ServiceIndexBuildProofs -----------------------
(***************************************************************************)
(* The safety of an index build for any number of APIs and builds, any     *)
(* concurrency limit and any budget.                                       *)
(*                                                                         *)
(* The four properties speak of a build that has returned, or count the    *)
(* permits of all; BuildInv says why they will hold when it does.  Every   *)
(* task's move adds it to, or takes it from, the sets the properties       *)
(* count: that is lemma Moved, and the rest of the proof is which move     *)
(* changes which count.                                                    *)
(***************************************************************************)
EXTENDS ServiceIndexBuild, FiniteSetTheorems, TLAPS

\* Tasks exist only once the APIs are listed.
TasksFollowListing ==
    \A b \in Builds : build[b].st \in {"idle", "listing"} =>
        \A a \in Apis : task[b][a] = "none"

Cut == {"leaving", "cancelled"}
CountedOrRaised == Counted \cup {"raised"}

\* The flag is set exactly when the deadline cut a task off, gone already or not.
PartialWhenCut ==
    \A b \in Builds : build[b].partial <=> In(b, Cut) # {}

\* The running totals of a build.
Totals ==
    \A b \in Builds :
        /\ \A a \in Apis : task[b][a] \in {"indexed", "degraded"} => a \in entries[b]
        /\ failures[b] >= Cardinality(In(b, Counted))
        /\ failures[b] <= Cardinality(In(b, CountedOrRaised))

BuildInv ==
    /\ TypeOK
    /\ PermitsConserved
    /\ TasksFollowListing
    /\ PartialWhenCut
    /\ NoTaskOutlivesResult
    /\ Totals

-----------------------------------------------------------------------------
\* The tasks in given states are finitely many.
LEMMA InFinite ==
  ASSUME NEW b \in Builds, NEW X
  PROVE  IsFiniteSet(In(b, X)) /\ Cardinality(In(b, X)) \in Nat
<1>1. In(b, X) \in SUBSET Apis
  BY DEF In
<1>2. IsFiniteSet(In(b, X))
  BY <1>1, FS_Subset, BuildAssumption
<1>3. QED
  BY <1>2, FS_CardinalityType

\* A task that moves enters or leaves a set of states; nothing else does.
LEMMA Moved ==
  ASSUME TypeOK, NEW b \in Builds, NEW a \in Apis, NEW s, NEW X, Move(b, a, s)
  PROVE  /\ \A c \in Builds : c # b => In(c, X)' = In(c, X)
         /\ s \in X => In(b, X)' = In(b, X) \cup {a}
         /\ s \notin X => In(b, X)' = In(b, X) \ {a}
BY DEF Move, In, TypeOK

\* The same with the sets' sizes.
LEMMA MovedCount ==
  ASSUME TypeOK, NEW b \in Builds, NEW a \in Apis, NEW s, NEW X, Move(b, a, s)
  PROVE  /\ \A c \in Builds : c # b => Cardinality(In(c, X))' = Cardinality(In(c, X))
         /\ s \in X /\ task[b][a] \notin X =>
               Cardinality(In(b, X))' = Cardinality(In(b, X)) + 1
         /\ s \notin X /\ task[b][a] \in X =>
               Cardinality(In(b, X))' = Cardinality(In(b, X)) - 1
         /\ (s \in X <=> task[b][a] \in X) =>
               Cardinality(In(b, X))' = Cardinality(In(b, X))
<1>1. /\ \A c \in Builds : c # b => In(c, X)' = In(c, X)
      /\ s \in X => In(b, X)' = In(b, X) \cup {a}
      /\ s \notin X => In(b, X)' = In(b, X) \ {a}
  BY Moved
<1>2. IsFiniteSet(In(b, X)) /\ Cardinality(In(b, X)) \in Nat
  BY InFinite
<1>3. a \in In(b, X) <=> task[b][a] \in X
  BY DEF In
<1>4. /\ Cardinality(In(b, X) \cup {a}) =
            IF a \in In(b, X) THEN Cardinality(In(b, X)) ELSE Cardinality(In(b, X)) + 1
      /\ Cardinality(In(b, X) \ {a}) =
            IF a \in In(b, X) THEN Cardinality(In(b, X)) - 1 ELSE Cardinality(In(b, X))
  BY <1>2, FS_AddElement, FS_RemoveElement
<1>5. QED
  BY <1>1, <1>3, <1>4

\* A task that goes out gives its permit back, and there was room for it.
LEMMA PermitReturned ==
  ASSUME TypeOK, PermitsConserved, NEW b \in Builds, NEW a \in Apis, NEW s,
         task[b][a] \in Inside, s \notin Inside, Move(b, a, s), Release(b)
  PROVE  PermitsConserved' /\ free' \in [Builds -> 0 .. MaxConcurrency]
<1> DEFINE n(c) == Cardinality(In(c, Inside))
<1>1. /\ \A c \in Builds : c # b => n(c)' = n(c)
      /\ n(b)' = n(b) - 1
  BY MovedCount
<1>2. \A c \in Builds : n(c) \in Nat /\ free[c] + n(c) = MaxConcurrency
  BY InFinite DEF PermitsConserved
<1>3. n(b) >= 1
  <2>1. a \in In(b, Inside)
    BY DEF In
  <2>2. n(b) # 0
    BY <2>1, InFinite, FS_EmptySet
  <2>3. QED
    BY <2>2, <1>2
<1>4. /\ \A c \in Builds : c # b => free'[c] = free[c]
      /\ free'[b] = free[b] + 1
      /\ DOMAIN free' = Builds
      /\ \A c \in Builds : free[c] \in 0 .. MaxConcurrency
      /\ free' = [c \in Builds |-> free'[c]]
  BY DEF Release, TypeOK
<1>5. \A c \in Builds : free'[c] + n(c)' = MaxConcurrency
  BY <1>1, <1>2, <1>4, BuildAssumption
<1>6. \A c \in Builds : free'[c] \in 0 .. MaxConcurrency
  BY <1>1, <1>2, <1>3, <1>4, BuildAssumption
<1>7. QED
  BY <1>4, <1>5, <1>6 DEF PermitsConserved

\* No task ends, or is cut off, in a move that changes none of the totals' sets.
LEMMA FlagKept ==
  ASSUME TypeOK, PartialWhenCut, NEW b \in Builds, NEW a \in Apis, NEW s,
         Move(b, a, s), build' = build,
         s \in Cut <=> task[b][a] \in Cut
  PROVE  PartialWhenCut'
<1>1. \A c \in Builds : In(c, Cut)' = In(c, Cut)
  <2>1. a \in In(b, Cut) <=> s \in Cut
    BY DEF In
  <2>2. /\ \A c \in Builds : c # b => In(c, Cut)' = In(c, Cut)
        /\ s \in Cut => In(b, Cut)' = In(b, Cut) \cup {a}
        /\ s \notin Cut => In(b, Cut)' = In(b, Cut) \ {a}
    BY Moved
  <2>3. In(b, Cut)' = In(b, Cut)
    BY <2>1, <2>2
  <2>4. QED
    BY <2>2, <2>3
<1>2. QED
  BY <1>1 DEF PartialWhenCut

\* A live task belongs to a build that has listed its APIs and not returned.
LEMMA LiveTask ==
  ASSUME BuildInv, NEW b \in Builds, NEW a \in Apis, NEW s,
         task[b][a] \in Live, Move(b, a, s), build' = build
  PROVE  TasksFollowListing' /\ NoTaskOutlivesResult'
<1>1. build[b].st \notin {"idle", "listing", "returned"}
  BY DEF BuildInv, TasksFollowListing, NoTaskOutlivesResult, In, Live, Inside
<1>2. \A c \in Builds, x \in Apis : c # b => task'[c][x] = task[c][x]
  BY DEF Move, BuildInv, TypeOK
<1>3. TasksFollowListing'
  BY <1>1, <1>2 DEF BuildInv, TasksFollowListing
<1>4. NoTaskOutlivesResult'
  BY <1>1, <1>2 DEF BuildInv, NoTaskOutlivesResult, In
<1>5. QED
  BY <1>3, <1>4

-----------------------------------------------------------------------------
\* The initial state satisfies the invariant.
LEMMA InitInv == Init => BuildInv
<1> SUFFICES ASSUME Init PROVE BuildInv
  OBVIOUS
<1> USE BuildAssumption DEF Init
<1>1. TypeOK
  BY DEF TypeOK, InFlight, Live, Counted, Inside
<1>2. \A b \in Builds : /\ In(b, Inside) = {} /\ In(b, Live) = {} /\ In(b, Cut) = {}
                         /\ In(b, Counted) = {} /\ In(b, CountedOrRaised) = {}
  BY DEF In, Inside, Live, Cut, Counted, CountedOrRaised
<1>3. Cardinality({}) = 0
  BY FS_EmptySet
<1>4. PermitsConserved
  <2>1. ASSUME NEW b \in Builds
        PROVE  free[b] = MaxConcurrency /\ Cardinality(In(b, Inside)) = 0
    BY <1>2, <1>3
  <2>2. QED
    BY <2>1 DEF PermitsConserved
<1>5. TasksFollowListing /\ PartialWhenCut /\ NoTaskOutlivesResult
  BY <1>2 DEF TasksFollowListing, PartialWhenCut, NoTaskOutlivesResult
<1>6. Totals
  BY <1>2, <1>3 DEF Totals
<1>7. QED
  BY <1>1, <1>4, <1>5, <1>6 DEF BuildInv

\* Steps of a build that move no task and leave its flag: only the type, and the
\* two facts that relate tasks to the build's state, can change.
LEMMA BuildMoves ==
  ASSUME BuildInv, NEW b \in Builds, NEW st,
         st \in InFlight \cup {"error", "returned", "abandoned"},
         build' = [build EXCEPT ![b].st = st],
         st \in {"idle", "listing"} => build[b].st \in {"idle", "listing"},
         st = "returned" => In(b, Live) = {},
         UNCHANGED <<clock, task, free, entries, failures>>
  PROVE  BuildInv'
<1> USE DEF BuildInv
<1>1. /\ \A c \in Builds : build'[c].partial = build[c].partial
      /\ \A c \in Builds : c # b => build'[c].st = build[c].st
      /\ build'[b].st = st
  BY DEF TypeOK
<1>2. TypeOK'
  BY DEF TypeOK
<1>3. \A c \in Builds : \A X : In(c, X)' = In(c, X)
  BY DEF In
<1>4. PermitsConserved' /\ Totals'
  BY <1>3 DEF PermitsConserved, Totals
<1>5. TasksFollowListing'
  BY <1>1 DEF TasksFollowListing
<1>6. PartialWhenCut'
  BY <1>1, <1>3 DEF PartialWhenCut
<1>7. NoTaskOutlivesResult'
  BY <1>1, <1>3 DEF NoTaskOutlivesResult
<1>8. QED
  BY <1>2, <1>4, <1>5, <1>6, <1>7

\* Creating the tasks puts none of them inside the semaphore.
LEMMA ListedInv ==
  ASSUME BuildInv, NEW b \in Builds, NEW current \in SUBSET Apis, Listed(b, current)
  PROVE  BuildInv'
<1>1. TypeOK'
  <2>1. clock' \in 0 .. MaxTime /\ free' = free /\ entries' = entries /\ failures' = failures
    BY DEF BuildInv, TypeOK, Listed
  <2>2. task' \in [Builds -> [Apis -> Live \cup Counted
                                 \cup {"none", "indexed", "raised", "cancelled"}]]
    BY DEF BuildInv, TypeOK, Listed, Live
  <2>3. build' \in [Builds -> [st : InFlight \cup {"idle", "error", "returned", "abandoned"},
                               deadline : 0 .. MaxTime, partial : BOOLEAN]]
    <3> DEFINE d  == IF clock > build[b].deadline THEN clock ELSE build[b].deadline
               st == IF current = {} THEN "returned" ELSE "indexing"
    <3>1. d \in 0 .. MaxTime
      BY BuildAssumption DEF BuildInv, TypeOK
    <3>2. build' = [build EXCEPT ![b] = [build[b] EXCEPT !.st = st, !.deadline = d]]
      BY DEF BuildInv, TypeOK, Listed
    <3>3. [build[b] EXCEPT !.st = st, !.deadline = d] \in
            [st : InFlight \cup {"idle", "error", "returned", "abandoned"},
             deadline : 0 .. MaxTime, partial : BOOLEAN]
      BY <3>1 DEF BuildInv, TypeOK, InFlight
    <3>4. QED
      BY <3>2, <3>3 DEF BuildInv, TypeOK
  <2>4. QED
    BY <2>1, <2>2, <2>3 DEF BuildInv, TypeOK
<1>2. /\ \A c \in Builds : build'[c].partial = build[c].partial
      /\ \A c \in Builds : c # b => build'[c].st = build[c].st
      /\ build'[b].st = IF current = {} THEN "returned" ELSE "indexing"
  BY DEF BuildInv, TypeOK, Listed
<1>3. /\ \A c \in Builds : c # b => task'[c] = task[c]
      /\ \A a \in Apis : task'[b][a] = IF a \in current THEN "queued" ELSE "none"
      /\ \A a \in Apis : task[b][a] = "none"
  BY DEF BuildInv, TypeOK, Listed, TasksFollowListing
<1>4. \A c \in Builds : /\ In(c, Inside)' = In(c, Inside)
                         /\ In(c, Cut)' = In(c, Cut)
                         /\ In(c, Counted)' = In(c, Counted)
                         /\ In(c, CountedOrRaised)' = In(c, CountedOrRaised)
  BY <1>3 DEF In, Inside, Cut, Counted, CountedOrRaised
<1>5. PermitsConserved'
  BY <1>4 DEF BuildInv, PermitsConserved, Listed
<1>6. TasksFollowListing'
  BY <1>2, <1>3 DEF BuildInv, TasksFollowListing
<1>7. PartialWhenCut'
  BY <1>2, <1>4 DEF BuildInv, PartialWhenCut
<1>8. NoTaskOutlivesResult'
  <2>1. \A c \in Builds : c # b => In(c, Live)' = In(c, Live)
    BY <1>3 DEF In
  <2>2. build'[b].st = "returned" => In(b, Live)' = {}
    BY <1>2, <1>3 DEF In, Live, Inside
  <2>3. QED
    BY <1>2, <2>1, <2>2 DEF BuildInv, NoTaskOutlivesResult
<1>9. Totals'
  BY <1>3, <1>4 DEF BuildInv, Totals, Listed
<1>10. QED
  BY <1>1, <1>5, <1>6, <1>7, <1>8, <1>9 DEF BuildInv

\* The deadline cuts off every task that has not ended: at least one.
LEMMA TimeOutInv ==
  ASSUME BuildInv, NEW b \in Builds, TimeOut(b)
  PROVE  BuildInv'
<1>1. TypeOK'
  BY DEF BuildInv, TypeOK, TimeOut, Live, Inside, InFlight
<1>2. /\ \A c \in Builds : c # b => build'[c] = build[c]
      /\ build'[b].st = "cancelling" /\ build'[b].partial
  BY DEF BuildInv, TypeOK, TimeOut
<1>3. /\ \A c \in Builds : c # b => task'[c] = task[c]
      /\ \A a \in Apis : task'[b][a] = CASE task[b][a] \in Inside -> "leaving"
                                         [] task[b][a] = "queued" -> "cancelled"
                                         [] OTHER -> task[b][a]
  BY DEF BuildInv, TypeOK, TimeOut
<1>4. \A c \in Builds : /\ In(c, Inside)' = In(c, Inside)
                         /\ In(c, Counted)' = In(c, Counted)
                         /\ In(c, CountedOrRaised)' = In(c, CountedOrRaised)
  BY <1>3 DEF In, Inside, Counted, CountedOrRaised
<1>5. /\ \A c \in Builds : c # b => In(c, Cut)' = In(c, Cut)
      /\ In(b, Cut)' # {}
  BY <1>3 DEF TimeOut, In, Cut, Live, Inside
<1>6. PermitsConserved'
  BY <1>4 DEF BuildInv, PermitsConserved, TimeOut
<1>7. TasksFollowListing'
  BY <1>2, <1>3 DEF BuildInv, TasksFollowListing
<1>8. PartialWhenCut'
  BY <1>2, <1>5 DEF BuildInv, PartialWhenCut
<1>9. NoTaskOutlivesResult'
  BY <1>2, <1>3 DEF BuildInv, NoTaskOutlivesResult, In
<1>10. Totals'
  BY <1>3, <1>4 DEF BuildInv, Totals, TimeOut, Inside
<1>11. QED
  BY <1>1, <1>6, <1>7, <1>8, <1>9, <1>10 DEF BuildInv

\* The steps of build_service_index.
LEMMA BuildStepInv ==
  ASSUME BuildInv, NEW b \in Builds, BuildStep(b)
  PROVE  BuildInv'
<1> USE DEF InFlight
<1>1. CASE Start(b)
  <2> USE <1>1 DEF Start, BuildInv
  <2>1. /\ \A c \in Builds : build'[c].partial = build[c].partial
        /\ \A c \in Builds : c # b => build'[c].st = build[c].st
        /\ build'[b].st = "listing"
    BY DEF TypeOK
  <2>2. TypeOK'
    <3>1. clock + Budget \in 0 .. MaxTime
      BY BuildAssumption DEF TypeOK
    <3>2. QED
      BY <3>1 DEF TypeOK
  <2>3. PermitsConserved' /\ Totals'
    BY DEF PermitsConserved, Totals, In
  <2>4. TasksFollowListing' /\ PartialWhenCut' /\ NoTaskOutlivesResult'
    BY <2>1 DEF TasksFollowListing, PartialWhenCut, NoTaskOutlivesResult, In
  <2>5. QED
    BY <2>2, <2>3, <2>4
<1>2. CASE ListingFails(b)
  <2>1. build' = [build EXCEPT ![b].st = "error"] /\ UNCHANGED <<clock, task, free, entries, failures>>
    BY <1>2 DEF ListingFails
  <2>2. /\ "error" \in InFlight \cup {"error", "returned", "abandoned"}
        /\ "error" \in {"idle", "listing"} => build[b].st \in {"idle", "listing"}
        /\ "error" = "returned" => In(b, Live) = {}
    OBVIOUS
  <2>3. QED
    BY <2>1, <2>2, BuildMoves
<1>3. CASE \E current \in SUBSET Apis : Listed(b, current)
  BY <1>3, ListedInv
<1>4. CASE AllEnded(b)
  BY <1>4, BuildMoves DEF AllEnded
<1>5. CASE TimeOut(b)
  BY <1>5, TimeOutInv
<1>6. CASE Gathered(b)
  BY <1>6, BuildMoves DEF Gathered
<1>7. CASE Abandon(b)
  BY <1>7, BuildMoves DEF Abandon
<1>8. QED
  BY <1>1, <1>2, <1>3, <1>4, <1>5, <1>6, <1>7 DEF BuildStep

-----------------------------------------------------------------------------
\* What a task's own steps have in common: the build stands still, and the type
\* and the four counts decide the rest.
LEMMA TaskMoves ==
  ASSUME BuildInv, NEW b \in Builds, NEW a \in Apis, NEW s,
         s \in Live \cup Counted \cup {"none", "indexed", "raised", "cancelled"},
         task[b][a] \in Live, Move(b, a, s), UNCHANGED <<clock, build>>,
         s \in Cut <=> task[b][a] \in Cut,
         free' \in [Builds -> 0 .. MaxConcurrency], PermitsConserved',
         entries' \in [Builds -> SUBSET Apis],
         failures' \in [Builds -> Nat],
         Totals'
  PROVE  BuildInv'
<1>1. TypeOK'
  <2>1. task' \in [Builds -> [Apis -> Live \cup Counted
                                 \cup {"none", "indexed", "raised", "cancelled"}]]
    BY DEF BuildInv, TypeOK, Move
  <2>2. QED
    BY <2>1 DEF BuildInv, TypeOK
<1>2. TasksFollowListing' /\ NoTaskOutlivesResult'
  BY LiveTask
<1>3. PartialWhenCut'
  BY FlagKept DEF BuildInv
<1>4. QED
  BY <1>1, <1>2, <1>3 DEF BuildInv

\* The totals follow a task that ends, if it adds its entries when it is indexed
\* and one failure when it is counted.
LEMMA TotalsFollow ==
  ASSUME BuildInv, NEW b \in Builds, NEW a \in Apis, NEW s, NEW n \in {0, 1},
         task[b][a] \in Live, Move(b, a, s),
         \A c \in Builds : entries[c] \subseteq entries'[c],
         s \in {"indexed", "degraded"} => a \in entries'[b],
         failures' = [failures EXCEPT ![b] = @ + n],
         s \in Counted => n = 1,
         n = 1 => s \in CountedOrRaised
  PROVE  Totals'
<1> DEFINE lo(c) == Cardinality(In(c, Counted))
           hi(c) == Cardinality(In(c, CountedOrRaised))
<1>1. /\ task[b][a] \notin Counted
      /\ task[b][a] \notin CountedOrRaised
  BY DEF Live, Inside, Counted, CountedOrRaised
<1>2. /\ \A c \in Builds : c # b => lo(c)' = lo(c)
      /\ s \in Counted => lo(b)' = lo(b) + 1
      /\ s \notin Counted => lo(b)' = lo(b)
  BY <1>1, MovedCount DEF BuildInv
<1>3. /\ \A c \in Builds : c # b => hi(c)' = hi(c)
      /\ s \in CountedOrRaised => hi(b)' = hi(b) + 1
      /\ s \notin CountedOrRaised => hi(b)' = hi(b)
  BY <1>1, MovedCount DEF BuildInv
<1>4. s \in Counted => s \in CountedOrRaised
  BY DEF CountedOrRaised
<1>5. \A c \in Builds : /\ lo(c) \in Nat /\ hi(c) \in Nat /\ failures[c] \in Nat
                         /\ lo(c) <= failures[c] /\ failures[c] <= hi(c)
  BY InFinite DEF BuildInv, Totals, TypeOK
<1>6. /\ \A c \in Builds : c # b => failures'[c] = failures[c]
      /\ failures'[b] = failures[b] + n
  BY DEF BuildInv, TypeOK
<1>7. \A c \in Builds : lo(c)' <= failures'[c] /\ failures'[c] <= hi(c)'
  BY <1>2, <1>3, <1>4, <1>5, <1>6
<1>8. \A c \in Builds, x \in Apis :
        task'[c][x] \in {"indexed", "degraded"} => x \in entries'[c]
  BY DEF BuildInv, Totals, TypeOK, Move
<1>9. QED
  BY <1>7, <1>8 DEF Totals

\* The steps of _index_one_api.
LEMMA TaskStepInv ==
  ASSUME BuildInv, NEW b \in Builds, NEW a \in Apis, TaskStep(b, a)
  PROVE  BuildInv'
<1> USE DEF Live, Inside, Cut, Counted, CountedOrRaised
<1>0. /\ failures \in [Builds -> Nat]
      /\ entries \in [Builds -> SUBSET Apis]
      /\ free \in [Builds -> 0 .. MaxConcurrency]
      /\ [failures EXCEPT ![b] = @ + 1] \in [Builds -> Nat]
      /\ [failures EXCEPT ![b] = @ + 0] = failures
      /\ [entries EXCEPT ![b] = @ \cup {a}] \in [Builds -> SUBSET Apis]
      /\ \A c \in Builds : entries[c] \subseteq [entries EXCEPT ![b] = @ \cup {a}][c]
      /\ a \in [entries EXCEPT ![b] = @ \cup {a}][b]
      /\ TypeOK /\ PermitsConserved
  BY DEF BuildInv, TypeOK
<1>1. CASE Enter(b, a)
  <2> USE <1>1 DEF Enter
  <2>1. /\ \A c \in Builds : c # b => Cardinality(In(c, Inside))' = Cardinality(In(c, Inside))
        /\ Cardinality(In(b, Inside))' = Cardinality(In(b, Inside)) + 1
    BY <1>0, MovedCount
  <2>2. \A c \in Builds : Cardinality(In(c, Inside)) \in Nat
    BY InFinite
  <2>3. /\ \A c \in Builds : c # b => free'[c] = free[c]
        /\ free'[b] = free[b] - 1
        /\ free' \in [Builds -> 0 .. MaxConcurrency]
    BY <1>0, BuildAssumption
  <2>4. PermitsConserved'
    BY <1>0, <2>1, <2>2, <2>3, BuildAssumption DEF PermitsConserved
  <2>5. Totals'
    BY <1>0, TotalsFollow
  <2>6. QED
    BY <1>0, <2>3, <2>4, <2>5, TaskMoves
<1>2. CASE OperationsListed(b, a)
  <2> USE <1>2 DEF OperationsListed
  <2>1. /\ \A c \in Builds : c # b => Cardinality(In(c, Inside))' = Cardinality(In(c, Inside))
        /\ Cardinality(In(b, Inside))' = Cardinality(In(b, Inside))
    <3>1. "spec" \in Inside /\ task[b][a] \in Inside /\ Move(b, a, "spec") /\ TypeOK
      BY <1>0
    <3> HIDE <1>2 DEF Inside, OperationsListed
    <3>2. QED
      BY <3>1, MovedCount
  <2>2. PermitsConserved'
    BY <1>0, <2>1 DEF PermitsConserved
  <2>3. Totals'
    BY <1>0, TotalsFollow
  <2>4. QED
    BY <1>0, <2>2, <2>3, TaskMoves
<1>3. CASE OperationsFail(b, a)
  <2> USE <1>3 DEF OperationsFail
  <2>1. PermitsConserved' /\ free' \in [Builds -> 0 .. MaxConcurrency]
    BY <1>0, PermitReturned
  <2>2. Totals'
    BY <1>0, TotalsFollow
  <2>3. QED
    BY <1>0, <2>1, <2>2, TaskMoves
<1>4. CASE \E ok \in BOOLEAN : Exported(b, a, ok)
  <2>1. PICK ok \in BOOLEAN : Exported(b, a, ok)
    BY <1>4
  <2> DEFINE s == IF ok THEN "indexed" ELSE "degraded"
             n == IF ok THEN 0 ELSE 1
  <2>a. /\ task[b][a] = "spec" /\ Move(b, a, s) /\ Release(b)
        /\ entries' = [entries EXCEPT ![b] = @ \cup {a}]
        /\ UNCHANGED <<clock, build>>
    BY <2>1 DEF Exported
  <2>b. failures' = [failures EXCEPT ![b] = @ + n]
    <3>1. CASE ok
      BY <1>0, <2>1, <3>1 DEF Exported
    <3>2. CASE ~ok
      BY <1>0, <2>1, <3>2 DEF Exported
    <3>3. QED
      BY <3>1, <3>2
  <2>2. /\ s \in {"indexed", "degraded"} /\ n \in {0, 1}
        /\ s \in Counted => n = 1
        /\ n = 1 => s \in CountedOrRaised
    OBVIOUS
  <2>3. PermitsConserved' /\ free' \in [Builds -> 0 .. MaxConcurrency]
    BY <1>0, <2>a, <2>2, PermitReturned
  <2>4. Totals'
    BY <1>0, <2>a, <2>b, <2>2, TotalsFollow
  <2>5. failures' \in [Builds -> Nat] /\ entries' \in [Builds -> SUBSET Apis]
    BY <1>0, <2>a, <2>b, <2>2
  <2>6. QED
    BY <2>a, <2>2, <2>3, <2>4, <2>5, TaskMoves
<1>5. CASE Raise(b, a)
  <2> USE <1>5 DEF Raise
  <2>1. PermitsConserved' /\ free' \in [Builds -> 0 .. MaxConcurrency]
    BY <1>0, PermitReturned
  <2>2. PICK n \in {0, 1} : failures' = [failures EXCEPT ![b] = @ + n]
    BY <1>0
  <2>3. /\ entries' \in [Builds -> SUBSET Apis]
        /\ \A c \in Builds : entries[c] \subseteq entries'[c]
        /\ failures' \in [Builds -> Nat]
    BY <1>0, <2>2
  <2>4. Totals'
    BY <2>2, <2>3, TotalsFollow
  <2>5. QED
    BY <2>1, <2>3, <2>4, TaskMoves
<1>6. CASE Leave(b, a)
  <2> USE <1>6 DEF Leave
  <2>1. PermitsConserved' /\ free' \in [Builds -> 0 .. MaxConcurrency]
    BY <1>0, PermitReturned
  <2>2. Totals'
    BY <1>0, TotalsFollow
  <2>3. QED
    BY <1>0, <2>1, <2>2, TaskMoves
<1>7. QED
  BY <1>1, <1>2, <1>3, <1>4, <1>5, <1>6 DEF TaskStep

-----------------------------------------------------------------------------
\* The invariant is inductive.
LEMMA NextInv == BuildInv /\ [Next]_vars => BuildInv'
<1> SUFFICES ASSUME BuildInv, [Next]_vars PROVE BuildInv'
  OBVIOUS
<1>1. CASE Tick
  <2>1. TypeOK'
    BY <1>1, BuildAssumption DEF BuildInv, TypeOK, Tick
  <2>2. QED
    BY <1>1, <2>1 DEF Tick, BuildInv, PermitsConserved, TasksFollowListing,
       PartialWhenCut, NoTaskOutlivesResult, Totals, In
<1>2. CASE \E b \in Builds : BuildStep(b)
  BY <1>2, BuildStepInv
<1>3. CASE \E b \in Builds, a \in Apis : TaskStep(b, a)
  BY <1>3, TaskStepInv
<1>4. CASE UNCHANGED vars
  <2>1. TypeOK'
    BY <1>4 DEF BuildInv, TypeOK, vars
  <2>2. QED
    BY <1>4, <2>1 DEF vars, BuildInv, PermitsConserved, TasksFollowListing,
       PartialWhenCut, NoTaskOutlivesResult, Totals, In
<1>5. QED
  BY <1>1, <1>2, <1>3, <1>4 DEF Next

\* BuildInv holds in every reachable state.
THEOREM BuildInvariant == Spec => []BuildInv
<1>1. QED
  BY InitInv, NextInv, PTL DEF Spec

\* Every variable stays within its type.
THEOREM BuildTypeCorrect == Spec => []TypeOK
<1>1. BuildInv => TypeOK
  BY DEF BuildInv
<1>2. QED
  BY <1>1, BuildInvariant, PTL

\* No way out of _index_one_api loses a permit or gives back two.
THEOREM PermitsAreConserved == Spec => []PermitsConserved
<1>1. BuildInv => PermitsConserved
  BY DEF BuildInv
<1>2. QED
  BY <1>1, BuildInvariant, PTL

\* When build_service_index returns, none of its tasks is still running.
THEOREM NoTaskIsLeftBehind == Spec => []NoTaskOutlivesResult
<1>1. BuildInv => NoTaskOutlivesResult
  BY DEF BuildInv
<1>2. QED
  BY <1>1, BuildInvariant, PTL

\* A returned result is flagged partial exactly when the deadline cut an API off.
THEOREM PartialMeansCutOff == Spec => []PartialIffCutOff
<1>1. BuildInv => PartialIffCutOff
  <2> SUFFICES ASSUME BuildInv, NEW b \in Builds, build[b].st = "returned"
               PROVE  build[b].partial <=> In(b, {"cancelled"}) # {}
    BY DEF PartialIffCutOff
  <2>1. In(b, Live) = {}
    BY DEF BuildInv, NoTaskOutlivesResult
  <2>2. In(b, Cut) = In(b, {"cancelled"})
    BY <2>1 DEF In, Live, Inside, Cut
  <2>3. QED
    BY <2>2 DEF BuildInv, PartialWhenCut
<1>2. QED
  BY <1>1, BuildInvariant, PTL

\* The counters of a returned result account for what is degraded or missing.
THEOREM ResultsAccount == Spec => []ResultAccounts
<1>1. BuildInv => ResultAccounts
  <2> SUFFICES ASSUME BuildInv, NEW b \in Builds
               PROVE  /\ In(b, Counted \cup {"indexed"}) \ In(b, {"dropped"}) \subseteq entries[b]
                      /\ failures[b] >= Cardinality(In(b, Counted))
                      /\ failures[b] <= Cardinality(In(b, Counted \cup {"raised"}))
    BY DEF ResultAccounts
  <2>1. In(b, Counted \cup {"indexed"}) \ In(b, {"dropped"}) \subseteq entries[b]
    BY DEF BuildInv, Totals, In, Counted
  <2>2. QED
    BY <2>1 DEF BuildInv, Totals, CountedOrRaised
<1>2. QED
  BY <1>1, BuildInvariant, PTL
=============================================================================
