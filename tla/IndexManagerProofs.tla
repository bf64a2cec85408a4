------------------------- MODULE IndexManagerProofs -------------------------
(***************************************************************************)
(* The safety of the index manager for any set of services, spellings,     *)
(* refresh calls and background rebuilds, and any TTL and rate limit.      *)
(*                                                                         *)
(* SingleFlight, OwnBuildCoversCall, OverlappingRefreshesSpaced and        *)
(* IndexNeverRegresses are not inductive by themselves.  IndexInv adds     *)
(* what they rest on: an index, and what a build has read, are never ahead *)
(* of ARM; a build that has read holds at least what is published and what *)
(* its refresh asked for; a refresh that does not wait owns no task.       *)
(***************************************************************************)
EXTENDS IndexManagerProperties, TLAPS

\* Nothing read or published is ahead of what was deployed.
NotAhead ==
    /\ \A k \in Keys : index[k].version <= upstream[Canon[k]]
    /\ \A c \in Callers, s \in Configured : call[c].asked[s] <= upstream[s]

\* What a build has read is at least as new as what it will replace, and as what
\* the call that started it asked for.
ReadIsNewest ==
    \A o \in Owners, k \in Keys : pc[o][k] = "indexing" =>
        /\ seen[o][k] >= index[k].version
        /\ seen[o][k] <= upstream[Canon[k]]
        /\ o \in Callers => seen[o][k] >= call[o].asked[Canon[k]]

\* Only a waiting refresh has tasks, and only for the keys it named.
CallOwnsTasks ==
    \A c \in Callers, k \in Keys :
        pc[c][k] # "idle" => call[c].st = "waiting" /\ k \in call[c].keys

\* The stamp of a key is no older than any waiting refresh of it, nor in the future.
StampsCoverCalls ==
    /\ \A k \in Keys : lastRefresh[k] <= clock
    /\ \A c \in Callers : call[c].st = "waiting" =>
          /\ call[c].at \in 0 .. clock
          /\ \A k \in call[c].keys : lastRefresh[k] >= call[c].at

IndexInv ==
    /\ TypeOK
    /\ SingleFlight
    /\ NotAhead
    /\ ReadIsNewest
    /\ OwnBuildCoversCall
    /\ CallOwnsTasks
    /\ StampsCoverCalls
    /\ OverlappingRefreshesSpaced

-----------------------------------------------------------------------------
\* RetryIn in ticks is never more than the remaining wait (int() rounds down).
LEMMA RoundedDown ==
  ASSUME NEW n \in Nat, NEW d \in Nat \ {0}
  PROVE  d * (n \div d) \in 0 .. n
  OBVIOUS

\* The initial state satisfies the invariant.
LEMMA InitInv == Init => IndexInv
<1> SUFFICES ASSUME Init PROVE IndexInv
  OBVIOUS
<1> USE ConstantsAssumption DEF Init, NoCall, NoIndex, Missing, Never, Owners
<1>1. TypeOK
  BY DEF TypeOK, Times, Version, Phase
<1>2. SingleFlight
  BY DEF SingleFlight, Building
<1>3. NotAhead
  BY DEF NotAhead
<1>4. ReadIsNewest
  BY DEF ReadIsNewest
<1>5. OwnBuildCoversCall
  BY DEF OwnBuildCoversCall
<1>6. CallOwnsTasks
  BY DEF CallOwnsTasks
<1>7. StampsCoverCalls
  BY DEF StampsCoverCalls
<1>8. OverlappingRefreshesSpaced
  BY DEF OverlappingRefreshesSpaced
<1>9. QED
  BY <1>1, <1>2, <1>3, <1>4, <1>5, <1>6, <1>7, <1>8 DEF IndexInv

\* Time only ages the stamps.
LEMMA TickInv ==
  ASSUME IndexInv, Tick
  PROVE  IndexInv'
<1> USE ConstantsAssumption DEF IndexInv, TypeOK, Owners, Building, Tick
<1>1. TypeOK'
  BY DEF Times, Version, Phase
<1>2. SingleFlight'
  BY DEF SingleFlight
<1>3. NotAhead'
  BY DEF NotAhead
<1>4. ReadIsNewest'
  BY DEF ReadIsNewest
<1>5. OwnBuildCoversCall'
  BY DEF OwnBuildCoversCall
<1>6. CallOwnsTasks'
  BY DEF CallOwnsTasks
<1>7. StampsCoverCalls'
  BY DEF StampsCoverCalls
<1>8. OverlappingRefreshesSpaced'
  BY DEF OverlappingRefreshesSpaced
<1>9. QED
  BY <1>1, <1>2, <1>3, <1>4, <1>5, <1>6, <1>7, <1>8

\* A deployment only moves ARM ahead.
LEMMA DeployInv ==
  ASSUME IndexInv, NEW s \in Configured, Deploy(s)
  PROVE  IndexInv'
<1> USE ConstantsAssumption DEF IndexInv, TypeOK, Owners, Building, Deploy
<1>1. TypeOK'
  BY DEF Times, Version, Phase
<1>2. SingleFlight'
  BY DEF SingleFlight
<1>3. NotAhead'
  BY DEF NotAhead, Version
<1>4. ReadIsNewest'
  BY DEF ReadIsNewest, Version
<1>5. OwnBuildCoversCall'
  BY DEF OwnBuildCoversCall
<1>6. CallOwnsTasks'
  BY DEF CallOwnsTasks
<1>7. StampsCoverCalls'
  BY DEF StampsCoverCalls
<1>8. OverlappingRefreshesSpaced'
  BY DEF OverlappingRefreshesSpaced
<1>9. QED
  BY <1>1, <1>2, <1>3, <1>4, <1>5, <1>6, <1>7, <1>8

\* A skipped build touches nothing but its own pc.
LEMMA BuildSkipInv ==
  ASSUME IndexInv, NEW o \in Owners, NEW k \in Keys, BuildSkip(o, k)
  PROVE  IndexInv'
<1> USE ConstantsAssumption DEF IndexInv, TypeOK, Owners, Building, BuildSkip, Ended
<1>1. TypeOK'
  BY DEF Times, Version, Phase
<1>2. SingleFlight'
  BY DEF SingleFlight
<1>3. NotAhead'
  BY DEF NotAhead
<1>4. ReadIsNewest'
  BY DEF ReadIsNewest
<1>5. OwnBuildCoversCall'
  BY DEF OwnBuildCoversCall
<1>6. CallOwnsTasks'
  BY DEF CallOwnsTasks
<1>7. StampsCoverCalls'
  BY DEF StampsCoverCalls
<1>8. OverlappingRefreshesSpaced'
  BY DEF OverlappingRefreshesSpaced
<1>9. QED
  BY <1>1, <1>2, <1>3, <1>4, <1>5, <1>6, <1>7, <1>8

\* The free lock goes to the one build that begins.
LEMMA BuildBeginInv ==
  ASSUME IndexInv, NEW o \in Owners, NEW k \in Keys, BuildBegin(o, k)
  PROVE  IndexInv'
<1> USE ConstantsAssumption DEF IndexInv, TypeOK, Owners, Building, BuildBegin
<1>1. TypeOK'
  BY DEF Times, Version, Phase
<1>2. SingleFlight'
  BY DEF SingleFlight
<1>3. NotAhead'
  BY DEF NotAhead
<1>4. ReadIsNewest'
  BY DEF ReadIsNewest
<1>5. OwnBuildCoversCall'
  BY DEF OwnBuildCoversCall
<1>6. CallOwnsTasks'
  BY DEF CallOwnsTasks
<1>7. StampsCoverCalls'
  BY DEF StampsCoverCalls
<1>8. OverlappingRefreshesSpaced'
  BY DEF OverlappingRefreshesSpaced
<1>9. QED
  BY <1>1, <1>2, <1>3, <1>4, <1>5, <1>6, <1>7, <1>8

\* What is read is the newest there is.
LEMMA BuildListInv ==
  ASSUME IndexInv, NEW o \in Owners, NEW k \in Keys, BuildList(o, k)
  PROVE  IndexInv'
<1> USE ConstantsAssumption DEF IndexInv, TypeOK, Owners, Building, BuildList
<1>1. TypeOK'
  BY DEF Times, Version, Phase
<1>2. SingleFlight'
  BY DEF SingleFlight
<1>3. NotAhead'
  BY DEF NotAhead
<1>4. ReadIsNewest'
  BY DEF ReadIsNewest, NotAhead
<1>5. OwnBuildCoversCall'
  BY DEF OwnBuildCoversCall
<1>6. CallOwnsTasks'
  BY DEF CallOwnsTasks
<1>7. StampsCoverCalls'
  BY DEF StampsCoverCalls
<1>8. OverlappingRefreshesSpaced'
  BY DEF OverlappingRefreshesSpaced
<1>9. QED
  BY <1>1, <1>2, <1>3, <1>4, <1>5, <1>6, <1>7, <1>8

\* The only build in flight of a key publishes what it read.
LEMMA BuildPublishInv ==
  ASSUME IndexInv, NEW o \in Owners, NEW k \in Keys, BuildPublish(o, k)
  PROVE  IndexInv'
<1> USE ConstantsAssumption DEF IndexInv, TypeOK, Owners, Building, BuildPublish, Ended
<1>1. TypeOK'
  BY DEF Times, Version, Phase, Missing
<1>2. SingleFlight'
  BY DEF SingleFlight
<1>3. NotAhead'
  BY DEF NotAhead, ReadIsNewest
<1>4. ReadIsNewest'
  BY DEF ReadIsNewest, SingleFlight
<1>5. OwnBuildCoversCall'
  <2> SUFFICES ASSUME NEW c \in Callers, NEW j \in Keys, pc'[c][j] = "built"
               PROVE  index'[j].version >= call'[c].asked[Canon[j]]
    BY DEF OwnBuildCoversCall
  <2>1. CASE c = o /\ j = k
    BY <2>1 DEF ReadIsNewest
  <2>2. CASE ~(c = o /\ j = k)
    <3>1. pc[c][j] = "built"
      BY <2>2
    <3>2. index[j].version >= call[c].asked[Canon[j]]
      BY <3>1 DEF OwnBuildCoversCall
    <3>3. index'[j].version >= index[j].version
      BY DEF ReadIsNewest, Version
    <3>4. call[c].asked[Canon[j]] \in Int /\ index[j].version \in Int
                                  /\ index'[j].version \in Int
      BY <1>1 DEF Version
    <3>5. QED
      BY <3>2, <3>3, <3>4
  <2>3. QED
    BY <2>1, <2>2
<1>6. CallOwnsTasks'
  BY DEF CallOwnsTasks
<1>7. StampsCoverCalls'
  BY DEF StampsCoverCalls
<1>8. OverlappingRefreshesSpaced'
  BY DEF OverlappingRefreshesSpaced
<1>9. QED
  BY <1>1, <1>2, <1>3, <1>4, <1>5, <1>6, <1>7, <1>8

\* A failed build gives the lock back and publishes nothing.
LEMMA BuildFailInv ==
  ASSUME IndexInv, NEW o \in Owners, NEW k \in Keys, BuildFail(o, k)
  PROVE  IndexInv'
<1> USE ConstantsAssumption DEF IndexInv, TypeOK, Owners, Building, BuildFail, Ended
<1>1. TypeOK'
  BY DEF Times, Version, Phase, Missing
<1>2. SingleFlight'
  BY DEF SingleFlight
<1>3. NotAhead'
  BY DEF NotAhead
<1>4. ReadIsNewest'
  BY DEF ReadIsNewest
<1>5. OwnBuildCoversCall'
  BY DEF OwnBuildCoversCall
<1>6. CallOwnsTasks'
  BY DEF CallOwnsTasks
<1>7. StampsCoverCalls'
  BY DEF StampsCoverCalls
<1>8. OverlappingRefreshesSpaced'
  BY DEF OverlappingRefreshesSpaced
<1>9. QED
  BY <1>1, <1>2, <1>3, <1>4, <1>5, <1>6, <1>7, <1>8

\* A search only makes idle background tasks ready.
LEMMA SearchInv ==
  ASSUME IndexInv, NEW S \in Requests, Search(S)
  PROVE  IndexInv'
<1> USE ConstantsAssumption DEF IndexInv, TypeOK, Owners, Building, Search
<1>1. TypeOK'
  BY DEF Times, Version, Phase
<1>2. SingleFlight'
  BY DEF SingleFlight
<1>3. NotAhead'
  BY DEF NotAhead
<1>4. ReadIsNewest'
  BY DEF ReadIsNewest
<1>5. OwnBuildCoversCall'
  BY DEF OwnBuildCoversCall
<1>6. CallOwnsTasks'
  BY DEF CallOwnsTasks
<1>7. StampsCoverCalls'
  BY DEF StampsCoverCalls
<1>8. OverlappingRefreshesSpaced'
  BY DEF OverlappingRefreshesSpaced
<1>9. QED
  BY <1>1, <1>2, <1>3, <1>4, <1>5, <1>6, <1>7, <1>8

\* A throttled call leaves the shared state alone.
LEMMA RefreshThrottledInv ==
  ASSUME IndexInv, NEW c \in Callers, NEW S \in Requests, RefreshThrottled(c, S)
  PROVE  IndexInv'
<1> USE ConstantsAssumption DEF IndexInv, TypeOK, Owners, Building, RefreshThrottled, NoCall
<1>1. TypeOK'
  <2>1. PICK k \in S : /\ Limited(k)
                       /\ call' = [call EXCEPT ![c] =
                            [st |-> "throttled", keys |-> S, asked |-> NoCall.asked,
                             at |-> clock + TicksPerSecond * RetryIn(k)]]
    BY DEF RefreshThrottled
  <2>2. k \in Keys /\ S \subseteq Keys
    BY DEF Requests
  <2>3. TicksPerSecond * RetryIn(k) \in 0 .. RateLimit - (clock - lastRefresh[k])
    <3> DEFINE left == RateLimit - (clock - lastRefresh[k])
    <3>1. left \in Nat
      BY <2>1, <2>2 DEF Limited
    <3>2. RetryIn(k) = left \div TicksPerSecond
      BY DEF RetryIn
    <3> HIDE DEF left
    <3>3. TicksPerSecond * (left \div TicksPerSecond) \in 0 .. left
      BY <3>1, RoundedDown
    <3>4. QED
      BY <3>2, <3>3 DEF left
  <2>4. clock + TicksPerSecond * RetryIn(k) \in Times
    BY <2>1, <2>2, <2>3 DEF Limited, Never, Times
  <2>5. call' \in [Callers -> [st    : {"idle", "waiting", "throttled"},
                             keys  : SUBSET Keys,
                             at    : Times,
                             asked : [Configured -> Version]]]
    <3> DEFINE t == clock + TicksPerSecond * RetryIn(k)
    <3>1. t \in Times
      BY <2>4
    <3> HIDE DEF t
    <3>2. call' = [call EXCEPT ![c] =
              [st |-> "throttled", keys |-> S, asked |-> NoCall.asked, at |-> t]]
      BY <2>1 DEF t
    <3>3. NoCall.asked \in [Configured -> Version]
      BY DEF NoCall, Missing, Version
    <3>4. QED
      BY <2>2, <3>1, <3>2, <3>3
  <2>6. QED
    BY <2>5
<1>2. SingleFlight'
  BY DEF SingleFlight
<1>3. NotAhead'
  BY DEF NotAhead, Missing
<1>4. ReadIsNewest'
  BY DEF ReadIsNewest, CallOwnsTasks
<1>5. OwnBuildCoversCall'
  BY DEF OwnBuildCoversCall, CallOwnsTasks
<1>6. CallOwnsTasks'
  BY DEF CallOwnsTasks
<1>7. StampsCoverCalls'
  BY DEF StampsCoverCalls
<1>8. OverlappingRefreshesSpaced'
  BY DEF OverlappingRefreshesSpaced
<1>9. QED
  BY <1>1, <1>2, <1>3, <1>4, <1>5, <1>6, <1>7, <1>8

\* An accepted refresh stamps all its keys before its builds start.
LEMMA RefreshAcceptInv ==
  ASSUME IndexInv, NEW c \in Callers, NEW S \in Requests, RefreshAccept(c, S)
  PROVE  IndexInv'
<1> USE ConstantsAssumption DEF IndexInv, TypeOK, Owners, Building, RefreshAccept, Requests
<1>1. TypeOK'
  BY DEF Times, Version, Phase
<1>2. SingleFlight'
  BY DEF SingleFlight, CallOwnsTasks
<1>3. NotAhead'
  BY DEF NotAhead
<1>4. ReadIsNewest'
  BY DEF ReadIsNewest, CallOwnsTasks
<1>5. OwnBuildCoversCall'
  BY DEF OwnBuildCoversCall, CallOwnsTasks
<1>6. CallOwnsTasks'
  BY DEF CallOwnsTasks
<1>7. StampsCoverCalls'
  BY DEF StampsCoverCalls
<1>8. OverlappingRefreshesSpaced'
  <2> SUFFICES ASSUME NEW a \in Callers, NEW b \in Callers, NEW k \in Keys, a # b,
                      call'[a].st = "waiting", k \in call'[a].keys,
                      call'[b].st = "waiting", k \in call'[b].keys
               PROVE  \/ call'[a].at - call'[b].at >= RateLimit
                      \/ call'[b].at - call'[a].at >= RateLimit
    BY DEF OverlappingRefreshesSpaced
  <2>1. ASSUME NEW d \in Callers, d # c, call[d].st = "waiting",
               k \in call[d].keys, k \in S
        PROVE  clock - call[d].at >= RateLimit
    <3>1. lastRefresh[k] >= call[d].at /\ call[d].at \in 0 .. clock
      BY <2>1 DEF StampsCoverCalls
    <3>2. ~Limited(k)
      BY <2>1 DEF Throttled
    <3>3. clock \in Int /\ lastRefresh[k] \in Int /\ RateLimit \in Int /\ call[d].at \in Int
      BY DEF Times
    <3>4. ~(clock - lastRefresh[k] < RateLimit)
      BY <3>1, <3>2, <3>3 DEF Limited, Never
    <3>5. QED
      BY <3>1, <3>3, <3>4
  <2>2. CASE a # c /\ b # c
    BY <2>2 DEF OverlappingRefreshesSpaced
  <2>3. CASE a = c
    BY <2>1, <2>3
  <2>4. CASE b = c
    BY <2>1, <2>4
  <2>5. QED
    BY <2>2, <2>3, <2>4
<1>9. QED
  BY <1>1, <1>2, <1>3, <1>4, <1>5, <1>6, <1>7, <1>8

\* A refresh returns when none of its builds is in flight.
LEMMA RefreshReturnInv ==
  ASSUME IndexInv, NEW c \in Callers, RefreshReturn(c)
  PROVE  IndexInv'
<1> USE ConstantsAssumption DEF IndexInv, TypeOK, Owners, Building, RefreshReturn, NoCall, Pending
<1>1. TypeOK'
  BY DEF Times, Version, Phase, Missing
<1>2. SingleFlight'
  BY DEF SingleFlight, CallOwnsTasks
<1>3. NotAhead'
  BY DEF NotAhead, Missing
<1>4. ReadIsNewest'
  BY DEF ReadIsNewest, CallOwnsTasks
<1>5. OwnBuildCoversCall'
  BY DEF OwnBuildCoversCall, CallOwnsTasks
<1>6. CallOwnsTasks'
  BY DEF CallOwnsTasks
<1>7. StampsCoverCalls'
  BY DEF StampsCoverCalls
<1>8. OverlappingRefreshesSpaced'
  BY DEF OverlappingRefreshesSpaced
<1>9. QED
  BY <1>1, <1>2, <1>3, <1>4, <1>5, <1>6, <1>7, <1>8

\* A cancelled refresh frees exactly the locks its builds hold.
LEMMA RefreshCancelInv ==
  ASSUME IndexInv, NEW c \in Callers, RefreshCancel(c)
  PROVE  IndexInv'
<1> USE ConstantsAssumption DEF IndexInv, TypeOK, Owners, Building, RefreshCancel, NoCall
<1>1. TypeOK'
  BY DEF Times, Version, Phase, Missing
<1>2. SingleFlight'
  BY DEF SingleFlight, CallOwnsTasks
<1>3. NotAhead'
  BY DEF NotAhead, Missing
<1>4. ReadIsNewest'
  BY DEF ReadIsNewest
<1>5. OwnBuildCoversCall'
  BY DEF OwnBuildCoversCall
<1>6. CallOwnsTasks'
  BY DEF CallOwnsTasks
<1>7. StampsCoverCalls'
  BY DEF StampsCoverCalls
<1>8. OverlappingRefreshesSpaced'
  BY DEF OverlappingRefreshesSpaced
<1>9. QED
  BY <1>1, <1>2, <1>3, <1>4, <1>5, <1>6, <1>7, <1>8

\* Every step, and every stuttering step, preserves the invariant.
LEMMA NextInv == IndexInv /\ [Next]_vars => IndexInv'
<1> SUFFICES ASSUME IndexInv, [Next]_vars PROVE IndexInv'
  OBVIOUS
<1>1. CASE UNCHANGED vars
  BY <1>1 DEF vars, IndexInv, TypeOK, SingleFlight, NotAhead, ReadIsNewest,
     OwnBuildCoversCall, CallOwnsTasks, StampsCoverCalls, OverlappingRefreshesSpaced
<1>2. ASSUME NEW o \in Owners, NEW k \in Keys, BuildStep(o, k)
      PROVE  IndexInv'
  BY <1>2, BuildSkipInv, BuildBeginInv, BuildListInv, BuildPublishInv, BuildFailInv
     DEF BuildStep
<1>3. QED
  BY <1>1, <1>2, TickInv, DeployInv, SearchInv, RefreshThrottledInv,
     RefreshAcceptInv, RefreshReturnInv, RefreshCancelInv DEF Next

\* The inductive invariant holds in every reachable state, for any constants that
\* satisfy ConstantsAssumption.
THEOREM IndexInvariant == Spec => []IndexInv
<1>1. QED
  BY InitInv, NextInv, PTL DEF Spec

\* Every variable keeps its type (IndexManager's whole state).
THEOREM TypeCorrect == Spec => []TypeOK
<1>1. IndexInv => TypeOK
  BY DEF IndexInv
<1>2. QED
  BY <1>1, IndexInvariant, PTL

\* At most one build of a key is in flight and it holds the key's lock (_build_one).
THEOREM BuildsAreSingleFlight == Spec => []SingleFlight
<1>1. IndexInv => SingleFlight
  BY DEF IndexInv
<1>2. QED
  BY <1>1, IndexInvariant, PTL

\* A refresh whose own build was published covers everything deployed before the
\* call (refresh).
THEOREM OwnBuildIsFresh == Spec => []OwnBuildCoversCall
<1>1. IndexInv => OwnBuildCoversCall
  BY DEF IndexInv
<1>2. QED
  BY <1>1, IndexInvariant, PTL

\* Refreshes of a key that wait together were accepted a rate limit apart (refresh).
THEOREM RefreshesAreSpaced == Spec => []OverlappingRefreshesSpaced
<1>1. IndexInv => OverlappingRefreshesSpaced
  BY DEF IndexInv
<1>2. QED
  BY <1>1, IndexInvariant, PTL

\* No step loses an index or replaces it by one read earlier (_build_one).
THEOREM IndexIsMonotone == Spec => IndexNeverRegresses
<1>1. ASSUME IndexInv, [Next]_vars
      PROVE  [\A k \in Keys : index'[k].version >= index[k].version]_index
  <2>1. ASSUME NEW o \in Owners, NEW k \in Keys, BuildPublish(o, k)
        PROVE  \A j \in Keys : index'[j].version >= index[j].version
    BY <1>1, <2>1 DEF BuildPublish, IndexInv, TypeOK, ReadIsNewest, Version
  <2>2. \/ \E o \in Owners, k \in Keys : BuildPublish(o, k)
        \/ UNCHANGED index
    BY <1>1 DEF Next, vars, BuildStep, Tick, Deploy, BuildSkip, BuildBegin, BuildList,
       BuildFail, Search, RefreshThrottled, RefreshAccept, RefreshReturn, RefreshCancel
  <2>3. QED
    BY <2>1, <2>2
<1>2. QED
  BY <1>1, IndexInvariant, PTL DEF Spec, IndexNeverRegresses

-----------------------------------------------------------------------------
(***************************************************************************)
(* How far the two claims of the documentation are from the code.          *)
(***************************************************************************)

\* Every service is called by one name only.
OneSpelling == \A k, j \in Keys : Canon[k] = Canon[j] => k = j

\* The rate limit is one per service as long as nobody spells a service's name in
\* another way: the spelling is the only cause that breaks RefreshSpacedPerService
\* (refresh and _last_refresh_at).
THEOREM SpacedIfOneSpelling ==
  ASSUME OneSpelling
  PROVE  Spec => RefreshSpacedPerService
<1>1. ASSUME IndexInv, Next, NEW k \in Keys, NEW j \in Keys, Canon[k] = Canon[j],
             lastRefresh[j] # Never, lastRefresh'[k] # lastRefresh[k]
      PROVE  lastRefresh'[k] - lastRefresh[j] >= RateLimit
  <2>1. k = j
    BY <1>1 DEF OneSpelling
  <2>2. PICK c \in Callers, S \in Requests : RefreshAccept(c, S)
    BY <1>1 DEF Next, BuildStep, Tick, Deploy, BuildSkip, BuildBegin, BuildList, BuildPublish,
       BuildFail, Search, RefreshThrottled, RefreshReturn, RefreshCancel
  <2>3. k \in S /\ lastRefresh'[k] = clock
    BY <1>1, <2>2 DEF RefreshAccept
  <2>4. ~Limited(k)
    BY <2>2, <2>3 DEF RefreshAccept, Throttled
  <2>5. ~(clock - lastRefresh[k] < RateLimit)
    BY <1>1, <2>1, <2>4 DEF Limited
  <2>6. clock - lastRefresh[k] >= RateLimit
    BY <1>1, <2>5, ConstantsAssumption DEF IndexInv, TypeOK
  <2>7. QED
    BY <2>1, <2>3, <2>6
<1>2. ASSUME IndexInv, [Next]_vars
      PROVE  [\A k, j \in Keys :
                 /\ Canon[k] = Canon[j]
                 /\ lastRefresh[j] # Never
                 /\ lastRefresh'[k] # lastRefresh[k]
                 => lastRefresh'[k] - lastRefresh[j] >= RateLimit]_vars
  BY <1>1, <1>2
<1>3. QED
  BY <1>2, IndexInvariant, PTL DEF Spec, RefreshSpacedPerService

\* A refresh that waits has a task for every key it named.
WaitersHaveTasks ==
    \A c \in Callers : call[c].st = "waiting" =>
        \A k \in call[c].keys : pc[c][k] # "idle"

\* A task of a refresh stays until the call gathers it, or is cancelled with it.
LEMMA TasksStay == IndexInv /\ WaitersHaveTasks /\ [Next]_vars => WaitersHaveTasks'
<1> SUFFICES ASSUME IndexInv, WaitersHaveTasks, [Next]_vars,
                    NEW c \in Callers, call'[c].st = "waiting", NEW k \in call'[c].keys
             PROVE  pc'[c][k] # "idle"
  BY DEF WaitersHaveTasks
<1> USE ConstantsAssumption DEF IndexInv, TypeOK, Owners
<1>0. k \in Keys
  <2>1. TypeOK'
    BY NextInv
  <2>2. QED
    BY <2>1
<1>1. CASE UNCHANGED <<call, pc>>
  BY <1>1 DEF WaitersHaveTasks
<1>2. ASSUME NEW o \in Owners, NEW j \in Keys, BuildStep(o, j)
      PROVE  pc'[c][k] # "idle"
  <2>1. pc[c][k] # "idle" /\ call' = call
    BY <1>2 DEF WaitersHaveTasks, BuildStep, BuildSkip, BuildBegin, BuildList, BuildPublish, BuildFail
  <2>2. pc'[c][k] = pc[c][k] \/ (o = c /\ j = k)
    BY <1>0, <1>2 DEF BuildStep, BuildSkip, BuildBegin, BuildList, BuildPublish, BuildFail
  <2>3. CASE o = c /\ j = k
    BY <1>0, <1>2, <2>3 DEF BuildStep, BuildSkip, BuildBegin, BuildList, BuildPublish, BuildFail, Ended
  <2>4. QED
    BY <2>1, <2>2, <2>3
<1>3. ASSUME NEW S \in Requests, Search(S)
      PROVE  pc'[c][k] # "idle"
  <2>1. pc[c][k] # "idle"
    BY <1>3 DEF WaitersHaveTasks, Search
  <2>2. pc'[c][k] \in {"ready", pc[c][k]}
    BY <1>0, <1>3 DEF Search
  <2>3. QED
    BY <2>1, <2>2
<1>4. ASSUME NEW d \in Callers, NEW S \in Requests, RefreshThrottled(d, S)
      PROVE  pc'[c][k] # "idle"
  <2>1. c # d /\ call'[c] = call[c] /\ pc' = pc
    BY <1>4 DEF RefreshThrottled
  <2>2. QED
    BY <2>1 DEF WaitersHaveTasks
<1>5. ASSUME NEW d \in Callers, NEW S \in Requests, RefreshAccept(d, S)
      PROVE  pc'[c][k] # "idle"
  <2>1. CASE c = d
    BY <1>0, <1>5, <2>1 DEF RefreshAccept
  <2>2. CASE c # d
    <3>1. call'[c] = call[c] /\ pc'[c] = pc[c]
      BY <1>5, <2>2 DEF RefreshAccept
    <3>2. QED
      BY <3>1 DEF WaitersHaveTasks
  <2>3. QED
    BY <2>1, <2>2
<1>6. ASSUME NEW d \in Callers, RefreshReturn(d) \/ RefreshCancel(d)
      PROVE  pc'[c][k] # "idle"
  <2>1. c # d /\ call'[c] = call[c] /\ pc'[c] = pc[c]
    BY <1>6 DEF RefreshReturn, RefreshCancel, NoCall
  <2>2. QED
    BY <2>1 DEF WaitersHaveTasks
<1>7. QED
  BY <1>1, <1>2, <1>3, <1>4, <1>5, <1>6 DEF Next, Tick, Deploy, vars

\* What a refresh returns of a key it named: what was deployed before the call, or the
\* outcome of its build says why not.
ReturnExplained ==
    \A c \in Callers : RefreshReturn(c) =>
        \A k \in call[c].keys :
            \/ index[k].version >= call[c].asked[Canon[k]]
            \/ pc[c][k] \in {"skipped", "failed"}

\* A refresh returns an index that lacks what was deployed before the call only if its
\* own build of that key was skipped for another's or failed: nothing else breaks
\* RefreshCoversCall (refresh and _build_one).
THEOREM MissesAreExplained == Spec => [][ReturnExplained]_vars
<1>1. Init => WaitersHaveTasks
  BY DEF Init, NoCall, WaitersHaveTasks
<1>2. ASSUME IndexInv, WaitersHaveTasks, NEW c \in Callers, RefreshReturn(c), NEW k \in call[c].keys
      PROVE  \/ index[k].version >= call[c].asked[Canon[k]]
             \/ pc[c][k] \in {"skipped", "failed"}
  <2>1. k \in Keys /\ pc[c][k] \in Phase
    BY <1>2 DEF IndexInv, TypeOK, Owners
  <2>2. pc[c][k] \notin Pending /\ pc[c][k] # "idle"
    BY <1>2 DEF RefreshReturn, WaitersHaveTasks
  <2>3. pc[c][k] \in {"built", "skipped", "failed"}
    BY <2>1, <2>2 DEF Phase, Pending, Building
  <2>4. QED
    BY <1>2, <2>1, <2>3 DEF IndexInv, OwnBuildCoversCall
<1>3. IndexInv /\ WaitersHaveTasks => ReturnExplained
  BY <1>2 DEF ReturnExplained
<1>4. QED
  BY <1>1, <1>3, TasksStay, IndexInvariant, PTL DEF Spec
=============================================================================
