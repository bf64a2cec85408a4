----------------------------- MODULE ServerProofs -----------------------------
(***************************************************************************)
(* What holds of the server's start and of its mirror for any number of    *)
(* services and of requests.                                               *)
(***************************************************************************)
EXTENDS Server, TLAPS

USE DEF Services, Waiting

\* The canary has dealt with every service before `scope`, and with no other.
CanaryDone ==
    /\ proc = "up" => scope = N + 1
    /\ \A s \in Services : s < scope =>
          /\ outcome[s] = "unseen" => \E r \in 1 .. s - 1 : outcome[r] = "raised"
          /\ outcome[s] = "listed" /\ s \in Risky => s \in warned
    /\ \A s \in Services : s >= scope => outcome[s] = "unseen"

IInv == TypeOK /\ CanaryDone /\ MirrorFetchesOnce

-----------------------------------------------------------------------------
(***************************************************************************)
(* Types.                                                                  *)
(***************************************************************************)

\* A new process has variables of the right type.
LEMMA InitTyped == ASSUME Init PROVE TypeOK
<1>. USE ServerAssumption DEF Init
<1>1. proc \in {"down", "starting", "up"} /\ crashes \in 0 .. MaxCrashes
  OBVIOUS
<1>2. scope \in 1 .. N + 1 /\ warned \subseteq Services
  OBVIOUS
<1>3. outcome \in [Services -> {"unseen", "listed", "failed", "raised"}]
  BY DEF Unseen
<1>4. probe \in 0 .. N + 1 /\ eager \in {"none", "running", "ended"}
  OBVIOUS
<1>5. document \in BOOLEAN
  OBVIOUS
<1>6. queue \in Seq(Requests)
  OBVIOUS
<1>7. req \in [Requests -> Waiting \cup {"idle", "ok", "unavailable", "error"}]
  BY DEF AllIdle
<1>8. fetched \in [Requests -> {"none", "failed", "raised"}]
  BY DEF NoFetch
<1>. QED  BY <1>1, <1>2, <1>3, <1>4, <1>5, <1>6, <1>7, <1>8 DEF TypeOK

\* The steps of the start keep the types.
LEMMA StartTyped ==
    ASSUME TypeOK, Boot \/ Canary \/ Started \/ ProbeStep \/ EagerEnds \/ Crash
    PROVE  TypeOK'
<1>1. CASE Boot
  BY <1>1 DEF Boot, TypeOK, tasks, mirror
<1>2. CASE Canary
  <2>. USE ServerAssumption DEF TypeOK, Looked, tasks, mirror
  <2>1. CASE CanaryListed
    BY <2>1 DEF CanaryListed
  <2>2. CASE CanaryFails
    BY <2>2 DEF CanaryFails
  <2>3. CASE CanaryRaises
    BY <2>3 DEF CanaryRaises
  <2>. QED  BY <1>2, <2>1, <2>2, <2>3 DEF Canary
<1>3. CASE Started
  BY <1>3, ServerAssumption DEF Started, TypeOK, mirror
<1>4. CASE ProbeStep
  BY <1>4, ServerAssumption DEF ProbeStep, TypeOK, startup, mirror
<1>5. CASE EagerEnds
  BY <1>5 DEF EagerEnds, TypeOK, startup, mirror
<1>6. CASE Crash
  <2>. USE <1>6, ServerAssumption DEF Crash
  <2>1. proc' \in {"down", "starting", "up"} /\ crashes' \in 0 .. MaxCrashes
    BY DEF TypeOK
  <2>2. scope' \in 1 .. N + 1 /\ warned' \subseteq Services
    OBVIOUS
  <2>3. outcome' \in [Services -> {"unseen", "listed", "failed", "raised"}]
    BY DEF Unseen
  <2>4. probe' \in 0 .. N + 1 /\ eager' \in {"none", "running", "ended"}
    OBVIOUS
  <2>8. document' \in BOOLEAN
    OBVIOUS
  <2>5. queue' \in Seq(Requests)
    OBVIOUS
  <2>6. req' \in [Requests -> Waiting \cup {"idle", "ok", "unavailable", "error"}]
    BY DEF AllIdle
  <2>7. fetched' \in [Requests -> {"none", "failed", "raised"}]
    BY DEF NoFetch
  <2>. QED  BY <2>1, <2>2, <2>3, <2>4, <2>5, <2>6, <2>7, <2>8 DEF TypeOK
<1>. QED  BY <1>1, <1>2, <1>3, <1>4, <1>5, <1>6

\* The steps of the mirror keep the types.
LEMMA MirrorTyped ==
    ASSUME TypeOK, NEW r \in Requests,
           Ask(r) \/ Granted(r) \/ EntraAnswers(r) \/ Leave(r)
    PROVE  TypeOK'
<1>. USE DEF TypeOK, Answered, Reply, startup, tasks
<1>1. CASE Ask(r)
  BY <1>1 DEF Ask
<1>2. CASE Granted(r)
  <2>1. Tail(queue) \in Seq(Requests)
    BY <1>2 DEF Granted
  <2>. QED  BY <1>2, <2>1 DEF Granted
<1>3. CASE Fetched(r)
  BY <1>3 DEF Fetched
<1>4. CASE FetchFails(r)
  BY <1>4 DEF FetchFails
<1>5. CASE FetchRaises(r)
  BY <1>5 DEF FetchRaises
<1>6. CASE Leave(r)
  BY <1>6 DEF Leave
<1>. QED  BY <1>1, <1>2, <1>3, <1>4, <1>5, <1>6 DEF EntraAnswers

-----------------------------------------------------------------------------
(***************************************************************************)
(* The canary.                                                             *)
(***************************************************************************)

\* A step of the canary leaves nothing behind it that it did not deal with.
LEMMA CanaryKeeps == ASSUME TypeOK, CanaryDone, Canary PROVE CanaryDone'
<1>. USE ServerAssumption DEF TypeOK, CanaryDone, Looked
<1>1. proc = "starting" /\ proc' = "starting" /\ scope \in Services
  BY DEF Canary, CanaryListed, CanaryFails, CanaryRaises
<1>2. CASE CanaryListed \/ CanaryFails
  <2>1. /\ scope' = scope + 1 /\ warned \subseteq warned'
        /\ \E how \in {"listed", "failed"} :
              /\ outcome' = [outcome EXCEPT ![scope] = how]
              /\ (how = "listed" /\ scope \in Risky) => scope \in warned'
    BY <1>1, <1>2 DEF CanaryListed, CanaryFails
  <2>. QED  BY <1>1, <2>1
<1>3. CASE CanaryRaises
  <2>1. /\ scope' = N + 1 /\ warned' = warned
        /\ outcome' = [outcome EXCEPT ![scope] = "raised"]
    BY <1>1, <1>3 DEF CanaryRaises
  <2>2. ASSUME NEW s \in Services
        PROVE  /\ outcome'[s] = "unseen" => \E q \in 1 .. s - 1 : outcome'[q] = "raised"
               /\ outcome'[s] = "listed" /\ s \in Risky => s \in warned'
    <3>1. CASE s < scope
      BY <1>1, <2>1, <3>1
    <3>2. CASE s = scope
      BY <1>1, <2>1, <3>2
    <3>3. CASE s > scope
      BY <1>1, <2>1, <3>3
    <3>. QED  BY <1>1, <3>1, <3>2, <3>3
  <2>. QED  BY <1>1, <2>1, <2>2
<1>. QED  BY <1>2, <1>3 DEF Canary

\* No other step disturbs what the canary did.
LEMMA StartKeeps ==
    ASSUME TypeOK, CanaryDone, Boot \/ Started \/ ProbeStep \/ EagerEnds \/ Crash
    PROVE  CanaryDone'
<1>. USE ServerAssumption DEF TypeOK, CanaryDone
<1>1. CASE Boot
  BY <1>1 DEF Boot
<1>2. CASE Started
  BY <1>2 DEF Started
<1>3. CASE ProbeStep
  BY <1>3 DEF ProbeStep, startup
<1>4. CASE EagerEnds
  BY <1>4 DEF EagerEnds, startup
<1>5. CASE Crash
  <2>1. proc' = "down" /\ scope' = 1 /\ outcome' = [s \in Services |-> "unseen"]
    BY <1>5 DEF Crash, Unseen
  <2>. QED  BY <2>1
<1>. QED  BY <1>1, <1>2, <1>3, <1>4, <1>5

-----------------------------------------------------------------------------
(***************************************************************************)
(* The mirror.                                                             *)
(***************************************************************************)

\* The steps of the requests keep to one fetch, and tell nobody of another's failure.
LEMMA MirrorKeeps ==
    ASSUME TypeOK, MirrorFetchesOnce, NEW r \in Requests,
           Ask(r) \/ Granted(r) \/ EntraAnswers(r) \/ Leave(r)
    PROVE  MirrorFetchesOnce'
<1>. USE DEF TypeOK, MirrorFetchesOnce, Fetchers, Answered, Reply
<1>1. CASE Ask(r)
  BY <1>1 DEF Ask
<1>2. CASE Granted(r)
  BY <1>2 DEF Granted
<1>3. CASE Fetched(r)
  BY <1>3 DEF Fetched
<1>4. CASE FetchFails(r)
  BY <1>4 DEF FetchFails
<1>5. CASE FetchRaises(r)
  BY <1>5 DEF FetchRaises
<1>6. CASE Leave(r)
  BY <1>6 DEF Leave
<1>. QED  BY <1>1, <1>2, <1>3, <1>4, <1>5, <1>6 DEF EntraAnswers

\* The steps of the start do not touch the mirror, but for the end of the process.
LEMMA StartLeavesMirror ==
    ASSUME TypeOK, MirrorFetchesOnce,
           Boot \/ Canary \/ Started \/ ProbeStep \/ EagerEnds \/ Crash
    PROVE  MirrorFetchesOnce'
<1>. USE DEF MirrorFetchesOnce, Fetchers
<1>1. CASE Crash
  BY <1>1 DEF Crash, AllIdle
<1>2. CASE UNCHANGED mirror
  BY <1>2 DEF mirror
<1>3. Boot \/ Canary \/ Started \/ ProbeStep \/ EagerEnds => UNCHANGED mirror
  BY DEF Boot, Canary, CanaryListed, CanaryFails, CanaryRaises, Looked, Started, ProbeStep,
         EagerEnds
<1>. QED  BY <1>1, <1>2, <1>3

-----------------------------------------------------------------------------
(***************************************************************************)
(* The invariant.                                                          *)
(***************************************************************************)
\* It holds at first.
LEMMA InitIInv == Init => IInv
<1>. SUFFICES ASSUME Init PROVE IInv
  OBVIOUS
<1>1. TypeOK
  BY InitTyped
<1>2. CanaryDone
  BY ServerAssumption DEF Init, CanaryDone, Unseen
<1>3. MirrorFetchesOnce
  BY DEF Init, MirrorFetchesOnce, Fetchers, AllIdle
<1>. QED  BY <1>1, <1>2, <1>3 DEF IInv

\* Every step keeps it.
LEMMA StepIInv == IInv /\ [Next]_vars => IInv'
<1>. SUFFICES ASSUME TypeOK, CanaryDone, MirrorFetchesOnce, [Next]_vars PROVE IInv'
  BY DEF IInv
<1>1. CASE Canary
  BY <1>1, StartTyped, CanaryKeeps, StartLeavesMirror DEF IInv
<1>2. CASE Boot \/ Started \/ ProbeStep \/ EagerEnds \/ Crash
  BY <1>2, StartTyped, StartKeeps, StartLeavesMirror DEF IInv
<1>3. ASSUME NEW r \in Requests, Ask(r) \/ Granted(r) \/ EntraAnswers(r) \/ Leave(r)
      PROVE  IInv'
  <2>1. UNCHANGED startup
    BY <1>3 DEF Ask, Granted, EntraAnswers, Fetched, FetchFails, FetchRaises, Leave
  <2>2. CanaryDone'
    BY <2>1 DEF CanaryDone, startup
  <2>. QED  BY <1>3, <2>2, MirrorTyped, MirrorKeeps DEF IInv
<1>4. CASE UNCHANGED vars
  BY <1>4 DEF IInv, TypeOK, CanaryDone, MirrorFetchesOnce, Fetchers, vars, startup, tasks,
              mirror
<1>. QED  BY <1>1, <1>2, <1>3, <1>4 DEF Next

\* The invariant holds throughout.
LEMMA IInvHolds == Spec => []IInv
BY InitIInv, StepIInv, PTL DEF Spec

\* Every variable of the server stays within its type.
THEOREM ServerTypeCorrect == Spec => []TypeOK
<1>1. IInv => TypeOK
  BY DEF IInv
<1>. QED  BY <1>1, IInvHolds, PTL

\* A server that serves has warned of every service the canary could judge
\* (run_permission_canary).
THEOREM RisksAreReported == Spec => []RiskReported
<1>1. IInv => RiskReported
  <2>. SUFFICES ASSUME IInv, proc = "up", NEW s \in Risky
                PROVE  \/ s \in warned
                       \/ outcome[s] \in {"failed", "raised"}
                       \/ \E r \in 1 .. s - 1 : outcome[r] = "raised"
    BY DEF RiskReported
  <2>1. s \in Services /\ s < scope
    BY ServerAssumption DEF IInv, CanaryDone
  <2>2. outcome[s] \in {"unseen", "listed", "failed", "raised"}
    BY <2>1 DEF IInv, TypeOK
  <2>. QED  BY <2>1, <2>2 DEF IInv, CanaryDone
<1>. QED  BY <1>1, IInvHolds, PTL

\* The mirror fetches once at a time and never again, and an error is the caller's own
\* (AuthorizationServerMetadataCache).
THEOREM MirrorIsFetchedOnce == Spec => []MirrorFetchesOnce
<1>1. IInv => MirrorFetchesOnce
  BY DEF IInv
<1>. QED  BY <1>1, IInvHolds, PTL
=============================================================================
