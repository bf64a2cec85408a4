--------------------------- MODULE TokenGateProofs ---------------------------
(***************************************************************************)
(* The safety of token validation for any number of keys and concurrent    *)
(* requests, any refresh interval, and any rotation of the keys.           *)
(*                                                                         *)
(* RotationOutageBounded is not inductive: GateInv adds why it holds.  A   *)
(* published key that the cache lacks (or that an answer on its way lacks) *)
(* was published no earlier than the instant that dates that set, because  *)
(* a refresh is dated by its start and its answer is read afterwards.      *)
(***************************************************************************)
EXTENDS TokenGate, TLAPS

\* The cached set lacks only keys published at or after the date it carries.
CacheIsDated ==
    /\ lastRefresh <= clock
    /\ \A k \in Published : k \notin keys => lastRefresh <= since[k]

\* So does the set on its way to a request that waits for its fetch, and such a
\* request carries a token.
AnswersAreDated ==
    /\ \A r \in Requests : req[r].at <= clock
    /\ \A r \in Requests : req[r].pc \in {"fetching", "answered"} =>
          /\ req[r].tok \in Tokens
          /\ "header" \notin req[r].tok.flaws
    /\ \A r \in Requests, k \in Published :
          req[r].pc = "answered" /\ k \notin req[r].body => req[r].at <= since[k]

GateInv ==
    /\ TypeOK
    /\ CacheIsDated
    /\ AnswersAreDated
    /\ OwnFetchDecides
    /\ AdmissionIsSound

-----------------------------------------------------------------------------
\* The initial state satisfies the invariant.
LEMMA InitInv == Init => GateInv
<1> SUFFICES ASSUME Init PROVE GateInv
  OBVIOUS
<1> USE TokenGateAssumption DEF Init, NoRequest, Never
<1>1. TypeOK
  BY DEF TypeOK
<1>2. CacheIsDated
  BY DEF CacheIsDated, Published
<1>3. AnswersAreDated
  BY DEF AnswersAreDated, Published
<1>4. OwnFetchDecides
  BY DEF OwnFetchDecides
<1>5. AdmissionIsSound
  BY DEF AdmissionIsSound
<1>6. QED
  BY <1>1, <1>2, <1>3, <1>4, <1>5 DEF GateInv

\* Time only ages the cache.
LEMMA TickInv ==
  ASSUME GateInv, Tick
  PROVE  GateInv'
<1> USE TokenGateAssumption DEF GateInv, TypeOK, Tick
<1>1. TypeOK'
  OBVIOUS
<1>2. CacheIsDated'
  BY DEF CacheIsDated, Published, Never
<1>3. AnswersAreDated'
  BY DEF AnswersAreDated, Published, Never
<1>4. OwnFetchDecides'
  BY DEF OwnFetchDecides
<1>5. AdmissionIsSound'
  BY DEF AdmissionIsSound
<1>6. QED
  BY <1>1, <1>2, <1>3, <1>4, <1>5

\* A key published now is not older than any date.
LEMMA PublishInv ==
  ASSUME GateInv, NEW k \in Kids, Publish(k)
  PROVE  GateInv'
<1> USE TokenGateAssumption DEF GateInv, TypeOK, Publish
<1>1. TypeOK'
  BY DEF Never
<1>2. CacheIsDated'
  BY DEF CacheIsDated, Published, Never
<1>3. AnswersAreDated'
  BY DEF AnswersAreDated, Published, Never
<1>4. OwnFetchDecides'
  BY DEF OwnFetchDecides
<1>5. AdmissionIsSound'
  BY DEF AdmissionIsSound
<1>6. QED
  BY <1>1, <1>2, <1>3, <1>4, <1>5

\* A retired key is no longer owed to anybody.
LEMMA RetireInv ==
  ASSUME GateInv, NEW k \in Kids, Retire(k)
  PROVE  GateInv'
<1> USE TokenGateAssumption DEF GateInv, TypeOK, Retire
<1>1. TypeOK'
  BY DEF Never
<1>2. CacheIsDated'
  BY DEF CacheIsDated, Published, Never
<1>3. AnswersAreDated'
  BY DEF AnswersAreDated, Published, Never
<1>4. OwnFetchDecides'
  BY DEF OwnFetchDecides
<1>5. AdmissionIsSound'
  BY DEF AdmissionIsSound
<1>6. QED
  BY <1>1, <1>2, <1>3, <1>4, <1>5

\* A malformed request does not reach the cache.
LEMMA RefuseMalformedInv ==
  ASSUME GateInv, NEW r \in Requests, NEW tok \in Tokens, RefuseMalformed(r, tok)
  PROVE  GateInv'
<1> USE TokenGateAssumption DEF GateInv, TypeOK, RefuseMalformed, Finish, Outcomes
<1>1. TypeOK'
  OBVIOUS
<1>2. CacheIsDated'
  BY DEF CacheIsDated, Published, Never
<1>3. AnswersAreDated'
  BY DEF AnswersAreDated, Published, Never
<1>4. OwnFetchDecides'
  BY DEF OwnFetchDecides
<1>5. AdmissionIsSound'
  BY DEF AdmissionIsSound
<1>6. QED
  BY <1>1, <1>2, <1>3, <1>4, <1>5

\* A decision without a fetch only writes its own verdict.
LEMMA DecideFromCacheInv ==
  ASSUME GateInv, NEW r \in Requests, NEW tok \in Tokens, DecideFromCache(r, tok)
  PROVE  GateInv'
<1> USE TokenGateAssumption DEF GateInv, TypeOK, DecideFromCache, Finish, Verdict, Flaws, Outcomes
<1>1. TypeOK'
  OBVIOUS
<1>2. CacheIsDated'
  BY DEF CacheIsDated, Published, Never
<1>3. AnswersAreDated'
  BY DEF AnswersAreDated, Published, Never
<1>4. OwnFetchDecides'
  BY DEF OwnFetchDecides
<1>5. AdmissionIsSound'
  BY DEF AdmissionIsSound
<1>6. QED
  BY <1>1, <1>2, <1>3, <1>4, <1>5

\* A fetch is dated by its start.
LEMMA StartFetchInv ==
  ASSUME GateInv, NEW r \in Requests, NEW tok \in Tokens, StartFetch(r, tok)
  PROVE  GateInv'
<1> USE TokenGateAssumption DEF GateInv, TypeOK, StartFetch, Outcomes
<1>1. TypeOK'
  OBVIOUS
<1>2. CacheIsDated'
  BY DEF CacheIsDated, Published, Never
<1>3. AnswersAreDated'
  BY DEF AnswersAreDated, Published, Never
<1>4. OwnFetchDecides'
  BY DEF OwnFetchDecides
<1>5. AdmissionIsSound'
  BY DEF AdmissionIsSound
<1>6. QED
  BY <1>1, <1>2, <1>3, <1>4, <1>5

\* The answer holds all that is published when it is given.
LEMMA EntraAnswersInv ==
  ASSUME GateInv, NEW r \in Requests, EntraAnswers(r)
  PROVE  GateInv'
<1> USE TokenGateAssumption DEF GateInv, TypeOK, EntraAnswers, Published, Outcomes
<1>1. TypeOK'
  OBVIOUS
<1>2. CacheIsDated'
  BY DEF CacheIsDated, Never
<1>3. AnswersAreDated'
  BY DEF AnswersAreDated, Never
<1>4. OwnFetchDecides'
  BY DEF OwnFetchDecides
<1>5. AdmissionIsSound'
  BY DEF AdmissionIsSound
<1>6. QED
  BY <1>1, <1>2, <1>3, <1>4, <1>5

\* The stored set carries the date of the fetch that brought it.
LEMMA ReceiveInv ==
  ASSUME GateInv, NEW r \in Requests, Receive(r)
  PROVE  GateInv'
<1> USE TokenGateAssumption DEF GateInv, TypeOK, Receive, Finish, Verdict, Flaws, Outcomes
<1>1. TypeOK'
  OBVIOUS
<1>2. CacheIsDated'
  BY DEF CacheIsDated, AnswersAreDated, Published, Never
<1>3. AnswersAreDated'
  BY DEF AnswersAreDated, Published, Never
<1>4. OwnFetchDecides'
  <2> SUFFICES ASSUME NEW q \in Requests,
                      req'[q].pc = "unauthorized", req'[q].fetched,
                      req'[q].tok.flaws = {}, req'[q].tok.exp > req'[q].at - Leeway
               PROVE  req'[q].tok.kid \notin req'[q].body
    BY DEF OwnFetchDecides
  <2>1. CASE q # r
    <3>1. req'[q] = req[q]
      BY <2>1
    <3>2. QED
      BY <3>1 DEF OwnFetchDecides
  <2>2. CASE q = r
    <3> DEFINE tok == req[r].tok
    <3>1. req'[r] = [pc |-> Verdict(tok, tok.kid \in keys', clock), tok |-> tok,
                     at |-> clock, fetched |-> TRUE, body |-> req[r].body]
      OBVIOUS
    <3>2. tok \in Tokens
      BY DEF AnswersAreDated
    <3>3. tok.exp > clock - Leeway /\ tok.flaws = {}
      BY <2>2, <3>1
    <3>4. tok.exp \in Int /\ clock \in Int /\ Leeway \in Int
      BY <3>2
    <3>5. ~(tok.exp <= clock - Leeway)
      BY <3>3, <3>4
    <3>6. tok.flaws \cap {"signature", "issuer", "audience"} = {}
      BY <3>3
    <3>7. CASE tok.kid \in keys'
      BY <2>2, <3>1, <3>3, <3>5, <3>6, <3>7
    <3>8. CASE tok.kid \notin keys'
      BY <2>2, <3>1, <3>8
    <3>9. QED
      BY <3>7, <3>8
  <2>3. QED
    BY <2>1, <2>2
<1>5. AdmissionIsSound'
  BY DEF AdmissionIsSound, AnswersAreDated
<1>6. QED
  BY <1>1, <1>2, <1>3, <1>4, <1>5

\* A failed fetch leaves no trace in the cache.
LEMMA FetchFailsInv ==
  ASSUME GateInv, NEW r \in Requests, FetchFails(r)
  PROVE  GateInv'
<1> USE TokenGateAssumption DEF GateInv, TypeOK, FetchFails, Finish, Outcomes
<1>1. TypeOK'
  OBVIOUS
<1>2. CacheIsDated'
  BY DEF CacheIsDated, Published, Never
<1>3. AnswersAreDated'
  BY DEF AnswersAreDated, Published, Never
<1>4. OwnFetchDecides'
  BY DEF OwnFetchDecides
<1>5. AdmissionIsSound'
  BY DEF AdmissionIsSound
<1>6. QED
  BY <1>1, <1>2, <1>3, <1>4, <1>5

\* Every step, and every stuttering step, preserves the invariant.
LEMMA NextInv == GateInv /\ [Next]_vars => GateInv'
<1> SUFFICES ASSUME GateInv, [Next]_vars PROVE GateInv'
  OBVIOUS
<1>1. CASE UNCHANGED vars
  BY <1>1 DEF vars, GateInv, TypeOK, CacheIsDated, AnswersAreDated, Published,
     OwnFetchDecides, AdmissionIsSound
<1>2. QED
  BY <1>1, TickInv, PublishInv, RetireInv, RefuseMalformedInv, DecideFromCacheInv,
     StartFetchInv, EntraAnswersInv, ReceiveInv, FetchFailsInv DEF Next

\* The inductive invariant holds in every reachable state.
THEOREM GateInvariant == Spec => []GateInv
<1>1. QED
  BY InitInv, NextInv, PTL DEF Spec

\* Every variable keeps its type (the key cache and the requests).
THEOREM GateTypeCorrect == Spec => []TypeOK
<1>1. GateInv => TypeOK
  BY DEF GateInv
<1>2. QED
  BY <1>1, GateInvariant, PTL

\* The outage a key rotation causes is shorter than the refresh interval
\* (JWKSCache._maybe_refresh), for any interleaving of fetches and rotations.
THEOREM RotationOutageIsBounded == Spec => []RotationOutageBounded
<1>1. GateInv => RotationOutageBounded
  <2> SUFFICES ASSUME GateInv, NEW k \in Published, k \notin keys, Gated
               PROVE  clock - since[k] < Interval
    BY DEF RotationOutageBounded
  <2>1. lastRefresh <= since[k] /\ clock - lastRefresh < Interval
    BY DEF GateInv, CacheIsDated, Gated
  <2>2. clock \in Int /\ lastRefresh \in Int /\ since[k] \in Int /\ Interval \in Int
    BY TokenGateAssumption DEF GateInv, TypeOK, Published
  <2>3. QED
    BY <2>1, <2>2
<1>2. QED
  BY <1>1, GateInvariant, PTL

\* A request that fetched the keys is decided by the answer to its own fetch
\* (JWKSCache.get_signing_key).
THEOREM OwnFetchIsDecisive == Spec => []OwnFetchDecides
<1>1. GateInv => OwnFetchDecides
  BY DEF GateInv
<1>2. QED
  BY <1>1, GateInvariant, PTL

\* Only a flawless token that has not expired by then is let through
\* (TokenValidationMiddleware.__call__).
THEOREM AdmissionsAreSound == Spec => []AdmissionIsSound
<1>1. GateInv => AdmissionIsSound
  BY DEF GateInv
<1>2. QED
  BY <1>1, GateInvariant, PTL
=============================================================================
