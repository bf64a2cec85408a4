---------------------------- MODULE SpecToolProofs ----------------------------
(***************************************************************************)
(* The age of the documents apim_get_api_spec answers and the duration of  *)
(* its calls, for any number of concurrent calls, attempts and exports and *)
(* any time-outs.                                                          *)
(*                                                                         *)
(* Each link, cache entry and answer is tied to the instant its document   *)
(* was superseded (the Aged definitions); a change of the API, which supersedes now, keeps *)
(* that because each of them is dated from now at the earliest.  The time  *)
(* of a call is accounted per round of attempts and per attempt (OnTime).  *)
(***************************************************************************)
EXTENDS SpecTool, TLAPS

\* Only the versions before the present one are superseded, and not in the future.
PastIsSuperseded ==
    \A v \in Versions : superseded[v] # Never => v < upstream /\ superseded[v] <= clock

\* The cache's entry is not dated from the future, and its document was superseded
\* recently if at all.
CacheAged ==
    cache.version # Never =>
        /\ cache.expires <= clock + TTL
        /\ superseded[cache.version] # Never =>
             cache.expires - superseded[cache.version] < TTL + LinkLife

\* So it is with the link a call downloads from, and with what it answered.
LinkAged(r) ==
    r.pc = "downloading" =>
        /\ r.version # Never
        /\ r.expires <= clock + LinkLife
        /\ superseded[r.version] # Never => r.expires - superseded[r.version] <= LinkLife

AnswerAged(r) ==
    r.pc = "answered" =>
        /\ r.version # Never
        /\ r.due <= clock
        /\ superseded[r.version] # Never => r.due - superseded[r.version] < TTL + LinkLife

\* The time the exports before the e-th, and the attempts before the n-th, may take.
Rounds(e) == (e - 1) * (SendTime + Attempt)
Tries(n)  == (n - 1) * (Attempt + MaxPause)

\* A call's next instant is within the time of the steps it has taken.
OnTime(r) ==
    r.pc \in Awaiting =>
        /\ clock <= r.due
        /\ r.exports \in 1 .. MaxExports
        /\ r.attempt \in 1 .. MaxAttempts
        /\ r.pc = "exporting" =>
             r.due - r.started <= Rounds(r.exports) + Tries(r.attempt) + Attempt
        /\ r.pc = "pausing" =>
             /\ r.attempt < MaxAttempts
             /\ r.due - r.started <= Rounds(r.exports) + Tries(r.attempt) + Attempt + MaxPause
        /\ r.pc = "downloading" =>
             r.due - r.started <= Rounds(r.exports) + SendTime + Attempt

CallOk(r) == r \in CallStates /\ LinkAged(r) /\ AnswerAged(r) /\ OnTime(r)

SpecInv ==
    /\ TypeOK
    /\ PastIsSuperseded
    /\ CacheAged
    /\ \A c \in Calls : CallOk(call[c])

-----------------------------------------------------------------------------
\* Times are natural numbers, and another round or attempt adds its own time.
LEMMA Durations ==
    /\ SendTime \in Nat
    /\ CallTime \in Nat
    /\ \A e \in Nat : Rounds(e) \in Int /\ Rounds(e + 1) = Rounds(e) + SendTime + Attempt
    /\ \A n \in Nat : Tries(n) \in Int /\ Tries(n + 1) = Tries(n) + Attempt + MaxPause
    /\ Rounds(1) = 0 /\ Tries(1) = 0
<1> USE SpecToolAssumption
<1>1. SendTime \in Nat
  <2>1. MaxAttempts * Attempt \in Nat /\ (MaxAttempts - 1) * MaxPause \in Nat
    OBVIOUS
  <2>2. QED
    BY <2>1 DEF SendTime
<1>2. CallTime \in Nat
  <2>1. SendTime + Attempt \in Nat
    BY <1>1
  <2>2. QED
    BY <2>1 DEF CallTime
<1>3. ASSUME NEW e \in Nat
      PROVE  Rounds(e) \in Int /\ Rounds(e + 1) = Rounds(e) + SendTime + Attempt
  BY <1>1 DEF Rounds
<1>4. ASSUME NEW n \in Nat
      PROVE  Tries(n) \in Int /\ Tries(n + 1) = Tries(n) + Attempt + MaxPause
  BY DEF Tries
<1>5. Rounds(1) = 0 /\ Tries(1) = 0
  BY <1>1 DEF Rounds, Tries
<1>6. QED
  BY <1>1, <1>2, <1>3, <1>4, <1>5

\* The attempts of one send end within SendTime.
LEMMA TriesBound ==
  ASSUME NEW n \in 1 .. MaxAttempts
  PROVE  Tries(n) + Attempt <= SendTime
<1> USE SpecToolAssumption
<1>1. (n - 1) * (Attempt + MaxPause) <= (MaxAttempts - 1) * (Attempt + MaxPause)
  OBVIOUS
<1>2. (MaxAttempts - 1) * (Attempt + MaxPause) + Attempt
        = MaxAttempts * Attempt + (MaxAttempts - 1) * MaxPause
  OBVIOUS
<1>3. QED
  BY <1>1, <1>2 DEF Tries, SendTime

\* The rounds of a call end within CallTime.
LEMMA RoundsBound ==
  ASSUME NEW e \in 1 .. MaxExports
  PROVE  Rounds(e) + SendTime + Attempt <= CallTime
<1> USE SpecToolAssumption
<1> DEFINE T == SendTime + Attempt
<1>1. T \in Nat
  BY Durations
<1>2. CallTime = MaxExports * T /\ Rounds(e) = (e - 1) * T
  BY DEF CallTime, Rounds
<1> HIDE DEF T
<1>3. e * T <= MaxExports * T /\ (e - 1) * T + T = e * T
  BY <1>1
<1>4. (e - 1) * T \in Int /\ SendTime \in Nat
  BY <1>1, Durations
<1>5. (e - 1) * T + SendTime + Attempt = (e - 1) * T + T
  BY <1>4 DEF T
<1>6. QED
  BY <1>2, <1>3, <1>5

-----------------------------------------------------------------------------
\* A call that has not begun, failed or was cancelled is in order.
LEMMA EndedOk ==
  ASSUME NEW s \in {"error", "cancelled", "idle"}
  PROVE  CallOk([Idle EXCEPT !.pc = s])
BY SpecToolAssumption
   DEF CallOk, CallStates, LinkAged, AnswerAged, OnTime, Awaiting, Idle, Versions, Never

\* The record of a call that has not begun, to be changed field by field.
LEMMA IdleRecord == Idle \in CallStates /\ Idle.started = 0
<1>1. Idle = [Idle EXCEPT !.pc = "idle"]
  BY DEF Idle
<1>2. CallOk(Idle)
  BY <1>1, EndedOk
<1>3. QED
  BY <1>2 DEF CallOk, Idle

\* The initial state satisfies the invariant.
LEMMA InitInv == Init => SpecInv
<1> SUFFICES ASSUME Init PROVE SpecInv
  OBVIOUS
<1> USE SpecToolAssumption DEF Init, Empty, Idle, Never, Versions
<1>1. TypeOK
  BY DEF TypeOK, CallStates
<1>2. PastIsSuperseded
  BY DEF PastIsSuperseded
<1>3. CacheAged
  BY DEF CacheAged
<1>4. \A c \in Calls : CallOk(call[c])
  <2>1. Idle = [Idle EXCEPT !.pc = "idle"]
    OBVIOUS
  <2>2. CallOk(Idle)
    BY <2>1, EndedOk
  <2>3. QED
    BY <2>2
<1>5. QED
  BY <1>1, <1>2, <1>3, <1>4 DEF SpecInv

\* A step that changes one call needs to leave that call in order, and the cache.
LEMMA CallChanged ==
  ASSUME SpecInv, NEW c \in Calls, NEW r, CallOk(r),
         call' = [call EXCEPT ![c] = r],
         UNCHANGED <<clock, upstream, superseded>>,
         cache' \in [version : Versions \cup {Never}, expires : 0 .. (MaxTime + TTL)],
         CacheAged'
  PROVE  SpecInv'
<1>1. \A d \in Calls : call'[d] = IF d = c THEN r ELSE call[d]
  BY DEF SpecInv, TypeOK
<1>2. TypeOK'
  BY DEF SpecInv, TypeOK, CallOk
<1>3. PastIsSuperseded'
  BY DEF SpecInv, PastIsSuperseded
<1>4. ASSUME NEW d \in Calls
      PROVE  CallOk(call[d])'
  <2>1. CallOk(call'[d])
    BY <1>1 DEF SpecInv
  <2>2. QED
    BY <2>1 DEF CallOk, LinkAged, AnswerAged, OnTime
<1>5. QED
  BY <1>2, <1>3, <1>4 DEF SpecInv

\* Time only passes when no call is due.
LEMMA TickInv ==
  ASSUME SpecInv, Tick
  PROVE  SpecInv'
<1> USE SpecToolAssumption DEF SpecInv, Tick
<1>1. TypeOK'
  BY DEF TypeOK
<1>2. clock \in Int /\ clock' = clock + 1
  BY DEF TypeOK
<1>3. PastIsSuperseded'
  BY <1>2 DEF PastIsSuperseded, TypeOK, Never, Versions
<1>4. CacheAged'
  BY <1>2 DEF CacheAged, TypeOK, Never
<1>5. ASSUME NEW c \in Calls
      PROVE  CallOk(call[c])'
  <2>1. CallOk(call[c]) /\ (call[c].pc \in Awaiting => clock < call[c].due)
    BY DEF Running
  <2>2. call[c].due \in Int /\ call[c].expires \in Int
    BY <2>1 DEF CallOk, CallStates
  <2>3. LinkAged(call[c])'
    BY <1>2, <2>1, <2>2 DEF CallOk, LinkAged
  <2>4. AnswerAged(call[c])'
    BY <1>2, <2>1, <2>2 DEF CallOk, AnswerAged
  <2>5. OnTime(call[c])'
    BY <1>2, <2>1, <2>2 DEF CallOk, OnTime
  <2>6. QED
    BY <2>1, <2>3, <2>4, <2>5 DEF CallOk
<1>6. QED
  BY <1>1, <1>3, <1>4, <1>5

\* A version superseded now is not older than any link, entry or answer.
LEMMA ChangeInv ==
  ASSUME SpecInv, Change
  PROVE  SpecInv'
<1> USE SpecToolAssumption DEF SpecInv, Change
<1>1. TypeOK'
  BY DEF TypeOK, Versions
<1>2. /\ clock \in Nat /\ clock # Never /\ upstream \in Versions
      /\ \A v \in Versions : superseded'[v] = IF v = upstream THEN clock ELSE superseded[v]
  BY DEF TypeOK, Never
<1>3. PastIsSuperseded'
  BY <1>2 DEF PastIsSuperseded, Versions
<1>4. CacheAged'
  <2>1. cache.version \in Versions \cup {Never} /\ cache.expires \in Int
    BY DEF TypeOK
  <2>2. QED
    BY <1>2, <2>1 DEF CacheAged
<1>5. ASSUME NEW c \in Calls
      PROVE  CallOk(call[c])'
  <2>1. CallOk(call[c])
    OBVIOUS
  <2>2. /\ call[c].version \in Versions \cup {Never}
        /\ call[c].due \in Int /\ call[c].expires \in Int
    BY <2>1 DEF CallOk, CallStates
  <2>3. LinkAged(call[c])'
    BY <1>2, <2>1, <2>2 DEF CallOk, LinkAged
  <2>4. AnswerAged(call[c])'
    BY <1>2, <2>1, <2>2 DEF CallOk, AnswerAged
  <2>5. OnTime(call[c])'
    BY <2>1 DEF CallOk, OnTime
  <2>6. QED
    BY <2>1, <2>3, <2>4, <2>5 DEF CallOk
<1>6. QED
  BY <1>1, <1>3, <1>4, <1>5

\* What Answered returns.
LEMMA AnsweredRecord ==
  ASSUME clock \in 0 .. MaxTime, NEW v \in Versions
  PROVE  /\ Answered(v) \in CallStates
         /\ Answered(v).pc = "answered"
         /\ Answered(v).due = clock
         /\ Answered(v).version = v
<1> USE SpecToolAssumption
<1>1. clock \in 0 .. (MaxTime + Attempt + MaxPause)
  OBVIOUS
<1>2. Idle \in CallStates
  BY IdleRecord
<1>3. Answered(v) \in CallStates
  BY <1>1, <1>2 DEF Answered, CallStates
<1>4. QED
  BY <1>2, <1>3 DEF Answered, CallStates

\* A hit answers a document as old as the entry.
LEMMA ServeCachedInv ==
  ASSUME SpecInv, NEW c \in Calls, ServeCached(c)
  PROVE  SpecInv'
<1> DEFINE r == Answered(cache.version)
<1>1. /\ call' = [call EXCEPT ![c] = r]
      /\ UNCHANGED <<clock, upstream, superseded, cache>>
      /\ cache.version # Never /\ clock < cache.expires
  BY DEF ServeCached, Cached
<1>2. /\ clock \in 0 .. MaxTime
      /\ cache.version \in Versions /\ cache.expires \in Int
      /\ superseded \in [Versions -> -1 .. MaxTime]
      /\ cache \in [version : Versions \cup {Never}, expires : 0 .. (MaxTime + TTL)]
  BY <1>1 DEF SpecInv, TypeOK
<1>3. r \in CallStates /\ r.pc = "answered" /\ r.due = clock /\ r.version = cache.version
  BY <1>2, AnsweredRecord
<1>4. superseded[r.version] # Never => r.due - superseded[r.version] < TTL + LinkLife
  BY <1>1, <1>2, <1>3, SpecToolAssumption DEF SpecInv, CacheAged
<1>5. CallOk(r)
  BY <1>1, <1>2, <1>3, <1>4 DEF CallOk, LinkAged, AnswerAged, OnTime, Awaiting
<1>6. CacheAged'
  BY <1>1 DEF SpecInv, CacheAged
<1> HIDE DEF r
<1>7. QED
  BY <1>1, <1>2, <1>5, <1>6, CallChanged

\* A miss starts the first round.
LEMMA MissInv ==
  ASSUME SpecInv, NEW c \in Calls, Miss(c)
  PROVE  SpecInv'
<1> DEFINE r == [Idle EXCEPT !.pc = "exporting", !.started = clock, !.due = clock + Attempt,
                             !.exports = 1, !.attempt = 1]
<1>1. /\ call' = [call EXCEPT ![c] = r]
      /\ UNCHANGED <<clock, upstream, superseded>>
      /\ cache' = Empty
  BY DEF Miss
<1>2. clock \in 0 .. MaxTime
  BY DEF SpecInv, TypeOK
<1>3. /\ r \in CallStates /\ r.pc = "exporting" /\ r.exports = 1 /\ r.attempt = 1
      /\ r.due = clock + Attempt /\ r.started = clock
  <2> DEFINE d == clock + Attempt
  <2>1. /\ d \in 0 .. (MaxTime + Attempt + MaxPause)
        /\ 1 \in 0 .. MaxExports /\ 1 \in 0 .. MaxAttempts /\ 0 \in 0 .. (MaxTime + LinkLife)
    BY <1>2, SpecToolAssumption
  <2> HIDE DEF d
  <2>2. r = [Idle EXCEPT !.pc = "exporting", !.started = clock, !.due = d,
                         !.exports = 1, !.attempt = 1]
    BY DEF d
  <2>3. Idle \in CallStates
    BY IdleRecord
  <2>4. r \in CallStates
    BY <1>2, <2>1, <2>2, <2>3 DEF CallStates, Awaiting
  <2>5. QED
    BY <2>2, <2>3, <2>4 DEF CallStates, d
<1>4. CallOk(r)
  BY <1>2, <1>3, Durations, SpecToolAssumption DEF CallOk, LinkAged, AnswerAged, OnTime
<1>5. cache' \in [version : Versions \cup {Never}, expires : 0 .. (MaxTime + TTL)] /\ CacheAged'
  BY <1>1, SpecToolAssumption DEF Empty, CacheAged
<1> HIDE DEF r
<1>6. QED
  BY <1>1, <1>4, <1>5, CallChanged

\* A call in progress is in order, and its fields have their types.
LEMMA Known ==
  ASSUME SpecInv, NEW c \in Calls
  PROVE  /\ clock \in 0 .. MaxTime
         /\ cache \in [version : Versions \cup {Never}, expires : 0 .. (MaxTime + TTL)]
         /\ superseded \in [Versions -> -1 .. MaxTime]
         /\ upstream \in Versions
         /\ CallOk(call[c]) /\ call[c] \in CallStates
         /\ CacheAged
         /\ call \in [Calls -> CallStates]
BY DEF SpecInv, TypeOK, CallOk

\* The cache's invariant does not look at the calls.
LEMMA CacheKept ==
  ASSUME SpecInv, UNCHANGED <<clock, superseded, cache>>
  PROVE  /\ CacheAged'
         /\ cache' \in [version : Versions \cup {Never}, expires : 0 .. (MaxTime + TTL)]
BY DEF SpecInv, CacheAged, TypeOK

\* The next attempt follows the pause.
LEMMA ResendInv ==
  ASSUME SpecInv, NEW c \in Calls, Resend(c)
  PROVE  SpecInv'
<1> DEFINE o == call[c]
           r == [o EXCEPT !.pc = "exporting", !.due = clock + Attempt, !.attempt = @ + 1]
<1>1. /\ call' = [call EXCEPT ![c] = r]
      /\ UNCHANGED <<clock, upstream, superseded, cache>>
      /\ o.pc = "pausing" /\ clock >= o.due
  BY DEF Resend
<1>2. clock \in 0 .. MaxTime /\ CallOk(o) /\ o \in CallStates
  BY Known
<1> HIDE DEF o
<1>3. o.attempt < MaxAttempts /\ clock = o.due /\ o.exports \in 1 .. MaxExports
      /\ o.attempt \in 1 .. MaxAttempts
      /\ o.due - o.started <= Rounds(o.exports) + Tries(o.attempt) + Attempt + MaxPause
  BY <1>1, <1>2, SpecToolAssumption DEF CallOk, OnTime, Awaiting, CallStates
<1>4. /\ r \in CallStates /\ r.pc = "exporting" /\ r.exports = o.exports
      /\ r.attempt = o.attempt + 1 /\ r.due = clock + Attempt /\ r.started = o.started
  <2> DEFINE d == clock + Attempt
             n == o.attempt + 1
  <2>1. d \in 0 .. (MaxTime + Attempt + MaxPause) /\ n \in 0 .. MaxAttempts
    BY <1>2, <1>3, SpecToolAssumption
  <2> HIDE DEF d, n
  <2>2. r = [o EXCEPT !.pc = "exporting", !.due = d, !.attempt = n]
    BY DEF d, n
  <2>3. r \in CallStates
    BY <1>2, <2>1, <2>2 DEF CallStates, Awaiting
  <2>4. QED
    BY <1>2, <2>2, <2>3 DEF CallStates, d, n
<1> HIDE DEF r
<1>5. Tries(r.attempt) = Tries(o.attempt) + Attempt + MaxPause /\ Tries(o.attempt) \in Int
      /\ Rounds(o.exports) \in Int
  BY <1>3, <1>4, Durations
<1>6. r.due - r.started <= Rounds(r.exports) + Tries(r.attempt) + Attempt
  <2>1. o.due \in Int /\ o.started \in Int
    BY <1>2 DEF CallStates
  <2>2. QED
    BY <1>2, <1>3, <1>4, <1>5, <2>1, SpecToolAssumption
<1>7. CallOk(r)
  BY <1>2, <1>3, <1>4, <1>6, SpecToolAssumption DEF CallOk, LinkAged, AnswerAged, OnTime
<1>8. QED
  BY <1>1, <1>7, CacheKept, CallChanged

\* A pause takes no longer than MaxPause.
LEMMA ThrottledInv ==
  ASSUME SpecInv, NEW c \in Calls, NEW pause \in 0 .. MaxPause, Throttled(c, pause)
  PROVE  SpecInv'
<1> DEFINE o == call[c]
           r == [o EXCEPT !.pc = "pausing", !.due = clock + pause]
<1>1. /\ call' = [call EXCEPT ![c] = r]
      /\ UNCHANGED <<clock, upstream, superseded, cache>>
      /\ o.pc = "exporting" /\ o.attempt < MaxAttempts
  BY DEF Throttled
<1>2. clock \in 0 .. MaxTime /\ CallOk(o) /\ o \in CallStates
  BY Known
<1> HIDE DEF o
<1>3. /\ clock <= o.due /\ o.exports \in 1 .. MaxExports /\ o.attempt \in 1 .. MaxAttempts
      /\ o.due - o.started <= Rounds(o.exports) + Tries(o.attempt) + Attempt
  BY <1>1, <1>2 DEF CallOk, OnTime, Awaiting
<1>4. /\ r \in CallStates /\ r.pc = "pausing" /\ r.exports = o.exports
      /\ r.attempt = o.attempt /\ r.due = clock + pause /\ r.started = o.started
  <2> DEFINE d == clock + pause
  <2>1. d \in 0 .. (MaxTime + Attempt + MaxPause)
    BY <1>2, SpecToolAssumption
  <2> HIDE DEF d
  <2>2. r = [o EXCEPT !.pc = "pausing", !.due = d]
    BY DEF d
  <2>3. r \in CallStates
    BY <1>2, <2>1, <2>2 DEF CallStates, Awaiting
  <2>4. QED
    BY <1>2, <2>2, <2>3 DEF CallStates, d
<1> HIDE DEF r
<1>5. r.due - r.started <= Rounds(r.exports) + Tries(r.attempt) + Attempt + MaxPause
  <2>1. /\ Tries(o.attempt) \in Int /\ Rounds(o.exports) \in Int
        /\ o.due \in Int /\ o.started \in Int
    BY <1>2, <1>3, Durations DEF CallStates
  <2>2. QED
    BY <1>2, <1>3, <1>4, <2>1, SpecToolAssumption
<1>6. CallOk(r)
  BY <1>1, <1>2, <1>3, <1>4, <1>5, SpecToolAssumption DEF CallOk, LinkAged, AnswerAged, OnTime
<1>7. QED
  BY <1>1, <1>6, CacheKept, CallChanged

\* A call that fails or is cancelled is out of all accounts.
LEMMA EndInv ==
  ASSUME SpecInv, NEW c \in Calls, NEW s \in {"error", "cancelled"},
         call' = [call EXCEPT ![c] = [Idle EXCEPT !.pc = s]],
         UNCHANGED <<clock, upstream, superseded, cache>>
  PROVE  SpecInv'
<1> DEFINE r == [Idle EXCEPT !.pc = s]
<1>1. CallOk(r) /\ call' = [call EXCEPT ![c] = r]
  BY EndedOk
<1> HIDE DEF r
<1>2. QED
  BY <1>1, CacheKept, CallChanged

\* The exported version is the present one: it is not superseded.
LEMMA ExportedInv ==
  ASSUME SpecInv, NEW c \in Calls, Exported(c)
  PROVE  SpecInv'
<1> DEFINE o == call[c]
           r == [o EXCEPT !.pc = "downloading", !.due = clock + Attempt,
                          !.version = upstream, !.expires = clock + LinkLife]
<1>1. /\ call' = [call EXCEPT ![c] = r]
      /\ UNCHANGED <<clock, upstream, superseded, cache>>
      /\ o.pc = "exporting"
  BY DEF Exported
<1>2. clock \in 0 .. MaxTime /\ CallOk(o) /\ o \in CallStates /\ upstream \in Versions
  BY Known
<1>3. superseded[upstream] = Never /\ upstream # Never
  BY <1>2, SpecToolAssumption DEF SpecInv, PastIsSuperseded, Versions, Never
<1> HIDE DEF o
<1>4. /\ clock <= o.due /\ o.exports \in 1 .. MaxExports /\ o.attempt \in 1 .. MaxAttempts
      /\ o.due - o.started <= Rounds(o.exports) + Tries(o.attempt) + Attempt
  BY <1>1, <1>2 DEF CallOk, OnTime, Awaiting
<1>5. /\ r \in CallStates /\ r.pc = "downloading" /\ r.exports = o.exports
      /\ r.attempt = o.attempt /\ r.due = clock + Attempt /\ r.started = o.started
      /\ r.version = upstream /\ r.expires = clock + LinkLife
  <2> DEFINE d == clock + Attempt
             x == clock + LinkLife
  <2>1. d \in 0 .. (MaxTime + Attempt + MaxPause) /\ x \in 0 .. (MaxTime + LinkLife)
    BY <1>2, SpecToolAssumption
  <2> HIDE DEF d, x
  <2>2. r = [o EXCEPT !.pc = "downloading", !.due = d, !.version = upstream, !.expires = x]
    BY DEF d, x
  <2>3. r \in CallStates
    BY <1>2, <2>1, <2>2 DEF CallStates, Awaiting
  <2>4. QED
    BY <1>2, <2>2, <2>3 DEF CallStates, d, x
<1> HIDE DEF r
<1>6. r.due - r.started <= Rounds(r.exports) + SendTime + Attempt
  <2>1. /\ Tries(o.attempt) \in Int /\ Rounds(o.exports) \in Int /\ SendTime \in Int
        /\ o.due \in Int /\ o.started \in Int
    BY <1>2, <1>4, Durations DEF CallStates
  <2>2. Tries(o.attempt) + Attempt <= SendTime
    BY <1>4, TriesBound
  <2>3. QED
    BY <1>2, <1>4, <1>5, <2>1, <2>2, SpecToolAssumption
<1>7. CallOk(r)
  BY <1>2, <1>3, <1>4, <1>5, <1>6, SpecToolAssumption
     DEF CallOk, LinkAged, AnswerAged, OnTime
<1>8. QED
  BY <1>1, <1>7, CacheKept, CallChanged

\* A failed download starts the next round, or fails the call.
LEMMA DownloadFailsInv ==
  ASSUME SpecInv, NEW c \in Calls, DownloadFails(c)
  PROVE  SpecInv'
<1> DEFINE o == call[c]
           r == [o EXCEPT !.pc = "exporting", !.due = clock + Attempt,
                          !.exports = @ + 1, !.attempt = 1]
<1>1. /\ UNCHANGED <<clock, upstream, superseded, cache>>
      /\ o.pc = "downloading"
  BY DEF DownloadFails
<1>2. CASE ~(o.exports < MaxExports)
  BY <1>1, <1>2, EndInv DEF DownloadFails, Fail
<1>3. CASE o.exports < MaxExports
  <2>1. call' = [call EXCEPT ![c] = r]
    BY <1>3 DEF DownloadFails
  <2>2. clock \in 0 .. MaxTime /\ CallOk(o) /\ o \in CallStates
    BY Known
  <2> HIDE DEF o
  <2>3. /\ clock <= o.due /\ o.exports \in 1 .. MaxExports
        /\ o.due - o.started <= Rounds(o.exports) + SendTime + Attempt
    BY <1>1, <2>2 DEF CallOk, OnTime, Awaiting
  <2>4. /\ r \in CallStates /\ r.pc = "exporting" /\ r.exports = o.exports + 1
        /\ r.attempt = 1 /\ r.due = clock + Attempt /\ r.started = o.started
    <3> DEFINE d == clock + Attempt
               e == o.exports + 1
    <3>1. /\ d \in 0 .. (MaxTime + Attempt + MaxPause) /\ e \in 0 .. MaxExports
          /\ 1 \in 0 .. MaxAttempts
      BY <1>3, <2>2, <2>3, SpecToolAssumption
    <3> HIDE DEF d, e
    <3>2. r = [o EXCEPT !.pc = "exporting", !.due = d, !.exports = e, !.attempt = 1]
      BY DEF d, e
    <3>3. r \in CallStates
      BY <2>2, <3>1, <3>2 DEF CallStates, Awaiting
    <3>4. QED
      BY <2>2, <3>2, <3>3 DEF CallStates, d, e
  <2> HIDE DEF r
  <2>5. /\ Rounds(r.exports) = Rounds(o.exports) + SendTime + Attempt
        /\ Rounds(o.exports) \in Int /\ SendTime \in Int /\ Tries(r.attempt) = 0
    BY <2>3, <2>4, Durations
  <2>6. r.due - r.started <= Rounds(r.exports) + Tries(r.attempt) + Attempt
    <3>1. o.due \in Int /\ o.started \in Int
      BY <2>2 DEF CallStates
    <3>2. QED
      BY <2>2, <2>3, <2>4, <2>5, <3>1, SpecToolAssumption
  <2>7. CallOk(r)
    BY <1>3, <2>2, <2>3, <2>4, <2>6, SpecToolAssumption
       DEF CallOk, LinkAged, AnswerAged, OnTime
  <2>8. QED
    BY <1>1, <2>1, <2>7, CacheKept, CallChanged
<1>4. QED
  BY <1>2, <1>3

\* A document is put in the cache while its link is alive.
LEMMA DownloadedInv ==
  ASSUME SpecInv, NEW c \in Calls, Downloaded(c)
  PROVE  SpecInv'
<1> DEFINE o == call[c]
           r == Answered(o.version)
<1>1. /\ call' = [call EXCEPT ![c] = r]
      /\ UNCHANGED <<clock, upstream, superseded>>
      /\ cache' = [version |-> o.version, expires |-> clock + TTL]
      /\ o.pc = "downloading" /\ clock < o.expires
  BY DEF Downloaded
<1>2. /\ clock \in 0 .. MaxTime /\ CallOk(o) /\ o \in CallStates
      /\ superseded \in [Versions -> -1 .. MaxTime]
  BY Known
<1> HIDE DEF o
<1>3. /\ o.version \in Versions /\ o.expires \in Int
      /\ superseded[o.version] # Never => o.expires - superseded[o.version] <= LinkLife
  BY <1>1, <1>2 DEF CallOk, LinkAged, CallStates
<1>4. /\ o.version # Never
      /\ superseded[o.version] \in Int
      /\ superseded[o.version] # Never => clock - superseded[o.version] < LinkLife
  BY <1>1, <1>2, <1>3, SpecToolAssumption DEF Versions, Never
<1>5. r \in CallStates /\ r.pc = "answered" /\ r.due = clock /\ r.version = o.version
  BY <1>2, <1>3, AnsweredRecord
<1> HIDE DEF r
<1>6. CallOk(r)
  BY <1>2, <1>4, <1>5, SpecToolAssumption DEF CallOk, LinkAged, AnswerAged, OnTime, Awaiting
<1>7. /\ cache' \in [version : Versions \cup {Never}, expires : 0 .. (MaxTime + TTL)]
      /\ CacheAged'
  BY <1>1, <1>2, <1>3, <1>4, SpecToolAssumption DEF CacheAged
<1>8. QED
  BY <1>1, <1>6, <1>7, CallChanged

\* Every step preserves the invariant.
LEMMA NextInv == SpecInv /\ [Next]_vars => SpecInv'
<1> SUFFICES ASSUME SpecInv, [Next]_vars PROVE SpecInv'
  OBVIOUS
<1>1. CASE UNCHANGED vars
  BY <1>1 DEF vars, SpecInv, TypeOK, PastIsSuperseded, CacheAged, CallOk, LinkAged,
     AnswerAged, OnTime
<1>2. ASSUME NEW c \in Calls, CallStep(c)
      PROVE  SpecInv'
  <2>1. CASE Resend(c)
    BY <2>1, ResendInv
  <2>2. ASSUME NEW pause \in 0 .. MaxPause, Throttled(c, pause)
        PROVE  SpecInv'
    BY <2>2, ThrottledInv
  <2>3. CASE ExportFails(c)
    BY <2>3, EndInv DEF ExportFails, Fail
  <2>4. CASE Exported(c)
    BY <2>4, ExportedInv
  <2>5. CASE DownloadFails(c)
    BY <2>5, DownloadFailsInv
  <2>6. CASE Unparseable(c)
    BY <2>6, EndInv DEF Unparseable, Fail
  <2>7. CASE Downloaded(c)
    BY <2>7, DownloadedInv
  <2>8. QED
    BY <1>2, <2>1, <2>2, <2>3, <2>4, <2>5, <2>6, <2>7 DEF CallStep
<1>3. ASSUME NEW c \in Calls, Cancel(c)
      PROVE  SpecInv'
  BY <1>3, EndInv DEF Cancel
<1>4. QED
  BY <1>1, <1>2, <1>3, TickInv, ChangeInv, ServeCachedInv, MissInv DEF Next

\* The inductive invariant holds in every reachable state.
THEOREM SpecToolInvariant == Spec => []SpecInv
<1>1. QED
  BY InitInv, NextInv, PTL DEF Spec

\* Every variable keeps its type.
THEOREM SpecToolTypeCorrect == Spec => []TypeOK
<1>1. SpecInv => TypeOK
  BY DEF SpecInv
<1>2. QED
  BY <1>1, SpecToolInvariant, PTL

\* No answer is older than the cache and one link allow, for any interleaving of the
\* calls that share the cache (SpecDocumentCache, fetch_spec_document).
THEOREM DocumentAgeIsBounded == Spec => []DocumentAgeBounded
<1>1. SpecInv => DocumentAgeBounded
  BY DEF SpecInv, CallOk, AnswerAged, DocumentAgeBounded
<1>2. QED
  BY <1>1, SpecToolInvariant, PTL

\* No call lasts longer than its two nested retry loops allow (fetch_spec_document,
\* ArmClient._send).
THEOREM CallTimeIsBounded == Spec => []CallTimeBounded
<1>1. SpecInv => CallTimeBounded
  <2> SUFFICES ASSUME SpecInv, NEW c \in Calls, Running(c)
               PROVE  clock - call[c].started <= CallTime
    BY DEF CallTimeBounded
  <2> DEFINE o == call[c]
  <2>1. /\ clock \in Int /\ CallOk(o) /\ o \in CallStates /\ o.pc \in Awaiting
    BY Known DEF Running
  <2> HIDE DEF o
  <2>2. clock <= o.due /\ o.exports \in 1 .. MaxExports /\ o.attempt \in 1 .. MaxAttempts
    BY <2>1 DEF CallOk, OnTime
  <2>3. /\ Rounds(o.exports) \in Int /\ Tries(o.attempt) \in Int
        /\ SendTime \in Nat /\ CallTime \in Nat
        /\ Tries(o.attempt + 1) = Tries(o.attempt) + Attempt + MaxPause
    BY <2>2, Durations
  <2>4. /\ Rounds(o.exports) + SendTime + Attempt <= CallTime
        /\ Tries(o.attempt) + Attempt <= SendTime
    BY <2>2, RoundsBound, TriesBound
  <2>5. o.pc = "pausing" => Tries(o.attempt) + Attempt + MaxPause <= SendTime
    <3> SUFFICES ASSUME o.pc = "pausing"
                 PROVE  Tries(o.attempt) + Attempt + MaxPause <= SendTime
      OBVIOUS
    <3>1. o.attempt + 1 \in 1 .. MaxAttempts
      BY <2>1, <2>2, SpecToolAssumption DEF CallOk, OnTime
    <3>2. Tries(o.attempt + 1) + Attempt <= SendTime
      BY <3>1, TriesBound
    <3>3. QED
      BY <2>3, <3>2, SpecToolAssumption
  <2>6. o.due - o.started <= Rounds(o.exports) + SendTime + Attempt
    BY <2>1, <2>3, <2>4, <2>5, SpecToolAssumption DEF CallOk, OnTime, Awaiting, CallStates
  <2>7. o.due \in Int /\ o.started \in Int
    BY <2>1 DEF CallStates
  <2>8. clock - o.started <= CallTime
    BY <2>1, <2>2, <2>3, <2>4, <2>6, <2>7, SpecToolAssumption
  <2>9. QED
    BY <2>8 DEF o
<1>2. QED
  BY <1>1, SpecToolInvariant, PTL
=============================================================================
