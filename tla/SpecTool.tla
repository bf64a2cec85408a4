------------------------------- MODULE SpecTool -------------------------------
(***************************************************************************)
(* Calls of apim_get_api_spec for one API by one caller, running on one    *)
(* event loop: the tool (tools/config.py) with the cache they share, the   *)
(* export and download of a document (clients/apim.py), the attempts of    *)
(* ArmClient._send, and the wrapper that answers and audits (server.py).   *)
(*                                                                         *)
(* Between two awaits a call runs alone.  It awaits ARM's answer to an     *)
(* attempt ("exporting"), the pause before the next one ("pausing") or the *)
(* blob store ("downloading").  Each await ends by the instant `due`: ARM  *)
(* and the blob store within Attempt, which stands for httpx's time-outs,  *)
(* a pause exactly then.  Time does not pass an instant that is due.       *)
(*                                                                         *)
(* A document is the version of the API it was exported from.              *)
(*                                                                         *)
(* A definition whose comment starts with "Fault" is a plausible bug; it   *)
(* is in no specification, and shows that a property can be violated.      *)
(***************************************************************************)
EXTENDS Integers

CONSTANTS
    Calls,        \* calls in progress at once
    MaxExports,   \* _MAX_EXPORT_ATTEMPTS
    MaxAttempts,  \* _MAX_ATTEMPTS of ArmClient
    Attempt,      \* the longest a request takes, in ticks
    MaxPause,     \* the longest backoff or Retry-After, in ticks
    LinkLife,     \* how long the blob store honours an export's link
    TTL,          \* index_ttl_seconds, in ticks
    MaxTime,      \* bound on the clock
    MaxVersion    \* bound on the changes of the API

ASSUME SpecToolAssumption ==
    /\ MaxExports \in Nat \ {0} /\ MaxAttempts \in Nat \ {0}
    /\ Attempt \in Nat /\ MaxPause \in Nat
    /\ LinkLife \in Nat \ {0} /\ TTL \in Nat
    /\ MaxTime \in Nat /\ MaxVersion \in Nat

VARIABLES
    clock,
    upstream,    \* the API's version in APIM
    superseded,  \* when each version was replaced, or Never
    cache,       \* _entries at the calls' key
    call

vars == <<clock, upstream, superseded, cache, call>>

Never    == -1
Versions == 0 .. MaxVersion
Empty    == [version |-> Never, expires |-> 0]

\* No send takes longer than this, nor does a call.
SendTime == MaxAttempts * Attempt + (MaxAttempts - 1) * MaxPause
CallTime == MaxExports * (SendTime + Attempt)

Awaiting == {"exporting", "pausing", "downloading"}
Idle == [pc |-> "idle", started |-> 0, due |-> 0, exports |-> 0, attempt |-> 0,
         version |-> Never, expires |-> 0]

CallStates == [pc      : Awaiting \cup {"idle", "answered", "error", "cancelled"},
               started : 0 .. MaxTime,
               due     : 0 .. (MaxTime + Attempt + MaxPause),
               exports : 0 .. MaxExports,
               attempt : 0 .. MaxAttempts,
               version : Versions \cup {Never},
               expires : 0 .. (MaxTime + LinkLife)]

TypeOK ==
    /\ clock \in 0 .. MaxTime
    /\ upstream \in Versions
    /\ superseded \in [Versions -> -1 .. MaxTime]
    /\ cache \in [version : Versions \cup {Never}, expires : 0 .. (MaxTime + TTL)]
    /\ call \in [Calls -> CallStates]

Running(c) == call[c].pc \in Awaiting

\* SpecDocumentCache.get
Cached == cache.version # Never /\ clock < cache.expires

Init ==
    /\ clock = 0
    /\ upstream = 0
    /\ superseded = [v \in Versions |-> Never]
    /\ cache = Empty
    /\ call = [c \in Calls |-> Idle]

(***************************************************************************)
(* The environment.                                                        *)
(***************************************************************************)
Tick ==
    /\ clock < MaxTime
    /\ \A c \in Calls : Running(c) => clock < call[c].due
    /\ clock' = clock + 1
    /\ UNCHANGED <<upstream, superseded, cache, call>>

\* Someone changes the API.
Change ==
    /\ upstream < MaxVersion
    /\ upstream' = upstream + 1
    /\ superseded' = [superseded EXCEPT ![upstream] = clock]
    /\ UNCHANGED <<clock, cache, call>>

(***************************************************************************)
(* How a call ends: audited_tool turns an exception into an error result.  *)
(* An answered call keeps the instant in `due`.                            *)
(***************************************************************************)
Answered(version) == [Idle EXCEPT !.pc = "answered", !.due = clock, !.version = version]

Fail(c) == call' = [call EXCEPT ![c] = [Idle EXCEPT !.pc = "error"]]

(***************************************************************************)
(* apim_get_api_spec, until its first await.                               *)
(***************************************************************************)

\* Fault: a hit prolongs the entry.
ServeCachedAndRenew(c) ==
    /\ ~Running(c)
    /\ Cached
    /\ call' = [call EXCEPT ![c] = Answered(cache.version)]
    /\ cache' = [cache EXCEPT !.expires = clock + TTL]
    /\ UNCHANGED <<clock, upstream, superseded>>

ServeCached(c) ==
    /\ ~Running(c)
    /\ Cached
    /\ call' = [call EXCEPT ![c] = Answered(cache.version)]
    /\ UNCHANGED <<clock, upstream, superseded, cache>>

\* Nothing usable in the cache (an entry that expired is deleted): export.  The
\* call may last CallTime, which the bound on the clock leaves room for.
Miss(c) ==
    /\ ~Running(c)
    /\ ~Cached
    /\ clock + CallTime <= MaxTime
    /\ cache' = Empty
    /\ call' = [call EXCEPT ![c] = [Idle EXCEPT !.pc = "exporting", !.started = clock,
                                                !.due = clock + Attempt,
                                                !.exports = 1, !.attempt = 1]]
    /\ UNCHANGED <<clock, upstream, superseded>>

(***************************************************************************)
(* ArmClient._send: one action per outcome of an attempt.                  *)
(***************************************************************************)

\* Fault: the attempts are counted afresh after a pause.
ResendCountsAfresh(c) ==
    /\ call[c].pc = "pausing"
    /\ clock >= call[c].due
    /\ call' = [call EXCEPT ![c].pc = "exporting", ![c].due = clock + Attempt,
                            ![c].attempt = 1]
    /\ UNCHANGED <<clock, upstream, superseded, cache>>

Resend(c) ==
    /\ call[c].pc = "pausing"
    /\ clock >= call[c].due
    /\ call' = [call EXCEPT ![c].pc = "exporting", ![c].due = clock + Attempt,
                            ![c].attempt = @ + 1]
    /\ UNCHANGED <<clock, upstream, superseded, cache>>

\* Fault: the last attempt is followed by a pause too.
ThrottledOnceMore(c, pause) ==
    /\ call[c].pc = "exporting"
    /\ call[c].attempt <= MaxAttempts
    /\ call' = [call EXCEPT ![c].pc = "pausing", ![c].due = clock + pause]
    /\ UNCHANGED <<clock, upstream, superseded, cache>>

\* 429, 5xx or a transport error: pause for the Retry-After or the backoff.
Throttled(c, pause) ==
    /\ call[c].pc = "exporting"
    /\ call[c].attempt < MaxAttempts
    /\ call' = [call EXCEPT ![c].pc = "pausing", ![c].due = clock + pause]
    /\ UNCHANGED <<clock, upstream, superseded, cache>>

\* The same of the last attempt, or what is not tried again: a 4xx, a body that is
\* not JSON or has no link, an exception of the credential.
ExportFails(c) ==
    /\ call[c].pc = "exporting"
    /\ Fail(c)
    /\ UNCHANGED <<clock, upstream, superseded, cache>>

\* APIM exports the document as it is now, to a link with a life of its own.
Exported(c) ==
    /\ call[c].pc = "exporting"
    /\ call' = [call EXCEPT ![c].pc = "downloading", ![c].due = clock + Attempt,
                            ![c].version = upstream, ![c].expires = clock + LinkLife]
    /\ UNCHANGED <<clock, upstream, superseded, cache>>

(***************************************************************************)
(* fetch_spec_document, from the answer of the blob store.                 *)
(***************************************************************************)

\* Fault: a failed download is tried again without a limit.
DownloadFailsForEver(c) ==
    /\ call[c].pc = "downloading"
    /\ call' = [call EXCEPT ![c].pc = "exporting", ![c].due = clock + Attempt,
                            ![c].attempt = 1]
    /\ UNCHANGED <<clock, upstream, superseded, cache>>

\* The link expired, or the transport or the store failed: export once more.
DownloadFails(c) ==
    /\ call[c].pc = "downloading"
    /\ IF call[c].exports < MaxExports
         THEN call' = [call EXCEPT ![c].pc = "exporting", ![c].due = clock + Attempt,
                                   ![c].exports = @ + 1, ![c].attempt = 1]
         ELSE Fail(c)
    /\ UNCHANGED <<clock, upstream, superseded, cache>>

\* The store sent something that is not a document.
Unparseable(c) ==
    /\ call[c].pc = "downloading"
    /\ clock < call[c].expires
    /\ Fail(c)
    /\ UNCHANGED <<clock, upstream, superseded, cache>>

\* The document is put in the cache, over what another call put there, and answered.
Downloaded(c) ==
    /\ call[c].pc = "downloading"
    /\ clock < call[c].expires
    /\ cache' = [version |-> call[c].version, expires |-> clock + TTL]
    /\ call' = [call EXCEPT ![c] = Answered(call[c].version)]
    /\ UNCHANGED <<clock, upstream, superseded>>

\* The client goes away or the server stops: CancelledError at the call's await.
Cancel(c) ==
    /\ Running(c)
    /\ call' = [call EXCEPT ![c] = [Idle EXCEPT !.pc = "cancelled"]]
    /\ UNCHANGED <<clock, upstream, superseded, cache>>

CallStep(c) ==
    \/ Resend(c)
    \/ \E pause \in 0 .. MaxPause : Throttled(c, pause)
    \/ ExportFails(c)
    \/ Exported(c)
    \/ DownloadFails(c)
    \/ Unparseable(c)
    \/ Downloaded(c)

Next ==
    \/ Tick
    \/ Change
    \/ \E c \in Calls : ServeCached(c)
    \/ \E c \in Calls : Miss(c)
    \/ \E c \in Calls : CallStep(c)
    \/ \E c \in Calls : Cancel(c)

Spec == Init /\ [][Next]_vars

\* Time passes, however many steps other calls take (each takes some time, so that
\* there cannot be infinitely many between two ticks: hence the strong fairness),
\* and the loop resumes a call whose await has ended.
Fairness ==
    /\ SF_vars(Tick)
    /\ \A c \in Calls : WF_vars(CallStep(c))

FairSpec == Spec /\ Fairness

-----------------------------------------------------------------------------
(***************************************************************************)
(* Properties.                                                             *)
(***************************************************************************)

\* A document that is answered was the API's definition less than the cache's time
\* to live and the life of one link ago, whichever call fetched it, however often it
\* was served and in whatever order concurrent fetches ended (SpecDocumentCache
\* keeps documents, dated by their put, and never links).
DocumentAgeBounded ==
    \A c \in Calls : call[c].pc = "answered" =>
        LET gone == superseded[call[c].version]
        IN  gone # Never => call[c].due - gone < TTL + LinkLife

\* No call lasts longer than two exports of a full round of attempts and a download
\* each: the two retry loops, one inside the other, do not multiply further.
CallTimeBounded ==
    \A c \in Calls : Running(c) => clock - call[c].started <= CallTime

\* A call ends whatever ARM and the blob store answer.
CallEnds == \A c \in Calls : Running(c) ~> ~Running(c)
=============================================================================
