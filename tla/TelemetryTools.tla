---------------------------- MODULE TelemetryTools ----------------------------
(***************************************************************************)
(* The tools that query Log Analytics: apim_get_service_health with its    *)
(* fan-out (tools/discovery.py), apim_get_metrics, apim_query_gateway_logs *)
(* and apim_summarize_errors (tools/telemetry.py, clients/metrics.py,      *)
(* clients/logs.py), over run_workspace_query (clients/_loganalytics.py).  *)
(*                                                                         *)
(* A call has one task "query", which looks the workspace up and queries   *)
(* it; a health call has three more, each one read of ARM.  The reads have *)
(* no bound of their own here: SpecTool shows how long retries take.       *)
(* `clock` is the time since the call began.  Timers are prompt: time does *)
(* not pass a deadline that has not been acted on.                         *)
(*                                                                         *)
(* A definition whose comment starts with "Fault" is a plausible bug; it   *)
(* is in no specification, and shows that a property can be violated.      *)
(***************************************************************************)
EXTENDS Integers

CONSTANTS
    ClientTimeout,   \* _CLIENT_TIMEOUT_SECONDS, in ticks
    HealthTimeout,   \* _HEALTH_TIMEOUT_SECONDS, in ticks
    MaxLimit,        \* _MAX_LIMIT, _MAX_TOP
    Limits,          \* the limits a caller gives
    MaxRows,         \* bound on the rows that match a query
    Room,            \* the rows that fit max_response_bytes
    MaxTime          \* bound on the clock

ASSUME TelemetryAssumption ==
    /\ ClientTimeout \in Nat /\ HealthTimeout \in Nat /\ MaxTime \in Nat
    /\ MaxLimit \in Nat \ {0} /\ Limits \subseteq Int
    /\ MaxRows \in Nat /\ Room \in Nat

VARIABLES clock, request, state, task, found, answer

vars == <<clock, request, state, task, found, answer>>

ArmTasks == {"service", "resource", "network"}
Tasks    == ArmTasks \cup {"query"}
Busy     == {"asking", "resolving", "querying", "cancelling"}

\* The sections of a health view, and the task each is made from.
SectionOf == [provisioningState |-> "service", certificateExpiry |-> "service",
              resourceHealth |-> "resource", networkStatus |-> "network",
              capacityMetric |-> "query"]
Sections == DOMAIN SectionOf

\* The codes of a partial error: that there is one, a missing table, anything else.
Codes   == {"partial", "missing", "other"}
Missing == {"missing"}

NoSection == [s \in Sections |-> "none"]
NoAnswer  == [kind |-> "none", rows |-> 0, truncated |-> FALSE, section |-> NoSection]
ToolError == [kind |-> "error", rows |-> 0, truncated |-> FALSE, section |-> NoSection]

TypeOK ==
    /\ clock \in 0 .. MaxTime
    /\ request \in [tool : {"health", "metrics", "logs"}, stored : 0 .. MaxRows,
                    limit : 1 .. MaxLimit, clamped : BOOLEAN, auto : BOOLEAN]
    /\ state \in {"idle", "waiting", "closing", "ended", "gone"}
    /\ task \in [Tasks -> Busy \cup {"absent", "ok", "unavailable", "raised", "cancelled"}]
    /\ found \in [rows : 0 .. MaxRows, partial : BOOLEAN]
    /\ answer \in [kind : {"none", "ok", "error"}, rows : 0 .. MaxRows, truncated : BOOLEAN,
                   section : [Sections -> {"none", "ok", "partial", "unavailable"}]]

Running == state \in {"waiting", "closing"}
Pending == {t \in Tasks : task[t] \in Busy}

Init ==
    /\ clock = 0
    /\ request = [tool |-> "logs", stored |-> 0, limit |-> 1, clamped |-> FALSE, auto |-> FALSE]
    /\ state = "idle"
    /\ task = [t \in Tasks |-> "absent"]
    /\ found = [rows |-> 0, partial |-> FALSE]
    /\ answer = NoAnswer

\* Fault: the budget is that of the query alone.
BudgetSpentQuerying == task["query"] = "querying" /\ clock >= ClientTimeout

\* asyncio.timeout covers the look-up and the query.
BudgetSpent == task["query"] \in {"resolving", "querying"} /\ clock >= ClientTimeout

DeadlineReached ==
    state = "waiting" /\ request.tool = "health" /\ clock >= HealthTimeout /\ Pending # {}

Tick ==
    /\ clock < MaxTime
    /\ Pending # {}
    /\ ~BudgetSpent /\ ~DeadlineReached
    /\ state # "closing"
    /\ clock' = clock + 1
    /\ UNCHANGED <<request, state, task, found, answer>>

(***************************************************************************)
(* How a call begins.                                                      *)
(***************************************************************************)
Begin(tool, stored, query) ==
    /\ ~Running /\ Pending = {}
    /\ clock' = 0
    /\ state' = "waiting"
    /\ task' = [t \in Tasks |-> IF t = "query" THEN query
                                ELSE IF tool = "health" THEN "asking" ELSE "absent"]
    /\ found' = [rows |-> 0, partial |-> FALSE]
    /\ answer' = NoAnswer

\* The capacity section is unavailable at once if no workspace is configured.
BeginHealth(stored) ==
    /\ \E query \in {"resolving", "unavailable"} : Begin("health", stored, query)
    /\ request' = [tool |-> "health", stored |-> stored, limit |-> 1, clamped |-> FALSE,
                   auto |-> FALSE]

BeginMetrics(stored) ==
    /\ Begin("metrics", stored, "resolving")
    /\ request' = [tool |-> "metrics", stored |-> stored, limit |-> 1, clamped |-> FALSE,
                   auto |-> FALSE]

\* Fault: the limit is checked, but not clamped.
BeginLogsUnclamped(stored, limit, auto) ==
    /\ limit >= 1
    /\ Begin("logs", stored, "resolving")
    /\ request' = [tool |-> "logs", stored |-> stored, limit |-> limit,
                   clamped |-> FALSE, auto |-> auto]

\* A limit below 1 is refused; one above MaxLimit is lowered, and the answer says so.
BeginLogs(stored, limit, auto) ==
    /\ limit >= 1
    /\ Begin("logs", stored, "resolving")
    /\ request' = [tool |-> "logs", stored |-> stored,
                   limit |-> IF limit > MaxLimit THEN MaxLimit ELSE limit,
                   clamped |-> (limit > MaxLimit), auto |-> auto]

\* Arguments that are not valid, or no workspace: an error without an await.
Refuse ==
    /\ ~Running /\ Pending = {}
    /\ state' = "ended"
    /\ answer' = ToolError
    /\ task' = [t \in Tasks |-> "absent"]
    /\ UNCHANGED <<clock, request, found>>

(***************************************************************************)
(* Tasks.                                                                  *)
(***************************************************************************)
Ends(t, how) == task' = [task EXCEPT ![t] = how]

\* _fetch and what a section makes of it: a body of the right shape, or a reason.
ArmAnswers(t) ==
    /\ task[t] = "asking"
    /\ \E how \in {"ok", "unavailable"} : Ends(t, how)
    /\ UNCHANGED <<clock, request, state, found, answer>>

\* What no client maps to a result: no token for ARM, a body of an unforeseen shape.
Raises(t) ==
    /\ task[t] \in Busy \ {"cancelling"}
    /\ Ends(t, "raised")
    /\ UNCHANGED <<clock, request, state, found, answer>>

Resolved ==
    /\ task["query"] = "resolving"
    /\ Ends("query", "querying")
    /\ UNCHANGED <<clock, request, state, found, answer>>

\* The workspace is not there, or Log Analytics refuses.
QueryFails ==
    /\ task["query"] \in {"resolving", "querying"}
    /\ Ends("query", "unavailable")
    /\ UNCHANGED <<clock, request, state, found, answer>>

GiveUp ==
    /\ BudgetSpent
    /\ Ends("query", "unavailable")
    /\ UNCHANGED <<clock, request, state, found, answer>>

\* Fault: an error that says nothing specific is tolerated too.
ToleratedUnspecific(codes) == request.auto /\ codes \ {"partial"} \subseteq Missing

\* _empty_partial_is_tolerated
Tolerated(codes) ==
    LET specific == codes \ {"partial"}
    IN  request.auto /\ specific # {} /\ specific \subseteq Missing

\* The rows a complete result has: gateway queries take no more than the limit.
Complete ==
    IF request.tool = "logs" /\ request.stored > request.limit THEN request.limit
    ELSE request.stored

\* Log Analytics answers in full, or with a partial error and rows that may be fewer;
\* they are not if missing tables are all the error tells of.
LogsAnswer(rows, partial, codes) ==
    /\ task["query"] = "querying"
    /\ rows <= Complete
    /\ (~partial \/ (codes \ {"partial"}) = Missing) => rows = Complete
    /\ IF partial /\ rows = 0
         THEN /\ found' = [rows |-> 0, partial |-> FALSE]
              /\ Ends("query", IF Tolerated(codes) THEN "ok" ELSE "unavailable")
         ELSE /\ found' = [rows |-> rows, partial |-> partial]
              /\ Ends("query", IF request.tool = "health" /\ rows = 0 THEN "unavailable"
                               ELSE "ok")
    /\ UNCHANGED <<clock, request, state, answer>>

\* A cancelled task ends, however it ends, and without delay.
Cancelled(t) ==
    /\ task[t] = "cancelling"
    /\ Ends(t, "cancelled")
    /\ UNCHANGED <<clock, request, state, found, answer>>

(***************************************************************************)
(* apim_get_service_health: asyncio.wait and what follows it.              *)
(***************************************************************************)

\* Fault: only the query is cancelled.
DeadlineForQuery ==
    /\ DeadlineReached
    /\ state' = "closing"
    /\ task' = [t \in Tasks |-> IF t \in Pending \cap {"query"} THEN "cancelling" ELSE task[t]]
    /\ UNCHANGED <<clock, request, found, answer>>

\* The budget is used up: what is pending is cancelled and awaited.
Deadline ==
    /\ DeadlineReached
    /\ state' = "closing"
    /\ task' = [t \in Tasks |-> IF t \in Pending THEN "cancelling" ELSE task[t]]
    /\ UNCHANGED <<clock, request, found, answer>>

\* Fault: a section is made from its neighbour's task.
SectionMixedUp(s) ==
    LET t == IF s = "resourceHealth" THEN "network" ELSE SectionOf[s]
    IN  IF task[t] # "ok" THEN "unavailable" ELSE "ok"

Section(s) ==
    IF task[SectionOf[s]] # "ok" THEN "unavailable"
    ELSE IF SectionOf[s] = "query" /\ found.partial THEN "partial" ELSE "ok"

\* A task that raised does so again when its result is asked for: audited_tool makes an
\* error of it, and the other sections are lost.
HealthAnswer ==
    IF \E t \in Tasks : task[t] = "raised" THEN ToolError
    ELSE [kind |-> "ok", rows |-> 0, truncated |-> FALSE,
          section |-> [s \in Sections |-> Section(s)]]

(***************************************************************************)
(* The other tools: LogsClient.execute, MetricsClient.query, _list_result. *)
(***************************************************************************)

\* Fault: as many rows as the limit are all there are.
RowsAnswerAtLimit ==
    LET short == found.partial \/ request.clamped
    IN  [kind |-> "ok", rows |-> IF found.rows > Room THEN Room ELSE found.rows,
         truncated |-> short \/ found.rows > Room, section |-> NoSection]

\* As many rows as the limit may be fewer than there are; what does not fit is cut.
RowsAnswer ==
    LET short == \/ found.partial
                 \/ request.tool = "logs" /\ (request.clamped \/ found.rows >= request.limit)
    IN  [kind |-> "ok", rows |-> IF found.rows > Room THEN Room ELSE found.rows,
         truncated |-> short \/ found.rows > Room, section |-> NoSection]

Answer ==
    /\ Running /\ Pending = {}
    /\ state' = "ended"
    /\ answer' = IF request.tool = "health" THEN HealthAnswer
                 ELSE IF task["query"] = "ok" THEN RowsAnswer
                 ELSE ToolError
    /\ UNCHANGED <<clock, request, task, found>>

\* The caller goes away.  asyncio.wait leaves the tasks of a health call running, gather
\* and a plain await pass the cancellation on.
Cancel ==
    /\ Running
    /\ state' = "gone"
    /\ task' = IF state = "waiting" /\ request.tool = "health" THEN task
               ELSE [t \in Tasks |-> IF t \in Pending THEN "cancelling" ELSE task[t]]
    /\ UNCHANGED <<clock, request, found, answer>>

LogAnalytics ==
    \/ Resolved \/ QueryFails
    \/ \E rows \in 0 .. MaxRows, partial \in BOOLEAN, codes \in SUBSET Codes :
          LogsAnswer(rows, partial, codes)

Next ==
    \/ Tick
    \/ \E stored \in 0 .. MaxRows : BeginHealth(stored) \/ BeginMetrics(stored)
    \/ \E stored \in 0 .. MaxRows, limit \in Limits, auto \in BOOLEAN :
          BeginLogs(stored, limit, auto)
    \/ Refuse
    \/ \E t \in ArmTasks : ArmAnswers(t)
    \/ \E t \in Tasks : Raises(t) \/ Cancelled(t)
    \/ LogAnalytics
    \/ GiveUp
    \/ Deadline
    \/ Answer
    \/ Cancel

Spec == Init /\ [][Next]_vars

\* Time passes, the timers fire and the event loop runs; ARM and Log Analytics owe nothing.
Fairness ==
    /\ WF_vars(Tick)
    /\ WF_vars(GiveUp)
    /\ WF_vars(Deadline)
    /\ \A t \in Tasks : WF_vars(Cancelled(t))
    /\ WF_vars(Answer)

FairSpec == Spec /\ Fairness

-----------------------------------------------------------------------------
(***************************************************************************)
(* Properties.                                                             *)
(***************************************************************************)

\* A call is answered within its budget, and so is the query of a health call whose
\* caller went away: a look-up that hangs counts against it like the query itself.  A
\* call that was answered has no task at work: those the deadline cut off were waited
\* for (run_workspace_query, apim_get_service_health).
EndsInBudget ==
    /\ Running => clock <= IF request.tool = "health" THEN HealthTimeout ELSE ClientTimeout
    /\ task["query"] \in {"resolving", "querying"} => clock <= ClientTimeout
    /\ state = "ended" => Pending = {}

\* An answer that is flagged neither `truncated` nor `partial` shows every row there is:
\* through the clamped limit, the cut to max_response_bytes, partial errors with rows
\* and without (_list_result, execute, _empty_partial_is_tolerated).
UnflaggedIsComplete ==
    state = "ended" =>
        /\ (answer.kind = "ok" /\ request.tool # "health" /\ ~answer.truncated) =>
              answer.rows = request.stored
        /\ answer.section["capacityMetric"] = "ok" => found.rows = request.stored

\* A health call that was answered lost a section only to what that section's own task
\* met, or to the deadline, and the whole view only to a task that raised.
SectionsIsolated ==
    (state = "ended" /\ request.tool = "health" /\ task["service"] # "absent") =>
        /\ (answer.kind = "error") <=> (\E t \in Tasks : task[t] = "raised")
        /\ answer.kind = "ok" =>
              \A s \in Sections : answer.section[s] = "unavailable" =>
                  \/ task[SectionOf[s]] = "unavailable"
                  \/ task[SectionOf[s]] = "cancelled" /\ clock = HealthTimeout
        /\ \A s, r \in Sections : SectionOf[s] = SectionOf[r] =>
              answer.section[s] = answer.section[r]

\* A call ends whatever ARM and Log Analytics do.
CallEnds == Running ~> ~Running
=============================================================================
