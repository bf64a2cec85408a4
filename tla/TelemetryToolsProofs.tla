------------------------- MODULE TelemetryToolsProofs -------------------------
(***************************************************************************)
(* What holds of a call to the telemetry tools for any budgets and limits. *)
(*                                                                         *)
(* The properties of an answer are not inductive.  Shape and FoundIsWhole  *)
(* say what is true of the call that is about to give it: which tasks may  *)
(* be in which state while it waits, and what the rows found are.          *)
(***************************************************************************)
EXTENDS TelemetryTools, TLAPS

Ended == {"ok", "unavailable", "raised", "cancelled"}

Shape ==
    /\ state = "idle" => \A t \in Tasks : task[t] = "absent"
    /\ state = "waiting" => \A t \in Tasks : task[t] \notin {"cancelling", "cancelled"}
    /\ state = "closing" => request.tool = "health" /\ clock = HealthTimeout
    /\ Running => \A t \in ArmTasks : (task[t] = "absent") <=> (request.tool # "health")
    /\ Running => task["query"] # "absent"
    /\ task["query"] # "asking"

\* Rows that are not flagged partial are all that the query can have.
FoundIsWhole ==
    (Running /\ task["query"] = "ok" /\ ~found.partial) => found.rows = Complete

TInv ==
    /\ TypeOK /\ EndsInBudget /\ Shape /\ FoundIsWhole
    /\ UnflaggedIsComplete /\ SectionsIsolated

-----------------------------------------------------------------------------
\* The invariant holds at first.
LEMMA InitTInv == ASSUME Init PROVE TInv
<1>. USE TelemetryAssumption DEF Init
<1>1. TypeOK
  BY DEF TypeOK, NoAnswer, NoSection, Tasks, ArmTasks
<1>2. EndsInBudget
  BY DEF EndsInBudget, Running, Tasks
<1>3. Shape
  BY DEF Shape, Running, Tasks
<1>4. FoundIsWhole /\ UnflaggedIsComplete /\ SectionsIsolated
  BY DEF FoundIsWhole, UnflaggedIsComplete, SectionsIsolated, Running
<1>. QED  BY <1>1, <1>2, <1>3, <1>4 DEF TInv

\* A step that ends a task, or lets it go on, keeps the invariant if the rows it finds
\* are what they should be.
LEMMA TaskStep ==
    ASSUME TInv, NEW t \in Tasks, task[t] \in Busy,
           NEW how \in Ended \cup {"querying"}, Ends(t, how),
           UNCHANGED <<clock, request, state, answer>>,
           how = "querying" => t = "query" /\ task[t] = "resolving",
           how = "cancelled" => task[t] = "cancelling",
           found' \in [rows : 0 .. MaxRows, partial : BOOLEAN],
           FoundIsWhole'
    PROVE  TInv'
<1>. USE DEF TInv, Ends
<1>1. task' = [task EXCEPT ![t] = how] /\ task \in [Tasks -> Busy \cup Ended \cup {"absent"}]
  BY DEF TypeOK, Ended
<1>2. TypeOK'
  BY <1>1 DEF TypeOK, Ended, Busy
<1>3. state # "ended"
  BY DEF EndsInBudget, Pending
<1>4. EndsInBudget'
  BY <1>1, <1>3 DEF EndsInBudget, Running, Ended, Tasks
<1>5. Shape'
  BY <1>1 DEF Shape, Running, Ended, Busy, Tasks, ArmTasks
<1>6. UnflaggedIsComplete' /\ SectionsIsolated'
  BY <1>3 DEF UnflaggedIsComplete, SectionsIsolated
<1>. QED  BY <1>2, <1>4, <1>5, <1>6

-----------------------------------------------------------------------------
(***************************************************************************)
(* One lemma per kind of step.                                             *)
(***************************************************************************)

\* Time does not pass a deadline.
LEMMA TickKeeps == ASSUME TInv, Tick PROVE TInv'
<1>. USE TelemetryAssumption DEF TInv, Tick
<1>1. clock \in Nat /\ state # "ended" /\ state # "closing"
  BY DEF TypeOK, EndsInBudget
<1>2. TypeOK'
  BY <1>1 DEF TypeOK
<1>3. Running => clock + 1 <= IF request.tool = "health" THEN HealthTimeout ELSE ClientTimeout
  <2>1. CASE request.tool = "health"
    BY <1>1, <2>1 DEF Running, DeadlineReached
  <2>2. CASE request.tool # "health" /\ Running
    <3>1. \A t \in ArmTasks : task[t] = "absent"
      BY <2>2 DEF Shape
    <3>2. task["query"] \in Busy
      BY <3>1 DEF Pending, Tasks, Busy
    <3>3. task["query"] \in {"resolving", "querying"}
      BY <1>1, <2>2, <3>2 DEF Shape, Running, Busy, Tasks
    <3>. QED  BY <1>1, <2>2, <3>3 DEF BudgetSpent, Shape
  <2>. QED  BY <2>1, <2>2
<1>4. task["query"] \in {"resolving", "querying"} => clock + 1 <= ClientTimeout
  BY <1>1 DEF BudgetSpent
<1>5. EndsInBudget'
  BY <1>1, <1>3, <1>4 DEF EndsInBudget, Running
<1>6. Shape' /\ FoundIsWhole'
  BY <1>1 DEF Shape, FoundIsWhole, Running, Complete
<1>7. UnflaggedIsComplete' /\ SectionsIsolated'
  BY <1>1 DEF UnflaggedIsComplete, SectionsIsolated
<1>. QED  BY <1>2, <1>5, <1>6, <1>7

\* A call that begins meets the invariant.
LEMMA BeginKeeps ==
    ASSUME TInv, NEW tool \in {"health", "metrics", "logs"}, NEW stored \in 0 .. MaxRows,
           NEW query \in {"resolving", "unavailable"}, Begin(tool, stored, query),
           request'.tool = tool,
           request' \in [tool : {"health", "metrics", "logs"}, stored : 0 .. MaxRows,
                         limit : 1 .. MaxLimit, clamped : BOOLEAN, auto : BOOLEAN]
    PROVE  TInv'
<1>. USE TelemetryAssumption DEF TInv, Begin
<1>1. \A t \in ArmTasks : t \in Tasks /\ t # "query"
  BY DEF Tasks, ArmTasks
<1>2. /\ task' \in [Tasks -> {"asking", "absent", "resolving", "unavailable"}]
      /\ task'["query"] = query
      /\ \A t \in ArmTasks : task'[t] = IF tool = "health" THEN "asking" ELSE "absent"
  BY <1>1 DEF Tasks
<1>3. TypeOK'
  BY <1>2 DEF TypeOK, NoAnswer, NoSection, Busy
<1>4. EndsInBudget'
  BY DEF EndsInBudget, Running
<1>5. Shape'
  BY <1>2 DEF Shape, Running, Tasks, ArmTasks
<1>6. FoundIsWhole' /\ UnflaggedIsComplete' /\ SectionsIsolated'
  BY <1>2 DEF FoundIsWhole, UnflaggedIsComplete, SectionsIsolated, Running
<1>. QED  BY <1>3, <1>4, <1>5, <1>6

\* An error is an answer.
LEMMA ErrorTyped ==
    ToolError \in [kind : {"none", "ok", "error"}, rows : 0 .. MaxRows, truncated : BOOLEAN,
                   section : [Sections -> {"none", "ok", "partial", "unavailable"}]]
<1>1. NoSection \in [Sections -> {"none", "ok", "partial", "unavailable"}]
  BY DEF NoSection
<1>2. 0 \in 0 .. MaxRows
  BY TelemetryAssumption
<1>. QED  BY <1>1, <1>2 DEF ToolError

\* A call that is refused meets the invariant.
LEMMA RefuseKeeps == ASSUME TInv, Refuse PROVE TInv'
<1>. USE TelemetryAssumption DEF TInv, Refuse
<1>1. task' = [t \in Tasks |-> "absent"]
  OBVIOUS
<1>2. TypeOK'
  <2>1. answer' \in [kind : {"none", "ok", "error"}, rows : 0 .. MaxRows, truncated : BOOLEAN,
                     section : [Sections -> {"none", "ok", "partial", "unavailable"}]]
    BY ErrorTyped
  <2>. QED  BY <1>1, <2>1 DEF TypeOK
<1>3. EndsInBudget' /\ Shape' /\ FoundIsWhole'
  BY <1>1 DEF EndsInBudget, Shape, FoundIsWhole, Running, Pending, Busy, Tasks
<1>4. answer'.kind = "error" /\ \A s \in Sections : answer'.section[s] = "none"
  BY DEF ToolError, NoSection
<1>5. UnflaggedIsComplete' /\ SectionsIsolated'
  BY <1>1, <1>4 DEF UnflaggedIsComplete, SectionsIsolated, Tasks, ArmTasks, Sections, SectionOf
<1>. QED  BY <1>2, <1>3, <1>5

\* What ARM answers, what raises and what is cancelled ends a task, and finds no rows.
LEMMA EndKeeps ==
    ASSUME TInv, NEW t \in Tasks, (t \in ArmTasks /\ ArmAnswers(t)) \/ Raises(t) \/ Cancelled(t)
    PROVE  TInv'
<1>1. PICK how \in Ended :
        /\ Ends(t, how) /\ task[t] \in Busy
        /\ t = "query" => how # "ok"
        /\ how = "cancelled" => task[t] = "cancelling"
  BY DEF ArmAnswers, Raises, Cancelled, Ended, Busy, ArmTasks
<1>2. UNCHANGED <<clock, request, state, found, answer>>
  BY DEF ArmAnswers, Raises, Cancelled
<1>3. FoundIsWhole'
  BY <1>1, <1>2 DEF FoundIsWhole, TInv, TypeOK, Ends, Running, Complete, Tasks, ArmTasks
<1>4. found' \in [rows : 0 .. MaxRows, partial : BOOLEAN]
  BY <1>2 DEF TInv, TypeOK
<1>5. how # "querying"
  BY DEF Ended
<1>. QED  BY <1>1, <1>2, <1>3, <1>4, <1>5, TaskStep

\* The look-up of the workspace, a refusal and the end of the budget find none either.
LEMMA QueryStepKeeps == ASSUME TInv, Resolved \/ QueryFails \/ GiveUp PROVE TInv'
<1>1. PICK how \in {"querying", "unavailable"} :
        /\ Ends("query", how) /\ task["query"] \in Busy
        /\ how = "querying" => task["query"] = "resolving"
  BY DEF Resolved, QueryFails, GiveUp, BudgetSpent, Busy
<1>2. UNCHANGED <<clock, request, state, found, answer>>
  BY DEF Resolved, QueryFails, GiveUp
<1>3. FoundIsWhole' /\ "query" \in Tasks
  BY <1>1 DEF FoundIsWhole, TInv, TypeOK, Ends, Tasks
<1>4. found' \in [rows : 0 .. MaxRows, partial : BOOLEAN]
  BY <1>2 DEF TInv, TypeOK
<1>5. how \in Ended \cup {"querying"} /\ how # "cancelled"
  BY DEF Ended
<1>. QED  BY <1>1, <1>2, <1>3, <1>4, <1>5, TaskStep

\* An answer of Log Analytics that is not flagged is complete.
LEMMA LogsAnswerKeeps ==
    ASSUME TInv, NEW rows \in 0 .. MaxRows, NEW partial \in BOOLEAN, NEW codes \in SUBSET Codes,
           LogsAnswer(rows, partial, codes)
    PROVE  TInv'
<1>. USE DEF LogsAnswer
<1>1. PICK how \in {"ok", "unavailable"} : Ends("query", how) /\ task["query"] = "querying"
  OBVIOUS
<1>2. UNCHANGED <<clock, request, state, answer>> /\ Complete' = Complete
  BY DEF Complete
<1>3. found' \in [rows : 0 .. MaxRows, partial : BOOLEAN]
  <2>1. \E n \in 0 .. MaxRows, p \in BOOLEAN : found' = [rows |-> n, partial |-> p]
    BY TelemetryAssumption
  <2>. QED  BY <2>1
<1>4. task'["query"] = "ok" /\ ~found'.partial => found'.rows = Complete
  <2>1. CASE partial /\ rows = 0
    <3>1. task'["query"] = "ok" => Tolerated(codes)
      BY <2>1 DEF Ends, TInv, TypeOK, Tasks
    <3>2. Tolerated(codes) => codes \ {"partial"} = Missing
      BY DEF Tolerated, Missing
    <3>. QED  BY <2>1, <3>1, <3>2
  <2>2. CASE ~(partial /\ rows = 0)
    BY <2>2
  <2>. QED  BY <2>1, <2>2
<1>5. FoundIsWhole'
  BY <1>2, <1>4 DEF FoundIsWhole
<1>6. "query" \in Tasks /\ how \in Ended /\ how # "querying" /\ how # "cancelled"
  BY DEF Tasks, Ended
<1>. QED  BY <1>1, <1>2, <1>3, <1>5, <1>6, TaskStep DEF Busy

\* A deadline that is reached cancels what is pending.
LEMMA DeadlineKeeps == ASSUME TInv, Deadline PROVE TInv'
<1>. USE TelemetryAssumption DEF TInv, Deadline, DeadlineReached
<1>1. /\ task' = [t \in Tasks |-> IF t \in Pending THEN "cancelling" ELSE task[t]]
      /\ state' = "closing"
  OBVIOUS
<1>2. clock = HealthTimeout
  BY DEF EndsInBudget, Running, TypeOK
<1>3. TypeOK'
  BY <1>1 DEF TypeOK, Busy
<1>4. EndsInBudget'
  BY <1>1, <1>2 DEF EndsInBudget, Running, Tasks, Pending
<1>5. Shape'
  BY <1>1, <1>2 DEF Shape, Running, Tasks, ArmTasks, Pending, Busy
<1>6. FoundIsWhole' /\ UnflaggedIsComplete' /\ SectionsIsolated'
  BY <1>1 DEF FoundIsWhole, UnflaggedIsComplete, SectionsIsolated, Running, Complete, Pending,
              Tasks
<1>. QED  BY <1>3, <1>4, <1>5, <1>6

\* A call whose client goes away is not answered.
LEMMA CancelKeeps == ASSUME TInv, Cancel PROVE TInv'
<1>. USE TelemetryAssumption DEF TInv, Cancel
<1>1. state' = "gone"
  OBVIOUS
<1>2. TypeOK'
  BY DEF TypeOK, Busy
<1>3. EndsInBudget'
  BY <1>1 DEF EndsInBudget, Running, Tasks, TypeOK
<1>4. Shape'
  BY <1>1 DEF Shape, Running, Tasks
<1>5. FoundIsWhole' /\ UnflaggedIsComplete' /\ SectionsIsolated'
  BY <1>1 DEF FoundIsWhole, UnflaggedIsComplete, SectionsIsolated, Running
<1>. QED  BY <1>2, <1>3, <1>4, <1>5

-----------------------------------------------------------------------------
(***************************************************************************)
(* The answer.                                                             *)
(***************************************************************************)

\* The rows of an answer without a flag are those that are stored.
LEMMA RowsAnswerIsHonest ==
    ASSUME TInv, state = "waiting", task["query"] = "ok", request.tool # "health"
    PROVE  /\ RowsAnswer.kind = "ok" /\ RowsAnswer.section = NoSection
           /\ RowsAnswer.rows \in 0 .. MaxRows /\ RowsAnswer.truncated \in BOOLEAN
           /\ ~RowsAnswer.truncated => RowsAnswer.rows = request.stored
<1>. USE TelemetryAssumption DEF TInv, TypeOK, RowsAnswer
<1>1. ~found.partial => found.rows = Complete
  BY DEF FoundIsWhole, Running
<1>2. found.rows \in 0 .. MaxRows /\ request.stored \in 0 .. MaxRows /\ request.limit \in Nat
  OBVIOUS
<1>3. ~RowsAnswer.truncated =>
        /\ ~found.partial /\ ~(found.rows > Room)
        /\ request.tool = "logs" => ~(found.rows >= request.limit)
  OBVIOUS
<1>4. ~RowsAnswer.truncated => RowsAnswer.rows = request.stored
  BY <1>1, <1>2, <1>3 DEF Complete
<1>5. RowsAnswer.rows \in 0 .. MaxRows
  BY <1>2
<1>6. RowsAnswer.truncated \in BOOLEAN
  BY <1>2
<1>. QED  BY <1>4, <1>5, <1>6

\* A section of a health answer is missing only for its own task's sake.
LEMMA HealthAnswerIsHonest ==
    ASSUME TInv, Running, Pending = {}, request.tool = "health"
    PROVE  /\ HealthAnswer.kind \in {"ok", "error"}
           /\ HealthAnswer.rows = 0 /\ HealthAnswer.truncated = FALSE
           /\ HealthAnswer.section \in [Sections -> {"none", "ok", "partial", "unavailable"}]
           /\ (HealthAnswer.kind = "error") <=> (\E t \in Tasks : task[t] = "raised")
           /\ HealthAnswer.section["capacityMetric"] = "ok" => found.rows = request.stored
           /\ HealthAnswer.kind = "ok" =>
                 \A s \in Sections : HealthAnswer.section[s] = "unavailable" =>
                     \/ task[SectionOf[s]] = "unavailable"
                     \/ task[SectionOf[s]] = "cancelled" /\ clock = HealthTimeout
           /\ \A s, r \in Sections : SectionOf[s] = SectionOf[r] =>
                 HealthAnswer.section[s] = HealthAnswer.section[r]
<1>. USE DEF TInv
<1>1. \A s \in Sections : SectionOf[s] \in Tasks
  BY DEF Sections, SectionOf, Tasks, ArmTasks
<1>2. \A t \in Tasks :
        /\ task[t] \in {"ok", "unavailable", "raised", "cancelled"}
        /\ task[t] = "cancelled" => clock = HealthTimeout
  BY DEF TypeOK, Shape, Pending, Running, Tasks
<1>3. CASE \E t \in Tasks : task[t] = "raised"
  <2>1. HealthAnswer = ToolError
    BY <1>3 DEF HealthAnswer
  <2>2. NoSection \in [Sections -> {"none", "ok", "partial", "unavailable"}]
    BY DEF NoSection
  <2>3. \A s \in Sections : NoSection[s] = "none"
    BY DEF NoSection
  <2>4. "capacityMetric" \in Sections
    BY DEF Sections, SectionOf
  <2>. QED  BY <1>3, <2>1, <2>2, <2>3, <2>4 DEF ToolError
<1>4. CASE ~\E t \in Tasks : task[t] = "raised"
  <2>1. HealthAnswer = [kind |-> "ok", rows |-> 0, truncated |-> FALSE,
                        section |-> [s \in Sections |-> Section(s)]]
    BY <1>4 DEF HealthAnswer
  <2>2. /\ HealthAnswer.kind = "ok" /\ HealthAnswer.rows = 0 /\ HealthAnswer.truncated = FALSE
        /\ HealthAnswer.section = [s \in Sections |-> Section(s)]
    BY <2>1
  <2>3. \A s \in Sections : Section(s) \in {"none", "ok", "partial", "unavailable"}
    BY DEF Section
  <2>4. Section("capacityMetric") = "ok" => found.rows = request.stored
    BY DEF Section, SectionOf, FoundIsWhole, Complete
  <2>5. \A s \in Sections : Section(s) = "unavailable" => task[SectionOf[s]] # "ok"
    BY DEF Section
  <2>6. \A s, r \in Sections : SectionOf[s] = SectionOf[r] => Section(s) = Section(r)
    BY DEF Section
  <2>7. "capacityMetric" \in Sections
    BY DEF Sections, SectionOf
  <2>. QED  BY <1>1, <1>2, <1>4, <2>2, <2>3, <2>4, <2>5, <2>6, <2>7
<1>. QED  BY <1>3, <1>4

\* An answer meets the invariant.
LEMMA AnswerKeeps == ASSUME TInv, Answer PROVE TInv'
<1>. USE DEF Answer
<1>1. state' = "ended" /\ UNCHANGED <<clock, request, task, found>>
  OBVIOUS
<1>2. EndsInBudget'
  BY <1>1 DEF TInv, EndsInBudget, Running, Pending
<1>3. Shape' /\ FoundIsWhole'
  BY <1>1 DEF TInv, Shape, FoundIsWhole, Running
<1>4. CASE request.tool = "health"
  <2>1. answer' = HealthAnswer
    BY <1>4
  <2>2. TypeOK'
    <3>1. answer' \in [kind : {"none", "ok", "error"}, rows : 0 .. MaxRows, truncated : BOOLEAN,
                       section : [Sections -> {"none", "ok", "partial", "unavailable"}]]
      BY <1>4, <2>1, HealthAnswerIsHonest, TelemetryAssumption DEF HealthAnswer, ToolError
    <3>. QED  BY <1>1, <3>1 DEF TInv, TypeOK
  <2>3. UnflaggedIsComplete' /\ SectionsIsolated'
    BY <1>1, <1>4, <2>1, HealthAnswerIsHonest DEF UnflaggedIsComplete, SectionsIsolated
  <2>. QED  BY <1>2, <1>3, <2>2, <2>3 DEF TInv
<1>5. CASE request.tool # "health" /\ task["query"] = "ok"
  <2>1. answer' = RowsAnswer /\ state = "waiting"
    BY <1>5 DEF TInv, Shape, Running
  <2>2. NoSection \in [Sections -> {"none", "ok", "partial", "unavailable"}]
        /\ NoSection["capacityMetric"] = "none"
    BY DEF NoSection, Sections, SectionOf
  <2>3. TypeOK'
    <3>1. answer' \in [kind : {"none", "ok", "error"}, rows : 0 .. MaxRows, truncated : BOOLEAN,
                       section : [Sections -> {"none", "ok", "partial", "unavailable"}]]
      BY <1>5, <2>1, <2>2, RowsAnswerIsHonest DEF RowsAnswer
    <3>. QED  BY <1>1, <3>1 DEF TInv, TypeOK
  <2>4. UnflaggedIsComplete' /\ SectionsIsolated'
    BY <1>1, <1>5, <2>1, <2>2, RowsAnswerIsHonest DEF UnflaggedIsComplete, SectionsIsolated
  <2>. QED  BY <1>2, <1>3, <2>3, <2>4 DEF TInv
<1>6. CASE request.tool # "health" /\ task["query"] # "ok"
  <2>1. answer' = ToolError
    BY <1>6
  <2>2. TypeOK'
    <3>1. answer' \in [kind : {"none", "ok", "error"}, rows : 0 .. MaxRows, truncated : BOOLEAN,
                       section : [Sections -> {"none", "ok", "partial", "unavailable"}]]
      BY <2>1, ErrorTyped
    <3>. QED  BY <1>1, <3>1 DEF TInv, TypeOK
  <2>3. UnflaggedIsComplete' /\ SectionsIsolated'
    BY <1>1, <1>6, <2>1
       DEF UnflaggedIsComplete, SectionsIsolated, ToolError, NoSection, Sections, SectionOf
  <2>. QED  BY <1>2, <1>3, <2>2, <2>3 DEF TInv
<1>. QED  BY <1>4, <1>5, <1>6

-----------------------------------------------------------------------------
(***************************************************************************)
(* The invariant, and what follows from it.                                *)
(***************************************************************************)

\* Every step keeps the invariant.
LEMMA StepTInv == TInv /\ [Next]_vars => TInv'
<1>. SUFFICES ASSUME TInv, [Next]_vars PROVE TInv'
  OBVIOUS
<1>1. ASSUME NEW stored \in 0 .. MaxRows, BeginHealth(stored) \/ BeginMetrics(stored)
      PROVE  TInv'
  <2>1. PICK tool \in {"health", "metrics"}, query \in {"resolving", "unavailable"} :
          /\ Begin(tool, stored, query)
          /\ request' = [tool |-> tool, stored |-> stored, limit |-> 1, clamped |-> FALSE,
                         auto |-> FALSE]
    BY <1>1 DEF BeginHealth, BeginMetrics
  <2>2. 1 \in 1 .. MaxLimit
    BY TelemetryAssumption
  <2>. QED  BY <2>1, <2>2, BeginKeeps
<1>2. ASSUME NEW stored \in 0 .. MaxRows, NEW limit \in Limits, NEW auto \in BOOLEAN,
             BeginLogs(stored, limit, auto)
      PROVE  TInv'
  <2>1. (IF limit > MaxLimit THEN MaxLimit ELSE limit) \in 1 .. MaxLimit
    BY <1>2, TelemetryAssumption DEF BeginLogs
  <2>2. (limit > MaxLimit) \in BOOLEAN
    OBVIOUS
  <2>. QED  BY <1>2, <2>1, <2>2, BeginKeeps DEF BeginLogs
<1>3. ASSUME NEW t \in ArmTasks, ArmAnswers(t) PROVE TInv'
  BY <1>3, EndKeeps DEF Tasks
<1>4. ASSUME NEW t \in Tasks, Raises(t) \/ Cancelled(t) PROVE TInv'
  BY <1>4, EndKeeps
<1>5. CASE LogAnalytics \/ GiveUp
  BY <1>5, QueryStepKeeps, LogsAnswerKeeps DEF LogAnalytics
<1>6. CASE Tick \/ Refuse \/ Deadline \/ Answer \/ Cancel
  BY <1>6, TickKeeps, RefuseKeeps, DeadlineKeeps, AnswerKeeps, CancelKeeps
<1>7. CASE UNCHANGED vars
  BY <1>7 DEF TInv, TypeOK, EndsInBudget, Shape, FoundIsWhole, UnflaggedIsComplete,
              SectionsIsolated, Running, Pending, Complete, vars
<1>. QED  BY <1>1, <1>2, <1>3, <1>4, <1>5, <1>6, <1>7 DEF Next

\* The invariant holds throughout.
LEMMA TInvHolds == Spec => []TInv
<1>1. Init => TInv
  BY InitTInv
<1>. QED  BY <1>1, StepTInv, PTL DEF Spec

\* Every variable of a telemetry call stays within its type.
THEOREM TelemetryTypeCorrect == Spec => []TypeOK
<1>1. TInv => TypeOK
  BY DEF TInv
<1>. QED  BY <1>1, TInvHolds, PTL

\* For any two budgets, a call ends in its own and leaves no task at work
\* (run_workspace_query, apim_get_service_health).
THEOREM CallsEndInBudget == Spec => []EndsInBudget
<1>1. TInv => EndsInBudget
  BY DEF TInv
<1>. QED  BY <1>1, TInvHolds, PTL

\* No answer without a flag lacks a row, for any limits and sizes (_list_result, execute,
\* _empty_partial_is_tolerated).
THEOREM UnflaggedAnswersAreComplete == Spec => []UnflaggedIsComplete
<1>1. TInv => UnflaggedIsComplete
  BY DEF TInv
<1>. QED  BY <1>1, TInvHolds, PTL

\* A health call loses a section only to that section's task or the deadline, and the
\* view only to a task that raised (apim_get_service_health).
THEOREM SectionsAreIsolated == Spec => []SectionsIsolated
<1>1. TInv => SectionsIsolated
  BY DEF TInv
<1>. QED  BY <1>1, TInvHolds, PTL
=============================================================================
