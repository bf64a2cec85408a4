---------------------------- MODULE BenchObserver ----------------------------
(***************************************************************************)
(* The benchmark observer (scripts/bench/copilot_bench.py): it tails the   *)
(* event log of a Copilot session while Copilot writes it, pairs events to *)
(* interactions, charges each with what a running usage counter advanced   *)
(* by, and appends a row per interaction to a results file.  It may be     *)
(* stopped, killed in the middle of a write, and started again on the same *)
(* log and results.                                                        *)
(*                                                                         *)
(* An event is its type, the interaction it names and the usage counter it *)
(* reports; rows keep their key and their cost.  Tool counts, durations,   *)
(* texts and the summary's token totals are data that no property needs.   *)
(*                                                                         *)
(* A definition whose comment starts with "Fault" is a plausible bug; it   *)
(* is in no specification, and shows that a property can be violated.      *)
(***************************************************************************)
EXTENDS Integers, Sequences, FiniteSets, SequencesExt

CONSTANTS
    Ids,        \* interaction ids
    None,       \* no interaction
    MaxEvents,  \* bound on the log
    MaxTotal,   \* bound on the usage counter
    MaxStarts   \* bound on the observer's starts

ASSUME ObserverAssumption ==
    /\ None \notin Ids
    /\ MaxEvents \in Nat /\ MaxTotal \in Nat /\ MaxStarts \in Nat

VARIABLES
    log,      \* events.jsonl
    torn,     \* its last line is only half written
    results,  \* the results file: its lines, each whole or torn
    obs,      \* the observer process
    starts    \* how often it was started

vars == <<log, torn, results, obs, starts>>

Absent == -1     \* a counter the event does not report / an unknown cost
Counts == Absent .. MaxTotal

Events == [type  : {"user", "steering", "checkpoint", "shutdown"},
           id    : Ids \cup {None},
           total : Counts]
Rows   == [kind : {"interaction", "summary"}, id : Ids \cup {None}, cost : Counts]

Idle == [pc |-> "down", include |-> FALSE, pos |-> 0, limit |-> 0, current |-> None,
         previous |-> 0, valid |-> TRUE, out |-> <<>>, keys |-> {}]

Lines  == [row : Rows, whole : BOOLEAN]

Observers == [pc       : {"down", "initial", "follow", "ended"},
              include  : BOOLEAN,
              pos      : 0 .. MaxEvents,
              limit    : 0 .. MaxEvents,
              current  : Ids \cup {None},
              previous : 0 .. MaxTotal,
              valid    : BOOLEAN,
              out      : Seq(Rows),
              keys     : SUBSET ({"interaction", "summary"} \X (Ids \cup {None}))]

TypeOK ==
    /\ log \in Seq(Events) /\ Len(log) <= MaxEvents
    /\ torn \in BOOLEAN
    /\ results \in Seq(Lines)
    /\ starts \in 0 .. MaxStarts
    /\ obs \in Observers /\ obs.pos <= obs.limit

Readable == IF torn THEN Len(log) - 1 ELSE Len(log)
Running  == obs.pc \in {"initial", "follow"}
Key(row) == <<row.kind, row.id>>

\* What the file says: the rows of its whole lines, by the number of the line.
Ledger == [l \in {n \in DOMAIN results : results[n].whole} |-> results[l].row]

\* _load_result_keys: a line that does not parse has no key.
ResultKeys == {Key(Ledger[l]) : l \in DOMAIN Ledger}

Init ==
    /\ log = <<>>
    /\ torn = FALSE
    /\ results = <<>>
    /\ obs = Idle
    /\ starts = 0

(***************************************************************************)
(* Copilot, as the observer expects it: one session, a counter that only   *)
(* grows, a new id for each message that is not a steering one, nothing    *)
(* after the shutdown.  A line may reach the file in two pieces.           *)
(***************************************************************************)
Used    == {log[i].total : i \in 1 .. Len(log)} \cup {0}
Named   == {log[i].id : i \in 1 .. Len(log)}
Reports == {Absent} \cup {n \in 0 .. MaxTotal : \A u \in Used : u <= n}

NextEvents ==
    {[type |-> "user", id |-> i, total |-> Absent] : i \in Ids \ Named}
    \cup {[type |-> "steering", id |-> i, total |-> Absent] : i \in Ids}
    \cup {[type |-> t, id |-> None, total |-> n] : t \in {"checkpoint", "shutdown"}, n \in Reports}

Write(e, half) ==
    /\ ~torn
    /\ Len(log) < MaxEvents
    /\ \A i \in 1 .. Len(log) : log[i].type # "shutdown"
    /\ log' = Append(log, e)
    /\ torn' = half
    /\ UNCHANGED <<results, obs, starts>>

WriteRest ==
    /\ torn
    /\ torn' = FALSE
    /\ UNCHANGED <<log, results, obs, starts>>

(***************************************************************************)
(* SessionEventParser.                                                     *)
(***************************************************************************)

\* Fault: a report without a total is read as zero.
CostZeroWhenAbsent(total) ==
    LET now == IF total = Absent THEN 0 ELSE total
    IN  [cost |-> IF now > obs.previous THEN now - obs.previous ELSE 0,
         previous |-> now, valid |-> TRUE]

\* Fault: a missing total becomes the baseline.
CostFromMissing(total) ==
    [cost |-> IF total = Absent \/ ~obs.valid THEN Absent ELSE total - obs.previous,
     previous |-> total, valid |-> total # Absent]

\* _counter_delta: the cost of what the event completes, and the new baseline.
Cost(total) ==
    IF total = Absent
      THEN [cost |-> Absent, previous |-> obs.previous, valid |-> FALSE]
      ELSE [cost |-> IF ~obs.valid THEN Absent
                     ELSE IF total > obs.previous THEN total - obs.previous ELSE 0,
            previous |-> total, valid |-> TRUE]

Interaction(cost) ==
    IF obs.current = None THEN <<>>
    ELSE <<[kind |-> "interaction", id |-> obs.current, cost |-> cost]>>

\* consume_line
Parsed(e) ==
    CASE e.type = "steering" /\ obs.current # None -> obs
      [] e.type = "user" \/ (e.type = "steering" /\ obs.current = None) ->
           [obs EXCEPT !.current = e.id, !.out = Interaction(Absent)]
      [] e.type \in {"checkpoint", "shutdown"} ->
           LET c == Cost(e.total)
           IN  [obs EXCEPT !.current = None, !.previous = c.previous, !.valid = c.valid,
                           !.out = Interaction(c.cost) \o
                               IF e.type = "shutdown"
                                 THEN <<[kind |-> "summary", id |-> None, cost |-> e.total]>>
                                 ELSE <<>>]

(***************************************************************************)
(* observe.                                                                *)
(***************************************************************************)

\* Fault: the keys of the results file are not loaded.
StartForgetful(include) ==
    /\ ~Running
    /\ starts < MaxStarts
    /\ starts' = starts + 1
    /\ obs' = [Idle EXCEPT !.pc = "initial", !.include = include, !.limit = Readable]
    /\ UNCHANGED <<log, torn, results>>

\* The keys of the whole rows are loaded, and the log is read from its start.
Start(include) ==
    /\ ~Running
    /\ starts < MaxStarts
    /\ starts' = starts + 1
    /\ obs' = [Idle EXCEPT !.pc = "initial", !.include = include, !.limit = Readable,
                           !.keys = ResultKeys]
    /\ UNCHANGED <<log, torn, results>>

Consume ==
    /\ Running
    /\ obs.out = <<>>
    /\ obs.pos < obs.limit
    /\ obs' = [Parsed(log[obs.pos + 1]) EXCEPT !.pos = obs.pos + 1]
    /\ UNCHANGED <<log, torn, results, starts>>

\* A row is written unless the file has its key, or it is an interaction that was
\* over when an observer that does not import them started.
Wanted(row) ==
    /\ Key(row) \notin obs.keys
    /\ obs.pc = "initial" => obs.include \/ row.kind = "summary"

\* Fault: no newline is put before a row that follows a torn one.
AppendedGlued(row) ==
    IF results # <<>> /\ ~Last(results).whole
      THEN results
      ELSE Append(results, [row |-> row, whole |-> TRUE])

\* _append_result
Appended(row) == Append(results, [row |-> row, whole |-> TRUE])

\* A summary ends the observer, except one it meets again while it follows.
Ends(row) == row.kind = "summary" /\ (obs.pc = "initial" \/ Wanted(row))

Emit ==
    /\ Running
    /\ obs.out # <<>>
    /\ LET row == Head(obs.out)
       IN  /\ results' = IF Wanted(row) THEN Appended(row) ELSE results
           /\ obs' = [obs EXCEPT
                 !.out  = IF Ends(row) THEN <<>> ELSE Tail(@),
                 !.keys = IF Wanted(row) THEN @ \cup {Key(row)} ELSE @,
                 !.pc   = IF Ends(row) THEN "ended" ELSE @]
    /\ UNCHANGED <<log, torn, starts>>

\* The lines at hand are done: read those that are complete by now.
Poll ==
    /\ Running
    /\ obs.out = <<>> /\ obs.pos = obs.limit
    /\ obs' = [obs EXCEPT !.pc = "follow", !.limit = Readable]
    /\ UNCHANGED <<log, torn, results, starts>>

\* Without --follow the observer stops after the lines it found.
Finish ==
    /\ obs.pc = "initial"
    /\ obs.out = <<>> /\ obs.pos = obs.limit
    /\ obs' = [obs EXCEPT !.pc = "ended"]
    /\ UNCHANGED <<log, torn, results, starts>>

\* The observer is stopped, perhaps with half a row on the disk.
Crash(tear) ==
    /\ Running
    /\ tear => obs.out # <<>> /\ Wanted(Head(obs.out))
    /\ results' = IF tear THEN Append(results, [row |-> Head(obs.out), whole |-> FALSE])
                  ELSE results
    /\ obs' = Idle
    /\ UNCHANGED <<log, torn, starts>>

Next ==
    \/ \E e \in NextEvents, half \in BOOLEAN : Write(e, half)
    \/ WriteRest
    \/ \E include \in BOOLEAN : Start(include)
    \/ Consume
    \/ Emit
    \/ Poll
    \/ Finish
    \/ \E tear \in BOOLEAN : Crash(tear)

Spec == Init /\ [][Next]_vars

\* The observer's loop goes on, and Copilot completes a line it has begun.
Fairness == WF_vars(Consume) /\ WF_vars(Emit) /\ WF_vars(Poll) /\ WF_vars(WriteRest)

FairSpec == Spec /\ Fairness

-----------------------------------------------------------------------------
(***************************************************************************)
(* Properties.                                                             *)
(***************************************************************************)

\* The whole lines of the results file are a ledger: starting the observer again,
\* or killing it in the middle of a write, never writes a row twice or spoils one
\* (_load_result_keys, _append_result).
LedgerSpec == INSTANCE ResultLedger WITH ledger <- Ledger
KeepsLedger == LedgerSpec!Spec

\* What the log says of the events: the last counter reported before event j, and
\* whether the last report was without one.
ReportsBefore(j) == {i \in 1 .. (j - 1) : log[i].type \in {"checkpoint", "shutdown"}}
TotalsBefore(j)  == {log[i].total : i \in {r \in ReportsBefore(j) : log[r].total # Absent}}
GapBefore(j)     == \E i \in ReportsBefore(j) :
                        log[i].total = Absent /\ \A r \in ReportsBefore(j) : r <= i

CostInLog(j) ==
    IF log[j].total = Absent \/ GapBefore(j) THEN Absent
    ELSE log[j].total - Max(TotalsBefore(j) \cup {0})

InLog(row) ==
    row.kind = "interaction" =>
        \E b, j \in 1 .. Len(log) :
            /\ b < j /\ log[b].id = row.id /\ log[j].type # "steering"
            /\ \A k \in (b + 1) .. (j - 1) : log[k].type = "steering"
            /\ row.cost = IF log[j].type = "user" THEN Absent ELSE CostInLog(j)

\* A row is that of an interaction of the log, and its cost is what the log says: the
\* advance of the counter since the last report before the event that completed the
\* interaction, and unknown if either report is missing or a message interrupted it.
\* It does not depend on when, or how often, the observer was started (consume_line,
\* _counter_delta, and the replay of the log by observe).
RowsMatchLog ==
    \A l \in DOMAIN Ledger : InLog(Ledger[l])

\* An interaction that a following observer has begun to read, and whose end is in the
\* log, even half written, gets its row in the results file, unless the observer is
\* stopped first: a torn line in either file loses nothing but itself
\* (_read_available_lines, _append_result).
InteractionsRecorded ==
    \A i \in Ids :
        (/\ obs.pc = "follow" /\ obs.current = i
         /\ \E j \in (obs.pos + 1) .. Len(log) : log[j].type \in {"checkpoint", "shutdown"})
          ~> \/ obs.pc = "down"
             \/ \E l \in DOMAIN Ledger : Key(Ledger[l]) = <<"interaction", i>>
=============================================================================
