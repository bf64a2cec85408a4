------------------------- MODULE BenchObserverProofs -------------------------
(***************************************************************************)
(* What holds of the observer for any log, any number of starts and any    *)
(* moment at which it is killed.                                           *)
(***************************************************************************)
EXTENDS BenchObserver, SequenceTheorems, TLAPS

\* The observer has not been told of lines that are not there.
LinesAreThere ==
    /\ torn => Len(log) >= 1
    /\ obs.limit <= Readable

\* A counter of the log is never below an earlier one.
CounterGrows ==
    \A i, j \in 1 .. Len(log) :
        (i < j /\ log[j].total # Absent) => log[i].total <= log[j].total

\* The parser's baseline is what the log reports up to the line last read.
BaselineInLog ==
    /\ obs.previous \in TotalsBefore(obs.pos + 1) \cup {0}
    /\ \A t \in TotalsBefore(obs.pos + 1) : t <= obs.previous
    /\ obs.valid <=> ~GapBefore(obs.pos + 1)

\* The interaction that is open began at a line of the log, and only steering
\* messages follow it there.
CurrentInLog ==
    obs.current # None =>
        \E b \in 1 .. obs.pos :
            /\ log[b].id = obs.current
            /\ \A k \in (b + 1) .. obs.pos : log[k].type = "steering"

\* The rows that the parser has completed are those of the log.
OutInLog == \A n \in DOMAIN obs.out : InLog(obs.out[n])

\* A running observer knows the keys that the results file holds.
KeysKnown == Running => obs.keys = ResultKeys

IInv ==
    /\ TypeOK /\ LinesAreThere /\ CounterGrows
    /\ BaselineInLog /\ CurrentInLog /\ OutInLog
    /\ KeysKnown /\ RowsMatchLog

-----------------------------------------------------------------------------
(***************************************************************************)
(* The operators.                                                          *)
(***************************************************************************)

\* The greatest element of a set is its Max.
LEMMA MaxIs ==
    ASSUME NEW S \in SUBSET Int, NEW m \in S, \A x \in S : x <= m
    PROVE  Max(S) = m
<1>1. \A y \in S : m >= y
  OBVIOUS
<1>2. Max(S) \in S /\ \A y \in S : Max(S) >= y
  BY <1>1 DEF Max
<1>3. Max(S) >= m /\ m >= Max(S) /\ Max(S) \in Int /\ m \in Int
  BY <1>1, <1>2
<1>. QED  BY <1>3

\* An event that is appended changes nothing of what the log says of earlier events.
LEMMA LogKept ==
    ASSUME TypeOK, NEW e \in Events, log' = Append(log, e)
    PROVE  /\ \A i \in 1 .. Len(log) : log'[i] = log[i]
           /\ Len(log') = Len(log) + 1 /\ log'[Len(log) + 1] = e
           /\ \A j \in 1 .. Len(log) + 1 :
                 /\ ReportsBefore(j)' = ReportsBefore(j)
                 /\ TotalsBefore(j)' = TotalsBefore(j)
                 /\ GapBefore(j)' <=> GapBefore(j)
           /\ \A row : InLog(row) => InLog(row)'
<1>1. Len(log) \in Nat /\ log \in Seq(Events)
  BY DEF TypeOK
<1>2. \A i \in 1 .. Len(log) : log'[i] = log[i]
  BY <1>1
<1>3. Len(log') = Len(log) + 1 /\ log'[Len(log) + 1] = e
  BY <1>1
<1>4. ASSUME NEW j \in 1 .. Len(log) + 1
      PROVE  /\ ReportsBefore(j)' = ReportsBefore(j)
             /\ TotalsBefore(j)' = TotalsBefore(j)
             /\ GapBefore(j)' <=> GapBefore(j)
  <2>1. \A i \in 1 .. (j - 1) : i \in 1 .. Len(log)
    BY <1>1
  <2>2. ReportsBefore(j)' = ReportsBefore(j)
    BY <2>1, <1>2 DEF ReportsBefore
  <2>3. \A r \in ReportsBefore(j) : log'[r] = log[r]
    BY <2>1, <1>2 DEF ReportsBefore
  <2>4. TotalsBefore(j)' = TotalsBefore(j)
    BY <2>2, <2>3 DEF TotalsBefore
  <2>5. GapBefore(j)' <=> GapBefore(j)
    BY <2>2, <2>3 DEF GapBefore
  <2>. QED  BY <2>2, <2>4, <2>5
<1>5. ASSUME NEW row, InLog(row) PROVE InLog(row)'
  <2>1. SUFFICES ASSUME row.kind = "interaction" PROVE InLog(row)'
    BY DEF InLog
  <2>2. PICK b \in 1 .. Len(log), j \in 1 .. Len(log) :
            /\ b < j /\ log[b].id = row.id /\ log[j].type # "steering"
            /\ \A k \in (b + 1) .. (j - 1) : log[k].type = "steering"
            /\ row.cost = IF log[j].type = "user" THEN Absent ELSE CostInLog(j)
    BY <1>5, <2>1 DEF InLog
  <2>3. b \in 1 .. Len(log)' /\ j \in 1 .. Len(log)' /\ j \in 1 .. Len(log) + 1
    BY <1>1, <1>3
  <2>4. \A k \in (b + 1) .. (j - 1) : log'[k] = log[k]
    BY <1>1, <1>2
  <2>5. CostInLog(j)' = CostInLog(j)
    BY <1>2, <1>4, <2>3 DEF CostInLog
  <2>6. log'[b] = log[b] /\ log'[j] = log[j]
    BY <1>2
  <2>. QED  BY <2>2, <2>3, <2>4, <2>5, <2>6 DEF InLog
<1>. QED  BY <1>2, <1>3, <1>4, <1>5

\* A row that the parser completes is one of the log, and the row is typed.
LEMMA InteractionTyped ==
    ASSUME TypeOK, NEW c \in Counts
    PROVE  /\ Interaction(c) \in Seq(Rows)
           /\ \A n \in DOMAIN Interaction(c) :
                 /\ obs.current # None
                 /\ Interaction(c)[n] = [kind |-> "interaction", id |-> obs.current, cost |-> c]
<1>1. obs.current \in Ids \cup {None}
  BY DEF TypeOK, Observers
<1>2. CASE obs.current = None
  BY <1>2 DEF Interaction
<1>3. CASE obs.current # None
  <2>. DEFINE row == [kind |-> "interaction", id |-> obs.current, cost |-> c]
  <2>1. Interaction(c) = <<row>>
    BY <1>3 DEF Interaction
  <2>2. row \in Rows
    BY <1>1 DEF Rows
  <2>. HIDE DEF row
  <2>3. <<row>> \in Seq(Rows) /\ \A n \in DOMAIN <<row>> : <<row>>[n] = row
    BY <2>2
  <2>. QED  BY <1>3, <2>1, <2>3 DEF row
<1>. QED  BY <1>2, <1>3

\* The cost of what an event completes is a counter, and so is the new baseline.
LEMMA CostTyped ==
    ASSUME TypeOK, NEW t \in Counts
    PROVE  /\ Cost(t).cost \in Counts
           /\ Cost(t).previous \in 0 .. MaxTotal
           /\ Cost(t).valid \in BOOLEAN
<1>1. obs.previous \in 0 .. MaxTotal /\ MaxTotal \in Nat
  BY ObserverAssumption DEF TypeOK, Observers
<1>. QED  BY <1>1 DEF Cost, Counts, Absent

\* A line of the ledger holds a row.
LEMMA LedgerTyped == ASSUME TypeOK PROVE \A l \in DOMAIN Ledger : Ledger[l] \in Rows
<1>1. \A n \in DOMAIN results : results[n] \in Lines
  <2>1. results \in Seq(Lines)
    BY DEF TypeOK
  <2>. QED  BY <2>1, ElementOfSeq, LenProperties
<1>. QED  BY <1>1 DEF Ledger, Lines

\* What the parser makes of an event is typed, and only it and the position change.
LEMMA ParsedTyped ==
    ASSUME TypeOK, NEW e \in Events
    PROVE  /\ Parsed(e) = [obs EXCEPT !.current = Parsed(e).current,
                                      !.previous = Parsed(e).previous,
                                      !.valid = Parsed(e).valid, !.out = Parsed(e).out]
           /\ Parsed(e).current \in Ids \cup {None}
           /\ Parsed(e).previous \in 0 .. MaxTotal
           /\ Parsed(e).valid \in BOOLEAN
           /\ Parsed(e).out \in Seq(Rows)
           /\ Parsed(e) \in Observers
<1>1. /\ e.type \in {"user", "steering", "checkpoint", "shutdown"}
      /\ e.id \in Ids \cup {None} /\ e.total \in Counts
  BY DEF Events
<1>2. Absent \in Counts
  BY ObserverAssumption DEF Counts, Absent
<1>3. CASE e.type = "steering" /\ obs.current # None
  <2>1. Parsed(e) = obs
    BY <1>3 DEF Parsed
  <2>. QED  BY <2>1 DEF TypeOK, Observers
<1>4. CASE e.type = "user" \/ (e.type = "steering" /\ obs.current = None)
  <2>1. Parsed(e) = [obs EXCEPT !.current = e.id, !.out = Interaction(Absent)]
    BY <1>4 DEF Parsed
  <2>2. Interaction(Absent) \in Seq(Rows)
    BY <1>2, InteractionTyped
  <2>. QED  BY <2>1, <2>2, <1>1 DEF TypeOK, Observers
<1>5. CASE e.type \in {"checkpoint", "shutdown"}
  <2>. DEFINE c == Cost(e.total)
              tail == IF e.type = "shutdown"
                        THEN <<[kind |-> "summary", id |-> None, cost |-> e.total]>> ELSE <<>>
  <2>1. Parsed(e) = [obs EXCEPT !.current = None, !.previous = c.previous,
                                !.valid = c.valid, !.out = Interaction(c.cost) \o tail]
    BY <1>5 DEF Parsed
  <2>2. /\ c.cost \in Counts /\ c.previous \in 0 .. MaxTotal /\ c.valid \in BOOLEAN
    BY <1>1, CostTyped
  <2>3. Interaction(c.cost) \in Seq(Rows)
    BY <2>2, InteractionTyped
  <2>4. tail \in Seq(Rows)
    <3>1. [kind |-> "summary", id |-> None, cost |-> e.total] \in Rows
      BY <1>1 DEF Rows
    <3>. QED  BY <3>1
  <2>. HIDE DEF c, tail
  <2>5. Interaction(c.cost) \o tail \in Seq(Rows)
    BY <2>3, <2>4, ConcatProperties
  <2>. QED  BY <2>1, <2>2, <2>5 DEF TypeOK, Observers
<1>6. /\ Parsed(e) = [obs EXCEPT !.current = Parsed(e).current,
                                  !.previous = Parsed(e).previous,
                                  !.valid = Parsed(e).valid, !.out = Parsed(e).out]
      /\ Parsed(e).current \in Ids \cup {None}
      /\ Parsed(e).previous \in 0 .. MaxTotal
      /\ Parsed(e).valid \in BOOLEAN
      /\ Parsed(e).out \in Seq(Rows)
  BY <1>1, <1>3, <1>4, <1>5
<1>7. obs \in Observers
  BY DEF TypeOK
<1>. QED  BY <1>6, <1>7 DEF Observers

-----------------------------------------------------------------------------
(***************************************************************************)
(* Types, and the lines that are there.                                    *)
(***************************************************************************)

LEMMA StepTyped ==
    ASSUME TypeOK, LinesAreThere, Next
    PROVE  TypeOK' /\ LinesAreThere'
<1>. USE ObserverAssumption
<1>0. Len(log) \in Nat /\ Len(log) <= MaxEvents /\ log \in Seq(Events)
  BY DEF TypeOK
<1>00. Readable \in 0 .. MaxEvents
  BY <1>0 DEF Readable, LinesAreThere, TypeOK
<1>1. ASSUME NEW e \in NextEvents, NEW half \in BOOLEAN, Write(e, half)
      PROVE  TypeOK' /\ LinesAreThere'
  <2>1. e \in Events
    BY DEF NextEvents, Events, Reports, Counts, Absent
  <2>2. log' \in Seq(Events) /\ Len(log') = Len(log) + 1
    BY <1>0, <1>1, <2>1 DEF Write
  <2>3. obs.limit \in Int /\ Readable \in Int /\ Readable' >= Readable /\ Len(log') >= 1
    BY <1>0, <1>00, <1>1, <2>2 DEF Write, Readable, TypeOK, Observers
  <2>4. TypeOK'
    BY <1>0, <1>1, <2>2 DEF Write, TypeOK
  <2>5. obs.limit <= Readable'
    <3>1. obs.limit <= Readable /\ Readable' \in Int
      BY <1>0, <1>1, <2>2 DEF LinesAreThere, Readable, Write
    <3>. QED  BY <3>1, <2>3
  <2>. QED  BY <1>1, <2>3, <2>4, <2>5 DEF Write, LinesAreThere
<1>2. CASE WriteRest
  <2>1. TypeOK'
    BY <1>2 DEF WriteRest, TypeOK
  <2>2. obs.limit \in Int /\ obs.limit <= Len(log)
    BY <1>0, <1>00 DEF TypeOK, Observers, LinesAreThere, Readable
  <2>. QED  BY <1>2, <2>1, <2>2 DEF WriteRest, LinesAreThere, Readable
<1>3. ASSUME NEW include \in BOOLEAN, Start(include)
      PROVE  TypeOK' /\ LinesAreThere'
  <2>1. ResultKeys \in SUBSET ({"interaction", "summary"} \X (Ids \cup {None}))
    <3>1. \A l \in DOMAIN Ledger : Ledger[l] \in Rows
      BY LedgerTyped
    <3>. QED  BY <3>1 DEF ResultKeys, Key, Rows
  <2>2. obs' = [Idle EXCEPT !.pc = "initial", !.include = include, !.limit = Readable,
                            !.keys = ResultKeys]
    BY <1>3 DEF Start
  <2>3. obs' \in Observers /\ obs'.pos = 0 /\ obs'.limit = Readable
    <3>1. <<>> \in Seq(Rows)
      OBVIOUS
    <3>2. obs' = [pc |-> "initial", include |-> include, pos |-> 0, limit |-> Readable,
                  current |-> None, previous |-> 0, valid |-> TRUE, out |-> <<>>,
                  keys |-> ResultKeys]
      BY <2>2 DEF Idle
    <3>. QED  BY <1>00, <2>1, <3>1, <3>2 DEF Observers
  <2>4. starts' \in 0 .. MaxStarts
    BY <1>3 DEF Start, TypeOK
  <2>. QED  BY <1>0, <1>00, <1>3, <2>3, <2>4 DEF Start, TypeOK, LinesAreThere, Readable
<1>4. CASE Consume
  <2>. DEFINE e == log[obs.pos + 1]
              p == Parsed(e)
  <2>0. obs \in Observers
    BY DEF TypeOK
  <2>1. obs.pos + 1 \in 1 .. Len(log) /\ obs.pos + 1 \in 0 .. MaxEvents
        /\ obs.pos + 1 <= obs.limit
    BY <1>0, <1>4 DEF Consume, TypeOK, LinesAreThere, Readable, Observers
  <2>2. e \in Events
    BY <1>0, <2>1
  <2>. HIDE DEF e
  <2>3. /\ p = [obs EXCEPT !.current = p.current, !.previous = p.previous,
                           !.valid = p.valid, !.out = p.out]
        /\ p.current \in Ids \cup {None} /\ p.previous \in 0 .. MaxTotal
        /\ p.valid \in BOOLEAN /\ p.out \in Seq(Rows)
    BY <2>2, ParsedTyped
  <2>4. obs' = [p EXCEPT !.pos = obs.pos + 1]
    BY <1>4 DEF Consume, e
  <2>. HIDE DEF p
  <2>5. obs' \in Observers /\ obs'.pos = obs.pos + 1 /\ obs'.limit = obs.limit
    BY <2>0, <2>1, <2>3, <2>4 DEF Observers
  <2>. QED  BY <1>4, <2>1, <2>5 DEF Consume, TypeOK, LinesAreThere, Readable
<1>5. CASE Emit
  <2>. DEFINE row == Head(obs.out)
  <2>0. obs \in Observers /\ obs.out \in Seq(Rows) /\ obs.out # <<>>
    BY <1>5 DEF TypeOK, Observers, Emit
  <2>1. row \in Rows /\ Tail(obs.out) \in Seq(Rows)
    BY <2>0
  <2>2. Key(row) \in {"interaction", "summary"} \X (Ids \cup {None})
    BY <2>1 DEF Key, Rows
  <2>3. results' \in Seq(Lines)
    <3>1. [row |-> row, whole |-> TRUE] \in Lines
      BY <2>1 DEF Lines
    <3>2. results' \in {results, Append(results, [row |-> row, whole |-> TRUE])}
      BY <1>5 DEF Emit, Appended
    <3>. QED  BY <3>1, <3>2, AppendProperties DEF TypeOK
  <2>. HIDE DEF row
  <2>4. /\ obs' = [obs EXCEPT !.out = obs'.out, !.keys = obs'.keys, !.pc = obs'.pc]
        /\ obs'.out \in {<<>>, Tail(obs.out)}
        /\ obs'.keys \in {obs.keys, obs.keys \cup {Key(row)}}
        /\ obs'.pc \in {obs.pc, "ended"}
    BY <1>5, <2>0 DEF Emit, Observers, row
  <2>5. obs'.out \in Seq(Rows)
    BY <2>1, <2>4, EmptySeq
  <2>6. obs'.keys \in SUBSET ({"interaction", "summary"} \X (Ids \cup {None}))
    BY <2>0, <2>2, <2>4 DEF Observers
  <2>7. obs' \in Observers /\ obs'.pos = obs.pos /\ obs'.limit = obs.limit
    BY <2>0, <2>4, <2>5, <2>6 DEF Observers
  <2>. QED  BY <1>5, <2>3, <2>7 DEF Emit, TypeOK, LinesAreThere, Readable
<1>6. CASE Poll
  <2>1. obs' \in Observers /\ obs'.limit = Readable /\ obs'.pos = obs.pos
        /\ obs.pos = obs.limit
    BY <1>00, <1>6 DEF Poll, TypeOK, Observers
  <2>. QED  BY <1>0, <1>00, <1>6, <2>1 DEF Poll, TypeOK, LinesAreThere, Readable
<1>7. CASE Finish
  BY <1>7 DEF Finish, TypeOK, LinesAreThere, Readable, Observers
<1>8. ASSUME NEW tear \in BOOLEAN, Crash(tear)
      PROVE  TypeOK' /\ LinesAreThere'
  <2>1. results' \in Seq(Lines)
    <3>1. CASE tear
      <4>1. Head(obs.out) \in Rows
        BY <1>8, <3>1 DEF Crash, TypeOK, Observers
      <4>2. [row |-> Head(obs.out), whole |-> FALSE] \in Lines
        BY <4>1 DEF Lines
      <4>. QED  BY <1>8, <3>1, <4>2, AppendProperties DEF Crash, TypeOK
    <3>2. CASE ~tear
      BY <1>8, <3>2 DEF Crash, TypeOK
    <3>. QED  BY <3>1, <3>2
  <2>2. Idle \in Observers /\ Idle.pos = 0 /\ Idle.limit = 0
    BY DEF Idle, Observers
  <2>. QED  BY <1>0, <1>8, <2>1, <2>2 DEF Crash, TypeOK, LinesAreThere, Readable
<1>. QED  BY <1>1, <1>2, <1>3, <1>4, <1>5, <1>6, <1>7, <1>8 DEF Next

-----------------------------------------------------------------------------
(***************************************************************************)
(* The parser and the log.                                                 *)
(***************************************************************************)

\* What the log says does not change while nothing is written to it.
LEMMA SameLog ==
    ASSUME log' = log
    PROVE  /\ \A j : TotalsBefore(j)' = TotalsBefore(j) /\ (GapBefore(j)' <=> GapBefore(j))
           /\ \A row : InLog(row)' <=> InLog(row)
<1>1. \A j : ReportsBefore(j)' = ReportsBefore(j)
  BY DEF ReportsBefore
<1>2. \A j : TotalsBefore(j)' = TotalsBefore(j) /\ (GapBefore(j)' <=> GapBefore(j))
  BY <1>1 DEF TotalsBefore, GapBefore
<1>3. \A j : CostInLog(j)' = CostInLog(j)
  BY <1>2 DEF CostInLog
<1>. QED  BY <1>2, <1>3 DEF InLog

\* One event more has been read: which reports precede the next one.
LEMMA ReportsGrow ==
    ASSUME NEW p \in Nat \ {0}
    PROVE  ReportsBefore(p + 1) = ReportsBefore(p) \cup
              (IF log[p].type \in {"checkpoint", "shutdown"} THEN {p} ELSE {})
<1>1. 1 .. (p + 1 - 1) = 1 .. (p - 1) \cup {p}
  OBVIOUS
<1>. QED  BY <1>1 DEF ReportsBefore

\* The line that a parser reads next is an event of the log.
LEMMA LineRead ==
    ASSUME TypeOK, LinesAreThere, Consume
    PROVE  /\ obs.pos + 1 \in 1 .. Len(log)
           /\ log[obs.pos + 1] \in Events
           /\ obs.pos \in Nat
<1>1. Len(log) \in Nat /\ log \in Seq(Events) /\ obs.pos \in Nat /\ obs.limit \in Nat
  BY DEF TypeOK, Observers
<1>2. obs.pos + 1 \in 1 .. Len(log)
  BY <1>1 DEF Consume, LinesAreThere, Readable, TypeOK
<1>. QED  BY <1>1, <1>2

\* A line that is read leaves the parser with the baseline of the log.
LEMMA ConsumeBaseline ==
    ASSUME TypeOK, LinesAreThere, CounterGrows, BaselineInLog, Consume
    PROVE  BaselineInLog'
<1>. DEFINE p == obs.pos + 1
            e == log[p]
            c == Cost(e.total)
<1>1. p \in 1 .. Len(log) /\ e \in Events /\ p \in Nat \ {0}
  BY LineRead
<1>2. /\ e.type \in {"user", "steering", "checkpoint", "shutdown"}
      /\ e.total \in Counts
  BY <1>1 DEF Events
<1>3. /\ \A j : TotalsBefore(j)' = TotalsBefore(j)
      /\ \A j : GapBefore(j)' <=> GapBefore(j)
  BY SameLog DEF Consume
<1>4. obs \in Observers
  BY DEF TypeOK
<1>5. obs' = [Parsed(e) EXCEPT !.pos = p]
  BY DEF Consume
<1>6. /\ obs'.pos = p
      /\ obs'.previous = Parsed(e).previous /\ obs'.valid = Parsed(e).valid
  <2>1. Parsed(e) \in Observers
    BY <1>1, ParsedTyped
  <2>. QED  BY <1>5, <2>1 DEF Observers
<1>7. CASE e.type \notin {"checkpoint", "shutdown"}
  <2>1. ReportsBefore(p + 1) = ReportsBefore(p)
    BY <1>1, <1>7, ReportsGrow
  <2>2. TotalsBefore(p + 1) = TotalsBefore(p) /\ (GapBefore(p + 1) <=> GapBefore(p))
    BY <2>1 DEF TotalsBefore, GapBefore
  <2>3. Parsed(e).previous = obs.previous /\ Parsed(e).valid = obs.valid
    BY <1>2, <1>4, <1>7 DEF Parsed, Observers
  <2>. HIDE DEF e
  <2>. QED  BY <1>3, <1>6, <2>2, <2>3 DEF BaselineInLog
<1>8. CASE e.type \in {"checkpoint", "shutdown"}
  <2>1. ReportsBefore(p + 1) = ReportsBefore(p) \cup {p}
    BY <1>1, <1>8, ReportsGrow
  <2>2. \A r \in ReportsBefore(p) : r \in 1 .. p - 1
    BY DEF ReportsBefore
  <2>3. Parsed(e).previous = c.previous /\ Parsed(e).valid = c.valid
    BY <1>4, <1>8 DEF Parsed, Observers
  <2>4. CASE e.total = Absent
    <3>1. TotalsBefore(p + 1) = TotalsBefore(p)
      BY <2>1, <2>4 DEF TotalsBefore
    <3>2. GapBefore(p + 1)
      BY <1>1, <2>1, <2>2, <2>4 DEF GapBefore
    <3>3. c.previous = obs.previous /\ c.valid = FALSE
      BY <2>4 DEF Cost
    <3>. HIDE DEF e, c
    <3>. QED  BY <1>3, <1>6, <2>3, <3>1, <3>2, <3>3 DEF BaselineInLog
  <2>5. CASE e.total # Absent
    <3>1. TotalsBefore(p + 1) = TotalsBefore(p) \cup {e.total}
      BY <2>1, <2>5 DEF TotalsBefore
    <3>2. ~GapBefore(p + 1)
      BY <1>1, <2>1, <2>2, <2>5 DEF GapBefore
    <3>3. c.previous = e.total /\ c.valid = TRUE
      BY <2>5 DEF Cost
    <3>4. \A t \in TotalsBefore(p) : t <= e.total
      <4>1. \A r \in ReportsBefore(p) : r \in 1 .. Len(log) /\ r < p
        BY <1>1, <2>2
      <4>. QED  BY <1>1, <2>5, <4>1 DEF CounterGrows, TotalsBefore
    <3>5. e.total <= e.total
      BY <1>2, ObserverAssumption DEF Counts, Absent
    <3>. HIDE DEF e, c
    <3>. QED  BY <1>3, <1>6, <2>3, <3>1, <3>2, <3>3, <3>4, <3>5 DEF BaselineInLog
  <2>. QED  BY <2>4, <2>5
<1>. QED  BY <1>7, <1>8

\* A line that is read leaves the parser with the interaction that is open there.
LEMMA ConsumeCurrent ==
    ASSUME TypeOK, LinesAreThere, CurrentInLog, Consume
    PROVE  CurrentInLog'
<1>. DEFINE p == obs.pos + 1
            e == log[p]
<1>1. p \in 1 .. Len(log) /\ e \in Events /\ obs.pos \in Nat
  BY LineRead
<1>2. e.type \in {"user", "steering", "checkpoint", "shutdown"}
  BY <1>1 DEF Events
<1>3. obs \in Observers /\ log' = log
  BY DEF TypeOK, Consume
<1>4. obs'.pos = p /\ obs'.current = Parsed(e).current
  <2>1. Parsed(e) \in Observers
    BY <1>1, ParsedTyped
  <2>. QED  BY <2>1 DEF Consume, Observers
<1>5. CASE e.type = "steering" /\ obs.current # None
  <2>1. Parsed(e).current = obs.current
    BY <1>5 DEF Parsed
  <2>2. PICK b \in 1 .. obs.pos :
            /\ log[b].id = obs.current
            /\ \A k \in (b + 1) .. obs.pos : log[k].type = "steering"
    BY <1>5 DEF CurrentInLog
  <2>3. \A k \in (b + 1) .. p : log[k].type = "steering"
    BY <1>1, <1>5, <2>2
  <2>4. b \in 1 .. p
    BY <1>1
  <2>. QED  BY <1>3, <1>4, <2>1, <2>2, <2>3, <2>4 DEF CurrentInLog
<1>6. CASE e.type = "user" \/ (e.type = "steering" /\ obs.current = None)
  <2>1. Parsed(e).current = e.id
    BY <1>3, <1>6 DEF Parsed, Observers
  <2>2. p \in 1 .. p /\ \A k \in (p + 1) .. p : log[k].type = "steering"
    BY <1>1
  <2>. QED  BY <1>3, <1>4, <2>1, <2>2 DEF CurrentInLog
<1>7. CASE e.type \in {"checkpoint", "shutdown"}
  <2>1. Parsed(e).current = None
    BY <1>3, <1>7 DEF Parsed, Observers
  <2>. QED  BY <1>4, <2>1 DEF CurrentInLog
<1>. QED  BY <1>2, <1>5, <1>6, <1>7

\* The cost that the parser charges at a report is what the log says.
LEMMA CostIsInLog ==
    ASSUME TypeOK, LinesAreThere, CounterGrows, BaselineInLog, Consume
    PROVE  Cost(log[obs.pos + 1].total).cost = CostInLog(obs.pos + 1)
<1>. DEFINE p == obs.pos + 1
            t == log[p].total
            S == TotalsBefore(p) \cup {0}
<1>1. p \in 1 .. Len(log) /\ log[p] \in Events
  BY LineRead
<1>2. t \in Counts /\ t \in Int /\ Counts \subseteq Int
  BY <1>1, ObserverAssumption DEF Events, Counts, Absent
<1>3. CASE t = Absent \/ GapBefore(p)
  BY <1>3 DEF Cost, CostInLog, BaselineInLog
<1>4. CASE t # Absent /\ ~GapBefore(p)
  <2>1. \A r \in ReportsBefore(p) : r \in 1 .. Len(log) /\ r < p /\ log[r].total \in Counts
    <3>1. \A r \in 1 .. Len(log) : log[r] \in Events
      BY DEF TypeOK
    <3>. QED  BY <1>1, <3>1 DEF ReportsBefore, Events
  <2>2. S \in SUBSET Int
    <3>1. TotalsBefore(p) \subseteq Int
      BY <1>2, <2>1 DEF TotalsBefore
    <3>. QED  BY <3>1
  <2>3. obs.previous \in S /\ obs.previous \in Nat /\ \A x \in S : x <= obs.previous
    BY DEF BaselineInLog, TypeOK, Observers
  <2>4. Max(S) = obs.previous
    BY <2>2, <2>3, MaxIs
  <2>5. obs.previous <= t
    <3>1. \A x \in TotalsBefore(p) : x <= t
      BY <1>1, <1>4, <2>1 DEF CounterGrows, TotalsBefore
    <3>2. 0 <= t
      BY <1>2, <1>4 DEF Counts, Absent
    <3>. QED  BY <2>3, <3>1, <3>2
  <2>6. obs.valid
    BY <1>4 DEF BaselineInLog
  <2>7. Cost(t).cost = t - obs.previous
    <3>. HIDE DEF t
    <3>1. t > obs.previous \/ (~(t > obs.previous) /\ t - obs.previous = 0)
      BY <1>2, <2>3, <2>5
    <3>. QED  BY <1>4, <2>6, <3>1 DEF Cost
  <2>. QED  BY <1>4, <2>4, <2>7 DEF CostInLog
<1>. QED  BY <1>3, <1>4

\* The rows that a line completes are those of the log.
LEMMA ConsumeOut ==
    ASSUME TypeOK, LinesAreThere, CounterGrows, BaselineInLog, CurrentInLog, Consume
    PROVE  OutInLog'
<1>. DEFINE p == obs.pos + 1
            e == log[p]
            done(c) == [kind |-> "interaction", id |-> obs.current, cost |-> c]
<1>1. p \in 1 .. Len(log) /\ e \in Events /\ obs.pos \in Nat /\ Len(log) \in Nat
  BY LineRead DEF TypeOK
<1>2. e.type \in {"user", "steering", "checkpoint", "shutdown"} /\ e.total \in Counts
  BY <1>1 DEF Events
<1>3. obs \in Observers /\ log' = log /\ obs.out = <<>>
  BY DEF TypeOK, Consume
<1>4. obs'.out = Parsed(e).out
  <2>1. Parsed(e) \in Observers
    BY <1>1, ParsedTyped
  <2>. QED  BY <2>1 DEF Consume, Observers
<1>5. Absent \in Counts
  BY ObserverAssumption DEF Counts, Absent
\* an interaction that this event completes at the cost c
<1>6. ASSUME NEW c \in Counts, obs.current # None, e.type # "steering",
             c = IF e.type = "user" THEN Absent ELSE CostInLog(p)
      PROVE  InLog(done(c))
  <2>1. PICK b \in 1 .. obs.pos :
            /\ log[b].id = obs.current
            /\ \A k \in (b + 1) .. obs.pos : log[k].type = "steering"
    BY <1>6 DEF CurrentInLog
  <2>2. b \in 1 .. Len(log) /\ b < p /\ \A k \in (b + 1) .. (p - 1) : log[k].type = "steering"
    BY <1>1, <2>1
  <2>3. done(c).id = obs.current /\ done(c).cost = c
    OBVIOUS
  <2>. HIDE DEF done
  <2>. QED  BY <1>1, <1>6, <2>1, <2>2, <2>3 DEF InLog
<1>7. \A n \in DOMAIN Parsed(e).out : InLog(Parsed(e).out[n])
  <2>1. CASE e.type = "steering" /\ obs.current # None
    BY <1>3, <2>1 DEF Parsed
  <2>2. CASE e.type = "user" \/ (e.type = "steering" /\ obs.current = None)
    <3>1. Parsed(e).out = Interaction(Absent)
      BY <1>3, <2>2 DEF Parsed, Observers
    <3>2. \A n \in DOMAIN Interaction(Absent) :
             obs.current # None /\ Interaction(Absent)[n] = done(Absent)
      BY <1>5, InteractionTyped
    <3>. QED  BY <1>5, <1>6, <2>2, <3>1, <3>2
  <2>3. CASE e.type \in {"checkpoint", "shutdown"}
    <3>. DEFINE c == Cost(e.total)
                sum == [kind |-> "summary", id |-> None, cost |-> e.total]
                tail == IF e.type = "shutdown" THEN <<sum>> ELSE <<>>
                one == Interaction(c.cost)
    <3>1. Parsed(e).out = one \o tail
      BY <1>3, <2>3 DEF Parsed, Observers
    <3>2. c.cost \in Counts /\ c.cost = CostInLog(p)
      BY <1>2, CostTyped, CostIsInLog
    <3>3. \A n \in DOMAIN one : obs.current # None /\ one[n] = done(c.cost)
      BY <3>2, InteractionTyped
    <3>4. \A n \in DOMAIN one : InLog(one[n])
      BY <1>6, <2>3, <3>2, <3>3
    <3>5. InLog(sum)
      BY DEF InLog
    <3>6. \A n \in DOMAIN tail : InLog(tail[n])
      <4>. HIDE DEF sum
      <4>. QED  BY <3>5
    <3>7. one \in Seq(Rows) /\ tail \in Seq(Rows)
      <4>1. sum \in Rows
        BY <1>2 DEF Rows
      <4>2. one \in Seq(Rows)
        BY <3>2, InteractionTyped
      <4>. HIDE DEF sum, one
      <4>. QED  BY <4>1, <4>2
    <3>. HIDE DEF one, tail
    <3>8. ASSUME NEW n \in DOMAIN (one \o tail) PROVE InLog((one \o tail)[n])
      <4>1. /\ Len(one) \in Nat /\ Len(tail) \in Nat
            /\ DOMAIN one = 1 .. Len(one) /\ DOMAIN tail = 1 .. Len(tail)
        BY <3>7
      <4>2. CASE n <= Len(one)
        BY <3>4, <3>7, <4>1, <4>2
      <4>3. CASE n > Len(one)
        BY <3>6, <3>7, <4>1, <4>3
      <4>. QED  BY <3>7, <4>1, <4>2, <4>3
    <3>. QED  BY <3>1, <3>8
  <2>. QED  BY <1>2, <2>1, <2>2, <2>3
<1>8. \A row : InLog(row)' <=> InLog(row)
  BY <1>3, SameLog
<1>. QED  BY <1>4, <1>7, <1>8 DEF OutInLog

\* Nothing that is written to the log takes a counter back.
LEMMA WriteCounter ==
    ASSUME TypeOK, CounterGrows, NEW e \in NextEvents, e \in Events, log' = Append(log, e)
    PROVE  CounterGrows'
<1>1. Len(log) \in Nat
  BY DEF TypeOK
<1>2. /\ \A i \in 1 .. Len(log) : log'[i] = log[i]
      /\ Len(log') = Len(log) + 1 /\ log'[Len(log) + 1] = e
  BY LogKept
<1>3. e.total # Absent => \A i \in 1 .. Len(log) : log[i].total <= e.total
  BY DEF NextEvents, Reports, Used
<1>4. SUFFICES ASSUME NEW i \in 1 .. Len(log) + 1, NEW j \in 1 .. Len(log) + 1,
                      i < j, log'[j].total # Absent
               PROVE  log'[i].total <= log'[j].total
  BY <1>2 DEF CounterGrows
<1>5. i \in 1 .. Len(log)
  BY <1>1, <1>4
<1>6. CASE j = Len(log) + 1
  BY <1>2, <1>3, <1>4, <1>5, <1>6
<1>7. CASE j # Len(log) + 1
  <2>1. j \in 1 .. Len(log)
    BY <1>1, <1>7
  <2>. QED  BY <1>2, <1>4, <1>5, <2>1 DEF CounterGrows
<1>. QED  BY <1>6, <1>7

\* A parser that has read nothing agrees with any log.
LEMMA FreshParser ==
    ASSUME obs'.pos = 0, obs'.current = None, obs'.previous = 0, obs'.valid = TRUE,
           obs'.out = <<>>
    PROVE  BaselineInLog' /\ CurrentInLog' /\ OutInLog'
<1>1. ReportsBefore(1) = {} /\ ReportsBefore(1)' = {}
  BY DEF ReportsBefore
<1>2. TotalsBefore(1)' = {} /\ ~GapBefore(1)'
  BY <1>1 DEF TotalsBefore, GapBefore
<1>3. BaselineInLog'
  BY <1>2 DEF BaselineInLog
<1>. QED  BY <1>3 DEF CurrentInLog, OutInLog

\* What the parser knows stays true of the log.
LEMMA StepParser ==
    ASSUME TypeOK, LinesAreThere, CounterGrows, BaselineInLog, CurrentInLog, OutInLog, Next
    PROVE  CounterGrows' /\ BaselineInLog' /\ CurrentInLog' /\ OutInLog'
<1>0. obs \in Observers
  BY DEF TypeOK
<1>1. ASSUME NEW e \in NextEvents, NEW half \in BOOLEAN, Write(e, half)
      PROVE  CounterGrows' /\ BaselineInLog' /\ CurrentInLog' /\ OutInLog'
  <2>1. e \in Events
    BY ObserverAssumption DEF NextEvents, Events, Reports, Counts, Absent
  <2>2. log' = Append(log, e) /\ obs' = obs
    BY <1>1 DEF Write
  <2>3. /\ \A i \in 1 .. Len(log) : log'[i] = log[i]
        /\ \A j \in 1 .. Len(log) + 1 : /\ TotalsBefore(j)' = TotalsBefore(j)
                                        /\ GapBefore(j)' <=> GapBefore(j)
        /\ \A row : InLog(row) => InLog(row)'
    BY <2>1, <2>2, LogKept
  <2>4. obs.pos + 1 \in 1 .. Len(log) + 1 /\ obs.pos \in Nat /\ obs.pos <= Len(log)
    BY <1>0 DEF TypeOK, Observers, LinesAreThere, Readable
  <2>5. BaselineInLog'
    BY <2>2, <2>3, <2>4 DEF BaselineInLog
  <2>6. CurrentInLog'
    <3>1. \A k \in 1 .. obs.pos : k \in 1 .. Len(log) /\ log'[k] = log[k]
      BY <2>3, <2>4 DEF TypeOK
    <3>2. \A b \in 1 .. obs.pos : \A k \in (b + 1) .. obs.pos : k \in 1 .. obs.pos
      BY <2>4
    <3>. QED  BY <2>2, <3>1, <3>2 DEF CurrentInLog
  <2>7. OutInLog'
    BY <2>2, <2>3 DEF OutInLog
  <2>. QED  BY <2>1, <2>2, <2>5, <2>6, <2>7, WriteCounter
<1>2. ASSUME log' = log, obs'.pos = obs.pos, obs'.current = obs.current,
             obs'.previous = obs.previous, obs'.valid = obs.valid,
             \/ obs'.out = obs.out \/ obs'.out = <<>>
             \/ obs.out # <<>> /\ obs'.out = Tail(obs.out)
      PROVE  CounterGrows' /\ BaselineInLog' /\ CurrentInLog' /\ OutInLog'
  <2>1. /\ \A j : TotalsBefore(j)' = TotalsBefore(j) /\ (GapBefore(j)' <=> GapBefore(j))
        /\ \A row : InLog(row)' <=> InLog(row)
    BY <1>2, SameLog
  <2>2. \A n \in DOMAIN obs'.out : InLog(obs'.out[n])
    <3>1. obs.out \in Seq(Rows)
      BY <1>0 DEF Observers
    <3>2. ASSUME obs'.out = Tail(obs.out), obs.out # <<>>, NEW n \in DOMAIN obs'.out
          PROVE  InLog(obs'.out[n])
      <4>1. n + 1 \in DOMAIN obs.out /\ obs'.out[n] = obs.out[n + 1]
        BY <3>1, <3>2
      <4>. QED  BY <4>1 DEF OutInLog
    <3>3. obs'.out = obs.out => \A n \in DOMAIN obs'.out : InLog(obs'.out[n])
      BY DEF OutInLog
    <3>4. obs'.out = <<>> => \A n \in DOMAIN obs'.out : InLog(obs'.out[n])
      OBVIOUS
    <3>. QED  BY <1>2, <3>2, <3>3, <3>4
  <2>. QED  BY <1>2, <2>1, <2>2 DEF CounterGrows, BaselineInLog, CurrentInLog, OutInLog
<1>3. CASE WriteRest
  BY <1>2, <1>3 DEF WriteRest
<1>4. ASSUME NEW include \in BOOLEAN, Start(include)
      PROVE  CounterGrows' /\ BaselineInLog' /\ CurrentInLog' /\ OutInLog'
  <2>1. CounterGrows'
    BY <1>4 DEF Start, CounterGrows
  <2>2. /\ obs'.pos = 0 /\ obs'.current = None /\ obs'.previous = 0
        /\ obs'.valid = TRUE /\ obs'.out = <<>>
    BY <1>4 DEF Start, Idle
  <2>. QED  BY <2>1, <2>2, FreshParser
<1>5. CASE Consume
  <2>1. CounterGrows'
    BY <1>5 DEF Consume, CounterGrows
  <2>. QED  BY <1>5, <2>1, ConsumeBaseline, ConsumeCurrent, ConsumeOut
<1>6. CASE Emit
  BY <1>0, <1>2, <1>6 DEF Emit, Observers
<1>7. CASE Poll
  BY <1>0, <1>2, <1>7 DEF Poll, Observers
<1>8. CASE Finish
  BY <1>0, <1>2, <1>8 DEF Finish, Observers
<1>9. ASSUME NEW tear \in BOOLEAN, Crash(tear)
      PROVE  CounterGrows' /\ BaselineInLog' /\ CurrentInLog' /\ OutInLog'
  <2>1. CounterGrows'
    BY <1>9 DEF Crash, CounterGrows
  <2>2. /\ obs'.pos = 0 /\ obs'.current = None /\ obs'.previous = 0
        /\ obs'.valid = TRUE /\ obs'.out = <<>>
    BY <1>9 DEF Crash, Idle
  <2>. QED  BY <2>1, <2>2, FreshParser
<1>. QED  BY <1>1, <1>3, <1>4, <1>5, <1>6, <1>7, <1>8, <1>9 DEF Next

-----------------------------------------------------------------------------
(***************************************************************************)
(* The results file.                                                       *)
(***************************************************************************)

\* A whole line at the end of the file is a line more of the ledger.
LEMMA LedgerGrows ==
    ASSUME TypeOK, NEW row \in Rows, results' = Append(results, [row |-> row, whole |-> TRUE])
    PROVE  LET n == Len(results) + 1
           IN  /\ \A l \in DOMAIN Ledger : l < n
               /\ Ledger' = [l \in DOMAIN Ledger \cup {n} |-> IF l = n THEN row ELSE Ledger[l]]
               /\ ResultKeys' = ResultKeys \cup {Key(row)}
<1>. DEFINE n == Len(results) + 1
            line == [row |-> row, whole |-> TRUE]
<1>1. results \in Seq(Lines) /\ Len(results) \in Nat /\ DOMAIN results = 1 .. Len(results)
  BY DEF TypeOK
<1>2. line.row = row /\ line.whole = TRUE
  OBVIOUS
<1>. HIDE DEF line
<1>3. /\ DOMAIN results' = 1 .. n /\ results'[n] = line
      /\ \A l \in DOMAIN results : results'[l] = results[l]
  BY <1>1 DEF line
<1>4. \A l \in DOMAIN Ledger : l < n
  BY <1>1 DEF Ledger
<1>5. {l \in 1 .. n : results'[l].whole} = {l \in 1 .. Len(results) : results[l].whole} \cup {n}
  BY <1>1, <1>2, <1>3
<1>6. DOMAIN Ledger' = DOMAIN Ledger \cup {n}
  BY <1>1, <1>3, <1>5 DEF Ledger
<1>7. \A l \in DOMAIN Ledger' : Ledger'[l] = results'[l].row
  BY DEF Ledger
<1>8. \A l \in DOMAIN Ledger' : Ledger'[l] = IF l = n THEN row ELSE Ledger[l]
  BY <1>1, <1>2, <1>3, <1>6, <1>7 DEF Ledger
<1>9. Ledger' = [l \in DOMAIN Ledger \cup {n} |-> IF l = n THEN row ELSE Ledger[l]]
  BY <1>6, <1>8 DEF Ledger
<1>10. ResultKeys' = ResultKeys \cup {Key(row)}
  <2>1. \A l \in DOMAIN Ledger : l # n
    BY <1>1, <1>4
  <2>. QED  BY <1>6, <1>8, <2>1 DEF ResultKeys, Key
<1>. QED  BY <1>4, <1>9, <1>10

\* A torn line adds nothing.
LEMMA LedgerStays ==
    ASSUME TypeOK, NEW row \in Rows, results' = Append(results, [row |-> row, whole |-> FALSE])
    PROVE  Ledger' = Ledger
<1>. DEFINE n == Len(results) + 1
            line == [row |-> row, whole |-> FALSE]
<1>1. results \in Seq(Lines) /\ Len(results) \in Nat /\ DOMAIN results = 1 .. Len(results)
  BY DEF TypeOK
<1>2. line.whole = FALSE
  OBVIOUS
<1>. HIDE DEF line
<1>3. /\ DOMAIN results' = 1 .. n /\ results'[n] = line
      /\ \A l \in DOMAIN results : results'[l] = results[l]
  BY <1>1 DEF line
<1>4. {l \in 1 .. n : results'[l].whole} = {l \in 1 .. Len(results) : results[l].whole}
  BY <1>1, <1>2, <1>3
<1>5. DOMAIN Ledger' = DOMAIN Ledger
  BY <1>1, <1>3, <1>4 DEF Ledger
<1>6. \A l \in DOMAIN Ledger : Ledger'[l] = Ledger[l]
  BY <1>1, <1>3, <1>5 DEF Ledger
<1>. QED  BY <1>5, <1>6 DEF Ledger

\* A step leaves the ledger as it is, or an observer emits a row that it wants.
LEMMA StepLedger ==
    ASSUME TypeOK, LinesAreThere, Next
    PROVE  \/ /\ Ledger' = Ledger
              /\ Running' => (Running /\ obs'.keys = obs.keys) \/ obs'.keys = ResultKeys
           \/ /\ Running /\ obs.out # <<>> /\ Wanted(Head(obs.out)) /\ log' = log
              /\ results' = Append(results, [row |-> Head(obs.out), whole |-> TRUE])
              /\ obs'.keys = obs.keys \cup {Key(Head(obs.out))}
<1>0. obs \in Observers
  BY DEF TypeOK
<1>1. CASE (\E e \in NextEvents, half \in BOOLEAN : Write(e, half)) \/ WriteRest
  BY <1>1 DEF Write, WriteRest, Ledger, Running
<1>2. ASSUME NEW include \in BOOLEAN, Start(include)
      PROVE  Ledger' = Ledger /\ obs'.keys = ResultKeys
  BY <1>2 DEF Start, Idle, Ledger
<1>3. CASE Consume
  <2>1. PICK e \in Events : obs' = [Parsed(e) EXCEPT !.pos = obs.pos + 1]
    BY <1>3, LineRead DEF Consume
  <2>2. obs'.keys = obs.keys
    BY <1>0, <2>1, ParsedTyped DEF Observers
  <2>. QED  BY <1>3, <2>2 DEF Consume, Ledger
<1>4. CASE Emit
  <2>1. CASE Wanted(Head(obs.out))
    BY <1>0, <1>4, <2>1 DEF Emit, Appended, Observers
  <2>2. CASE ~Wanted(Head(obs.out))
    BY <1>0, <1>4, <2>2 DEF Emit, Observers, Ledger
  <2>. QED  BY <2>1, <2>2
<1>5. CASE Poll \/ Finish
  BY <1>0, <1>5 DEF Poll, Finish, Observers, Ledger, Running
<1>6. ASSUME NEW tear \in BOOLEAN, Crash(tear)
      PROVE  Ledger' = Ledger /\ ~Running'
  <2>1. ~Running'
    BY <1>6 DEF Crash, Idle, Running
  <2>2. CASE tear
    <3>1. Head(obs.out) \in Rows
      BY <1>0, <1>6, <2>2 DEF Crash, Observers
    <3>. QED  BY <1>6, <2>1, <2>2, <3>1, LedgerStays DEF Crash
  <2>3. CASE ~tear
    BY <1>6, <2>1, <2>3 DEF Crash, Ledger
  <2>. QED  BY <2>2, <2>3
<1>. QED  BY <1>1, <1>2, <1>3, <1>4, <1>5, <1>6 DEF Next

LEMMA StepKeys ==
    ASSUME TypeOK, LinesAreThere, KeysKnown, Next
    PROVE  KeysKnown'
<1>1. CASE Ledger' = Ledger /\ (Running' => (Running /\ obs'.keys = obs.keys) \/ obs'.keys = ResultKeys)
  BY <1>1 DEF KeysKnown, ResultKeys, Key
<1>2. ASSUME Running, obs.out # <<>>,
             results' = Append(results, [row |-> Head(obs.out), whole |-> TRUE]),
             obs'.keys = obs.keys \cup {Key(Head(obs.out))}
      PROVE  KeysKnown'
  <2>1. Head(obs.out) \in Rows
    BY <1>2 DEF TypeOK, Observers
  <2>. QED  BY <1>2, <2>1, LedgerGrows DEF KeysKnown
<1>. QED  BY <1>1, <1>2, StepLedger

LEMMA StepRows ==
    ASSUME TypeOK, LinesAreThere, OutInLog, RowsMatchLog, Next
    PROVE  RowsMatchLog'
<1>1. \A row : InLog(row) => InLog(row)'
  <2>1. CASE log' = log
    BY <2>1, SameLog
  <2>2. ASSUME NEW e \in NextEvents, log' = Append(log, e)
        PROVE  \A row : InLog(row) => InLog(row)'
    <3>1. e \in Events
      BY ObserverAssumption DEF NextEvents, Events, Reports, Counts, Absent
    <3>. QED  BY <2>2, <3>1, LogKept
  <2>. QED  BY <2>1, <2>2 DEF Next, Write, WriteRest, Start, Consume, Emit, Poll, Finish, Crash
<1>2. CASE Ledger' = Ledger
  BY <1>1, <1>2 DEF RowsMatchLog
<1>3. ASSUME obs.out # <<>>,
             results' = Append(results, [row |-> Head(obs.out), whole |-> TRUE])
      PROVE  RowsMatchLog'
  <2>. DEFINE row == Head(obs.out)
  <2>1. row \in Rows /\ 1 \in DOMAIN obs.out /\ row = obs.out[1]
    BY <1>3 DEF TypeOK, Observers
  <2>2. InLog(row)
    BY <2>1 DEF OutInLog
  <2>. HIDE DEF row
  <2>3. \A l \in DOMAIN Ledger' : Ledger'[l] = row \/ (l \in DOMAIN Ledger /\ Ledger'[l] = Ledger[l])
    BY <1>3, <2>1, LedgerGrows DEF row
  <2>. QED  BY <1>1, <2>2, <2>3 DEF RowsMatchLog
<1>. QED  BY <1>2, <1>3, StepLedger

-----------------------------------------------------------------------------
(***************************************************************************)
(* The theorems.                                                           *)
(***************************************************************************)

LEMMA InitIInv == ASSUME Init PROVE IInv
<1>1. TypeOK
  <2>1. Idle \in Observers /\ Idle.pos = 0 /\ Idle.limit = 0
    BY ObserverAssumption DEF Idle, Observers
  <2>2. <<>> \in Seq(Events) /\ <<>> \in Seq(Lines) /\ Len(<<>>) = 0
    OBVIOUS
  <2>3. 0 <= MaxEvents /\ 0 \in 0 .. MaxStarts
    BY ObserverAssumption
  <2>4. log = <<>> /\ torn = FALSE /\ results = <<>> /\ obs = Idle /\ starts = 0
    BY DEF Init
  <2>5. log \in Seq(Events) /\ Len(log) <= MaxEvents
    BY <2>2, <2>3, <2>4
  <2>6. results \in Seq(Lines)
    BY <2>2, <2>4
  <2>7. starts \in 0 .. MaxStarts /\ torn \in BOOLEAN
    BY <2>3, <2>4
  <2>8. obs \in Observers /\ obs.pos <= obs.limit
    BY <2>1, <2>4
  <2>. QED  BY <2>5, <2>6, <2>7, <2>8 DEF TypeOK
<1>2. LinesAreThere /\ CounterGrows
  BY DEF Init, Idle, LinesAreThere, CounterGrows, Readable
<1>3. TotalsBefore(1) = {} /\ ~GapBefore(1)
  <2>1. ReportsBefore(1) = {}
    BY DEF ReportsBefore
  <2>. QED  BY <2>1 DEF TotalsBefore, GapBefore
<1>4. BaselineInLog /\ CurrentInLog /\ OutInLog /\ KeysKnown
  BY <1>3 DEF Init, Idle, BaselineInLog, CurrentInLog, OutInLog, KeysKnown, Running
<1>5. RowsMatchLog
  BY DEF Init, RowsMatchLog, Ledger
<1>. QED  BY <1>1, <1>2, <1>4, <1>5 DEF IInv

LEMMA StepIInv == ASSUME IInv, [Next]_vars PROVE IInv'
<1>1. CASE Next
  BY <1>1, StepTyped, StepParser, StepKeys, StepRows DEF IInv
<1>2. CASE UNCHANGED vars
  <2>. USE <1>2 DEF vars
  <2>1. TypeOK' /\ LinesAreThere' /\ CounterGrows' /\ CurrentInLog'
    BY DEF IInv, TypeOK, LinesAreThere, Readable, CounterGrows, CurrentInLog
  <2>2. BaselineInLog' /\ OutInLog'
    BY SameLog DEF IInv, BaselineInLog, OutInLog
  <2>3. Ledger' = Ledger
    BY DEF Ledger
  <2>4. KeysKnown' /\ RowsMatchLog'
    BY <2>3, SameLog DEF IInv, KeysKnown, RowsMatchLog, Running, ResultKeys, Key
  <2>. QED  BY <2>1, <2>2, <2>4 DEF IInv
<1>. QED  BY <1>1, <1>2

LEMMA IInvHolds == Spec => []IInv
<1>1. Init => IInv
  BY InitIInv
<1>2. IInv /\ [Next]_vars => IInv'
  BY StepIInv
<1>. QED  BY <1>1, <1>2, PTL DEF Spec

\* The log, the results file and the observer have their types.
THEOREM ObserverTypeCorrect == Spec => []TypeOK
<1>1. IInv => TypeOK
  BY DEF IInv
<1>. QED  BY <1>1, IInvHolds, PTL

\* Whenever, and however often, the observer is started and killed: an interaction's
\* row in the results file is one of the log, at the cost the log's counters give
\* (RowsMatchLog; consume_line, _counter_delta).
THEOREM RowsMatchTheLog == Spec => []RowsMatchLog
<1>1. IInv => RowsMatchLog
  BY DEF IInv
<1>. QED  BY <1>1, IInvHolds, PTL

\* A step of the observer is a step of the ledger, or none.
LEMMA StepRefines ==
    ASSUME IInv, [Next]_vars
    PROVE  [LedgerSpec!Next]_Ledger
<1>1. CASE Ledger' = Ledger
  BY <1>1
<1>2. CASE UNCHANGED vars
  BY <1>2 DEF vars, Ledger
<1>3. ASSUME Running, obs.out # <<>>, Wanted(Head(obs.out)),
             results' = Append(results, [row |-> Head(obs.out), whole |-> TRUE])
      PROVE  LedgerSpec!Next
  <2>. DEFINE row == Head(obs.out)
              n == Len(results) + 1
  <2>1. row \in Rows
    BY <1>3 DEF IInv, TypeOK, Observers
  <2>2. /\ \A l \in DOMAIN Ledger : l < n
        /\ Ledger' = [l \in DOMAIN Ledger \cup {n} |-> IF l = n THEN row ELSE Ledger[l]]
    BY <1>3, <2>1, LedgerGrows DEF IInv
  <2>3. \A l \in DOMAIN Ledger : Key(Ledger[l]) # Key(row)
    BY <1>3 DEF Wanted, IInv, KeysKnown, ResultKeys
  <2>4. n \in DOMAIN Ledger'
    BY <2>2
  <2>. HIDE DEF row, n
  <2>5. \A l \in DOMAIN Ledger : ~LedgerSpec!SameKey(Ledger[l], row)
    BY <2>3 DEF Key, LedgerSpec!SameKey
  <2>6. LedgerSpec!Record(row)
    BY <2>2, <2>4, <2>5 DEF LedgerSpec!Record
  <2>. QED  BY <2>1, <2>6 DEF LedgerSpec!Next
<1>. QED  BY <1>1, <1>2, <1>3, StepLedger DEF IInv

\* The results file is a ledger: no interaction and no summary is written twice, and
\* what is written stays (KeepsLedger: _load_result_keys, _append_result).
THEOREM ResultsAreALedger == Spec => KeepsLedger
<1>1. Init => LedgerSpec!Init
  <2>1. Init => DOMAIN Ledger = {}
    BY DEF Init, Ledger
  <2>. QED  BY <2>1 DEF LedgerSpec!Init, Ledger
<1>2. IInv /\ [Next]_vars => [LedgerSpec!Next]_Ledger
  BY StepRefines
<1>. QED  BY <1>1, <1>2, IInvHolds, PTL DEF Spec, KeepsLedger, LedgerSpec!Spec

=============================================================================
