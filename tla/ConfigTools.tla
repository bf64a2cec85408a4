----------------------------- MODULE ConfigTools -----------------------------
(***************************************************************************)
(* The tools of tools/config.py that read lists (apim_list_* and           *)
(* apim_get_api) or one resource (apim_get_api, apim_get_policy), and      *)
(* those of tools/discovery.py that read services (apim_get_service,       *)
(* apim_list_services), over ArmClient's get, get_text and list_all; their *)
(* envelope and its truncation (common/formatting.py); and the wrapper     *)
(* that audits them (server.py).  A client pages through a list by         *)
(* next_offset, in calls that share nothing but what ARM holds; that may   *)
(* change under them.                                                      *)
(*                                                                         *)
(* Sizes are in units: an item weighs Weight, the rest of an envelope      *)
(* Base, and what truncation adds to it Hint.                              *)
(*                                                                         *)
(* A definition whose comment starts with "Fault" is a plausible bug; it   *)
(* is in no specification, and shows that a property can be violated.      *)
(***************************************************************************)
EXTENDS Integers, Sequences, FiniteSets

CONSTANTS
    Items,       \* what a collection may hold, in ARM's order
    Matching,    \* the items that pass the call's filters
    Weight,      \* the size of each item
    Base,        \* the size of an envelope without its items
    Hint,        \* the size of `truncated` and `hint`
    MaxBytes,    \* max_response_bytes
    PageSize,    \* the items ARM puts on a page
    MaxPages,    \* max_pages of list_all
    MaxInline,   \* _MAX_INLINE_OPERATIONS
    NServices,   \* the number of services in APIM_SERVICES
    Limits,      \* the limits a client gives: the tools do not check them
    Offsets,     \* the offsets a client starts from, not checked either
    MaxChanges,  \* bound on the changes of the collection
    None         \* no next_offset

ASSUME ConfigToolsAssumption ==
    /\ Items \subseteq Int /\ IsFiniteSet(Items) /\ Matching \subseteq Items
    /\ Weight \in [Items -> Nat]
    /\ {Base, Hint, MaxBytes, MaxChanges} \subseteq Nat
    /\ {PageSize, MaxPages, MaxInline, NServices} \subseteq Nat \ {0}
    /\ Limits \subseteq Int /\ Offsets \subseteq Int
    /\ None \notin Int

VARIABLES
    held,      \* the collection in APIM
    changes,
    call,      \* the call in progress
    walk,      \* what the client pages through
    answer,    \* the answer to the latest call
    event      \* the audit event of the latest call

vars == <<held, changes, call, walk, answer, event>>

Tools   == {"list", "operations", "api", "policy", "service", "services"}
Idle    == [pc |-> "idle", tool |-> "list", page |-> 0, read |-> <<>>, torn |-> FALSE]
Nothing == [kind |-> "none", shown |-> <<>>, next |-> None, truncated |-> FALSE]
NoWalk  == [open |-> FALSE, limit |-> 0, start |-> 0, offset |-> 0, got |-> <<>>,
            intact |-> TRUE]
Unaudited == [outcome |-> "none", truncated |-> FALSE]

Calls == [pc : {"idle", "getting", "listing"}, tool : Tools,
          page : Nat, read : Seq(Items), torn : BOOLEAN]
Walks == [open : BOOLEAN, limit : Int, start : Int, offset : Int,
          got : Seq(Matching), intact : BOOLEAN]
Answers == [kind : {"none", "ok", "error"}, shown : Seq(Items),
            next : Int \cup {None}, truncated : BOOLEAN]

TypeOK ==
    /\ held \subseteq Items
    /\ changes \in 0 .. MaxChanges
    /\ call \in Calls
    /\ call.page < IF call.tool = "services" THEN NServices ELSE MaxPages
    /\ walk \in Walks
    /\ answer \in Answers
    /\ event \in [outcome : {"none", "ok", "error"}, truncated : BOOLEAN]

(***************************************************************************)
(* Sequences.                                                              *)
(***************************************************************************)

\* The n-th member of a set of numbers.
Nth(S, n) == CHOOSE i \in S : Cardinality({j \in S : j < i}) = n - 1

\* The collection as ARM lists it.
Listing == [n \in 1 .. Cardinality(held) |-> Nth(held, n)]

\* s[from:to] of Python: a negative index counts from the end, and none is out of range.
Slice(s, from, to) ==
    LET At(n) == IF n < 0 THEN IF Len(s) + n < 0 THEN 0 ELSE Len(s) + n
                 ELSE IF n > Len(s) THEN Len(s) ELSE n
    IN  SubSeq(s, At(from) + 1, At(to))

\* The sum of the weights, as a number of units: unit u of the n-th item.
Size(s) == Cardinality(UNION {{n} \X (1 .. Weight[s[n]]) : n \in DOMAIN s})

(***************************************************************************)
(* common/formatting.py                                                    *)
(***************************************************************************)

\* Fault: there is more even when the page ends with the list.
EnvelopeInclusive(page, total, offset) ==
    [kind |-> "ok", shown |-> page, truncated |-> FALSE,
     next |-> IF offset + Len(page) <= total THEN offset + Len(page) ELSE None]

\* build_list_envelope
Envelope(page, total, offset) ==
    [kind |-> "ok", shown |-> page, truncated |-> FALSE,
     next |-> IF offset + Len(page) < total THEN offset + Len(page) ELSE None]

\* Fault: one item more goes than must.
TruncatedByOneMore(page, total, offset) ==
    IF Base + Size(page) <= MaxBytes THEN Envelope(page, total, offset)
    ELSE LET fitting == {n \in 0 .. Len(page) - 1 :
                            Base + Hint + Size(SubSeq(page, 1, n + 1)) <= MaxBytes}
             kept == CHOOSE n \in fitting \cup {0} : \A m \in fitting : m <= n
         IN  [Envelope(SubSeq(page, 1, kept), total, offset) EXCEPT !.truncated = TRUE]

\* Fault: what goes is the first item, not the last.
TruncatedFromTheFront(page, total, offset) ==
    IF Base + Size(page) <= MaxBytes THEN Envelope(page, total, offset)
    ELSE LET fitting == {n \in 0 .. Len(page) :
                            Base + Hint + Size(SubSeq(page, n + 1, Len(page))) <= MaxBytes}
             dropped == CHOOSE n \in fitting \cup {Len(page)} : \A m \in fitting : n <= m
         IN  [Envelope(SubSeq(page, dropped + 1, Len(page)), total, offset)
                EXCEPT !.truncated = TRUE]

\* apply_truncation: items go from the end until the rest fits, be it none.
Truncated(page, total, offset) ==
    IF Base + Size(page) <= MaxBytes THEN Envelope(page, total, offset)
    ELSE LET fitting == {n \in 0 .. Len(page) :
                            Base + Hint + Size(SubSeq(page, 1, n)) <= MaxBytes}
             kept == CHOOSE n \in fitting \cup {0} : \A m \in fitting : m <= n
         IN  [Envelope(SubSeq(page, 1, kept), total, offset) EXCEPT !.truncated = TRUE]

(***************************************************************************)
(* The tools, once ARM's list is complete.                                 *)
(***************************************************************************)

\* The items that pass the filters, in their order.
Selected(read) ==
    LET at == {n \in DOMAIN read : read[n] \in Matching}
    IN  [n \in 1 .. Cardinality(at) |-> read[Nth(at, n)]]

\* _paginate
Paginated(items, limit, offset) ==
    Truncated(Slice(items, offset, offset + limit), Len(items), offset)

\* apim_get_api's operations
Inlined(read) ==
    [Nothing EXCEPT !.kind = "ok", !.shown = Slice(read, 0, MaxInline),
                    !.truncated = Len(read) > MaxInline]

Init ==
    /\ held \in SUBSET Items
    /\ changes = 0
    /\ call = Idle
    /\ walk = NoWalk
    /\ answer = Nothing
    /\ event = Unaudited

(***************************************************************************)
(* The environment: APIM, and a client that pages.                         *)
(***************************************************************************)

\* Someone adds an item or removes one, which a list being read or paged may miss.
Change(i) ==
    /\ changes < MaxChanges
    /\ changes' = changes + 1
    /\ held' = IF i \in held THEN held \ {i} ELSE held \cup {i}
    /\ call' = [call EXCEPT !.torn = @ \/ (call.pc = "listing" /\ call.page > 0)]
    /\ walk' = [walk EXCEPT !.intact = (walk = NoWalk)]
    /\ UNCHANGED <<answer, event>>

\* The client begins to page; an offset below 0 counts from the end.
Open(limit, offset) ==
    /\ call.pc = "idle" /\ ~walk.open
    /\ walk' = [open |-> TRUE, limit |-> limit, start |-> offset, offset |-> offset,
                got |-> <<>>, intact |-> TRUE]
    /\ UNCHANGED <<held, changes, call, answer, event>>

GiveUp ==
    /\ call.pc = "idle" /\ walk.open
    /\ walk' = NoWalk
    /\ UNCHANGED <<held, changes, call, answer, event>>

(***************************************************************************)
(* A call until its first await.                                           *)
(***************************************************************************)
Begun(tool, pc) ==
    /\ call.pc = "idle"
    /\ call' = [Idle EXCEPT !.pc = pc, !.tool = tool]
    /\ answer' = Nothing
    /\ event' = Unaudited

\* A list tool is called for the page where the last one that was answered ended.
AskList ==
    /\ walk.open
    /\ Begun("list", "listing")
    /\ UNCHANGED <<held, changes, walk>>

\* apim_get_api, with its operations or without, apim_get_policy, and the tools that
\* read services.
AskOne(tool) ==
    /\ ~walk.open
    /\ Begun(tool, "getting")
    /\ UNCHANGED <<held, changes, walk>>

(***************************************************************************)
(* audited_tool: how a call ends.  Every answer leaves an audit event.     *)
(***************************************************************************)
Answered(a) ==
    /\ call' = Idle
    /\ answer' = a
    /\ event' = [outcome |-> a.kind, truncated |-> a.truncated]

Failed == Answered([Nothing EXCEPT !.kind = "error"])

\* The service's alias or an argument is not valid: no await.
Refuse ==
    /\ call.pc = "idle" /\ ~walk.open
    /\ Failed
    /\ UNCHANGED <<held, changes, walk>>

\* Fault: an exception leaves the wrapper before the audit.
UpstreamRaisesUnaudited ==
    /\ call.pc # "idle"
    /\ call' = Idle
    /\ answer' = [Nothing EXCEPT !.kind = "error"]
    /\ event' = Unaudited
    /\ UNCHANGED <<held, changes, walk>>

\* A page that is not JSON, or no token: an exception, which becomes a result.
UpstreamRaises ==
    /\ call.pc # "idle"
    /\ Failed
    /\ UNCHANGED <<held, changes, walk>>

\* The client goes away: CancelledError is no Exception, and nothing is audited.
Cancel ==
    /\ call.pc # "idle"
    /\ call' = Idle
    /\ UNCHANGED <<held, changes, walk, answer, event>>

(***************************************************************************)
(* ArmClient.get, get_text: an answer, or an error of the taxonomy.        *)
(***************************************************************************)
GetFails ==
    /\ call.pc = "getting"
    /\ Failed
    /\ UNCHANGED <<held, changes, walk>>

GotTheOne ==
    /\ call.pc = "getting"
    /\ Answered([Nothing EXCEPT !.kind = "ok"])
    /\ UNCHANGED <<held, changes, walk>>

\* apim_get_policy, apim_get_service
GotOne == call.tool \in {"policy", "service"} /\ GotTheOne

\* apim_get_api: what remains are its operations, if they are wanted.
GotApi ==
    \/ call.tool = "api" /\ GotTheOne
    \/ /\ call.pc = "getting" /\ call.tool = "operations"
       /\ call' = [call EXCEPT !.pc = "listing"]
       /\ UNCHANGED <<held, changes, walk, answer, event>>

\* apim_list_services reads one service after the other; none may fail.
GotService ==
    /\ call.tool = "services"
    /\ IF call.page + 1 = NServices THEN GotTheOne
       ELSE /\ call.pc = "getting"
            /\ call' = [call EXCEPT !.page = @ + 1]
            /\ UNCHANGED <<held, changes, walk, answer, event>>

(***************************************************************************)
(* ArmClient.list_all: one action per answer to the request for a page.    *)
(***************************************************************************)

\* The page, and whether it comes with a nextLink.
Page     == Slice(Listing, call.page * PageSize, (call.page + 1) * PageSize)
NextLink == (call.page + 1) * PageSize < Len(Listing)

\* The call ends with what was read; the client takes what the tool makes of it.
Finished(read) ==
    IF call.tool = "operations" THEN Answered(Inlined(read)) /\ UNCHANGED walk
    ELSE \E items \in {Selected(read)} :
            LET a == Paginated(items, walk.limit, walk.offset)
            IN  /\ Answered(a)
                /\ walk' = [walk EXCEPT !.open = (a.next # None),
                                        !.offset = IF a.next = None THEN @ ELSE a.next,
                                        !.got = @ \o a.shown]

\* Fault: the cap is forgotten.
PageReadUncapped ==
    /\ call.pc = "listing"
    /\ IF NextLink
         THEN /\ call' = [call EXCEPT !.page = @ + 1, !.read = @ \o Page]
              /\ UNCHANGED <<walk, answer, event>>
         ELSE Finished(call.read \o Page)
    /\ UNCHANGED <<held, changes>>

\* The last page is read, or the cap is reached: the tools look at no `truncated` of
\* an ArmListResult, so that both are alike to them.
PageRead ==
    /\ call.pc = "listing"
    /\ IF NextLink /\ call.page + 1 < MaxPages
         THEN /\ call' = [call EXCEPT !.page = @ + 1, !.read = @ \o Page]
              /\ UNCHANGED <<walk, answer, event>>
         ELSE Finished(call.read \o Page)
    /\ UNCHANGED <<held, changes>>

\* Fault: the items read before the error are answered.
PageFailsWithItems ==
    /\ call.pc = "listing"
    /\ Finished(call.read)
    /\ UNCHANGED <<held, changes>>

\* A ToolError: list_all hands over the items read so far, the tools drop them.
PageFails ==
    /\ call.pc = "listing"
    /\ Failed
    /\ UNCHANGED <<held, changes, walk>>

Arm ==
    \/ GetFails \/ GotOne \/ GotApi \/ GotService
    \/ PageRead \/ PageFails
    \/ UpstreamRaises

Next ==
    \/ \E i \in Items : Change(i)
    \/ \E limit \in Limits, offset \in Offsets : Open(limit, offset)
    \/ GiveUp
    \/ AskList
    \/ \E tool \in Tools \ {"list"} : AskOne(tool)
    \/ Refuse
    \/ Arm
    \/ Cancel

Spec == Init /\ [][Next]_vars

\* The client goes on asking; ARM, asked for a page again and again, gives it one day.
Fairness ==
    /\ WF_vars(AskList)
    /\ \A p \in 0 .. MaxPages - 1 : SF_vars(PageRead /\ call.page = p)

FairSpec == Spec /\ Fairness

-----------------------------------------------------------------------------
(***************************************************************************)
(* Properties.                                                             *)
(***************************************************************************)

\* What list_all can see of the collection, and what of that a list tool selects.
Visible == Slice(Listing, 0, MaxPages * PageSize)

FitsAlone(i) == Base + Hint + Weight[i] <= MaxBytes
ListEnds == call.pc = "listing" /\ call'.pc = "idle" /\ answer'.kind = "ok"

\* A client that pages from 0 with a sensible limit has, after every answer, got each
\* item before its offset once and in order, and at the end all that list_all sees:
\* through truncated pages, errors, cancellations and retries (_paginate,
\* build_list_envelope and apply_truncation agree on next_offset), if nobody changed
\* the collection.
WalkLosesNothing ==
    (walk.intact /\ walk.start = 0 /\ walk.limit > 0) =>
        walk.got = IF walk.open THEN SubSeq(Selected(Visible), 1, walk.offset)
                   ELSE Selected(Visible)

StallExplained ==
    (ListEnds /\ ~call.torn /\ answer'.next # None /\ answer'.next <= walk.offset) =>
        \/ walk.limit <= 0 \/ walk.offset < 0
        \/ ~FitsAlone(Selected(Visible)[walk.offset + 1])

\* An answer that leaves a client where it was does so because the limit or the offset
\* makes no sense, or because the next item is too large for any answer: truncation
\* alone never stops a walk (apply_truncation).
StallsExplained == [][StallExplained]_vars

OmissionAnnounced ==
    (ListEnds /\ ~call.torn /\ walk.offset >= 0 /\ Cardinality(held) <= MaxPages * PageSize) =>
        LET all == IF call.tool = "list" THEN Selected(Listing) ELSE Listing
            upto == (IF call.tool = "list" THEN walk.offset ELSE 0) + Len(answer'.shown)
            told == answer'.next # None \/ answer'.truncated
        IN  /\ upto < Len(all) => told
            /\ told => (upto < Len(all) \/ Base > MaxBytes)

\* An answer tells, by next_offset or `truncated`, whether it leaves out items that the
\* call asked for: no page that fails, and no cut, is passed off as the end of the list.
\* The exceptions are a collection beyond the cap of list_all, whose flag nobody reads,
\* and a limit on bytes that not even an envelope without items meets: that one is
\* truncated though nothing is missing.
OmissionsAnnounced == [][OmissionAnnounced]_vars

\* The audit event of a call says what its client was told, whether the tool answered,
\* gave up or raised; there is none for a call that was cancelled (audited_tool).
AuditTellsOutcome ==
    event = [outcome |-> answer.kind, truncated |-> answer.truncated]

\* A walk with a sensible limit over items that fit comes to its end, in spite of
\* failing pages, cancelled calls and a collection that changes (next_offset grows).
WalkEnds ==
    (walk.open /\ walk.start = 0 /\ walk.limit > 0)
        ~> (~walk.open \/ \E i \in held : ~FitsAlone(i))
=============================================================================
