-------------------------------- MODULE Logs --------------------------------
(* The log from the container to the reader: LogStreamer, and the job page  *)
(* (fe/app/jobs/[id]/page.tsx) that shows the rows, fetching them page by   *)
(* page from GET /api/jobs/:id/logs whenever the socket announces a line.   *)
EXTENDS LogStreamer

CONSTANT PageLimit  \* rows of one answer, at most (500, though the page asks for 5000)

ASSUME PageAssumption == PageLimit \in Nat \ {0}

VARIABLES
    announced,  \* a "log" event is on its way to the page
    shown,      \* sequences of the rows in `logs`
    next,       \* nextSequenceRef
    fetches,    \* requests under way; isFetchingLogs: there is one
    pending     \* pendingLogsFetchType

page == <<announced, shown, next, fetches, pending>>
vars == <<written, ended, read, reading, buffer, stop, post, late, stored,
          announced, shown, next, fetches, pending>>

Request(from)  == [from |-> from, rows |-> {}, answered |-> FALSE]
Kinds          == {"none", "incremental", "full"}

-----------------------------------------------------------------------------

\* emitLog for every row; a page whose socket is not (or not yet, or not any
\* more) in the room of the job misses it.
Announce == announced' \in IF Len(stored') > Len(stored) THEN {announced, TRUE} ELSE {announced}

\* Mistaken variant: a fetch does not wait for the one under way.
NoneUnderWay == FALSE

UnderWay == fetches # {}

\* fetchLogs: `after` is 0 for a full one.
Fetch(kind, after) ==
    IF UnderWay
    THEN /\ pending' = IF "full" \in {kind, pending} THEN "full" ELSE "incremental"
         /\ UNCHANGED fetches
    ELSE /\ fetches' = fetches \cup {Request(after)}
         /\ UNCHANGED pending

HandleLog ==
    /\ announced
    /\ announced' = FALSE
    /\ Fetch("incremental", next)
    /\ UNCHANGED <<streamVars, shown, next>>

\* The Refresh_Stream button.
Refresh ==
    /\ Cardinality(fetches) < 2
    /\ Fetch("full", 0)
    /\ UNCHANGED <<streamVars, announced, shown, next>>

\* GET /api/jobs/:id/logs: the rows after `from`, at most PageLimit.
FetchServed ==
    /\ \E f \in fetches :
         /\ ~f.answered
         /\ fetches' = (fetches \ {f}) \cup
              {[from |-> f.from, answered |-> TRUE,
                rows |-> (f.from + 1)..Min2(f.from + PageLimit, Len(stored))]}
    /\ UNCHANGED <<streamVars, announced, shown, next, pending>>

\* The finally block: what was asked for meanwhile is fetched now.
Continue(f, nextNow) ==
    /\ pending' = "none"
    /\ fetches' = (fetches \ {f}) \cup
         CASE pending = "none"        -> {}
           [] pending = "full"        -> {Request(0)}
           [] pending = "incremental" -> {Request(nextNow)}

FetchApplied ==
    /\ \E f \in fetches :
         /\ f.answered
         /\ shown' = IF f.from = 0 THEN f.rows ELSE shown \cup f.rows
         /\ next' = f.from + Cardinality(f.rows)
         /\ Continue(f, next')
    /\ UNCHANGED <<streamVars, announced>>

FetchFails ==
    /\ \E f \in fetches : Continue(f, next)
    /\ UNCHANGED <<streamVars, announced, shown, next>>

-----------------------------------------------------------------------------

\* The effect that runs when the page is opened has already asked for the log.
Init ==
    /\ StreamInit
    /\ announced = FALSE
    /\ shown = {} /\ next = 0 /\ fetches = {Request(0)} /\ pending = "none"

StreamStep == StreamNext /\ Announce /\ UNCHANGED <<shown, next, fetches, pending>>
PageNext   == HandleLog \/ Refresh \/ FetchServed \/ FetchApplied \/ FetchFails

Next == StreamStep \/ PageNext

Spec == Init /\ [][Next]_vars

\* A flush is answered or times out, and both loops of the streamer go on.
\* Nothing is assumed of the container, of late requests or of the page.
FairSpec == /\ Spec
            /\ WF_vars(StopNext /\ StreamStep)
            /\ WF_vars(FlushNext /\ StreamStep)
            /\ WF_vars(Network /\ StreamStep)

-----------------------------------------------------------------------------

TypeOK ==
    /\ StreamTypeOK
    /\ announced \in BOOLEAN
    /\ shown \subseteq Nat /\ next \in Nat
    /\ \A f \in fetches : /\ f.from \in Nat
                          /\ f.rows \subseteq Nat
                          /\ f.answered \in BOOLEAN
    /\ pending \in Kinds

\* The page shows the table from the beginning without a hole, however full and
\* incremental fetches meet, are answered late, or fail.
ShownGapless == shown = 1..next /\ next <= Len(stored)
=============================================================================
