------------------------------ MODULE JobPage ------------------------------
(* The job page and its socket: which job the page is at, the rooms its     *)
(* connection is in, the announcements that reach it, and the answers that  *)
(* fill its status and artifact panels.  (The log panel is in Logs.)        *)
EXTENDS Naturals, Sequences

CONSTANTS
    Jobs,        \* jobs with a page of their own
    MaxChanges,  \* how often a row changes, at most
    MaxEvents,   \* changes, visits, broken connections and stops, at most
    None

ASSUME JobPageAssumption ==
    /\ None \notin Jobs
    /\ {MaxChanges, MaxEvents} \subseteq Nat

VARIABLES
    version,    \* of each job: the status row and its artifacts, by their age
    jobId,      \* the job of the address
    shown,      \* job and artifacts: what each panel shows
    loading,    \* the page shows nothing but a spinner
    error,      \* the last thing the page shows if it is set
    stopping,   \* the job whose stop is under way, from any page
    calls,      \* how many requests of each kind are under way
    link,       \* the connection: up, broken, known to the client to be down and tried
                \* again, or given up
    listening,  \* the socket effect is in force
    out,        \* join-job and leave-job on their way, or held back while it is down
    joining,    \* how many join-job of each job the server is looking up
    rooms,      \* rooms the connection is in
    news,       \* job-update announcements on their way to the page
    refused,    \* jobs whose last join-job failed (history)
    heard,      \* the newest version announced to this visit (history)
    seen,       \* the newest version this visit was answered with (history)
    failed,     \* panels of this visit with a request that failed (history)
    changes, events  \* counted for the bounds

panels == <<shown, loading, error>>
socket == <<link, listening, out, joining, rooms, refused>>
counts == <<changes, events>>
past   == <<heard, seen, failed>>
vars   == <<version, jobId, shown, loading, error, stopping, calls, link, listening, out,
            joining, rooms, news, refused, heard, seen, failed, changes, events>>

Panels  == {"job", "artifacts"}
Nothing == [job |-> None, version |-> 0]

\* Requests: not served yet while their version is 0.
Calls == [panel: Panels, job: Jobs, version: 0..(MaxChanges + 1)]

Call(p, j) == [panel |-> p, job |-> j, version |-> 0]

Event == events < MaxEvents /\ events' = events + 1

\* Requests for panels ps of job j go out.
Ask(ps, j) == calls' = [c \in Calls |->
                          IF c \in {Call(p, j) : p \in ps} THEN calls[c] + 1 ELSE calls[c]]

-----------------------------------------------------------------------------
(* The page.                                                                *)

\* Mistaken variant, for the mutation runs: the panels are emptied without their types.
CleanSlateNull == shown' = None /\ loading' = TRUE /\ error' = FALSE

\* The effect that runs when the address changes.
CleanSlate == shown' = [p \in Panels |-> Nothing] /\ loading' = TRUE /\ error' = FALSE

Sends(messages) ==
    out' = CASE link = "up"     -> out \o messages
             [] link = "broken" -> out
             [] link \in {"down", "over"} -> out \o messages

Leave(j) == [op |-> "leave", job |-> j]
Join(j)  == [op |-> "join", job |-> j]

\* What the effects of a new page fetch.
Opened == Panels

Visit(j) ==
    /\ j # jobId /\ Event
    /\ jobId' = j
    /\ CleanSlate
    /\ Ask(Opened, j)
    /\ IF listening THEN Sends(<<Leave(jobId), Join(j)>>) ELSE UNCHANGED out
    /\ heard' = [p \in Panels |-> 0] /\ seen' = [p \in Panels |-> 0] /\ failed' = {}
    /\ UNCHANGED <<version, stopping, link, listening, joining, rooms, refused, news,
                   changes>>

\* Mistaken variant: a panel that is being fetched is not fetched again.
ToFetchIdle(kind) ==
    {p \in {"job"} \cup (IF kind = "artifacts" THEN {"artifacts"} ELSE {}) :
        \A c \in Calls : c.panel = p => calls[c] = 0}

\* handleJobUpdate.
ToFetch(kind) == {"job"} \cup (IF kind = "artifacts" THEN {"artifacts"} ELSE {})

Larger(a, b) == IF a > b THEN a ELSE b

NewsArrives(n) ==
    /\ n \in news
    /\ news' = news \ {n}
    /\ IF listening /\ n.job = jobId
       THEN /\ Ask(ToFetch(n.panel), jobId)
            /\ heard' = [heard EXCEPT ![n.panel] = Larger(@, n.version)]
       ELSE UNCHANGED <<calls, heard>>
    /\ UNCHANGED <<version, jobId, panels, stopping, socket, seen, failed, counts>>

\* Mistaken variant: every answer is taken.
MineAlways(j) == TRUE

\* jobId === currentJobIdRef.current
Mine(j) == j = jobId

\* fetchApi returns or throws.
Ends(c) == calls[c] > 0 /\ calls' = [calls EXCEPT ![c] = @ - 1]

\* fetchJob and fetchArtifacts, when their answer is there.
Applied(c) ==
    /\ c.version > 0 /\ Ends(c)
    /\ IF Mine(c.job)
       THEN /\ shown' = [shown EXCEPT ![c.panel] = [job |-> c.job, version |-> c.version]]
            /\ seen' = [seen EXCEPT ![c.panel] = Larger(@, c.version)]
            /\ loading' = (loading /\ c.panel # "job")
       ELSE UNCHANGED <<shown, seen, loading>>
    /\ UNCHANGED <<version, jobId, error, stopping, socket, news, heard, failed, counts>>

\* A request that is refused or breaks.  Nothing clears `error` but the next visit.
Fails(c) ==
    /\ Ends(c)
    /\ IF Mine(c.job)
       THEN /\ failed' = failed \cup {c.panel}
            /\ error' = (error \/ c.panel = "job")
            /\ loading' = (loading /\ c.panel # "job")
       ELSE UNCHANGED <<failed, error, loading>>
    /\ UNCHANGED <<version, jobId, shown, stopping, socket, news, heard, seen, counts>>

\* What is rendered: the job, neither the spinner nor an error instead of it, with a
\* button that is disabled while a stop is under way, on every page.  (Jobs known to have
\* ended have no button; offering it always only allows more.)
StopOffered == ~loading /\ ~error /\ shown["job"] # Nothing /\ stopping = None

\* handleStop.
StopPressed ==
    /\ StopOffered
    /\ Event
    /\ stopping' = jobId
    /\ UNCHANGED <<version, jobId, panels, calls, socket, news, past, changes>>

\* The stop was answered: the job of the page where it was pressed is fetched, or the
\* stop was refused.  (The button waits for that fetch too; enabling it earlier only
\* allows more.)
StopAnswered ==
    /\ stopping # None
    /\ stopping' = None
    /\ Ask({"job"}, stopping) \/ UNCHANGED calls
    /\ UNCHANGED <<version, jobId, panels, socket, news, past, counts>>

-----------------------------------------------------------------------------
(* The backend: rows, rooms, and the GET handlers.                          *)

\* A status, or the list of artifacts, changes and is announced to the room.
Change(j, p) ==
    /\ changes < MaxChanges /\ Event
    /\ changes' = changes + 1
    /\ version' = [version EXCEPT ![j][p] = @ + 1]
    /\ news' = IF link = "up" /\ j \in rooms
               THEN news \cup {[job |-> j, panel |-> p, version |-> version[j][p] + 1]}
               ELSE news
    /\ UNCHANGED <<jobId, panels, stopping, calls, socket, past>>

AnsweredWith(c, v) ==
    /\ calls[c] > 0 /\ c.version = 0
    /\ calls' = [calls EXCEPT ![c] = @ - 1, ![[c EXCEPT !.version = v]] = @ + 1]
    /\ UNCHANGED <<version, jobId, panels, stopping, socket, news, past, counts>>

\* GET /:id and GET /:id/artifacts, of a viewer; a refusal is in Fails.
JobServed(c)       == c.panel = "job" /\ AnsweredWith(c, version[c.job]["job"])
ArtifactsServed(c) == c.panel = "artifacts" /\ AnsweredWith(c, version[c.job]["artifacts"])

Served(c) == JobServed(c) \/ ArtifactsServed(c)

\* leave-job is done at once; join-job looks the job up first.
SocketTakes ==
    /\ link = "up" /\ out # <<>>
    /\ out' = Tail(out)
    /\ LET m == Head(out) IN
       IF m.op = "leave"
       THEN rooms' = rooms \ {m.job} /\ UNCHANGED joining
       ELSE joining' = [joining EXCEPT ![m.job] = @ + 1] /\ UNCHANGED rooms
    /\ UNCHANGED <<version, jobId, panels, stopping, calls, link, listening, news, refused,
                   past, counts>>

JoinEnds(j) ==
    /\ joining[j] > 0
    /\ joining' = [joining EXCEPT ![j] = @ - 1]
    /\ \/ rooms' = rooms \cup {j} /\ refused' = refused \ {j}
       \/ refused' = refused \cup {j} /\ UNCHANGED rooms
    /\ UNCHANGED <<version, jobId, panels, stopping, calls, link, listening, out, news,
                   past, counts>>

-----------------------------------------------------------------------------
(* The connection.                                                          *)

\* What was on its way is lost, and so are the rooms of the old connection.
Drop ==
    /\ link = "up" /\ Event
    /\ link' = "broken"
    /\ out' = <<>> /\ rooms' = {} /\ joining' = [j \in Jobs |-> 0] /\ news' = {}
    /\ UNCHANGED <<version, jobId, panels, stopping, calls, listening, refused, past,
                   changes>>

\* Mistaken variant: the effect does not depend on isConnected.
UndoNever == UNCHANGED <<listening, out>>

\* The effect is undone; what it sends is held back by the client.
Undo == /\ listening' = FALSE
        /\ out' = IF listening THEN <<Leave(jobId)>> ELSE <<>>

\* `disconnect`.
Disconnected ==
    /\ link = "broken"
    /\ link' = "down"
    /\ Undo
    /\ UNCHANGED <<version, jobId, panels, stopping, calls, joining, rooms, news, refused,
                   past, counts>>

\* An attempt to connect ends for good.
AttemptEnds(state) ==
    /\ link = "down"
    /\ link' = state
    /\ UNCHANGED <<version, jobId, panels, stopping, calls, listening, out, joining, rooms,
                   news, refused, past, counts>>

\* `connect`.
Connected == AttemptEnds("up")

\* The handshake finds no session: the client does not try again after a refusal.
HandshakeRefused == AttemptEnds("over")

\* The last of reconnectionAttempts failed.
AttemptsSpent == AttemptEnds("over")

\* The socket effect, once the client is connected.
Subscribe ==
    /\ link \in {"up", "broken"} /\ ~listening
    /\ listening' = TRUE
    /\ Sends(<<Join(jobId)>>)
    /\ UNCHANGED <<version, jobId, panels, stopping, calls, link, joining, rooms, news,
                   refused, past, counts>>

-----------------------------------------------------------------------------

Init ==
    /\ version = [j \in Jobs |-> [p \in Panels |-> 1]]
    /\ jobId \in Jobs
    /\ shown = [p \in Panels |-> Nothing] /\ loading = TRUE /\ error = FALSE
    /\ stopping = None
    /\ calls = [c \in Calls |-> IF c \in {Call(p, jobId) : p \in Panels} THEN 1 ELSE 0]
    /\ link = "down" /\ listening = FALSE /\ out = <<>>
    /\ joining = [j \in Jobs |-> 0] /\ rooms = {} /\ refused = {}
    /\ news = {}
    /\ heard = [p \in Panels |-> 0] /\ seen = [p \in Panels |-> 0] /\ failed = {}
    /\ changes = 0 /\ events = 0

Answer(c) == Served(c) \/ Applied(c) \/ Fails(c)

Next ==
    \/ \E j \in Jobs : Visit(j) \/ JoinEnds(j) \/ (\E p \in Panels : Change(j, p))
    \/ \E n \in news : NewsArrives(n)
    \/ \E c \in Calls : Answer(c)
    \/ StopPressed \/ StopAnswered
    \/ Connected \/ HandshakeRefused \/ AttemptsSpent
    \/ SocketTakes \/ Drop \/ Disconnected \/ Subscribe

Spec == Init /\ [][Next]_vars

-----------------------------------------------------------------------------

TypeOK ==
    /\ version \in [Jobs -> [Panels -> 1..(MaxChanges + 1)]]
    /\ jobId \in Jobs /\ stopping \in Jobs \cup {None}
    /\ shown \in [Panels -> [job: Jobs \cup {None}, version: Nat]]
    /\ loading \in BOOLEAN /\ error \in BOOLEAN /\ listening \in BOOLEAN
    /\ calls \in [Calls -> Nat]
    /\ link \in {"up", "broken", "down", "over"}
    /\ out \in Seq([op: {"join", "leave"}, job: Jobs])
    /\ joining \in [Jobs -> Nat]
    /\ rooms \subseteq Jobs /\ refused \subseteq Jobs /\ failed \subseteq Panels
    /\ news \subseteq [job: Jobs, panel: Panels, version: Nat]
    /\ heard \in [Panels -> Nat] /\ seen \in [Panels -> Nat]
    /\ changes \in 0..MaxChanges /\ events \in 0..MaxEvents

\* The panels show the job of the address, whatever answers come late from pages
\* left before (page.tsx:105, 182).  Behind its spinner the page waits for a request
\* for its job, whose end takes the spinner away; without it, it shows the job or an
\* error, never a job that is "not found".
OwnPage ==
    /\ \A p \in Panels : shown[p].job \in {jobId, None}
    /\ loading => \E c \in Calls : c.panel = "job" /\ c.job = jobId /\ calls[c] > 0
    /\ ~loading => shown["job"] # Nothing \/ error

\* Nothing of the socket's messages is left to be done.
Settled == link = "up" /\ listening /\ out = <<>> /\ \A j \in Jobs : joining[j] = 0

\* A page whose socket has settled is in the room of its job, after any order of
\* visits, late joins and reconnections, unless the join was refused.
Listening == Settled /\ jobId \notin refused => jobId \in rooms

\* What was announced to the page has been fetched once nothing is under way, and no
\* request failed.  (What it shows may be older: answers can overtake each other.)
AnnouncedFetched ==
    (\A c \in Calls : calls[c] = 0) =>
        \A p \in Panels \ failed : heard[p] <= seen[p]
=============================================================================
