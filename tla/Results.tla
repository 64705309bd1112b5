------------------------------- MODULE Results -------------------------------
(* The results of a job that ran to its end: the agent uploads the files    *)
(* of outputs/ one by one (artifact_uploader.py), the artifact endpoints    *)
(* (be/src/routes/jobs.routes.ts) sign and register them, the report of     *)
(* `completed` puts a mail into the queue (be/src/queues), and the worker   *)
(* sends it with a link to every artifact of the job.  The mail of a report *)
(* of `failed` is left out: the agent sends that instead of uploading.  So  *)
(* is the hour after which a link expires.                                  *)
EXTENDS Naturals, Sequences, FiniteSets

CONSTANTS
    Files,        \* the files of outputs/ that are not ignored
    MaxAttempts,  \* `attempts` of the queue (5)
    MaxStalled    \* times the queue hands out an entry whose worker died (1)

ASSUME ResultsAssumption == MaxAttempts \in Nat \ {0} /\ MaxStalled \in Nat

VARIABLES
    job,      \* the row's status, and whether the endpoints let this agent's calls about the job in:
              \* its machineId names the machine, and the session is not revoked
    stop,     \* a stop has passed its checks and not yet written
    agent,    \* upload_all: the file in hand, its step, and the two lists it returns
    late,     \* calls whose caller has timed out and that are still on their way
    objects,  \* files that are in the bucket under the key that was signed for them
    rows,     \* files with an Artifact row
    listed,   \* files in the artifact panel of the requester's page
    opened,   \* files whose download link the page was given
    handler,  \* the report's handler is between its updateMany and emailQueue.add
    queue,    \* the entry of this job
    mails     \* what the requester has received

vars == <<job, stop, agent, late, objects, rows, listed, opened, handler, queue, mails>>
back == <<job, stop, handler>>
page == <<listed, opened>>
mail == <<queue, mails>>

Statuses == {"running", "completed", "cancelled", "preempted", "failed"}
Steps    == {"presign", "put", "register"}
Call(step, f) == [step |-> step, file |-> f]
Report        == [step |-> "report"]
Calls         == [step : {"put", "register"}, file : Files] \cup {Report}

Agent == [pc : {"next", "gone"} \cup Steps, reported : BOOLEAN, file : SUBSET Files,
          todo : SUBSET Files, uploaded : SUBSET Files, failed : SUBSET Files]
Mail  == [status : Statuses, files : SUBSET Files]
Entry == [state : {"none", "waiting", "active", "read", "done", "dead"},
          attempts : 0..MaxAttempts, stalled : 0..(MaxStalled + 1),
          status : Statuses, files : SUBSET Files]

TypeOK ==
    /\ job \in [status : Statuses, ours : BOOLEAN]
    /\ stop \in BOOLEAN /\ handler \in BOOLEAN
    /\ agent \in Agent
    /\ agent.pc \in Steps <=> agent.file # {}
    /\ agent.todo \cup agent.file \cup agent.uploaded \cup agent.failed = Files
    /\ late \subseteq Calls
    /\ {rows, objects, listed, opened} \subseteq SUBSET Files
    /\ queue \in Entry
    /\ mails \in Seq(Mail)

Init ==
    /\ job = [status |-> "running", ours |-> TRUE]
    /\ stop = FALSE
    /\ agent = [pc |-> "next", todo |-> Files, file |-> {}, uploaded |-> {}, failed |-> {},
              reported |-> FALSE]
    /\ late = {} /\ objects = {} /\ rows = {}
    /\ listed = {} /\ opened = {}
    /\ handler = FALSE
    /\ queue = [state |-> "none", attempts |-> 0, stalled |-> 0, status |-> "running", files |-> {}]
    /\ mails = <<>>

-----------------------------------------------------------------------------
(* upload_all (artifact_uploader.py)                                        *)

NextStep == [s \in {"presign", "put"} |-> IF s = "presign" THEN "put" ELSE "register"]

\* A file is one of those left; one that is too large is not sent.
TakeFile ==
    /\ agent.pc = "next"
    /\ \E f \in agent.todo :
          \/ agent' = [agent EXCEPT !.todo = @ \ {f}, !.file = {f}, !.pc = "presign"]
          \/ agent' = [agent EXCEPT !.todo = @ \ {f}, !.failed = @ \cup {f}]
    /\ UNCHANGED <<back, late, objects, rows, mail, page>>

\* What a call does where it arrives: the bucket keeps the object; the
\* endpoint adds a row if it lets the caller in.
Serve(c) ==
    /\ c.step \in {"presign", "register"} => job.ours
    /\ objects' = IF c.step = "put" THEN objects \cup {c.file} ELSE objects
    /\ rows' = IF c.step = "register" THEN rows \cup {c.file} ELSE rows

\* Mistaken variant: the file is not put on the list of failed ones.
GiveUpSilently == [agent EXCEPT !.pc = "next", !.file = {}]

GiveUp == [agent EXCEPT !.pc = "next", !.file = {}, !.failed = @ \cup agent.file]

Advance ==
    IF agent.pc = "register"
    THEN [agent EXCEPT !.pc = "next", !.file = {}, !.uploaded = @ \cup agent.file]
    ELSE [agent EXCEPT !.pc = NextStep[agent.pc]]

CallSucceeds ==
    /\ agent.pc \in Steps
    /\ \E f \in agent.file : Serve(Call(agent.pc, f))
    /\ agent' = Advance
    /\ UNCHANGED <<back, late, mail, page>>

\* Mistaken variant: the answer of the PUT is not looked at.
RefusedUnlessPut == IF agent.pc = "put" THEN Advance ELSE GiveUp

\* raise_for_status: the call was refused or did not arrive.
Refused == GiveUp

CallFails ==
    /\ agent.pc \in Steps
    /\ agent' = Refused
    /\ UNCHANGED <<back, late, objects, rows, mail, page>>

\* timeout=10, 30, 10: the file is given up, its call may yet arrive.
CallTimesOut ==
    /\ agent.pc \in Steps
    /\ agent' = GiveUp
    /\ late' = IF agent.pc = "presign" THEN late ELSE late \cup {Call(agent.pc, f) : f \in agent.file}
    /\ UNCHANGED <<back, objects, rows, mail, page>>

LateServed ==
    /\ \E c \in late \ {Report} : Serve(c) /\ late' = late \ {c}
    /\ UNCHANGED <<back, agent, mail, page>>

\* Mistaken variant: `completed` is reported between two files.
BetweenFiles == agent.pc = "next"

Uploaded == agent.pc = "next" /\ agent.todo = {}

\* report_status sends once; the answer makes no difference to the agent.
SendReport ==
    /\ Uploaded /\ ~agent.reported
    /\ agent' = [agent EXCEPT !.reported = TRUE]
    /\ late' = late \cup {Report}
    /\ UNCHANGED <<back, objects, rows, mail, page>>

\* The agent is killed, by its own heartbeat or otherwise.
AgentGone ==
    /\ agent.pc # "gone" /\ ~agent.reported
    /\ agent' = [agent EXCEPT !.pc = "gone", !.failed = @ \cup agent.todo \cup agent.file,
                              !.todo = {}, !.file = {}]
    /\ UNCHANGED <<back, late, objects, rows, mail, page>>

-----------------------------------------------------------------------------
(* The backend's part: stop, release, report                                *)

StopCheck ==
    /\ job.status = "running" /\ ~stop
    /\ stop' = TRUE
    /\ UNCHANGED <<job, agent, late, objects, rows, handler, mail, page>>

StopCommit ==
    /\ stop
    /\ stop' = FALSE
    /\ \E s \in {"cancelled", "preempted"} : job' = [job EXCEPT !.status = s]
    /\ UNCHANGED <<agent, late, objects, rows, handler, mail, page>>

\* A reclaim, the last report of an agent that was killed, or the sweeper.
EndedElsewhere ==
    /\ job.status = "running"
    /\ job' \in {[job EXCEPT !.status = "preempted"], [status |-> "failed", ours |-> FALSE]}
    /\ UNCHANGED <<stop, agent, late, objects, rows, handler, mail, page>>

\* An idle heartbeat of this machine: its agent has left the job.
Release ==
    /\ agent.reported \/ agent.pc = "gone"
    /\ job.status \in {"cancelled", "preempted"} /\ job.ours
    /\ job' = [job EXCEPT !.ours = FALSE]
    /\ UNCHANGED <<stop, agent, late, objects, rows, handler, mail, page>>

ReportCommit ==
    /\ Report \in late
    /\ late' = late \ {Report}
    /\ IF job.ours /\ job.status = "running"
       THEN job' = [job EXCEPT !.status = "completed"] /\ handler' = TRUE
       ELSE UNCHANGED <<job, handler>>
    /\ UNCHANGED <<stop, agent, objects, rows, mail, page>>

Lost ==
    /\ \E c \in late : late' = late \ {c}
    /\ UNCHANGED <<back, agent, objects, rows, mail, page>>

\* emailQueue.add, whose error is caught; the process may die before it.
Enqueue ==
    /\ handler
    /\ handler' = FALSE
    /\ queue' \in {[queue EXCEPT !.state = "waiting"], queue}
    /\ UNCHANGED <<job, stop, agent, late, objects, rows, mails, page>>

-----------------------------------------------------------------------------
(* The queue and its worker (email.queue.ts, email.worker.ts, email.ts)     *)

Working == queue.state \in {"active", "read"}

\* The worker's first query: the row, whose status heads the mail.
WorkerReadsJob ==
    /\ queue.state = "waiting"
    /\ queue' = [queue EXCEPT !.state = "active", !.status = job.status]
    /\ UNCHANGED <<back, agent, late, objects, rows, mails, page>>

\* generateGetUrl, for the key in each row.
Linked == rows

\* Promise.all of the queries, then a link for each artifact.
WorkerReadsArtifacts ==
    /\ queue.state = "active"
    /\ queue' = [queue EXCEPT !.state = "read", !.files = Linked]
    /\ UNCHANGED <<back, agent, late, objects, rows, mails, page>>

\* Mistaken variant: failed attempts are not counted.
RetriesAlways == [queue EXCEPT !.state = "waiting"]

\* attempts: 5, removeOnFail: false.
Retried ==
    [queue EXCEPT !.state = IF queue.attempts + 1 < MaxAttempts THEN "waiting" ELSE "dead",
                  !.attempts = @ + 1]

Sent(accepted) ==
    mails' = IF accepted THEN Append(mails, [status |-> queue.status, files |-> queue.files]) ELSE mails

\* Mistaken variant: the `error` that Resend returns is not thrown.
AfterUnchecked(answered, accepted) == IF answered THEN [queue EXCEPT !.state = "done"] ELSE Retried

\* What becomes of the entry when Resend has accepted the mail and said so,
\* or has not: sendJobResultEmail throws and the queue retries.
AfterSend(answered, accepted) ==
    IF answered /\ accepted THEN [queue EXCEPT !.state = "done"] ELSE Retried

Send ==
    /\ queue.state = "read"
    /\ \E answered, accepted \in BOOLEAN : Sent(accepted) /\ queue' = AfterSend(answered, accepted)
    /\ UNCHANGED <<back, agent, late, objects, rows, page>>

\* A query of the worker fails.
WorkerFails ==
    /\ Working
    /\ queue' = Retried
    /\ UNCHANGED <<back, agent, late, objects, rows, mails, page>>

\* The worker's process dies, with the mail perhaps already out: the queue finds the entry stalled.
WorkerDies ==
    /\ Working
    /\ \E accepted \in {FALSE, queue.state = "read"} : Sent(accepted)
    /\ queue' = [queue EXCEPT !.state = IF queue.stalled < MaxStalled THEN "waiting" ELSE "dead",
                              !.stalled = @ + 1]
    /\ UNCHANGED <<back, agent, late, objects, rows, page>>

-----------------------------------------------------------------------------
(* The artifact panel of the job page and its downloads                     *)

\* fetchArtifacts.  (Which answers the panel takes is in JobPage.)
ListArtifacts ==
    /\ listed' = rows
    /\ UNCHANGED <<back, agent, late, objects, rows, opened, mail>>

\* downloadArtifact: the button of an artifact in the panel.
Pressed(f) == f \in listed

\* GET /:id/artifacts/:artifactId/download, and the link is opened.
Download ==
    /\ \E f \in rows : Pressed(f) /\ opened' = opened \cup {f}
    /\ UNCHANGED <<back, agent, late, objects, rows, listed, mail>>

-----------------------------------------------------------------------------

Upload == TakeFile \/ CallSucceeds \/ CallFails \/ CallTimesOut \/ SendReport \/ AgentGone
Network == LateServed \/ Lost
Server  == StopCheck \/ StopCommit \/ EndedElsewhere \/ Release \/ ReportCommit \/ Enqueue
Worker == WorkerReadsJob \/ WorkerReadsArtifacts \/ Send \/ WorkerFails \/ WorkerDies

Reader == ListArtifacts \/ Download

Next == Upload \/ Network \/ Server \/ Worker \/ Reader

Spec == Init /\ [][Next]_vars

\* The worker runs, and runs again after a crash; nothing is assumed of anyone else.
FairSpec == Spec /\ WF_vars(Worker)

-----------------------------------------------------------------------------
(* Properties                                                               *)

\* What the agent counts as uploaded is registered, and what is registered
\* can be downloaded: no artifact that the page lists is unknown to the
\* download endpoint, and no link of the page or of a mail leads nowhere,
\* whatever fails, times out or arrives late.
LinksLead ==
    /\ agent.uploaded \subseteq rows /\ listed \subseteq rows
    /\ rows \subseteq objects /\ opened \subseteq objects
    /\ \A i \in DOMAIN mails : mails[i].files \subseteq objects

\* A mail about the job lists every file that the agent has counted as
\* uploaded, although the worker reads the rows long after the report, and
\* never calls the job running.
MailComplete ==
    \A i \in DOMAIN mails : /\ agent.uploaded \subseteq mails[i].files
                            /\ mails[i].status # "running"

\* Retries and stalled workers may repeat the mail, but only so often.
CopiesBounded == Len(mails) <= MaxAttempts + MaxStalled

\* An entry that has come into the queue is mailed, or kept as failed after
\* its attempts: it is never dropped without either.
MailGoesOut == (queue.state = "waiting") ~> (mails # <<>> \/ queue.state = "dead")
=============================================================================
