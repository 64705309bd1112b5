------------------------------ MODULE JobRoutes ------------------------------
(* The handlers of be/src/routes/jobs.routes.ts that write the Job table:   *)
(* POST / (create), POST /:id/stop and PATCH /:id/status (agent report).    *)
EXTENDS Tables

-----------------------------------------------------------------------------
(* POST /api/jobs                                                           *)

\* The machines the first query returns.  Capacity is left out: for any idle
\* machine some request has that machine as its best fit.
Eligible(u, minTrust) ==
    {m \in Machines : /\ machine[m].status = "idle"
                      /\ Owner[m] # u
                      /\ machine[m].trust >= minTrust}

\* findMany and the best-fit sort: the match is remembered, nothing reserves it.
CreateMatch(r, u) ==
    /\ \E minTrust \in MinTrusts : \E m \in Eligible(u, minTrust) :
          Starts(r, "create", [op |-> "create", user |-> u, machine |-> m])
    /\ UNCHANGED <<tables, sweep>>

\* prisma.job.create: job and approval rows; ids grow with createdAt.
CreateCommit(r) ==
    /\ req[r].op = "create"
    /\ \E j \in Jobs :
         /\ \A k \in Jobs : (job[k].status = "absent") <=> (k >= j)
         /\ job' = [job EXCEPT ![j] =
                      [status |-> "pending_approval", requester |-> req[r].user,
                       provider |-> Owner[req[r].machine], machine |-> req[r].machine,
                       decidedBy |-> None]]
         /\ approval' = [approval EXCEPT ![j] = "pending"]
    /\ Done(r)
    /\ UNCHANGED <<machine, session, mails, sweep>>

-----------------------------------------------------------------------------
(* POST /api/jobs/:id/stop                                                  *)

CanStopJob(u, j) ==
    \/ job[j].requester = u
    \/ job[j].provider = u
    \/ job[j].machine # None /\ Owner[job[j].machine] = u

StopTarget(u, j) == IF job[j].requester = u THEN "cancelled" ELSE "preempted"

StopCheck(r, u, j) ==
    /\ job[j].status # "absent"
    /\ CanStopJob(u, j)
    /\ CanStop(job[j].status)
    /\ Starts(r, "stop", [op |-> "stop", job |-> j, to |-> StopTarget(u, j)])
    /\ UNCHANGED <<tables, sweep>>

\* job.update by id alone: whatever the status has become meanwhile.
StopCommit(r) ==
    /\ req[r].op = "stop"
    /\ job' = [job EXCEPT ![req[r].job].status = req[r].to]
    /\ Done(r)
    /\ UNCHANGED <<approval, machine, session, mails, sweep>>

-----------------------------------------------------------------------------
(* PATCH /api/jobs/:id/status, after requireAgentAuth                       *)

\* Mistaken variant: the early returns for a repeated and for a late report are gone.
ReportAllowedAgain(m, j, to) ==
    /\ job[j].machine = m
    /\ CanTransition(job[j].status, to)

ReportAllowed(m, j, to) ==
    /\ job[j].machine = m
    /\ job[j].status # to
    /\ ~IsTerminal(job[j].status)
    /\ CanTransition(job[j].status, to)

\* job.findUnique and the guards; a report they refuse changes nothing.
ReportCheck(r, j, to) ==
    /\ req[r].op = "authed"
    /\ job[j].status # "absent"
    /\ ReportAllowed(req[r].machine, j, to)
    /\ Park(r, [op |-> "report", job |-> j, seen |-> job[j].status, to |-> to])
    /\ UNCHANGED <<tables, sweep>>

\* Mistaken variant: the row is updated by id, without the status seen.
ReportAppliesById(r) == TRUE

\* The compare-and-set: the row still has the status the guards saw.
ReportApplies(r) == job[req[r].job].status = req[r].seen

ReportCommit(r) ==
    /\ req[r].op = "report"
    /\ ReportApplies(r)
    /\ job' = [job EXCEPT ![req[r].job].status = req[r].to,
                          ![req[r].job].machine =
                               IF req[r].to = "queued" THEN None ELSE @]
    /\ Park(r, [op |-> "reread", job |-> req[r].job, to |-> req[r].to])
    /\ UNCHANGED <<approval, machine, session, mails, sweep>>

\* count === 0: 409, nothing written.
ReportMissed(r) ==
    /\ req[r].op = "report"
    /\ ~ReportApplies(r)
    /\ Done(r)
    /\ UNCHANGED <<tables, sweep>>

\* findUniqueOrThrow reads the row as it is now: a stop followed by an idle
\* heartbeat may have cleared its machine, and then nobody is credited.
ReportReread(r) ==
    /\ req[r].op = "reread"
    /\ LET j == req[r].job IN
         IF req[r].to \in {"completed", "failed"} /\ job[j].machine # None
         THEN Park(r, [op |-> "credit", job |-> j, machine |-> job[j].machine,
                       to |-> req[r].to])
         ELSE Done(r)
    /\ UNCHANGED <<tables, sweep>>

\* completed: the machine's trust is read now and written in the next step.
ReadTrust(r) ==
    /\ req[r].op = "credit"
    /\ req[r].to = "completed"
    /\ Park(r, [op |-> "bonus", job |-> req[r].job, machine |-> req[r].machine,
                trust |-> machine[req[r].machine].trust])
    /\ UNCHANGED <<tables, sweep>>

AddBonus(trust) == IF trust + 2 > 100 THEN 100 ELSE trust + 2

WriteBonus(r) ==
    /\ req[r].op = "bonus"
    /\ machine' = [machine EXCEPT ![req[r].machine].trust = AddBonus(req[r].trust),
                                  ![req[r].machine].completed = @ + 1]
    /\ Park(r, [op |-> "mail", job |-> req[r].job])
    /\ UNCHANGED <<job, approval, session, mails, sweep>>

\* failed: only the counter, in the database.
CountFailure(r) ==
    /\ req[r].op = "credit"
    /\ req[r].to = "failed"
    /\ machine' = [machine EXCEPT ![req[r].machine].failed = @ + 1]
    /\ Park(r, [op |-> "mail", job |-> req[r].job])
    /\ UNCHANGED <<job, approval, session, mails, sweep>>

EnqueueMail(r) ==
    /\ req[r].op = "mail"
    /\ mails' = [mails EXCEPT ![req[r].job] = @ + 1]
    /\ Done(r)
    /\ UNCHANGED <<job, approval, machine, session, sweep>>

JobRoutesNext(r) ==
    \/ \E u \in Users : CreateMatch(r, u)
    \/ CreateCommit(r)
    \/ \E u \in Users, j \in Jobs : StopCheck(r, u, j)
    \/ StopCommit(r)
    \/ \E j \in Jobs, to \in AgentReports : ReportCheck(r, j, to)
    \/ ReportCommit(r)
    \/ ReportMissed(r)
    \/ ReportReread(r)
    \/ ReadTrust(r)
    \/ WriteBonus(r)
    \/ CountFailure(r)
    \/ EnqueueMail(r)
=============================================================================
