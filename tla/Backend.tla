------------------------------ MODULE Backend ------------------------------
(* The backend as a whole: the handlers and the sweeper over one database,  *)
(* the passing of time, and requests that break off half way.               *)
EXTENDS JobRoutes, ApprovalRoutes, AgentRoutes, MachineRoutes, Sweeper

-----------------------------------------------------------------------------
(* Time.  Only its two consequences are modelled, and only when there is a  *)
(* sweeper to see them.                                                     *)

\* Three minutes without a heartbeat.  A registration answers in less than that.
MachineFallsSilent(m) ==
    /\ Sweeps # {}
    /\ machine[m].status # "absent"
    /\ ~machine[m].silent
    /\ \A r \in Reqs : req[r] # [op |-> "register", machine |-> m]
    /\ machine' = [machine EXCEPT ![m].silent = TRUE]
    /\ UNCHANGED <<job, approval, session, mails, req, sweep>>

\* Ten minutes without a heartbeat on this session: its machine is silent too,
\* unless an agent with another session speaks for it.
SessionFallsSilent(s) ==
    /\ Sweeps # {}
    /\ session[s].status = "active"
    /\ ~session[s].silent
    /\ \/ machine[session[s].machine].silent
       \/ \E t \in Sessions \ {s} : session[t].machine = session[s].machine
    /\ session' = [session EXCEPT ![s].silent = TRUE]
    /\ UNCHANGED <<job, approval, machine, mails, req, sweep>>

-----------------------------------------------------------------------------
(* A request ends where it is parked: a database or queue error (the        *)
(* handler's catch answers 500), a guard that refuses after the session     *)
(* check (4xx, 204), a restart of the process.  What it committed stays.    *)

RequestEnds(r) ==
    /\ req[r] # Idle
    /\ Done(r)
    /\ UNCHANGED <<tables, sweep>>

SweepEnds(w) ==
    /\ sweep[w] # Idle
    /\ Stage(w, Idle)
    /\ UNCHANGED <<tables, req>>

-----------------------------------------------------------------------------

Next ==
    \/ \E r \in Reqs : \/ JobRoutesNext(r)
                       \/ ApprovalRoutesNext(r)
                       \/ AgentRoutesNext(r)
                       \/ MachineRoutesNext(r)
                       \/ RequestEnds(r)
    \/ \E w \in Sweeps : SweeperNext(w) \/ SweepEnds(w)
    \/ \E m \in Machines : MachineFallsSilent(m)
    \/ \E s \in Sessions : SessionFallsSilent(s)

Spec == Init /\ [][Next]_vars

\* Requests end, answered or not.  setInterval keeps starting sweeps, and the
\* database lets one or another take its next step often enough (strong: now and
\* then one may break off).  Nothing is assumed of users, agents or time.
RequestFairness == WF_vars(\E r \in Reqs : RequestEnds(r))
SweepFairness ==
    /\ SF_vars(\E w \in Sweeps : SweepStart(w))
    /\ SF_vars(\E w \in Sweeps : SweepMachine(w))
    /\ SF_vars(\E w \in Sweeps : SweepFindOrphans(w))
    /\ SF_vars(\E w \in Sweeps : SweepOrphans(w))
    /\ SF_vars(\E w \in Sweeps : SweepSessions(w))

FairSpec == Spec /\ RequestFairness /\ SweepFairness

-----------------------------------------------------------------------------
(* What holds however the requests overlap.                                 *)

\* Work is only ever done for a job that the owner of its machine approved, and
\* nobody provides for his own job (agent.routes.ts:10-13).
Consent ==
    \A j \in Jobs :
        /\ job[j].status \in {"approved", "queued", "completed", "failed"} \cup Active
              => job[j].decidedBy = job[j].provider
        /\ job[j].status # "absent" => job[j].provider \in Users \ {job[j].requester}

\* A job is on a machine of its provider or on none; while it is assigned or
\* running it is on one, although a defer and an idle heartbeat clear the column.
Placement ==
    \A j \in Jobs :
        /\ job[j].machine # None => Owner[job[j].machine] = job[j].provider
        /\ job[j].status \in Active => job[j].machine # None

\* The approval row and the job row never contradict each other: a job whose
\* approval row says rejected does not run, and an undecided one has not begun.
DecisionBinds ==
    \A j \in Jobs :
        /\ approval[j] = "absent" <=> job[j].status = "absent"
        /\ approval[j] = "pending"
              => job[j].status \in {"pending_approval", "preempted", "cancelled"}
        /\ approval[j] = "approved" => job[j].status # "pending_approval"
        /\ approval[j] = "rejected"
              => job[j].status \in {"rejected", "preempted", "cancelled"}

\* Only the four statuses that users' requests write by id can land on a status
\* they did not expect.  Agents, the poll and the sweeper move a job along the
\* table, from the status it has at that moment (jobs.routes.ts:581-582).
ByUser == {"approved", "rejected", "cancelled", "preempted"}
AgentMoves ==
    [][\A j \in Jobs :
         LET from == job[j].status
             to   == job'[j].status
         IN  \/ from = to
             \/ to \in ByUser
             \/ <<from, to>> \in {<<"absent", "pending_approval">>, <<"approved", "assigned">>}
             \/ ~IsTerminal(from) /\ CanTransition(from, to)]_vars

\* What a parked request may still assume of the rows it read: only what no other
\* request can change.  (With the three invariants above, this is inductive.)
Sound(x) ==
    /\ x.op = "create" => Owner[x.machine] # x.user
    /\ x.op \in {"approve", "reject"} => job[x.job].provider = x.user
    /\ x.op \in {"approve", "reject", "stop", "claim", "report"}
          => job[x.job].status # "absent"
    /\ x.op = "report" => /\ ~IsTerminal(x.seen)
                          /\ x.seen # x.to
                          /\ CanTransition(x.seen, x.to)
RequestsSound == \A r \in Reqs : Sound(req[r])

Safe == Consent /\ Placement /\ DecisionBinds /\ RequestsSound

-----------------------------------------------------------------------------
(* What holds only as long as users' requests do not overlap others.        *)

\* However often the end of a job is reported (jobs.routes.ts:561-565) and whoever fails
\* it, one machine counts it at most, and under the end it has: the counters of all
\* machines can be charged to jobs that ended so, each charged to one machine.
Ended == {j \in Jobs : job[j].status \in {"completed", "failed"}}

ChargedTo(charge, m, end) == {j \in Jobs : charge[j] = m /\ job[j].status = end}
CountedOnce ==
    \E charge \in [Jobs -> Machines \cup {None}] : \A m \in Machines :
        /\ machine[m].completed = Cardinality(ChargedTo(charge, m, "completed"))
        /\ machine[m].failed    = Cardinality(ChargedTo(charge, m, "failed"))

\* The requester gets one mail about a job at most, and none about a job without a result.
MailedOnce == \A j \in Jobs : mails[j] <= (IF j \in Ended THEN 1 ELSE 0)

\* A result stays what the agent or the sweeper made it (jobs.routes.ts:570).
ResultFinal ==
    [][\A j \in Ended : job'[j].status = job[j].status]_vars

\* The machine of a stopped job is cleared only by a heartbeat whose answer
\* tells the agent to stop (machines.routes.ts:215-216).
StoppedAgentTold ==
    [][\A j \in Jobs :
         job[j].machine # None /\ job'[j].machine = None /\ job[j].status \in Terminal
         => \E r \in Reqs : /\ req[r].op = "heartbeat"
                            /\ req'[r] = Idle
                            /\ req[r].machine = job[j].machine
                            /\ req[r].reclaim]_vars

\* Trust is earned two points at a time, and falls only when a job is lost, by 15
\* points or to the floor.
TrustSteps ==
    [][\A m \in Machines :
         /\ machine'[m].trust <= machine[m].trust + 2
         /\ machine'[m].trust < machine[m].trust
              => /\ machine'[m].trust = Penalise(machine[m].trust)
                 /\ \E j \in ActiveOn(m) : job'[j].status = "failed"]_vars

\* Each job implements JobLifecycle.
Phase(s) == CASE s = "pending_approval"       -> "waiting"
              [] s \in {"approved", "queued"} -> "ready"
              [] s = "assigned"               -> "held"
              [] s = "running"                -> "started"
              [] OTHER                        -> s

Life(j) == INSTANCE JobLifecycle WITH
    phase    <- Phase(job[j].status),
    provider <- job[j].provider,
    decision <- IF approval[j] \in {"approved", "rejected"} THEN approval[j] ELSE "none",
    holder   <- IF job[j].status \in Active THEN job[j].machine ELSE None,
    mailed   <- mails[j]

Lifecycle == /\ \A j \in Jobs : Life(j)!Init
             /\ [][\A j \in Jobs : [Life(j)!Next]_(Life(j)!lifeVars)]_vars

-----------------------------------------------------------------------------
(* Liveness.                                                                *)

\* A job does not stay assigned to, or running on, a machine that stays silent:
\* the sweeper takes the machine offline and fails the job, also when the job
\* reached the machine after the sweep had looked (sweeper.ts:121-172).
SilentJobsFail ==
    \A j \in Jobs, m \in Machines :
        (j \in ActiveOn(m) /\ machine[m].silent)
            ~> (j \notin ActiveOn(m) \/ ~machine[m].silent)
=============================================================================
