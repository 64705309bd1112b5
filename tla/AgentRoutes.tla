---------------------------- MODULE AgentRoutes ----------------------------
(* The session check in front of every agent endpoint                       *)
(* (be/src/middleware/requireAgentAuth.ts) and the job poll                 *)
(* GET /api/agent/jobs/next (be/src/routes/agent.routes.ts).                *)
EXTENDS Tables

\* The session is looked up once; revoking it later does not stop the request.
Authenticate(r, s) ==
    /\ session[s].status = "active"
    /\ Starts(r, "agent", [op |-> "authed", session |-> s, machine |-> session[s].machine])
    /\ UNCHANGED <<tables, sweep>>

\* Mistaken variant: a job handed back to the queue is free for every machine.
ClaimableByAll(m) ==
    {j \in Jobs : /\ job[j].status \in {"approved", "queued"}
                  /\ job[j].machine \in {None, m}}

Claimable(m) ==
    {j \in Jobs : /\ job[j].status \in {"approved", "queued"}
                  /\ job[j].provider = Owner[m]
                  /\ job[j].machine \in {None, m}}

\* findFirst ... orderBy createdAt asc
ClaimFind(r) ==
    /\ req[r].op = "authed"
    /\ \E j \in Claimable(req[r].machine) :
         /\ \A k \in Claimable(req[r].machine) : j <= k
         /\ Park(r, [op |-> "claim", machine |-> req[r].machine, job |-> j])
    /\ UNCHANGED <<tables, sweep>>

\* Mistaken variant: the row found is updated by id.
ClaimAppliesById(r) == TRUE

\* updateMany with the whole condition again: of two pollers one wins.
ClaimApplies(r) == req[r].job \in Claimable(req[r].machine)

ClaimCommit(r) ==
    /\ req[r].op = "claim"
    /\ ClaimApplies(r)
    /\ job' = [job EXCEPT ![req[r].job].status = "assigned",
                          ![req[r].job].machine = req[r].machine]
    /\ Done(r)
    /\ UNCHANGED <<approval, machine, session, mails, sweep>>

ClaimMissed(r) ==
    /\ req[r].op = "claim"
    /\ ~ClaimApplies(r)
    /\ Done(r)
    /\ UNCHANGED <<tables, sweep>>

AgentRoutesNext(r) ==
    \/ \E s \in Sessions : Authenticate(r, s)
    \/ ClaimFind(r)
    \/ ClaimCommit(r)
    \/ ClaimMissed(r)
=============================================================================
