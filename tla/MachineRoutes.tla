--------------------------- MODULE MachineRoutes ---------------------------
(* be/src/routes/machines.routes.ts: registration of an agent, its          *)
(* heartbeat, and the owner's reclaim.                                      *)
EXTENDS Tables

-----------------------------------------------------------------------------
(* POST /api/machines/register                                              *)

\* The row found by owner and hardware id is reset, or a row is created.  An
\* agent that sends no hardware id (agent.py) gets any row of its owner.
\* Enough sessions must be left to be issued (bound).
RegisterMachine(r, m) ==
    /\ \E s \in Sessions : session[s].status = "absent"
    /\ machine' = [machine EXCEPT ![m].status = "idle", ![m].silent = FALSE]
    /\ Starts(r, "agent", [op |-> "register", machine |-> m])
    /\ UNCHANGED <<job, approval, session, mails, sweep>>

\* agentSession.create: the sessions the machine already had stay active.
IssueSession(r) ==
    /\ req[r].op = "register"
    /\ \E s \in Sessions :
         /\ session[s].status = "absent"
         /\ session' = [session EXCEPT ![s] = [status |-> "active", silent |-> FALSE,
                                               machine |-> req[r].machine]]
    /\ Done(r)
    /\ UNCHANGED <<job, approval, machine, mails, sweep>>

-----------------------------------------------------------------------------
(* POST /api/machines/:id/heartbeat, after requireAgentAuth                 *)

StoppedOn(m) == {j \in Jobs : job[j].machine = m /\ job[j].status \in {"preempted", "cancelled"}}

\* Mistaken variant: a job the requester cancelled is forgotten.
TellsToStopPreempted(m) == \E j \in StoppedOn(m) : job[j].status = "preempted"

TellsToStop(m) == StoppedOn(m) # {}

\* The flag the response will carry is computed before the transaction.
HeartbeatRead(r, reported) ==
    /\ req[r].op = "authed"
    /\ Park(r, [op |-> "heartbeat", session |-> req[r].session, machine |-> req[r].machine,
                status |-> reported, reclaim |-> TellsToStop(req[r].machine)])
    /\ UNCHANGED <<tables, sweep>>

\* An idle agent is taken to have let go of the stopped jobs of its machine.
Released(r) == IF req[r].status = "idle" THEN StoppedOn(req[r].machine) ELSE {}

HeartbeatCommit(r) ==
    /\ req[r].op = "heartbeat"
    /\ session' = [session EXCEPT ![req[r].session].silent = FALSE]
    /\ machine' = [machine EXCEPT ![req[r].machine].silent = FALSE,
                                  ![req[r].machine].status = req[r].status]
    /\ job' = [j \in Jobs |-> IF j \in Released(r) THEN [job[j] EXCEPT !.machine = None]
                                                   ELSE job[j]]
    /\ Done(r)
    /\ UNCHANGED <<approval, mails, sweep>>

-----------------------------------------------------------------------------
(* POST /api/machines/:id/reclaim.  The list read before the transaction    *)
(* feeds only events and the response; updateMany looks at the rows again.  *)

Reclaim(r, m) ==
    /\ machine[m].status # "absent"
    /\ Starts(r, "reclaim", Idle)
    /\ job' = [j \in Jobs |->
                 IF job[j].machine = m /\ job[j].status \in Reclaimable
                 THEN [job[j] EXCEPT !.status = "preempted"] ELSE job[j]]
    /\ UNCHANGED <<approval, machine, session, mails, sweep>>

MachineRoutesNext(r) ==
    \/ \E m \in Machines : RegisterMachine(r, m)
    \/ IssueSession(r)
    \/ \E reported \in {"idle", "running"} : HeartbeatRead(r, reported)
    \/ HeartbeatCommit(r)
    \/ \E m \in Machines : Reclaim(r, m)
=============================================================================
