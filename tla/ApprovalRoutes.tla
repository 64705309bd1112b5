--------------------------- MODULE ApprovalRoutes ---------------------------
(* be/src/routes/approvals.routes.ts: the provider decides on a job.  Both  *)
(* handlers read the approval with its job, check, and then write both rows *)
(* by id in one transaction.                                                *)
EXTENDS Tables

\* Mistaken variant, for the mutation runs: whose machine it is does not matter.
MayDecideAnyone(u, j) == approval[j] = "pending"

MayDecide(u, j) == approval[j] = "pending" /\ job[j].provider = u

ApproveCheck(r, u, j) ==
    /\ MayDecide(u, j)
    /\ job[j].status = "pending_approval"
    /\ Starts(r, "approve", [op |-> "approve", job |-> j, user |-> u])
    /\ UNCHANGED <<tables, sweep>>

\* A preempted job may still be rejected: stop and reclaim leave its approval pending.
RejectCheck(r, u, j) ==
    /\ MayDecide(u, j)
    /\ job[j].status \in {"pending_approval", "preempted"}
    /\ Starts(r, "reject", [op |-> "reject", job |-> j, user |-> u])
    /\ UNCHANGED <<tables, sweep>>

Decide(r, decision) ==
    /\ approval' = [approval EXCEPT ![req[r].job] = decision]
    /\ job' = [job EXCEPT ![req[r].job].status = decision,
                          ![req[r].job].decidedBy = req[r].user]
    /\ Done(r)
    /\ UNCHANGED <<machine, session, mails, sweep>>

ApproveCommit(r) == req[r].op = "approve" /\ Decide(r, "approved")

RejectCommit(r) == req[r].op = "reject" /\ Decide(r, "rejected")

ApprovalRoutesNext(r) ==
    \/ \E u \in Users, j \in Jobs : ApproveCheck(r, u, j) \/ RejectCheck(r, u, j)
    \/ ApproveCommit(r)
    \/ RejectCommit(r)
=============================================================================
