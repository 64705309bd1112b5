----------------------------- MODULE JobStatus -----------------------------
(* The status of a job and the moves the backend allows between statuses    *)
(* (be/src/lib/jobStatus.ts).  Pure operators; the state machines use them. *)

\* The members of the JobStatus enum.  "draft" is in the enum and in the
\* transition table, but no handler ever writes it.
Status == {"draft", "pending_approval", "approved", "queued", "assigned",
           "running", "completed", "failed", "preempted", "cancelled", "rejected"}

Terminal == {"completed", "failed", "preempted", "cancelled", "rejected"}

\* Rows an agent may be executing: ACTIVE_JOB_STATUSES of the sweeper.
Active == {"assigned", "running"}

\* Statuses POST /machines/:id/reclaim preempts.
Reclaimable == {"pending_approval", "approved", "queued"} \cup Active

IsTerminal(s) == s \in Terminal

\* The table `transitions`.
Transitions ==
    { <<"draft", "pending_approval">>,
      <<"pending_approval", "approved">>, <<"pending_approval", "rejected">>,
      <<"approved", "queued">>,
      <<"queued", "assigned">>,
      <<"assigned", "running">>, <<"assigned", "failed">>, <<"assigned", "queued">>,
      <<"running", "completed">>, <<"running", "failed">>,
      <<"running", "preempted">>, <<"running", "cancelled">> }

CanTransition(from, to) ==
    \/ from = to
    \/ to \in {"cancelled", "preempted"} /\ ~IsTerminal(from)
    \/ to \notin {"cancelled", "preempted"} /\ <<from, to>> \in Transitions

\* Mistaken variant, for the mutation runs: only results count as terminal.
CanStopUnlessResult(s) == s \notin {"completed", "failed"}

CanStop(s) == ~IsTerminal(s)

\* The statuses computeshare_agent/agent.py reports: running, queued (defer),
\* completed, failed and preempted.  The endpoint takes every status from its caller
\* and leaves it to canTransition; no agent sends another.
AgentReports == {"running", "queued", "completed", "failed", "preempted"}
=============================================================================
