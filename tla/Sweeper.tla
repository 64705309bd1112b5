------------------------------ MODULE Sweeper ------------------------------
(* be/src/lib/sweeper.ts: the periodic sweep.  setInterval does not wait    *)
(* for the sweep before, so several may be in flight (Sweeps).  A sweep     *)
(* reads the silent machines with their trust and active jobs, runs one     *)
(* transaction per machine, then reads and fails the orphaned jobs, then    *)
(* expires stale sessions.                                                  *)
EXTENDS Tables

ActiveOn(m) == {j \in Jobs : job[j].machine = m /\ job[j].status \in Active}

Stage(w, state) == sweep' = [sweep EXCEPT ![w] = state]

SweepStart(w) ==
    /\ sweep[w] = Idle
    /\ MayStart("sweep")
    /\ Stage(w, [op |-> "dead",
                 dead |-> {[machine |-> m, trust |-> machine[m].trust, jobs |-> ActiveOn(m)] :
                             m \in {n \in Machines : /\ machine[n].status \notin {"absent", "offline"}
                                                     /\ machine[n].silent}}])
    /\ UNCHANGED <<tables, req>>

\* Mistaken variant: the jobs of the snapshot are failed as they were read.
AsRead(js) == js

\* The jobs of the snapshot that are still active: the ones this transaction fails.
StillActive(js) == {j \in js : job[j].status \in Active}

FailJobs(js) ==
    job' = [j \in Jobs |-> IF j \in js THEN [job[j] EXCEPT !.status = "failed"] ELSE job[j]]

\* Mistaken variant: no floor.
PenaliseNoFloor(trust) == trust - 15

Penalise(trust) == IF trust < 15 THEN 0 ELSE trust - 15

\* Mistaken variant: silence is punished even when no job was lost.
TakeOfflineAlways(row, d, lost) ==
    [row EXCEPT !.status = "offline", !.trust = Penalise(d.trust), !.failed = @ + lost]

\* updateMany ... status not offline: the penalty is computed from the trust
\* the sweep read, not from the row.
TakeOffline(row, d, lost) ==
    [row EXCEPT !.status = "offline",
                !.trust  = IF lost > 0 THEN Penalise(d.trust) ELSE @,
                !.failed = @ + lost]

SweepMachine(w) ==
  /\ sweep[w].op = "dead"
  /\ \E d \in sweep[w].dead :
    /\ FailJobs(StillActive(d.jobs))
    /\ IF machine[d.machine].status # "offline"
       THEN /\ machine' = [machine EXCEPT ![d.machine] =
                             TakeOffline(@, d, Cardinality(StillActive(d.jobs)))]
            /\ session' = [s \in Sessions |->
                             IF session[s].machine = d.machine /\ session[s].status = "active"
                             THEN [session[s] EXCEPT !.status = "revoked"] ELSE session[s]]
       ELSE UNCHANGED <<machine, session>>
    /\ Stage(w, [op |-> "dead", dead |-> sweep[w].dead \ {d}])
    /\ UNCHANGED <<approval, mails, req>>

\* Mistaken variant: only jobs that have started are looked for.
OrphansStarted ==
    {o \in Orphan : /\ job[o.job].machine = o.machine
                    /\ job[o.job].status = "running"
                    /\ machine[o.machine].status = "offline"}

Orphans ==
    {o \in Orphan : /\ o.job \in ActiveOn(o.machine)
                    /\ machine[o.machine].status = "offline"}

SweepFindOrphans(w) ==
    /\ sweep[w].op = "dead"
    /\ sweep[w].dead = {}
    /\ Stage(w, [op |-> "orphans", orphans |-> Orphans])
    /\ UNCHANGED <<tables, req>>

\* One transaction over the list; each machine counts the jobs it loses.
SweepOrphans(w) ==
    /\ sweep[w].op = "orphans"
    /\ LET lost == {o \in sweep[w].orphans : job[o.job].status \in Active} IN
         /\ FailJobs({o.job : o \in lost})
         /\ machine' = [m \in Machines |->
                          [machine[m] EXCEPT !.failed =
                             @ + Cardinality({j \in Jobs : [job |-> j, machine |-> m] \in lost})]]
    /\ Stage(w, [op |-> "expire"])
    /\ UNCHANGED <<approval, session, mails, req>>

SweepSessions(w) ==
    /\ sweep[w].op = "expire"
    /\ session' = [s \in Sessions |->
                     IF session[s].status = "active" /\ session[s].silent
                     THEN [session[s] EXCEPT !.status = "revoked"] ELSE session[s]]
    /\ Stage(w, Idle)
    /\ UNCHANGED <<job, approval, machine, mails, req>>

SweeperNext(w) ==
    \/ SweepStart(w)
    \/ SweepMachine(w)
    \/ SweepFindOrphans(w)
    \/ SweepOrphans(w)
    \/ SweepSessions(w)
=============================================================================
