------------------------------- MODULE Tables -------------------------------
(* The rows of the backend's database that its handlers share, and the      *)
(* requests in flight.  Every `await` of a handler ends one atomic step: a  *)
(* request that has read what it needs and not written yet is parked in a   *)
(* slot of `req` with what it remembers.  Only a `$transaction` and a       *)
(* single Prisma call are atomic.                                           *)
EXTENDS Integers, FiniteSets, JobStatus

CONSTANTS
    Users,      \* requesters and machine owners
    Machines,   \* machine rows that can exist
    Owner,      \* Machine.ownerId
    Jobs,       \* job ids, numbered in the order of createdAt
    Sessions,   \* agent sessions that can be issued (bounds registrations)
    Reqs,       \* requests in flight at the same time, at most
    Sweeps,     \* sweeps in flight at the same time, at most
    StartTrust, \* trust scores of the machines that were registered earlier
    MinTrusts,  \* trust floors a new job may ask for
    Overlap,    \* which requests may overlap, see MayStart
    InFlight,   \* requests and sweeps in flight at the same time, at most
    None        \* SQL NULL

ASSUME OwnerAssumption == Owner \in [Machines -> Users]
ASSUME NoneAssumption  == None \notin Users \cup Machines \cup Jobs
ASSUME JobsAssumption  == Jobs \subseteq Nat /\ IsFiniteSet(Jobs)
ASSUME TrustAssumption == StartTrust \subseteq 0..100
ASSUME InFlightAssumption == InFlight \in Nat \ {0}

VARIABLES
    job,        \* Job rows
    approval,   \* Approval.status of each job
    machine,    \* Machine rows
    session,    \* AgentSession rows
    mails,      \* result e-mails handed to the email queue, per job
    req,        \* requests in flight
    sweep       \* sweeps in flight

tables == <<job, approval, machine, session, mails>>
vars   == <<job, approval, machine, session, mails, req, sweep>>

-----------------------------------------------------------------------------
(* Rows. *)

\* `silent`: no lastHeartbeatAt in the last 3 minutes (HEARTBEAT_TIMEOUT_MS).
MachineRow == [status: {"absent", "idle", "running", "offline"}, silent: BOOLEAN,
               trust: 0..100, completed: Nat, failed: Nat]

JobRow == [status: Status \cup {"absent"}, requester: Users \cup {None},
           provider: Users \cup {None}, machine: Machines \cup {None},
           decidedBy: Users \cup {None}]

\* A machine that never registered (trustScore @default(50)), and one that did
\* before the model starts and has been offline since.
NoMachine    == [status |-> "absent", silent |-> FALSE, trust |-> 50,
                 completed |-> 0, failed |-> 0]
KnownMachine == [status: {"offline"}, silent: {TRUE}, trust: StartTrust,
                 completed: {0}, failed: {0}]

NoJob     == [status |-> "absent", requester |-> None, provider |-> None,
              machine |-> None, decidedBy |-> None]

\* `silent`: no heartbeat on this session in the last 10 minutes (SESSION_STALE_MS).
NoSession  == [status |-> "absent", machine |-> None, silent |-> FALSE]
SessionRow == [status: {"absent"}, machine: {None}, silent: {FALSE}]
              \cup [status: {"active", "revoked"}, machine: Machines, silent: BOOLEAN]

-----------------------------------------------------------------------------
(* Requests, by the await they are parked on.                               *)

Idle == [op |-> "idle"]

UserRequest ==
    [op: {"create"}, user: Users, machine: Machines]
    \cup [op: {"approve", "reject"}, job: Jobs, user: Users]
    \cup [op: {"stop"}, job: Jobs, to: {"cancelled", "preempted"}]

AgentRequest ==
    [op: {"register"}, machine: Machines]
    \cup [op: {"authed"}, session: Sessions, machine: Machines]
    \cup [op: {"claim"}, machine: Machines, job: Jobs]
    \cup [op: {"heartbeat"}, session: Sessions, machine: Machines,
          status: {"idle", "running"}, reclaim: BOOLEAN]
    \cup [op: {"report"}, job: Jobs, seen: Status, to: AgentReports]
    \cup [op: {"reread"}, job: Jobs, to: AgentReports]
    \cup [op: {"credit"}, job: Jobs, machine: Machines, to: {"completed", "failed"}]
    \cup [op: {"bonus"}, job: Jobs, machine: Machines, trust: 0..100]
    \cup [op: {"mail"}, job: Jobs]

Request == {Idle} \cup UserRequest \cup AgentRequest

\* What a sweep remembers: the silent machines it found, then the orphaned jobs.
DeadMachine == [machine: Machines, trust: 0..100, jobs: SUBSET Jobs]
Orphan      == [job: Jobs, machine: Machines]
SweepState  ==
    {Idle}
    \cup [op: {"dead"}, dead: SUBSET DeadMachine]
    \cup [op: {"orphans"}, orphans: SUBSET Orphan]
    \cup [op: {"expire"}]

\* UserOps: requests of people at the web UI; the others come from agents.
UserOps == {"create", "approve", "reject", "stop", "reclaim"}

Quiet == /\ \A r \in Reqs : req[r] = Idle
         /\ \A w \in Sweeps : sweep[w] = Idle

UnderWay == Cardinality({r \in Reqs : req[r] # Idle}) +
            Cardinality({w \in Sweeps : sweep[w] # Idle})

\* A request of this kind may start now.  The server accepts any overlap
\* ("all").  Some promises hold only when users' requests do not overlap
\* anything ("fleet"), or when nothing does ("none").
MayStart(op) ==
    /\ UnderWay < InFlight
    /\ \/ Overlap = "all"
       \/ Quiet
       \/ /\ Overlap = "fleet"
          /\ op \notin UserOps
          /\ \A r \in Reqs : req[r].op \notin UserOps

Park(r, request) == req' = [req EXCEPT ![r] = request]
Done(r)          == Park(r, Idle)

Starts(r, op, request) == req[r] = Idle /\ MayStart(op) /\ Park(r, request)

-----------------------------------------------------------------------------

TypeOK ==
    /\ job \in [Jobs -> JobRow]
    /\ approval \in [Jobs -> {"absent", "pending", "approved", "rejected"}]
    /\ machine \in [Machines -> MachineRow]
    /\ session \in [Sessions -> SessionRow]
    /\ mails \in [Jobs -> Nat]
    /\ req \in [Reqs -> Request]
    /\ sweep \in [Sweeps -> SweepState]

Init ==
    /\ job = [j \in Jobs |-> NoJob]
    /\ approval = [j \in Jobs |-> "absent"]
    /\ machine \in [Machines -> {NoMachine} \cup KnownMachine]
    /\ session = [s \in Sessions |-> NoSession]
    /\ mails = [j \in Jobs |-> 0]
    /\ req = [r \in Reqs |-> Idle]
    /\ sweep = [w \in Sweeps |-> Idle]
=============================================================================
