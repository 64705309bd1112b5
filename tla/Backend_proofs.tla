--------------------------- MODULE Backend_proofs ---------------------------
(* Theorems about Backend, for every value of its constants.                *)
EXTENDS Backend, FiniteSetTheorems, TLAPS

-----------------------------------------------------------------------------
(* Type correctness.                                                        *)

\* What a parked request remembers is determined by where it is parked.
LEMMA ParkedAt ==
  ASSUME NEW x \in Request
  PROVE  /\ x.op = "create"    => x \in [op: {"create"}, user: Users, machine: Machines]
         /\ x.op \in {"approve", "reject"}
                               => x \in [op: {"approve", "reject"}, job: Jobs, user: Users]
         /\ x.op = "stop"      => x \in [op: {"stop"}, job: Jobs, to: {"cancelled", "preempted"}]
         /\ x.op = "register"  => x \in [op: {"register"}, machine: Machines]
         /\ x.op = "authed"    => x \in [op: {"authed"}, session: Sessions, machine: Machines]
         /\ x.op = "claim"     => x \in [op: {"claim"}, machine: Machines, job: Jobs]
         /\ x.op = "heartbeat" => x \in [op: {"heartbeat"}, session: Sessions, machine: Machines,
                                         status: {"idle", "running"}, reclaim: BOOLEAN]
         /\ x.op = "report"    => x \in [op: {"report"}, job: Jobs, seen: Status, to: AgentReports]
         /\ x.op = "reread"    => x \in [op: {"reread"}, job: Jobs, to: AgentReports]
         /\ x.op = "credit"    => x \in [op: {"credit"}, job: Jobs, machine: Machines,
                                         to: {"completed", "failed"}]
         /\ x.op = "bonus"     => x \in [op: {"bonus"}, job: Jobs, machine: Machines, trust: 0..100]
         /\ x.op = "mail"      => x \in [op: {"mail"}, job: Jobs]
  BY DEF Request, UserRequest, AgentRequest, Idle

\* Parking a well-formed request keeps the slots well formed.
LEMMA ParkType ==
  ASSUME TypeOK, NEW r \in Reqs, NEW x \in Request, Park(r, x)
  PROVE  req' \in [Reqs -> Request]
  BY DEF TypeOK, Park

\* So does emptying a slot.
LEMMA DoneType ==
  ASSUME TypeOK, NEW r \in Reqs, Done(r)
  PROVE  req' \in [Reqs -> Request]
<1>1. Idle \in Request
  BY DEF Request
<1> QED
  BY <1>1, ParkType DEF Done

\* A job row whose status, machine or decider is replaced by a proper one.
LEMMA JobRowUpdate ==
  ASSUME TypeOK, NEW j \in Jobs, NEW s \in Status
  PROVE  /\ [job EXCEPT ![j].status = s] \in [Jobs -> JobRow]
         /\ \A m \in Machines \cup {None} :
              [job EXCEPT ![j].status = s, ![j].machine = m] \in [Jobs -> JobRow]
         /\ \A u \in Users \cup {None} :
              [job EXCEPT ![j].status = s, ![j].decidedBy = u] \in [Jobs -> JobRow]
<1>1. job[j] \in JobRow
  BY DEF TypeOK
<1>2. [job[j] EXCEPT !.status = s] \in JobRow
  BY <1>1 DEF JobRow
<1>3. \A m \in Machines \cup {None} :
        [[job[j] EXCEPT !.status = s] EXCEPT !.machine = m] \in JobRow
  BY <1>1 DEF JobRow
<1>4. \A u \in Users \cup {None} :
        [[job[j] EXCEPT !.status = s] EXCEPT !.decidedBy = u] \in JobRow
  BY <1>1 DEF JobRow
<1>5. job \in [Jobs -> JobRow]
  BY DEF TypeOK
<1> QED
  BY <1>2, <1>3, <1>4, <1>5

\* The same for machine rows, one column at a time.
LEMMA MachineRowUpdate ==
  ASSUME NEW row \in MachineRow
  PROVE  /\ \A s \in {"idle", "running", "offline"} : [row EXCEPT !.status = s] \in MachineRow
         /\ \A b \in BOOLEAN : [row EXCEPT !.silent = b] \in MachineRow
         /\ \A t \in 0..100 : [row EXCEPT !.trust = t] \in MachineRow
         /\ \A n \in Nat : [row EXCEPT !.completed = @ + n] \in MachineRow
         /\ \A n \in Nat : [row EXCEPT !.failed = @ + n] \in MachineRow
<1>1. \A s \in {"idle", "running", "offline"} : [row EXCEPT !.status = s] \in MachineRow
  BY DEF MachineRow
<1>2. \A b \in BOOLEAN : [row EXCEPT !.silent = b] \in MachineRow
  BY DEF MachineRow
<1>3. \A t \in 0..100 : [row EXCEPT !.trust = t] \in MachineRow
  BY DEF MachineRow
<1>4. \A n \in Nat : [row EXCEPT !.completed = @ + n] \in MachineRow
  BY DEF MachineRow
<1>5. \A n \in Nat : [row EXCEPT !.failed = @ + n] \in MachineRow
  BY DEF MachineRow
<1> QED
  BY <1>1, <1>2, <1>3, <1>4, <1>5

\* The empty tables are well typed.
LEMMA TypeInit == Init => TypeOK
<1> SUFFICES ASSUME Init PROVE TypeOK
  OBVIOUS
<1>1. NoMachine \in MachineRow /\ KnownMachine \subseteq MachineRow
  <2>1. 50 \in 0..100 /\ 0 \in Nat
    OBVIOUS
  <2>2. NoMachine \in MachineRow
    BY <2>1, Zenon DEF NoMachine, MachineRow
  <2>3. KnownMachine \subseteq MachineRow
    BY <2>1, TrustAssumption DEF KnownMachine, MachineRow
  <2> QED
    BY <2>2, <2>3
<1>2. NoJob \in JobRow
  BY DEF NoJob, JobRow
<1>3. NoSession \in SessionRow
  BY DEF NoSession, SessionRow
<1>4. Idle \in Request /\ Idle \in SweepState
  BY DEF Request, SweepState
<1>5. machine \in [Machines -> MachineRow]
  BY <1>1 DEF Init
<1>6. /\ job \in [Jobs -> JobRow]
      /\ approval \in [Jobs -> {"absent", "pending", "approved", "rejected"}]
      /\ session \in [Sessions -> SessionRow]
  BY <1>2, <1>3 DEF Init
<1>7. mails \in [Jobs -> Nat]
  BY DEF Init
<1>8. req \in [Reqs -> Request] /\ sweep \in [Sweeps -> SweepState]
  BY <1>4 DEF Init
<1> QED
  BY <1>5, <1>6, <1>7, <1>8 DEF TypeOK

\* No step of a handler of jobs.routes.ts writes an ill-formed row or request.
LEMMA TypeJobRoutes ==
  ASSUME TypeOK, NEW r \in Reqs, JobRoutesNext(r)
  PROVE  TypeOK'
<1>1. ASSUME NEW u \in Users, CreateMatch(r, u) PROVE TypeOK'
  <2>1. PICK m \in Machines :
          Park(r, [op |-> "create", user |-> u, machine |-> m])
    BY <1>1 DEF CreateMatch, Eligible, Starts
  <2>2. [op |-> "create", user |-> u, machine |-> m] \in Request
    BY DEF Request, UserRequest
  <2>3. req' \in [Reqs -> Request]
    BY <2>1, <2>2, ParkType
  <2> QED
    BY <1>1, <2>3 DEF CreateMatch, tables, TypeOK
<1>2. CASE CreateCommit(r)
  <2>1. req[r] \in [op: {"create"}, user: Users, machine: Machines]
    BY <1>2, ParkedAt DEF CreateCommit, TypeOK
  <2>2. [status |-> "pending_approval", requester |-> req[r].user,
         provider |-> Owner[req[r].machine], machine |-> req[r].machine,
         decidedBy |-> None] \in JobRow
    BY <2>1, OwnerAssumption DEF JobRow, Status
  <2>3. job' \in [Jobs -> JobRow]
    BY <1>2, <2>2 DEF CreateCommit, TypeOK
  <2>4. approval' \in [Jobs -> {"absent", "pending", "approved", "rejected"}]
    BY <1>2 DEF CreateCommit, TypeOK
  <2> QED
    BY <1>2, <2>3, <2>4, DoneType DEF CreateCommit, TypeOK
<1>3. ASSUME NEW u \in Users, NEW j \in Jobs, StopCheck(r, u, j) PROVE TypeOK'
  <2>1. [op |-> "stop", job |-> j, to |-> StopTarget(u, j)] \in Request
    BY DEF StopTarget, Request, UserRequest
  <2>2. req' \in [Reqs -> Request]
    BY <1>3, <2>1, ParkType DEF StopCheck, Starts
  <2> QED
    BY <1>3, <2>2 DEF StopCheck, tables, TypeOK
<1>4. CASE StopCommit(r)
  <2>1. req[r] \in [op: {"stop"}, job: Jobs, to: {"cancelled", "preempted"}]
    BY <1>4, ParkedAt DEF StopCommit, TypeOK
  <2>2. job' \in [Jobs -> JobRow]
    BY <1>4, <2>1, JobRowUpdate DEF StopCommit, Status
  <2> QED
    BY <1>4, <2>2, DoneType DEF StopCommit, TypeOK
<1>5. ASSUME NEW j \in Jobs, NEW to \in AgentReports, ReportCheck(r, j, to) PROVE TypeOK'
  <2>1. job[j].status \in Status
    <3>1. job[j] \in JobRow
      BY DEF TypeOK
    <3> QED
      BY <1>5, <3>1 DEF ReportCheck, JobRow
  <2>2. [op |-> "report", job |-> j, seen |-> job[j].status, to |-> to] \in Request
    BY <2>1 DEF Request, AgentRequest
  <2>3. req' \in [Reqs -> Request]
    BY <1>5, <2>2, ParkType DEF ReportCheck
  <2> QED
    BY <1>5, <2>3 DEF ReportCheck, tables, TypeOK
<1>6. CASE ReportCommit(r)
  <2>1. req[r] \in [op: {"report"}, job: Jobs, seen: Status, to: AgentReports]
    BY <1>6, ParkedAt DEF ReportCommit, TypeOK
  <2>2. job' \in [Jobs -> JobRow]
    <3>1. job[req[r].job].machine \in Machines \cup {None}
      BY <2>1 DEF TypeOK, JobRow
    <3> DEFINE m == IF req[r].to = "queued" THEN None ELSE job[req[r].job].machine
    <3>2. m \in Machines \cup {None}
      BY <3>1
    <3>3. req[r].job \in Jobs /\ req[r].to \in Status
      BY <2>1 DEF AgentReports, Status
    <3>4. job' = [job EXCEPT ![req[r].job].status = req[r].to, ![req[r].job].machine = m]
      BY <1>6, <3>3 DEF ReportCommit, TypeOK, JobRow
    <3> QED
      BY <3>2, <3>3, <3>4, JobRowUpdate
  <2>3. [op |-> "reread", job |-> req[r].job, to |-> req[r].to] \in Request
    BY <2>1 DEF Request, AgentRequest
  <2>4. req' \in [Reqs -> Request]
    BY <1>6, <2>3, ParkType DEF ReportCommit
  <2> QED
    BY <1>6, <2>2, <2>4 DEF ReportCommit, TypeOK
<1>7. CASE ReportMissed(r)
  BY <1>7, DoneType DEF ReportMissed, tables, TypeOK
<1>8. CASE ReportReread(r)
  <2>1. req[r] \in [op: {"reread"}, job: Jobs, to: AgentReports]
    BY <1>8, ParkedAt DEF ReportReread, TypeOK
  <2>2. job[req[r].job].machine \in Machines \cup {None}
    BY <2>1 DEF TypeOK, JobRow
  <2>3. req' \in [Reqs -> Request]
    <3> DEFINE credits == req[r].to \in {"completed", "failed"} /\ job[req[r].job].machine # None
               x == [op |-> "credit", job |-> req[r].job, machine |-> job[req[r].job].machine,
                     to |-> req[r].to]
    <3>1. CASE credits
      <4>1. x \in Request
        BY <2>1, <2>2, <3>1 DEF Request, AgentRequest
      <4>2. Park(r, x)
        BY <1>8, <3>1 DEF ReportReread
      <4> QED
        BY <4>1, <4>2, ParkType
    <3>2. CASE ~credits
      BY <1>8, <3>2, DoneType DEF ReportReread
    <3> QED
      BY <3>1, <3>2
  <2> QED
    BY <1>8, <2>3 DEF ReportReread, tables, TypeOK
<1>9. CASE ReadTrust(r)
  <2>1. req[r] \in [op: {"credit"}, job: Jobs, machine: Machines, to: {"completed", "failed"}]
    BY <1>9, ParkedAt DEF ReadTrust, TypeOK
  <2>2. machine[req[r].machine].trust \in 0..100
    BY <2>1 DEF TypeOK, MachineRow
  <2>3. [op |-> "bonus", job |-> req[r].job, machine |-> req[r].machine,
         trust |-> machine[req[r].machine].trust] \in Request
    BY <2>1, <2>2 DEF Request, AgentRequest
  <2>4. req' \in [Reqs -> Request]
    BY <1>9, <2>3, ParkType DEF ReadTrust
  <2> QED
    BY <1>9, <2>4 DEF ReadTrust, tables, TypeOK
<1>10. CASE WriteBonus(r)
  <2>1. req[r] \in [op: {"bonus"}, job: Jobs, machine: Machines, trust: 0..100]
    BY <1>10, ParkedAt DEF WriteBonus, TypeOK
  <2>2. AddBonus(req[r].trust) \in 0..100
    BY <2>1 DEF AddBonus
  <2> DEFINE m    == req[r].machine
             row1 == [machine[m] EXCEPT !.trust = AddBonus(req[r].trust)]
             row2 == [row1 EXCEPT !.completed = @ + 1]
  <2>3. m \in Machines /\ machine[m] \in MachineRow
    BY <2>1 DEF TypeOK
  <2>4. row2 \in MachineRow
    <3>1. row1 \in MachineRow
      BY <2>2, <2>3, MachineRowUpdate
    <3> HIDE DEF row1
    <3> QED
      BY <3>1, MachineRowUpdate
  <2>5. machine' \in [Machines -> MachineRow]
    <3>1. machine' = [machine EXCEPT ![m] = row2]
      BY <1>10, <2>3 DEF WriteBonus, TypeOK
    <3> HIDE DEF row2
    <3> QED
      BY <2>3, <2>4, <3>1 DEF TypeOK
  <2>6. [op |-> "mail", job |-> req[r].job] \in Request
    BY <2>1 DEF Request, AgentRequest
  <2>7. req' \in [Reqs -> Request]
    BY <1>10, <2>6, ParkType DEF WriteBonus
  <2> QED
    BY <1>10, <2>5, <2>7 DEF WriteBonus, TypeOK
<1>11. CASE CountFailure(r)
  <2>1. req[r] \in [op: {"credit"}, job: Jobs, machine: Machines, to: {"completed", "failed"}]
    BY <1>11, ParkedAt DEF CountFailure, TypeOK
  <2>2. machine' \in [Machines -> MachineRow]
    BY <1>11, <2>1 DEF CountFailure, TypeOK, MachineRow
  <2>3. [op |-> "mail", job |-> req[r].job] \in Request
    BY <2>1 DEF Request, AgentRequest
  <2>4. req' \in [Reqs -> Request]
    BY <1>11, <2>3, ParkType DEF CountFailure
  <2> QED
    BY <1>11, <2>2, <2>4 DEF CountFailure, TypeOK
<1>12. CASE EnqueueMail(r)
  <2>1. req[r] \in [op: {"mail"}, job: Jobs]
    BY <1>12, ParkedAt DEF EnqueueMail, TypeOK
  <2>2. mails' \in [Jobs -> Nat]
    BY <1>12, <2>1 DEF EnqueueMail, TypeOK
  <2> QED
    BY <1>12, <2>2, DoneType DEF EnqueueMail, TypeOK
<1> QED
  BY <1>1, <1>2, <1>3, <1>4, <1>5, <1>6, <1>7, <1>8, <1>9, <1>10, <1>11, <1>12
     DEF JobRoutesNext

\* Nor does a step of approvals.routes.ts.
LEMMA TypeApprovalRoutes ==
  ASSUME TypeOK, NEW r \in Reqs, ApprovalRoutesNext(r)
  PROVE  TypeOK'
<1>1. ASSUME NEW u \in Users, NEW j \in Jobs, ApproveCheck(r, u, j) \/ RejectCheck(r, u, j)
      PROVE  TypeOK'
  <2>1. \A op \in {"approve", "reject"} : [op |-> op, job |-> j, user |-> u] \in Request
    BY DEF Request, UserRequest
  <2>2. req' \in [Reqs -> Request]
    BY <1>1, <2>1, ParkType DEF ApproveCheck, RejectCheck, Starts
  <2> QED
    BY <1>1, <2>2 DEF ApproveCheck, RejectCheck, tables, TypeOK
<1>2. ASSUME NEW decision \in {"approved", "rejected"}, Decide(r, decision),
             req[r].op \in {"approve", "reject"}
      PROVE  TypeOK'
  <2>1. req[r] \in [op: {"approve", "reject"}, job: Jobs, user: Users]
    BY <1>2, ParkedAt DEF TypeOK
  <2>2. job' \in [Jobs -> JobRow]
    <3>1. req[r].job \in Jobs /\ req[r].user \in Users \cup {None} /\ decision \in Status
      BY <1>2, <2>1 DEF Status
    <3> QED
      BY <1>2, <3>1, JobRowUpdate DEF Decide
  <2>3. approval' \in [Jobs -> {"absent", "pending", "approved", "rejected"}]
    BY <1>2, <2>1 DEF Decide, TypeOK
  <2> QED
    BY <1>2, <2>2, <2>3, DoneType DEF Decide, TypeOK
<1> QED
  BY <1>1, <1>2 DEF ApprovalRoutesNext, ApproveCommit, RejectCommit

\* Nor does the session check or the poll.
LEMMA TypeAgentRoutes ==
  ASSUME TypeOK, NEW r \in Reqs, AgentRoutesNext(r)
  PROVE  TypeOK'
<1>1. ASSUME NEW s \in Sessions, Authenticate(r, s) PROVE TypeOK'
  <2>1. session[s] \in SessionRow /\ session[s].status = "active"
    BY <1>1 DEF Authenticate, TypeOK
  <2>2. session[s].machine \in Machines
    BY <2>1 DEF SessionRow
  <2>3. [op |-> "authed", session |-> s, machine |-> session[s].machine] \in Request
    BY <2>2 DEF Request, AgentRequest
  <2>4. req' \in [Reqs -> Request]
    BY <1>1, <2>3, ParkType DEF Authenticate, Starts
  <2> QED
    BY <1>1, <2>4 DEF Authenticate, tables, TypeOK
<1>2. CASE ClaimFind(r)
  <2>1. req[r] \in [op: {"authed"}, session: Sessions, machine: Machines]
    BY <1>2, ParkedAt DEF ClaimFind, TypeOK
  <2>2. PICK j \in Jobs : Park(r, [op |-> "claim", machine |-> req[r].machine, job |-> j])
    BY <1>2 DEF ClaimFind, Claimable
  <2>3. [op |-> "claim", machine |-> req[r].machine, job |-> j] \in Request
    BY <2>1 DEF Request, AgentRequest
  <2>4. req' \in [Reqs -> Request]
    BY <2>2, <2>3, ParkType
  <2> QED
    BY <1>2, <2>4 DEF ClaimFind, tables, TypeOK
<1>3. CASE ClaimCommit(r)
  <2>1. req[r] \in [op: {"claim"}, machine: Machines, job: Jobs]
    BY <1>3, ParkedAt DEF ClaimCommit, TypeOK
  <2>2. "assigned" \in Status
    BY DEF Status
  <2>3. job' \in [Jobs -> JobRow]
    BY <1>3, <2>1, <2>2, JobRowUpdate DEF ClaimCommit
  <2> QED
    BY <1>3, <2>3, DoneType DEF ClaimCommit, TypeOK
<1>4. CASE ClaimMissed(r)
  BY <1>4, DoneType DEF ClaimMissed, tables, TypeOK
<1> QED
  BY <1>1, <1>2, <1>3, <1>4 DEF AgentRoutesNext

\* Nor does a step of machines.routes.ts.
LEMMA TypeMachineRoutes ==
  ASSUME TypeOK, NEW r \in Reqs, MachineRoutesNext(r)
  PROVE  TypeOK'
<1>1. ASSUME NEW m \in Machines, RegisterMachine(r, m) PROVE TypeOK'
  <2> DEFINE row1 == [machine[m] EXCEPT !.status = "idle"]
             row2 == [row1 EXCEPT !.silent = FALSE]
  <2>1. row1 \in MachineRow
    BY MachineRowUpdate DEF TypeOK
  <2>2. row2 \in MachineRow
    <3> HIDE DEF row1
    <3> QED
      BY <2>1, MachineRowUpdate
  <2>3. machine' = [machine EXCEPT ![m] = row2]
    BY <1>1 DEF RegisterMachine, TypeOK
  <2>4. machine' \in [Machines -> MachineRow]
    <3> HIDE DEF row2
    <3> QED
      BY <2>2, <2>3 DEF TypeOK
  <2>5. [op |-> "register", machine |-> m] \in Request
    BY DEF Request, AgentRequest
  <2>6. req' \in [Reqs -> Request]
    BY <1>1, <2>5, ParkType DEF RegisterMachine, Starts
  <2> QED
    BY <1>1, <2>4, <2>6 DEF RegisterMachine, TypeOK
<1>2. CASE IssueSession(r)
  <2>1. req[r] \in [op: {"register"}, machine: Machines]
    BY <1>2, ParkedAt DEF IssueSession, TypeOK
  <2>2. [status |-> "active", silent |-> FALSE, machine |-> req[r].machine] \in SessionRow
    BY <2>1 DEF SessionRow
  <2>3. session' \in [Sessions -> SessionRow]
    BY <1>2, <2>2 DEF IssueSession, TypeOK
  <2> QED
    BY <1>2, <2>3, DoneType DEF IssueSession, TypeOK
<1>3. ASSUME NEW reported \in {"idle", "running"}, HeartbeatRead(r, reported) PROVE TypeOK'
  <2>1. req[r] \in [op: {"authed"}, session: Sessions, machine: Machines]
    BY <1>3, ParkedAt DEF HeartbeatRead, TypeOK
  <2>2. [op |-> "heartbeat", session |-> req[r].session, machine |-> req[r].machine,
         status |-> reported, reclaim |-> TellsToStop(req[r].machine)] \in Request
    BY <2>1 DEF TellsToStop, Request, AgentRequest
  <2>3. req' \in [Reqs -> Request]
    BY <1>3, <2>2, ParkType DEF HeartbeatRead
  <2> QED
    BY <1>3, <2>3 DEF HeartbeatRead, tables, TypeOK
<1>4. CASE HeartbeatCommit(r)
  <2>1. req[r] \in [op: {"heartbeat"}, session: Sessions, machine: Machines,
                    status: {"idle", "running"}, reclaim: BOOLEAN]
    BY <1>4, ParkedAt DEF HeartbeatCommit, TypeOK
  <2> DEFINE m    == req[r].machine
             row1 == [machine[m] EXCEPT !.silent = FALSE]
             row2 == [row1 EXCEPT !.status = req[r].status]
  <2>2. row1 \in MachineRow
    BY <2>1, MachineRowUpdate DEF TypeOK
  <2>3. row2 \in MachineRow
    <3> HIDE DEF row1
    <3> QED
      BY <2>1, <2>2, MachineRowUpdate
  <2>4. machine' = [machine EXCEPT ![m] = row2]
    BY <1>4, <2>1 DEF HeartbeatCommit, TypeOK
  <2>5. machine' \in [Machines -> MachineRow]
    <3> HIDE DEF row2
    <3> QED
      BY <2>1, <2>3, <2>4 DEF TypeOK
  <2>6. ASSUME NEW s \in Sessions, session[s] \in SessionRow
        PROVE  [session[s] EXCEPT !.silent = FALSE] \in SessionRow
    BY <2>6 DEF SessionRow
  <2>7. session' \in [Sessions -> SessionRow]
    BY <1>4, <2>1, <2>6 DEF HeartbeatCommit, TypeOK
  <2>8. job' \in [Jobs -> JobRow]
    <3>1. \A row \in JobRow : [row EXCEPT !.machine = None] \in JobRow
      BY DEF JobRow
    <3> QED
      BY <1>4, <3>1 DEF HeartbeatCommit, TypeOK
  <2> QED
    BY <1>4, <2>5, <2>7, <2>8, DoneType DEF HeartbeatCommit, TypeOK
<1>5. ASSUME NEW m \in Machines, Reclaim(r, m) PROVE TypeOK'
  <2>1. \A row \in JobRow : [row EXCEPT !.status = "preempted"] \in JobRow
    BY DEF JobRow, Status
  <2>2. job' \in [Jobs -> JobRow]
    BY <1>5, <2>1 DEF Reclaim, TypeOK
  <2>3. req' \in [Reqs -> Request]
    BY <1>5, DoneType DEF Reclaim, Starts, Done
  <2> QED
    BY <1>5, <2>2, <2>3 DEF Reclaim, TypeOK
<1> QED
  BY <1>1, <1>2, <1>3, <1>4, <1>5 DEF MachineRoutesNext

\* Failing any set of jobs keeps the job rows well formed.
LEMMA FailJobsType ==
  ASSUME TypeOK, NEW js, FailJobs(js)
  PROVE  job' \in [Jobs -> JobRow]
<1>1. \A row \in JobRow : [row EXCEPT !.status = "failed"] \in JobRow
  BY DEF JobRow, Status
<1> QED
  BY <1>1 DEF FailJobs, TypeOK

\* A session that was issued may be revoked or fall silent.
LEMMA SessionRowUpdate ==
  ASSUME NEW row \in SessionRow, row.status = "active"
  PROVE  /\ [row EXCEPT !.status = "revoked"] \in SessionRow
         /\ [row EXCEPT !.silent = TRUE] \in SessionRow
  BY DEF SessionRow

\* No step of a sweep writes an ill-formed row, or remembers one.
LEMMA TypeSweeper ==
  ASSUME TypeOK, NEW w \in Sweeps, SweeperNext(w)
  PROVE  TypeOK'
<1>1. ASSUME NEW x \in SweepState, Stage(w, x) PROVE sweep' \in [Sweeps -> SweepState]
  BY <1>1 DEF Stage, TypeOK
<1>2. CASE SweepStart(w)
  <2>1. \A m \in Machines : [machine |-> m, trust |-> machine[m].trust, jobs |-> ActiveOn(m)]
                              \in DeadMachine
    BY DEF DeadMachine, ActiveOn, TypeOK, MachineRow
  <2>2. sweep' \in [Sweeps -> SweepState]
    BY <1>1, <1>2, <2>1 DEF SweepStart, SweepState
  <2> QED
    BY <1>2, <2>2 DEF SweepStart, tables, TypeOK
<1>3. CASE SweepMachine(w)
  <2>1. sweep[w].dead \in SUBSET DeadMachine /\ sweep[w].op = "dead"
    BY <1>3 DEF SweepMachine, SweepState, Idle, TypeOK
  <2>2. PICK d \in DeadMachine :
          /\ FailJobs(StillActive(d.jobs))
          /\ IF machine[d.machine].status # "offline"
             THEN /\ machine' = [machine EXCEPT ![d.machine] =
                                   TakeOffline(@, d, Cardinality(StillActive(d.jobs)))]
                  /\ session' = [s \in Sessions |->
                       IF session[s].machine = d.machine /\ session[s].status = "active"
                       THEN [session[s] EXCEPT !.status = "revoked"] ELSE session[s]]
             ELSE UNCHANGED <<machine, session>>
          /\ Stage(w, [op |-> "dead", dead |-> sweep[w].dead \ {d}])
    BY <1>3, <2>1 DEF SweepMachine
  <2>3. job' \in [Jobs -> JobRow]
    BY <2>2, FailJobsType
  <2>4. Cardinality(StillActive(d.jobs)) \in Nat
    BY JobsAssumption, FS_Subset, FS_CardinalityType DEF StillActive, DeadMachine
  <2>5. machine' \in [Machines -> MachineRow]
    <3> DEFINE n    == Cardinality(StillActive(d.jobs))
               row  == machine[d.machine]
               t    == IF n > 0 THEN Penalise(d.trust) ELSE row.trust
               row1 == [row EXCEPT !.status = "offline"]
               row2 == [row1 EXCEPT !.trust = t]
               row3 == [row2 EXCEPT !.failed = @ + n]
    <3>1. row \in MachineRow /\ d.machine \in Machines
      BY DEF TypeOK, DeadMachine
    <3>2. t \in 0..100
      BY <3>1 DEF Penalise, DeadMachine, MachineRow
    <3>3. row1 \in MachineRow
      BY <3>1, MachineRowUpdate
    <3>4. row2 \in MachineRow
      <4> HIDE DEF row1, t
      <4> QED
        BY <3>2, <3>3, MachineRowUpdate
    <3>5. row3 \in MachineRow
      <4> HIDE DEF row2, n
      <4> QED
        BY <2>4, <3>4, MachineRowUpdate DEF n
    <3>6. TakeOffline(row, d, n) = row3
      BY <3>1 DEF TakeOffline, MachineRow
    <3>7. machine' = [machine EXCEPT ![d.machine] = row3] \/ machine' = machine
      BY <2>2, <3>1, <3>6
    <3> HIDE DEF row3
    <3> QED
      BY <3>1, <3>5, <3>7 DEF TypeOK
  <2>6. session' \in [Sessions -> SessionRow]
    <3>1. CASE machine[d.machine].status # "offline"
      <4>1. session' = [s \in Sessions |->
               IF session[s].machine = d.machine /\ session[s].status = "active"
               THEN [session[s] EXCEPT !.status = "revoked"] ELSE session[s]]
        BY <2>2, <3>1
      <4> QED
        BY <4>1, SessionRowUpdate DEF TypeOK
    <3>2. CASE machine[d.machine].status = "offline"
      BY <2>2, <3>2 DEF TypeOK
    <3> QED
      BY <3>1, <3>2
  <2>7. sweep' \in [Sweeps -> SweepState]
    BY <1>1, <2>1, <2>2 DEF SweepState
  <2> QED
    BY <1>3, <2>3, <2>5, <2>6, <2>7 DEF SweepMachine, TypeOK
<1>4. CASE SweepFindOrphans(w)
  <2>1. [op |-> "orphans", orphans |-> Orphans] \in SweepState
    BY DEF SweepState, Orphans
  <2> QED
    BY <1>1, <1>4, <2>1 DEF SweepFindOrphans, tables, TypeOK
<1>5. CASE SweepOrphans(w)
  <2> DEFINE lost == {o \in sweep[w].orphans : job[o.job].status \in Active}
             count(m) == Cardinality({j \in Jobs : [job |-> j, machine |-> m] \in lost})
  <2>1. job' \in [Jobs -> JobRow]
    BY <1>5, FailJobsType DEF SweepOrphans
  <2>2. \A m \in Machines : count(m) \in Nat
    BY JobsAssumption, FS_Subset, FS_CardinalityType
  <2>3. machine' = [m \in Machines |-> [machine[m] EXCEPT !.failed = @ + count(m)]]
    BY <1>5 DEF SweepOrphans
  <2>4. machine' \in [Machines -> MachineRow]
    <3> HIDE DEF count
    <3> QED
      BY <2>2, <2>3, MachineRowUpdate DEF TypeOK
  <2>5. [op |-> "expire"] \in SweepState
    BY DEF SweepState
  <2> QED
    BY <1>1, <1>5, <2>1, <2>4, <2>5 DEF SweepOrphans, TypeOK
<1>6. CASE SweepSessions(w)
  <2>1. session' \in [Sessions -> SessionRow]
    BY <1>6, SessionRowUpdate DEF SweepSessions, TypeOK
  <2>2. Idle \in SweepState
    BY DEF SweepState
  <2> QED
    BY <1>1, <1>6, <2>1, <2>2 DEF SweepSessions, TypeOK
<1> QED
  BY <1>2, <1>3, <1>4, <1>5, <1>6 DEF SweeperNext

\* Every reachable state is well typed; in particular trust stays within 0..100
\* and every parked request and sweep remembers what its next step needs.
THEOREM TypeCorrect == Spec => []TypeOK
<1>1. ASSUME TypeOK, Next PROVE TypeOK'
  <2>1. ASSUME NEW r \in Reqs, RequestEnds(r) PROVE TypeOK'
    BY <1>1, <2>1, DoneType DEF RequestEnds, tables, TypeOK
  <2>2. ASSUME NEW w \in Sweeps, SweepEnds(w) PROVE TypeOK'
    BY <1>1, <2>2 DEF SweepEnds, Stage, tables, SweepState, TypeOK
  <2>3. ASSUME NEW m \in Machines, MachineFallsSilent(m) PROVE TypeOK'
    <3> DEFINE row == [machine[m] EXCEPT !.silent = TRUE]
    <3>1. row \in MachineRow
      BY <1>1, MachineRowUpdate DEF TypeOK
    <3>2. machine' = [machine EXCEPT ![m] = row]
      BY <2>3 DEF MachineFallsSilent
    <3> HIDE DEF row
    <3>3. machine' \in [Machines -> MachineRow]
      BY <1>1, <3>1, <3>2 DEF TypeOK
    <3> QED
      BY <1>1, <2>3, <3>3 DEF MachineFallsSilent, TypeOK
  <2>4. ASSUME NEW s \in Sessions, SessionFallsSilent(s) PROVE TypeOK'
    <3>1. [session[s] EXCEPT !.silent = TRUE] \in SessionRow
      BY <1>1, <2>4, SessionRowUpdate DEF SessionFallsSilent, TypeOK
    <3>2. session' \in [Sessions -> SessionRow]
      BY <1>1, <2>4, <3>1 DEF SessionFallsSilent, TypeOK
    <3> QED
      BY <1>1, <2>4, <3>2 DEF SessionFallsSilent, TypeOK
  <2> QED
    BY <1>1, <2>1, <2>2, <2>3, <2>4, TypeJobRoutes, TypeApprovalRoutes, TypeAgentRoutes,
       TypeMachineRoutes, TypeSweeper DEF Next
<1>2. ASSUME TypeOK, UNCHANGED vars PROVE TypeOK'
  BY <1>2 DEF vars, TypeOK
<1> QED
  BY TypeInit, <1>1, <1>2, PTL DEF Spec

-----------------------------------------------------------------------------
(* Safety.  Every step changes a job in one of seven ways (RowStep), each   *)
(* of which keeps what Safe says about the job.                             *)

Created(j) ==
    /\ job[j].status = "absent"
    /\ job'[j] \in JobRow
    /\ job'[j].status = "pending_approval"
    /\ approval'[j] = "pending"
    /\ job'[j].machine \in Machines
    /\ job'[j].provider = Owner[job'[j].machine]
    /\ job'[j].provider # job'[j].requester

\* The columns no request writes after the job was created.
Kept(j) ==
    /\ job[j].status # "absent"
    /\ job'[j].requester = job[j].requester
    /\ job'[j].provider = job[j].provider

Stopped(j) ==
    /\ job'[j].status \in {"cancelled", "preempted"}
    /\ job'[j].machine = job[j].machine
    /\ approval'[j] = approval[j]

Decided(j) ==
    /\ job'[j].status \in {"approved", "rejected"}
    /\ approval'[j] = job'[j].status
    /\ job'[j].decidedBy = job[j].provider
    /\ job'[j].machine = job[j].machine

Claimed(j) ==
    /\ job[j].status \in {"approved", "queued"}
    /\ job'[j].status = "assigned"
    /\ job'[j].machine \in Machines
    /\ Owner[job'[j].machine] = job[j].provider
    /\ job'[j].decidedBy = job[j].decidedBy
    /\ approval'[j] = approval[j]

Reported(j) ==
    /\ ~IsTerminal(job[j].status)
    /\ job'[j].status \in AgentReports
    /\ job'[j].status # job[j].status
    /\ CanTransition(job[j].status, job'[j].status)
    /\ job'[j].machine = IF job'[j].status = "queued" THEN None ELSE job[j].machine
    /\ job'[j].decidedBy = job[j].decidedBy
    /\ approval'[j] = approval[j]

Lost(j) ==
    /\ job[j].status \in Active
    /\ job'[j].status = "failed"
    /\ job'[j].machine = job[j].machine
    /\ job'[j].decidedBy = job[j].decidedBy
    /\ approval'[j] = approval[j]

LetGo(j) ==
    /\ job[j].status \in {"preempted", "cancelled"}
    /\ job'[j].status = job[j].status
    /\ job'[j].machine = None
    /\ approval'[j] = approval[j]

RowStep(j) ==
    \/ Created(j)
    \/ Kept(j) /\ (Stopped(j) \/ Decided(j) \/ Claimed(j) \/ Reported(j) \/ Lost(j) \/ LetGo(j))
    \/ job'[j] = job[j] /\ approval'[j] = approval[j]

\* The handlers of jobs.routes.ts change a job only in these ways.
LEMMA RowStepJobRoutes ==
  ASSUME TypeOK, Safe, NEW r \in Reqs, JobRoutesNext(r), NEW k \in Jobs
  PROVE  RowStep(k)
<1> USE DEF TypeOK
<1>1. CASE CreateCommit(r)
  <2>1. req[r] \in [op: {"create"}, user: Users, machine: Machines]
    BY <1>1, ParkedAt DEF CreateCommit
  <2>2. Owner[req[r].machine] # req[r].user
    BY <1>1, <2>1 DEF CreateCommit, Safe, RequestsSound, Sound
  <2> DEFINE row == [status |-> "pending_approval", requester |-> req[r].user,
                     provider |-> Owner[req[r].machine], machine |-> req[r].machine,
                     decidedBy |-> None]
  <2>3. row \in JobRow
    BY <2>1, OwnerAssumption DEF JobRow, Status
  <2>4. PICK j \in Jobs : /\ \A i \in Jobs : (job[i].status = "absent") <=> (i >= j)
                          /\ job' = [job EXCEPT ![j] = row]
                          /\ approval' = [approval EXCEPT ![j] = "pending"]
    BY <1>1 DEF CreateCommit
  <2>5. job[j].status = "absent"
    <3>1. j >= j
      BY JobsAssumption
    <3> QED
      BY <2>4, <3>1
  <2>6. CASE k = j
    BY <2>1, <2>2, <2>3, <2>4, <2>5, <2>6 DEF RowStep, Created
  <2>7. CASE k # j
    BY <2>4, <2>7 DEF RowStep
  <2> QED
    BY <2>6, <2>7
<1>2. CASE StopCommit(r)
  <2>1. req[r] \in [op: {"stop"}, job: Jobs, to: {"cancelled", "preempted"}]
    BY <1>2, ParkedAt DEF StopCommit
  <2>2. job[req[r].job].status # "absent"
    BY <1>2, <2>1 DEF StopCommit, Safe, RequestsSound, Sound
  <2>3. CASE k = req[r].job
    BY <1>2, <2>1, <2>2, <2>3 DEF StopCommit, RowStep, Kept, Stopped, JobRow
  <2>4. CASE k # req[r].job
    BY <1>2, <2>4 DEF StopCommit, RowStep
  <2> QED
    BY <2>3, <2>4
<1>3. CASE ReportCommit(r)
  <2>1. req[r] \in [op: {"report"}, job: Jobs, seen: Status, to: AgentReports]
    BY <1>3, ParkedAt DEF ReportCommit
  <2>2. /\ job[req[r].job].status = req[r].seen
        /\ job[req[r].job].status # "absent"
        /\ ~IsTerminal(req[r].seen)
        /\ req[r].seen # req[r].to
        /\ CanTransition(req[r].seen, req[r].to)
    BY <1>3, <2>1 DEF ReportCommit, ReportApplies, Safe, RequestsSound, Sound
  <2>3. CASE k = req[r].job
    <3>1. /\ job'[k].status = req[r].to
          /\ job'[k].machine = IF req[r].to = "queued" THEN None ELSE job[k].machine
          /\ job'[k].requester = job[k].requester
          /\ job'[k].provider = job[k].provider
          /\ job'[k].decidedBy = job[k].decidedBy
      BY <1>3, <2>1, <2>3 DEF ReportCommit, JobRow
    <3>2. approval'[k] = approval[k]
      BY <1>3 DEF ReportCommit
    <3>3. Kept(k)
      BY <2>2, <2>3, <3>1 DEF Kept
    <3>4. Reported(k)
      BY <2>1, <2>2, <2>3, <3>1, <3>2 DEF Reported
    <3> QED
      BY <3>3, <3>4 DEF RowStep
  <2>4. CASE k # req[r].job
    BY <1>3, <2>4 DEF ReportCommit, RowStep
  <2> QED
    BY <2>3, <2>4
<1>4. CASE UNCHANGED <<job, approval>>
  BY <1>4 DEF RowStep
<1> QED
  BY <1>1, <1>2, <1>3, <1>4
     DEF JobRoutesNext, CreateMatch, StopCheck, ReportCheck, ReportMissed, ReportReread,
         ReadTrust, WriteBonus, CountFailure, EnqueueMail, tables

\* So do the other handlers.
LEMMA RowStepOtherRoutes ==
  ASSUME TypeOK, Safe, NEW r \in Reqs, NEW k \in Jobs,
         ApprovalRoutesNext(r) \/ AgentRoutesNext(r) \/ MachineRoutesNext(r)
  PROVE  RowStep(k)
<1> USE DEF TypeOK
<1>1. ASSUME NEW decision \in {"approved", "rejected"}, Decide(r, decision),
             req[r].op \in {"approve", "reject"}
      PROVE  RowStep(k)
  <2>1. req[r] \in [op: {"approve", "reject"}, job: Jobs, user: Users]
    BY <1>1, ParkedAt
  <2>2. job[req[r].job].provider = req[r].user /\ job[req[r].job].status # "absent"
    BY <1>1, <2>1 DEF Safe, RequestsSound, Sound
  <2>3. CASE k = req[r].job
    <3>1. /\ job'[k].status = decision
          /\ job'[k].decidedBy = req[r].user
          /\ job'[k].machine = job[k].machine
          /\ job'[k].requester = job[k].requester
          /\ job'[k].provider = job[k].provider
          /\ approval'[k] = decision
      BY <1>1, <2>1, <2>3 DEF Decide, JobRow
    <3> QED
      BY <1>1, <2>2, <2>3, <3>1 DEF RowStep, Kept, Decided
  <2>4. CASE k # req[r].job
    BY <1>1, <2>4 DEF Decide, RowStep
  <2> QED
    BY <2>3, <2>4
<1>2. CASE ClaimCommit(r)
  <2>1. req[r] \in [op: {"claim"}, machine: Machines, job: Jobs]
    BY <1>2, ParkedAt DEF ClaimCommit
  <2>2. req[r].job \in Claimable(req[r].machine)
    BY <1>2 DEF ClaimCommit, ClaimApplies
  <2>3. CASE k = req[r].job
    <3>1. /\ job'[k].status = "assigned"
          /\ job'[k].machine = req[r].machine
          /\ job'[k].requester = job[k].requester
          /\ job'[k].provider = job[k].provider
          /\ job'[k].decidedBy = job[k].decidedBy
          /\ approval'[k] = approval[k]
      BY <1>2, <2>1, <2>3 DEF ClaimCommit, JobRow
    <3> QED
      BY <2>1, <2>2, <2>3, <3>1 DEF RowStep, Kept, Claimed, Claimable
  <2>4. CASE k # req[r].job
    BY <1>2, <2>4 DEF ClaimCommit, RowStep
  <2> QED
    BY <2>3, <2>4
<1>3. CASE HeartbeatCommit(r)
  <2>1. job'[k] = IF k \in Released(r) THEN [job[k] EXCEPT !.machine = None] ELSE job[k]
    BY <1>3 DEF HeartbeatCommit
  <2>2. approval'[k] = approval[k]
    BY <1>3 DEF HeartbeatCommit
  <2>3. CASE k \in Released(r)
    <3>1. job[k].status \in {"preempted", "cancelled"}
      BY <2>3 DEF Released, StoppedOn
    <3>2. job[k] \in JobRow
      OBVIOUS
    <3> QED
      BY <2>1, <2>2, <2>3, <3>1, <3>2 DEF RowStep, Kept, LetGo, JobRow
  <2>4. CASE k \notin Released(r)
    BY <2>1, <2>2, <2>4 DEF RowStep
  <2> QED
    BY <2>3, <2>4
<1>4. ASSUME NEW m \in Machines, Reclaim(r, m) PROVE RowStep(k)
  <2> DEFINE hit == job[k].machine = m /\ job[k].status \in Reclaimable
  <2>1. job'[k] = IF hit THEN [job[k] EXCEPT !.status = "preempted"] ELSE job[k]
    BY <1>4 DEF Reclaim
  <2>2. approval'[k] = approval[k]
    BY <1>4 DEF Reclaim
  <2>3. CASE hit
    <3>1. job[k].status # "absent" /\ job[k] \in JobRow
      BY <2>3 DEF Reclaimable, Active
    <3> QED
      BY <2>1, <2>2, <2>3, <3>1 DEF RowStep, Kept, Stopped, JobRow
  <2>4. CASE ~hit
    BY <2>1, <2>2, <2>4 DEF RowStep
  <2> QED
    BY <2>3, <2>4
<1>5. CASE UNCHANGED <<job, approval>>
  BY <1>5 DEF RowStep
<1> QED
  BY <1>1, <1>2, <1>3, <1>4, <1>5
     DEF ApprovalRoutesNext, ApproveCheck, RejectCheck, ApproveCommit, RejectCommit,
         AgentRoutesNext, Authenticate, ClaimFind, ClaimMissed,
         MachineRoutesNext, RegisterMachine, IssueSession, HeartbeatRead, tables

\* And so does the sweeper, which only ever fails jobs.
LEMMA RowStepSweeper ==
  ASSUME TypeOK, NEW w \in Sweeps, SweeperNext(w), NEW k \in Jobs
  PROVE  RowStep(k)
<1>1. ASSUME NEW js, \A j \in js : job[j].status \in Active, FailJobs(js),
             UNCHANGED approval
      PROVE  RowStep(k)
  <2>1. job[k] \in JobRow
    BY DEF TypeOK
  <2>2. CASE k \in js
    BY <1>1, <2>1, <2>2 DEF FailJobs, RowStep, Kept, Lost, JobRow, Active
  <2>3. CASE k \notin js
    BY <1>1, <2>3 DEF FailJobs, RowStep
  <2> QED
    BY <2>2, <2>3
<1>2. CASE SweepMachine(w)
  <2>1. PICK d \in sweep[w].dead : FailJobs(StillActive(d.jobs))
    BY <1>2 DEF SweepMachine
  <2> QED
    BY <1>1, <1>2, <2>1 DEF SweepMachine, StillActive
<1>3. CASE SweepOrphans(w)
  BY <1>1, <1>3 DEF SweepOrphans
<1>4. CASE UNCHANGED <<job, approval>>
  BY <1>4 DEF RowStep
<1> QED
  BY <1>2, <1>3, <1>4 DEF SweeperNext, SweepStart, SweepFindOrphans, SweepSessions, tables

\* Every step of the backend, seen from one job.
LEMMA RowStepNext ==
  ASSUME TypeOK, Safe, [Next]_vars, NEW k \in Jobs
  PROVE  RowStep(k)
<1>1. CASE UNCHANGED <<job, approval>>
  BY <1>1 DEF RowStep
<1> QED
  BY <1>1, RowStepJobRoutes, RowStepOtherRoutes, RowStepSweeper
     DEF Next, RequestEnds, SweepEnds, MachineFallsSilent, SessionFallsSilent, tables, vars

\* A job that exists goes on existing, with the provider it was created for.
LEMMA RowStays ==
  ASSUME NEW k \in Jobs, RowStep(k), job[k].status # "absent"
  PROVE  job'[k].status # "absent" /\ job'[k].provider = job[k].provider
  BY DEF RowStep, Created, Kept, Stopped, Decided, Claimed, Reported, Lost, LetGo, AgentReports

\* A job changed in one of these ways is still consented to by its provider.
LEMMA ConsentStep ==
  ASSUME TypeOK, Consent, DecisionBinds, \A k \in Jobs : RowStep(k)
  PROVE  Consent'
<1> SUFFICES ASSUME NEW j \in Jobs
             PROVE  /\ job'[j].status \in {"approved", "queued", "completed", "failed"} \cup Active
                          => job'[j].decidedBy = job'[j].provider
                    /\ job'[j].status # "absent"
                          => job'[j].provider \in Users \ {job'[j].requester}
  BY DEF Consent
<1>1. /\ job[j].status \in {"approved", "queued", "completed", "failed"} \cup Active
            => job[j].decidedBy = job[j].provider
      /\ job[j].status # "absent" => job[j].provider \in Users \ {job[j].requester}
  BY DEF Consent
<1>2. CASE Created(j)
  BY <1>2, OwnerAssumption DEF Created, Active
<1>3. CASE Kept(j) /\ (Stopped(j) \/ LetGo(j))
  BY <1>1, <1>3 DEF Kept, Stopped, LetGo, Active
<1>4. CASE Kept(j) /\ Decided(j)
  BY <1>1, <1>4 DEF Kept, Decided
<1>5. CASE Kept(j) /\ (Claimed(j) \/ Lost(j))
  BY <1>1, <1>5 DEF Kept, Claimed, Lost, Active
<1>6. CASE Kept(j) /\ Reported(j)
  BY <1>1, <1>6
     DEF Kept, Reported, AgentReports, Active, CanTransition, IsTerminal, Transitions, Terminal
<1>7. CASE job'[j] = job[j]
  BY <1>1, <1>7
<1> QED
  BY <1>2, <1>3, <1>4, <1>5, <1>6, <1>7 DEF RowStep

\* And it is still on a machine of its provider, or on none.
LEMMA PlacementStep ==
  ASSUME TypeOK, Placement, \A k \in Jobs : RowStep(k)
  PROVE  Placement'
<1> SUFFICES ASSUME NEW j \in Jobs
             PROVE  /\ job'[j].machine # None => Owner[job'[j].machine] = job'[j].provider
                    /\ job'[j].status \in Active => job'[j].machine # None
  BY DEF Placement
<1>1. /\ job[j].machine # None => Owner[job[j].machine] = job[j].provider
      /\ job[j].status \in Active => job[j].machine # None
  BY DEF Placement
<1>2. \A m \in Machines : m # None
  BY NoneAssumption
<1>3. CASE Created(j)
  BY <1>2, <1>3 DEF Created, Active
<1>4. CASE Kept(j) /\ (Stopped(j) \/ Decided(j) \/ Lost(j))
  BY <1>1, <1>4 DEF Kept, Stopped, Decided, Lost, Active
<1>5. CASE Kept(j) /\ (Claimed(j) \/ LetGo(j))
  BY <1>1, <1>2, <1>5 DEF Kept, Claimed, LetGo, Active
<1>6. CASE Kept(j) /\ Reported(j)
  BY <1>1, <1>6 DEF Kept, Reported, AgentReports, Active, CanTransition, Transitions
<1>7. CASE job'[j] = job[j]
  BY <1>1, <1>7
<1> QED
  BY <1>3, <1>4, <1>5, <1>6, <1>7 DEF RowStep

\* And its approval row still agrees with it.
LEMMA DecisionStep ==
  ASSUME TypeOK, DecisionBinds, \A k \in Jobs : RowStep(k)
  PROVE  DecisionBinds'
<1> DEFINE Agree(a, s) ==
       /\ a = "absent" <=> s = "absent"
       /\ a = "pending" => s \in {"pending_approval", "preempted", "cancelled"}
       /\ a = "approved" => s # "pending_approval"
       /\ a = "rejected" => s \in {"rejected", "preempted", "cancelled"}
<1> SUFFICES ASSUME NEW j \in Jobs PROVE Agree(approval'[j], job'[j].status)
  BY DEF DecisionBinds
<1>1. Agree(approval[j], job[j].status)
  BY DEF DecisionBinds
<1>2. approval[j] \in {"absent", "pending", "approved", "rejected"}
  BY DEF TypeOK
<1>3. CASE Created(j)
  BY <1>3 DEF Created
<1>4. CASE Kept(j) /\ (Stopped(j) \/ Decided(j) \/ Claimed(j))
  BY <1>1, <1>2, <1>4 DEF Kept, Stopped, Decided, Claimed
<1>5. CASE Kept(j) /\ (Lost(j) \/ LetGo(j))
  BY <1>1, <1>2, <1>5 DEF Kept, Lost, LetGo, Active
<1>6. CASE Kept(j) /\ Reported(j)
  BY <1>1, <1>2, <1>6
     DEF Kept, Reported, AgentReports, CanTransition, IsTerminal, Transitions, Terminal
<1>7. CASE job'[j] = job[j] /\ approval'[j] = approval[j]
  BY <1>1, <1>7
<1> QED
  BY <1>3, <1>4, <1>5, <1>6, <1>7 DEF RowStep

\* A request that is parked has checked what its last write relies on.
LEMMA ParksSound ==
  ASSUME TypeOK, Safe, [Next]_vars, NEW q \in Reqs
  PROVE  req'[q] = req[q] \/ (req'[q] \in Request /\ Sound(req'[q]))
<1> USE DEF TypeOK
<1>1. ASSUME NEW r \in Reqs, NEW x \in Request, Sound(x), Park(r, x)
      PROVE  req'[q] = req[q] \/ (req'[q] \in Request /\ Sound(req'[q]))
  <2>1. req' = [req EXCEPT ![r] = x]
    BY <1>1 DEF Park
  <2>2. req'[q] = x \/ req'[q] = req[q]
    BY <2>1
  <2>3. CASE req'[q] = x
    BY <1>1, <2>3 DEF Sound
  <2> QED
    BY <2>2, <2>3
<1>2. ASSUME NEW r \in Reqs, NEW x \in Request, Park(r, x),
             x.op \notin {"create", "approve", "reject", "stop", "claim", "report"}
      PROVE  req'[q] = req[q] \/ (req'[q] \in Request /\ Sound(req'[q]))
  BY <1>1, <1>2 DEF Sound
<1>3. Idle \in Request /\ Idle.op = "idle"
  BY DEF Request, Idle
<1>4. ASSUME NEW r \in Reqs, Done(r)
      PROVE  req'[q] = req[q] \/ (req'[q] \in Request /\ Sound(req'[q]))
  BY <1>2, <1>3, <1>4 DEF Done
<1>5. ASSUME NEW r \in Reqs, JobRoutesNext(r)
      PROVE  req'[q] = req[q] \/ (req'[q] \in Request /\ Sound(req'[q]))
  <2>1. ASSUME NEW u \in Users, CreateMatch(r, u)
        PROVE  req'[q] = req[q] \/ (req'[q] \in Request /\ Sound(req'[q]))
    <3>1. PICK m \in Machines : /\ Owner[m] # u
                                /\ Park(r, [op |-> "create", user |-> u, machine |-> m])
      BY <2>1 DEF CreateMatch, Eligible, Starts
    <3>2. [op |-> "create", user |-> u, machine |-> m] \in Request
      BY DEF Request, UserRequest
    <3>3. Sound([op |-> "create", user |-> u, machine |-> m])
      BY <3>1 DEF Sound
    <3> QED
      BY <1>1, <3>1, <3>2, <3>3
  <2>2. ASSUME NEW u \in Users, NEW j \in Jobs, StopCheck(r, u, j)
        PROVE  req'[q] = req[q] \/ (req'[q] \in Request /\ Sound(req'[q]))
    <3> DEFINE x == [op |-> "stop", job |-> j, to |-> StopTarget(u, j)]
    <3>1. x \in Request
      BY DEF StopTarget, Request, UserRequest
    <3>2. Sound(x)
      BY <2>2 DEF StopCheck, Sound
    <3>3. Park(r, x)
      BY <2>2 DEF StopCheck, Starts
    <3> QED
      BY <1>1, <3>1, <3>2, <3>3
  <2>3. ASSUME NEW j \in Jobs, NEW to \in AgentReports, ReportCheck(r, j, to)
        PROVE  req'[q] = req[q] \/ (req'[q] \in Request /\ Sound(req'[q]))
    <3> DEFINE x == [op |-> "report", job |-> j, seen |-> job[j].status, to |-> to]
    <3>1. job[j].status \in Status
      <4>1. job[j] \in JobRow
        OBVIOUS
      <4> QED
        BY <2>3, <4>1 DEF ReportCheck, JobRow
    <3>2. x \in Request
      BY <3>1 DEF Request, AgentRequest
    <3>3. Sound(x)
      BY <2>3 DEF ReportCheck, ReportAllowed, Sound
    <3>4. Park(r, x)
      BY <2>3 DEF ReportCheck
    <3> QED
      BY <1>1, <3>2, <3>3, <3>4
  <2>4. CASE ReportCommit(r)
    <3> DEFINE x == [op |-> "reread", job |-> req[r].job, to |-> req[r].to]
    <3>1. req[r] \in [op: {"report"}, job: Jobs, seen: Status, to: AgentReports]
      BY <2>4, ParkedAt DEF ReportCommit
    <3>2. x \in Request
      BY <3>1 DEF Request, AgentRequest
    <3>3. Park(r, x)
      BY <2>4 DEF ReportCommit
    <3> QED
      BY <1>2, <3>2, <3>3
  <2>5. CASE ReportReread(r)
    <3> DEFINE x == [op |-> "credit", job |-> req[r].job, machine |-> job[req[r].job].machine,
                     to |-> req[r].to]
    <3>1. req[r] \in [op: {"reread"}, job: Jobs, to: AgentReports]
      BY <2>5, ParkedAt DEF ReportReread
    <3>2. job[req[r].job].machine \in Machines \cup {None}
      BY <3>1 DEF JobRow
    <3>3. CASE req[r].to \in {"completed", "failed"} /\ job[req[r].job].machine # None
      <4>1. x \in Request
        BY <3>1, <3>2, <3>3 DEF Request, AgentRequest
      <4>2. Park(r, x)
        BY <2>5, <3>3 DEF ReportReread
      <4> QED
        BY <1>2, <4>1, <4>2
    <3>4. CASE ~(req[r].to \in {"completed", "failed"} /\ job[req[r].job].machine # None)
      BY <1>4, <2>5, <3>4 DEF ReportReread
    <3> QED
      BY <3>3, <3>4
  <2>6. CASE ReadTrust(r)
    <3> DEFINE x == [op |-> "bonus", job |-> req[r].job, machine |-> req[r].machine,
                     trust |-> machine[req[r].machine].trust]
    <3>1. req[r] \in [op: {"credit"}, job: Jobs, machine: Machines, to: {"completed", "failed"}]
      BY <2>6, ParkedAt DEF ReadTrust
    <3>2. machine[req[r].machine].trust \in 0..100
      BY <3>1 DEF MachineRow
    <3>3. x \in Request
      BY <3>1, <3>2 DEF Request, AgentRequest
    <3>4. Park(r, x)
      BY <2>6 DEF ReadTrust
    <3> QED
      BY <1>2, <3>3, <3>4
  <2>7. ASSUME req[r].op \in {"credit", "bonus"}, Park(r, [op |-> "mail", job |-> req[r].job])
        PROVE  req'[q] = req[q] \/ (req'[q] \in Request /\ Sound(req'[q]))
    <3>1. req[r].job \in Jobs
      BY <2>7, ParkedAt
    <3>2. [op |-> "mail", job |-> req[r].job] \in Request
      BY <3>1 DEF Request, AgentRequest
    <3> QED
      BY <1>2, <2>7, <3>2
  <2> QED
    BY <1>4, <1>5, <2>1, <2>2, <2>3, <2>4, <2>5, <2>6, <2>7
       DEF JobRoutesNext, CreateCommit, StopCommit, ReportMissed, WriteBonus, CountFailure,
           EnqueueMail
<1>6. ASSUME NEW r \in Reqs, ApprovalRoutesNext(r)
      PROVE  req'[q] = req[q] \/ (req'[q] \in Request /\ Sound(req'[q]))
  <2>1. ASSUME NEW u \in Users, NEW j \in Jobs, NEW op \in {"approve", "reject"},
               MayDecide(u, j), job[j].status # "absent",
               Park(r, [op |-> op, job |-> j, user |-> u])
        PROVE  req'[q] = req[q] \/ (req'[q] \in Request /\ Sound(req'[q]))
    <3>1. [op |-> op, job |-> j, user |-> u] \in Request
      BY DEF Request, UserRequest
    <3>2. Sound([op |-> op, job |-> j, user |-> u])
      BY <2>1 DEF Sound, MayDecide
    <3> QED
      BY <1>1, <2>1, <3>1, <3>2
  <2> QED
    BY <1>4, <1>6, <2>1
       DEF ApprovalRoutesNext, ApproveCheck, RejectCheck, ApproveCommit, RejectCommit, Decide,
           Starts
<1>7. ASSUME NEW r \in Reqs, AgentRoutesNext(r)
      PROVE  req'[q] = req[q] \/ (req'[q] \in Request /\ Sound(req'[q]))
  <2>1. ASSUME NEW s \in Sessions, Authenticate(r, s)
        PROVE  req'[q] = req[q] \/ (req'[q] \in Request /\ Sound(req'[q]))
    <3> DEFINE x == [op |-> "authed", session |-> s, machine |-> session[s].machine]
    <3>1. session[s] \in SessionRow /\ session[s].status = "active"
      BY <2>1 DEF Authenticate
    <3>2. session[s].machine \in Machines
      BY <3>1 DEF SessionRow
    <3>3. x \in Request
      BY <3>2 DEF Request, AgentRequest
    <3>4. Park(r, x)
      BY <2>1 DEF Authenticate, Starts
    <3> QED
      BY <1>2, <3>3, <3>4
  <2>2. CASE ClaimFind(r)
    <3>1. req[r] \in [op: {"authed"}, session: Sessions, machine: Machines]
      BY <2>2, ParkedAt DEF ClaimFind
    <3>2. PICK j \in Jobs : /\ job[j].status # "absent"
                            /\ Park(r, [op |-> "claim", machine |-> req[r].machine, job |-> j])
      BY <2>2 DEF ClaimFind, Claimable
    <3> DEFINE x == [op |-> "claim", machine |-> req[r].machine, job |-> j]
    <3>3. x \in Request
      BY <3>1 DEF Request, AgentRequest
    <3>4. Sound(x)
      BY <3>2 DEF Sound
    <3> QED
      BY <1>1, <3>2, <3>3, <3>4
  <2> QED
    BY <1>4, <1>7, <2>1, <2>2 DEF AgentRoutesNext, ClaimCommit, ClaimMissed
<1>8. ASSUME NEW r \in Reqs, MachineRoutesNext(r)
      PROVE  req'[q] = req[q] \/ (req'[q] \in Request /\ Sound(req'[q]))
  <2>1. ASSUME NEW m \in Machines, RegisterMachine(r, m)
        PROVE  req'[q] = req[q] \/ (req'[q] \in Request /\ Sound(req'[q]))
    <3>1. [op |-> "register", machine |-> m] \in Request
      BY DEF Request, AgentRequest
    <3> QED
      BY <1>2, <2>1, <3>1 DEF RegisterMachine, Starts
  <2>2. ASSUME NEW reported \in {"idle", "running"}, HeartbeatRead(r, reported)
        PROVE  req'[q] = req[q] \/ (req'[q] \in Request /\ Sound(req'[q]))
    <3> DEFINE x == [op |-> "heartbeat", session |-> req[r].session, machine |-> req[r].machine,
                     status |-> reported, reclaim |-> TellsToStop(req[r].machine)]
    <3>1. req[r] \in [op: {"authed"}, session: Sessions, machine: Machines]
      BY <2>2, ParkedAt DEF HeartbeatRead
    <3>2. x \in Request
      BY <3>1 DEF Request, AgentRequest, TellsToStop
    <3>3. Park(r, x)
      BY <2>2 DEF HeartbeatRead
    <3> QED
      BY <1>2, <3>2, <3>3
  <2>3. ASSUME NEW m \in Machines, Reclaim(r, m)
        PROVE  req'[q] = req[q] \/ (req'[q] \in Request /\ Sound(req'[q]))
    BY <1>4, <2>3 DEF Reclaim, Starts, Done
  <2> QED
    BY <1>4, <1>8, <2>1, <2>2, <2>3 DEF MachineRoutesNext, IssueSession, HeartbeatCommit
<1>9. CASE UNCHANGED req
  BY <1>9
<1> QED
  BY <1>4, <1>5, <1>6, <1>7, <1>8, <1>9
     DEF Next, RequestEnds, SweepEnds, SweeperNext, SweepStart, SweepMachine, SweepFindOrphans,
         SweepOrphans, SweepSessions, MachineFallsSilent, SessionFallsSilent, vars

\* What it checked stays true until it writes, whatever the others do.
LEMMA SoundStep ==
  ASSUME TypeOK, Safe, [Next]_vars
  PROVE  RequestsSound'
<1> SUFFICES ASSUME NEW q \in Reqs PROVE Sound(req[q])'
  BY DEF RequestsSound
<1>1. req'[q] \in Request /\ Sound(req'[q])
  <2>1. req[q] \in Request /\ Sound(req[q])
    BY DEF TypeOK, Safe, RequestsSound
  <2>2. CASE req'[q] = req[q]
    BY <2>1, <2>2 DEF Sound
  <2> QED
    BY <2>2, ParksSound
<1>2. \A k \in Jobs : job[k].status # "absent" =>
        job'[k].status # "absent" /\ job'[k].provider = job[k].provider
  BY RowStepNext, RowStays
<1>3. req'[q].op \in {"approve", "reject", "stop", "claim", "report"} => req'[q].job \in Jobs
  BY <1>1, ParkedAt
<1> QED
  BY <1>1, <1>2, <1>3 DEF Sound

\* Safe holds before the first request, and every step keeps it.
LEMMA SafeInit == Init => Safe
<1> SUFFICES ASSUME Init PROVE Safe
  OBVIOUS
<1>1. Consent /\ Placement /\ DecisionBinds
  BY DEF Init, NoJob, Consent, Placement, DecisionBinds, Active
<1>2. RequestsSound
  BY DEF Init, Idle, RequestsSound, Sound
<1> QED
  BY <1>1, <1>2 DEF Safe

\* Every step of the backend keeps Safe, whichever request, sweep or clock takes it.
LEMMA SafeStep ==
  ASSUME TypeOK, Safe, [Next]_vars
  PROVE  Safe'
<1>1. \A k \in Jobs : RowStep(k)
  BY RowStepNext
<1>2. Consent' /\ Placement' /\ DecisionBinds'
  BY <1>1, ConsentStep, PlacementStep, DecisionStep DEF Safe
<1> QED
  BY <1>2, SoundStep DEF Safe

\* Safe is an invariant of the backend, however its requests overlap, break off
\* or are retried: the conjunction is inductive, its parts alone are not.
THEOREM SafeCorrect == Spec => []Safe
  BY TypeCorrect, SafeInit, SafeStep, PTL DEF Spec

\* Nothing runs on a machine without its owner's approval (agent.routes.ts:10-13).
THEOREM ConsentCorrect == Spec => []Consent
<1>1. Safe => Consent
  BY DEF Safe
<1> QED
  BY <1>1, SafeCorrect, PTL

\* A job is only ever on a machine of its provider, and on one while it is active.
THEOREM PlacementCorrect == Spec => []Placement
<1>1. Safe => Placement
  BY DEF Safe
<1> QED
  BY <1>1, SafeCorrect, PTL

\* The approval row and the job row never contradict each other.
THEOREM DecisionBindsCorrect == Spec => []DecisionBinds
<1>1. Safe => DecisionBinds
  BY DEF Safe
<1> QED
  BY <1>1, SafeCorrect, PTL

\* Agents, polls and sweeps move a job only along the transition table, from the
\* status it has at that moment, whatever was read before (jobs.routes.ts:581-582).
THEOREM AgentMovesCorrect == Spec => AgentMoves
<1> DEFINE Moves == \A j \in Jobs :
         LET from == job[j].status
             to   == job'[j].status
         IN  \/ from = to
             \/ to \in ByUser
             \/ <<from, to>> \in {<<"absent", "pending_approval">>, <<"approved", "assigned">>}
             \/ ~IsTerminal(from) /\ CanTransition(from, to)
<1>1. ASSUME TypeOK, Safe, [Next]_vars PROVE [Moves]_vars
  <2> SUFFICES ASSUME NEW j \in Jobs
               PROVE  \/ job[j].status = job'[j].status
                      \/ job'[j].status \in ByUser
                      \/ <<job[j].status, job'[j].status>> \in
                           {<<"absent", "pending_approval">>, <<"approved", "assigned">>}
                      \/ ~IsTerminal(job[j].status) /\ CanTransition(job[j].status, job'[j].status)
    OBVIOUS
  <2>1. RowStep(j)
    BY <1>1, RowStepNext
  <2>2. CASE Stopped(j) \/ Decided(j)
    BY <2>2 DEF Stopped, Decided, ByUser
  <2>3. CASE Created(j) \/ Claimed(j)
    BY <2>3 DEF Created, Claimed, CanTransition, Transitions, IsTerminal, Terminal
  <2>4. CASE Reported(j)
    BY <2>4 DEF Reported
  <2>5. CASE Lost(j)
    BY <2>5 DEF Lost, Active, CanTransition, Transitions, IsTerminal, Terminal
  <2>6. CASE LetGo(j) \/ job'[j] = job[j]
    BY <2>6 DEF LetGo
  <2> QED
    BY <2>1, <2>2, <2>3, <2>4, <2>5, <2>6 DEF RowStep
<1>2. Spec => [][Moves]_vars
  BY <1>1, TypeCorrect, SafeCorrect, PTL DEF Spec
<1> QED
  BY <1>2 DEF AgentMoves

-----------------------------------------------------------------------------
(* From here on less overlaps than may.  First, users' requests overlap     *)
(* nothing while agents and sweepers overlap each other as they like        *)
(* (Overlap # "all"): what the handlers of the agents promise once stop,    *)
(* approve and reject cannot write by id what they have not read, and that  *)
(* the backend then implements JobLifecycle.  Second, nothing overlaps      *)
(* (Overlap = "none"): what a heartbeat and a sweep promise of the rows     *)
(* they read before they write.                                             *)

-----------------------------------------------------------------------------
(* A user's request has the backend to itself.                              *)

Exclusive ==
    \A r \in Reqs : req[r].op \in UserOps =>
        /\ \A q \in Reqs : q # r => req[q] = Idle
        /\ \A w \in Sweeps : sweep[w] = Idle

\* The rows are still as it checked them.
AsChecked(x) ==
    /\ x.op = "stop"    => CanStop(job[x.job].status)
    /\ x.op = "approve" => /\ approval[x.job] = "pending"
                           /\ job[x.job].status = "pending_approval"
    /\ x.op = "reject"  => /\ approval[x.job] = "pending"
                           /\ job[x.job].status \in {"pending_approval", "preempted"}

Fresh == \A r \in Reqs : AsChecked(req[r])

\* One slot changes at a time, and a slot is filled only by Starts.
LEMMA OneSlot ==
  ASSUME TypeOK, [Next]_vars, NEW q \in Reqs, req'[q] # req[q]
  PROVE  \E x : Park(q, x)
<1>1. ASSUME NEW r \in Reqs, NEW x, Park(r, x) PROVE r = q
  BY <1>1 DEF Park, TypeOK
<1>2. ASSUME NEW r \in Reqs, JobRoutesNext(r) PROVE UNCHANGED req \/ \E x : Park(r, x)
  BY <1>2 DEF JobRoutesNext, CreateMatch, CreateCommit, StopCheck, StopCommit, ReportCheck, ReportCommit,
              ReportMissed, ReportReread, ReadTrust, WriteBonus, CountFailure, EnqueueMail, Starts, Done
<1>3. ASSUME NEW r \in Reqs, ApprovalRoutesNext(r) \/ AgentRoutesNext(r) \/ MachineRoutesNext(r) \/ RequestEnds(r)
      PROVE  \E x : Park(r, x)
  BY <1>3 DEF ApprovalRoutesNext, ApproveCheck, RejectCheck, ApproveCommit, RejectCommit, Decide,
              AgentRoutesNext, Authenticate, ClaimFind, ClaimCommit, ClaimMissed,
              MachineRoutesNext, RegisterMachine, IssueSession, HeartbeatRead, HeartbeatCommit, Reclaim,
              RequestEnds, Starts, Done
<1>4. ASSUME \/ UNCHANGED vars
             \/ \E w \in Sweeps : SweeperNext(w) \/ SweepEnds(w)
             \/ \E m \in Machines : MachineFallsSilent(m)
             \/ \E s \in Sessions : SessionFallsSilent(s)
      PROVE  UNCHANGED req
  BY <1>4 DEF vars, SweeperNext, SweepStart, SweepMachine, SweepFindOrphans, SweepOrphans, SweepSessions,
              SweepEnds, MachineFallsSilent, SessionFallsSilent
<1>. QED
  BY <1>1, <1>2, <1>3, <1>4 DEF Next

\* The steps of one request, and those that are nobody's.
Handles(r) == \/ JobRoutesNext(r) \/ ApprovalRoutesNext(r) \/ AgentRoutesNext(r)
              \/ MachineRoutesNext(r) \/ RequestEnds(r)

Time == \/ UNCHANGED vars
        \/ \E m \in Machines : MachineFallsSilent(m)
        \/ \E s \in Sessions : SessionFallsSilent(s)

LEMMA TimePasses ==
  ASSUME TypeOK, Time
  PROVE  UNCHANGED <<job, req, sweep>> /\ \A m \in Machines : machine'[m].trust = machine[m].trust
<1>1. CASE UNCHANGED vars
  BY <1>1 DEF vars
<1>2. ASSUME NEW m \in Machines, MachineFallsSilent(m)
      PROVE  UNCHANGED <<job, req, sweep>> /\ \A n \in Machines : machine'[n].trust = machine[n].trust
  BY <1>2 DEF MachineFallsSilent, TypeOK, MachineRow
<1>3. ASSUME NEW s \in Sessions, SessionFallsSilent(s) PROVE UNCHANGED <<job, req, sweep, machine>>
  BY <1>3 DEF SessionFallsSilent
<1>. QED
  BY <1>1, <1>2, <1>3 DEF Time

\* A request, or a sweep, moves its own slot only.
LEMMA HandlesOne ==
  ASSUME TypeOK, NEW r \in Reqs, Handles(r)
  PROVE  UNCHANGED sweep /\ \A q \in Reqs \ {r} : req'[q] = req[q]
<1>1. UNCHANGED req \/ \E x : Park(r, x)
  BY DEF Handles, JobRoutesNext, CreateMatch, CreateCommit, StopCheck, StopCommit, ReportCheck,
         ReportCommit, ReportMissed, ReportReread, ReadTrust, WriteBonus, CountFailure, EnqueueMail,
         ApprovalRoutesNext, ApproveCheck, RejectCheck, ApproveCommit, RejectCommit, Decide,
         AgentRoutesNext, Authenticate, ClaimFind, ClaimCommit, ClaimMissed,
         MachineRoutesNext, RegisterMachine, IssueSession, HeartbeatRead, HeartbeatCommit, Reclaim,
         RequestEnds, Starts, Done
<1>2. UNCHANGED sweep
  BY DEF Handles, JobRoutesNext, CreateMatch, CreateCommit, StopCheck, StopCommit, ReportCheck,
         ReportCommit, ReportMissed, ReportReread, ReadTrust, WriteBonus, CountFailure, EnqueueMail,
         ApprovalRoutesNext, ApproveCheck, RejectCheck, ApproveCommit, RejectCommit, Decide,
         AgentRoutesNext, Authenticate, ClaimFind, ClaimCommit, ClaimMissed,
         MachineRoutesNext, RegisterMachine, IssueSession, HeartbeatRead, HeartbeatCommit, Reclaim,
         RequestEnds
<1>. QED
  BY <1>1, <1>2 DEF Park, TypeOK

LEMMA SweepsOne ==
  ASSUME TypeOK, NEW w \in Sweeps, SweeperNext(w) \/ SweepEnds(w)
  PROVE  UNCHANGED req /\ \A v \in Sweeps \ {w} : sweep'[v] = sweep[v]
<1>1. UNCHANGED req /\ \E x : Stage(w, x)
  BY DEF SweeperNext, SweepStart, SweepMachine, SweepFindOrphans, SweepOrphans, SweepSessions, SweepEnds
<1>. QED
  BY <1>1 DEF Stage, TypeOK

\* While a user's request is parked, only it moves, and time.
LEMMA Solo ==
  ASSUME TypeOK, Overlap # "all", Exclusive, [Next]_vars, NEW q \in Reqs, req[q].op \in UserOps
  PROVE  \/ UNCHANGED <<job, approval, mails, req, sweep>>
         \/ Done(q) /\ UNCHANGED <<mails, sweep>>
<1>1. ~Quiet /\ \A op : ~MayStart(op)
  BY DEF Quiet, MayStart, UserOps, Idle
<1>2. /\ \A r \in Reqs : r # q => req[r] = Idle /\ req[r].op = "idle"
      /\ \A w \in Sweeps : sweep[w] = Idle /\ sweep[w].op = "idle"
  BY DEF Exclusive, Idle
<1>3. ASSUME NEW r \in Reqs, JobRoutesNext(r)
      PROVE  r = q /\ Done(q) /\ UNCHANGED <<mails, sweep>>
  BY <1>1, <1>2, <1>3
     DEF JobRoutesNext, CreateMatch, CreateCommit, StopCheck, StopCommit, ReportCheck, ReportCommit,
         ReportMissed, ReportReread, ReadTrust, WriteBonus, CountFailure, EnqueueMail, Starts, UserOps, tables
<1>4. ASSUME NEW r \in Reqs, ApprovalRoutesNext(r) \/ AgentRoutesNext(r) \/ MachineRoutesNext(r) \/ RequestEnds(r)
      PROVE  r = q /\ Done(q) /\ UNCHANGED <<mails, sweep>>
  BY <1>1, <1>2, <1>4
     DEF ApprovalRoutesNext, ApproveCheck, RejectCheck, ApproveCommit, RejectCommit, Decide,
         AgentRoutesNext, Authenticate, ClaimFind, ClaimCommit, ClaimMissed,
         MachineRoutesNext, RegisterMachine, IssueSession, HeartbeatRead, HeartbeatCommit, Reclaim,
         RequestEnds, Starts, UserOps, tables
<1>5. ASSUME NEW w \in Sweeps, SweeperNext(w) \/ SweepEnds(w) PROVE FALSE
  BY <1>1, <1>2, <1>5
     DEF SweeperNext, SweepStart, SweepMachine, SweepFindOrphans, SweepOrphans, SweepSessions, SweepEnds
<1>6. ASSUME \/ UNCHANGED vars
             \/ \E m \in Machines : MachineFallsSilent(m)
             \/ \E s \in Sessions : SessionFallsSilent(s)
      PROVE  UNCHANGED <<job, approval, mails, req, sweep>>
  BY <1>6 DEF vars, MachineFallsSilent, SessionFallsSilent
<1>. QED
  BY <1>3, <1>4, <1>5, <1>6 DEF Next

\* A user's request starts when the backend is quiet, and looks at the row then.
LEMMA Arrives ==
  ASSUME TypeOK, Overlap # "all", [Next]_vars, NEW q \in Reqs,
         req'[q].op \in UserOps, req[q].op \notin UserOps
  PROVE  /\ Quiet /\ UNCHANGED <<job, approval, sweep>> /\ \A r \in Reqs : r # q => req'[r] = req[r]
         /\ AsChecked(req'[q])
<1>1. PICK x : Park(q, x)
  BY OneSlot
<1>2. req'[q] = x /\ \A r \in Reqs : r # q => req'[r] = req[r]
  BY <1>1 DEF Park, TypeOK
<1>3. \A op \in UserOps : MayStart(op) => Quiet
  BY DEF MayStart
<1>4. ASSUME NEW u \in Users, CreateMatch(q, u)
      PROVE  Quiet /\ UNCHANGED <<job, approval, sweep>> /\ x.op = "create"
  BY <1>2, <1>3, <1>4 DEF CreateMatch, Starts, Park, UserOps, tables, TypeOK
<1>5. ASSUME NEW u \in Users, NEW j \in Jobs, StopCheck(q, u, j)
      PROVE  /\ Quiet /\ UNCHANGED <<job, approval, sweep>> /\ x.op = "stop" /\ x.job = j
             /\ CanStop(job[j].status)
  BY <1>2, <1>3, <1>5 DEF StopCheck, Starts, Park, UserOps, tables, TypeOK
<1>6. ASSUME NEW u \in Users, NEW j \in Jobs, ApproveCheck(q, u, j) \/ RejectCheck(q, u, j)
      PROVE  /\ Quiet /\ UNCHANGED <<job, approval, sweep>> /\ x.op \in {"approve", "reject"} /\ x.job = j
             /\ approval[j] = "pending"
             /\ job[j].status = "pending_approval" \/ (x.op = "reject" /\ job[j].status = "preempted")
  <2>1. CASE ApproveCheck(q, u, j)
    <3>1. Quiet /\ x = [op |-> "approve", job |-> j, user |-> u]
      BY <1>2, <1>3, <2>1 DEF ApproveCheck, Starts, Park, UserOps, TypeOK
    <3>. QED
      BY <2>1, <3>1 DEF ApproveCheck, MayDecide, tables
  <2>2. CASE RejectCheck(q, u, j)
    <3>1. Quiet /\ x = [op |-> "reject", job |-> j, user |-> u]
      BY <1>2, <1>3, <2>2 DEF RejectCheck, Starts, Park, UserOps, TypeOK
    <3>. QED
      BY <2>2, <3>1 DEF RejectCheck, MayDecide, tables
  <2>. QED
    BY <1>6, <2>1, <2>2
<1>7. ASSUME NEW r \in Reqs, r = q,
             \/ CreateCommit(r) \/ StopCommit(r) \/ ReportMissed(r) \/ EnqueueMail(r) \/ ApproveCommit(r) \/ RejectCommit(r)
             \/ ClaimCommit(r) \/ ClaimMissed(r) \/ IssueSession(r) \/ HeartbeatCommit(r) \/ RequestEnds(r)
             \/ (\E m \in Machines : Reclaim(r, m))
      PROVE  x = Idle
  BY <1>2, <1>7 DEF CreateCommit, StopCommit, ReportMissed, EnqueueMail, ApproveCommit, RejectCommit, Decide,
                    ClaimCommit, ClaimMissed, IssueSession, HeartbeatCommit, RequestEnds, Reclaim, Starts,
                    Done, Park, TypeOK
<1>8. ASSUME NEW r \in Reqs, r = q,
             \/ (\E j \in Jobs, to \in AgentReports : ReportCheck(r, j, to)) \/ ReportCommit(r) \/ ReportReread(r)
             \/ ReadTrust(r) \/ WriteBonus(r) \/ CountFailure(r)
             \/ (\E s \in Sessions : Authenticate(r, s)) \/ ClaimFind(r)
             \/ (\E m \in Machines : RegisterMachine(r, m)) \/ (\E reported \in {"idle", "running"} : HeartbeatRead(r, reported))
      PROVE  x.op \notin UserOps
  <2>1. ASSUME NEW y, Park(q, y) PROVE x = y
    BY <1>2, <2>1 DEF Park, TypeOK
  <2>2. CASE ReportCommit(q)
    BY <2>1, <2>2 DEF ReportCommit, UserOps
  <2>7. ASSUME NEW j \in Jobs, NEW to \in AgentReports, ReportCheck(q, j, to) PROVE x.op \notin UserOps
    BY <2>1, <2>7 DEF ReportCheck, UserOps
  <2>3. CASE ReportReread(q)
    BY <2>1, <2>3 DEF ReportReread, Done, UserOps, Idle
  <2>4. CASE ReadTrust(q) \/ WriteBonus(q) \/ CountFailure(q)
    BY <2>1, <2>4 DEF ReadTrust, WriteBonus, CountFailure, UserOps
  <2>5. CASE ClaimFind(q)
    <3>1. PICK j : Park(q, [op |-> "claim", machine |-> req[q].machine, job |-> j])
      BY <2>5 DEF ClaimFind
    <3>. QED
      BY <2>1, <3>1 DEF UserOps
  <2>6. ASSUME NEW s \in Sessions, Authenticate(q, s) PROVE x.op \notin UserOps
    BY <2>1, <2>6 DEF Authenticate, Starts, UserOps
  <2>8. ASSUME NEW m \in Machines, RegisterMachine(q, m) PROVE x.op \notin UserOps
    BY <2>1, <2>8 DEF RegisterMachine, Starts, UserOps
  <2>9. ASSUME NEW reported, HeartbeatRead(q, reported) PROVE x.op \notin UserOps
    BY <2>1, <2>9 DEF HeartbeatRead, UserOps
  <2>. QED
    BY <1>8, <2>2, <2>3, <2>4, <2>5, <2>6, <2>7, <2>8, <2>9
<1>9. ASSUME NEW r \in Reqs, r # q,
             JobRoutesNext(r) \/ ApprovalRoutesNext(r) \/ AgentRoutesNext(r) \/ MachineRoutesNext(r) \/ RequestEnds(r)
      PROVE  req'[q] = req[q]
  <2>1. UNCHANGED req \/ \E y : Park(r, y)
    BY <1>9 DEF JobRoutesNext, CreateMatch, CreateCommit, StopCheck, StopCommit, ReportCheck, ReportCommit,
              ReportMissed, ReportReread, ReadTrust, WriteBonus, CountFailure, EnqueueMail, Starts, Done,
              ApprovalRoutesNext, ApproveCheck, RejectCheck, ApproveCommit, RejectCommit, Decide,
              AgentRoutesNext, Authenticate, ClaimFind, ClaimCommit, ClaimMissed,
              MachineRoutesNext, RegisterMachine, IssueSession, HeartbeatRead, HeartbeatCommit, Reclaim,
              RequestEnds
  <2>. QED
    BY <1>9, <2>1 DEF Park, TypeOK
<1>10. ASSUME \/ UNCHANGED vars
              \/ \E w \in Sweeps : SweeperNext(w) \/ SweepEnds(w)
              \/ \E m \in Machines : MachineFallsSilent(m)
              \/ \E s \in Sessions : SessionFallsSilent(s)
       PROVE  req'[q] = req[q]
  BY <1>10 DEF vars, SweeperNext, SweepStart, SweepMachine, SweepFindOrphans, SweepOrphans, SweepSessions,
               SweepEnds, MachineFallsSilent, SessionFallsSilent
<1>11. Idle.op = "idle" /\ "idle" \notin UserOps
  BY DEF Idle, UserOps
<1>. QED
  BY <1>2, <1>4, <1>5, <1>6, <1>7, <1>8, <1>9, <1>10, <1>11
     DEF AsChecked, Next, JobRoutesNext, ApprovalRoutesNext, AgentRoutesNext, MachineRoutesNext

LEMMA ExclusiveStep ==
  ASSUME TypeOK, Overlap # "all", Exclusive, Fresh, [Next]_vars
  PROVE  Exclusive' /\ Fresh'
<1>. SUFFICES ASSUME NEW q \in Reqs, req'[q].op \in UserOps
              PROVE  /\ \A r \in Reqs : r # q => req'[r] = Idle
                     /\ \A w \in Sweeps : sweep'[w] = Idle
                     /\ AsChecked(req[q])'
  BY DEF Exclusive, Fresh, AsChecked, UserOps
<1>1. CASE req[q].op \in UserOps
  <2>1. ~Done(q)
    BY DEF Done, Park, TypeOK, Idle, UserOps
  <2>2. UNCHANGED <<job, approval, req, sweep>>
    BY <1>1, <2>1, Solo
  <2>. QED
    BY <1>1, <2>2 DEF Exclusive, Fresh, AsChecked
<1>2. CASE req[q].op \notin UserOps
  <2>1. Quiet /\ UNCHANGED <<job, approval, sweep>> /\ \A r \in Reqs : r # q => req'[r] = req[r]
    BY <1>2, Arrives
  <2>2. AsChecked(req'[q])
    BY <1>2, Arrives
  <2>3. AsChecked(req[q])'
    BY <2>1, <2>2 DEF AsChecked
  <2>. QED
    BY <2>1, <2>3 DEF Quiet
<1>. QED
  BY <1>1, <1>2

-----------------------------------------------------------------------------
(* A result is final.                                                       *)

LEMMA EndedStays ==
  ASSUME TypeOK, Safe, Fresh, [Next]_vars, NEW j \in Jobs, job[j].status \in {"completed", "failed"}
  PROVE  job'[j].status = job[j].status
<1>. USE DEF TypeOK
<1>0. job[j] \in JobRow
  OBVIOUS
<1>1. ASSUME NEW r \in Reqs, CreateCommit(r) PROVE job'[j] = job[j]
  <2>1. PICK k \in Jobs : /\ \A i \in Jobs : (job[i].status = "absent") <=> (i >= k)
                          /\ \E row : job' = [job EXCEPT ![k] = row]
    BY <1>1 DEF CreateCommit
  <2>2. j # k
    BY <2>1, JobsAssumption
  <2>. QED
    BY <2>1, <2>2
<1>2. ASSUME NEW r \in Reqs, StopCommit(r) \/ ApproveCommit(r) \/ RejectCommit(r) PROVE job'[j] = job[j]
  <2>1. req[r].op \in {"approve", "reject", "stop"} /\ req[r].job # j
    BY <1>2 DEF StopCommit, ApproveCommit, RejectCommit, Fresh, AsChecked, CanStop, IsTerminal, Terminal
  <2>. QED
    BY <1>2, <2>1 DEF StopCommit, ApproveCommit, RejectCommit, Decide
<1>3. ASSUME NEW r \in Reqs, ReportCommit(r) PROVE job'[j] = job[j]
  <2>1. req[r].job # j
    BY <1>3 DEF ReportCommit, ReportApplies, Safe, RequestsSound, Sound, IsTerminal, Terminal
  <2>. QED
    BY <1>3, <2>1 DEF ReportCommit
<1>4. ASSUME NEW r \in Reqs, ClaimCommit(r) PROVE job'[j] = job[j]
  <2>1. req[r].job # j
    BY <1>4 DEF ClaimCommit, ClaimApplies, Claimable
  <2>. QED
    BY <1>4, <2>1 DEF ClaimCommit
<1>5. ASSUME NEW r \in Reqs, HeartbeatCommit(r) \/ \E m \in Machines : Reclaim(r, m)
      PROVE  job'[j].status = job[j].status
  <2>1. CASE HeartbeatCommit(r)
    BY <1>0, <2>1 DEF HeartbeatCommit, JobRow
  <2>2. ASSUME NEW m \in Machines, Reclaim(r, m) PROVE job'[j] = job[j]
    BY <2>2 DEF Reclaim, Reclaimable, Active
  <2>. QED
    BY <1>5, <2>1, <2>2
<1>6. ASSUME NEW js, \A i \in js : job[i].status \in Active, FailJobs(js) PROVE job'[j] = job[j]
  BY <1>6 DEF FailJobs, Active
<1>7. ASSUME NEW w \in Sweeps, SweepMachine(w) PROVE job'[j] = job[j]
  <2>1. PICK d \in sweep[w].dead : FailJobs(StillActive(d.jobs))
    BY <1>7 DEF SweepMachine
  <2>. QED
    BY <1>6, <2>1 DEF StillActive
<1>8. ASSUME NEW w \in Sweeps, SweepOrphans(w) PROVE job'[j] = job[j]
  BY <1>6, <1>8 DEF SweepOrphans
<1>. QED
  BY <1>1, <1>2, <1>3, <1>4, <1>5, <1>7, <1>8
     DEF Next, JobRoutesNext, CreateMatch, StopCheck, ReportCheck, ReportMissed, ReportReread, ReadTrust,
         WriteBonus, CountFailure, EnqueueMail, ApprovalRoutesNext, ApproveCheck, RejectCheck,
         AgentRoutesNext, Authenticate, ClaimFind, ClaimMissed, MachineRoutesNext, RegisterMachine,
         IssueSession, HeartbeatRead, SweeperNext, SweepStart, SweepFindOrphans, SweepSessions,
         RequestEnds, SweepEnds, MachineFallsSilent, SessionFallsSilent, tables, vars

Steady == TypeOK /\ Safe /\ Exclusive /\ Fresh

LEMMA SteadyInit == Init => Steady
<1>1. Init => Exclusive /\ Fresh
  BY DEF Init, Exclusive, Fresh, AsChecked, Idle, UserOps
<1>. QED
  BY <1>1, TypeInit, SafeInit DEF Steady

LEMMA SteadyCorrect == ASSUME Overlap # "all" PROVE Spec => []Steady
<1>1. TypeOK /\ Safe /\ Exclusive /\ Fresh /\ [Next]_vars => (Exclusive /\ Fresh)'
  BY ExclusiveStep
<1>2. Init => Exclusive /\ Fresh
  BY SteadyInit DEF Steady
<1>. QED
  BY <1>1, <1>2, TypeCorrect, SafeCorrect, PTL DEF Spec, Steady

\* A result stays what the agent or the sweeper made it, as long as no user's request
\* is parked between its check and its write meanwhile: a late write by id, as that of
\* POST /jobs/:id/stop (jobs.routes.ts:515), is how one is lost (run StopRace).
THEOREM ResultFinalCorrect == ASSUME Overlap # "all" PROVE Spec => ResultFinal
<1> DEFINE Final == \A j \in Ended : job'[j].status = job[j].status
<1>1. Steady /\ [Next]_vars => [Final]_vars
  BY EndedStays DEF Steady, Ended
<1>2. Spec => [][Final]_vars
  BY <1>1, SteadyCorrect, PTL DEF Spec
<1>. QED
  BY <1>2 DEF ResultFinal

-----------------------------------------------------------------------------
(* One mail.                                                                *)

\* The request whose report ended job j, until it has queued the mail.
Mailing(r, j) ==
    /\ req[r].op \in {"reread", "credit", "bonus", "mail"}
    /\ req[r].job = j
    /\ req[r].op = "reread" => req[r].to \in {"completed", "failed"}

\* The right to mail of j is one request's, and used up by one mail.
MailRight ==
    \A j \in Jobs :
        /\ \A r \in Reqs : Mailing(r, j) => job[j].status \in {"completed", "failed"} /\ mails[j] = 0
        /\ \A q, r \in Reqs : Mailing(q, j) /\ Mailing(r, j) => q = r
        /\ mails[j] > 0 => job[j].status \in {"completed", "failed"}
        /\ mails[j] <= 1

\* It is won by the report that ends the job, which no other request had done.
LEMMA MailingWon ==
  ASSUME TypeOK, Safe, [Next]_vars, NEW q \in Reqs, NEW j \in Jobs, Mailing(q, j)', ~Mailing(q, j)
  PROVE  /\ job[j].status \notin {"completed", "failed"}
         /\ job'[j].status \in {"completed", "failed"}
         /\ mails' = mails /\ \A r \in Reqs : r # q => req'[r] = req[r]
<1>. USE DEF TypeOK
<1>0. req'[q] # req[q]
  BY DEF Mailing
<1>1. PICK x : Park(q, x)
  BY <1>0, OneSlot
<1>2. req'[q] = x /\ \A r \in Reqs : r # q => req'[r] = req[r]
  BY <1>1 DEF Park
<1>3. ASSUME NEW r \in Reqs, NEW y, Park(r, y) PROVE r = q /\ x = y
  BY <1>0, <1>2, <1>3 DEF Park
<1>4. ASSUME NEW r \in Reqs, Done(r) PROVE FALSE
  BY <1>2, <1>3, <1>4 DEF Done, Mailing, Idle
<1>5. ASSUME NEW r \in Reqs, ReportCommit(r)
      PROVE  /\ job[j].status \notin {"completed", "failed"}
             /\ job'[j].status \in {"completed", "failed"} /\ mails' = mails
  <2>1. r = q /\ x = [op |-> "reread", job |-> req[r].job, to |-> req[r].to]
    BY <1>3, <1>5 DEF ReportCommit
  <2>2. req[r].job = j /\ req[r].to \in {"completed", "failed"}
    BY <1>2, <2>1 DEF Mailing
  <2>3. job[j] \in JobRow
    OBVIOUS
  <2>. QED
    BY <1>5, <2>2, <2>3 DEF ReportCommit, ReportApplies, Safe, RequestsSound, Sound, IsTerminal, Terminal, JobRow
<1>6. ASSUME NEW r \in Reqs, ReportReread(r) PROVE FALSE
  <2>1. \E m : /\ req[r].op = "reread" /\ req[r].to \in {"completed", "failed"}
               /\ Park(r, [op |-> "credit", job |-> req[r].job, machine |-> m, to |-> req[r].to])
    BY <1>4, <1>6 DEF ReportReread
  <2>. QED
    BY <1>2, <1>3, <2>1 DEF Mailing
<1>7. ASSUME NEW r \in Reqs, ReadTrust(r) \/ WriteBonus(r) \/ CountFailure(r) PROVE FALSE
  <2>1. req[r].op \in {"credit", "bonus"} /\ \E y : Park(r, y) /\ y.job = req[r].job
    BY <1>7 DEF ReadTrust, WriteBonus, CountFailure
  <2>. QED
    BY <1>2, <1>3, <2>1 DEF Mailing
<1>8. ASSUME NEW r \in Reqs, NEW y, Park(r, y), y.op \notin {"reread", "credit", "bonus", "mail"} PROVE FALSE
  BY <1>2, <1>3, <1>8 DEF Mailing
<1>9. ASSUME NEW r \in Reqs,
             JobRoutesNext(r), ~ReportCommit(r), ~ReportReread(r), ~(ReadTrust(r) \/ WriteBonus(r) \/ CountFailure(r))
      PROVE  FALSE
  BY <1>4, <1>8, <1>9 DEF JobRoutesNext, CreateMatch, CreateCommit, StopCheck, StopCommit, ReportCheck,
                          ReportMissed, EnqueueMail, Starts
<1>10. ASSUME NEW r \in Reqs, ApprovalRoutesNext(r) PROVE FALSE
  BY <1>4, <1>8, <1>10 DEF ApprovalRoutesNext, ApproveCheck, RejectCheck, ApproveCommit, RejectCommit, Decide, Starts
<1>11. ASSUME NEW r \in Reqs, AgentRoutesNext(r) PROVE FALSE
  BY <1>4, <1>8, <1>11 DEF AgentRoutesNext, Authenticate, ClaimFind, ClaimCommit, ClaimMissed, Starts
<1>12. ASSUME NEW r \in Reqs, MachineRoutesNext(r) PROVE FALSE
  BY <1>4, <1>8, <1>12 DEF MachineRoutesNext, RegisterMachine, IssueSession, HeartbeatRead, HeartbeatCommit,
                           Reclaim, Starts, Done
<1>13. ASSUME \/ UNCHANGED vars
              \/ \E w \in Sweeps : SweeperNext(w) \/ SweepEnds(w)
              \/ \E m \in Machines : MachineFallsSilent(m)
              \/ \E s \in Sessions : SessionFallsSilent(s)
       PROVE  FALSE
  BY <1>0, <1>13 DEF vars, SweeperNext, SweepStart, SweepMachine, SweepFindOrphans, SweepOrphans, SweepSessions,
               SweepEnds, MachineFallsSilent, SessionFallsSilent
<1>. QED
  BY <1>2, <1>4, <1>5, <1>6, <1>7, <1>9, <1>10, <1>11, <1>12, <1>13 DEF Next, RequestEnds

\* It is used by the mail, and then lost.
LEMMA MailingUsed ==
  ASSUME TypeOK, [Next]_vars, NEW j \in Jobs, mails'[j] # mails[j]
  PROVE  /\ mails'[j] = mails[j] + 1 /\ UNCHANGED <<job, approval>>
         /\ \E r \in Reqs : Mailing(r, j) /\ ~Mailing(r, j)' /\ \A q \in Reqs : q # r => req'[q] = req[q]
<1>1. ASSUME NEW r \in Reqs, EnqueueMail(r)
      PROVE  /\ mails'[j] = mails[j] + 1 /\ UNCHANGED <<job, approval>>
             /\ Mailing(r, j) /\ ~Mailing(r, j)' /\ \A q \in Reqs : q # r => req'[q] = req[q]
  <2>1. req[r].job = j /\ mails'[j] = mails[j] + 1
    BY <1>1 DEF EnqueueMail, TypeOK
  <2>2. req'[r] = Idle /\ \A q \in Reqs : q # r => req'[q] = req[q]
    BY <1>1 DEF EnqueueMail, Done, Park, TypeOK
  <2>. QED
    BY <1>1, <2>1, <2>2 DEF EnqueueMail, Mailing, Idle
<1>2. ASSUME NEW r \in Reqs, JobRoutesNext(r) PROVE EnqueueMail(r)
  BY <1>2 DEF JobRoutesNext, CreateMatch, CreateCommit, StopCheck, StopCommit, ReportCheck, ReportCommit,
              ReportMissed, ReportReread, ReadTrust, WriteBonus, CountFailure, tables
<1>3. ASSUME NEW r \in Reqs, ApprovalRoutesNext(r) \/ AgentRoutesNext(r) \/ MachineRoutesNext(r) \/ RequestEnds(r)
      PROVE  FALSE
  BY <1>3 DEF ApprovalRoutesNext, ApproveCheck, RejectCheck, ApproveCommit, RejectCommit, Decide,
              AgentRoutesNext, Authenticate, ClaimFind, ClaimCommit, ClaimMissed,
              MachineRoutesNext, RegisterMachine, IssueSession, HeartbeatRead, HeartbeatCommit, Reclaim,
              RequestEnds, tables
<1>4. ASSUME \/ UNCHANGED vars
             \/ \E w \in Sweeps : SweeperNext(w) \/ SweepEnds(w)
             \/ \E m \in Machines : MachineFallsSilent(m)
             \/ \E s \in Sessions : SessionFallsSilent(s)
      PROVE  FALSE
  BY <1>4 DEF vars, SweeperNext, SweepStart, SweepMachine, SweepFindOrphans, SweepOrphans, SweepSessions,
              SweepEnds, MachineFallsSilent, SessionFallsSilent, tables
<1>. QED
  BY <1>1, <1>2, <1>3, <1>4 DEF Next

LEMMA MailRightStep ==
  ASSUME Steady, MailRight, [Next]_vars
  PROVE  MailRight'
<1>. SUFFICES ASSUME NEW j \in Jobs
              PROVE  /\ \A r \in Reqs : Mailing(r, j)' => job'[j].status \in {"completed", "failed"} /\ mails'[j] = 0
                     /\ \A q, r \in Reqs : Mailing(q, j)' /\ Mailing(r, j)' => q = r
                     /\ mails'[j] > 0 => job'[j].status \in {"completed", "failed"}
                     /\ mails'[j] <= 1
  BY DEF MailRight
<1>. USE DEF Steady
<1>1. /\ \A r \in Reqs : Mailing(r, j) => job[j].status \in {"completed", "failed"} /\ mails[j] = 0
      /\ \A q, r \in Reqs : Mailing(q, j) /\ Mailing(r, j) => q = r
      /\ mails[j] > 0 => job[j].status \in {"completed", "failed"}
      /\ mails[j] \in Nat /\ mails[j] <= 1
  BY DEF MailRight, TypeOK
<1>2. job[j].status \in {"completed", "failed"} => job'[j].status = job[j].status
  BY EndedStays
<1>3. CASE mails'[j] # mails[j]
  <2>1. PICK r \in Reqs : Mailing(r, j) /\ ~Mailing(r, j)' /\ \A q \in Reqs : q # r => req'[q] = req[q]
    BY <1>3, MailingUsed
  <2>2. \A q \in Reqs : ~Mailing(q, j)'
    BY <1>1, <2>1 DEF Mailing
  <2>3. mails'[j] = 1
    BY <1>1, <1>3, <2>1, MailingUsed
  <2>. QED
    BY <1>1, <1>2, <2>1, <2>2, <2>3
<1>4. ASSUME mails'[j] = mails[j], NEW q \in Reqs, Mailing(q, j)', ~Mailing(q, j)
      PROVE  /\ \A r \in Reqs : Mailing(r, j)' => r = q
             /\ job'[j].status \in {"completed", "failed"} /\ mails'[j] = 0
  <2>1. /\ job[j].status \notin {"completed", "failed"} /\ job'[j].status \in {"completed", "failed"}
        /\ \A r \in Reqs : r # q => req'[r] = req[r]
    BY <1>4, MailingWon
  <2>2. mails[j] = 0 /\ \A r \in Reqs : ~Mailing(r, j)
    BY <1>1, <2>1
  <2>3. \A r \in Reqs : r # q => ~Mailing(r, j)'
    BY <2>1, <2>2 DEF Mailing
  <2>. QED
    BY <1>4, <2>1, <2>2, <2>3
<1>5. CASE mails'[j] = mails[j] /\ \A q \in Reqs : Mailing(q, j)' => Mailing(q, j)
  BY <1>1, <1>2, <1>5
<1>6. CASE mails'[j] = mails[j] /\ \E q \in Reqs : Mailing(q, j)' /\ ~Mailing(q, j)
  BY <1>4, <1>6
<1>. QED
  BY <1>3, <1>5, <1>6

\* The requester of a job gets one mail about its result at most, and none about a job
\* without one, however often the end is reported and whatever breaks off on the way
\* (jobs.routes.ts:561-565), as long as the requests of users overlap nothing.
THEOREM MailedOnceCorrect == ASSUME Overlap # "all" PROVE Spec => []MailedOnce
<1>1. Init => MailRight
  BY DEF Init, MailRight, Mailing, Idle
<1>2. Steady /\ MailRight /\ [Next]_vars => MailRight'
  BY MailRightStep
<1>3. TypeOK /\ MailRight => MailedOnce
  BY DEF TypeOK, MailRight, MailedOnce, Ended
<1>. QED
  BY <1>1, <1>2, <1>3, SteadyCorrect, PTL DEF Spec, Steady

-----------------------------------------------------------------------------
(* One count.                                                               *)

\* The request that may still count the end of job j on a machine, and the end it has
\* in its hand.
Crediting(r, j) == Mailing(r, j) /\ req[r].op # "mail"
InHand(r)       == IF req[r].op = "bonus" THEN "completed" ELSE req[r].to

\* It counts the end that the row has.
CreditsEnd == \A r \in Reqs, j \in Jobs : Crediting(r, j) => job[j].status = InHand(r)

\* An orphan is listed with one machine.
OrphansOnce ==
    \A w \in Sweeps : sweep[w].op = "orphans"
        => \A o, p \in sweep[w].orphans : o.job = p.job => o = p

\* A charge as in CountedOnce, which leaves out the jobs that are still to be counted.
Ledger(charge) ==
    /\ charge \in [Jobs -> Machines \cup {None}]
    /\ \A j \in Jobs : charge[j] # None => /\ job[j].status \in {"completed", "failed"}
                                           /\ \A r \in Reqs : ~Crediting(r, j)
    /\ \A m \in Machines :
          /\ machine[m].completed = Cardinality(ChargedTo(charge, m, "completed"))
          /\ machine[m].failed    = Cardinality(ChargedTo(charge, m, "failed"))

Counts == CreditsEnd /\ OrphansOnce /\ \E charge : Ledger(charge)

\* A job that is still to be counted was so before, or has just ended.
LEMMA CreditMoves ==
  ASSUME TypeOK, [Next]_vars, NEW q \in Reqs, NEW j \in Jobs, Crediting(q, j)'
  PROVE  \/ Crediting(q, j) /\ InHand(q)' = InHand(q)
         \/ ~Mailing(q, j) /\ InHand(q)' = job'[j].status
<1>. USE DEF TypeOK
<1>1. CASE req'[q] = req[q]
  BY <1>1 DEF Crediting, Mailing, InHand
<1>2. CASE req'[q] # req[q]
  <2>1. PICK x : Park(q, x)
    BY <1>2, OneSlot
  <2>2. req'[q] = x
    BY <2>1 DEF Park
  <2>3. ASSUME NEW r \in Reqs, NEW y, Park(r, y) PROVE r = q /\ x = y
    BY <1>2, <2>2, <2>3 DEF Park
  <2>4. ASSUME NEW r \in Reqs, Done(r) PROVE FALSE
    BY <2>2, <2>3, <2>4 DEF Done, Crediting, Mailing, Idle
  <2>5. ASSUME NEW r \in Reqs, ReportCommit(r) PROVE ~Mailing(q, j) /\ InHand(q)' = job'[j].status
    <3>1. r = q /\ x = [op |-> "reread", job |-> req[q].job, to |-> req[q].to]
      BY <2>3, <2>5 DEF ReportCommit
    <3>2. req[q].job = j /\ InHand(q)' = req[q].to
      BY <2>2, <3>1 DEF Crediting, Mailing, InHand
    <3>3. job[j] \in JobRow
      OBVIOUS
    <3>. QED
      BY <2>5, <3>1, <3>2, <3>3 DEF ReportCommit, Mailing, JobRow
  <2>6. ASSUME NEW r \in Reqs, ReportReread(r) PROVE Crediting(q, j) /\ InHand(q)' = InHand(q)
    <3>1. \E m : /\ req[r].op = "reread" /\ req[r].to \in {"completed", "failed"}
                 /\ Park(r, [op |-> "credit", job |-> req[r].job, machine |-> m, to |-> req[r].to])
      BY <2>4, <2>6 DEF ReportReread
    <3>. QED
      BY <2>2, <2>3, <3>1 DEF Crediting, Mailing, InHand
  <2>7. ASSUME NEW r \in Reqs, ReadTrust(r) PROVE Crediting(q, j) /\ InHand(q)' = InHand(q)
    <3>1. r = q /\ x.op = "bonus" /\ x.job = req[q].job /\ req[q].op = "credit" /\ req[q].to = "completed"
      BY <2>3, <2>7 DEF ReadTrust
    <3>. QED
      BY <2>2, <3>1 DEF Crediting, Mailing, InHand
  <2>8. ASSUME NEW r \in Reqs, NEW y, Park(r, y), y.op \notin {"reread", "credit", "bonus"} PROVE FALSE
    BY <2>2, <2>3, <2>8 DEF Crediting, Mailing
  <2>9. ASSUME NEW r \in Reqs, JobRoutesNext(r), ~ReportCommit(r), ~ReportReread(r), ~ReadTrust(r) PROVE FALSE
    BY <2>4, <2>8, <2>9 DEF JobRoutesNext, CreateMatch, CreateCommit, StopCheck, StopCommit, ReportCheck,
                            ReportMissed, WriteBonus, CountFailure, EnqueueMail, Starts
  <2>10. ASSUME NEW r \in Reqs, ApprovalRoutesNext(r) PROVE FALSE
    BY <2>4, <2>8, <2>10 DEF ApprovalRoutesNext, ApproveCheck, RejectCheck, ApproveCommit, RejectCommit,
                             Decide, Starts
  <2>11. ASSUME NEW r \in Reqs, AgentRoutesNext(r) PROVE FALSE
    BY <2>4, <2>8, <2>11 DEF AgentRoutesNext, Authenticate, ClaimFind, ClaimCommit, ClaimMissed, Starts
  <2>12. ASSUME NEW r \in Reqs, MachineRoutesNext(r) PROVE FALSE
    BY <2>4, <2>8, <2>12 DEF MachineRoutesNext, RegisterMachine, IssueSession, HeartbeatRead, HeartbeatCommit,
                             Reclaim, Starts, Done
  <2>13. ASSUME \/ UNCHANGED vars
                \/ \E w \in Sweeps : SweeperNext(w) \/ SweepEnds(w)
                \/ \E m \in Machines : MachineFallsSilent(m)
                \/ \E s \in Sessions : SessionFallsSilent(s)
         PROVE  FALSE
    BY <1>2, <2>13 DEF vars, SweeperNext, SweepStart, SweepMachine, SweepFindOrphans, SweepOrphans,
                       SweepSessions, SweepEnds, MachineFallsSilent, SessionFallsSilent
  <2>. QED
    BY <2>4, <2>5, <2>6, <2>7, <2>9, <2>10, <2>11, <2>12, <2>13 DEF Next, RequestEnds
<1>. QED
  BY <1>1, <1>2

LEMMA CreditsEndStep ==
  ASSUME Steady, MailRight, CreditsEnd, [Next]_vars
  PROVE  CreditsEnd'
<1>. SUFFICES ASSUME NEW q \in Reqs, NEW j \in Jobs, Crediting(q, j)'
              PROVE  job'[j].status = InHand(q)'
  BY DEF CreditsEnd
<1>1. CASE Crediting(q, j) /\ InHand(q)' = InHand(q)
  <2>1. job[j].status = InHand(q) /\ job[j].status \in {"completed", "failed"}
    BY <1>1 DEF CreditsEnd, MailRight, Crediting
  <2>2. job'[j].status = job[j].status
    BY <2>1, EndedStays DEF Steady
  <2>. QED
    BY <1>1, <2>1, <2>2
<1>. QED
  BY <1>1, CreditMoves DEF Steady

LEMMA OrphansOnceStep ==
  ASSUME TypeOK, OrphansOnce, [Next]_vars
  PROVE  OrphansOnce'
<1>. USE DEF TypeOK
<1>1. ASSUME NEW w \in Sweeps, NEW x, Stage(w, x),
             x.op = "orphans" => \A o, p \in x.orphans : o.job = p.job => o = p
      PROVE  OrphansOnce'
  BY <1>1 DEF OrphansOnce, Stage
<1>2. ASSUME UNCHANGED sweep PROVE OrphansOnce'
  BY <1>2 DEF OrphansOnce
<1>3. ASSUME NEW w \in Sweeps, SweepFindOrphans(w) PROVE OrphansOnce'
  <2>1. \A o, p \in Orphans : o.job = p.job => o = p
    BY DEF Orphans, Orphan, ActiveOn
  <2>. QED
    BY <1>1, <1>3, <2>1 DEF SweepFindOrphans
<1>4. ASSUME NEW w \in Sweeps, SweeperNext(w) \/ SweepEnds(w), ~SweepFindOrphans(w) PROVE OrphansOnce'
  <2>1. CASE SweepStart(w) \/ SweepMachine(w)
    <3>1. \E dead : Stage(w, [op |-> "dead", dead |-> dead])
      BY <2>1 DEF SweepStart, SweepMachine
    <3>. QED
      BY <1>1, <3>1
  <2>2. CASE SweepOrphans(w) \/ SweepSessions(w) \/ SweepEnds(w)
    BY <1>1, <2>2 DEF SweepOrphans, SweepSessions, SweepEnds, Idle
  <2>. QED
    BY <1>4, <2>1, <2>2 DEF SweeperNext
<1>5. ASSUME NEW r \in Reqs, Handles(r) PROVE UNCHANGED sweep
  BY <1>5, HandlesOne
<1>6. ASSUME Time PROVE UNCHANGED sweep
  BY <1>6 DEF Time, vars, MachineFallsSilent, SessionFallsSilent
<1>. QED
  BY <1>2, <1>3, <1>4, <1>5, <1>6 DEF Next, Handles, Time

\* A step that counts the ends of `new`, each on one machine, keeps the ledger.
LEMMA LedgerStep ==
  ASSUME Steady, MailRight, [Next]_vars, NEW charge, Ledger(charge),
         NEW new \in [Jobs -> Machines \cup {None}],
         \A j \in Jobs : new[j] # None
             => /\ charge[j] = None /\ job'[j].status \in {"completed", "failed"}
                /\ \A r \in Reqs : ~Crediting(r, j)',
         \A m \in Machines :
             /\ machine'[m].completed = machine[m].completed + Cardinality(ChargedTo(new, m, "completed")')
             /\ machine'[m].failed    = machine[m].failed    + Cardinality(ChargedTo(new, m, "failed")')
  PROVE  \E all : Ledger(all)'
<1>. DEFINE all == [j \in Jobs |-> IF new[j] # None THEN new[j] ELSE charge[j]]
<1>1. /\ charge \in [Jobs -> Machines \cup {None}]
      /\ \A j \in Jobs : charge[j] # None => /\ job[j].status \in {"completed", "failed"}
                                             /\ \A r \in Reqs : ~Crediting(r, j)
      /\ \A m \in Machines :
            /\ machine[m].completed = Cardinality(ChargedTo(charge, m, "completed"))
            /\ machine[m].failed    = Cardinality(ChargedTo(charge, m, "failed"))
  BY DEF Ledger
<1>2. \A j \in Jobs : charge[j] # None => job'[j].status = job[j].status
  BY <1>1, EndedStays DEF Steady
<1>3. ASSUME NEW j \in Jobs, charge[j] # None, NEW r \in Reqs PROVE ~Crediting(r, j)'
  <2>1. job[j].status \in {"completed", "failed"} /\ ~Crediting(r, j)
    BY <1>1, <1>3
  <2>2. ~Mailing(r, j)' \/ Mailing(r, j)
    BY <2>1, MailingWon DEF Steady
  <2>. QED
    BY <2>1, <2>2, CreditMoves DEF Steady, Crediting
<1>4. ASSUME NEW m \in Machines, NEW end
      PROVE  Cardinality(ChargedTo(all, m, end)')
               = Cardinality(ChargedTo(charge, m, end)) + Cardinality(ChargedTo(new, m, end)')
  <2>. DEFINE old   == ChargedTo(charge, m, end)
              added == {j \in Jobs : new[j] = m /\ job'[j].status = end}
  <2>1. m # None
    BY NoneAssumption
  <2>2. {j \in Jobs : all[j] = m /\ job'[j].status = end} = old \cup added
    BY <1>2, <2>1 DEF ChargedTo
  <2>3. old \cap added = {}
    BY <2>1 DEF ChargedTo
  <2>4. old \in SUBSET Jobs /\ added \in SUBSET Jobs
    BY DEF ChargedTo
  <2>5. IsFiniteSet(old) /\ IsFiniteSet(added)
    <3>. HIDE DEF old, added
    <3>. QED
      BY <2>4, JobsAssumption, FS_Subset
  <2>6. Cardinality(old) \in Nat /\ Cardinality(added) \in Nat
    <3>. HIDE DEF old, added
    <3>. QED
      BY <2>5, FS_CardinalityType
  <2>7. Cardinality(old \cup added) = Cardinality(old) + Cardinality(added)
    <3>. HIDE DEF old, added
    <3>1. Cardinality(old \cup added) = Cardinality(old) + Cardinality(added) - Cardinality({})
      BY <2>3, <2>5, FS_Union
    <3>. QED
      BY <2>6, <3>1, FS_EmptySet
  <2>. QED
    BY <2>2, <2>7 DEF ChargedTo
<1>5. Ledger(all)'
  <2>1. all \in [Jobs -> Machines \cup {None}]
    BY <1>1
  <2>2. ASSUME NEW j \in Jobs, all[j] # None
        PROVE  job'[j].status \in {"completed", "failed"} /\ \A r \in Reqs : ~Crediting(r, j)'
    BY <1>1, <1>2, <1>3, <2>2
  <2>3. ASSUME NEW m \in Machines
        PROVE  /\ machine'[m].completed = Cardinality(ChargedTo(all, m, "completed")')
               /\ machine'[m].failed    = Cardinality(ChargedTo(all, m, "failed")')
    <3>. HIDE DEF all
    <3>. QED
      BY <1>1, <1>4
  <2>. HIDE DEF all
  <2>. QED
    BY <2>1, <2>2, <2>3 DEF Ledger
<1>. QED
  BY <1>5

LEMMA CountersKept ==
  ASSUME TypeOK, [Next]_vars, NEW m \in Machines,
         \A r \in Reqs : ~WriteBonus(r) /\ ~CountFailure(r),
         \A w \in Sweeps : ~SweepMachine(w) /\ ~SweepOrphans(w)
  PROVE  machine'[m].completed = machine[m].completed /\ machine'[m].failed = machine[m].failed
<1>. USE DEF TypeOK
<1>0. \A n \in Machines : machine[n] \in MachineRow
  OBVIOUS
<1>1. ASSUME NEW r \in Reqs, JobRoutesNext(r) PROVE UNCHANGED machine
  BY <1>1 DEF JobRoutesNext, CreateMatch, CreateCommit, StopCheck, StopCommit, ReportCheck,
         ReportCommit, ReportMissed, ReportReread, ReadTrust, EnqueueMail, tables
<1>2. ASSUME NEW r \in Reqs, ApprovalRoutesNext(r) \/ AgentRoutesNext(r) \/ RequestEnds(r) PROVE UNCHANGED machine
  BY <1>2 DEF ApprovalRoutesNext, ApproveCheck, RejectCheck, ApproveCommit, RejectCommit, Decide,
         AgentRoutesNext, Authenticate, ClaimFind, ClaimCommit, ClaimMissed, RequestEnds, tables
<1>3. ASSUME NEW r \in Reqs, MachineRoutesNext(r)
      PROVE  machine'[m].completed = machine[m].completed /\ machine'[m].failed = machine[m].failed
  <2>1. ASSUME NEW n \in Machines, RegisterMachine(r, n)
        PROVE  machine'[m].completed = machine[m].completed /\ machine'[m].failed = machine[m].failed
    BY <1>0, <2>1 DEF RegisterMachine, MachineRow
  <2>2. CASE HeartbeatCommit(r)
    BY <1>0, <2>2 DEF HeartbeatCommit, MachineRow
  <2>. QED
    BY <1>3, <2>1, <2>2 DEF MachineRoutesNext, IssueSession, HeartbeatRead, Reclaim, tables
<1>4. ASSUME NEW w \in Sweeps, SweeperNext(w) \/ SweepEnds(w) PROVE UNCHANGED machine
  BY <1>4 DEF SweeperNext, SweepStart, SweepFindOrphans, SweepSessions, SweepEnds, tables
<1>5. ASSUME Time
      PROVE  machine'[m].completed = machine[m].completed /\ machine'[m].failed = machine[m].failed
  <2>1. ASSUME NEW n \in Machines, MachineFallsSilent(n)
        PROVE  machine'[m].completed = machine[m].completed /\ machine'[m].failed = machine[m].failed
    BY <1>0, <2>1 DEF MachineFallsSilent, MachineRow
  <2>. QED
    BY <1>5, <2>1 DEF Time, vars, SessionFallsSilent
<1>. QED
  BY <1>1, <1>2, <1>3, <1>4, <1>5 DEF Next, Time

\* The end of one job is counted, by the request that ended it.
LEMMA ReportCounts ==
  ASSUME Steady, MailRight, CreditsEnd, [Next]_vars, NEW charge, Ledger(charge),
         NEW r \in Reqs, WriteBonus(r) \/ CountFailure(r)
  PROVE  \E all : Ledger(all)'
<1>. USE DEF Steady
<1>0. PICK j \in Jobs, n \in Machines, end \in {"completed", "failed"} :
        j = req[r].job /\ n = req[r].machine /\ end = InHand(r)
  BY ParkedAt DEF TypeOK, WriteBonus, CountFailure, InHand
<1>. DEFINE new == [k \in Jobs |-> IF k = j THEN n ELSE None]
<1>1. n # None /\ Crediting(r, j)
  BY <1>0, NoneAssumption DEF WriteBonus, CountFailure, Crediting, Mailing
<1>2. charge[j] = None /\ job[j].status = end
  BY <1>0, <1>1 DEF Ledger, CreditsEnd
<1>3. UNCHANGED job /\ req'[r].op = "mail" /\ \A q \in Reqs : q # r => req'[q] = req[q]
  BY DEF TypeOK, WriteBonus, CountFailure, Park
<1>4. ASSUME NEW q \in Reqs PROVE ~Crediting(q, j)'
  <2>1. q # r => ~Mailing(q, j)
    BY <1>1 DEF MailRight, Crediting
  <2>. QED
    BY <1>3, <2>1 DEF Crediting, Mailing
<1>5. new \in [Jobs -> Machines \cup {None}]
  BY <1>1
<1>6. ASSUME NEW m \in Machines, NEW e
      PROVE  Cardinality(ChargedTo(new, m, e)') = IF m = n /\ e = end THEN 1 ELSE 0
  <2>1. m # None
    BY NoneAssumption
  <2>2. ChargedTo(new, m, e)' = IF m = n /\ e = end THEN {j} ELSE {}
    BY <1>1, <1>2, <1>3, <2>1 DEF ChargedTo
  <2>. QED
    BY <2>2, FS_EmptySet, FS_Singleton
<1>7. ASSUME NEW m \in Machines
      PROVE  /\ machine[m].completed \in Nat /\ machine[m].failed \in Nat
             /\ machine'[m].completed = machine[m].completed + (IF m = n /\ end = "completed" THEN 1 ELSE 0)
             /\ machine'[m].failed = machine[m].failed + (IF m = n /\ end = "failed" THEN 1 ELSE 0)
  <2>1. \A k \in Machines : machine[k] \in MachineRow
    BY DEF TypeOK
  <2>2. CASE WriteBonus(r)
    BY <1>0, <2>1, <2>2 DEF TypeOK, WriteBonus, MachineRow, InHand
  <2>3. CASE CountFailure(r)
    BY <1>0, <2>1, <2>3 DEF TypeOK, CountFailure, MachineRow, InHand
  <2>. QED
    BY <2>2, <2>3
<1>8. ASSUME NEW m \in Machines
      PROVE  /\ machine'[m].completed = machine[m].completed + Cardinality(ChargedTo(new, m, "completed")')
             /\ machine'[m].failed = machine[m].failed + Cardinality(ChargedTo(new, m, "failed")')
  BY <1>1, <1>6, <1>7
<1>9. ASSUME NEW k \in Jobs, new[k] # None
      PROVE  /\ charge[k] = None /\ job'[k].status \in {"completed", "failed"}
             /\ \A q \in Reqs : ~Crediting(q, k)'
  BY <1>1, <1>2, <1>3, <1>4, <1>9
<1>. QED
  <2>. HIDE DEF new
  <2>. QED
    BY <1>5, <1>8, <1>9, LedgerStep

\* The jobs that a step of a sweep fails: they are charged to whom `by` says.
LEMMA SweepCounts ==
  ASSUME Steady, MailRight, [Next]_vars, NEW charge, Ledger(charge), UNCHANGED req,
         NEW js \in SUBSET Jobs, \A j \in js : job[j].status \in Active, FailJobs(js),
         NEW new \in [Jobs -> Machines \cup {None}],
         \A j \in Jobs : new[j] # None => j \in js,
         \A m \in Machines :
             /\ machine'[m].completed = machine[m].completed
             /\ machine'[m].failed = machine[m].failed + Cardinality({j \in js : new[j] = m})
  PROVE  \E all : Ledger(all)'
<1>. USE DEF Steady
<1>1. ASSUME NEW j \in js PROVE job'[j].status = "failed" /\ job[j].status \notin {"completed", "failed"}
  BY <1>1 DEF TypeOK, FailJobs, JobRow, Active
<1>2. ASSUME NEW j \in js PROVE charge[j] = None /\ \A r \in Reqs : ~Crediting(r, j)'
  <2>1. \A r \in Reqs : ~Mailing(r, j)
    BY <1>1 DEF MailRight
  <2>. QED
    BY <1>1, <2>1 DEF Ledger, Crediting, Mailing
<1>3. ASSUME NEW m \in Machines
      PROVE  /\ Cardinality(ChargedTo(new, m, "completed")') = 0
             /\ ChargedTo(new, m, "failed")' = {j \in js : new[j] = m}
  <2>1. m # None
    BY NoneAssumption
  <2>2. ChargedTo(new, m, "completed")' = {}
    BY <1>1, <2>1 DEF ChargedTo
  <2>. QED
    BY <1>1, <2>1, <2>2, FS_EmptySet DEF ChargedTo
<1>4. ASSUME NEW m \in Machines
      PROVE  /\ machine'[m].completed = machine[m].completed + Cardinality(ChargedTo(new, m, "completed")')
             /\ machine'[m].failed = machine[m].failed + Cardinality(ChargedTo(new, m, "failed")')
  <2>1. machine[m].completed \in Nat
    BY DEF TypeOK, MachineRow
  <2>. QED
    BY <1>3, <2>1
<1>. QED
  BY <1>1, <1>2, <1>4, LedgerStep

\* A silent machine is charged with the jobs it loses, unless it was offline already.
LEMMA SweepMachineCounts ==
  ASSUME Steady, MailRight, [Next]_vars, NEW charge, Ledger(charge),
         NEW w \in Sweeps, SweepMachine(w)
  PROVE  \E all : Ledger(all)'
<1>. USE DEF Steady
<1>1. PICK d \in sweep[w].dead :
        /\ sweep[w].op = "dead"
        /\ FailJobs(StillActive(d.jobs))
        /\ IF machine[d.machine].status # "offline"
           THEN machine' = [machine EXCEPT ![d.machine] =
                              TakeOffline(machine[d.machine], d, Cardinality(StillActive(d.jobs)))]
           ELSE UNCHANGED machine
        /\ UNCHANGED req
  BY DEF SweepMachine
<1>2. d.machine \in Machines /\ d.jobs \subseteq Jobs
  BY <1>1 DEF TypeOK, SweepState, Idle, DeadMachine
<1>3. PICK js \in SUBSET Jobs : js = StillActive(d.jobs)
  BY <1>2 DEF StillActive
<1>4. PICK n \in Machines : n = d.machine
  BY <1>2
<1>5. n # None /\ \A j \in js : job[j].status \in Active
  BY <1>3, NoneAssumption DEF StillActive
<1>6. \A m \in Machines : machine[m] \in MachineRow
  BY DEF TypeOK
<1>7. CASE machine[d.machine].status # "offline"
  <2>. DEFINE new == [j \in Jobs |-> IF j \in js THEN n ELSE None]
  <2>1. ASSUME NEW m \in Machines
        PROVE  /\ machine'[m].completed = machine[m].completed
               /\ machine'[m].failed = machine[m].failed + (IF m = n THEN Cardinality(js) ELSE 0)
    <3>1. machine[m] \in MachineRow /\ machine[m].failed \in Nat
      BY <1>6 DEF MachineRow
    <3>2. CASE m = n
      <4>1. machine'[m] = TakeOffline(machine[m], d, Cardinality(js))
        BY <1>1, <1>3, <1>4, <1>7, <3>2 DEF TypeOK
      <4>. QED
        BY <3>1, <3>2, <4>1 DEF TakeOffline, MachineRow
    <3>3. CASE m # n
      <4>1. machine'[m] = machine[m]
        BY <1>1, <1>4, <1>7, <3>3 DEF TypeOK
      <4>. QED
        BY <3>1, <3>3, <4>1
    <3>. QED
      BY <3>2, <3>3
  <2>2. ASSUME NEW m \in Machines
        PROVE  Cardinality({j \in js : new[j] = m}) = IF m = n THEN Cardinality(js) ELSE 0
    <3>1. m # None
      BY NoneAssumption
    <3>2. {j \in js : new[j] = m} = IF m = n THEN js ELSE {}
      BY <1>5, <3>1
    <3>. QED
      BY <3>2, FS_EmptySet
  <2>3. /\ new \in [Jobs -> Machines \cup {None}]
        /\ \A j \in Jobs : new[j] # None => j \in js
    OBVIOUS
  <2>4. \A m \in Machines :
           /\ machine'[m].completed = machine[m].completed
           /\ machine'[m].failed = machine[m].failed + Cardinality({j \in js : new[j] = m})
    BY <2>1, <2>2
  <2>. QED
    <3>. HIDE DEF new
    <3>. QED
      BY <1>1, <1>3, <1>5, <2>3, <2>4, SweepCounts
<1>8. CASE machine[d.machine].status = "offline"
  <2>. DEFINE new == [j \in Jobs |-> None]
  <2>1. ASSUME NEW m \in Machines
        PROVE  /\ machine'[m].completed = machine[m].completed
               /\ machine'[m].failed = machine[m].failed + Cardinality({j \in js : new[j] = m})
    <3>1. m # None /\ machine[m].failed \in Nat
      BY <1>6, NoneAssumption DEF MachineRow
    <3>2. {j \in js : new[j] = m} = {}
      BY <3>1
    <3>3. Cardinality({j \in js : new[j] = m}) = 0
      BY <3>2, FS_EmptySet
    <3>4. machine'[m] = machine[m]
      BY <1>1, <1>8
    <3>. HIDE DEF new
    <3>. QED
      BY <3>1, <3>3, <3>4
  <2>2. /\ new \in [Jobs -> Machines \cup {None}]
        /\ \A j \in Jobs : new[j] # None => j \in js
    OBVIOUS
  <2>. QED
    <3>. HIDE DEF new
    <3>. QED
      BY <1>1, <1>3, <1>5, <2>1, <2>2, SweepCounts
<1>. QED
  BY <1>7, <1>8

\* An orphan is charged to the machine it is listed with.
LEMMA SweepOrphansCounts ==
  ASSUME Steady, MailRight, OrphansOnce, [Next]_vars, NEW charge, Ledger(charge),
         NEW w \in Sweeps, SweepOrphans(w)
  PROVE  \E all : Ledger(all)'
<1>. USE DEF Steady
<1>1. PICK lost : /\ lost = {o \in sweep[w].orphans : job[o.job].status \in Active}
                  /\ sweep[w].op = "orphans"
                  /\ FailJobs({o.job : o \in lost})
                  /\ machine' = [m \in Machines |->
                          [machine[m] EXCEPT !.failed =
                             machine[m].failed + Cardinality({j \in Jobs : [job |-> j, machine |-> m] \in lost})]]
                  /\ UNCHANGED req
  BY DEF SweepOrphans
<1>2. /\ lost \subseteq Orphan
      /\ \A o, p \in lost : o.job = p.job => o = p
  BY <1>1 DEF TypeOK, SweepState, Idle, OrphansOnce
<1>3. PICK js \in SUBSET Jobs : js = {o.job : o \in lost}
  BY <1>2 DEF Orphan
<1>4. \A j \in js : job[j].status \in Active
  BY <1>1, <1>3
<1>. DEFINE new == [j \in Jobs |-> IF j \in js THEN (CHOOSE o \in lost : o.job = j).machine ELSE None]
<1>5. ASSUME NEW o \in lost PROVE new[o.job] = o.machine /\ o.job \in Jobs /\ o.machine \in Machines
  <2>1. o.job \in js /\ o.job \in Jobs /\ o.machine \in Machines
    BY <1>2, <1>3 DEF Orphan
  <2>2. (CHOOSE p \in lost : p.job = o.job) = o
    BY <1>2
  <2>. QED
    BY <2>1, <2>2
<1>6. new \in [Jobs -> Machines \cup {None}] /\ \A j \in Jobs : new[j] # None => j \in js
  BY <1>3, <1>5
<1>7. ASSUME NEW m \in Machines
      PROVE  {j \in Jobs : [job |-> j, machine |-> m] \in lost} = {j \in js : new[j] = m}
  <2>1. ASSUME NEW j \in Jobs, [job |-> j, machine |-> m] \in lost PROVE j \in js /\ new[j] = m
    <3>1. PICK o \in lost : o = [job |-> j, machine |-> m]
      BY <2>1
    <3>2. o.job = j /\ o.machine = m
      BY <3>1
    <3>. HIDE DEF new
    <3>. QED
      BY <1>3, <1>5, <3>2
  <2>2. ASSUME NEW j \in js, new[j] = m PROVE [job |-> j, machine |-> m] \in lost
    <3>1. PICK o \in lost : o.job = j
      BY <1>3
    <3>2. o.machine = m
      BY <1>5, <2>2, <3>1
    <3>3. o = [job |-> j, machine |-> m]
      BY <1>2, <3>1, <3>2 DEF Orphan
    <3>. QED
      BY <3>3
  <2>. HIDE DEF new
  <2>. QED
    BY <1>3, <2>1, <2>2
<1>8. ASSUME NEW m \in Machines
      PROVE  /\ machine'[m].completed = machine[m].completed
             /\ machine'[m].failed = machine[m].failed + Cardinality({j \in js : new[j] = m})
  <2>1. machine[m] \in MachineRow
    BY DEF TypeOK
  <2>. HIDE DEF new
  <2>. QED
    BY <1>1, <1>7, <2>1 DEF MachineRow
<1>. QED
  <2>. HIDE DEF new
  <2>. QED
    BY <1>1, <1>3, <1>4, <1>6, <1>8, SweepCounts

LEMMA CountsStep ==
  ASSUME Steady, MailRight, Counts, [Next]_vars
  PROVE  Counts'
<1>. USE DEF Steady
<1>1. CreditsEnd' /\ OrphansOnce'
  BY CreditsEndStep, OrphansOnceStep DEF Counts
<1>2. PICK charge : Ledger(charge)
  BY DEF Counts
<1>3. ASSUME NEW r \in Reqs, WriteBonus(r) \/ CountFailure(r) PROVE \E all : Ledger(all)'
  BY <1>2, <1>3, ReportCounts DEF Counts
<1>4. ASSUME NEW w \in Sweeps, SweepMachine(w) PROVE \E all : Ledger(all)'
  BY <1>2, <1>4, SweepMachineCounts
<1>5. ASSUME NEW w \in Sweeps, SweepOrphans(w) PROVE \E all : Ledger(all)'
  BY <1>2, <1>5, SweepOrphansCounts DEF Counts
<1>6. ASSUME \A r \in Reqs : ~WriteBonus(r) /\ ~CountFailure(r),
             \A w \in Sweeps : ~SweepMachine(w) /\ ~SweepOrphans(w)
      PROVE  \E all : Ledger(all)'
  <2>. DEFINE new == [j \in Jobs |-> None]
  <2>1. ASSUME NEW m \in Machines
        PROVE  /\ machine'[m].completed = machine[m].completed + Cardinality(ChargedTo(new, m, "completed")')
               /\ machine'[m].failed = machine[m].failed + Cardinality(ChargedTo(new, m, "failed")')
    <3>1. ChargedTo(new, m, "completed")' = {} /\ ChargedTo(new, m, "failed")' = {}
      BY NoneAssumption DEF ChargedTo
    <3>2. machine[m] \in MachineRow
      BY DEF TypeOK
    <3>3. machine'[m].completed = machine[m].completed /\ machine'[m].failed = machine[m].failed
      BY <1>6, CountersKept
    <3>4. /\ Cardinality(ChargedTo(new, m, "completed")') = 0
          /\ Cardinality(ChargedTo(new, m, "failed")') = 0
      BY <3>1, FS_EmptySet
    <3>5. machine[m].completed \in Nat /\ machine[m].failed \in Nat
      BY <3>2 DEF MachineRow
    <3>. QED
      BY <3>3, <3>4, <3>5
  <2>2. new \in [Jobs -> Machines \cup {None}] /\ \A j \in Jobs : new[j] = None
    OBVIOUS
  <2>. HIDE DEF new
  <2>. QED
    BY <1>2, <2>1, <2>2, LedgerStep
<1>7. \E all : Ledger(all)'
  BY <1>3, <1>4, <1>5, <1>6
<1>. QED
  BY <1>1, <1>7 DEF Counts

LEMMA CountsInit == Init => Counts
<1>. SUFFICES ASSUME Init PROVE Counts
  OBVIOUS
<1>. DEFINE none == [j \in Jobs |-> None]
<1>1. CreditsEnd /\ OrphansOnce
  BY DEF Init, CreditsEnd, OrphansOnce, Crediting, Mailing, Idle
<1>2. ASSUME NEW m \in Machines, NEW end PROVE Cardinality(ChargedTo(none, m, end)) = 0
  BY NoneAssumption, FS_EmptySet DEF ChargedTo
<1>3. ASSUME NEW m \in Machines PROVE machine[m].completed = 0 /\ machine[m].failed = 0
  <2>1. machine[m] = NoMachine \/ machine[m] \in KnownMachine
    BY DEF Init
  <2>2. CASE machine[m] = NoMachine
    BY <2>2 DEF NoMachine
  <2>3. CASE machine[m] \in KnownMachine
    BY <2>3 DEF KnownMachine
  <2>. QED
    BY <2>1, <2>2, <2>3
<1>4. none \in [Jobs -> Machines \cup {None}] /\ \A j \in Jobs : none[j] = None
  OBVIOUS
<1>5. Ledger(none)
  <2>. HIDE DEF none
  <2>. QED
    BY <1>2, <1>3, <1>4 DEF Ledger
<1>. QED
  BY <1>1, <1>5 DEF Counts

\* However often the end of a job is reported, whoever fails it and whatever breaks off on
\* the way (jobs.routes.ts:561-565, sweeper.ts:79-119), the counters of the machines never
\* exceed the jobs that ended so: one machine counts it, or none, as long as the requests
\* of users overlap nothing.
THEOREM CountedOnceCorrect == ASSUME Overlap # "all" PROVE Spec => []CountedOnce
<1>1. Init => MailRight /\ Counts
  BY CountsInit DEF Init, MailRight, Mailing, Idle
<1>2. Steady /\ MailRight /\ [Next]_vars => MailRight'
  BY MailRightStep
<1>3. Steady /\ MailRight /\ Counts /\ [Next]_vars => Counts'
  BY CountsStep
<1>4. Counts => CountedOnce
  BY DEF Counts, Ledger, CountedOnce
<1>. QED
  BY <1>1, <1>2, <1>3, <1>4, SteadyCorrect, PTL DEF Spec

-----------------------------------------------------------------------------
(* Each job implements JobLifecycle.                                        *)

\* What people write by id lands on the status they checked.
Duly(j) ==
    \/ job'[j].status = job[j].status /\ approval'[j] = approval[j]
    \/ job'[j].status \notin ByUser
    \/ job'[j].status \in {"cancelled", "preempted"} /\ CanStop(job[j].status)
    \/ /\ job'[j].status \in {"approved", "rejected"} /\ approval[j] = "pending"
       /\ \/ job[j].status = "pending_approval"
          \/ job'[j].status = "rejected" /\ job[j].status = "preempted"

LEMMA DulyStep ==
  ASSUME TypeOK, Safe, Fresh, [Next]_vars, NEW j \in Jobs
  PROVE  Duly(j)
<1>. USE DEF TypeOK
<1>0. job[j] \in JobRow
  OBVIOUS
<1>1. ASSUME NEW r \in Reqs, CreateCommit(r) PROVE Duly(j)
  <2>1. PICK k \in Jobs : \E row \in [status: {"pending_approval"}, requester: {req[r].user},
                                       provider: {Owner[req[r].machine]}, machine: {req[r].machine},
                                       decidedBy: {None}] :
            job' = [job EXCEPT ![k] = row] /\ approval' = [approval EXCEPT ![k] = "pending"]
    BY <1>1 DEF CreateCommit
  <2>. QED
    BY <2>1 DEF Duly, ByUser
<1>2. ASSUME NEW r \in Reqs, StopCommit(r) PROVE Duly(j)
  <2>1. CanStop(job[req[r].job].status) /\ req[r].to \in {"cancelled", "preempted"}
    BY <1>2, ParkedAt DEF StopCommit, Fresh, AsChecked
  <2>. QED
    BY <1>0, <1>2, <2>1 DEF StopCommit, Duly
<1>3. ASSUME NEW r \in Reqs, ApproveCommit(r) PROVE Duly(j)
  <2>1. approval[req[r].job] = "pending" /\ job[req[r].job].status = "pending_approval"
    BY <1>3 DEF ApproveCommit, Fresh, AsChecked
  <2>. QED
    BY <1>0, <1>3, <2>1 DEF ApproveCommit, Decide, Duly, JobRow
<1>4. ASSUME NEW r \in Reqs, RejectCommit(r) PROVE Duly(j)
  <2>1. approval[req[r].job] = "pending" /\ job[req[r].job].status \in {"pending_approval", "preempted"}
    BY <1>4 DEF RejectCommit, Fresh, AsChecked
  <2>. QED
    BY <1>0, <1>4, <2>1 DEF RejectCommit, Decide, Duly, JobRow
<1>5. ASSUME NEW r \in Reqs, ReportCommit(r) PROVE Duly(j)
  <2>1. ~IsTerminal(job[req[r].job].status) /\ req[r].to \in AgentReports
    BY <1>5, ParkedAt DEF ReportCommit, ReportApplies, Safe, RequestsSound, Sound
  <2>. QED
    BY <1>0, <1>5, <2>1 DEF ReportCommit, Duly, CanStop, AgentReports, ByUser, JobRow
<1>6. ASSUME NEW r \in Reqs, ClaimCommit(r) PROVE Duly(j)
  BY <1>0, <1>6 DEF ClaimCommit, Duly, ByUser, JobRow
<1>7. ASSUME NEW r \in Reqs, HeartbeatCommit(r) PROVE Duly(j)
  BY <1>0, <1>7 DEF HeartbeatCommit, Duly, JobRow
<1>8. ASSUME NEW r \in Reqs, NEW m \in Machines, Reclaim(r, m) PROVE Duly(j)
  <2>1. job'[j] = job[j] \/ (job[j].status \in Reclaimable /\ job'[j].status = "preempted")
    BY <1>0, <1>8 DEF Reclaim, JobRow
  <2>. QED
    BY <1>8, <2>1 DEF Reclaim, Duly, Reclaimable, Active, CanStop, IsTerminal, Terminal
<1>9. ASSUME NEW js, FailJobs(js), UNCHANGED approval PROVE Duly(j)
  <2>1. job'[j] = job[j] \/ job'[j].status = "failed"
    BY <1>0, <1>9 DEF FailJobs, JobRow
  <2>. QED
    BY <1>9, <2>1 DEF Duly, ByUser
<1>10. ASSUME UNCHANGED <<job, approval>> PROVE Duly(j)
  BY <1>10 DEF Duly
<1>11. ASSUME NEW w \in Sweeps, SweeperNext(w) \/ SweepEnds(w) PROVE Duly(j)
  BY <1>9, <1>10, <1>11 DEF SweeperNext, SweepStart, SweepMachine, SweepFindOrphans, SweepOrphans,
                            SweepSessions, SweepEnds, tables
<1>. QED
  BY <1>1, <1>2, <1>3, <1>4, <1>5, <1>6, <1>7, <1>8, <1>10, <1>11
     DEF Next, JobRoutesNext, CreateMatch, StopCheck, ReportCheck, ReportMissed, ReportReread, ReadTrust,
         WriteBonus, CountFailure, EnqueueMail, ApprovalRoutesNext, ApproveCheck, RejectCheck,
         AgentRoutesNext, Authenticate, ClaimFind, ClaimMissed, MachineRoutesNext, RegisterMachine,
         IssueSession, HeartbeatRead, RequestEnds, MachineFallsSilent, SessionFallsSilent, tables, vars

LEMMA PhaseOf ==
    /\ Phase("absent") = "absent" /\ Phase("pending_approval") = "waiting"
    /\ Phase("approved") = "ready" /\ Phase("queued") = "ready"
    /\ Phase("assigned") = "held" /\ Phase("running") = "started"
    /\ Phase("rejected") = "rejected"
    /\ \A s \in {"completed", "failed", "cancelled", "preempted"} : Phase(s) = s
  BY DEF Phase

\* No handler writes the status draft.
NoDraft == \A j \in Jobs : job[j].status # "draft"

LEMMA NoDraftStep ==
  ASSUME TypeOK, Safe, NoDraft, [Next]_vars
  PROVE  NoDraft'
<1>. SUFFICES ASSUME NEW j \in Jobs PROVE job'[j].status # "draft"
  BY DEF NoDraft
<1>1. RowStep(j)
  BY RowStepNext
<1>. QED
  BY <1>1 DEF RowStep, Created, Stopped, Decided, Claimed, Reported, Lost, LetGo, AgentReports, NoDraft

\* A job that is not at its end is in one of the live phases.
LEMMA LivePhase ==
  ASSUME TypeOK, NoDraft, NEW j \in Jobs, CanStop(job[j].status), job[j].status # "absent"
  PROVE  Phase(job[j].status) \in {"waiting", "ready", "held", "started"}
<1>1. job[j].status \in {"pending_approval", "approved", "queued", "assigned", "running"}
  BY DEF TypeOK, JobRow, Status, NoDraft, CanStop, IsTerminal, Terminal
<1>. QED
  BY <1>1, PhaseOf

LEMMA LifeStep ==
  ASSUME Steady, MailRight, NoDraft, [Next]_vars, NEW j \in Jobs
  PROVE  [Life(j)!Next]_(Life(j)!lifeVars)
<1>. USE DEF Steady
<1>. DEFINE from == job[j].status
            to   == job'[j].status
            End  == /\ to \in {"completed", "failed", "cancelled", "preempted"}
                    /\ \/ from = "running"  /\ to \in {"completed", "failed"}
                       \/ from = "assigned" /\ to = "failed"
                       \/ CanStop(from)     /\ to \in {"cancelled", "preempted"}
<1>1. RowStep(j) /\ Duly(j)
  BY RowStepNext, DulyStep
<1>2. from \in Active => job[j].machine \in Machines /\ Owner[job[j].machine] = job[j].provider
  BY DEF TypeOK, JobRow, Safe, Placement
<1>3. CASE mails'[j] # mails[j]
  <2>1. mails'[j] = mails[j] + 1 /\ UNCHANGED <<job, approval>> /\ \E r \in Reqs : Mailing(r, j)
    BY <1>3, MailingUsed
  <2>2. from \in {"completed", "failed"} /\ mails[j] = 0
    BY <2>1 DEF MailRight
  <2>3. Life(j)!Notify
    BY <2>1, <2>2, PhaseOf DEF Life!Notify, Life!Results
  <2>. QED
    BY <2>3 DEF Life!Next
<1>4. CASE mails'[j] = mails[j] /\ Created(j)
  <2>1. approval[j] = "absent" /\ from = "absent" /\ to = "pending_approval" /\ approval'[j] = "pending"
    BY <1>4 DEF Created, Safe, DecisionBinds
  <2>2. job'[j].provider \in Users
    BY <1>4, OwnerAssumption DEF Created
  <2>3. Life(j)!Submit
    BY <1>4, <2>1, <2>2, PhaseOf DEF Life!Submit, Active
  <2>. QED
    BY <2>3 DEF Life!Next
<1>5. CASE mails'[j] = mails[j] /\ to = from /\ approval'[j] = approval[j] /\ ~Created(j)
  <2>1. job'[j].provider = job[j].provider
    BY <1>1, <1>5 DEF RowStep, Kept
  <2>2. from \in Active => job'[j].machine = job[j].machine
    BY <1>1, <1>5 DEF RowStep, Stopped, Decided, Claimed, Reported, Lost, LetGo, Active
  <2>. QED
    BY <1>5, <2>1, <2>2 DEF Life!lifeVars
<1>6. ASSUME mails'[j] = mails[j], Kept(j), End, approval'[j] = approval[j] PROVE Life(j)!End
  <2>1. to \notin Active /\ Phase(to) = to
    BY <1>6, PhaseOf DEF Active
  <2>2. \/ Phase(from) = "started" /\ to \in {"completed", "failed"}
        \/ Phase(from) = "held" /\ to = "failed"
        \/ Phase(from) \in {"waiting", "ready", "held", "started"} /\ to \in {"cancelled", "preempted"}
    BY <1>6, PhaseOf, LivePhase DEF Kept
  <2>. QED
    BY <1>6, <2>1, <2>2 DEF Kept, Life!End, Life!Live, Life!Results
<1>7. CASE mails'[j] = mails[j] /\ Kept(j) /\ Stopped(j) /\ to # from
  <2>1. End /\ approval'[j] = approval[j]
    BY <1>1, <1>7 DEF Stopped, Duly, ByUser
  <2>. QED
    BY <1>6, <1>7, <2>1 DEF Life!Next
<1>8. CASE mails'[j] = mails[j] /\ Kept(j) /\ Decided(j) /\ ~(to = from /\ approval'[j] = approval[j])
  <2>1. /\ to \in {"approved", "rejected"} /\ approval[j] = "pending" /\ approval'[j] = to
        /\ \/ from = "pending_approval"
           \/ to = "rejected" /\ from = "preempted"
    BY <1>1, <1>8 DEF Decided, Duly, ByUser
  <2>2. from \notin Active /\ to \notin Active
    BY <2>1 DEF Active
  <2>3. to = "approved" => Life(j)!Approve
    BY <1>8, <2>1, <2>2, PhaseOf DEF Kept, Life!Approve, Life!DecideTo
  <2>4. to = "rejected" => Life(j)!Reject
    BY <1>8, <2>1, <2>2, PhaseOf DEF Kept, Life!Reject, Life!DecideTo
  <2>. QED
    BY <2>1, <2>3, <2>4 DEF Life!Next
<1>9. CASE mails'[j] = mails[j] /\ Kept(j) /\ Claimed(j)
  <2>1. Life(j)!TakeUp
    BY <1>9, PhaseOf DEF Kept, Claimed, Active, Life!TakeUp
  <2>. QED
    BY <2>1 DEF Life!Next
<1>10. CASE mails'[j] = mails[j] /\ Kept(j) /\ Reported(j)
  <2>1. \/ from = "assigned" /\ to = "running"
        \/ from \in {"assigned", "approved"} /\ to = "queued"
        \/ End
    BY <1>10 DEF Reported, CanTransition, Transitions, AgentReports, CanStop
  <2>2. CASE from = "assigned" /\ to = "running"
    <3>1. Life(j)!Begin
      BY <1>10, <2>2, PhaseOf DEF Kept, Reported, Active, Life!Begin
    <3>. QED
      BY <3>1 DEF Life!Next
  <2>3. CASE from = "assigned" /\ to = "queued"
    <3>1. Life(j)!HandBack
      BY <1>10, <2>3, PhaseOf DEF Kept, Reported, Active, Life!HandBack
    <3>. QED
      BY <3>1 DEF Life!Next
  <2>4. CASE from = "approved" /\ to = "queued"
    BY <1>10, <2>4, PhaseOf DEF Kept, Reported, Active, Life!lifeVars
  <2>5. CASE End
    BY <1>6, <1>10, <2>5 DEF Reported, Life!Next
  <2>. QED
    BY <2>1, <2>2, <2>3, <2>4, <2>5
<1>11. CASE mails'[j] = mails[j] /\ Kept(j) /\ Lost(j)
  <2>1. End /\ approval'[j] = approval[j]
    BY <1>11 DEF Lost, Active
  <2>. QED
    BY <1>6, <1>11, <2>1 DEF Life!Next
<1>12. CASE mails'[j] = mails[j] /\ Kept(j) /\ LetGo(j) /\ ~(to = from /\ approval'[j] = approval[j])
  BY <1>12 DEF LetGo
<1>. QED
  BY <1>1, <1>3, <1>4, <1>5, <1>7, <1>8, <1>9, <1>10, <1>11, <1>12 DEF RowStep, Stopped

LEMMA LifeInit == Init => \A j \in Jobs : Life(j)!Init
<1>. SUFFICES ASSUME Init, NEW j \in Jobs PROVE Life(j)!Init
  OBVIOUS
<1>1. job[j] = NoJob /\ approval[j] = "absent" /\ mails[j] = 0
  BY DEF Init
<1>. QED
  BY <1>1, PhaseOf DEF Life!Init, NoJob, Active

\* Whatever agents' requests and sweeps overlap, every job goes through the life that
\* JobLifecycle promises requester and provider: one decision, one machine at a time, a
\* result only of a started job, one final end, one mail.  (Opposite decisions that
\* overlap, or a stop that overlaps a report, break it.)
THEOREM LifecycleCorrect == ASSUME Overlap # "all" PROVE Spec => Lifecycle
<1> DEFINE Lives == \A j \in Jobs : [Life(j)!Next]_(Life(j)!lifeVars)
<1>1. Init => MailRight /\ NoDraft
  BY DEF Init, MailRight, Mailing, Idle, NoDraft, NoJob
<1>2. Steady /\ MailRight /\ [Next]_vars => MailRight'
  BY MailRightStep
<1>3. TypeOK /\ Safe /\ NoDraft /\ [Next]_vars => NoDraft'
  BY NoDraftStep
<1>4. Steady /\ MailRight /\ NoDraft /\ [Next]_vars => [Lives]_vars
  BY LifeStep
<1>5. Spec => []TypeOK /\ []Safe
  BY TypeCorrect, SafeCorrect
<1>6. Spec => [](Steady /\ MailRight /\ NoDraft)
  BY <1>1, <1>2, <1>3, <1>5, SteadyCorrect, PTL DEF Spec
<1>7. Spec => [][Lives]_vars
  BY <1>4, <1>6, PTL DEF Spec
<1>8. Spec => \A j \in Jobs : Life(j)!Init
  BY LifeInit DEF Spec
<1>. QED
  BY <1>7, <1>8 DEF Lifecycle

-----------------------------------------------------------------------------
(* One request or sweep at a time (Overlap = "none"): what it remembers is  *)
(* what the rows say.                                                       *)

Alone ==
    /\ \A r \in Reqs : req[r] # Idle =>
          /\ \A q \in Reqs \ {r} : req[q] = Idle
          /\ \A w \in Sweeps : sweep[w] = Idle
    /\ \A w \in Sweeps : sweep[w] # Idle => \A v \in Sweeps \ {w} : sweep[v] = Idle

\* An idle slot wakes only when all is quiet.
LEMMA Wakes ==
  ASSUME TypeOK, Overlap = "none", NEW r \in Reqs, Handles(r), req[r] = Idle
  PROVE  Quiet
<1>1. req[r].op = "idle" /\ \A op : MayStart(op) => Quiet
  BY DEF Idle, MayStart
<1>. QED
  BY <1>1 DEF Handles, JobRoutesNext, CreateMatch, CreateCommit, StopCheck, StopCommit, ReportCheck,
         ReportCommit, ReportMissed, ReportReread, ReadTrust, WriteBonus, CountFailure, EnqueueMail,
         ApprovalRoutesNext, ApproveCheck, RejectCheck, ApproveCommit, RejectCommit,
         AgentRoutesNext, Authenticate, ClaimFind, ClaimCommit, ClaimMissed,
         MachineRoutesNext, RegisterMachine, IssueSession, HeartbeatRead, HeartbeatCommit, Reclaim,
         RequestEnds, Starts

LEMMA SweepWakes ==
  ASSUME TypeOK, Overlap = "none", NEW w \in Sweeps, SweeperNext(w) \/ SweepEnds(w), sweep[w] = Idle
  PROVE  Quiet
<1>1. sweep[w].op = "idle" /\ \A op : MayStart(op) => Quiet
  BY DEF Idle, MayStart
<1>. QED
  BY <1>1 DEF SweeperNext, SweepStart, SweepMachine, SweepFindOrphans, SweepOrphans, SweepSessions, SweepEnds

LEMMA AloneStep ==
  ASSUME TypeOK, Overlap = "none", Alone, [Next]_vars
  PROVE  Alone'
<1>1. CASE Time
  BY <1>1, TimePasses DEF Alone
<1>2. ASSUME NEW r \in Reqs, Handles(r) PROVE Alone'
  <2>1. /\ \A q \in Reqs \ {r} : req[q] = Idle /\ req'[q] = Idle
        /\ \A w \in Sweeps : sweep[w] = Idle /\ sweep'[w] = Idle
    BY <1>2, Wakes, HandlesOne DEF Alone, Quiet
  <2>. QED
    BY <2>1 DEF Alone
<1>3. ASSUME NEW w \in Sweeps, SweeperNext(w) \/ SweepEnds(w) PROVE Alone'
  <2>1. /\ \A q \in Reqs : req[q] = Idle /\ req'[q] = Idle
        /\ \A v \in Sweeps \ {w} : sweep[v] = Idle /\ sweep'[v] = Idle
    BY <1>3, SweepWakes, SweepsOne DEF Alone, Quiet
  <2>. QED
    BY <2>1 DEF Alone
<1>. QED
  BY <1>1, <1>2, <1>3 DEF Next, Time, Handles

\* The answer a heartbeat has prepared, the trust a report has read, and the snapshot
\* of a sweep.
KnowsStopped(x) == x.op = "heartbeat" => (x.reclaim <=> StoppedOn(x.machine) # {})
KnowsTrust(x)   == x.op = "bonus" => x.trust = machine[x.machine].trust
KnowsDead(x) ==
    x.op = "dead" => \A d \in x.dead :
        /\ d.trust = machine[d.machine].trust
        /\ \A j \in d.jobs : job[j].machine = d.machine
        /\ \A e \in x.dead : e.machine = d.machine => e = d

Knows == /\ \A r \in Reqs : KnowsStopped(req[r]) /\ KnowsTrust(req[r])
         /\ \A w \in Sweeps : KnowsDead(sweep[w])

\* A request learns it in the step that parks it there.
LEMMA Learns ==
  ASSUME TypeOK, NEW r \in Reqs, Handles(r)
  PROVE  (KnowsStopped(req[r]) /\ KnowsTrust(req[r]))'
<1>. USE DEF TypeOK
<1>1. ASSUME NEW x, Park(r, x), x.op \notin {"heartbeat", "bonus"}
      PROVE  (KnowsStopped(req[r]) /\ KnowsTrust(req[r]))'
  BY <1>1 DEF Park, KnowsStopped, KnowsTrust
<1>2. ASSUME Done(r) PROVE (KnowsStopped(req[r]) /\ KnowsTrust(req[r]))'
  BY <1>1, <1>2 DEF Done, Idle
<1>3. ASSUME NEW reported, HeartbeatRead(r, reported) PROVE (KnowsStopped(req[r]) /\ KnowsTrust(req[r]))'
  <2>1. /\ req'[r] = [op |-> "heartbeat", session |-> req[r].session, machine |-> req[r].machine,
                      status |-> reported, reclaim |-> TellsToStop(req[r].machine)]
        /\ UNCHANGED job
    BY <1>3 DEF HeartbeatRead, Park, tables
  <2>2. StoppedOn(req[r].machine)' = StoppedOn(req[r].machine)
    BY <2>1 DEF StoppedOn
  <2>3. /\ req'[r].op = "heartbeat" /\ req'[r].machine = req[r].machine
        /\ req'[r].reclaim = TellsToStop(req[r].machine)
    BY <2>1
  <2>4. StoppedOn(req[r].machine)' # {} <=> req'[r].reclaim
    BY <2>1, <2>3 DEF StoppedOn, TellsToStop
  <2>. QED
    BY <2>3, <2>4 DEF KnowsStopped, KnowsTrust
<1>4. CASE ReadTrust(r)
  <2>1. /\ req'[r] = [op |-> "bonus", job |-> req[r].job, machine |-> req[r].machine,
                      trust |-> machine[req[r].machine].trust]
        /\ UNCHANGED machine
    BY <1>4 DEF ReadTrust, Park, tables
  <2>. QED
    BY <2>1 DEF KnowsStopped, KnowsTrust
<1>5. ASSUME JobRoutesNext(r), ~ReadTrust(r)
      PROVE  (KnowsStopped(req[r]) /\ KnowsTrust(req[r]))'
  BY <1>1, <1>2, <1>5 DEF JobRoutesNext, CreateMatch, CreateCommit, StopCheck, StopCommit, ReportCheck, ReportCommit,
              ReportMissed, ReportReread, WriteBonus, CountFailure, EnqueueMail, Starts
<1>6. ASSUME ApprovalRoutesNext(r)
      PROVE  (KnowsStopped(req[r]) /\ KnowsTrust(req[r]))'
  BY <1>1, <1>2, <1>6 DEF ApprovalRoutesNext, ApproveCheck, RejectCheck, ApproveCommit, RejectCommit, Decide, Starts
<1>7. ASSUME AgentRoutesNext(r)
      PROVE  (KnowsStopped(req[r]) /\ KnowsTrust(req[r]))'
  BY <1>1, <1>2, <1>7 DEF AgentRoutesNext, Authenticate, ClaimFind, ClaimCommit, ClaimMissed, Starts
<1>8. ASSUME MachineRoutesNext(r), \A reported : ~HeartbeatRead(r, reported)
      PROVE  (KnowsStopped(req[r]) /\ KnowsTrust(req[r]))'
  BY <1>1, <1>2, <1>8 DEF MachineRoutesNext, RegisterMachine, IssueSession, HeartbeatCommit, Reclaim, Starts, Done
<1>. QED
  BY <1>1, <1>2, <1>3, <1>4, <1>5, <1>6, <1>7, <1>8 DEF Handles, RequestEnds

\* A sweep that takes one machine offline keeps what it knows of the others.
LEMMA SweepLearns ==
  ASSUME TypeOK, NEW w \in Sweeps, SweeperNext(w) \/ SweepEnds(w), KnowsDead(sweep[w])
  PROVE  KnowsDead(sweep[w])'
<1>. USE DEF TypeOK
<1>1. ASSUME NEW x, Stage(w, x), x.op # "dead" PROVE KnowsDead(sweep[w])'
  BY <1>1 DEF Stage, KnowsDead
<1>2. CASE SweepStart(w)
  <2>. DEFINE dead == {[machine |-> m, trust |-> machine[m].trust, jobs |-> ActiveOn(m)] :
                         m \in {n \in Machines : /\ machine[n].status \notin {"absent", "offline"}
                                                 /\ machine[n].silent}}
  <2>1. sweep'[w] = [op |-> "dead", dead |-> dead] /\ UNCHANGED <<machine, job>>
    BY <1>2 DEF SweepStart, Stage, tables
  <2>2. \A d \in dead : /\ d.trust = machine[d.machine].trust
                        /\ \A j \in d.jobs : job[j].machine = d.machine
                        /\ \A e \in dead : e.machine = d.machine => e = d
    <3>1. \A d \in dead : d = [machine |-> d.machine, trust |-> machine[d.machine].trust,
                              jobs |-> ActiveOn(d.machine)]
      OBVIOUS
    <3>2. \A m, n : m = n => machine[m].trust = machine[n].trust /\ ActiveOn(m) = ActiveOn(n)
      OBVIOUS
    <3>3. \A m : \A j \in ActiveOn(m) : job[j].machine = m
      BY DEF ActiveOn
    <3>. QED
      BY <3>1, <3>2, <3>3
  <2>. QED
    BY <2>1, <2>2 DEF KnowsDead
<1>3. CASE SweepMachine(w)
  <2>1. PICK d \in sweep[w].dead :
          /\ FailJobs(StillActive(d.jobs))
          /\ \/ UNCHANGED machine
             \/ \E row : machine' = [machine EXCEPT ![d.machine] = row]
          /\ sweep'[w] = [op |-> "dead", dead |-> sweep[w].dead \ {d}]
          /\ sweep[w].op = "dead"
    BY <1>3 DEF SweepMachine, Stage
  <2>2. \A j \in Jobs : job'[j].machine = job[j].machine
    BY <2>1 DEF FailJobs, JobRow
  <2>3. sweep[w].dead \subseteq DeadMachine
    BY <2>1 DEF SweepState, Idle
  <2>4. ASSUME NEW e \in sweep[w].dead, e # d
        PROVE  /\ e.trust = machine'[e.machine].trust
               /\ \A j \in e.jobs : job'[j].machine = e.machine
               /\ \A f \in sweep[w].dead : f.machine = e.machine => f = e
    <3>1. e.machine \in Machines /\ e.jobs \subseteq Jobs /\ e.machine # d.machine
      BY <2>1, <2>3, <2>4 DEF DeadMachine, KnowsDead
    <3>2. machine'[e.machine] = machine[e.machine]
      BY <2>1, <3>1
    <3>. QED
      BY <2>1, <2>2, <2>4, <3>1, <3>2 DEF KnowsDead
  <2>. QED
    BY <2>1, <2>4 DEF KnowsDead
<1>. QED
  BY <1>1, <1>2, <1>3 DEF SweeperNext, SweepFindOrphans, SweepOrphans, SweepSessions, SweepEnds, Idle

LEMMA KnowsStep ==
  ASSUME TypeOK, Overlap = "none", Alone, Knows, [Next]_vars
  PROVE  Knows'
<1>0. /\ Idle.op = "idle"
      /\ KnowsStopped(Idle)' /\ KnowsTrust(Idle)' /\ KnowsDead(Idle)'
  BY DEF Idle, KnowsStopped, KnowsTrust, KnowsDead
<1>1. CASE Time
  <2>1. UNCHANGED <<job, req, sweep>> /\ \A m \in Machines : machine'[m].trust = machine[m].trust
    BY <1>1, TimePasses
  <2>2. ASSUME NEW r \in Reqs PROVE (KnowsStopped(req[r]) /\ KnowsTrust(req[r]))'
    <3>1. KnowsStopped(req[r])'
      BY <2>1 DEF Knows, KnowsStopped, StoppedOn
    <3>2. req[r].op = "bonus" => req[r].machine \in Machines
      BY ParkedAt DEF TypeOK
    <3>3. KnowsTrust(req[r])'
      BY <2>1, <3>2 DEF Knows, KnowsTrust
    <3>. QED
      BY <3>1, <3>3
  <2>3. ASSUME NEW w \in Sweeps PROVE KnowsDead(sweep[w])'
    <3>1. sweep[w].op = "dead" => sweep[w].dead \subseteq DeadMachine
      BY DEF TypeOK, SweepState, Idle
    <3>. QED
      BY <2>1, <3>1 DEF Knows, KnowsDead, DeadMachine
  <2>. QED
    BY <2>2, <2>3 DEF Knows
<1>2. ASSUME NEW r \in Reqs, Handles(r) PROVE Knows'
  <2>1. /\ \A q \in Reqs \ {r} : req'[q] = Idle
        /\ \A w \in Sweeps : sweep'[w] = Idle
    BY <1>2, Wakes, HandlesOne DEF Alone, Quiet
  <2>2. (KnowsStopped(req[r]) /\ KnowsTrust(req[r]))'
    BY <1>2, Learns
  <2>3. ASSUME NEW q \in Reqs PROVE (KnowsStopped(req[q]) /\ KnowsTrust(req[q]))'
    BY <1>0, <2>1, <2>2 DEF KnowsStopped, KnowsTrust
  <2>4. ASSUME NEW w \in Sweeps PROVE KnowsDead(sweep[w])'
    BY <1>0, <2>1 DEF KnowsDead
  <2>. QED
    BY <2>3, <2>4 DEF Knows
<1>3. ASSUME NEW w \in Sweeps, SweeperNext(w) \/ SweepEnds(w) PROVE Knows'
  <2>1. /\ \A q \in Reqs : req'[q] = Idle
        /\ \A v \in Sweeps \ {w} : sweep'[v] = Idle
    BY <1>3, SweepWakes, SweepsOne DEF Alone, Quiet
  <2>2. KnowsDead(sweep[w])'
    BY <1>3, SweepLearns DEF Knows
  <2>3. ASSUME NEW q \in Reqs PROVE (KnowsStopped(req[q]) /\ KnowsTrust(req[q]))'
    BY <1>0, <2>1 DEF KnowsStopped, KnowsTrust
  <2>4. ASSUME NEW v \in Sweeps PROVE KnowsDead(sweep[v])'
    BY <1>0, <2>1, <2>2 DEF KnowsDead
  <2>. QED
    BY <2>3, <2>4 DEF Knows
<1>. QED
  BY <1>1, <1>2, <1>3 DEF Next, Time, Handles

LEMMA KnowsCorrect == ASSUME Overlap = "none" PROVE Spec => [](TypeOK /\ Alone /\ Knows)
<1>1. Init => Alone /\ Knows
  BY DEF Init, Alone, Knows, KnowsStopped, KnowsTrust, KnowsDead, Idle
<1>2. TypeOK /\ Alone /\ [Next]_vars => Alone'
  BY AloneStep
<1>3. TypeOK /\ Alone /\ Knows /\ [Next]_vars => Knows'
  BY KnowsStep
<1>. QED
  BY <1>1, <1>2, <1>3, TypeCorrect, PTL DEF Spec

LEMMA ToldStep ==
  ASSUME TypeOK, Safe, Knows, [Next]_vars, NEW j \in Jobs,
         job[j].machine # None, job'[j].machine = None, job[j].status \in Terminal
  PROVE  \E r \in Reqs : /\ req[r].op = "heartbeat" /\ req'[r] = Idle
                         /\ req[r].machine = job[j].machine /\ req[r].reclaim
<1>. USE DEF TypeOK
<1>0. job[j] \in JobRow
  OBVIOUS
<1>1. ASSUME NEW r \in Reqs, HeartbeatCommit(r)
      PROVE  /\ req[r].op = "heartbeat" /\ req'[r] = Idle
             /\ req[r].machine = job[j].machine /\ req[r].reclaim
  <2>1. j \in StoppedOn(req[r].machine)
    BY <1>1 DEF HeartbeatCommit, Released
  <2>2. req[r].op = "heartbeat" /\ req'[r] = Idle
    BY <1>1 DEF HeartbeatCommit, Done, Park
  <2>3. req[r].reclaim
    BY <2>1, <2>2 DEF Knows, KnowsStopped
  <2>. QED
    BY <2>1, <2>2, <2>3 DEF StoppedOn
<1>2. ASSUME NEW r \in Reqs, CreateCommit(r) PROVE FALSE
  <2>1. req[r].machine \in Machines
    BY <1>2, ParkedAt DEF CreateCommit
  <2>. QED
    BY <1>2, <2>1, NoneAssumption DEF CreateCommit
<1>3. ASSUME NEW r \in Reqs, ReportCommit(r) PROVE FALSE
  <2>1. ~IsTerminal(job[req[r].job].status)
    BY <1>3 DEF ReportCommit, ReportApplies, Safe, RequestsSound, Sound
  <2>. QED
    BY <1>3, <2>1 DEF ReportCommit, IsTerminal
<1>4. ASSUME NEW r \in Reqs, ClaimCommit(r) PROVE FALSE
  <2>1. req[r].machine \in Machines
    BY <1>4, ParkedAt DEF ClaimCommit
  <2>. QED
    BY <1>4, <2>1, NoneAssumption DEF ClaimCommit
<1>5. ASSUME NEW r \in Reqs, StopCommit(r) \/ ApproveCommit(r) \/ RejectCommit(r) PROVE FALSE
  <2>1. CASE StopCommit(r)
    BY <1>0, <2>1 DEF StopCommit, JobRow
  <2>2. CASE ApproveCommit(r)
    BY <1>0, <2>2 DEF ApproveCommit, Decide, JobRow
  <2>3. CASE RejectCommit(r)
    BY <1>0, <2>3 DEF RejectCommit, Decide, JobRow
  <2>. QED
    BY <1>5, <2>1, <2>2, <2>3
<1>6. ASSUME NEW r \in Reqs, NEW m \in Machines, Reclaim(r, m) PROVE FALSE
  BY <1>0, <1>6 DEF Reclaim, JobRow
<1>7. ASSUME NEW js, FailJobs(js) PROVE FALSE
  BY <1>0, <1>7 DEF FailJobs, JobRow
<1>8. ASSUME NEW w \in Sweeps, SweeperNext(w) \/ SweepEnds(w) PROVE FALSE
  BY <1>7, <1>8 DEF SweeperNext, SweepStart, SweepMachine, SweepFindOrphans, SweepOrphans, SweepSessions,
                    SweepEnds, tables
<1>. QED
  BY <1>1, <1>2, <1>3, <1>4, <1>5, <1>6, <1>8
     DEF Next, JobRoutesNext, CreateMatch, StopCheck, ReportCheck, ReportMissed, ReportReread, ReadTrust,
         WriteBonus, CountFailure, EnqueueMail, ApprovalRoutesNext, ApproveCheck, RejectCheck,
         AgentRoutesNext, Authenticate, ClaimFind, ClaimMissed, MachineRoutesNext, RegisterMachine,
         IssueSession, HeartbeatRead, RequestEnds, MachineFallsSilent, SessionFallsSilent, tables, vars

\* As long as nothing overlaps, the machine of a stopped job is cleared only by the
\* heartbeat whose answer tells its agent to stop (machines.routes.ts:215-216).
THEOREM StoppedAgentToldCorrect == ASSUME Overlap = "none" PROVE Spec => StoppedAgentTold
<1> DEFINE Told ==
      \A j \in Jobs :
         job[j].machine # None /\ job'[j].machine = None /\ job[j].status \in Terminal
         => \E r \in Reqs : /\ req[r].op = "heartbeat"
                            /\ req'[r] = Idle
                            /\ req[r].machine = job[j].machine
                            /\ req[r].reclaim
<1>1. TypeOK /\ Safe /\ Knows /\ [Next]_vars => [Told]_vars
  BY ToldStep
<1>2. Spec => [](TypeOK /\ Alone /\ Knows)
  BY KnowsCorrect
<1>3. Spec => [][Told]_vars
  BY <1>1, <1>2, SafeCorrect, PTL DEF Spec
<1>. QED
  BY <1>3 DEF StoppedAgentTold

LEMMA TrustStep ==
  ASSUME TypeOK, Knows, [Next]_vars, NEW m \in Machines
  PROVE  /\ machine'[m].trust <= machine[m].trust + 2
         /\ machine'[m].trust < machine[m].trust
               => /\ machine'[m].trust = Penalise(machine[m].trust)
                  /\ \E j \in ActiveOn(m) : job'[j].status = "failed"
<1>. USE DEF TypeOK
<1>0. /\ machine[m].trust \in 0..100
      /\ \A n \in Machines : machine[n] \in MachineRow
  BY DEF MachineRow
<1>1. CASE machine'[m].trust = machine[m].trust
  BY <1>0, <1>1
<1>2. ASSUME NEW r \in Reqs, WriteBonus(r), machine'[m].trust # machine[m].trust
      PROVE  machine'[m].trust \in machine[m].trust .. machine[m].trust + 2
  <2>1. req[r].machine \in Machines /\ req[r].trust = machine[req[r].machine].trust
    BY <1>2, ParkedAt DEF WriteBonus, Knows, KnowsTrust
  <2>2. req[r].machine = m /\ machine'[m].trust = AddBonus(machine[m].trust)
    BY <1>0, <1>2, <2>1 DEF WriteBonus, MachineRow
  <2>. QED
    BY <1>0, <2>2 DEF AddBonus
<1>3. ASSUME NEW w \in Sweeps, SweepMachine(w), machine'[m].trust # machine[m].trust
      PROVE  /\ machine'[m].trust = Penalise(machine[m].trust)
             /\ \E j \in ActiveOn(m) : job'[j].status = "failed"
  <2>. DEFINE lost(d) == Cardinality(StillActive(d.jobs))
  <2>1. PICK d \in sweep[w].dead :
          /\ FailJobs(StillActive(d.jobs))
          /\ machine' = [machine EXCEPT ![d.machine] = TakeOffline(machine[d.machine], d, lost(d))]
          /\ sweep[w].op = "dead"
    BY <1>3 DEF SweepMachine
  <2>2. d.machine \in Machines /\ d.jobs \subseteq Jobs
    BY <2>1 DEF SweepState, Idle, DeadMachine
  <2>3. d.machine = m /\ d.trust = machine[m].trust /\ \A j \in d.jobs : job[j].machine = m
    BY <1>3, <2>1, <2>2 DEF Knows, KnowsDead
  <2>4. machine'[m] = TakeOffline(machine[m], d, lost(d))
    BY <2>1, <2>2, <2>3
  <2>5. lost(d) > 0 /\ machine'[m].trust = Penalise(machine[m].trust)
    BY <1>0, <1>3, <2>3, <2>4 DEF TakeOffline, MachineRow
  <2>6. PICK j : j \in StillActive(d.jobs)
    <3>1. StillActive(d.jobs) = {} => lost(d) = 0
      BY FS_EmptySet
    <3>2. StillActive(d.jobs) # {}
      <4>. HIDE DEF lost
      <4>. QED
        BY <2>5, <3>1
    <3>. QED
      BY <3>2
  <2>7. j \in ActiveOn(m) /\ job'[j].status = "failed"
    BY <2>1, <2>2, <2>3, <2>6 DEF StillActive, ActiveOn, FailJobs, JobRow
  <2>. QED
    BY <2>5, <2>7
<1>4. Penalise(machine[m].trust) \in 0 .. machine[m].trust
  BY <1>0 DEF Penalise
<1>5. ASSUME NEW r \in Reqs, JobRoutesNext(r), ~WriteBonus(r) PROVE machine'[m].trust = machine[m].trust
  <2>1. CASE CountFailure(r)
    BY <1>0, <2>1 DEF CountFailure, MachineRow
  <2>. QED
    BY <1>5, <2>1 DEF JobRoutesNext, CreateMatch, CreateCommit, StopCheck, StopCommit, ReportCheck,
         ReportCommit, ReportMissed, ReportReread, ReadTrust, EnqueueMail, tables
<1>6. ASSUME NEW r \in Reqs, ApprovalRoutesNext(r) \/ AgentRoutesNext(r) \/ RequestEnds(r)
      PROVE  machine'[m].trust = machine[m].trust
  BY <1>6 DEF ApprovalRoutesNext, ApproveCheck, RejectCheck, ApproveCommit, RejectCommit, Decide,
         AgentRoutesNext, Authenticate, ClaimFind, ClaimCommit, ClaimMissed, RequestEnds, tables
<1>7. ASSUME NEW r \in Reqs, MachineRoutesNext(r) PROVE machine'[m].trust = machine[m].trust
  <2>1. ASSUME NEW n \in Machines, RegisterMachine(r, n) PROVE machine'[m].trust = machine[m].trust
    BY <1>0, <2>1 DEF RegisterMachine, MachineRow
  <2>2. CASE HeartbeatCommit(r)
    BY <1>0, <2>2 DEF HeartbeatCommit, MachineRow
  <2>. QED
    BY <1>7, <2>1, <2>2 DEF MachineRoutesNext, IssueSession, HeartbeatRead, Reclaim, tables
<1>8. ASSUME NEW w \in Sweeps, SweeperNext(w) \/ SweepEnds(w), ~SweepMachine(w)
      PROVE  machine'[m].trust = machine[m].trust
  <2>1. CASE SweepOrphans(w)
    <3>1. \E n : machine'[m] = [machine[m] EXCEPT !.failed = n]
      BY <2>1 DEF SweepOrphans
    <3>. QED
      BY <1>0, <3>1 DEF MachineRow
  <2>. QED
    BY <1>8, <2>1 DEF SweeperNext, SweepStart, SweepFindOrphans, SweepSessions, SweepEnds, tables
<1>9. ASSUME Time PROVE machine'[m].trust = machine[m].trust
  <2>1. TypeOK
    OBVIOUS
  <2>. QED
    BY ONLY <1>9, <2>1, TimePasses, m \in Machines
<1>10. \/ Time
       \/ \E r \in Reqs : JobRoutesNext(r)
       \/ \E r \in Reqs : ApprovalRoutesNext(r) \/ AgentRoutesNext(r) \/ RequestEnds(r)
       \/ \E r \in Reqs : MachineRoutesNext(r)
       \/ \E w \in Sweeps : SweeperNext(w) \/ SweepEnds(w)
  BY DEF Next, Time
<1>. DEFINE Moved == machine'[m].trust # machine[m].trust
            Earned == machine'[m].trust \in machine[m].trust .. machine[m].trust + 2
            Forfeit == /\ machine'[m].trust = Penalise(machine[m].trust)
                       /\ \E j \in ActiveOn(m) : job'[j].status = "failed"
<1>11. Moved => Earned \/ Forfeit
  <2>. SUFFICES ASSUME Moved PROVE Earned \/ Forfeit
    OBVIOUS
  <2>1. ASSUME NEW r \in Reqs, JobRoutesNext(r) PROVE Earned
    BY <1>2, <1>5, <2>1
  <2>2. ASSUME NEW w \in Sweeps, SweeperNext(w) \/ SweepEnds(w) PROVE Forfeit
    BY <1>3, <1>8, <2>2
  <2>. HIDE DEF Earned, Forfeit
  <2>. QED
    BY <1>6, <1>7, <1>9, <1>10, <2>1, <2>2
<1>12. CASE Earned
  BY <1>0, <1>12
<1>13. CASE Forfeit
  BY <1>0, <1>4, <1>13
<1>. QED
  BY <1>1, <1>11, <1>12, <1>13

\* As long as nothing overlaps, trust is earned two points at a time, and lost only with
\* a job, by 15 points or to the floor (jobs.routes.ts:602, sweeper.ts:99).
THEOREM TrustStepsCorrect == ASSUME Overlap = "none" PROVE Spec => TrustSteps
<1> DEFINE Steps ==
      \A m \in Machines :
         /\ machine'[m].trust <= machine[m].trust + 2
         /\ machine'[m].trust < machine[m].trust
              => /\ machine'[m].trust = Penalise(machine[m].trust)
                 /\ \E j \in ActiveOn(m) : job'[j].status = "failed"
<1>1. TypeOK /\ Knows /\ [Next]_vars => [Steps]_vars
  BY TrustStep
<1>2. Spec => [](TypeOK /\ Alone /\ Knows)
  BY KnowsCorrect
<1>3. Spec => [][Steps]_vars
  BY <1>1, <1>2, PTL DEF Spec
<1>. QED
  BY <1>3 DEF TrustSteps
=============================================================================
