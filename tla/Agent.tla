------------------------------- MODULE Agent -------------------------------
(* One provider node: the main thread, the heartbeat thread and the signal  *)
(* handler of agent.py, the containers of its Docker daemon, and the calls  *)
(* it makes to the backend over a network that delays and loses them.  The  *)
(* backend answers a call in one step here; how its handlers interleave is  *)
(* the subject of Backend.                                                  *)
EXTENDS Integers, FiniteSets, JobStatus

CONSTANTS
    Jobs,       \* job ids, all matched to this machine
    MaxStarts,  \* how often the agent is started, at most
    MaxLate,    \* calls given up by their caller and still under way, at most
    None

ASSUME AgentAssumption == /\ None \notin Jobs \cup [job: Jobs] \cup {[reclaim |-> TRUE]}
                          /\ MaxStarts \in Nat \ {0} /\ MaxLate \in Nat

VARIABLES
    row,        \* Job rows: status, and whether machineId is this machine
    online,     \* the machine is not offline and the agent's session is active
    pc,         \* where the main thread is
    job,        \* _current_job_id
    busy,       \* _current_container is set
    exit,       \* exit_code of the polling loop
    flag,       \* _reclaim_flag
    term,       \* SIGTERM or SIGINT is pending
    call,       \* the HTTP call of each thread
    late,       \* calls their caller has given up, still on their way
    docker,     \* the container gridnode_job_<id> of each job
    starts,     \* how often the agent was started
    runs,       \* how often a container was started for each job (history)
    succeeded,  \* jobs whose container exited with 0 (history)
    orphans     \* jobs whose docker run was still under way when the agent started (history)

process == <<pc, job, busy, exit, flag, term>>
world   == <<starts, runs, succeeded, orphans>>
vars    == <<row, online, pc, job, busy, exit, flag, term, call, late, docker,
             starts, runs, succeeded, orphans>>

Threads   == {"main", "beat"}
Container == {"none", "starting", "running", "zero", "other"}

Body == [op: {"next"}]
        \cup [op: {"status"}, job: Jobs, to: AgentReports]
        \cup [op: {"beat"}, busy: BOOLEAN]

Idle         == [at |-> "idle"]
Sent(body)   == [at |-> "sent", body |-> body]
Answer(x)    == [at |-> "done", answer |-> x]
Answered(c)  == call[c].at = "done"
Report(j, to) == [op |-> "status", job |-> j, to |-> to]

Up == pc # "down"

-----------------------------------------------------------------------------
(* The backend, one answer at a time.                                       *)

\* Mistaken variant, for the mutation runs: an assigned job is handed out again.
ClaimableAgain == {j \in Jobs : row[j].status \in {"approved", "queued", "assigned", "running"}}

Claimable == {j \in Jobs : row[j].status \in {"approved", "queued"}}

\* Any claimable job: that it is the oldest is AgentRoutes' subject.
HandOut(answer) ==
    IF Claimable = {}
    THEN answer = None /\ UNCHANGED row
    ELSE \E j \in Claimable :
           /\ answer = [job |-> j]
           /\ row' = [row EXCEPT ![j] = [status |-> "assigned", here |-> TRUE]]

Allowed(j, to) == /\ row[j].here
                  /\ row[j].status # to
                  /\ ~IsTerminal(row[j].status)
                  /\ CanTransition(row[j].status, to)

TakeReport(j, to) ==
    IF Allowed(j, to)
    THEN row' = [row EXCEPT ![j] = [status |-> to, here |-> to # "queued"]]
    ELSE UNCHANGED row

\* What the agent makes of an answer: a job, reclaim, or (204, errors, a
\* timeout, anything it ignores) nothing.
Reclaimed == [reclaim |-> TRUE]
Answers   == {None, Reclaimed} \cup [job: Jobs]

StoppedHere == {j \in Jobs : row[j].here /\ row[j].status \in {"preempted", "cancelled"}}

TakeBeat(isBusy, answer) ==
    /\ answer = IF StoppedHere # {} THEN Reclaimed ELSE None
    /\ row' = [j \in Jobs |-> [row[j] EXCEPT !.here = @ /\ (isBusy \/ j \notin StoppedHere)]]

\* A session that was revoked gets 401; the agent ignores what a report is answered.
Handle(body, answer) ==
    IF ~online THEN answer = None /\ UNCHANGED row
    ELSE \/ body.op = "next" /\ HandOut(answer)
         \/ body.op = "status" /\ TakeReport(body.job, body.to) /\ answer = None
         \/ body.op = "beat" /\ TakeBeat(body.busy, answer)

Serve(c) ==
    /\ call[c].at = "sent"
    /\ \E answer \in Answers : /\ Handle(call[c].body, answer)
                               /\ call' = [call EXCEPT ![c] = Answer(answer)]
    /\ UNCHANGED <<online, process, late, docker, world>>

ServeLate ==
    /\ \E body \in late : /\ \E answer \in Answers : Handle(body, answer)
                          /\ late' = late \ {body}
    /\ UNCHANGED <<online, process, call, docker, world>>

\* People: the provider approves, requester and owner stop, the owner reclaims.
Approve(j) ==
    /\ row[j].status = "pending_approval"
    /\ row' = [row EXCEPT ![j].status = "approved"]
    /\ UNCHANGED <<online, process, call, late, docker, world>>

Stop(j, to) ==
    /\ CanStop(row[j].status)
    /\ row' = [row EXCEPT ![j].status = to]
    /\ UNCHANGED <<online, process, call, late, docker, world>>

Reclaim ==
    /\ row' = [j \in Jobs |-> IF row[j].here /\ row[j].status \in Reclaimable
                              THEN [row[j] EXCEPT !.status = "preempted"] ELSE row[j]]
    /\ UNCHANGED <<online, process, call, late, docker, world>>

\* The sweeper, after three minutes without a heartbeat of the node.
Sweep ==
    /\ online
    /\ online' = FALSE
    /\ row' = [j \in Jobs |-> IF row[j].here /\ row[j].status \in Active
                              THEN [row[j] EXCEPT !.status = "failed"] ELSE row[j]]
    /\ UNCHANGED <<process, call, late, docker, world>>

-----------------------------------------------------------------------------
(* The network: a caller waits for its answer or for its timeout.           *)

\* What becomes of a call whose caller gives up before it was answered.
Abandon(c) ==
    IF call[c].at = "sent"
    THEN \/ late' = late
         \/ Cardinality(late) < MaxLate /\ late' = late \cup {call[c].body}
    ELSE late' = late

TimeOut(c) ==
    /\ call[c].at = "sent" \/ (Answered(c) /\ call[c].answer # None)
    /\ call' = [call EXCEPT ![c] = Answer(None)]
    /\ Abandon(c)
    /\ UNCHANGED <<row, online, process, docker, world>>

-----------------------------------------------------------------------------
(* The main thread: the poll loop of run_agent, and execute_job.            *)

Calls(body) == call' = [call EXCEPT !["main"] = Sent(body)]
Hangs       == call' = [call EXCEPT !["main"] = Idle]

\* docker stop and docker rm: nothing happens to a container that is not there yet.
Stopped(j) == IF docker[j] = "starting" THEN docker ELSE [docker EXCEPT ![j] = "none"]

Poll ==
    /\ pc = "poll"
    /\ pc' = "fetch"
    /\ Calls([op |-> "next"])
    /\ UNCHANGED <<row, online, job, busy, exit, flag, term, late, docker, world>>

Fetched ==
    /\ pc = "fetch" /\ Answered("main")
    /\ Hangs
    /\ IF call["main"].answer # None
       THEN pc' = "allocate" /\ job' = call["main"].answer.job /\ busy' = TRUE
       ELSE pc' = "poll" /\ UNCHANGED <<job, busy>>
    /\ UNCHANGED <<row, online, exit, flag, term, late, docker, world>>

\* resolve_allocation and is_viable: run the job, hand it back, or give up.
\* As the numbers are no job is handed back (Capacity: HandedBack); the branch
\* stands for whatever is_viable may refuse.
Allocate ==
    /\ pc = "allocate"
    /\ \/ pc' = "beginning" /\ Calls(Report(job, "running"))
       \/ pc' = "reporting" /\ Calls(Report(job, "queued"))
       \/ pc' = "reporting" /\ Calls(Report(job, "failed"))
    /\ UNCHANGED <<row, online, job, busy, exit, flag, term, late, docker, world>>

\* report_status returns when it was answered, refused, or timed out.
Begun ==
    /\ pc = "beginning" /\ Answered("main")
    /\ Hangs
    /\ pc' = "prepare"
    /\ UNCHANGED <<row, online, job, busy, exit, flag, term, late, docker, world>>

\* Workspace, clone, dataset and notebook; then the flag is cleared, line 354.
Prepare ==
    /\ pc = "prepare"
    /\ \/ /\ pc' = "launch" /\ flag' = FALSE
          /\ docker' = [docker EXCEPT ![job] = "starting"]
          /\ UNCHANGED call
       \/ /\ pc' = "reporting" /\ Calls(Report(job, "failed"))
          /\ UNCHANGED <<flag, docker>>
    /\ UNCHANGED <<row, online, job, busy, exit, term, late, world>>

\* docker run -d returns, or it or what follows fails.
Launch ==
    /\ pc = "launch"
    /\ \/ pc' = "loop" /\ docker[job] \in {"running", "zero", "other"} /\ UNCHANGED <<call, docker>>
       \/ /\ pc' = "reporting" /\ Calls(Report(job, "failed"))
          /\ docker' = IF docker[job] = "starting" THEN [docker EXCEPT ![job] = "none"] ELSE docker
    /\ UNCHANGED <<row, online, job, busy, exit, flag, term, late, world>>

\* One round of the polling loop that ends it: reclaim, exit, or job timeout.
LoopEnds ==
    /\ pc = "loop"
    /\ \/ flag /\ exit' = "none"
       \/ ~flag /\ docker[job] \in {"zero", "other"} /\ exit' = docker[job]
       \/ ~flag /\ docker[job] = "running" /\ exit' = "other"
    /\ docker' = Stopped(job)
    /\ pc' = "ended"
    /\ UNCHANGED <<row, online, job, busy, flag, term, call, late, world>>

\* An exception inside the loop: reported as failed, the container still there.
LoopFails ==
    /\ pc = "loop"
    /\ pc' = "reporting" /\ Calls(Report(job, "failed"))
    /\ UNCHANGED <<row, online, job, busy, exit, flag, term, late, docker, world>>

\* Mistaken variant: the exit code itself is reported.
VerdictCode(code, reclaimed) == IF reclaimed THEN "preempted" ELSE code

\* Mistaken variant: the agent forgets whether the container got to its end.
VerdictUnlessFailed(code, reclaimed) == IF code = "other" THEN "failed" ELSE "completed"

Verdict(code, reclaimed) ==
    IF reclaimed THEN "preempted" ELSE IF code = "zero" THEN "completed" ELSE "failed"

\* The logs are flushed and, after a success, the artifacts uploaded; an
\* exception on the way is reported as a failure.
Conclude ==
    /\ pc = "ended"
    /\ \E to \in {Verdict(exit, flag), "failed"} : Calls(Report(job, to))
    /\ pc' = "reporting" /\ exit' = "none"
    /\ UNCHANGED <<row, online, job, busy, flag, term, late, docker, world>>

Reported ==
    /\ pc = "reporting" /\ Answered("main")
    /\ Hangs
    /\ pc' = "clean"
    /\ UNCHANGED <<row, online, job, busy, exit, flag, term, late, docker, world>>

\* Mistaken variant: the container is taken to be gone.
LeaveContainer(j) == docker

FinalStop(j) == Stopped(j)

Clean ==
    /\ pc = "clean"
    /\ pc' = "poll"
    /\ docker' = FinalStop(job)
    /\ job' = None /\ busy' = FALSE
    /\ UNCHANGED <<row, online, exit, flag, term, call, late, world>>

MainNext ==
    \/ Poll \/ Fetched \/ Allocate \/ Begun \/ Prepare \/ Launch
    \/ LoopEnds \/ LoopFails \/ Conclude \/ Reported \/ Clean

-----------------------------------------------------------------------------
(* The heartbeat thread, the signal handler, and the process.               *)

BeatSends ==
    /\ Up /\ call["beat"] = Idle
    /\ call' = [call EXCEPT !["beat"] = Sent([op |-> "beat", busy |-> busy])]
    /\ UNCHANGED <<row, online, process, late, docker, world>>

\* _reclaim_flag.set(), and then os.kill: the main thread may run in between.
BeatAnswered ==
    /\ Answered("beat")
    /\ IF call["beat"].answer = Reclaimed
       THEN flag' = TRUE /\ call' = [call EXCEPT !["beat"] = [at |-> "kill"]]
       ELSE call' = [call EXCEPT !["beat"] = Idle] /\ UNCHANGED flag
    /\ UNCHANGED <<row, online, pc, job, busy, exit, term, late, docker, world>>

BeatKills ==
    /\ call["beat"].at = "kill"
    /\ term' = TRUE
    /\ call' = [call EXCEPT !["beat"] = Idle]
    /\ UNCHANGED <<row, online, pc, job, busy, exit, flag, late, docker, world>>

\* The process is gone, and with it what it remembered; another start is left.
Gone ==
    /\ pc' = "down" /\ job' = None /\ busy' = FALSE /\ exit' = "none"
    /\ flag' = FALSE /\ term' = FALSE

\* Mistaken variant: the owner's signal and any other are told alike.
FarewellAlike(reclaimed) == "preempted"

Farewell(reclaimed) == IF reclaimed THEN "preempted" ELSE "failed"

MustShutDown == Up /\ term /\ pc # "farewell"

\* handle_shutdown, entered wherever the main thread is: the container is
\* stopped first, then the backend is told.  (A second signal would enter it
\* once more and only repeat the report.)
Shutdown ==
    /\ MustShutDown
    /\ docker' = IF busy THEN Stopped(job) ELSE docker
    /\ busy' = FALSE /\ job' = None /\ exit' = "none"
    /\ term' = FALSE
    /\ pc' = "farewell"
    /\ IF job # None
       THEN Calls(Report(job, Farewell(flag)))
       ELSE call' = [call EXCEPT !["main"] = Answer(None)]
    /\ Abandon("main")
    /\ UNCHANGED <<row, online, flag, world>>

\* sys.exit; an unfinished docker command is killed with it, not what the daemon
\* does for it.
Exit ==
    /\ pc = "farewell" /\ Answered("main")
    /\ Gone
    /\ call' = [c \in Threads |-> Idle]
    /\ Abandon("beat")
    /\ UNCHANGED <<row, online, docker, world>>

\* The agent dies without a handler; containers, and a docker run under way, stay.
Crash ==
    /\ Up /\ starts < MaxStarts
    /\ Gone
    /\ call' = [c \in Threads |-> Idle]
    /\ Abandon("main")
    /\ UNCHANGED <<row, online, docker, world>>

\* SIGINT or SIGTERM from outside.
Interrupt ==
    /\ Up /\ starts < MaxStarts /\ ~term
    /\ term' = TRUE
    /\ UNCHANGED <<row, online, pc, job, busy, exit, flag, call, late, docker, world>>

\* cleanup_leftover_containers, then the saved session or, with --token, a new
\* one.  A docker run that outlived its agent is not waited for, and not listed.
Start ==
    /\ ~Up /\ starts < MaxStarts
    /\ starts' = starts + 1
    /\ orphans' = {j \in Jobs : docker[j] = "starting"}
    /\ docker' = [j \in Jobs |-> IF j \in orphans' THEN "starting" ELSE "none"]
    /\ online' \in {online, TRUE}
    /\ pc' = "poll"
    /\ UNCHANGED <<row, job, busy, exit, flag, term, call, late, runs, succeeded>>

\* The Docker daemon.  A docker run that lost its agent may come to nothing: it is
\* one that never starts its container.
ContainerStarts(j) ==
    /\ docker[j] = "starting"
    /\ docker' = [docker EXCEPT ![j] = "running"]
    /\ runs' = [runs EXCEPT ![j] = @ + 1]
    /\ UNCHANGED <<row, online, process, call, late, starts, succeeded, orphans>>

ContainerExits(j) ==
    /\ docker[j] = "running"
    /\ \E code \in {"zero", "other"} :
         /\ docker' = [docker EXCEPT ![j] = code]
         /\ succeeded' = IF code = "zero" THEN succeeded \cup {j} ELSE succeeded
    /\ UNCHANGED <<row, online, process, call, late, starts, runs, orphans>>

-----------------------------------------------------------------------------

Init ==
    /\ row = [j \in Jobs |-> [status |-> "pending_approval", here |-> TRUE]]
    /\ online = TRUE
    /\ pc = "poll" /\ job = None /\ busy = FALSE /\ exit = "none"
    /\ flag = FALSE /\ term = FALSE
    /\ call = [c \in Threads |-> Idle]
    /\ late = {}
    /\ docker = [j \in Jobs |-> "none"]
    /\ starts = 1
    /\ runs = [j \in Jobs |-> 0]
    /\ succeeded = {} /\ orphans = {}

People == Reclaim \/ \E j \in Jobs : Approve(j) \/ (\E to \in {"cancelled", "preempted"} : Stop(j, to))
Beat   == BeatSends \/ BeatAnswered \/ BeatKills

Next ==
    \/ MainNext \/ Beat \/ People \/ Sweep
    \/ \E c \in Threads : Serve(c) \/ TimeOut(c)
    \/ ServeLate
    \/ Shutdown \/ Exit \/ Crash \/ Interrupt \/ Start
    \/ \E j \in Jobs : ContainerStarts(j) \/ ContainerExits(j)

Spec == Init /\ [][Next]_vars

-----------------------------------------------------------------------------

TypeOK ==
    /\ row \in [Jobs -> [status: Status, here: BOOLEAN]]
    /\ online \in BOOLEAN /\ busy \in BOOLEAN /\ flag \in BOOLEAN /\ term \in BOOLEAN
    /\ pc \in {"down", "poll", "fetch", "allocate", "beginning", "prepare", "launch", "loop",
               "ended", "reporting", "clean", "farewell"}
    /\ job \in Jobs \cup {None}
    /\ exit \in {"none", "zero", "other"}
    /\ call \in [Threads -> {Idle, [at |-> "kill"]} \cup [at: {"sent"}, body: Body]
                              \cup [at: {"done"}, answer: Answers]]
    /\ late \subseteq Body
    /\ docker \in [Jobs -> Container]
    /\ starts \in 1..MaxStarts
    /\ runs \in [Jobs -> Nat]
    /\ succeeded \subseteq Jobs /\ orphans \subseteq Jobs

\* A job is started at most once, however often its agent dies, its reports are
\* lost or arrive late, and it is handed back.
RunsOnce == \A j \in Jobs : runs[j] <= 1

\* A node runs one container at a time (agent/summary.md, single job at a time),
\* also over a crash, a shutdown in the middle of docker run, and a restart: but for
\* the containers of a docker run that was still under way when the agent started
\* again, which its cleanup neither lists nor waits for.
Live(j) == docker[j] \in {"starting", "running"}

OneContainer == \A j, k \in Jobs \ orphans : Live(j) /\ Live(k) => j = k

\* A requester is told `completed` only of a job whose container exited with 0.
CompletedRan == \A j \in Jobs : row[j].status = "completed" => j \in succeeded

\* A report ends a job as preempted only after people have stopped a job of this
\* machine: not for a signal of another origin, and not for what a process before
\* was told.  (It need not be the same job: the heartbeat names none, agent.py:187.)
PreemptionAsked ==
    [][\A j \in Jobs :
         row'[j].status = "preempted" /\ row[j].status # "preempted" /\ <<call, late>>' # <<call, late>>
            => \E k \in Jobs : row[k].status \in {"preempted", "cancelled"}]_vars
=============================================================================
