# GridNode in TLA+

GridNode lets people run jobs on each other's computers. A requester submits a
notebook; the backend (`src/be`, Express, Prisma and Postgres, Socket.IO, BullMQ)
matches it with a provider's machine; the provider approves; an agent on the
machine (`src/agent`, Python) polls for the job, runs it in a Docker container,
streams its log, uploads its results and reports its status; a web UI (`src/fe`)
shows all of it.

This directory holds TLA+ models of the parts that carry state and run
concurrently, the TLC configurations that check them on small instances, and
TLAPS proofs about the backend, the node, the workspace, the datasets, the log, the
results, the allocation and the job page for instances of any size. `PROJECT.json` maps every
definition to the lines it models and lists components, runs, hazards, known
disagreements between code and documentation, and theorems.

    tlc -workers 2 -config Overlap.cfg MCBackend    # one run
    tlapm Backend_proofs.tla                        # the proofs of one module

## 1. Inventory

| Component | State | Operations | Hard because | Correct when |
|---|---|---|---|---|
| Job routes `be/src/routes/jobs.routes.ts` | `Job`, `JobLog`, `Artifact` rows | create, stop, agent's status report, append log, presign and register artifact | every `await` lets other requests in; stop writes by id what it checked earlier | a job moves along the table of `lib/jobStatus.ts`, an end is counted and mailed once |
| Approvals `approvals.routes.ts` | `Approval` row, the job's status | approve, reject | two tabs, stop and reclaim race with the decision | nothing runs without consent, the two rows agree |
| Agent sessions, poll `requireAgentAuth.ts`, `agent.routes.ts` | `AgentSession` | authenticate, hand out the oldest job | several machines of one owner, sessions that outlive a registration | a job is on one machine, of its provider |
| Machine registry `machines.routes.ts` | `Machine` | register, heartbeat, reclaim | a heartbeat answers before it writes; no session is revoked by a new one | a stopped job's agent is told |
| Sweeper `lib/sweeper.ts` | snapshots in memory | every minute: machines silent for 3 min, orphaned jobs, stale sessions | sweeps overlap and break off; snapshots age | jobs of lost machines are failed, once |
| Matching `lib/matchCriteria.ts`, `jobs.routes.ts:163-216` | none | requirements, query, sort | tolerances, a comparator that is not transitive | the match is near the best fit and the machine can run the job |
| Agent `agent.py`, `docker_runner.py` | globals, container, pending signal | poll, execute, heartbeat, shutdown | two threads and a signal handler share globals; calls time out; crashes | one container, truthful reports, termination when told |
| Allocation `resources.py`, `docker_runner.py` | snapshot | snapshot, allocate, viability | has thresholds of its own | a matched job gets what it asked for |
| Log streamer `log_streamer.py` | buffer, two threads | read, flush, stop | flushes time out and are repeated, lines come meanwhile | nothing read is lost, order is kept, `stop()` returns |
| Artifact upload `artifact_uploader.py` | two lists | presign, PUT, register per file | each step can fail alone or arrive late | every link leads to an object |
| Result mail `be/src/queues`, `lib/email.ts` | queue entry | add, read, send, retry | send is not idempotent, the worker dies | the mail is complete, and repeated boundedly |
| Job page `fe/app/jobs/[id]/page.tsx` | rows shown, next sequence, spinner, error | fetch job, artifacts, log (full and incremental); visit, stop, announcements | answers and announcements meet in any order, also those of a page left before | it shows its own job, the log has no hole, what was announced is fetched |
| Sockets `be/src/sockets`, `fe/lib/socket-context.tsx` | rooms, messages held back | handshake, join, leave, emit, reconnect | joining is asynchronous; a connection breaks before the client knows, and is given up after a refusal or five attempts | an open page is in the room of its job |
| Workspace of the agent `workspace.py`, `docker_runner.py`, `agent.py` | directories, volumes, credentials, and the globals that remember them | create, clone, download, install, remove; cleanup at a start | the signal handler removes what the main thread is still making; removals are refused | nothing of a job is left when the next is asked for, the handler ends the agent |
| Dataset `workspace.py`, `docker_runner.py` | files below `data/` | stream, extract, flatten, rename, find | files are moved over each other; names change | the notebook's `DATA_PATH` leads to a file |
| Prerequisites, configuration (agent) | files | check, read, write | sequential | taken as a choice of success or failure |
| Sign-in, read-only endpoints, audit events, server start, other pages, deployment | – | – | – | not modelled, see section 7 |

Components interact through the database (the routes and the sweeper share the
rows, there are no locks but the compare-and-set of single updates), over HTTP (the
agent calls and never is called: a stop reaches it as the answer of a heartbeat),
over the queue, and by socket announcements that make pages fetch again.

## 2. Modules

    JobStatus ── Tables ─┬─ JobRoutes ──────┐
                         ├─ ApprovalRoutes ─┤
                         ├─ AgentRoutes ────┼─ Backend ── Backend_proofs
                         ├─ MachineRoutes ──┤     │
                         └─ Sweeper ────────┘     └ INSTANCE JobLifecycle (abstract)
    JobStatus ── Agent ── Agent_proofs
    Workspace ── Workspace_proofs       Dataset ── Dataset_proofs
    LogStreamer ── Logs ── Logs_proofs  JobPage ── JobPage_proofs
    Capacity ── Capacity_proofs         Results ── Results_proofs
    MCBackend, MCAgent, MCWorkspace, MCDataset, MCLogs, MCJobPage, MCCapacity, MCResults:
    values of the constants

**Tables** declares the rows and the requests in flight. A handler is split at
its `await`s: `FooCheck`/`FooFind` reads, tests the guards and parks what the
handler keeps in local variables in a slot of `req`; `FooCommit` writes. A single
Prisma call and a `$transaction` are one step. `RequestEnds` ends a request wherever
it is parked: a database error, a refusal, a restart of the server.

**JobRoutes**, **ApprovalRoutes**, **AgentRoutes**, **MachineRoutes** and
**Sweeper** hold the handlers; the sweeper parks its snapshots in `sweep`.
**Backend** composes them with the two consequences of time (a machine silent for
three minutes, a session for ten), states the properties and the fairness.
`Overlap` says which requests may overlap: `"all"`; `"fleet"`, where users'
requests run alone and those of agents and sweeps overlap freely; `"none"`. `InFlight`
bounds how many requests and sweeps are under way at once; the proofs hold for any value.

**JobLifecycle** is the abstract specification of one job: the provider decides
once, the job is held by at most one machine of that provider, a result needs a
started job, an end is final, a mail follows a result. `Backend` instantiates it for
every job (`Life(j)`; the refinement mapping is above `Lifecycle`).

**Agent** is one node: `pc` is the main thread of `run_agent` and `execute_job`,
`call` the HTTP call of the main and of the heartbeat thread, `term` a pending
signal, `docker` the containers. The backend answers each call in one step there.
A caller may give up (`TimeOut`); the call is then lost or kept in `late` and served
later. `Crash` loses the process and keeps containers and rows; `Start` models
`run_agent` up to its loop, which removes the containers that `docker ps` lists. It
waits for nothing: a `docker run` that outlived its agent (`docker[j] = "starting"`) may
create its container before, during or after that, or never. `orphans` remembers for
which jobs it was still to come when the agent started.

**Workspace** is the same node seen from its disk: every place of `execute_job` where
something is created, remembered in a global or removed is a `pc`, a signal may
interrupt the main thread at each, and the handler runs on top of it (`at` is where
the main thread was). `docker`, `setup`, `volume`, `disk` and `creds` are what is
there; `container`, `depVolume`, `workspace` what the process remembers of it. A
removal may be refused (`Refused`, `inUse`); the startup cleanup is `StartNext`. What a
Docker command has asked the daemon for is in `asked` until the daemon has done it, with
or without the agent that asked; `writers` are git and kaggle, which outlive a killed agent
too. Nothing waits for either, a start included, and both make a directory again that was
removed under them (`docker run -v`, `kaggle --path`). `revived` remembers the jobs for
which something was made since the start that no agent waits for any more. Calls
to the backend are only places to be interrupted at; Agent has them.

**Dataset** is a pure pipeline: the members of a dataset are moved below `data/` by
extraction, flattening and renaming, and `FindDataFile` chooses `DATA_PATH`. Paths are
sequences of names, and a file is known by the member it was. `MovedAll` says in one
expression what the loops of the flattening do to all files of the directory at once.

**LogStreamer** follows the lines through read thread, buffer, flush and
`POST /:id/logs`; **Logs** adds `GET /:id/logs` and the log viewer of the job page.

**JobPage** is the rest of that page: which job the address names, the job and artifact
panels with their spinner and error, the stop button, and the socket with its rooms.
`calls` counts the requests under way by panel, job and the version they were served
with, so that any of them may be answered at any time; `out` holds the messages of the
socket, which it keeps back while it knows to be down and loses while it does not. An
attempt to connect ends with a connection, with a handshake that finds no session, after
which socket.io's client does not try again, or with the last attempt (`link = "over"`).

**Capacity** follows one request from the tiers through the query and the sort to
the allocation on the node. Sizes are MB, 1/100 GB, tenths of cores as in the code;
waste is in 1/10000, rounded down, and the hardware of the instance keeps clear of
the 5 % boundary. The sort is only assumed to leave neighbours in order, which is
what sorting by a comparator that is not transitive guarantees (insertion compares
an element with both of its neighbours).

**Results** follows files from `outputs/` over presign, PUT and registration to the
links of the mail and of the page's downloads (`listed` is the artifact panel, `opened`
the links it was given), and the mail through the queue. The queue's bookkeeping (counted
attempts, stalled entries) and the bucket are external.

## 3. Runs

| Run | Instance | Shows |
|---|---|---|
| Serial | 2 jobs, 1 machine, 2 sessions, 1 request at a time, 1 sweep, trust 20 and 99 | `TypeOK`; `Lifecycle`: the backend implements `JobLifecycle`; `StoppedAgentTold`; `TrustSteps` |
| Overlap | 1 job, 2 people with a machine each, 2 sessions, 2 requests, `"all"` | `Consent`, `Placement`, `DecisionBinds`, `AgentMoves` under every race |
| Fleet | 1 job, 2 requests and 2 sweeps, 2 of them in flight at once, `"fleet"`, fairness | `CountedOnce`, `MailedOnce`, `SilentJobsFail` |
| Node | 2 jobs, 2 starts, 1 late call, lost calls, signals | `TypeOK`, `OneContainer`, `CompletedRan`, `RunsOnce`, `PreemptionAsked` |
| Workspace | 2 jobs, 3 starts, 2 signals, fairness | `TypeOK`, `NothingLeft`, `CredentialsGone`, `Terminates` |
| Dataset | every dataset out of 12 members, three kinds | `PathLeads`, `MembersKept` |
| Logs | 3 lines, batches of 2, pages of 2, 1 late request, fairness | `TypeOK`, `NothingLost`, `StoredInOrder`, `ShownGapless`, `StopReturns` |
| JobPage | 2 jobs, 1 change, 3 events, any number of requests under way | `TypeOK`, `OwnPage`, `Listening`, `AnnouncedFetched` |
| Capacity | 3 machines, 5 kinds of hardware, 4 requests | `BestFitDrift`, `MatchedRuns`, `AllocationFits` |
| Results | 2 files, 5 attempts, 1 stalled entry, fairness | `TypeOK`, `LinksLead`, `MailComplete`, `CopiesBounded`, `MailGoesOut` |
| StopRace | 1 job, stop and report overlap | refutes `ResultFinal` (finding) |
| HandBack | as Capacity | refutes `HandedBack` (finding) |

Why the bounds are enough to be interesting: a race of the backend needs two
requests in flight, which is what Overlap has, with a second machine of a second
owner for misplacement; a request at a time, but twice the jobs and sessions and a
re-registration, covers sequences (Serial); in Fleet any two of two
requests and two sweeps overlap: two sweeps that share a snapshot, a claim or a report
beside a sweep, two reports. For any number in flight there are `CountedOnceCorrect` and
`MailedOnceCorrect`; `SilentJobsFail` was also checked with `InFlight = 3` (500 thousand
states). On the node, two jobs let a left-over container, or a `docker run` that outlived its
agent, meet a new one, two starts are one crash and one recovery, and one late call
outlives the process that made it. On the disk three starts let a startup cleanup be
killed and be followed by another, and an orphan of the first process act in the third;
the second signal interrupts the handler of the first. The members of Dataset are up
to three directories deep, with and without blanks, with names that collide after
renaming, and with the download's own name. Three lines in batches of two make a flush
that is full, one that is not, and lines that arrive meanwhile; `Lines` does not exceed
`MaxBuffer`, so the buffer does not overflow. Two jobs on the job page are one that is
left and one that is visited, and three events are enough for a change between a broken
connection and its end, or for two visits with an answer of the first. `Sessions`,
`MaxStarts`, `MaxLate`, `MaxStored` bound what the code does not bound; their comments
say so. The largest runs are Node (6.6 million states up to symmetry), Serial (1.4 million) and Workspace
(0.8 million). In Capacity the memory of three kinds of hardware differs by less than 5 % from
one to the next and more from the first to the last, and two GPUs lie between the
backend's tolerance and the nominal tier. Symmetry is used in Overlap, over
requests and sessions, and in Node and JobPage, over jobs, which nothing orders there;
none of them has a liveness property. Deadlock is checked except in Workspace, Dataset, JobPage,
Capacity and Results: their jobs, signals or events come to an end.

### Fairness

- Fleet: requests end (Express answers or the connection breaks), and the stages of a
  sweep are strongly fair: `setInterval` starts a sweep each minute whatever became of
  the one before, and a sweep may break off now and then, but not every time. Both are
  stated of all requests and of all sweeps together, as weak and strong fairness of
  "one of them does it": no particular slot has a claim. Users, agents and time are not
  fair.
- Workspace: the handler and the main thread make progress (`docker stop`, `rmtree`
  and the report all return or time out). Signals, crashes, containers and whoever
  makes a removal fail are not fair.
- Logs: the loops of the streamer, `stop()` and the network; the page and the
  container are not fair.
- Agent and JobPage have none. That a spinner ends is stated as a safety property: it
  always waits for a request under way (`OwnPage`).
- Results: the worker's process runs and is started again. The agent is not fair.

## 4. Proofs

`Backend_proofs` proves for any finite set of jobs and any sets of users, machines,
sessions, requests and sweeps, with every overlap:

- `TypeCorrect`: `Spec => []TypeOK`;
- `SafeCorrect`: `Spec => []Safe`, and from it `ConsentCorrect`,
  `PlacementCorrect`, `DecisionBindsCorrect`;
- `AgentMovesCorrect`: the action property `AgentMoves`.

`Safe == Consent /\ Placement /\ DecisionBinds /\ RequestsSound` is the inductive
invariant. The three properties alone are not inductive: a parked approval would
write whatever it remembers, so the invariant must say what a parked request may
still assume of the row it read – only what no other request can change (the
provider of a job, that it exists, that the status a report saw was not terminal).
What it may *not* assume, that the status is still the one it checked, is where the
code relies on compare-and-set, or does not. The proof goes handler by handler:
lemmas state how one row changes (`JobRowUpdate`, …), then that a row which satisfies
the invariant still does, for each module's `Next`; the last step combines them with
`PTL`. Assumptions: `OwnerAssumption`, `NoneAssumption`, `JobsAssumption`,
`TrustAssumption` of `Tables`, evaluated by every run of Backend, as is
`InFlightAssumption`, which no proof needs.

Six more properties hold under the conditions the code needs for them. Under
`Overlap # "all"` the requests of users overlap nothing (`Exclusive`), those of
agents and sweeps overlap as they like, and a stop, an approval or a rejection finds
the rows as it checked them (`Fresh`):

- `LifecycleCorrect`, the refinement: every step maps to a step of `JobLifecycle` or to a
  stutter, for every job. `RowStepNext` gives the moves of the status
  by the handlers that test it as they write it; `Duly` adds what only `Fresh` gives, the
  moves of those that write by id; the abstract `Notify` is the mail step, which
  `MailRight` allows once;
- `ResultFinalCorrect`: a user's request cannot be about to write the row of a job with a
  result. StopRace shows that `ResultFinal` does not hold under `"all"`;
- `MailedOnceCorrect` follows the right to mail a job, a token: the row has it until the
  report that ends the job takes it, that request carries it to the queue, and nobody
  gives it back (`MailRight`);
- `CountedOnceCorrect`: `CountedOnce` asks for a charge, a function from jobs to machines
  that explains every counter by the ended jobs charged to it. The invariant has such a
  function in every state (`Ledger`): a job of which a report still has to count the end
  is charged to nobody, and the step that counts it charges it to the machine whose counter
  it raises. `CreditsEnd` says that what a parked report counts is the end that the row
  has, and `OrphansOnce` that a sweep lists an orphan with one machine only.

Under `Overlap = "none"` at most one request or sweep is under way (`Alone`), so what it
has read is still so when it writes (`Knows`: the answer a heartbeat prepared, the trust
a report read, the snapshot of a sweep). From it follow:

- `StoppedAgentToldCorrect`: the heartbeat that clears the machine of a stopped job is the
  one that tells its agent; a job cancelled between the read and the write of the same
  heartbeat breaks it as soon as users overlap agents;
- `TrustStepsCorrect`: a bonus of at most 2, and a penalty only together with a failed job.

`Results_proofs` proves for any set of files and any numbers of attempts and of stalled
hand-outs, under `ResultsAssumption`: `TypeCorrect`, `LinksLeadCorrect`,
`MailCompleteCorrect` and `CopiesBoundedCorrect`. The properties say nothing of what
is under way, so the inductive invariant `IInv` adds it: a registration in the agent's
hand or on its way has its object in the bucket (`Stored`); so has every link that the
worker holds (`Leading`); a report on its way, a completed row, an entry of the queue each
mean that the agent's lists are final and the row is no longer running (`Final`); what the
worker has read is no older than that (`Complete`); and every mail sent but the last has
used up an attempt or a hand-out (`Counted`).

`Agent_proofs` proves for any jobs, any number of starts and of late calls, under
`AgentAssumption`:

- `TypeCorrect`: `TypeOK`, and that the main thread holds a job wherever it works on one;
- `OneContainerCorrect`: where the main thread is determines which container may be
  alive (`Alone`), in a process that crashed as in one that goes on. It speaks of the
  containers that are not `orphans`: one whose `docker run` was under way when an agent
  started escapes its cleanup and may run beside the next job, which nothing in the code
  prevents. That this is the only way to two containers is the theorem;
- `CompletedRanCorrect`: a report of `completed` in anybody's hand – the main thread's, a
  call's, a late one's – was earned by a container that exited with 0 (`Earned`);
- `PreemptionAskedCorrect`: whoever is about to report a preemption, or may still be
  told to, does so after people stopped a job of this machine (`Asked`);
- `RunsOnceCorrect`: the right to start a job is a token with one place at a time, the
  row, an answer on its way, the main thread, `docker run`, or a report that hands the
  job back (`Token`).

`Workspace_proofs` proves for any jobs, starts and signals, under
`WorkspaceAssumption`: `TypeCorrect`, `NothingLeftCorrect` (from `Tidy`: what a process
has made and not removed is remembered in one of its globals, or the place of the main
thread or of the handler tells that it is about to be, or Docker, git or kaggle have made
it since the start for nobody, `revived`) and `CredentialsGoneCorrect`
(from `Secret`: the credentials are there only at places where the main thread, or the
place the handler interrupted, still has to remove them).

`JobPage_proofs` proves for any jobs and events, under `JobPageAssumption`:
`TypeCorrect`; `OwnPageCorrect`; `ListeningCorrect`, from what the messages on their way,
those the client holds back and the joins being looked up will amount to (`Room`); and
`AnnouncedFetchedCorrect`, from `Told`: a panel that is behind what was announced has a
request under way that is not served yet or was served with that version at least.

`Logs_proofs` proves `TypeCorrect` and `ShownGaplessCorrect` (`Single`: at most one fetch
is under way, and it starts at the beginning or where the list ends) for any table and page
size, and, under `Lines <= MaxBuffer`, `NothingLostCorrect` and
`StoredInOrderCorrect` (`InTransit`: all lines before the first of the buffer are stored,
the batch on its way is a beginning of the buffer, and a late batch starts no later, so
that no line can be stored before an earlier one).
The condition is necessary: TLC refutes both with a buffer that overflows.

`Capacity_proofs` proves for any machines, hardware and requests that satisfy
`CapacityAssumption`: `TypeCorrect`, `MatchedRunsCorrect`, `AllocationFitsCorrect`, and
`NeverDeferredCorrect`, which says that the branch of `execute_job` that hands a job back
is never taken and so makes the finding of HandBack one of every instance. They follow from bounds of the clamps and roundings
(`AllocationBounds`) and from `ToleratedEnough`: the least video memory the backend
tolerates for any tier is more than the agent asks for. The fifth is the action property
`BestFitDriftCorrect`. The comparator leaves neighbours either in order or nearly
identical, so that from one machine of the sorted list to the next the waste falls by at most 500 of its
units (`NeighbourWaste`), and from the first machine to the k-th by at most k - 1 times
that (`Drift`). That is an induction along the list; it is done with the least position
of a counterexample, which exists (`LeastNatural`, from the library's theorems on
well-founded relations) and whose predecessor is none.

`Dataset_proofs` proves `PathLeadsCorrect` and `MembersKeptCorrect` for any dataset, any
set of names and any way of replacing blanks, under `DatasetAssumption` (replacing blanks
twice is replacing them once and keeps data files data files; `input` has no blank and is
not a data file). The invariant says of each file in `data/input` which member it is: no
other file is the same member, and its name is the member's, but for blanks (`Traced`); each
member is there, has the name of the download or shares its name with another (`Saved`); and a data file that was at hand is at the top of `input/` when the search
begins (`OnTop`). One lemma for each of extraction, download, flattening and renaming
says what it does to the set of files (`Flattened`, `Renamed`, …), and `FoundOnTop`
that the search ends at a file of the top directory if there is one.

Only model-checked is liveness (`SilentJobsFail`, `Terminates`, `StopReturns`,
`MailGoesOut`), which needs ENABLED. Every other property of the passing runs is a
theorem.

## 5. Where code and documents disagree

Two runs each refute a statement of the repository; `PROJECT.json` quotes them.

- **StopRace**: "Otherwise a terminal job is final" – the stop handler updates by id
  what it checked one `await` earlier, and turns a completed job into a cancelled one.
- **HandBack**: "it accepted the job, found it could not be allocated locally, and handed
  it back to the queue" (`jobStatus.ts:21-22`, and the agent's tests) – `execute_job`
  raises before it asks `is_viable`, so a GPU job whose GPU is gone fails. The branch that
  hands back is dead code (`NeverDeferredCorrect`): `is_viable` looks for a tier that
  `normalise_job` drops, and for minima that `resolve_allocation` has provided.

## 6. What does not hold, and is not claimed

TLC shows these when the corresponding bound or condition is lifted; no run states them.

Backend:

- Opposite decisions of one provider that overlap: the later one wins, also over a
  job that is already assigned.
- An approval in flight is written by id, as a stop is: one that was checked before a
  cancellation of the pending job and is committed after it revives the job, which is then
  handed out although its requester has cancelled it.
- The trust score is read, computed and written in separate steps: of an overlapping
  bonus and penalty one is lost.
- A sweep fails a job of its snapshot that another machine has taken up meanwhile.
- An idle heartbeat can release a stopped job although its answer does not say
  `reclaim`, and nothing repeats the answer if it is lost.
- The match can waste more than 5 % more than the best fit (`CONTEXT.md:128`): only
  `BestFitDrift` holds.
- A mail may come after an artifact was registered too late to be in it, if the
  agent had given that file up.

Agent:

- A heartbeat answers `reclaim` for any stopped job that names the machine, and the
  agent reports the job it executes as preempted, which may be one that nobody stopped
  (`jobs.routes.ts:561`). `PreemptionAsked` says only that people stopped some job.
- When the report of `running` is lost, the later `completed` is an illegal transition,
  and the success is never recorded (`agent/summary.md:225`).
- An agent that is restarted, or whose answer to a poll was lost, does not know the job
  it has; the row stays where it is, since the machine is alive. An agent whose machine
  was swept is answered 401 for ever.
- A signal during `docker run` leaves a container that starts after the agent has
  gone (`CONTEXT.md:240`). The next start removes it, if the daemon has created it by then:
  `cleanup_leftover_containers` lists the containers once and waits for nothing. Otherwise
  it runs beside the next job, until the start after that.
- In the same way a `docker run`, `docker volume create`, git or kaggle that lost its agent
  may make a container, a volume or a directory after the cleanup has looked. `OneContainer`
  and `NothingLeft` except these (`orphans`, `revived`), and nothing else.
- A directory that cannot be removed raises in the signal handler, which is left where
  the main thread was: the agent lives on and keeps saying that it runs the job. A
  cleanup at a start stops at the first such directory and leaves those
  behind it. `Terminates` and `NothingLeft` except these (`Refused`, `kept`).
- Credentials stay on the disk when the process ends while it writes or uses them; no
  start looks for them. `CredentialsGone` is about a first process.
- A data file at the top of an archive that also has a directory `input` with a directory of
  the file's name is moved into that directory (`workspace.py:303-308`), and
  `DATA_PATH` names the directory; `AtHand` leaves it out.
- Files of a dataset below more than one directory are not moved to the top
  (`workspace.py:276`), and the `DATA_PATH` of a file found there does not exist.
- `stop()` of the streamer drops what the read thread had not read
  (`agent/summary.md:73`); a full buffer drops lines a flush is carrying.

Job page:

- What is shown may be older than what was seen: answers are applied in the order they
  arrive. An error, once set, hides the job until the next visit (`page.tsx:110`).
- Nothing is fetched again when a connection comes back, and an update between the first
  fetch and the join is not announced to the page: a page that hears nothing may stay
  behind. A refused join is not repeated. The connection may stay in the room of a page
  it has left, whose announcements the page ignores.

## 7. Abstractions, and what is left out

- A `$transaction` is atomic. Postgres runs it at READ COMMITTED; the transactions
  here write rows by id or with a compare-and-set, and the ones with several reads are
  split where they read before they begin.
- `JobEvent` rows, payloads of sockets and text of mails carry no state that is read.
- In Backend any eligible machine may be matched; fit is Capacity's subject. The
  filter by GPU vendor and tolerances set by environment are left out.
- Agent is handed any claimable job, not the oldest (Backend has the order). It takes
  allocation, clone, download and notebook preparation as choices of success or failure,
  and images as part of `docker run`. A second signal inside the
  handler (Workspace has it) and a `docker wait` that misreports are left out. Its
  backend answers in one step; Backend has the interleavings.
- Workspace does not distinguish what is inside a directory, lets each job be handed
  out once, and has no `DEBUG_KEEP_WORKSPACE`, which keeps directories on
  purpose. An allocation that does not fit, a failed clone and a failed download are
  one way to the `finally` clause.
- Dataset sees names and kinds of files, not contents; the zip library and the download
  are external.
- LogStreamer leaves out blank lines, and a `stop()` while the container still writes.
- Results has the mail of a completed job; that of a failed one goes the same way, but
  without files, since the agent then uploads none. A link does not expire (one hour in
  `s3.ts`).
- JobStatus lists the five statuses that the agent reports. The endpoint takes any from its
  caller and leaves it to `canTransition`.
- JobPage shows versions instead of rows. Whether a user may see a job is a choice of
  the request and of the join (`Fails`, a refused join). The panels that
  only read the job's row and the stop's confirmation are left out; a download is in
  Results, whose page shows one job.
- Not modelled: sign-in (a library) and session cookies, whose absence is a choice of
  each request and handshake; the lists of jobs and of pending approvals and `canViewJob`,
  which change nothing; the audit trail, which nothing reads; server start,
  configuration and the database client, which run once and in sequence; list pages and
  forms, whose only state is what they last fetched; prerequisites and disk space of the
  agent; deployment and monitoring, which hold no program logic.

Assumptions about time that the code does not enforce:

- `stop()` of the streamer gives up the flush thread after ten seconds (`join`,
  `log_streamer.py:43-45`). Its sleep and a flush, with five seconds to connect and five
  between two bytes of the answer, are taken to be over by then (`Joined`); otherwise two
  flushes could trim one buffer.
- `docker stop`, `docker rm`, `docker volume rm` and the startup cleanup take effect in the
  step that calls them. What is *asked* of the daemon (create, start) takes any time.

## 8. Plan

Built, in this order: Tables and the routes, Sweeper, Backend, JobLifecycle and
`Backend_proofs`; Agent; LogStreamer and Logs; Capacity; Results and `Results_proofs`;
Workspace, Dataset and JobPage; the proofs of Agent, Workspace, JobPage, Logs, Capacity
and of what holds when users do not overlap; `CountedOnce` and Dataset restated so that
they could be proved, and their proofs. Left:

1. Agent and Backend composed: the poll and the reports with their interleavings,
   so that a restart that forgets its job can be stated over both.
2. A buffer that overflows: what of the log is lost then, exactly.
3. Prerequisites and disk space of the agent.
