----------------------------- MODULE Workspace -----------------------------
(* What the jobs of a node leave behind: containers, dependency volumes,    *)
(* workspace directories and the Kaggle credentials, over execute_job, its  *)
(* finally clause, the signal handler and the cleanup at a start.  Agent    *)
(* has the calls to the backend; here a call is only a place where the main *)
(* thread may be interrupted.                                               *)
EXTENDS Integers, FiniteSets

CONSTANTS
    Jobs,       \* the jobs the backend hands out, each once
    MaxStarts,  \* how often the agent is started, at most
    MaxSignals, \* how often a process is told to stop, at most
    None

ASSUME WorkspaceAssumption ==
    None \notin Jobs /\ MaxStarts \in Nat \ {0} /\ MaxSignals \in Nat

VARIABLES
    pc,         \* where the main thread is
    at,         \* where it was when the signal handler interrupted it
    term,       \* SIGTERM or SIGINT is pending
    cur,        \* the job execute_job was called with
    ws,         \* its local variable ws is set
    credsPath,  \* creds_path of download_kaggle_dataset is set
    container,  \* _current_container, by its job
    depVolume,  \* _current_dep_volume, by its job
    workspace,  \* _current_workspace, by its job
    docker,     \* the container gridnode_job_<id> of each job
    setup,      \* jobs whose container setup_<id> is alive
    volume,     \* jobs whose volume deps_<id> exists
    disk,       \* the directory job_<id> of each job
    writers,    \* jobs whose git or kaggle process is writing into the directory
    asked,      \* what docker commands have asked the daemon for and not got yet
    creds,      \* ~/.kaggle/kaggle.json is there
    todo,       \* jobs not handed out yet
    starts,     \* how often the agent was started
    signals,    \* how often this process was told to stop
    kept,       \* directories whose removal was refused or skipped since the start (history)
    inUse,      \* volumes whose removal was refused (history)
    revived     \* jobs for which something was made since the start that no agent waits for (history)

locals  == <<cur, ws, credsPath>>
globals == <<container, depVolume, workspace>>
node    == <<docker, setup, volume, disk, writers, asked, creds>>
history == <<todo, starts, signals, kept, inUse, revived>>
vars    == <<pc, at, term, cur, ws, credsPath, container, depVolume, workspace, docker, setup,
             volume, disk, writers, asked, creds, todo, starts, signals, kept, inUse, revived>>

Handler  == {"stopContainer", "removeVolume", "cleanup", "notify"}
Starting == {"leftContainers", "leftVolumes", "leftWorkspaces"}
Finally  == {"finalStop", "finalVolume", "finalCleanup"}
RunPhase == {"deps", "install", "launch"}
Working  == {"allocate", "create", "made", "clone", "cloning", "download", "creds", "kaggle",
             "prepare", "started", "loop", "upload", "report"} \cup RunPhase
Down     == pc = "down"

\* Mistaken variant, for the mutation runs: a second signal forgets what the first met.
DoingNow == pc

\* The handler runs on top of the main thread: what that was doing is still under way.
Doing == IF pc \in Handler THEN at ELSE pc

-----------------------------------------------------------------------------
(* Removals.                                                                *)

\* Mistaken variant: the container is stopped, and not removed.
StoppedOnly(j) == [docker EXCEPT ![j] = IF @ = "none" THEN "none" ELSE "exited"]

\* docker stop and docker rm; nothing happens to a container that is not there.
WithoutContainer(j) == [docker EXCEPT ![j] = "none"]

\* docker volume rm is refused while any container, running or not, mounts the volume.
Mounted(j) == j \in setup \/ docker[j] # "none"

RemoveVolume(j) ==
    IF j \in volume /\ Mounted(j)
    THEN inUse' = inUse \cup {j} /\ UNCHANGED volume
    ELSE volume' = volume \ {j} /\ UNCHANGED inUse

\* shutil.rmtree: raises at a directory that another user made in it, and may
\* raise at one that somebody writes to.
CanRemove(j) == disk[j] # "foreign"
CanRefuse(j) == disk[j] = "foreign" \/ (disk[j] = "made" /\ j \in writers)

Removed(j) ==
    /\ CanRemove(j)
    /\ disk' = [disk EXCEPT ![j] = "none"]
    /\ UNCHANGED kept

Refused(j) == CanRefuse(j) /\ kept' = kept \cup {j} /\ UNCHANGED disk

-----------------------------------------------------------------------------
(* execute_job.                                                             *)

Goto(p) == pc' = p /\ UNCHANGED <<at, term>>

Fetch(j) ==
    /\ pc = "poll" /\ j \in todo
    /\ Goto("allocate")
    /\ cur' = j /\ ws' = FALSE /\ container' = j
    /\ todo' = todo \ {j}
    /\ UNCHANGED <<credsPath, depVolume, workspace, node, starts, signals, kept, inUse, revived>>

\* Too little hardware, or `running` is reported.
Allocate ==
    /\ pc = "allocate"
    /\ \E p \in {"create", "report"} : Goto(p)
    /\ UNCHANGED <<locals, globals, node, history>>

Create ==
    /\ pc = "create"
    /\ Goto("made")
    /\ disk' = [disk EXCEPT ![cur] = "made"]
    /\ UNCHANGED <<locals, globals, docker, setup, volume, writers, asked, creds, history>>

RememberWorkspace ==
    /\ pc = "made"
    /\ Goto("clone")
    /\ ws' = TRUE /\ workspace' = cur
    /\ UNCHANGED <<cur, credsPath, container, depVolume, node, history>>

CloneStarts ==
    /\ pc = "clone"
    /\ Goto("cloning")
    /\ writers' = writers \cup {cur}
    /\ UNCHANGED <<locals, globals, docker, setup, volume, disk, asked, creds, history>>

\* git has ended, failed, or been killed after two minutes.
CloneEnds ==
    /\ pc = "cloning"
    /\ \E p \in {"download", "report"} : Goto(p)
    /\ writers' = writers \ {cur}
    /\ UNCHANGED <<locals, globals, docker, setup, volume, disk, asked, creds, history>>

\* No dataset, or one the main thread streams and extracts itself.
Download ==
    /\ pc = "download"
    /\ \E p \in {"prepare", "report"} : Goto(p)
    /\ UNCHANGED <<locals, globals, node, history>>

WriteCreds ==
    /\ pc = "download"
    /\ Goto("creds")
    /\ creds' = TRUE
    /\ UNCHANGED <<locals, globals, docker, setup, volume, disk, writers, asked, history>>

KaggleStarts ==
    /\ pc = "creds"
    /\ Goto("kaggle")
    /\ credsPath' = TRUE
    /\ writers' = writers \cup {cur}
    /\ UNCHANGED <<cur, ws, globals, docker, setup, volume, disk, asked, creds, history>>

\* Mistaken variant: nothing removes the file.
CredsAfterNever == creds

CredsAfter == creds /\ ~credsPath

KaggleEnds ==
    /\ pc = "kaggle"
    /\ \E p \in {"prepare", "report"} : Goto(p)
    /\ writers' = writers \ {cur}
    /\ creds' = CredsAfter /\ credsPath' = FALSE
    /\ UNCHANGED <<cur, ws, globals, docker, setup, volume, disk, asked, history>>

\* docker volume create, docker run --rm for the dependencies, and docker run -d
\* without or with their volume; the container, once created, must be started.
Ask(what, j)   == [what |-> what, job |-> j]
AskedFor(j)    == {x \in asked : x.job = j}
AsksFor(what)  == asked' = asked \cup {Ask(what, cur)}

\* The notebook, the image; a repository with requirements.txt gets a volume.
Prepare ==
    /\ pc = "prepare"
    /\ \/ Goto("report") /\ UNCHANGED asked
       \/ Goto("launch") /\ AsksFor("container")
       \/ Goto("deps") /\ AsksFor("volume")
    /\ UNCHANGED <<locals, globals, docker, setup, volume, disk, writers, creds, history>>

InstallStarts ==
    /\ pc = "deps" /\ AskedFor(cur) = {}
    /\ Goto("install")
    /\ AsksFor("setup")
    /\ UNCHANGED <<locals, globals, docker, setup, volume, disk, writers, creds, history>>

Installed ==
    /\ pc = "install" /\ AskedFor(cur) = {} /\ cur \notin setup
    /\ Goto("launch")
    /\ AsksFor("mounting")
    /\ UNCHANGED <<locals, globals, docker, setup, volume, disk, writers, creds, history>>

\* docker run -d has returned; DetachedContainerProcess waits for the container.
Launched ==
    /\ pc = "launch" /\ AskedFor(cur) = {}
    /\ Goto("started")
    /\ UNCHANGED <<locals, globals, node, history>>

\* A docker command failed, or the installation took more than five minutes,
\* which ends its docker run and not what the daemon does for it: the volume is
\* removed by the except clause of docker_runner.run.
RunFails ==
    /\ pc \in RunPhase
    /\ Goto("report")
    /\ asked' = asked \ AskedFor(cur) \/ (pc = "install" /\ UNCHANGED asked)
    /\ RemoveVolume(cur)
    /\ UNCHANGED <<locals, globals, docker, setup, disk, writers, creds, todo,
                   starts, signals, kept, revived>>

RememberVolume ==
    /\ pc = "started"
    /\ Goto("loop")
    /\ depVolume' = IF cur \in volume THEN cur ELSE None
    /\ UNCHANGED <<locals, container, workspace, node, history>>

\* The container has exited, ran out of time or was reclaimed.
LoopEnds ==
    /\ pc = "loop"
    /\ \E p \in {"upload", "report"} : Goto(p)
    /\ docker' = WithoutContainer(cur)
    /\ UNCHANGED <<locals, globals, setup, volume, disk, writers, asked, creds, history>>

\* An exception in the loop leaves the container to the finally clause.
LoopFails ==
    /\ pc = "loop"
    /\ Goto("report")
    /\ UNCHANGED <<locals, globals, node, history>>

Upload ==
    /\ pc = "upload"
    /\ Goto("report")
    /\ UNCHANGED <<locals, globals, node, history>>

Report ==
    /\ pc = "report"
    /\ Goto("finalStop")
    /\ UNCHANGED <<locals, globals, node, history>>

FinalStop ==
    /\ pc = "finalStop"
    /\ Goto("finalVolume")
    /\ docker' = IF container # None THEN WithoutContainer(cur) ELSE docker
    /\ UNCHANGED <<locals, globals, setup, volume, disk, writers, asked, creds, history>>

FinalVolume ==
    /\ pc = "finalVolume"
    /\ Goto("finalCleanup")
    /\ IF depVolume # None THEN RemoveVolume(depVolume) ELSE UNCHANGED <<volume, inUse>>
    /\ depVolume' = None
    /\ UNCHANGED <<locals, container, workspace, docker, setup, disk, writers, asked, creds, todo,
                   starts, signals, kept, revived>>

MustClean == workspace # None /\ ws

\* What rmtree raises leaves the finally clause, and the globals stay as they are.
FinalCleanup ==
    /\ pc = "finalCleanup"
    /\ Goto("poll")
    /\ \/ /\ IF MustClean THEN Removed(cur) ELSE UNCHANGED <<disk, kept>>
          /\ container' = None /\ workspace' = None
       \/ /\ MustClean /\ Refused(cur)
          /\ UNCHANGED <<container, workspace>>
    /\ cur' = None /\ ws' = FALSE
    /\ UNCHANGED <<credsPath, depVolume, docker, setup, volume, writers, asked, creds, todo,
                   starts, signals, inUse, revived>>

MainNext ==
    \/ Allocate \/ Create \/ RememberWorkspace \/ CloneStarts \/ CloneEnds
    \/ Download \/ WriteCreds \/ KaggleStarts \/ KaggleEnds
    \/ Prepare \/ InstallStarts \/ Installed \/ Launched \/ RunFails \/ RememberVolume
    \/ LoopEnds \/ LoopFails \/ Upload \/ Report
    \/ FinalStop \/ FinalVolume \/ FinalCleanup

-----------------------------------------------------------------------------
(* handle_shutdown.  A signal inside the handler enters it once more; the   *)
(* inner one exits the process or raises for both.                          *)

Interrupt ==
    /\ pc \in Working \cup Finally \cup Handler \cup {"poll"}
    /\ ~term /\ signals < MaxSignals
    /\ term' = TRUE /\ signals' = signals + 1
    /\ UNCHANGED <<pc, at, locals, globals, node, todo, starts, kept, inUse, revived>>

\* Mistaken variant: an agent without a container does not listen.
ListensBusy == term /\ container # None

Listens == term

Shutdown ==
    /\ Listens
    /\ term' = FALSE
    /\ at' = Doing
    /\ pc' = "stopContainer"
    /\ UNCHANGED <<locals, globals, node, history>>

StopContainer ==
    /\ pc = "stopContainer"
    /\ Goto("removeVolume")
    /\ docker' = IF container # None THEN WithoutContainer(container) ELSE docker
    /\ container' = None
    /\ UNCHANGED <<locals, depVolume, workspace, setup, volume, disk, writers, asked, creds, history>>

RemoveDepVolume ==
    /\ pc = "removeVolume"
    /\ Goto("cleanup")
    /\ IF depVolume # None THEN RemoveVolume(depVolume) ELSE UNCHANGED <<volume, inUse>>
    /\ depVolume' = None
    /\ UNCHANGED <<locals, container, workspace, docker, setup, disk, writers, asked, creds, todo,
                   starts, signals, kept, revived>>

CleanWorkspace ==
    /\ pc = "cleanup"
    /\ Goto("notify")
    /\ IF workspace # None THEN Removed(workspace) ELSE UNCHANGED <<disk, kept>>
    /\ workspace' = None
    /\ UNCHANGED <<locals, container, depVolume, docker, setup, volume, writers, asked, creds, todo,
                   starts, signals, inUse, revived>>

\* Calls to the backend swallow what the handler raises, the poll loop catches it.
Swallows == {"poll", "allocate", "upload", "report"}

\* The handler raises OSError where the main thread was: there, in the except
\* clauses around it, or in a finally clause, which is left.
HandlerFails ==
    /\ pc = "cleanup" /\ workspace # None /\ Refused(workspace)
    /\ at' = "none" /\ UNCHANGED term
    /\ writers' = IF at \in {"cloning", "kaggle"} THEN writers \ {cur} ELSE writers
    /\ creds' = CredsAfter /\ credsPath' = FALSE
    /\ IF at \in RunPhase THEN RemoveVolume(cur) ELSE UNCHANGED <<volume, inUse>>
    /\ IF at \in Finally
       THEN pc' = "poll" /\ cur' = None /\ ws' = FALSE
       ELSE pc' = (IF at \in Swallows THEN at ELSE "report") /\ UNCHANGED <<cur, ws>>
    /\ UNCHANGED <<globals, docker, setup, asked, todo, starts, signals, revived>>

Forgets ==
    /\ pc' = "down" /\ at' = "none" /\ term' = FALSE
    /\ cur' = None /\ ws' = FALSE /\ credsPath' = FALSE
    /\ container' = None /\ depVolume' = None /\ workspace' = None

\* sys.exit: git, kaggle or the docker command is killed, the finally clauses run;
\* what the daemon was asked for it may still do.
Exit ==
    /\ pc = "notify"
    /\ Forgets
    /\ writers' = IF at \in {"cloning", "kaggle"} THEN writers \ {cur} ELSE writers
    /\ creds' = CredsAfter
    /\ UNCHANGED <<docker, setup, volume, disk, asked, history>>

\* The agent is killed; its children go on, for as long as they like.
Crash ==
    /\ ~Down /\ starts < MaxStarts
    /\ Forgets
    /\ UNCHANGED <<node, history>>

-----------------------------------------------------------------------------
(* run_agent, before the handler is installed.  Nothing waits for what the  *)
(* processes before have left under way.                                    *)

Start ==
    /\ Down /\ starts < MaxStarts
    /\ Goto("leftContainers")
    /\ starts' = starts + 1 /\ signals' = 0 /\ revived' = {}
    /\ UNCHANGED <<locals, globals, node, todo, kept, inUse>>

\* docker ps --filter name=gridnode_job_: neither setup containers are among them
\* nor one that is still to be created.
LeftContainers ==
    /\ pc = "leftContainers"
    /\ Goto("leftVolumes")
    /\ docker' = [j \in Jobs |-> "none"]
    /\ UNCHANGED <<locals, globals, setup, volume, disk, writers, asked, creds, history>>

LeftVolumes ==
    /\ pc = "leftVolumes"
    /\ Goto("leftWorkspaces")
    /\ volume' = {j \in volume : Mounted(j)}
    /\ inUse' = volume'
    /\ UNCHANGED <<locals, globals, docker, setup, disk, writers, asked, creds, todo,
                   starts, signals, kept, revived>>

Directories == {j \in Jobs : disk[j] # "none"}

\* The loop is left at the first directory that refuses: what was not reached stays.
Survivors ==
    {S \in SUBSET Directories :
        /\ \A j \in Directories \ S : CanRemove(j)
        /\ S = {} \/ \E j \in S : CanRefuse(j)}

LeftWorkspaces ==
    /\ pc = "leftWorkspaces"
    /\ Goto("poll")
    /\ kept' \in Survivors
    /\ disk' = [j \in Jobs |-> IF j \in kept' THEN disk[j] ELSE "none"]
    /\ UNCHANGED <<locals, globals, docker, setup, volume, writers, asked, creds, todo,
                   starts, signals, inUse, revived>>

StartNext == Start \/ LeftContainers \/ LeftVolumes \/ LeftWorkspaces

-----------------------------------------------------------------------------
(* The Docker daemon, and processes that have lost their agent.             *)

\* Nobody waits for it: the agent that asked was killed, has exited, or has given up.
GivenUp(j) == j # cur \/ Doing \notin RunPhase

Made(j)     == revived' = IF GivenUp(j) THEN revived \cup {j} ELSE revived
Got(x)      == x \in asked /\ asked' = asked \ {x}
Mounts(j)   == disk' = IF disk[j] = "none" THEN [disk EXCEPT ![j] = "foreign"] ELSE disk

\* A volume that a container asks for and that is not there is made with it.
VolumeMade(j) ==
    /\ Got(Ask("volume", j))
    /\ volume' = volume \cup {j} /\ Made(j)
    /\ UNCHANGED <<pc, at, term, locals, globals, docker, setup, disk, writers, creds, todo,
                   starts, signals, kept, inUse>>

\* Mounting a directory that is gone makes it again, as root.
SetupStarts(j) ==
    /\ Got(Ask("setup", j))
    /\ setup' = setup \cup {j} /\ volume' = volume \cup {j} /\ Mounts(j) /\ Made(j)
    /\ UNCHANGED <<pc, at, term, locals, globals, docker, writers, creds, todo, starts, signals,
                   kept, inUse>>

\* docker run -d: create, then start.
ContainerCreated(j) ==
    /\ \E what \in {"container", "mounting"} :
         /\ Ask(what, j) \in asked
         /\ asked' = (asked \ {Ask(what, j)}) \cup {Ask("start", j)}
         /\ volume' = IF what = "mounting" THEN volume \cup {j} ELSE volume
    /\ docker' = [docker EXCEPT ![j] = "created"] /\ Made(j)
    /\ UNCHANGED <<pc, at, term, locals, globals, setup, disk, writers, creds, todo, starts,
                   signals, kept, inUse>>

ContainerStarts(j) ==
    /\ docker[j] = "created"
    /\ Got(Ask("start", j))
    /\ docker' = [docker EXCEPT ![j] = "running"] /\ Mounts(j) /\ Made(j)
    /\ UNCHANGED <<pc, at, term, locals, globals, setup, volume, writers, creds, todo, starts,
                   signals, kept, inUse>>

\* The docker command was killed with its agent, or fails.
AskEnds(j) ==
    /\ GivenUp(j)
    /\ \E x \in AskedFor(j) : Got(x)
    /\ UNCHANGED <<pc, at, term, locals, globals, docker, setup, volume, disk, writers, creds,
                   history>>

ContainerExits(j) ==
    /\ docker[j] = "running"
    /\ docker' = [docker EXCEPT ![j] = "exited"]
    /\ UNCHANGED <<pc, at, term, locals, globals, setup, volume, disk, writers, asked, creds, history>>

\* The container makes a directory in outputs/ under its own user.
ContainerWrites(j) ==
    /\ docker[j] = "running" /\ disk[j] = "made"
    /\ disk' = [disk EXCEPT ![j] = "foreign"]
    /\ UNCHANGED <<pc, at, term, locals, globals, docker, setup, volume, writers, asked, creds, history>>

\* docker run --rm.
SetupExits(j) ==
    /\ j \in setup
    /\ setup' = setup \ {j}
    /\ UNCHANGED <<pc, at, term, locals, globals, docker, volume, disk, writers, asked, creds, history>>

\* kaggle --path and git make the directory again that was removed under them.
WriterRecreates(j) ==
    /\ j \in writers /\ disk[j] = "none"
    /\ disk' = [disk EXCEPT ![j] = "made"] /\ revived' = revived \cup {j}
    /\ UNCHANGED <<pc, at, term, locals, globals, docker, setup, volume, writers, asked, creds,
                   todo, starts, signals, kept, inUse>>

OrphanEnds(j) ==
    /\ j \in writers /\ j # cur
    /\ writers' = writers \ {j}
    /\ UNCHANGED <<pc, at, term, locals, globals, docker, setup, volume, disk, asked, creds, history>>

DockerNext(j) ==
    \/ VolumeMade(j) \/ SetupStarts(j) \/ ContainerCreated(j) \/ ContainerStarts(j) \/ AskEnds(j)
    \/ ContainerExits(j) \/ SetupExits(j)

WorldNext ==
    \E j \in Jobs : DockerNext(j) \/ ContainerWrites(j) \/ WriterRecreates(j) \/ OrphanEnds(j)

-----------------------------------------------------------------------------

Init ==
    /\ pc = "poll" /\ at = "none" /\ term = FALSE
    /\ cur = None /\ ws = FALSE /\ credsPath = FALSE
    /\ container = None /\ depVolume = None /\ workspace = None
    /\ docker = [j \in Jobs |-> "none"] /\ disk = [j \in Jobs |-> "none"]
    /\ setup = {} /\ volume = {} /\ writers = {} /\ asked = {} /\ creds = FALSE
    /\ todo = Jobs /\ starts = 1 /\ signals = 0 /\ kept = {} /\ inUse = {} /\ revived = {}

HandlerNext == Shutdown \/ StopContainer \/ RemoveDepVolume \/ CleanWorkspace \/ HandlerFails \/ Exit

Next ==
    \/ \E j \in Jobs : Fetch(j)
    \/ MainNext \/ Interrupt \/ HandlerNext \/ Crash \/ StartNext \/ WorldNext

Spec == Init /\ [][Next]_vars

\* A pending signal is taken and its handler goes on; docker stop, rmtree and the
\* report all return.  The next signal may always come, but not without end.
FairSpec == Spec /\ WF_vars(HandlerNext) /\ WF_vars(MainNext)

-----------------------------------------------------------------------------

TypeOK ==
    /\ pc \in {"poll", "down"} \cup Working \cup Finally \cup Handler \cup Starting
    /\ at \in {"none", "poll"} \cup Working \cup Finally
    /\ term \in BOOLEAN /\ ws \in BOOLEAN /\ credsPath \in BOOLEAN /\ creds \in BOOLEAN
    /\ {cur, container, depVolume, workspace} \subseteq Jobs \cup {None}
    /\ docker \in [Jobs -> {"none", "created", "running", "exited"}]
    /\ disk \in [Jobs -> {"none", "made", "foreign"}]
    /\ setup \subseteq Jobs /\ volume \subseteq Jobs /\ writers \subseteq Jobs
    /\ asked \subseteq [what: {"volume", "setup", "container", "mounting", "start"}, job: Jobs]
    /\ todo \subseteq Jobs /\ kept \subseteq Jobs /\ inUse \subseteq Jobs /\ revived \subseteq Jobs
    /\ starts \in 1..MaxStarts /\ signals \in 0..MaxSignals

\* A node that asks for the next job has nothing left of the jobs before, of this
\* process or one that died: no container, no directory, no volume but one that
\* Docker refused to remove (finally clause, handler and startup cleanup together).
\* Excepted are the jobs for which Docker, git or kaggle have made something since the
\* start, for an agent that is gone or has given up: no cleanup waits for them, and
\* what they make is left to the cleanup of the next start.
NothingLeft ==
    pc = "poll" /\ kept = {} =>
        /\ \A j \in Jobs \ revived : docker[j] = "none" /\ disk[j] = "none"
        /\ volume \subseteq inUse \cup revived
        /\ container = None /\ workspace = None

\* The credentials are deleted after use (CONTEXT.md:289), unless the process
\* ended first.
CredentialsGone == creds /\ starts = 1 => Down \/ Doing \in {"creds", "kaggle"}

\* An agent told to stop terminates, however often and wherever it is told,
\* unless a directory cannot be removed (CONTEXT.md:240).
Terminates == term ~> (Down \/ kept # {})
=============================================================================
