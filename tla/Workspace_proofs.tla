-------------------------- MODULE Workspace_proofs --------------------------
(* Proofs about Workspace: what a node leaves behind, for any jobs, any     *)
(* number of starts and any number of signals.                              *)
EXTENDS Workspace, TLAPS

-----------------------------------------------------------------------------
(* Where the main thread is.                                                *)

Main == {"poll"} \cup Working \cup Finally

\* A process that is not up yet, or not any more, has no signal pending and remembers
\* nothing; a thread at work has a job, and the handler has interrupted somebody.
Located ==
    /\ term => pc \notin {"down"} \cup Starting
    /\ pc \in {"down"} \cup Starting =>
          cur = None /\ container = None /\ depVolume = None /\ workspace = None
    /\ pc \in Handler => at \in Main
    /\ Doing \in Working \cup Finally => cur \in Jobs
    /\ Doing = "poll" => cur = None

LEMMA LocatedInit == Init => TypeOK /\ Located
<1>. SUFFICES ASSUME Init PROVE TypeOK /\ Located
  OBVIOUS
<1>1. starts \in 1..MaxStarts /\ signals \in 0..MaxSignals
  BY WorkspaceAssumption DEF Init
<1>. QED
  BY <1>1 DEF Init, TypeOK, Located, Doing, Working, Finally, Handler, Starting, Main, RunPhase

LEMMA MainStep == TypeOK /\ Located /\ MainNext => TypeOK' /\ Located'
<1>. SUFFICES ASSUME TypeOK, Located, MainNext PROVE TypeOK' /\ Located'
  OBVIOUS
<1>. USE DEF TypeOK, Located, Doing, Main, Working, Finally, Handler, Starting, RunPhase, Goto,
             locals, globals, node, history
<1>1. CASE Allocate \/ Download \/ LoopFails \/ Upload \/ Report
  <2>1. pc \in Working /\ pc' \in Working \cup Finally /\ UNCHANGED <<at, term>>
    BY <1>1 DEF Allocate, Download, LoopFails, Upload, Report
  <2>2. UNCHANGED <<cur, ws, credsPath, container, depVolume, workspace, docker, setup, volume,
                    disk, writers, asked, creds, todo, starts, signals, kept, inUse, revived>>
    BY <1>1 DEF Allocate, Download, LoopFails, Upload, Report
  <2>. QED
    BY <2>1, <2>2
<1>9. CASE RememberWorkspace
  BY <1>9 DEF RememberWorkspace
<1>2. CASE Create \/ CloneStarts \/ CloneEnds
  BY <1>2 DEF Create, CloneStarts, CloneEnds
<1>3. CASE WriteCreds
  BY <1>3 DEF WriteCreds
<1>11. CASE KaggleStarts
  BY <1>11 DEF KaggleStarts
<1>10. CASE KaggleEnds
  <2>1. creds' \in BOOLEAN /\ credsPath' \in BOOLEAN /\ writers' \subseteq Jobs
    BY <1>10 DEF KaggleEnds, CredsAfter
  <2>. QED
    BY <1>10, <2>1 DEF KaggleEnds
<1>4. CASE Launched \/ RememberVolume
  BY <1>4 DEF Launched, RememberVolume
<1>12. CASE Prepare \/ InstallStarts \/ Installed
  BY <1>12 DEF Prepare, InstallStarts, Installed, AsksFor, Ask
<1>5. CASE RunFails
  BY <1>5 DEF RunFails, RemoveVolume, AskedFor
<1>6. CASE LoopEnds \/ FinalStop
  BY <1>6 DEF LoopEnds, FinalStop, WithoutContainer
<1>7. CASE FinalVolume
  BY <1>7 DEF FinalVolume, RemoveVolume
<1>8. CASE FinalCleanup
  <2>1. pc = "finalCleanup" /\ pc' = "poll" /\ cur' = None /\ cur \in Jobs
    BY <1>8 DEF FinalCleanup
  <2>2. /\ kept' \subseteq Jobs /\ container' \in {None, container} /\ workspace' \in {None, workspace}
        /\ disk' = disk \/ disk' = [disk EXCEPT ![cur] = "none"]
    BY <1>8, <2>1 DEF FinalCleanup, MustClean, Removed, Refused
  <2>3. ws' = FALSE /\ UNCHANGED <<at, term, credsPath, depVolume, docker, setup, volume, writers,
                                 asked, creds, todo, starts, signals, inUse, revived>>
    BY <1>8 DEF FinalCleanup
  <2>4. disk' \in [Jobs -> {"none", "made", "foreign"}]
    BY <2>1, <2>2
  <2>5. TypeOK'
    <3>1. {cur, container, depVolume, workspace}' \subseteq Jobs \cup {None}
      BY <2>1, <2>2, <2>3
    <3>2. /\ term' \in BOOLEAN /\ ws' \in BOOLEAN /\ credsPath' \in BOOLEAN /\ creds' \in BOOLEAN
          /\ docker' \in [Jobs -> {"none", "created", "running", "exited"}]
          /\ at' \in {"none", "poll"} \cup Working \cup Finally
      BY <2>3
    <3>3. /\ setup' \subseteq Jobs /\ volume' \subseteq Jobs /\ writers' \subseteq Jobs
          /\ asked' \subseteq [what: {"volume", "setup", "container", "mounting", "start"}, job: Jobs]
          /\ todo' \subseteq Jobs /\ kept' \subseteq Jobs /\ inUse' \subseteq Jobs /\ revived' \subseteq Jobs
          /\ starts' \in 1..MaxStarts /\ signals' \in 0..MaxSignals
      BY <2>2, <2>3
    <3>. QED
      BY <2>1, <2>4, <3>1, <3>2, <3>3
  <2>6. Located'
    BY <2>1, <2>2, <2>3
  <2>. QED
    BY <2>5, <2>6
<1>. QED
  BY <1>1, <1>2, <1>3, <1>4, <1>5, <1>6, <1>7, <1>8, <1>9, <1>10, <1>11, <1>12 DEF MainNext

LEMMA HandlerStep == TypeOK /\ Located /\ HandlerNext => TypeOK' /\ Located'
<1>. SUFFICES ASSUME TypeOK, Located, HandlerNext PROVE TypeOK' /\ Located'
  OBVIOUS
<1>. USE DEF TypeOK, Located, Doing, Main, Working, Finally, Handler, Starting, RunPhase, Goto,
             locals, globals, node, history
<1>1. CASE Shutdown
  BY <1>1 DEF Shutdown, Listens
<1>2. CASE StopContainer
  BY <1>2 DEF StopContainer, WithoutContainer
<1>3. CASE RemoveDepVolume
  BY <1>3 DEF RemoveDepVolume, RemoveVolume
<1>4. CASE CleanWorkspace
  BY <1>4 DEF CleanWorkspace, Removed
<1>5. CASE HandlerFails
  <2>1. /\ creds' \in BOOLEAN /\ credsPath' \in BOOLEAN /\ writers' \subseteq Jobs
        /\ kept' \subseteq Jobs /\ volume' \subseteq Jobs /\ inUse' \subseteq Jobs
        /\ UNCHANGED disk
    <3>1. creds' = (creds /\ ~credsPath) /\ credsPath' = FALSE
      BY <1>5 DEF HandlerFails, CredsAfter
    <3>2. writers' \subseteq writers
      BY <1>5 DEF HandlerFails
    <3>3. kept' = kept \cup {workspace} /\ workspace \in Jobs /\ UNCHANGED disk
      BY <1>5 DEF HandlerFails, Refused
    <3>4. volume' \subseteq volume /\ inUse' \subseteq inUse \cup {cur}
      BY <1>5 DEF HandlerFails, RemoveVolume
    <3>5. inUse' # inUse => at \in RunPhase
      BY <1>5 DEF HandlerFails
    <3>6. pc \in Handler
      BY <1>5 DEF HandlerFails
    <3>7. at \in RunPhase => cur \in Jobs
      BY <3>6
    <3>. QED
      BY <3>1, <3>2, <3>3, <3>4, <3>5, <3>7
  <2>2. UNCHANGED <<term, container, depVolume, workspace, docker, setup, asked, todo, starts,
                    signals, revived>>
    BY <1>5 DEF HandlerFails
  <2>3. pc = "cleanup" /\ at \in Main /\ at' = "none"
    BY <1>5 DEF HandlerFails
  <2>4. CASE at \in Finally
    <3>1. pc' = "poll" /\ cur' = None /\ ws' = FALSE
      BY <1>5, <2>4 DEF HandlerFails
    <3>. QED
      BY <2>1, <2>2, <2>3, <2>4, <3>1
  <2>5. CASE at \notin Finally
    <3>1. pc' = (IF at \in Swallows THEN at ELSE "report") /\ UNCHANGED <<cur, ws>>
      BY <1>5, <2>5 DEF HandlerFails
    <3>2. pc' \in {"poll"} \cup Working /\ (pc' = "poll" => at = "poll") /\ (at = "poll" => pc' = "poll")
      BY <2>3, <2>5, <3>1 DEF Swallows
    <3>. QED
      BY <2>1, <2>2, <2>3, <2>5, <3>1, <3>2
  <2>. QED
    BY <2>4, <2>5
<1>6. CASE Exit
  BY <1>6 DEF Exit, Forgets, CredsAfter
<1>. QED
  BY <1>1, <1>2, <1>3, <1>4, <1>5, <1>6 DEF HandlerNext

\* What Docker makes is for the main thread, which waits for it, or is noted.
Noted(j) == j \in revived' \/ ~GivenUp(j)

\* What the daemon and the processes without an agent may do to the node.

LEMMA WorldEffect ==
    ASSUME TypeOK, WorldNext
    PROVE  /\ UNCHANGED <<pc, at, term, cur, ws, credsPath, container, depVolume, workspace, creds,
                          todo, starts, signals, kept, inUse>>
           /\ docker' \in [Jobs -> {"none", "created", "running", "exited"}]
           /\ disk' \in [Jobs -> {"none", "made", "foreign"}]
           /\ setup' \subseteq Jobs /\ volume' \subseteq Jobs /\ writers' \subseteq writers
           /\ asked' \subseteq [what: {"volume", "setup", "container", "mounting", "start"}, job: Jobs]
           /\ revived \subseteq revived' /\ revived' \subseteq Jobs
           /\ \A j \in Jobs : AskedFor(j) = {} => AskedFor(j)' = {}
           /\ \A j \in Jobs : docker'[j] # docker[j] => docker[j] # "none" \/ (AskedFor(j) # {} /\ Noted(j))
           /\ \A j \in Jobs : j \in volume' => j \in volume \/ (AskedFor(j) # {} /\ Noted(j))
           /\ \A j \in Jobs : disk'[j] # disk[j] =>
                 \/ docker[j] = "running" /\ disk[j] = "made"
                 \/ AskedFor(j) # {} /\ disk[j] = "none" /\ Noted(j)
                 \/ j \in writers /\ disk[j] = "none" /\ disk'[j] = "made" /\ j \in revived'
<1>. PICK j \in Jobs : DockerNext(j) \/ ContainerWrites(j) \/ WriterRecreates(j) \/ OrphanEnds(j)
  BY DEF WorldNext
<1>. USE DEF TypeOK, Noted, Made, GivenUp, Ask, AskedFor, Got, Mounts, locals, globals, history
<1>1. CASE VolumeMade(j)
  BY <1>1 DEF VolumeMade
<1>2. CASE SetupStarts(j)
  BY <1>2 DEF SetupStarts
<1>3. CASE ContainerCreated(j)
  BY <1>3 DEF ContainerCreated
<1>4. CASE ContainerStarts(j)
  BY <1>4 DEF ContainerStarts
<1>5. CASE AskEnds(j)
  BY <1>5 DEF AskEnds
<1>6. CASE ContainerExits(j) \/ SetupExits(j)
  BY <1>6 DEF ContainerExits, SetupExits
<1>7. CASE ContainerWrites(j)
  BY <1>7 DEF ContainerWrites
<1>8. CASE WriterRecreates(j)
  BY <1>8 DEF WriterRecreates
<1>9. CASE OrphanEnds(j)
  BY <1>9 DEF OrphanEnds
<1>. QED
  BY <1>1, <1>2, <1>3, <1>4, <1>5, <1>6, <1>7, <1>8, <1>9 DEF DockerNext

LEMMA WorldStep == TypeOK /\ Located /\ WorldNext => TypeOK' /\ Located'
<1>. SUFFICES ASSUME TypeOK, Located, WorldNext PROVE TypeOK' /\ Located'
  OBVIOUS
<1>. QED
  BY WorldEffect DEF TypeOK, Located, Doing

LEMMA LocatedStep == TypeOK /\ Located /\ [Next]_vars => TypeOK' /\ Located'
<1>. SUFFICES ASSUME TypeOK, Located, [Next]_vars PROVE TypeOK' /\ Located'
  OBVIOUS
<1>1. ASSUME NEW j \in Jobs, Fetch(j) PROVE TypeOK' /\ Located'
  BY <1>1 DEF Fetch, TypeOK, Located, Doing, Main, Working, Finally, Handler, Starting, RunPhase,
              Goto, node
<1>2. CASE Interrupt
  <2>1. signals' \in 0..MaxSignals
    BY <1>2, WorkspaceAssumption DEF Interrupt, TypeOK
  <2>2. pc \notin {"down"} \cup Starting /\ term' = TRUE
    BY <1>2 DEF Interrupt, Working, Finally, Handler, Starting, RunPhase
  <2>3. UNCHANGED <<pc, at, cur, ws, credsPath, container, depVolume, workspace, docker, setup,
                    volume, disk, writers, asked, creds, todo, starts, kept, inUse, revived>>
    BY <1>2 DEF Interrupt, locals, globals, node
  <2>. QED
    BY <2>1, <2>2, <2>3 DEF TypeOK, Located, Doing
<1>3. CASE Crash
  BY <1>3 DEF Crash, Forgets, TypeOK, Located, Doing, Main, Working, Finally, Handler,
              Starting, RunPhase, node, history
<1>4. CASE Start
  <2>1. starts' \in 1..MaxStarts /\ signals' \in 0..MaxSignals
    BY <1>4, WorkspaceAssumption DEF Start, TypeOK
  <2>2. pc = "down" /\ pc' = "leftContainers"
    BY <1>4 DEF Start, Down, Goto
  <2>3. UNCHANGED <<at, term, cur, ws, credsPath, container, depVolume, workspace, docker, setup,
                    volume, disk, writers, asked, creds, todo, kept, inUse>> /\ revived' = {}
    BY <1>4 DEF Start, Goto, locals, globals, node
  <2>. QED
    BY <2>1, <2>2, <2>3
       DEF TypeOK, Located, Doing, Main, Working, Finally, Handler, Starting, RunPhase
<1>5. CASE LeftContainers
  BY <1>5 DEF LeftContainers, Goto, TypeOK, Located, Doing, Main, Working, Finally, Handler, Starting,
              RunPhase, locals, globals, history
<1>6. CASE LeftVolumes
  BY <1>6 DEF LeftVolumes, Goto, TypeOK, Located, Doing, Main, Working, Finally, Handler, Starting,
              RunPhase, locals, globals
<1>7. CASE LeftWorkspaces
  <2>1. disk' \in [Jobs -> {"none", "made", "foreign"}] /\ kept' \subseteq Jobs
    BY <1>7 DEF LeftWorkspaces, Survivors, Directories, TypeOK
  <2>. QED
    BY <1>7, <2>1 DEF LeftWorkspaces, Goto, TypeOK, Located, Doing, Main, Working, Finally, Handler,
                      Starting, RunPhase, locals, globals
<1>8. CASE UNCHANGED vars
  BY <1>8 DEF vars, TypeOK, Located, Doing
<1>. QED
  BY <1>1, <1>2, <1>3, <1>4, <1>5, <1>6, <1>7, <1>8, MainStep, HandlerStep, WorldStep
     DEF Next, StartNext

\* The threads, what they remember, and the node keep their types.
THEOREM TypeCorrect == Spec => [](TypeOK /\ Located)
  BY LocatedInit, LocatedStep, PTL DEF Spec

-----------------------------------------------------------------------------
(* What is left behind.                                                     *)

\* Nothing is there of another job than the current one.
Others ==
    \A j \in Jobs \ revived :
        j # cur => docker[j] = "none" /\ disk[j] = "none" /\ (j \in volume => j \in inUse)

\* What is there of the current one will be removed by the finally clause.
Own ==
    cur # None /\ cur \notin revived =>
        /\ docker[cur] # "none" => pc \notin {"finalVolume", "finalCleanup"}
        /\ disk[cur] # "none" => pc = "made" \/ workspace = cur
        /\ cur \in volume \ inUse => pc \in RunPhase \cup {"started"} \/ depVolume = cur

Placed == {"clone", "cloning", "download", "creds", "kaggle", "prepare"} \cup RunPhase

Remembered ==
    /\ container = cur
    /\ pc \in Placed => workspace = cur
    /\ workspace # None => workspace = cur /\ ws
    /\ depVolume \in {None, cur}
    /\ pc = "finalCleanup" => depVolume = None

\* As long as no removal was refused, the main thread is about to remove what is there;
\* at a start the containers go first, then the volumes.
Tidy ==
    /\ pc \in {"leftVolumes", "leftWorkspaces"} => \A j \in Jobs \ revived : docker[j] = "none"
    /\ pc = "leftWorkspaces" => volume \subseteq inUse \cup revived
    /\ pc \in Main /\ kept = {} => Others /\ Own /\ Remembered

LEMMA TidyImplies == TypeOK /\ Located /\ Tidy => NothingLeft
<1>. SUFFICES ASSUME TypeOK, Located, Tidy, pc = "poll", kept = {}
              PROVE  /\ \A j \in Jobs \ revived : docker[j] = "none" /\ disk[j] = "none"
                     /\ volume \subseteq inUse \cup revived
                     /\ container = None /\ workspace = None
  BY DEF NothingLeft
<1>1. cur = None /\ Others /\ Remembered
  BY DEF Located, Doing, Handler, Tidy, Main
<1>2. \A j \in Jobs : j # cur
  BY <1>1, WorkspaceAssumption
<1>. QED
  BY <1>1, <1>2 DEF Others, Remembered, TypeOK

LEMMA TidyInit == Init => Tidy
<1>. SUFFICES ASSUME Init PROVE Tidy
  OBVIOUS
<1>. QED
  BY DEF Init, Tidy, Others, Own, Remembered

LEMMA TidyMain == TypeOK /\ Located /\ Tidy /\ MainNext => Tidy'
<1>. SUFFICES ASSUME TypeOK, Located, Tidy, MainNext PROVE Tidy'
  OBVIOUS
<1>11. pc' \in Main
  BY DEF MainNext, Allocate, Create, RememberWorkspace, CloneStarts, CloneEnds, Download, WriteCreds,
         KaggleStarts, KaggleEnds, Prepare, InstallStarts, Installed, Launched, RunFails,
         RememberVolume, LoopEnds, LoopFails, Upload, Report, FinalStop, FinalVolume,
         FinalCleanup, Main, Working, Finally, RunPhase, Goto
<1>. SUFFICES ASSUME kept' = {} PROVE Others' /\ Own' /\ Remembered'
  BY <1>11 DEF Tidy, Main, Working, Finally, RunPhase
<1>0. pc \in Working \cup Finally /\ kept = {}
  BY DEF MainNext, Allocate, Create, RememberWorkspace, CloneStarts, CloneEnds, Download, WriteCreds,
         KaggleStarts, KaggleEnds, Prepare, InstallStarts, Installed, Launched, RunFails,
         RememberVolume, LoopEnds, LoopFails, Upload, Report, FinalStop, FinalVolume,
         FinalCleanup, Working, Finally, RunPhase, Removed, Refused, history
<1>1. cur \in Jobs /\ Others /\ Own /\ Remembered /\ cur # None
  BY <1>0, WorkspaceAssumption
     DEF Tidy, Located, Main, Doing, Handler, Working, Finally, RunPhase
<1>. USE DEF Others, Own, Remembered, Placed, RunPhase, TypeOK, Goto, locals, globals, node, history
<1>2. CASE Allocate \/ Download \/ LoopFails \/ Upload \/ Report
  BY <1>1, <1>2 DEF Allocate, Download, LoopFails, Upload, Report
<1>3. CASE Create \/ RememberWorkspace
  BY <1>1, <1>3 DEF Create, RememberWorkspace
<1>4. CASE CloneStarts \/ CloneEnds \/ WriteCreds \/ KaggleStarts \/ KaggleEnds
  BY <1>1, <1>4 DEF CloneStarts, CloneEnds, WriteCreds, KaggleStarts, KaggleEnds
<1>5. CASE Prepare \/ InstallStarts \/ Installed \/ Launched
  BY <1>1, <1>5 DEF Prepare, InstallStarts, Installed, Launched
<1>6. CASE RunFails
  BY <1>1, <1>6 DEF RunFails, RemoveVolume
<1>7. CASE RememberVolume
  BY <1>1, <1>7 DEF RememberVolume
<1>8. CASE LoopEnds \/ FinalStop
  BY <1>1, <1>8 DEF LoopEnds, FinalStop, WithoutContainer
<1>9. CASE FinalVolume
  BY <1>1, <1>9 DEF FinalVolume, RemoveVolume
<1>10. CASE FinalCleanup
  <2>1. \/ MustClean /\ disk' = [disk EXCEPT ![cur] = "none"]
        \/ ~MustClean /\ disk' = disk
    BY <1>10 DEF FinalCleanup, Removed, Refused
  <2>2. container' = None /\ workspace' = None /\ cur' = None
    BY <1>10 DEF FinalCleanup, Refused
  <2>3. UNCHANGED <<docker, volume, inUse, depVolume, revived>> /\ pc = "finalCleanup" /\ pc' = "poll"
    BY <1>10 DEF FinalCleanup
  <2>4. \A j \in Jobs \ revived : disk'[j] = "none"
    BY <1>1, <2>1, <2>3 DEF MustClean
  <2>5. \A j \in Jobs \ revived : docker[j] = "none" /\ (j \in volume => j \in inUse)
    BY <1>1, <2>3, WorkspaceAssumption
  <2>6. Others'
    BY <2>3, <2>4, <2>5
  <2>7. Own' /\ Remembered'
    BY <1>1, <2>2, <2>3
  <2>. QED
    BY <2>6, <2>7
<1>. QED
  BY <1>2, <1>3, <1>4, <1>5, <1>6, <1>7, <1>8, <1>9, <1>10 DEF MainNext

LEMMA TidyWorld == TypeOK /\ Located /\ Tidy /\ WorldNext => Tidy'
<1>. SUFFICES ASSUME TypeOK, Located, Tidy, WorldNext PROVE Tidy'
  OBVIOUS
<1>1. UNCHANGED <<pc, at, term, cur, ws, container, depVolume, workspace, kept, inUse>>
  BY WorldEffect
<1>2. \A j \in Jobs \ revived' :
         /\ j \notin revived
         /\ docker'[j] # docker[j] => docker[j] # "none" \/ ~GivenUp(j)
         /\ j \in volume' => j \in volume \/ ~GivenUp(j)
         /\ disk'[j] # disk[j] => docker[j] = "running" \/ ~GivenUp(j)
  BY WorldEffect DEF Noted
<1>3. volume' \subseteq Jobs
  BY WorldEffect
<1>4. ASSUME pc \in {"leftVolumes", "leftWorkspaces"}
      PROVE  /\ \A j \in Jobs \ revived' : docker'[j] = "none"
             /\ pc = "leftWorkspaces" => volume' \subseteq inUse' \cup revived'
  <2>1. \A j \in Jobs : GivenUp(j)
    BY <1>4 DEF GivenUp, Doing, Handler, RunPhase
  <2>. QED
    BY <1>1, <1>2, <1>3, <1>4, <2>1 DEF Tidy
<1>5. ASSUME pc \in Main, kept = {}
      PROVE  Others' /\ Own' /\ Remembered'
  <2>1. Others /\ Own /\ Remembered
    BY <1>5 DEF Tidy
  <2>2. \A j \in Jobs : ~GivenUp(j) => j = cur /\ pc \in RunPhase
    BY <1>5 DEF GivenUp, Doing, Main, Handler, Working, Finally, RunPhase
  <2>3. Others'
    BY <1>1, <1>2, <2>1, <2>2 DEF Others
  <2>4. Own'
    <3>. SUFFICES ASSUME cur # None, cur \notin revived' PROVE Own'
      BY <1>1 DEF Own
    <3>1. cur \in Jobs
      BY DEF TypeOK
    <3>2. /\ docker'[cur] # "none" => docker[cur] # "none" \/ pc \in RunPhase
          /\ cur \in volume' => cur \in volume \/ pc \in RunPhase
          /\ disk'[cur] # "none" => disk[cur] # "none" \/ pc \in RunPhase
      BY <1>2, <2>2, <3>1, WorldEffect DEF Noted
    <3>3. pc \in RunPhase => workspace = cur /\ pc \notin {"finalVolume", "finalCleanup"}
      BY <2>1 DEF Remembered, Placed, RunPhase
    <3>. QED
      BY <1>1, <1>2, <2>1, <3>1, <3>2, <3>3 DEF Own
  <2>. QED
    BY <1>1, <2>1, <2>3, <2>4 DEF Remembered
<1>. QED
  BY <1>1, <1>4, <1>5 DEF Tidy

LEMMA TidyStep == TypeOK /\ Located /\ Tidy /\ [Next]_vars => Tidy'
<1>. SUFFICES ASSUME TypeOK, Located, Tidy, [Next]_vars PROVE Tidy'
  OBVIOUS
<1>1. ASSUME NEW j \in Jobs, Fetch(j) PROVE Tidy'
  <2>1. pc = "poll" /\ cur = None /\ pc' = "allocate" /\ cur' = j /\ j # None
    BY <1>1, WorkspaceAssumption DEF Fetch, Goto, Located, Doing, Handler
  <2>2. UNCHANGED <<docker, disk, volume, inUse, kept, revived, depVolume, workspace>> /\ container' = j
    BY <1>1 DEF Fetch, node
  <2>3. ASSUME kept = {} PROVE Others' /\ Own' /\ Remembered'
    <3>1. Others /\ Remembered /\ j \in Jobs
      BY <2>1, <2>3 DEF Tidy, Main
    <3>2. \A k \in Jobs \ revived :
             docker[k] = "none" /\ disk[k] = "none" /\ (k \in volume => k \in inUse)
      BY <2>1, <3>1, WorkspaceAssumption DEF Others
    <3>. QED
      BY <2>1, <2>2, <3>1, <3>2 DEF Others, Own, Remembered, Placed, RunPhase
  <2>. QED
    BY <2>1, <2>2, <2>3 DEF Tidy
<1>2. CASE HandlerNext
  <2>1. \/ pc' \in Handler \cup {"down"}
        \/ kept' # {} /\ pc' \in Main
    BY <1>2 DEF HandlerNext, Shutdown, StopContainer, RemoveDepVolume, CleanWorkspace, HandlerFails,
                Exit, Forgets, Goto, Handler, Refused, Main, Swallows, Working
  <2>. QED
    BY <2>1 DEF Tidy, Handler, Main, Working, Finally, RunPhase
<1>3. CASE Interrupt
  BY <1>3 DEF Interrupt, Tidy, Others, Own, Remembered, locals, globals, node
<1>4. CASE Crash \/ Start
  <2>1. pc' \in {"down", "leftContainers"}
    BY <1>4 DEF Crash, Forgets, Start, Goto
  <2>. QED
    BY <2>1 DEF Tidy, Main, Working, Finally, RunPhase
<1>5. CASE LeftContainers
  BY <1>5 DEF LeftContainers, Goto, Tidy, Main, Working, Finally, RunPhase
<1>6. CASE LeftVolumes
  BY <1>6 DEF LeftVolumes, Goto, Tidy, Main, Working, Finally, RunPhase, globals, locals
<1>7. CASE LeftWorkspaces
  <2>1. pc' = "poll" /\ UNCHANGED <<docker, volume, inUse, revived, cur, container, depVolume, workspace>>
    BY <1>7 DEF LeftWorkspaces, Goto, locals, globals
  <2>2. pc = "leftWorkspaces" /\ cur = None /\ container = None /\ depVolume = None /\ workspace = None
    BY <1>7 DEF LeftWorkspaces, Located, Starting
  <2>3. ASSUME kept' = {} PROVE \A j \in Jobs : disk'[j] = "none"
    BY <1>7, <2>3 DEF LeftWorkspaces
  <2>. QED
    BY <2>1, <2>2, <2>3 DEF Tidy, Others, Own, Remembered, Placed, RunPhase
<1>8. CASE UNCHANGED vars
  BY <1>8 DEF vars, Tidy, Others, Own, Remembered
<1>. QED
  BY <1>1, <1>2, <1>3, <1>4, <1>5, <1>6, <1>7, <1>8, TidyMain, TidyWorld DEF Next, StartNext

\* A node that asks for the next job has nothing left of the jobs before, whatever was
\* interrupted, killed or failed, unless a removal was refused.
THEOREM NothingLeftCorrect == Spec => []NothingLeft
  BY LocatedInit, LocatedStep, TidyInit, TidyStep, TidyImplies, PTL DEF Spec

-----------------------------------------------------------------------------
(* The credentials.                                                         *)

Cloning == {"clone", "cloning", "download", "creds", "kaggle"}
Early   == {"allocate", "create", "made"} \cup Cloning

\* A job that has not been handed out has left no trace.
Fresh ==
    /\ cur \notin todo
    /\ \A j \in todo : docker[j] = "none" /\ disk[j] = "none" /\ j \notin writers /\ AskedFor(j) = {}

\* Before its container, the directory of a job can be removed, unless a child process
\* writes to it: where the credentials lie with nobody to remove them, the handler does
\* not fail.
Removable ==
    /\ Doing \in Early => docker[cur] = "none" /\ disk[cur] # "foreign" /\ AskedFor(cur) = {}
    /\ Doing \in Early \ {"cloning", "kaggle"} => cur \notin writers
    /\ Doing \in Cloning => workspace \in {cur, None}

Secret == Fresh /\ Removable /\ (Doing = "kaggle" => credsPath) /\ CredentialsGone

LEMMA SecretInit == Init => Secret
<1>. SUFFICES ASSUME Init PROVE Secret
  OBVIOUS
<1>. QED
  BY WorkspaceAssumption
     DEF Init, Secret, Fresh, Removable, CredentialsGone, AskedFor, Doing, Handler, Early, Cloning, Down

LEMMA SecretMain == TypeOK /\ Located /\ Secret /\ MainNext => Secret'
<1>. SUFFICES ASSUME TypeOK, Located, Secret, MainNext PROVE Secret'
  OBVIOUS
<1>0. pc \in Working \cup Finally
  BY DEF MainNext, Allocate, Create, RememberWorkspace, CloneStarts, CloneEnds, Download, WriteCreds,
         KaggleStarts, KaggleEnds, Prepare, InstallStarts, Installed, Launched, RunFails,
         RememberVolume, LoopEnds, LoopFails, Upload, Report, FinalStop, FinalVolume,
         FinalCleanup, Working, Finally, RunPhase
<1>1. Doing = pc /\ cur \in Jobs
  BY <1>0 DEF Doing, Handler, Working, Finally, RunPhase, Located
<1>. USE DEF Secret, Fresh, Removable, CredentialsGone, Doing, Handler, Early, Cloning, Down, TypeOK,
             AskedFor, Goto, locals, globals, node, history
<1>2. CASE Allocate \/ LoopFails \/ Upload \/ Report
  BY <1>1, <1>2 DEF Allocate, LoopFails, Upload, Report
<1>3. CASE Create
  BY <1>1, <1>3 DEF Create
<1>4. CASE RememberWorkspace \/ Download
  BY <1>1, <1>4 DEF RememberWorkspace, Download
<1>5. CASE CloneStarts
  BY <1>1, <1>5 DEF CloneStarts
<1>6. CASE CloneEnds
  BY <1>1, <1>6 DEF CloneEnds
<1>7. CASE WriteCreds
  BY <1>1, <1>7 DEF WriteCreds
<1>8. CASE KaggleStarts
  BY <1>1, <1>8 DEF KaggleStarts
<1>9. CASE KaggleEnds
  BY <1>1, <1>9 DEF KaggleEnds, CredsAfter
<1>10. CASE Launched \/ RememberVolume
  BY <1>1, <1>10 DEF Launched, RememberVolume
<1>15. CASE Prepare \/ InstallStarts \/ Installed
  BY <1>1, <1>15 DEF Prepare, InstallStarts, Installed, AsksFor, Ask, RunPhase
<1>11. CASE RunFails
  BY <1>1, <1>11 DEF RunFails, RemoveVolume, RunPhase
<1>12. CASE LoopEnds \/ FinalStop
  BY <1>1, <1>12 DEF LoopEnds, FinalStop, WithoutContainer
<1>13. CASE FinalVolume
  BY <1>1, <1>13 DEF FinalVolume, RemoveVolume
<1>14. CASE FinalCleanup
  <2>1. pc' = "poll" /\ cur' = None /\ UNCHANGED <<docker, writers, asked, creds, todo, starts, at>>
    BY <1>14 DEF FinalCleanup
  <2>2. pc = "finalCleanup" /\ \A j \in Jobs : disk[j] = "none" => disk'[j] = "none"
    BY <1>1, <1>14 DEF FinalCleanup, Removed, Refused
  <2>. QED
    BY <1>1, <2>1, <2>2, WorkspaceAssumption
<1>. QED
  BY <1>2, <1>3, <1>4, <1>5, <1>6, <1>7, <1>8, <1>9, <1>10, <1>11, <1>12, <1>13, <1>14, <1>15 DEF MainNext

LEMMA SecretHandler == TypeOK /\ Located /\ Secret /\ HandlerNext => Secret'
<1>. SUFFICES ASSUME TypeOK, Located, Secret, HandlerNext PROVE Secret'
  OBVIOUS
<1>. USE DEF Secret, Fresh, Removable, CredentialsGone, Doing, Handler, Early, Cloning, Down, TypeOK,
             AskedFor, Goto, locals, globals, node, history
<1>1. CASE Shutdown
  <2>1. Doing' = Doing /\ pc # "down"
    BY <1>1 DEF Shutdown, Listens, Located, Starting
  <2>. QED
    BY <1>1, <2>1 DEF Shutdown
<1>2. CASE StopContainer
  BY <1>2 DEF StopContainer, WithoutContainer
<1>3. CASE RemoveDepVolume
  BY <1>3 DEF RemoveDepVolume, RemoveVolume
<1>4. CASE CleanWorkspace
  <2>1. /\ pc = "cleanup" /\ pc' = "notify" /\ workspace' = None
        /\ UNCHANGED <<at, cur, credsPath, docker, writers, asked, creds, todo, starts>>
    BY <1>4 DEF CleanWorkspace
  <2>2. \/ disk' = disk
        \/ workspace \in Jobs /\ disk' = [disk EXCEPT ![workspace] = "none"]
    BY <1>4 DEF CleanWorkspace, Removed
  <2>3. \A j \in Jobs : disk'[j] \in {disk[j], "none"}
    BY <2>2
  <2>4. Doing \in Early => cur \in Jobs
    BY DEF Located, Working
  <2>5. Doing' = Doing
    BY <2>1
  <2>6. Fresh'
    BY <2>1, <2>3
  <2>7. Removable'
    BY <2>1, <2>3, <2>4, <2>5
  <2>. QED
    BY <2>1, <2>5, <2>6, <2>7
<1>5. CASE HandlerFails
  <2>1. /\ pc = "cleanup" /\ at \in Main /\ Doing = at /\ UNCHANGED <<docker, asked, todo, starts, workspace, disk>>
        /\ workspace # None /\ CanRefuse(workspace)
        /\ creds' = (creds /\ ~credsPath) /\ writers' \subseteq writers
    BY <1>5 DEF HandlerFails, Located, Refused, CredsAfter
  <2>2. at # "creds"
    BY <2>1 DEF CanRefuse
  <2>3. creds /\ starts = 1 => at = "kaggle"
    BY <2>1, <2>2
  <2>4. at = "kaggle" => credsPath
    BY <2>1
  <2>5. ~(creds' /\ starts' = 1)
    BY <2>1, <2>3, <2>4
  <2>6. /\ pc' \in {at, "report", "poll"}
        /\ pc' = "allocate" => at = "allocate" /\ cur' = cur
        /\ pc' = at => at \in Swallows
        /\ cur' \in {cur, None}
    BY <1>5, <2>1 DEF HandlerFails, Swallows, Finally
  <2>7. Doing' = pc' /\ (pc' \in Early => pc' = "allocate" /\ at = "allocate" /\ cur' = cur)
    BY <2>1, <2>6 DEF Main, Working, Finally, RunPhase, Swallows
  <2>8. cur' \notin todo'
    BY <2>1, <2>6, WorkspaceAssumption
  <2>. QED
    BY <2>1, <2>5, <2>7, <2>8
<1>6. CASE Exit
  <2>1. pc' = "down" /\ cur' = None /\ writers' \subseteq writers /\ UNCHANGED <<docker, disk, asked, todo>>
    BY <1>6 DEF Exit, Forgets
  <2>. QED
    BY <2>1, WorkspaceAssumption
<1>. QED
  BY <1>1, <1>2, <1>3, <1>4, <1>5, <1>6 DEF HandlerNext

LEMMA SecretWorld == TypeOK /\ Located /\ Secret /\ WorldNext => Secret'
<1>. SUFFICES ASSUME TypeOK, Located, Secret, WorldNext PROVE Secret'
  OBVIOUS
<1>1. UNCHANGED <<pc, at, cur, credsPath, workspace, creds, todo, starts>> /\ Doing' = Doing
  BY WorldEffect DEF Doing
<1>2. \A j \in Jobs : AskedFor(j) = {} /\ docker[j] = "none" =>
         AskedFor(j)' = {} /\ docker'[j] = "none" /\ (disk'[j] # disk[j] => j \in writers /\ disk'[j] = "made")
  BY WorldEffect
<1>3. writers' \subseteq writers
  BY WorldEffect
<1>4. (Doing \in Early => cur \in Jobs) /\ todo \subseteq Jobs
  BY DEF Early, Cloning, Located, Working, TypeOK
<1>5. Fresh'
  BY <1>1, <1>2, <1>3, <1>4 DEF Secret, Fresh
<1>6. Removable'
  BY <1>1, <1>2, <1>3, <1>4 DEF Secret, Removable
<1>. QED
  BY <1>1, <1>5, <1>6 DEF Secret, CredentialsGone, Down

LEMMA SecretStep == TypeOK /\ Located /\ Secret /\ [Next]_vars => Secret'
<1>. SUFFICES ASSUME TypeOK, Located, Secret, [Next]_vars PROVE Secret'
  OBVIOUS
<1>. USE DEF Secret, Fresh, Removable, CredentialsGone, Doing, Handler, Early, Cloning, Down, TypeOK,
             AskedFor, Goto, locals, globals, node, history
<1>1. ASSUME NEW j \in Jobs, Fetch(j) PROVE Secret'
  BY <1>1 DEF Fetch
<1>2. CASE Interrupt
  BY <1>2 DEF Interrupt
<1>3. CASE Crash
  <2>1. pc' = "down" /\ cur' = None /\ UNCHANGED <<docker, disk, writers, asked, todo>>
    BY <1>3 DEF Crash, Forgets
  <2>. QED
    BY <2>1, WorkspaceAssumption DEF AskedFor
<1>4. CASE Start
  <2>1. starts' # 1 /\ pc' = "leftContainers"
    BY <1>4 DEF Start
  <2>. QED
    BY <1>4, <2>1 DEF Start
<1>5. CASE LeftContainers
  BY <1>5 DEF LeftContainers
<1>6. CASE LeftVolumes
  BY <1>6 DEF LeftVolumes
<1>7. CASE LeftWorkspaces
  <2>1. \A j \in Jobs : disk[j] = "none" => disk'[j] = "none"
    BY <1>7 DEF LeftWorkspaces
  <2>2. pc = "leftWorkspaces" /\ pc' = "poll" /\ UNCHANGED <<docker, cur, todo, writers, asked, creds, starts>>
    BY <1>7 DEF LeftWorkspaces
  <2>. QED
    BY <2>1, <2>2
<1>8. CASE UNCHANGED vars
  BY <1>8 DEF vars
<1>. QED
  BY <1>1, <1>2, <1>3, <1>4, <1>5, <1>6, <1>7, <1>8, SecretMain, SecretHandler, SecretWorld
     DEF Next, StartNext

\* The credentials are deleted after use, also when the handler interrupts their use
\* and fails, unless the process ended first.
THEOREM CredentialsGoneCorrect == Spec => []CredentialsGone
<1>1. Secret => CredentialsGone
  BY DEF Secret
<1>. QED
  BY <1>1, LocatedInit, LocatedStep, SecretInit, SecretStep, PTL DEF Spec
=============================================================================
