---------------------------- MODULE Agent_proofs ----------------------------
(* Proofs about Agent: one node with any jobs, any number of starts and any *)
(* number of late calls.                                                    *)
EXTENDS Agent, TLAPS

-----------------------------------------------------------------------------
(* Calls.                                                                   *)

CallSet == {Idle, [at |-> "kill"]} \cup [at: {"sent"}, body: Body]
                                   \cup [at: {"done"}, answer: Answers]

JobAnswers == [job: Jobs]

LEMMA CallTypes ==
    /\ Idle \in CallSet /\ [at |-> "kill"] \in CallSet
    /\ \A b \in Body : Sent(b) \in CallSet /\ Sent(b).at = "sent" /\ Sent(b).body = b
    /\ \A a \in Answers : Answer(a) \in CallSet /\ Answer(a).at = "done" /\ Answer(a).answer = a
    /\ Idle.at = "idle"
    /\ \A x \in CallSet : /\ x.at \in {"idle", "kill", "sent", "done"}
                          /\ x.at = "sent" => x.body \in Body
                          /\ x.at = "done" => x.answer \in Answers
  BY DEF CallSet, Idle, Sent, Answer

LEMMA BodyTypes ==
    /\ [op |-> "next"] \in Body
    /\ \A j \in Jobs, to \in AgentReports : Report(j, to) \in Body
    /\ \A b \in BOOLEAN : [op |-> "beat", busy |-> b] \in Body
    /\ \A b \in Body : /\ b.op \in {"next", "status", "beat"}
                       /\ b.op = "status" => b.job \in Jobs /\ b.to \in AgentReports
                       /\ b.op = "beat" => b.busy \in BOOLEAN
  BY DEF Body, Report

LEMMA ReportFields ==
    ASSUME NEW j, NEW to
    PROVE  Report(j, to).op = "status" /\ Report(j, to).job = j /\ Report(j, to).to = to
  BY DEF Report

LEMMA AnswerTypes ==
    /\ None \in Answers /\ Reclaimed \in Answers /\ JobAnswers \subseteq Answers
    /\ None \notin JobAnswers /\ None # Reclaimed
    /\ \A a \in JobAnswers : a.job \in Jobs /\ a = [job |-> a.job]
    /\ \A j \in Jobs : [job |-> j] \in JobAnswers /\ [job |-> j].job = j
  BY AgentAssumption DEF Answers, JobAnswers, Reclaimed

RowSet == [Jobs -> [status: Status, here: BOOLEAN]]

\* What an answer does to the rows, and what it says.
LEMMA Handled ==
    ASSUME row \in RowSet, NEW body \in Body, NEW answer \in Answers, Handle(body, answer)
    PROVE  /\ row' \in RowSet
           /\ \A j \in Jobs : row'[j].status # row[j].status =>
                 \/ /\ body.op = "next" /\ answer = [job |-> j]
                    /\ row[j].status \in {"approved", "queued"} /\ row'[j].status = "assigned"
                 \/ /\ body.op = "status" /\ body.job = j /\ row'[j].status = body.to
                    /\ ~IsTerminal(row[j].status)
           /\ \/ answer = None
              \/ body.op = "beat" /\ answer = Reclaimed /\ StoppedHere # {}
              \/ /\ body.op = "next"
                 /\ \E j \in Jobs : /\ answer = [job |-> j] /\ row[j].status \in {"approved", "queued"}
                                    /\ row'[j].status = "assigned"
<1>1. CASE answer = None /\ UNCHANGED row
  BY <1>1
<1>2. CASE body.op = "next" /\ HandOut(answer) /\ ~(answer = None /\ UNCHANGED row)
  <2>1. PICK j \in Claimable :
          answer = [job |-> j] /\ row' = [row EXCEPT ![j] = [status |-> "assigned", here |-> TRUE]]
    BY <1>2 DEF HandOut
  <2>2. j \in Jobs /\ row[j].status \in {"approved", "queued"}
    BY DEF Claimable
  <2>3. row' \in RowSet
    BY <2>1 DEF RowSet, Status
  <2>4. \A k \in Jobs : row'[k] = IF k = j THEN [status |-> "assigned", here |-> TRUE] ELSE row[k]
    BY <2>1 DEF RowSet
  <2>. QED
    BY <1>2, <2>1, <2>2, <2>3, <2>4
<1>3. CASE body.op = "status" /\ TakeReport(body.job, body.to) /\ answer = None
           /\ ~(answer = None /\ UNCHANGED row)
  <2>1. /\ Allowed(body.job, body.to)
        /\ row' = [row EXCEPT ![body.job] = [status |-> body.to, here |-> body.to # "queued"]]
    BY <1>3 DEF TakeReport
  <2>2. body.job \in Jobs /\ body.to \in Status
    BY <1>3, BodyTypes DEF AgentReports, Status
  <2>3. row' \in RowSet
    BY <2>1, <2>2 DEF RowSet
  <2>4. \A k \in Jobs : row'[k] = IF k = body.job THEN [status |-> body.to, here |-> body.to # "queued"]
                                                  ELSE row[k]
    BY <2>1, <2>2 DEF RowSet
  <2>5. ~IsTerminal(row[body.job].status)
    BY <2>1 DEF Allowed
  <2>. QED
    BY <1>3, <2>2, <2>3, <2>4, <2>5
<1>4. CASE body.op = "beat" /\ TakeBeat(body.busy, answer)
  <2>1. row' = [j \in Jobs |-> [row[j] EXCEPT !.here = @ /\ (body.busy \/ j \notin StoppedHere)]]
    BY <1>4 DEF TakeBeat
  <2>2. answer = IF StoppedHere # {} THEN Reclaimed ELSE None
    BY <1>4 DEF TakeBeat
  <2>3. \A j \in Jobs : /\ row'[j].status = row[j].status
                        /\ row'[j] \in [status: Status, here: BOOLEAN]
    BY <2>1 DEF RowSet
  <2>4. row' \in RowSet
    BY <2>1, <2>3 DEF RowSet
  <2>. QED
    BY <1>4, <2>2, <2>3, <2>4
<1>. QED
  BY <1>1, <1>2, <1>3, <1>4 DEF Handle

-----------------------------------------------------------------------------
(* Types.                                                                   *)

Holding == {"allocate", "beginning", "prepare", "launch", "loop", "ended", "reporting", "clean"}

\* The main thread has a job where it needs one, asks for one or reports one, and is
\* never told to reclaim.
Seated ==
    /\ pc \in Holding => job \in Jobs
    /\ call["main"].at # "kill"
    /\ call["main"].at = "sent" => call["main"].body.op # "beat"
    /\ call["main"].at = "done" => call["main"].answer \in {None} \cup JobAnswers

Types ==
    /\ row \in RowSet /\ call \in [Threads -> CallSet] /\ late \subseteq Body
    /\ online \in BOOLEAN /\ busy \in BOOLEAN /\ flag \in BOOLEAN /\ term \in BOOLEAN
    /\ pc \in {"down", "poll", "fetch", "farewell"} \cup Holding
    /\ job \in Jobs \cup {None} /\ exit \in {"none", "zero", "other"}
    /\ docker \in [Jobs -> Container] /\ starts \in 1..MaxStarts
    /\ runs \in [Jobs -> Nat] /\ succeeded \subseteq Jobs /\ orphans \subseteq Jobs

LEMMA TypesEnough == Types => TypeOK
  BY DEF Types, TypeOK, RowSet, CallSet, Holding

LEMMA TypeInit == Init => Types /\ Seated
<1>. SUFFICES ASSUME Init PROVE Types /\ Seated
  OBVIOUS
<1>1. starts \in 1..MaxStarts
  BY AgentAssumption DEF Init
<1>2. call \in [Threads -> CallSet] /\ call["main"].at = "idle"
  BY CallTypes DEF Init, Threads
<1>3. row \in RowSet /\ docker \in [Jobs -> Container] /\ runs \in [Jobs -> Nat]
  BY DEF Init, RowSet, Status, Container
<1>4. Types
  BY <1>1, <1>2, <1>3 DEF Types, Init
<1>. QED
  BY <1>2, <1>4 DEF Init, Seated, Holding

\* The main thread sends a report of the job it holds.
LEMMA Reports ==
    ASSUME Types, Seated, pc \in Holding, NEW to \in AgentReports, Calls(Report(job, to))
    PROVE  /\ call' \in [Threads -> CallSet]
           /\ call'["main"] = Sent(Report(job, to)) /\ call'["beat"] = call["beat"]
           /\ call'["main"].at = "sent" /\ call'["main"].body.op = "status"
<1>1. job \in Jobs /\ call \in [Threads -> CallSet] /\ "main" \in Threads /\ "beat" \in Threads
  BY DEF Types, Seated, Threads
<1>2. Report(job, to) \in Body /\ Report(job, to).op = "status"
  BY <1>1, BodyTypes DEF Report
<1>3. Sent(Report(job, to)) \in CallSet /\ Sent(Report(job, to)).at = "sent"
      /\ Sent(Report(job, to)).body = Report(job, to)
  BY <1>2, CallTypes
<1>. QED
  BY <1>1, <1>2, <1>3 DEF Calls

LEMMA Hung ==
    ASSUME Types, Hangs
    PROVE  /\ call' \in [Threads -> CallSet]
           /\ call'["main"] = Idle /\ call'["beat"] = call["beat"] /\ call'["main"].at = "idle"
  BY CallTypes DEF Types, Hangs, Threads

LEMMA Abandoned ==
    ASSUME Types, NEW c \in Threads, Abandon(c)
    PROVE  /\ late' \subseteq Body
           /\ \A b \in late' : b \in late \/ (call[c].at = "sent" /\ b = call[c].body)
<1>1. call[c].at = "sent" => call[c].body \in Body
  BY CallTypes DEF Types
<1>. QED
  BY <1>1 DEF Types, Abandon

LEMMA TypeMain == Types /\ Seated /\ MainNext => Types' /\ Seated'
<1>. SUFFICES ASSUME Types, Seated, MainNext PROVE Types' /\ Seated'
  OBVIOUS
<1>. USE DEF Holding
<1>0. /\ row \in RowSet /\ call \in [Threads -> CallSet] /\ late \subseteq Body
      /\ online \in BOOLEAN /\ busy \in BOOLEAN /\ flag \in BOOLEAN /\ term \in BOOLEAN
      /\ pc \in {"down", "poll", "fetch", "farewell"} \cup Holding
      /\ job \in Jobs \cup {None} /\ exit \in {"none", "zero", "other"}
      /\ docker \in [Jobs -> Container] /\ starts \in 1..MaxStarts
      /\ runs \in [Jobs -> Nat] /\ succeeded \subseteq Jobs /\ orphans \subseteq Jobs
  BY DEF Types
<1>01. {"running", "queued", "failed", "completed", "preempted"} = AgentReports
  BY DEF AgentReports
<1>1. CASE Poll
  <2>1. Sent([op |-> "next"]) \in CallSet /\ Sent([op |-> "next"]).at = "sent"
        /\ Sent([op |-> "next"]).body.op = "next"
    BY BodyTypes, CallTypes
  <2>2. call' \in [Threads -> CallSet] /\ call'["main"].at = "sent" /\ call'["main"].body.op = "next"
    BY <1>0, <1>1, <2>1 DEF Poll, Calls, Threads
  <2>. QED
    BY <1>0, <1>1, <2>2 DEF Types, Poll, Seated, world
<1>2. CASE Fetched
  <2>1. call' \in [Threads -> CallSet] /\ call'["main"].at = "idle"
    BY <1>2, Hung DEF Fetched
  <2>2. call["main"].answer # None => call["main"].answer.job \in Jobs
    BY <1>2, AnswerTypes DEF Fetched, Answered, Seated
  <2>3. /\ pc' \in {"poll", "allocate"} /\ job' \in Jobs \cup {None} /\ busy' \in BOOLEAN
        /\ pc' = "allocate" => job' \in Jobs
    BY <1>0, <1>2, <2>2 DEF Fetched
  <2>4. UNCHANGED <<row, online, exit, flag, term, late, docker, starts, runs, succeeded, orphans>>
    BY <1>2 DEF Fetched, world
  <2>. QED
    BY <1>0, <2>1, <2>3, <2>4 DEF Types, Seated
<1>3. CASE Allocate
  <2>1. \E to \in AgentReports : Calls(Report(job, to))
    BY <1>3 DEF Allocate, AgentReports
  <2>2. call' \in [Threads -> CallSet] /\ call'["main"].at = "sent" /\ call'["main"].body.op = "status"
    BY <1>3, <2>1, Reports DEF Allocate
  <2>3. pc \in Holding /\ pc' \in {"beginning", "reporting"} /\ UNCHANGED <<row, online, job, busy,
             exit, flag, term, late, docker, starts, runs, succeeded, orphans>>
    BY <1>3 DEF Allocate, world
  <2>. QED
    BY <1>0, <2>2, <2>3 DEF Types, Seated
<1>4. CASE Begun \/ Reported
  <2>1. call' \in [Threads -> CallSet] /\ call'["main"].at = "idle"
    BY <1>4, Hung DEF Begun, Reported
  <2>2. pc \in Holding /\ pc' \in {"prepare", "clean"} /\ UNCHANGED <<row, online, job, busy,
             exit, flag, term, late, docker, starts, runs, succeeded, orphans>>
    BY <1>4 DEF Begun, Reported, world
  <2>. QED
    BY <1>0, <2>1, <2>2 DEF Types, Seated
<1>5. CASE Prepare
  <2>1. pc = "prepare" /\ UNCHANGED <<row, online, job, busy, exit, term, late, starts, runs,
                                           succeeded, orphans>>
    BY <1>5 DEF Prepare, world
  <2>2. CASE /\ pc' = "launch" /\ flag' = FALSE
             /\ docker' = [docker EXCEPT ![job] = "starting"]
             /\ UNCHANGED call
    <3>1. docker' \in [Jobs -> Container]
      BY <1>0, <2>2 DEF Container
    <3>. QED
      BY <1>0, <2>1, <2>2, <3>1 DEF Types, Seated
  <2>3. CASE /\ pc' = "reporting" /\ Calls(Report(job, "failed"))
             /\ UNCHANGED <<flag, docker>>
    <3>1. call' \in [Threads -> CallSet] /\ call'["main"].at = "sent" /\ call'["main"].body.op = "status"
      BY <1>01, <2>1, <2>3, Reports
    <3>. QED
      BY <1>0, <2>1, <2>3, <3>1 DEF Types, Seated
  <2>. QED
    BY <1>5, <2>2, <2>3 DEF Prepare
<1>6. CASE Launch
  <2>1. pc = "launch" /\ UNCHANGED <<row, online, job, busy, exit, flag, term, late, starts,
                                          runs, succeeded, orphans>>
    BY <1>6 DEF Launch, world
  <2>2. CASE pc' = "loop" /\ UNCHANGED <<call, docker>>
    BY <1>0, <2>1, <2>2 DEF Types, Seated
  <2>3. CASE /\ pc' = "reporting" /\ Calls(Report(job, "failed"))
             /\ docker' = IF docker[job] = "starting" THEN [docker EXCEPT ![job] = "none"] ELSE docker
    <3>1. call' \in [Threads -> CallSet] /\ call'["main"].at = "sent" /\ call'["main"].body.op = "status"
      BY <1>01, <2>1, <2>3, Reports
    <3>2. docker' \in [Jobs -> Container]
      BY <1>0, <2>3 DEF Container
    <3>. QED
      BY <1>0, <2>1, <2>3, <3>1, <3>2 DEF Types, Seated
  <2>. QED
    BY <1>6, <2>2, <2>3 DEF Launch
<1>7. CASE LoopEnds
  <2>1. job \in Jobs /\ pc' = "ended"
    BY <1>7 DEF LoopEnds, Seated
  <2>2. exit' \in {"none", "zero", "other"} /\ docker' \in [Jobs -> Container]
    BY <1>0, <1>7, <2>1 DEF LoopEnds, Stopped, Container
  <2>3. UNCHANGED <<row, online, job, busy, flag, term, call, late, starts, runs, succeeded, orphans>>
    BY <1>7 DEF LoopEnds, world
  <2>. QED
    BY <1>0, <2>1, <2>2, <2>3 DEF Types, Seated
<1>8. CASE LoopFails \/ Conclude
  <2>1. pc \in Holding /\ \E to \in AgentReports : Calls(Report(job, to))
    BY <1>8 DEF LoopFails, Conclude, Verdict, AgentReports
  <2>2. call' \in [Threads -> CallSet] /\ call'["main"].at = "sent" /\ call'["main"].body.op = "status"
    BY <2>1, Reports
  <2>3. pc' = "reporting" /\ exit' \in {exit, "none"} /\ UNCHANGED <<row, online, job, busy,
             flag, term, late, docker, starts, runs, succeeded, orphans>>
    BY <1>8 DEF LoopFails, Conclude, world
  <2>. QED
    BY <1>0, <2>1, <2>2, <2>3 DEF Types, Seated
<1>9. CASE Clean
  <2>1. docker' \in [Jobs -> Container]
    BY <1>0, <1>9 DEF Clean, FinalStop, Stopped, Container
  <2>. QED
    BY <1>0, <1>9, <2>1 DEF Types, Clean, Seated, world
<1>. QED
  BY <1>1, <1>2, <1>3, <1>4, <1>5, <1>6, <1>7, <1>8, <1>9 DEF MainNext

LEMMA Freed ==
    ASSUME Types, NEW j \in Jobs
    PROVE  /\ Stopped(j) \in [Jobs -> Container]
           /\ \A k \in Jobs : Stopped(j)[k] = IF k = j /\ docker[j] # "starting" THEN "none" ELSE docker[k]
  BY DEF Types, Stopped, Container

LEMMA TypeBeat == Types /\ Seated /\ Beat => Types' /\ Seated'
<1>. SUFFICES ASSUME Types, Seated, Beat PROVE Types' /\ Seated'
  OBVIOUS
<1>1. UNCHANGED <<row, online, pc, job, busy, exit, late, docker, starts, runs, succeeded, orphans>>
  BY DEF Beat, BeatSends, BeatAnswered, BeatKills, process, world
<1>2. PICK x : call' = [call EXCEPT !["beat"] = x]
  BY DEF Beat, BeatSends, BeatAnswered, BeatKills
<1>3. call' \in [Threads -> CallSet] /\ flag' \in BOOLEAN /\ term' \in BOOLEAN
  <2>1. CASE BeatSends
    <3>1. Sent([op |-> "beat", busy |-> busy]) \in CallSet
      BY BodyTypes, CallTypes DEF Types
    <3>. QED
      BY <2>1, <3>1 DEF Types, BeatSends, Threads, process
  <2>2. CASE BeatAnswered
    <3>1. /\ call' \in {[call EXCEPT !["beat"] = [at |-> "kill"]], [call EXCEPT !["beat"] = Idle]}
      BY <2>2 DEF BeatAnswered
    <3>2. call' \in [Threads -> CallSet]
      BY <3>1, CallTypes DEF Types
    <3>3. flag' \in BOOLEAN /\ term' \in BOOLEAN
      BY <2>2 DEF BeatAnswered, Types
    <3>. QED
      BY <3>2, <3>3
  <2>3. CASE BeatKills
    BY <2>3, CallTypes DEF Types, BeatKills, Threads
  <2>. QED
    BY <2>1, <2>2, <2>3 DEF Beat
<1>4. call'["main"] = call["main"]
  BY <1>2 DEF Types, Threads
<1>. QED
  BY <1>1, <1>3, <1>4 DEF Types, Seated

LEMMA TypeNetwork ==
    ASSUME Types, Seated, ServeLate \/ \E c \in Threads : Serve(c) \/ TimeOut(c)
    PROVE  Types' /\ Seated'
<1>1. UNCHANGED <<online, pc, job, busy, exit, flag, term, docker, starts, runs, succeeded, orphans>>
  BY DEF ServeLate, Serve, TimeOut, process, world
<1>2. CASE ServeLate
  <2>1. PICK body \in late : /\ \E answer \in Answers : Handle(body, answer)
                             /\ late' = late \ {body}
    BY <1>2 DEF ServeLate
  <2>2. body \in Body /\ late' \subseteq Body /\ UNCHANGED call
    BY <1>2, <2>1 DEF Types, ServeLate
  <2>3. row' \in RowSet
    BY <2>1, <2>2, Handled DEF Types
  <2>. QED
    BY <1>1, <2>2, <2>3 DEF Types, Seated
<1>3. ASSUME NEW c \in Threads, Serve(c) PROVE Types' /\ Seated'
  <2>1. PICK answer \in Answers : /\ Handle(call[c].body, answer)
                                  /\ call' = [call EXCEPT ![c] = Answer(answer)]
    BY <1>3 DEF Serve
  <2>2. call[c].at = "sent" /\ call[c].body \in Body /\ UNCHANGED late
    BY <1>3, CallTypes DEF Types, Serve
  <2>3. /\ row' \in RowSet
        /\ call[c].body.op # "beat" => answer \in {None} \cup JobAnswers
    BY <2>1, <2>2, Handled, AnswerTypes DEF Types
  <2>4. call' \in [Threads -> CallSet] /\ call'[c] = Answer(answer)
        /\ \A d \in Threads : d # c => call'[d] = call[d]
    BY <2>1, CallTypes DEF Types
  <2>5. Answer(answer).at = "done" /\ Answer(answer).answer = answer
    BY CallTypes
  <2>6. /\ call'["main"].at # "kill"
        /\ call'["main"].at = "sent" => call'["main"].body.op # "beat"
        /\ call'["main"].at = "done" => call'["main"].answer \in {None} \cup JobAnswers
    BY <2>2, <2>3, <2>4, <2>5 DEF Seated, Threads
  <2>. QED
    BY <1>1, <2>2, <2>3, <2>4, <2>6 DEF Types, Seated
<1>4. ASSUME NEW c \in Threads, TimeOut(c) PROVE Types' /\ Seated'
  <2>1. call' = [call EXCEPT ![c] = Answer(None)] /\ late' \subseteq Body /\ UNCHANGED row
    BY <1>4, Abandoned DEF TimeOut
  <2>2. Answer(None) \in CallSet /\ Answer(None).at = "done" /\ Answer(None).answer = None
    BY CallTypes, AnswerTypes
  <2>3. call' \in [Threads -> CallSet] /\ call'["main"] \in {call["main"], Answer(None)}
    BY <2>1, <2>2 DEF Types, Threads
  <2>4. /\ call'["main"].at # "kill"
        /\ call'["main"].at = "sent" => call'["main"].body.op # "beat"
        /\ call'["main"].at = "done" => call'["main"].answer \in {None} \cup JobAnswers
    BY <2>2, <2>3 DEF Seated
  <2>. QED
    BY <1>1, <2>1, <2>3, <2>4 DEF Types, Seated
<1>. QED
  BY <1>2, <1>3, <1>4

LEMMA TypePeople ==
    ASSUME Types, Seated, People \/ Sweep
    PROVE  Types' /\ Seated'
<1>1. UNCHANGED <<pc, job, busy, exit, flag, term, call, late, docker, starts, runs, succeeded, orphans>>
  BY DEF People, Approve, Stop, Reclaim, Sweep, process, world
<1>2. row' \in RowSet /\ online' \in BOOLEAN
  <2>1. CASE Reclaim
    BY <2>1 DEF Types, RowSet, Reclaim, Status
  <2>2. ASSUME NEW j \in Jobs, Approve(j) PROVE row' \in RowSet /\ online' \in BOOLEAN
    BY <2>2 DEF Types, RowSet, Approve, Status
  <2>3. ASSUME NEW j \in Jobs, NEW to \in {"cancelled", "preempted"}, Stop(j, to)
        PROVE  row' \in RowSet /\ online' \in BOOLEAN
    BY <2>3 DEF Types, RowSet, Stop, Status
  <2>4. CASE Sweep
    BY <2>4 DEF Types, RowSet, Sweep, Status
  <2>. QED
    BY <2>1, <2>2, <2>3, <2>4 DEF People
<1>. QED
  BY <1>1, <1>2 DEF Types, Seated

LEMMA TypeProcess ==
    ASSUME Types, Seated,
           \/ Shutdown \/ Exit \/ Crash \/ Interrupt \/ Start
           \/ \E j \in Jobs : ContainerStarts(j) \/ ContainerExits(j)
    PROVE  Types' /\ Seated'
<1>. USE DEF Holding
<1>1. CASE Shutdown
  <2>1. /\ pc' = "farewell" /\ job' = None /\ busy' = FALSE /\ exit' = "none" /\ term' = FALSE
        /\ UNCHANGED <<row, online, flag, starts, runs, succeeded, orphans>>
    BY <1>1 DEF Shutdown, world
  <2>2. late' \subseteq Body
    BY <1>1, Abandoned DEF Shutdown, Threads
  <2>3. docker' \in [Jobs -> Container]
    BY <1>1 DEF Shutdown, Types, Stopped, Container
  <2>4. /\ call' \in [Threads -> CallSet]
        /\ \/ call'["main"].at = "sent" /\ call'["main"].body.op = "status"
           \/ call'["main"].at = "done" /\ call'["main"].answer = None
    <3>1. CASE job # None
      <4>1. Report(job, Farewell(flag)) \in Body /\ Report(job, Farewell(flag)).op = "status"
        BY <3>1, BodyTypes, ReportFields DEF Types, Farewell, AgentReports
      <4>2. Sent(Report(job, Farewell(flag))) \in CallSet
            /\ Sent(Report(job, Farewell(flag))).at = "sent"
            /\ Sent(Report(job, Farewell(flag))).body = Report(job, Farewell(flag))
        BY <4>1, CallTypes
      <4>3. call' = [call EXCEPT !["main"] = Sent(Report(job, Farewell(flag)))]
        BY <1>1, <3>1 DEF Shutdown, Calls
      <4>. QED
        BY <4>1, <4>2, <4>3 DEF Types, Threads
    <3>2. CASE job = None
      <4>1. call' = [call EXCEPT !["main"] = Answer(None)]
        BY <1>1, <3>2 DEF Shutdown
      <4>. QED
        BY <4>1, CallTypes, AnswerTypes DEF Types, Threads
    <3>. QED
      BY <3>1, <3>2
  <2>. QED
    BY <2>1, <2>2, <2>3, <2>4 DEF Types, Seated
<1>2. CASE Exit \/ Crash
  <2>1. /\ Gone /\ call' = [c \in Threads |-> Idle]
        /\ UNCHANGED <<row, online, starts, runs, succeeded, orphans>>
    BY <1>2 DEF Exit, Crash, world
  <2>2. late' \subseteq Body
    BY <1>2, Abandoned DEF Exit, Crash, Threads
  <2>3. docker' \in [Jobs -> Container]
    BY <1>2 DEF Exit, Crash, Types, Container
  <2>4. call' \in [Threads -> CallSet] /\ call'["main"].at = "idle"
    BY <2>1, CallTypes DEF Threads
  <2>. QED
    BY <2>1, <2>2, <2>3, <2>4 DEF Types, Seated, Gone
<1>3. CASE Interrupt
  BY <1>3 DEF Interrupt, Types, Seated, world
<1>4. CASE Start
  <2>1. starts' \in 1..MaxStarts
    BY <1>4, AgentAssumption DEF Start, Types
  <2>2. docker' \in [Jobs -> Container] /\ online' \in BOOLEAN
    BY <1>4 DEF Start, Types, Container
  <2>. QED
    BY <1>4, <2>1, <2>2 DEF Start, Types, Seated
<1>5. ASSUME NEW j \in Jobs, ContainerStarts(j) \/ ContainerExits(j)
      PROVE  Types' /\ Seated'
  <2>1. UNCHANGED <<row, online, pc, job, busy, exit, flag, term, call, late, starts, orphans>>
    BY <1>5 DEF ContainerStarts, ContainerExits, process
  <2>2. docker' \in [Jobs -> Container] /\ runs' \in [Jobs -> Nat] /\ succeeded' \subseteq Jobs
    BY <1>5 DEF ContainerStarts, ContainerExits, Types, Container
  <2>. QED
    BY <2>1, <2>2 DEF Types, Seated
<1>. QED
  BY <1>1, <1>2, <1>3, <1>4, <1>5

LEMMA TypeStep == Types /\ Seated /\ [Next]_vars => Types' /\ Seated'
<1>1. ASSUME Types, Seated, UNCHANGED vars PROVE Types' /\ Seated'
  BY <1>1 DEF Types, Seated, vars
<1>. QED
  BY <1>1, TypeMain, TypeBeat, TypeNetwork, TypePeople, TypeProcess DEF Next

\* Every variable keeps its type, and the main thread holds a job wherever it works
\* on one: no step of execute_job and of the shutdown handler reads a job id that the
\* other has already cleared (agent.py: _current_job_id).
THEOREM TypeCorrect == Spec => [](TypeOK /\ Seated)
<1>1. Init => Types /\ Seated
  BY TypeInit
<1>2. Types /\ Seated /\ [Next]_vars => (Types /\ Seated)'
  BY TypeStep
<1>. QED
  BY <1>1, <1>2, TypesEnough, PTL DEF Spec

-----------------------------------------------------------------------------
(* One container.                                                           *)

\* The node's containers but for those of the orphans: one at most, the main thread's
\* while it is in its job, none before docker run and after the cleaning up.  What is
\* left when the process has gone is removed by Start, or an orphan from then on; the
\* third conjunct keeps a docker run under way out of the later stages.
Kept == Jobs \ orphans

Alone ==
    /\ \A j, k \in Kept : docker[j] # "none" /\ docker[k] # "none" => j = k
    /\ pc \in {"poll", "fetch", "allocate", "beginning", "prepare"} => \A j \in Kept : docker[j] = "none"
    /\ pc \in {"loop", "ended", "reporting", "clean"} => \A j \in Kept : docker[j] # "starting"
    /\ pc \in {"launch", "loop", "ended", "reporting", "clean"} =>
          \A j \in Kept : docker[j] # "none" => j = job

LEMMA AloneStep == ASSUME Types, Seated, Alone, [Next]_vars PROVE Alone'
<1>. USE DEF Holding, Kept
<1>1. ASSUME UNCHANGED <<pc, job, docker, orphans>> PROVE Alone'
  BY <1>1 DEF Alone
<1>2. CASE Poll \/ Fetched \/ Allocate \/ Begun \/ LoopFails \/ Conclude \/ Reported \/ Crash
  <2>1. UNCHANGED <<docker, orphans>>
    BY <1>2 DEF Poll, Fetched, Allocate, Begun, LoopFails, Conclude, Reported, Crash, world
  <2>2. \/ pc \in {"poll", "fetch", "allocate", "beginning"}
           /\ pc' \in {"poll", "fetch", "allocate", "beginning", "prepare", "reporting"}
        \/ pc \in {"loop", "ended", "reporting"} /\ pc' \in {"reporting", "clean"} /\ UNCHANGED job
        \/ pc' = "down"
    BY <1>2 DEF Poll, Fetched, Allocate, Begun, LoopFails, Conclude, Reported, Crash, Gone
  <2>. QED
    BY <2>1, <2>2 DEF Alone
<1>3. CASE Prepare
  <2>1. job \in Jobs /\ UNCHANGED <<job, orphans>> /\ \A j \in Kept : docker[j] = "none"
    BY <1>3 DEF Prepare, Seated, Alone, world
  <2>2. \/ pc' = "launch" /\ \A j \in Kept : docker'[j] = IF j = job THEN "starting" ELSE "none"
        \/ pc' = "reporting" /\ UNCHANGED docker
    BY <1>3, <2>1 DEF Prepare, Types
  <2>. QED
    BY <2>1, <2>2 DEF Alone
<1>4. CASE Launch
  <2>1. job \in Jobs /\ UNCHANGED <<job, orphans>> /\ \A j \in Kept : docker[j] # "none" => j = job
    BY <1>4 DEF Launch, Seated, Alone, world
  <2>2. /\ pc' \in {"loop", "reporting"}
        /\ docker'[job] # "starting"
        /\ \A j \in Jobs : docker'[j] \in {docker[j], "none"}
    BY <1>4, <2>1 DEF Launch, Types
  <2>. QED
    BY <2>1, <2>2 DEF Alone
<1>5. CASE LoopEnds
  <2>1. job \in Jobs /\ UNCHANGED <<job, orphans>> /\ pc = "loop" /\ pc' = "ended"
    BY <1>5 DEF LoopEnds, Seated, world
  <2>2. \A j \in Jobs : docker'[j] \in {docker[j], "none"}
    BY <1>5, <2>1, Freed DEF LoopEnds
  <2>. QED
    BY <2>1, <2>2 DEF Alone
<1>6. CASE Clean
  <2>1. job \in Jobs /\ pc = "clean" /\ pc' = "poll" /\ UNCHANGED orphans
    BY <1>6 DEF Clean, Seated, world
  <2>2. \A j \in Jobs : docker'[j] = IF j = job /\ docker[j] # "starting" THEN "none" ELSE docker[j]
    BY <1>6, <2>1, Freed DEF Clean, FinalStop
  <2>. QED
    BY <2>1, <2>2 DEF Alone
<1>7. CASE Shutdown \/ Exit \/ Start
  <2>1. CASE Shutdown
    <3>1. \A j \in Jobs : docker'[j] \in {docker[j], "none"}
      BY <2>1 DEF Shutdown, Stopped, Types
    <3>. QED
      BY <2>1, <3>1 DEF Shutdown, Alone, world
  <2>2. CASE Exit
    BY <2>2 DEF Exit, Gone, Alone, world
  <2>3. CASE Start
    <3>1. \A j \in Jobs : docker'[j] = "none" \/ j \in orphans'
      BY <2>3 DEF Start
    <3>. QED
      BY <2>3, <3>1 DEF Start, Alone
  <2>. QED
    BY <1>7, <2>1, <2>2, <2>3
<1>8. ASSUME NEW j \in Jobs, ContainerStarts(j) \/ ContainerExits(j) PROVE Alone'
  <2>1. UNCHANGED <<pc, job, orphans>> /\ docker[j] \in {"starting", "running"}
    BY <1>8 DEF ContainerStarts, ContainerExits, process
  <2>2. docker'[j] # "starting" /\ \A k \in Jobs : k # j => docker'[k] = docker[k]
    BY <1>8 DEF ContainerStarts, ContainerExits, Types
  <2>. QED
    BY <2>1, <2>2 DEF Alone
<1>9. ASSUME UNCHANGED vars \/ Beat \/ People \/ Sweep \/ ServeLate \/ Interrupt
             \/ \E c \in Threads : Serve(c) \/ TimeOut(c)
      PROVE  UNCHANGED <<pc, job, docker, orphans>>
  BY <1>9 DEF world, vars, Beat, BeatSends, BeatAnswered, BeatKills, People, Approve, Stop, Reclaim, Sweep,
              ServeLate, Interrupt, Serve, TimeOut, process
<1>. QED
  BY <1>1, <1>2, <1>3, <1>4, <1>5, <1>6, <1>7, <1>8, <1>9 DEF Next, MainNext

LEMMA AloneInit == Init => Alone
  BY DEF Init, Alone, Kept

\* A node runs one container at a time, whatever its reports, its signals, its crashes
\* and its restarts, but for the containers of a docker run that the agent left under way
\* and that is not over when it starts again (agent.py: the poll loop, handle_shutdown,
\* cleanup_leftover_containers).
THEOREM OneContainerCorrect == Spec => []OneContainer
<1>1. Init => Types /\ Seated /\ Alone
  BY TypeInit, AloneInit
<1>2. Types /\ Seated /\ Alone /\ [Next]_vars => (Types /\ Seated /\ Alone)'
  BY TypeStep, AloneStep
<1>3. Alone => OneContainer
  BY DEF Alone, Kept, OneContainer, Live
<1>. QED
  BY <1>1, <1>2, <1>3, PTL DEF Spec

-----------------------------------------------------------------------------
(* The reports under way.                                                   *)

\* The bodies of the calls that may still reach the backend.
UnderWay == {b \in Body : b \in late \/ \E c \in Threads : call[c].at = "sent" /\ call[c].body = b}

\* What makes the agent report `to` of the job it holds.
Reason(to) ==
    /\ to = "completed" => pc = "ended" /\ exit = "zero" /\ ~flag
    /\ to = "preempted" => flag

LEMMA Sends ==
    ASSUME Types, NEW c \in Threads, NEW x \in CallSet, call' = [call EXCEPT ![c] = x],
           late' \subseteq UnderWay
    PROVE  \A b \in UnderWay' : b \in UnderWay \/ (x.at = "sent" /\ b = x.body)
  BY DEF Types, UnderWay

LEMMA LateUnderWay ==
    ASSUME Types
    PROVE  /\ late \subseteq UnderWay
           /\ \A c \in Threads : call[c].at = "sent" => call[c].body \in UnderWay
           /\ \A c \in Threads : Abandon(c) => late' \subseteq UnderWay
  BY CallTypes, Abandoned DEF Types, UnderWay

\* A report that is new under way is of the job the agent holds, with its reason.
Fresh(b) == b.op = "status" => b.job = job /\ job \in Jobs /\ Reason(b.to)

LEMMA SendsReport ==
    ASSUME Types, NEW to \in AgentReports, Calls(Report(job, to)), job \in Jobs, Reason(to),
           late' \subseteq UnderWay
    PROVE  \A b \in UnderWay' : b \in UnderWay \/ Fresh(b)
<1>1. /\ Report(job, to) \in Body /\ Sent(Report(job, to)) \in CallSet
      /\ Sent(Report(job, to)).body = Report(job, to)
      /\ Report(job, to).job = job /\ Report(job, to).to = to
  BY BodyTypes, CallTypes, ReportFields
<1>2. Fresh(Report(job, to))
  BY <1>1 DEF Fresh
<1>. QED
  BY <1>1, <1>2, Sends DEF Calls, Threads

LEMMA Origin ==
    ASSUME Types, Seated, [Next]_vars
    PROVE  \A b \in UnderWay' : b \in UnderWay \/ Fresh(b)
<1>. USE DEF Holding
<1>1. ASSUME UNCHANGED <<call, late>> PROVE \A b \in UnderWay' : b \in UnderWay
  BY <1>1 DEF UnderWay
<1>2. CASE Poll
  <2>1. /\ Sent([op |-> "next"]) \in CallSet /\ Sent([op |-> "next"]).body.op = "next"
        /\ call' = [call EXCEPT !["main"] = Sent([op |-> "next"])] /\ late' \subseteq UnderWay
    BY <1>2, BodyTypes, CallTypes, LateUnderWay DEF Poll, Calls
  <2>. QED
    BY <2>1, Sends DEF Threads, Fresh
<1>3. CASE Fetched \/ Begun \/ Reported
  <2>1. /\ call' = [call EXCEPT !["main"] = Idle] /\ Idle \in CallSet /\ Idle.at = "idle"
        /\ late' \subseteq UnderWay
    BY <1>3, CallTypes, LateUnderWay DEF Fetched, Begun, Reported, Hangs
  <2>. QED
    BY <2>1, Sends DEF Threads
<1>4. CASE Allocate \/ LoopFails \/ Conclude
  <2>1. job \in Jobs /\ late' \subseteq UnderWay
    BY <1>4, LateUnderWay DEF Allocate, LoopFails, Conclude, Seated
  <2>2. \E to \in AgentReports : Reason(to) /\ Calls(Report(job, to))
    BY <1>4 DEF Allocate, LoopFails, Conclude, Verdict, Reason, AgentReports
  <2>. QED
    BY <2>1, <2>2, SendsReport
<1>5. CASE Prepare \/ Launch
  <2>1. job \in Jobs /\ UNCHANGED late /\ late' \subseteq UnderWay
    BY <1>5, LateUnderWay DEF Prepare, Launch, Seated
  <2>2. UNCHANGED call \/ Calls(Report(job, "failed"))
    BY <1>5 DEF Prepare, Launch
  <2>3. "failed" \in AgentReports /\ Reason("failed")
    BY DEF AgentReports, Reason
  <2>. QED
    BY <1>1, <2>1, <2>2, <2>3, SendsReport
<1>6. CASE Shutdown
  <2>1. late' \subseteq UnderWay
    BY <1>6, LateUnderWay DEF Shutdown, Threads
  <2>2. CASE job # None
    <3>1. job \in Jobs /\ Calls(Report(job, Farewell(flag)))
      BY <1>6, <2>2 DEF Shutdown, Types
    <3>2. Farewell(flag) \in AgentReports /\ Reason(Farewell(flag))
      BY DEF Farewell, AgentReports, Reason
    <3>. QED
      BY <2>1, <3>1, <3>2, SendsReport
  <2>3. CASE job = None
    <3>1. /\ call' = [call EXCEPT !["main"] = Answer(None)] /\ Answer(None) \in CallSet
          /\ Answer(None).at = "done"
      BY <1>6, <2>3, CallTypes, AnswerTypes DEF Shutdown
    <3>. QED
      BY <2>1, <3>1, Sends DEF Threads
  <2>. QED
    BY <2>2, <2>3
<1>7. CASE Exit \/ Crash
  <2>1. late' \subseteq UnderWay /\ \A c \in Threads : call'[c].at = "idle"
    BY <1>7, LateUnderWay, CallTypes DEF Exit, Crash, Threads
  <2>. QED
    BY <2>1 DEF UnderWay
<1>8. ASSUME NEW c \in Threads, Serve(c) \/ TimeOut(c) PROVE \A b \in UnderWay' : b \in UnderWay
  <2>1. late' \subseteq UnderWay
    BY <1>8, LateUnderWay DEF Serve, TimeOut
  <2>2. \E a \in Answers : call' = [call EXCEPT ![c] = Answer(a)]
    BY <1>8, AnswerTypes DEF Serve, TimeOut
  <2>. QED
    BY <2>1, <2>2, CallTypes, Sends
<1>9. CASE ServeLate
  BY <1>9 DEF ServeLate, UnderWay
<1>10. CASE Beat
  <2>1. late' \subseteq UnderWay
    BY <1>10, LateUnderWay DEF Beat, BeatSends, BeatAnswered, BeatKills
  <2>2. CASE BeatSends
    <3>1. [op |-> "beat", busy |-> busy] \in Body
      BY BodyTypes DEF Types
    <3>2. call' = [call EXCEPT !["beat"] = Sent([op |-> "beat", busy |-> busy])]
      BY <2>2 DEF BeatSends
    <3>3. /\ Sent([op |-> "beat", busy |-> busy]) \in CallSet
          /\ Sent([op |-> "beat", busy |-> busy]).body.op = "beat"
      BY <3>1, CallTypes
    <3>4. \A b \in UnderWay' : b \in UnderWay \/ b.op = "beat"
      BY <2>1, <3>2, <3>3, Sends DEF Threads
    <3>. QED
      BY <3>4 DEF Fresh
  <2>3. CASE BeatAnswered \/ BeatKills
    <3>1. PICK x \in {Idle, [at |-> "kill"]} : call' = [call EXCEPT !["beat"] = x]
      BY <2>3 DEF BeatAnswered, BeatKills
    <3>. QED
      BY <2>1, <3>1, CallTypes, Sends DEF Threads, Idle
  <2>. QED
    BY <1>10, <2>2, <2>3 DEF Beat
<1>11. ASSUME UNCHANGED vars \/ LoopEnds \/ Clean \/ People \/ Sweep \/ Interrupt \/ Start
              \/ \E j \in Jobs : ContainerStarts(j) \/ ContainerExits(j)
       PROVE  UNCHANGED <<call, late>>
  BY <1>11 DEF vars, LoopEnds, Clean, People, Approve, Stop, Reclaim, Sweep, Interrupt, Start,
               ContainerStarts, ContainerExits
<1>. QED
  BY <1>1, <1>2, <1>3, <1>4, <1>5, <1>6, <1>7, <1>8, <1>9, <1>10, <1>11 DEF Next, MainNext

\* A row changes by a report under way, by a poll, or by people and the sweeper.
LEMMA RowMoves ==
    ASSUME Types, Seated, [Next]_vars, NEW j \in Jobs, row'[j].status # row[j].status
    PROVE  \/ \E b \in UnderWay : /\ b.op = "status" /\ b.job = j /\ row'[j].status = b.to
                                  /\ ~IsTerminal(row[j].status)
                                  /\ \/ ServeLate /\ b \in late /\ late' = late \ {b}
                                     \/ \E c \in Threads : /\ Serve(c) /\ call[c].body = b
                                                           /\ call' = [call EXCEPT ![c] = Answer(None)]
           \/ /\ row[j].status \in {"approved", "queued"} /\ row'[j].status = "assigned"
              /\ ServeLate \/ \E c \in Threads : Serve(c) /\ call[c].body.op = "next"
           \/ /\ row[j].status = "pending_approval" /\ row'[j].status = "approved"
              /\ UNCHANGED <<call, late>>
           \/ /\ ~IsTerminal(row[j].status) /\ row'[j].status \in {"cancelled", "preempted"}
              /\ People /\ UNCHANGED <<call, late>>
           \/ /\ ~IsTerminal(row[j].status) /\ row'[j].status = "failed"
              /\ UNCHANGED <<call, late>>
<1>1. CASE ServeLate
  <2>1. PICK b \in late : (\E answer \in Answers : Handle(b, answer)) /\ late' = late \ {b}
    BY <1>1 DEF ServeLate
  <2>2. b \in Body /\ b \in UnderWay
    BY LateUnderWay DEF UnderWay
  <2>. QED
    BY <1>1, <2>1, <2>2, Handled DEF Types
<1>2. ASSUME NEW c \in Threads, Serve(c)
      PROVE  \/ \E b \in UnderWay : /\ b.op = "status" /\ b.job = j /\ row'[j].status = b.to
                                    /\ ~IsTerminal(row[j].status) /\ call[c].body = b
                                    /\ call' = [call EXCEPT ![c] = Answer(None)]
             \/ /\ row[j].status \in {"approved", "queued"} /\ row'[j].status = "assigned"
                /\ call[c].body.op = "next"
  <2>1. PICK answer \in Answers : /\ Handle(call[c].body, answer)
                                  /\ call' = [call EXCEPT ![c] = Answer(answer)]
    BY <1>2 DEF Serve
  <2>2. call[c].body \in Body /\ call[c].body \in UnderWay
    BY <1>2, LateUnderWay DEF Serve, UnderWay
  <2>3. call[c].body.op = "status" => answer = None
    BY <2>1, <2>2, Handled DEF Types
  <2>4. \/ /\ call[c].body.op = "next" /\ row[j].status \in {"approved", "queued"}
           /\ row'[j].status = "assigned"
        \/ /\ call[c].body.op = "status" /\ call[c].body.job = j
           /\ row'[j].status = call[c].body.to /\ ~IsTerminal(row[j].status)
    BY <2>1, <2>2, Handled DEF Types
  <2>. QED
    BY <2>1, <2>2, <2>3, <2>4
<1>3. CASE People
  <2>1. UNCHANGED <<call, late>>
    BY <1>3 DEF People, Approve, Stop, Reclaim
  <2>2. CASE Reclaim
    BY <1>3, <2>1, <2>2 DEF Reclaim, Types, RowSet, Reclaimable, Active, IsTerminal, Terminal
  <2>3. ASSUME NEW k \in Jobs, Approve(k) PROVE row[j].status = "pending_approval" /\ row'[j].status = "approved"
    BY <2>3 DEF Approve, Types, RowSet
  <2>4. ASSUME NEW k \in Jobs, NEW to \in {"cancelled", "preempted"}, Stop(k, to)
        PROVE  ~IsTerminal(row[j].status) /\ row'[j].status \in {"cancelled", "preempted"}
    BY <2>4 DEF Stop, CanStop, Types, RowSet
  <2>. QED
    BY <1>3, <2>1, <2>2, <2>3, <2>4 DEF People
<1>4. CASE Sweep
  BY <1>4 DEF Sweep, Types, RowSet, Active, IsTerminal, Terminal
<1>5. ASSUME UNCHANGED vars \/ MainNext \/ Beat \/ Shutdown \/ Exit \/ Crash \/ Interrupt \/ Start
             \/ (\E k \in Jobs : ContainerStarts(k) \/ ContainerExits(k))
             \/ (\E c \in Threads : TimeOut(c))
      PROVE  FALSE
  BY <1>5 DEF vars, MainNext, Poll, Fetched, Allocate, Begun, Prepare, Launch, LoopEnds, LoopFails,
              Conclude, Reported, Clean, Beat, BeatSends, BeatAnswered, BeatKills, Shutdown, Exit,
              Crash, Interrupt, Start, ContainerStarts, ContainerExits, TimeOut
<1>. QED
  BY <1>1, <1>2, <1>3, <1>4, <1>5 DEF Next

-----------------------------------------------------------------------------
(* Completed means that the container got to its end.                       *)

\* What is said of a success on its way from the container to the row.
Earned ==
    /\ \A j \in Jobs : docker[j] = "zero" => j \in succeeded
    /\ pc # "ended" => exit = "none"
    /\ exit = "zero" => job \in succeeded
    /\ \A b \in UnderWay : b.op = "status" /\ b.to = "completed" => b.job \in succeeded
    /\ \A j \in Jobs : row[j].status = "completed" => j \in succeeded

LEMMA EarnedStep == ASSUME Types, Seated, Earned, [Next]_vars PROVE Earned'
<1>. USE DEF Holding
<1>1. succeeded \subseteq succeeded' /\ \A j \in Jobs : docker'[j] = "zero" => j \in succeeded'
  <2>1. ASSUME UNCHANGED succeeded, \A j \in Jobs : docker'[j] \in {docker[j], "none", "starting"}
        PROVE  succeeded \subseteq succeeded' /\ \A j \in Jobs : docker'[j] = "zero" => j \in succeeded'
    BY <2>1 DEF Earned
  <2>2. ASSUME NEW k \in Jobs, ContainerStarts(k) \/ ContainerExits(k)
        PROVE  succeeded \subseteq succeeded' /\ \A j \in Jobs : docker'[j] = "zero" => j \in succeeded'
    BY <2>2 DEF ContainerStarts, ContainerExits, Earned, Types
  <2>3. CASE Prepare \/ Launch
    <3>1. job \in Jobs /\ UNCHANGED succeeded
      BY <2>3 DEF Prepare, Launch, Seated, world
    <3>2. \A j \in Jobs : docker'[j] \in {docker[j], "none", "starting"}
      BY <2>3, <3>1 DEF Prepare, Launch, Types
    <3>. QED
      BY <2>1, <3>1, <3>2
  <2>4. CASE LoopEnds \/ Clean
    <3>1. job \in Jobs /\ UNCHANGED succeeded
      BY <2>4 DEF LoopEnds, Clean, Seated, world
    <3>2. \A j \in Jobs : docker'[j] \in {docker[j], "none", "starting"}
      BY <2>4, <3>1, Freed DEF LoopEnds, Clean, FinalStop
    <3>. QED
      BY <2>1, <3>1, <3>2
  <2>5. CASE Shutdown
    <3>1. \A j \in Jobs : docker'[j] \in {docker[j], "none", "starting"}
      BY <2>5 DEF Shutdown, Stopped, Types
    <3>. QED
      BY <2>1, <2>5, <3>1 DEF Shutdown, world
  <2>6. CASE Exit \/ Start
    <3>1. \A j \in Jobs : docker'[j] \in {docker[j], "none", "starting"}
      BY <2>6 DEF Exit, Start
    <3>. QED
      BY <2>1, <2>6, <3>1 DEF Exit, Start, world
  <2>7. ASSUME \/ UNCHANGED vars \/ Beat \/ People \/ Sweep \/ ServeLate \/ Interrupt \/ Crash
               \/ Poll \/ Fetched \/ Allocate \/ Begun \/ LoopFails \/ Conclude \/ Reported
               \/ \E c \in Threads : Serve(c) \/ TimeOut(c)
        PROVE  UNCHANGED <<docker, succeeded>>
    BY <2>7 DEF vars, Beat, BeatSends, BeatAnswered, BeatKills, People, Approve, Stop, Reclaim, Sweep,
                ServeLate, Interrupt, Crash, Poll, Fetched, Allocate, Begun, LoopFails, Conclude, Reported,
                Serve, TimeOut, world
  <2>8. UNCHANGED <<docker, succeeded>> =>
           succeeded \subseteq succeeded' /\ \A j \in Jobs : docker'[j] = "zero" => j \in succeeded'
    BY DEF Earned
  <2>. QED
    BY <2>2, <2>3, <2>4, <2>5, <2>6, <2>7, <2>8 DEF Next, MainNext
<1>2. (pc' # "ended" => exit' = "none") /\ (exit' = "zero" => job' \in succeeded')
  <2>1. CASE LoopEnds
    <3>1. job \in Jobs /\ pc' = "ended" /\ UNCHANGED <<job, succeeded>>
      BY <2>1 DEF LoopEnds, Seated, world
    <3>2. exit' = "zero" => docker[job] = "zero"
      BY <2>1 DEF LoopEnds
    <3>. QED
      BY <3>1, <3>2 DEF Earned
  <2>2. CASE Conclude \/ Shutdown \/ Exit \/ Crash
    BY <2>2 DEF Conclude, Shutdown, Exit, Crash, Gone
  <2>3. ASSUME Poll \/ Fetched \/ Allocate \/ Begun \/ Prepare \/ Launch \/ LoopFails \/ Reported \/ Clean \/ Start
        PROVE  pc # "ended" /\ UNCHANGED exit
    BY <2>3 DEF Poll, Fetched, Allocate, Begun, Prepare, Launch, LoopFails, Reported, Clean, Start, Up
  <2>4. ASSUME \/ UNCHANGED vars \/ Beat \/ People \/ Sweep \/ ServeLate \/ Interrupt
               \/ (\E c \in Threads : Serve(c) \/ TimeOut(c))
               \/ (\E j \in Jobs : ContainerStarts(j) \/ ContainerExits(j))
        PROVE  UNCHANGED <<pc, exit, job>>
    BY <2>4 DEF vars, Beat, BeatSends, BeatAnswered, BeatKills, People, Approve, Stop, Reclaim, Sweep,
                ServeLate, Interrupt, Serve, TimeOut, ContainerStarts, ContainerExits, process
  <2>5. (pc # "ended" /\ UNCHANGED exit) \/ UNCHANGED <<pc, exit, job>> =>
           (pc' # "ended" => exit' = "none") /\ (exit' = "zero" => job' \in succeeded')
    BY <1>1 DEF Earned
  <2>. QED
    BY <2>1, <2>2, <2>3, <2>4, <2>5 DEF Next, MainNext
<1>3. \A b \in UnderWay' : b.op = "status" /\ b.to = "completed" => b.job \in succeeded'
  BY <1>1, Origin DEF Earned, Fresh, Reason
<1>4. ASSUME NEW j \in Jobs, row'[j].status = "completed" PROVE j \in succeeded'
  BY <1>1, <1>4, RowMoves DEF Earned
<1>. QED
  BY <1>1, <1>2, <1>3, <1>4 DEF Earned

LEMMA NothingUnderWay == Init => UnderWay = {}
  BY CallTypes DEF Init, UnderWay

\* A job is recorded as completed only if its container exited with 0: no preemption,
\* no crash and no late or repeated report of another run makes it so (agent.py:
\* execute_job, handle_shutdown; jobs.routes.ts: POST /jobs/:id/status).
THEOREM CompletedRanCorrect == Spec => []CompletedRan
<1>1. Init => Types /\ Seated /\ Earned
  BY TypeInit, NothingUnderWay DEF Init, Earned
<1>2. Types /\ Seated /\ Earned /\ [Next]_vars => (Types /\ Seated /\ Earned)'
  BY TypeStep, EarnedStep
<1>3. Earned => CompletedRan
  BY DEF Earned, CompletedRan
<1>. QED
  BY <1>1, <1>2, <1>3, PTL DEF Spec

-----------------------------------------------------------------------------
(* Preempted means that somebody asked.                                     *)

StoppedSome == \E k \in Jobs : row[k].status \in {"preempted", "cancelled"}

\* Whoever in this machine thinks that a job is to be preempted is right.
Asked ==
    \/ StoppedSome
    \/ /\ ~flag
       /\ call["beat"].at = "done" => call["beat"].answer # Reclaimed
       /\ \A b \in UnderWay : b.op = "status" => b.to # "preempted"

LEMMA AskedStep == ASSUME Types, Seated, Asked, [Next]_vars PROVE Asked'
<1>1. StoppedSome => StoppedSome'
  <2>1. ASSUME NEW k \in Jobs, row[k].status \in {"preempted", "cancelled"}
        PROVE  row'[k].status \in {"preempted", "cancelled"}
    BY <2>1, RowMoves DEF IsTerminal, Terminal
  <2>. QED
    BY <2>1 DEF StoppedSome
<1>. SUFFICES ASSUME ~StoppedSome, ~StoppedSome' PROVE Asked'
  BY <1>1 DEF Asked
<1>2. ~flag'
  <2>1. flag' => flag \/ BeatAnswered
    BY DEF Next, vars, MainNext, Poll, Fetched, Allocate, Begun, Prepare, Launch, LoopEnds, LoopFails,
           Conclude, Reported, Clean, Beat, BeatSends, BeatKills, Shutdown, Exit, Crash, Gone,
           Interrupt, Start, ContainerStarts, ContainerExits, TimeOut, Serve, ServeLate, People, Approve,
           Stop, Reclaim, Sweep, process
  <2>2. BeatAnswered => flag' = flag
    BY DEF BeatAnswered, Answered, Asked
  <2>. QED
    BY <2>1, <2>2 DEF Asked
<1>3. call'["beat"].at = "done" => call'["beat"].answer # Reclaimed
  <2>1. CASE Serve("beat")
    <3>1. PICK answer \in Answers : /\ Handle(call["beat"].body, answer)
                                    /\ call' = [call EXCEPT !["beat"] = Answer(answer)]
      BY <2>1 DEF Serve
    <3>2. call["beat"].body \in Body
      BY <2>1, CallTypes DEF Serve, Types, Threads
    <3>3. answer # Reclaimed
      <4>1. StoppedHere = {}
        BY DEF StoppedHere, StoppedSome
      <4>2. \A j \in Jobs : [job |-> j] # Reclaimed
        BY AgentAssumption DEF Reclaimed
      <4>. QED
        BY <3>1, <3>2, <4>1, <4>2, Handled, AnswerTypes DEF Types
    <3>4. call'["beat"] = Answer(answer) /\ Answer(answer).answer = answer
      BY <3>1, CallTypes DEF Types, Threads
    <3>. QED
      BY <3>3, <3>4
  <2>2. CASE TimeOut("beat")
    <3>1. call'["beat"] = Answer(None) /\ Answer(None).answer = None /\ None # Reclaimed
      BY <2>2, CallTypes, AnswerTypes DEF TimeOut, Types, Threads
    <3>. QED
      BY <3>1
  <2>3. CASE Beat
    <3>1. PICK x \in {Idle, [at |-> "kill"], Sent([op |-> "beat", busy |-> busy])} :
            call' = [call EXCEPT !["beat"] = x]
      BY <2>3 DEF Beat, BeatSends, BeatAnswered, BeatKills
    <3>. QED
      BY <3>1 DEF Types, Threads, Idle, Sent
  <2>4. CASE Exit \/ Crash
    BY <2>4, CallTypes DEF Exit, Crash, Threads
  <2>5. ASSUME \/ UNCHANGED vars \/ MainNext \/ Shutdown \/ Interrupt \/ Start \/ ServeLate \/ People \/ Sweep
               \/ Serve("main") \/ TimeOut("main")
               \/ (\E j \in Jobs : ContainerStarts(j) \/ ContainerExits(j))
        PROVE  UNCHANGED call \/ \E x : call' = [call EXCEPT !["main"] = x]
    BY <2>5 DEF vars, MainNext, Poll, Fetched, Allocate, Begun, Prepare, Launch, LoopEnds, LoopFails,
                Conclude, Reported, Clean, Calls, Hangs, Shutdown, Interrupt, Start, ServeLate, People,
                Approve, Stop, Reclaim, Sweep, Serve, TimeOut, ContainerStarts, ContainerExits
  <2>6. UNCHANGED call \/ (\E x : call' = [call EXCEPT !["main"] = x]) => call'["beat"] = call["beat"]
    BY DEF Types, Threads
  <2>. QED
    BY <2>1, <2>2, <2>3, <2>4, <2>5, <2>6 DEF Next, Threads, Asked
<1>4. \A b \in UnderWay' : b.op = "status" => b.to # "preempted"
  BY Origin DEF Asked, Fresh, Reason
<1>. QED
  BY <1>2, <1>3, <1>4 DEF Asked

\* No report ends a job as preempted before people have stopped a job of this machine,
\* whatever signals come from elsewhere and whatever an earlier process was told
\* (agent.py: _reclaim_flag, heartbeat_loop, handle_shutdown).
THEOREM PreemptionAskedCorrect == Spec => PreemptionAsked
<1>1. Init => Types /\ Seated /\ Asked
  BY TypeInit, CallTypes, NothingUnderWay DEF Init, Asked, Threads
<1>2. Types /\ Seated /\ Asked /\ [Next]_vars => (Types /\ Seated /\ Asked)'
  BY TypeStep, AskedStep
<1>3. ASSUME Types, Seated, Asked, [Next]_vars, NEW j \in Jobs,
             row'[j].status = "preempted", row[j].status # "preempted", <<call, late>>' # <<call, late>>
      PROVE  \E k \in Jobs : row[k].status \in {"preempted", "cancelled"}
  BY <1>3, RowMoves DEF Asked, StoppedSome
<1>4. Types /\ Seated /\ Asked /\ [Next]_vars =>
        [\A j \in Jobs :
           row'[j].status = "preempted" /\ row[j].status # "preempted" /\ <<call, late>>' # <<call, late>>
              => \E k \in Jobs : row[k].status \in {"preempted", "cancelled"}]_vars
  BY <1>3
<1>. QED
  BY <1>1, <1>2, <1>4, PTL DEF Spec, PreemptionAsked

-----------------------------------------------------------------------------
(* A job is started once.                                                   *)

\* The right to start job j is a token.  It is in the row while the job waits, in the
\* answer to the poll that took it, with the main thread until docker run, with the
\* docker client until the container starts; and if the job is handed back, in the
\* report that says so, however late it is served.
InRow(j)    == row[j].status \in {"pending_approval", "approved", "queued"}
InAnswer(j) == call["main"].at = "done" /\ call["main"].answer = [job |-> j]
InMain(j)   == pc \in {"allocate", "beginning", "prepare"} /\ job = j
InDocker(j) == docker[j] = "starting"
InReport(j) == call["main"].at = "sent" /\ call["main"].body = Report(j, "queued")
InLate(j)   == Report(j, "queued") \in late

Places == {"row", "answer", "main", "docker", "report", "late"}

Held(p, j) ==
    \/ p = "row" /\ InRow(j)
    \/ p = "answer" /\ InAnswer(j)
    \/ p = "main" /\ InMain(j)
    \/ p = "docker" /\ InDocker(j)
    \/ p = "report" /\ InReport(j)
    \/ p = "late" /\ InLate(j)

\* The token is in one place at most, and gone once the container was started.
Token ==
    \A j \in Jobs :
        /\ \A p, q \in Places : Held(p, j) /\ Held(q, j) => p = q
        /\ \A p \in Places : Held(p, j) => runs[j] = 0
        /\ runs[j] <= 1

BeatOnly == call["beat"].at = "sent" => call["beat"].body.op = "beat"

LEMMA BeatOnlyStep == ASSUME Types, BeatOnly, [Next]_vars PROVE BeatOnly'
<1>1. ASSUME NEW x \in {Idle, [at |-> "kill"], Sent([op |-> "beat", busy |-> busy])} \cup {Answer(a) : a \in Answers},
             call' = [call EXCEPT !["beat"] = x]
      PROVE  BeatOnly'
  <2>1. call'["beat"] = x
    BY <1>1 DEF Types, Threads
  <2>2. x.at = "sent" => x.body.op = "beat"
    BY CallTypes DEF Idle, Sent
  <2>. QED
    BY <2>1, <2>2 DEF BeatOnly
<1>2. CASE Beat
  <2>1. \E x \in {Idle, [at |-> "kill"], Sent([op |-> "beat", busy |-> busy])} : call' = [call EXCEPT !["beat"] = x]
    BY <1>2 DEF Beat, BeatSends, BeatAnswered, BeatKills
  <2>. QED
    BY <1>1, <2>1
<1>3. CASE Serve("beat") \/ TimeOut("beat")
  <2>1. \E a \in Answers : call' = [call EXCEPT !["beat"] = Answer(a)]
    BY <1>3, AnswerTypes DEF Serve, TimeOut
  <2>. QED
    BY <1>1, <2>1
<1>4. CASE Exit \/ Crash
  BY <1>4, CallTypes DEF Exit, Crash, Threads, BeatOnly
<1>5. ASSUME \/ UNCHANGED vars \/ MainNext \/ Shutdown \/ Interrupt \/ Start \/ ServeLate \/ People \/ Sweep
             \/ Serve("main") \/ TimeOut("main")
             \/ (\E j \in Jobs : ContainerStarts(j) \/ ContainerExits(j))
      PROVE  UNCHANGED call \/ \E x : call' = [call EXCEPT !["main"] = x]
  BY <1>5 DEF vars, MainNext, Poll, Fetched, Allocate, Begun, Prepare, Launch, LoopEnds, LoopFails,
              Conclude, Reported, Clean, Calls, Hangs, Shutdown, Interrupt, Start, ServeLate, People,
              Approve, Stop, Reclaim, Sweep, Serve, TimeOut, ContainerStarts, ContainerExits
<1>6. UNCHANGED call \/ (\E x : call' = [call EXCEPT !["main"] = x]) => BeatOnly'
  BY DEF Types, Threads, BeatOnly
<1>. QED
  BY <1>2, <1>3, <1>4, <1>5, <1>6 DEF Next, Threads

\* What becomes of the main thread's call.
LEMMA MainCall ==
    ASSUME Types, [Next]_vars
    PROVE  \/ call'["main"] = call["main"]
           \/ Serve("main")
           \/ call'["main"] \in {Idle, Answer(None), Sent([op |-> "next"])}
           \/ \E to \in AgentReports : /\ call'["main"] = Sent(Report(job, to))
                                       /\ to = "queued" => Allocate
<1>1. ASSUME NEW x, call' = [call EXCEPT !["main"] = x] PROVE call'["main"] = x
  BY <1>1 DEF Types, Threads
<1>2. CASE Poll \/ Fetched \/ Begun \/ Reported \/ TimeOut("main")
  BY <1>1, <1>2 DEF Poll, Calls, Fetched, Begun, Reported, Hangs, TimeOut
<1>3. CASE Allocate \/ LoopFails \/ Conclude
  <2>1. \E to \in AgentReports : Calls(Report(job, to)) /\ (to = "queued" => Allocate)
    BY <1>3 DEF Allocate, LoopFails, Conclude, Verdict, AgentReports
  <2>. QED
    BY <1>1, <2>1 DEF Calls
<1>4. CASE Prepare \/ Launch
  <2>1. UNCHANGED call \/ Calls(Report(job, "failed"))
    BY <1>4 DEF Prepare, Launch
  <2>. QED
    BY <1>1, <2>1 DEF Calls, AgentReports
<1>5. CASE Shutdown
  <2>1. Calls(Report(job, Farewell(flag))) \/ call' = [call EXCEPT !["main"] = Answer(None)]
    BY <1>5 DEF Shutdown
  <2>2. Farewell(flag) \in AgentReports \ {"queued"}
    BY DEF Farewell, AgentReports
  <2>. QED
    BY <1>1, <2>1, <2>2 DEF Calls
<1>6. CASE Exit \/ Crash
  BY <1>6 DEF Exit, Crash, Threads
<1>7. CASE Beat \/ Serve("beat") \/ TimeOut("beat")
  <2>1. \E x : call' = [call EXCEPT !["beat"] = x]
    BY <1>7 DEF Beat, BeatSends, BeatAnswered, BeatKills, Serve, TimeOut
  <2>. QED
    BY <2>1 DEF Types, Threads
<1>8. ASSUME \/ UNCHANGED vars \/ LoopEnds \/ Clean \/ Interrupt \/ Start \/ ServeLate \/ People \/ Sweep
             \/ (\E j \in Jobs : ContainerStarts(j) \/ ContainerExits(j))
      PROVE  UNCHANGED call
  BY <1>8 DEF vars, LoopEnds, Clean, Interrupt, Start, ServeLate, People, Approve, Stop, Reclaim, Sweep,
              ContainerStarts, ContainerExits
<1>. QED
  BY <1>2, <1>3, <1>4, <1>5, <1>6, <1>7, <1>8 DEF Next, MainNext, Threads

\* Into the row: by the report that hands the job back.
LEMMA NewRow ==
    ASSUME Types, Seated, BeatOnly, [Next]_vars, NEW j \in Jobs, InRow(j)', ~InRow(j)
    PROVE  \/ InReport(j) /\ ~InReport(j)' /\ UNCHANGED late
           \/ InLate(j) /\ ~InLate(j)'
<1>1. row'[j].status # row[j].status /\ row'[j].status \in {"pending_approval", "approved", "queued"}
  BY DEF InRow
<1>2. PICK b \in UnderWay : /\ b.op = "status" /\ b.job = j /\ row'[j].status = b.to
                            /\ \/ ServeLate /\ b \in late /\ late' = late \ {b}
                               \/ \E c \in Threads : /\ Serve(c) /\ call[c].body = b
                                                     /\ call' = [call EXCEPT ![c] = Answer(None)]
  BY <1>1, RowMoves DEF InRow
<1>3. b = Report(j, "queued")
  <2>1. b \in Body /\ b.to = "queued"
    BY <1>1, <1>2, BodyTypes DEF UnderWay, AgentReports
  <2>. QED
    BY <1>2, <2>1 DEF Body, Report
<1>4. CASE b \in late /\ late' = late \ {b}
  BY <1>3, <1>4 DEF InLate
<1>5. ASSUME NEW c \in Threads, Serve(c), call[c].body = b, call' = [call EXCEPT ![c] = Answer(None)]
      PROVE  InReport(j) /\ ~InReport(j)' /\ UNCHANGED late
  <2>1. call[c].at = "sent" /\ UNCHANGED late
    BY <1>5 DEF Serve
  <2>2. c = "main"
    BY <1>2, <1>5, <2>1 DEF BeatOnly, Threads
  <2>3. call'["main"] = Answer(None) /\ Answer(None).at = "done"
    BY <1>5, <2>2, CallTypes, AnswerTypes DEF Types, Threads
  <2>. QED
    BY <1>3, <1>5, <2>1, <2>2, <2>3 DEF InReport
<1>. QED
  BY <1>2, <1>4, <1>5

\* Into the answer: out of the row.
LEMMA NewAnswer ==
    ASSUME Types, Seated, [Next]_vars, NEW j \in Jobs, InAnswer(j)', ~InAnswer(j)
    PROVE  InRow(j) /\ ~InRow(j)'
<1>1. CASE Serve("main")
  <2>1. PICK answer \in Answers : /\ Handle(call["main"].body, answer)
                                  /\ call' = [call EXCEPT !["main"] = Answer(answer)]
    BY <1>1 DEF Serve
  <2>2. call["main"].body \in Body
    BY <1>1, CallTypes DEF Serve, Types, Threads
  <2>3. call'["main"].answer = answer
    BY <2>1, CallTypes DEF Types, Threads
  <2>4. answer = [job |-> j] /\ answer # None /\ answer # Reclaimed
    BY <2>3, AgentAssumption DEF InAnswer, Reclaimed
  <2>5. PICK k \in Jobs : /\ answer = [job |-> k] /\ row[k].status \in {"approved", "queued"}
                          /\ row'[k].status = "assigned"
    BY <2>1, <2>2, <2>4, Handled DEF Types
  <2>6. k = j
    BY <2>4, <2>5, AnswerTypes
  <2>. QED
    BY <2>5, <2>6 DEF InRow
<1>2. ASSUME \/ call'["main"] \in {call["main"], Idle, Sent([op |-> "next"])}
             \/ \E to \in AgentReports : call'["main"] = Sent(Report(job, to))
      PROVE  FALSE
  <2>1. call'["main"] = call["main"] \/ call'["main"].at # "done"
    <3>1. /\ Idle.at = "idle" /\ Sent([op |-> "next"]).at = "sent"
          /\ \A to \in AgentReports : Sent(Report(job, to)).at = "sent"
      BY DEF Idle, Sent
    <3>. QED
      BY <1>2, <3>1
  <2>. QED
    BY <2>1 DEF InAnswer
<1>3. CASE call'["main"] = Answer(None)
  BY <1>3, CallTypes, AnswerTypes DEF InAnswer
<1>. QED
  BY <1>1, <1>2, <1>3, MainCall

\* To the main thread: out of the answer.
LEMMA NewMain ==
    ASSUME Types, Seated, [Next]_vars, NEW j \in Jobs, InMain(j)', ~InMain(j)
    PROVE  InAnswer(j) /\ ~InAnswer(j)'
<1>1. CASE Fetched
  <2>1. pc' = "allocate" /\ call["main"].at = "done" /\ call["main"].answer # None /\ job' = call["main"].answer.job
    BY <1>1 DEF Fetched, InMain, Answered
  <2>2. call["main"].answer = [job |-> j]
    BY <2>1, AnswerTypes DEF InMain, Seated
  <2>3. call'["main"].at = "idle"
    BY <1>1, Hung DEF Fetched
  <2>. QED
    BY <2>1, <2>2, <2>3 DEF InAnswer
<1>2. ASSUME Allocate \/ Begun
      PROVE  FALSE
  BY <1>2 DEF Allocate, Begun, InMain
<1>3. ASSUME Poll \/ Prepare \/ Launch \/ LoopEnds \/ LoopFails \/ Conclude \/ Reported \/ Clean \/ Shutdown
             \/ Exit \/ Crash \/ Start
      PROVE  FALSE
  BY <1>3 DEF Poll, Prepare, Launch, LoopEnds, LoopFails, Conclude, Reported, Clean, Shutdown, Exit, Crash,
              Start, Gone, InMain
<1>4. ASSUME \/ UNCHANGED vars \/ Beat \/ People \/ Sweep \/ ServeLate \/ Interrupt
             \/ (\E c \in Threads : Serve(c) \/ TimeOut(c))
             \/ (\E k \in Jobs : ContainerStarts(k) \/ ContainerExits(k))
      PROVE  FALSE
  <2>1. UNCHANGED <<pc, job>>
    BY <1>4 DEF vars, Beat, BeatSends, BeatAnswered, BeatKills, People, Approve, Stop, Reclaim, Sweep,
                ServeLate, Interrupt, Serve, TimeOut, ContainerStarts, ContainerExits, process
  <2>. QED
    BY <2>1 DEF InMain
<1>. QED
  BY <1>1, <1>2, <1>3, <1>4 DEF Next, MainNext

\* To the docker client: from the main thread, when it has prepared.
LEMMA NewDocker ==
    ASSUME Types, Seated, [Next]_vars, NEW j \in Jobs, InDocker(j)', ~InDocker(j)
    PROVE  pc = "prepare" /\ InMain(j) /\ ~InMain(j)'
<1>. USE DEF Holding
<1>1. CASE Prepare
  BY <1>1 DEF Prepare, Types, Seated, InDocker, InMain
<1>2. ASSUME Launch \/ LoopEnds \/ Clean \/ Shutdown \/ Exit \/ Start
             \/ \E k \in Jobs : ContainerStarts(k) \/ ContainerExits(k)
      PROVE  FALSE
  BY <1>2 DEF Launch, LoopEnds, Clean, FinalStop, Shutdown, Stopped, Exit, Start, ContainerStarts,
              ContainerExits, Types, InDocker
<1>3. ASSUME \/ UNCHANGED vars \/ Beat \/ People \/ Sweep \/ ServeLate \/ Interrupt \/ Crash
             \/ Poll \/ Fetched \/ Allocate \/ Begun \/ LoopFails \/ Conclude \/ Reported
             \/ \E c \in Threads : Serve(c) \/ TimeOut(c)
      PROVE  FALSE
  BY <1>3 DEF vars, Beat, BeatSends, BeatAnswered, BeatKills, People, Approve, Stop, Reclaim, Sweep,
              ServeLate, Interrupt, Crash, Poll, Fetched, Allocate, Begun, LoopFails, Conclude, Reported,
              Serve, TimeOut, InDocker
<1>. QED
  BY <1>1, <1>2, <1>3 DEF Next, MainNext

\* Into a report: from the main thread, when it refuses the job.
LEMMA NewReport ==
    ASSUME Types, Seated, [Next]_vars, NEW j \in Jobs, InReport(j)', ~InReport(j)
    PROVE  pc = "allocate" /\ InMain(j) /\ ~InMain(j)'
<1>1. CASE call'["main"] \in {call["main"], Idle, Answer(None), Sent([op |-> "next"])} \/ Serve("main")
  <2>1. Serve("main") => \E a \in Answers : call'["main"] = Answer(a)
    BY DEF Serve, Types, Threads
  <2>2. [op |-> "next"].op = "next" /\ Report(j, "queued").op = "status"
    BY ReportFields
  <2>. QED
    BY <1>1, <2>1, <2>2, CallTypes, BodyTypes, AnswerTypes DEF InReport
<1>2. ASSUME NEW to \in AgentReports, call'["main"] = Sent(Report(job, to)), to = "queued" => Allocate
      PROVE  pc = "allocate" /\ InMain(j) /\ ~InMain(j)'
  <2>1. Sent(Report(job, to)).body = Report(job, to)
    BY DEF Sent
  <2>2. job = j /\ to = "queued"
    BY <1>2, <2>1, ReportFields DEF InReport
  <2>3. Allocate /\ call'["main"].body = Report(job, "queued")
    BY <1>2, <2>1, <2>2
  <2>4. pc' # "beginning"
    <3>1. ASSUME Calls(Report(job, "running")) PROVE FALSE
      <4>1. call'["main"] = Sent(Report(job, "running"))
        BY <3>1 DEF Calls, Types, Threads
      <4>. QED
        BY <2>3, <4>1, ReportFields DEF Sent
    <3>. QED
      BY <2>3, <3>1 DEF Allocate
  <2>. QED
    BY <2>2, <2>3, <2>4 DEF Allocate, InMain
<1>. QED
  BY <1>1, <1>2, MainCall

\* Among the late calls: from the report the main thread has given up.
LEMMA NewLate ==
    ASSUME Types, Seated, BeatOnly, [Next]_vars, NEW j \in Jobs, InLate(j)', ~InLate(j)
    PROVE  InReport(j) /\ ~InReport(j)' /\ late' # late
<1>1. ASSUME NEW c \in Threads, Abandon(c)
      PROVE  c = "main" /\ InReport(j)
  <2>1. call[c].at = "sent" /\ Report(j, "queued") = call[c].body
    BY <1>1, Abandoned DEF InLate
  <2>2. Report(j, "queued").op = "status"
    BY ReportFields
  <2>. QED
    BY <2>1, <2>2 DEF BeatOnly, InReport, Threads
<1>2. CASE Shutdown
  <2>1. InReport(j)
    BY <1>1, <1>2 DEF Shutdown, Threads
  <2>2. \/ call' = [call EXCEPT !["main"] = Sent(Report(job, Farewell(flag)))]
        \/ call' = [call EXCEPT !["main"] = Answer(None)]
    BY <1>2 DEF Shutdown, Calls
  <2>3. call'["main"] = Sent(Report(job, Farewell(flag))) \/ call'["main"] = Answer(None)
    BY <2>2 DEF Types, Threads
  <2>4. Farewell(flag) # "queued"
    BY DEF Farewell
  <2>5. Sent(Report(job, Farewell(flag))).body # Report(j, "queued") /\ Answer(None).at # "sent"
    BY <2>4, ReportFields DEF Sent, Answer
  <2>. QED
    BY <2>1, <2>3, <2>5 DEF InReport, InLate
<1>3. ASSUME NEW c \in Threads, TimeOut(c) PROVE InReport(j) /\ ~InReport(j)' /\ late' # late
  <2>1. c = "main" /\ InReport(j) /\ call' = [call EXCEPT !["main"] = Answer(None)]
    BY <1>1, <1>3 DEF TimeOut
  <2>2. call'["main"].at = "done"
    BY <2>1, CallTypes, AnswerTypes DEF Types, Threads
  <2>. QED
    BY <2>1, <2>2 DEF InReport, InLate
<1>4. CASE Exit \/ Crash
  <2>1. \E c \in Threads : Abandon(c)
    BY <1>4 DEF Exit, Crash, Threads
  <2>2. InReport(j) /\ call'["main"] = Idle
    BY <1>1, <1>4, <2>1 DEF Exit, Crash, Threads
  <2>. QED
    BY <2>2, CallTypes DEF InReport, InLate
<1>5. ASSUME \/ UNCHANGED vars \/ MainNext \/ Beat \/ Interrupt \/ Start \/ ServeLate \/ People \/ Sweep
             \/ (\E c \in Threads : Serve(c))
             \/ (\E k \in Jobs : ContainerStarts(k) \/ ContainerExits(k))
      PROVE  late' \subseteq late
  BY <1>5 DEF vars, MainNext, Poll, Fetched, Allocate, Begun, Prepare, Launch, LoopEnds, LoopFails,
              Conclude, Reported, Clean, Beat, BeatSends, BeatAnswered, BeatKills, Interrupt, Start,
              ServeLate, People, Approve, Stop, Reclaim, Sweep, Serve, ContainerStarts, ContainerExits
<1>. QED
  BY <1>2, <1>3, <1>4, <1>5 DEF Next, InLate

\* The token moves: what a place gains, another has lost, and only one gains it.
Gains(p, j) == ~Held(p, j) /\ Held(p, j)'
Loses(p, j) == Held(p, j) /\ ~Held(p, j)'

LEMMA Moves ==
    ASSUME Types, Seated, BeatOnly, [Next]_vars, NEW j \in Jobs
    PROVE  /\ Gains("row", j)    => Loses("report", j) \/ Loses("late", j)
           /\ Gains("answer", j) => Loses("row", j)
           /\ Gains("main", j)   => Loses("answer", j)
           /\ Gains("docker", j) => Loses("main", j) /\ ~Gains("report", j)
           /\ Gains("report", j) => Loses("main", j)
           /\ Gains("late", j)   => Loses("report", j)
           /\ ~(Gains("row", j) /\ Gains("late", j) /\ Loses("report", j) /\ ~Loses("late", j))
<1>1. Gains("row", j) => (Loses("report", j) /\ UNCHANGED late) \/ Loses("late", j)
  <2>1. InRow(j)' /\ ~InRow(j) => (InReport(j) /\ ~InReport(j)' /\ UNCHANGED late) \/ (InLate(j) /\ ~InLate(j)')
    BY NewRow
  <2>. QED
    BY <2>1 DEF Gains, Loses, Held
<1>2. Gains("answer", j) => Loses("row", j)
  <2>1. InAnswer(j)' /\ ~InAnswer(j) => InRow(j) /\ ~InRow(j)'
    BY NewAnswer
  <2>. QED
    BY <2>1 DEF Gains, Loses, Held
<1>3. Gains("main", j) => Loses("answer", j)
  <2>1. InMain(j)' /\ ~InMain(j) => InAnswer(j) /\ ~InAnswer(j)'
    BY NewMain
  <2>. QED
    BY <2>1 DEF Gains, Loses, Held
<1>4. Gains("docker", j) => Loses("main", j) /\ pc = "prepare"
  <2>1. InDocker(j)' /\ ~InDocker(j) => pc = "prepare" /\ InMain(j) /\ ~InMain(j)'
    BY NewDocker
  <2>. QED
    BY <2>1 DEF Gains, Loses, Held
<1>5. Gains("report", j) => Loses("main", j) /\ pc = "allocate"
  <2>1. InReport(j)' /\ ~InReport(j) => pc = "allocate" /\ InMain(j) /\ ~InMain(j)'
    BY NewReport
  <2>. QED
    BY <2>1 DEF Gains, Loses, Held
<1>6. Gains("late", j) => Loses("report", j) /\ late' # late
  <2>1. InLate(j)' /\ ~InLate(j) => InReport(j) /\ ~InReport(j)' /\ late' # late
    BY NewLate
  <2>. QED
    BY <2>1 DEF Gains, Loses, Held
<1>. QED
  BY <1>1, <1>2, <1>3, <1>4, <1>5, <1>6

\* What a step does to the number of starts.
LEMMA Starts ==
    ASSUME Types, [Next]_vars, NEW j \in Jobs
    PROVE  \/ runs'[j] = runs[j]
           \/ /\ runs'[j] = runs[j] + 1
              /\ Loses("docker", j) /\ \A p \in Places : ~Gains(p, j)
<1>1. ASSUME NEW k \in Jobs, ContainerStarts(k), runs'[j] # runs[j]
      PROVE  runs'[j] = runs[j] + 1 /\ Loses("docker", j) /\ \A p \in Places : ~Gains(p, j)
  <2>1. k = j /\ runs'[j] = runs[j] + 1
    BY <1>1 DEF ContainerStarts, Types
  <2>2. InDocker(j) /\ ~InDocker(j)'
    BY <1>1, <2>1 DEF ContainerStarts, Types, InDocker
  <2>3. UNCHANGED <<row, call, late, pc, job>>
    BY <1>1 DEF ContainerStarts, process
  <2>4. \A p \in Places : ~Gains(p, j)
    BY <2>2, <2>3 DEF Gains, Held, Places, InRow, InAnswer, InMain, InReport, InLate
  <2>. QED
    BY <2>1, <2>2, <2>4 DEF Loses, Held
<1>2. ASSUME \/ UNCHANGED vars \/ MainNext \/ Beat \/ People \/ Sweep \/ ServeLate
             \/ (\E c \in Threads : Serve(c) \/ TimeOut(c))
             \/ Shutdown \/ Exit \/ Crash \/ Interrupt \/ Start
             \/ (\E k \in Jobs : ContainerExits(k))
      PROVE  runs' = runs
  BY <1>2 DEF vars, MainNext, Poll, Fetched, Allocate, Begun, Prepare, Launch, LoopEnds, LoopFails,
              Conclude, Reported, Clean, Beat, BeatSends, BeatAnswered, BeatKills, People, Approve,
              Stop, Reclaim, Sweep, ServeLate, Serve, TimeOut, Shutdown, Exit, Crash, Interrupt, Start,
              ContainerExits, world
<1>. QED
  BY <1>1, <1>2 DEF Next

LEMMA TokenStep == ASSUME Types, Seated, BeatOnly, Token, [Next]_vars PROVE Token'
<1>. SUFFICES ASSUME NEW j \in Jobs
              PROVE  /\ \A p, q \in Places : Held(p, j)' /\ Held(q, j)' => p = q
                     /\ \A p \in Places : Held(p, j)' => runs'[j] = 0
                     /\ runs'[j] <= 1
  BY DEF Token
<1>1. /\ \A p, q \in Places : Held(p, j) /\ Held(q, j) => p = q
      /\ \A p \in Places : Held(p, j) => runs[j] = 0
      /\ runs[j] \in Nat /\ runs[j] <= 1
  BY DEF Token, Types
<1>2. \A q \in Places : Gains(q, j) => \E p \in Places : Loses(p, j)
  BY Moves DEF Places
<1>3. \A p, q \in Places : Loses(p, j) /\ Held(q, j) => q = p
  BY <1>1 DEF Loses
<1>4. \A p, q \in Places : Loses(p, j) /\ Loses(q, j) => p = q
  BY <1>1 DEF Loses
<1>5. \A p, q \in Places : Gains(p, j) /\ Gains(q, j) => p = q
  <2>1. /\ ~(Loses("report", j) /\ Loses("late", j)) /\ ~(Loses("report", j) /\ Loses("main", j))
        /\ ~(Loses("late", j) /\ Loses("main", j))   /\ ~(Loses("row", j) /\ Loses("main", j))
        /\ ~(Loses("row", j) /\ Loses("report", j))  /\ ~(Loses("row", j) /\ Loses("late", j))
        /\ ~(Loses("answer", j) /\ Loses("main", j)) /\ ~(Loses("answer", j) /\ Loses("report", j))
        /\ ~(Loses("answer", j) /\ Loses("late", j)) /\ ~(Loses("answer", j) /\ Loses("row", j))
    BY <1>4 DEF Places
  <2>. QED
    BY <2>1, Moves DEF Places
<1>6. \A p, q \in Places : Held(p, j)' /\ Held(q, j)' => p = q
  <2>1. \A p, q \in Places : Held(p, j)' /\ Held(q, j)' /\ Held(p, j) /\ Held(q, j) => p = q
    BY <1>1
  <2>2. \A p, q \in Places : ~(Gains(p, j) /\ Held(q, j) /\ Held(q, j)')
    BY <1>2, <1>3 DEF Loses
  <2>. QED
    BY <1>5, <2>1, <2>2 DEF Gains
<1>7. \A p \in Places : Held(p, j)' => runs[j] = 0
  <2>1. \A p \in Places : Held(p, j)' => \E q \in Places : Held(q, j)
    BY <1>2 DEF Gains, Loses
  <2>. QED
    BY <1>1, <2>1
<1>8. CASE runs'[j] = runs[j]
  BY <1>1, <1>6, <1>7, <1>8
<1>9. CASE runs'[j] = runs[j] + 1 /\ Loses("docker", j) /\ \A p \in Places : ~Gains(p, j)
  <2>1. "docker" \in Places
    BY DEF Places
  <2>2. runs[j] = 0
    BY <1>1, <1>9, <2>1 DEF Loses
  <2>3. \A p \in Places : ~Held(p, j)'
    BY <1>3, <1>9, <2>1 DEF Gains, Loses
  <2>. QED
    BY <1>6, <1>9, <2>2, <2>3
<1>. QED
  BY <1>8, <1>9, Starts

LEMMA TokenInit == Init => BeatOnly /\ Token
<1>. SUFFICES ASSUME Init PROVE BeatOnly /\ Token
  OBVIOUS
<1>1. \A c \in Threads : call[c].at = "idle"
  BY CallTypes DEF Init
<1>2. \A j \in Jobs, p \in Places : Held(p, j) => p = "row"
  BY <1>1 DEF Init, Held, InAnswer, InMain, InDocker, InReport, InLate, Threads
<1>3. \A j \in Jobs : runs[j] = 0
  BY DEF Init
<1>. QED
  BY <1>1, <1>2, <1>3 DEF BeatOnly, Token, Threads

\* A job is started at most once, however often its agent dies and starts, its reports
\* are lost or arrive late, and it is handed back (agent.routes.ts: GET jobs/next marks a
\* row assigned before it hands it out; agent.py: execute_job runs docker run once).
THEOREM RunsOnceCorrect == Spec => []RunsOnce
<1>1. Init => Types /\ Seated /\ BeatOnly /\ Token
  BY TypeInit, TokenInit
<1>2. Types /\ Seated /\ BeatOnly /\ Token /\ [Next]_vars => (Types /\ Seated /\ BeatOnly /\ Token)'
  BY TypeStep, BeatOnlyStep, TokenStep
<1>3. Token => RunsOnce
  BY DEF Token, RunsOnce
<1>. QED
  BY <1>1, <1>2, <1>3, PTL DEF Spec
=============================================================================
