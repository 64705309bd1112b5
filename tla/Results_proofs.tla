--------------------------- MODULE Results_proofs ---------------------------
(* Proofs about Results, for any files and any numbers of attempts.         *)
EXTENDS Results, TLAPS

-----------------------------------------------------------------------------
(* The inductive invariant.                                                 *)

\* A row, and a registration still under way, comes after its object.
Stored ==
    /\ \A f, g \in agent.file : f = g
    /\ rows \subseteq objects
    /\ agent.uploaded \subseteq rows
    /\ agent.pc = "register" => agent.file \subseteq objects
    /\ \A c \in late : c.step = "register" => c.file \in objects

\* From the report on, the agent's lists do not change any more.
Final ==
    /\ agent.reported => agent.pc = "next" /\ agent.todo = {}
    /\ Report \in late \/ job.status = "completed" \/ handler \/ queue.state # "none" => agent.reported
    /\ handler \/ queue.state # "none" => job.status # "running"
    /\ handler => queue.state = "none"

\* What the worker has read holds what the agent had uploaded.
Complete ==
    /\ queue.state \in {"active", "read"} => queue.status # "running"
    /\ queue.state = "read" => agent.uploaded \subseteq queue.files
    /\ mails # <<>> => queue.state # "none"
    /\ MailComplete

\* What the page lists is registered, and every link given or to be mailed leads to an object.
Leading ==
    /\ listed \subseteq rows /\ opened \subseteq objects
    /\ queue.files \subseteq objects
    /\ \A i \in DOMAIN mails : mails[i].files \subseteq objects

\* Every copy but the last has used up an attempt or made the entry stall.
Counted ==
    /\ queue.state \in {"none", "waiting", "active", "read", "done"}
          => queue.attempts < MaxAttempts /\ queue.stalled <= MaxStalled
    /\ queue.attempts + queue.stalled <= MaxAttempts + MaxStalled
    /\ Len(mails) <= queue.attempts + queue.stalled + (IF queue.state = "done" THEN 1 ELSE 0)

IInv == TypeOK /\ Stored /\ Final /\ Complete /\ Leading /\ Counted

-----------------------------------------------------------------------------
(* Types.                                                                   *)

\* What the agent's record becomes when a call fails or succeeds.
LEMMA AgentType ==
  ASSUME TypeOK, agent.pc \in Steps
  PROVE  /\ GiveUp \in Agent /\ GiveUp.pc = "next" /\ GiveUp.file = {} /\ GiveUp.todo = agent.todo
         /\ GiveUp.uploaded = agent.uploaded /\ GiveUp.failed = agent.failed \cup agent.file
         /\ Advance \in Agent /\ Advance.todo = agent.todo /\ Advance.failed = agent.failed
         /\ agent.pc = "register" => /\ Advance.pc = "next" /\ Advance.file = {}
                                     /\ Advance.uploaded = agent.uploaded \cup agent.file
         /\ agent.pc = "put"      => Advance.pc = "register"
         /\ agent.pc = "presign"  => Advance.pc = "put"
         /\ agent.pc # "register" => Advance.file = agent.file /\ Advance.uploaded = agent.uploaded
         /\ GiveUp.reported = agent.reported /\ Advance.reported = agent.reported
<1>1. agent \in Agent
  BY DEF TypeOK
<1>2. agent.pc \in {"presign", "put"} => NextStep[agent.pc] \in {"put", "register"}
  BY DEF NextStep
<1>3. agent.pc \in {"presign", "put", "register"}
  BY DEF Steps
<1> QED
  BY <1>1, <1>2, <1>3 DEF Agent, GiveUp, Advance, NextStep, Steps

\* What taking a file makes of the agent's record.
LEMMA TakeEffect ==
  ASSUME TypeOK, TakeFile
  PROVE  /\ agent' \in Agent
         /\ agent'.pc \in Steps <=> agent'.file # {}
         /\ agent'.todo \cup agent'.file \cup agent'.uploaded \cup agent'.failed = Files
         /\ agent'.pc \in {"next", "presign"} /\ agent'.uploaded = agent.uploaded
         /\ agent'.reported = agent.reported /\ agent.todo # {}
         /\ \A f, g \in agent'.file : f = g
<1>1. agent.pc = "next" /\ agent.file = {}
  BY DEF TakeFile, TypeOK, Steps
<1>2. PICK f \in agent.todo :
        \/ agent' = [agent EXCEPT !.todo = @ \ {f}, !.file = {f}, !.pc = "presign"]
        \/ agent' = [agent EXCEPT !.todo = @ \ {f}, !.failed = @ \cup {f}]
  BY DEF TakeFile
<1>3. agent \in Agent /\ f \in Files
  BY <1>2 DEF TypeOK, Agent
<1>4. agent.todo \cup agent.uploaded \cup agent.failed = Files
  BY <1>1 DEF TypeOK
<1>5. CASE agent' = [agent EXCEPT !.todo = @ \ {f}, !.file = {f}, !.pc = "presign"]
  <2>1. /\ agent'.pc = "presign" /\ agent'.file = {f} /\ agent'.todo = agent.todo \ {f}
        /\ agent'.uploaded = agent.uploaded /\ agent'.failed = agent.failed
        /\ agent'.reported = agent.reported
    BY <1>3, <1>5 DEF Agent
  <2>2. agent' \in Agent
    BY <1>3, <1>5 DEF Agent, Steps
  <2> QED
    BY <1>2, <1>4, <2>1, <2>2 DEF Steps
<1>6. CASE agent' = [agent EXCEPT !.todo = @ \ {f}, !.failed = @ \cup {f}]
  <2>1. /\ agent'.pc = agent.pc /\ agent'.file = agent.file /\ agent'.todo = agent.todo \ {f}
        /\ agent'.uploaded = agent.uploaded /\ agent'.failed = agent.failed \cup {f}
        /\ agent'.reported = agent.reported
    BY <1>3, <1>6 DEF Agent
  <2>2. agent' \in Agent
    BY <1>3, <1>6 DEF Agent
  <2> QED
    BY <1>1, <1>2, <1>4, <2>1, <2>2 DEF Steps
<1> QED
  BY <1>2, <1>5, <1>6

\* A late call is the report, or a PUT or a registration of one file.
LEMMA LateCall ==
  ASSUME TypeOK, NEW c \in late
  PROVE  c = Report \/ c \in [step : {"put", "register"}, file : Files]
BY DEF TypeOK, Calls

LEMMA TypeInit == Init => TypeOK
<1> SUFFICES ASSUME Init PROVE TypeOK
  OBVIOUS
<1>1. job \in [status : Statuses, ours : BOOLEAN]
  BY DEF Init, Statuses
<1>2. agent \in Agent /\ agent.pc \notin Steps /\ agent.file = {} /\ agent.todo = Files
      /\ agent.uploaded = {} /\ agent.failed = {}
  BY DEF Init, Agent, Steps
<1>3. queue \in Entry
  BY ResultsAssumption DEF Init, Entry, Statuses
<1>4. mails \in Seq(Mail)
  BY DEF Init
<1> QED
  BY <1>1, <1>2, <1>3, <1>4 DEF Init, TypeOK

LEMMA TypeNext ==
  ASSUME TypeOK, Counted, Next
  PROVE  TypeOK'
<1> USE DEF back, mail, page
<1>1. CASE TakeFile
  BY <1>1, TakeEffect DEF TakeFile, TypeOK
<1>2. CASE CallSucceeds
  <2>1. PICK f \in agent.file : Serve(Call(agent.pc, f))
    BY <1>2 DEF CallSucceeds
  <2>2. f \in Files
    BY <2>1 DEF TypeOK, Agent
  <2>3. rows' \subseteq Files /\ objects' \subseteq Files
    BY <2>1, <2>2 DEF Serve, Call, TypeOK
  <2>4. /\ agent' \in Agent
        /\ agent'.pc \in Steps <=> agent'.file # {}
        /\ agent'.todo \cup agent'.file \cup agent'.uploaded \cup agent'.failed = Files
    BY <1>2, AgentType DEF CallSucceeds, TypeOK, Steps
  <2> QED
    BY <1>2, <2>3, <2>4 DEF CallSucceeds, TypeOK
<1>3. CASE CallFails \/ CallTimesOut
  <2>1. /\ agent' \in Agent
        /\ agent'.pc \in Steps <=> agent'.file # {}
        /\ agent'.todo \cup agent'.file \cup agent'.uploaded \cup agent'.failed = Files
    BY <1>3, AgentType DEF CallFails, CallTimesOut, Refused, TypeOK, Steps
  <2>2. CASE CallFails
    BY <2>1, <2>2 DEF CallFails, TypeOK
  <2>3. CASE CallTimesOut
    <3>1. agent.pc \in {"put", "register"} =>
            \A f \in agent.file : Call(agent.pc, f) \in Calls
      BY DEF Call, Calls, TypeOK, Agent
    <3>2. late' \subseteq Calls
      BY <2>3, <3>1 DEF CallTimesOut, TypeOK, Steps
    <3> QED
      BY <2>1, <2>3, <3>2 DEF CallTimesOut, TypeOK
  <2> QED
    BY <1>3, <2>2, <2>3
<1>4. CASE SendReport \/ AgentGone
  <2>1. agent \in Agent
    BY DEF TypeOK
  <2>2. /\ agent' \in Agent
        /\ agent'.pc \in Steps <=> agent'.file # {}
        /\ agent'.todo \cup agent'.file \cup agent'.uploaded \cup agent'.failed = Files
    <3>1. CASE SendReport
      BY <2>1, <3>1 DEF SendReport, Uploaded, Agent, TypeOK, Steps
    <3>2. CASE AgentGone
      BY <2>1, <3>2 DEF AgentGone, Agent, TypeOK, Steps
    <3> QED
      BY <1>4, <3>1, <3>2
  <2>3. late' \subseteq Calls
    BY <1>4 DEF SendReport, AgentGone, TypeOK, Calls
  <2> QED
    BY <1>4, <2>2, <2>3 DEF SendReport, AgentGone, TypeOK
<1>5. CASE LateServed
  <2>1. PICK c \in late \ {Report} : Serve(c) /\ late' = late \ {c}
    BY <1>5 DEF LateServed
  <2>2. c.file \in Files
    BY <2>1, LateCall
  <2>3. rows' \subseteq Files /\ objects' \subseteq Files
    BY <2>1, <2>2 DEF Serve, TypeOK
  <2> QED
    BY <1>5, <2>1, <2>3 DEF LateServed, TypeOK
<1>6. CASE Lost
  BY <1>6 DEF Lost, TypeOK
<1>7. CASE StopCheck \/ StopCommit \/ EndedElsewhere \/ Release
  <2>1. job' \in [status : Statuses, ours : BOOLEAN]
    <3>1. job \in [status : Statuses, ours : BOOLEAN]
      BY DEF TypeOK
    <3>2. CASE StopCheck
      BY <3>1, <3>2 DEF StopCheck
    <3>3. CASE StopCommit
      BY <3>1, <3>3 DEF StopCommit, Statuses
    <3>4. CASE EndedElsewhere
      <4>1. [job EXCEPT !.status = "preempted"] \in [status : Statuses, ours : BOOLEAN]
        BY <3>1 DEF Statuses
      <4>2. [status |-> "failed", ours |-> FALSE] \in [status : Statuses, ours : BOOLEAN]
        BY DEF Statuses
      <4> QED
        BY <3>4, <4>1, <4>2 DEF EndedElsewhere
    <3>5. CASE Release
      BY <3>1, <3>5 DEF Release, Statuses
    <3> QED
      BY <1>7, <3>2, <3>3, <3>4, <3>5
  <2> QED
    BY <1>7, <2>1 DEF StopCheck, StopCommit, EndedElsewhere, Release, TypeOK
<1>8. CASE ReportCommit
  <2>1. job' \in [status : Statuses, ours : BOOLEAN] /\ handler' \in BOOLEAN
    BY <1>8 DEF ReportCommit, TypeOK, Statuses
  <2> QED
    BY <1>8, <2>1 DEF ReportCommit, TypeOK
<1>9. CASE Enqueue
  <2>1. queue' \in Entry
    BY <1>9 DEF Enqueue, TypeOK, Entry
  <2> QED
    BY <1>9, <2>1 DEF Enqueue, TypeOK
<1>10. CASE WorkerReadsJob \/ WorkerReadsArtifacts
  <2>1. queue' \in Entry
    <3>1. CASE WorkerReadsJob
      BY <3>1 DEF WorkerReadsJob, TypeOK, Entry
    <3>2. CASE WorkerReadsArtifacts
      BY <3>2 DEF WorkerReadsArtifacts, Linked, TypeOK, Entry
    <3> QED
      BY <1>10, <3>1, <3>2
  <2> QED
    BY <1>10, <2>1 DEF WorkerReadsJob, WorkerReadsArtifacts, TypeOK
<1>11. CASE Send \/ WorkerFails \/ WorkerDies
  <2>1. queue.attempts < MaxAttempts /\ queue.stalled <= MaxStalled
    BY <1>11 DEF Send, WorkerFails, WorkerDies, Working, Counted
  <2>2. queue.attempts + 1 \in 0..MaxAttempts /\ queue.stalled + 1 \in 0..(MaxStalled + 1)
    BY <2>1, ResultsAssumption DEF TypeOK, Entry
  <2>3. Retried \in Entry
    BY <2>2 DEF Retried, TypeOK, Entry
  <2>4. queue' \in Entry
    <3>1. queue \in Entry
      BY DEF TypeOK
    <3>2. CASE Send \/ WorkerFails
      <4>1. [queue EXCEPT !.state = "done"] \in Entry
        BY <3>1 DEF Entry
      <4> QED
        BY <2>3, <3>2, <4>1 DEF Send, AfterSend, WorkerFails
    <3>3. CASE WorkerDies
      BY <2>2, <3>1, <3>3 DEF WorkerDies, Entry
    <3> QED
      BY <1>11, <3>2, <3>3
  <2>5. \A accepted \in BOOLEAN : Sent(accepted) => mails' \in Seq(Mail)
    <3>1. [status |-> queue.status, files |-> queue.files] \in Mail /\ mails \in Seq(Mail)
      BY DEF TypeOK, Entry, Mail
    <3>2. Append(mails, [status |-> queue.status, files |-> queue.files]) \in Seq(Mail)
      BY <3>1
    <3> QED
      BY <3>1, <3>2 DEF Sent
  <2>6. mails' \in Seq(Mail)
    BY <1>11, <2>5 DEF Send, WorkerFails, WorkerDies, TypeOK
  <2> QED
    BY <1>11, <2>4, <2>6 DEF Send, WorkerFails, WorkerDies, TypeOK
<1>12. CASE Reader
  BY <1>12 DEF Reader, ListArtifacts, Download, TypeOK
<1> QED
  BY <1>1, <1>2, <1>3, <1>4, <1>5, <1>6, <1>7, <1>8, <1>9, <1>10, <1>11, <1>12
     DEF Next, Upload, Network, Server, Worker

-----------------------------------------------------------------------------
(* Objects, rows and what the agent has counted.                            *)

LEMMA StoredNext ==
  ASSUME TypeOK, Stored, Next
  PROVE  Stored'
<1> USE DEF back, mail, page
<1>1. CASE TakeFile
  BY <1>1, TakeEffect DEF TakeFile, Stored
<1>2. CASE CallSucceeds
  <2>1. PICK f \in agent.file : Serve(Call(agent.pc, f))
    BY <1>2 DEF CallSucceeds
  <2>2. agent.file = {f} /\ late' = late /\ agent' = Advance /\ agent.pc \in Steps
    BY <1>2, <2>1 DEF CallSucceeds, Stored
  <2>3. /\ objects' = IF agent.pc = "put" THEN objects \cup {f} ELSE objects
        /\ rows' = IF agent.pc = "register" THEN rows \cup {f} ELSE rows
    BY <2>1 DEF Serve, Call
  <2>4. CASE agent.pc = "presign"
    BY <2>2, <2>3, <2>4, AgentType DEF Stored
  <2>5. CASE agent.pc = "put"
    BY <2>2, <2>3, <2>5, AgentType DEF Stored
  <2>6. CASE agent.pc = "register"
    BY <2>2, <2>3, <2>6, AgentType DEF Stored
  <2> QED
    BY <2>2, <2>4, <2>5, <2>6 DEF Steps
<1>3. CASE CallFails
  BY <1>3, AgentType DEF CallFails, Refused, Stored
<1>4. CASE CallTimesOut
  <2>1. \A f \in agent.file : Call(agent.pc, f).step = "register" => Call(agent.pc, f).file \in objects
    BY DEF Call, Stored
  <2>2. \A c \in late' : c.step = "register" => c.file \in objects
    BY <1>4, <2>1 DEF CallTimesOut, Stored
  <2> QED
    BY <1>4, <2>2, AgentType DEF CallTimesOut, Stored
<1>5. CASE SendReport
  <2>1. agent'.pc = agent.pc /\ agent'.file = agent.file /\ agent'.uploaded = agent.uploaded
    BY <1>5 DEF SendReport, TypeOK, Agent
  <2>2. \A c \in late' : c.step = "register" => c.file \in objects
    BY <1>5 DEF SendReport, Stored, Report
  <2> QED
    BY <1>5, <2>1, <2>2 DEF SendReport, Stored
<1>6. CASE AgentGone
  <2>1. agent'.pc = "gone" /\ agent'.file = {} /\ agent'.uploaded = agent.uploaded
    BY <1>6 DEF AgentGone, TypeOK, Agent
  <2> QED
    BY <1>6, <2>1 DEF AgentGone, Stored
<1>7. CASE LateServed
  <2>1. PICK c \in late \ {Report} : Serve(c) /\ late' = late \ {c}
    BY <1>7 DEF LateServed
  <2>2. objects \subseteq objects' /\ rows \subseteq rows' /\ rows' \subseteq objects'
    BY <2>1 DEF Serve, Stored
  <2> QED
    BY <1>7, <2>1, <2>2 DEF LateServed, Stored
<1>8. CASE Lost \/ Server \/ Worker \/ Reader
  <2>1. late' \subseteq late /\ UNCHANGED <<agent, objects, rows>>
    BY <1>8 DEF Lost, Server, StopCheck, StopCommit, EndedElsewhere, Release, ReportCommit, Enqueue,
                Worker, WorkerReadsJob, WorkerReadsArtifacts, Send, WorkerFails, WorkerDies,
                Reader, ListArtifacts, Download
  <2> QED
    BY <2>1 DEF Stored
<1> QED
  BY <1>1, <1>2, <1>3, <1>4, <1>5, <1>6, <1>7, <1>8 DEF Next, Upload, Network

-----------------------------------------------------------------------------
(* The report, the row's status and the queue.                              *)

LEMMA FinalNext ==
  ASSUME TypeOK, Final, Next
  PROVE  Final'
<1> USE DEF back, mail, page
<1>1. CASE TakeFile
  BY <1>1, TakeEffect DEF TakeFile, Final
<1>2. CASE CallSucceeds \/ CallFails \/ CallTimesOut
  <2>1. agent.pc \in Steps /\ ~agent.reported
    BY <1>2 DEF CallSucceeds, CallFails, CallTimesOut, Final, Steps
  <2>2. ~agent'.reported
    BY <1>2, <2>1, AgentType DEF CallSucceeds, CallFails, CallTimesOut, Refused
  <2>3. \A f \in agent.file : Call(agent.pc, f) # Report
    BY <2>1 DEF Call, Report, Steps
  <2>4. Report \in late' => Report \in late
    BY <1>2, <2>3 DEF CallSucceeds, CallFails, CallTimesOut
  <2> QED
    BY <1>2, <2>1, <2>2, <2>4 DEF CallSucceeds, CallFails, CallTimesOut, Final
<1>3. CASE SendReport
  <2>1. agent'.reported /\ agent'.pc = "next" /\ agent'.todo = {}
    BY <1>3 DEF SendReport, Uploaded, TypeOK, Agent
  <2> QED
    BY <1>3, <2>1 DEF SendReport, Final
<1>4. CASE AgentGone
  <2>1. ~agent'.reported
    BY <1>4 DEF AgentGone, TypeOK, Agent
  <2> QED
    BY <1>4, <2>1 DEF AgentGone, Final
<1>5. CASE LateServed \/ Lost
  <2>1. Report \in late' => Report \in late
    BY <1>5 DEF LateServed, Lost
  <2> QED
    BY <1>5, <2>1 DEF LateServed, Lost, Final
<1>6. CASE StopCheck \/ StopCommit \/ EndedElsewhere \/ Release
  <2>1. job'.status = job.status \/ job'.status \in {"cancelled", "preempted", "failed"}
    <3>1. CASE StopCheck
      BY <3>1 DEF StopCheck
    <3>2. CASE StopCommit
      BY <3>2 DEF StopCommit, TypeOK
    <3>3. CASE EndedElsewhere
      BY <3>3 DEF EndedElsewhere, TypeOK
    <3>4. CASE Release
      BY <3>4 DEF Release, TypeOK
    <3> QED
      BY <1>6, <3>1, <3>2, <3>3, <3>4
  <2> QED
    BY <1>6, <2>1 DEF StopCheck, StopCommit, EndedElsewhere, Release, Final
<1>7. CASE ReportCommit
  <2>1. CASE job.ours /\ job.status = "running"
    <3>1. job'.status = "completed"
      BY <1>7, <2>1 DEF ReportCommit, TypeOK
    <3>2. queue.state = "none" /\ agent.reported
      BY <1>7, <2>1 DEF ReportCommit, Final
    <3> QED
      BY <1>7, <3>1, <3>2 DEF ReportCommit, Final
  <2>2. CASE ~(job.ours /\ job.status = "running")
    BY <1>7, <2>2 DEF ReportCommit, Final
  <2> QED
    BY <2>1, <2>2
<1>8. CASE Enqueue
  BY <1>8 DEF Enqueue, Final
<1>9. CASE Worker
  <2>1. queue.state # "none" /\ UNCHANGED <<job, agent, late, handler>>
    BY <1>9 DEF Worker, WorkerReadsJob, WorkerReadsArtifacts, Send, WorkerFails, WorkerDies, Working
  <2> QED
    BY <2>1 DEF Final
<1>10. CASE Reader
  BY <1>10 DEF Reader, ListArtifacts, Download, Final
<1> QED
  BY <1>1, <1>2, <1>3, <1>4, <1>5, <1>6, <1>7, <1>8, <1>9, <1>10 DEF Next, Upload, Network, Server

-----------------------------------------------------------------------------
(* The mail.                                                                *)

\* What an attempt that failed makes of the entry.
LEMMA RetryEffect ==
  ASSUME TypeOK
  PROVE  /\ Retried.attempts = queue.attempts + 1 /\ Retried.stalled = queue.stalled
         /\ Retried.state = IF queue.attempts + 1 < MaxAttempts THEN "waiting" ELSE "dead"
BY DEF Retried, TypeOK, Entry

\* A mail goes out only once the artifacts are read, with what was read.
LEMMA MailEffect ==
  ASSUME TypeOK, Worker
  PROVE  \/ mails' = mails
         \/ queue.state = "read" /\ mails' = Append(mails, [status |-> queue.status, files |-> queue.files])
BY DEF Worker, WorkerReadsJob, WorkerReadsArtifacts, Send, WorkerFails, WorkerDies, Sent

LEMMA CompleteNext ==
  ASSUME TypeOK, Stored, Final, Complete, Next
  PROVE  Complete'
<1> USE DEF back, mail, page
<1>1. CASE CallSucceeds
  <2>1. ~agent.reported /\ queue.state = "none" /\ mails = <<>>
    BY <1>1 DEF CallSucceeds, Final, Complete, Steps
  <2> QED
    BY <1>1, <2>1 DEF CallSucceeds, Complete, MailComplete
<1>2. CASE (Upload /\ ~CallSucceeds) \/ Network \/ (Server /\ ~Enqueue)
  <2>1. UNCHANGED <<queue, mails>>
    BY <1>2 DEF Upload, TakeFile, CallSucceeds, CallFails, CallTimesOut, SendReport, AgentGone, Network,
                LateServed, Lost, Server, StopCheck, StopCommit, EndedElsewhere, Release, ReportCommit
  <2>2. agent'.uploaded = agent.uploaded
    <3>1. CASE TakeFile
      BY <3>1, TakeEffect
    <3>2. CASE CallFails \/ CallTimesOut
      BY <3>2, AgentType DEF CallFails, CallTimesOut, Refused
    <3>3. CASE SendReport
      BY <3>3 DEF SendReport, TypeOK, Agent
    <3>4. CASE AgentGone
      BY <3>4 DEF AgentGone, TypeOK, Agent
    <3>5. CASE Network \/ Server
      BY <3>5 DEF Network, LateServed, Lost, Server, StopCheck, StopCommit, EndedElsewhere, Release,
                  ReportCommit, Enqueue
    <3> QED
      BY <1>2, <3>1, <3>2, <3>3, <3>4, <3>5 DEF Upload
  <2> QED
    BY <2>1, <2>2 DEF Complete, MailComplete
<1>3. CASE Enqueue
  <2>1. queue.state = "none" /\ mails = <<>>
    BY <1>3 DEF Enqueue, Final, Complete
  <2>2. queue'.state \in {"none", "waiting"}
    BY <1>3, <2>1 DEF Enqueue, TypeOK, Entry
  <2> QED
    BY <1>3, <2>1, <2>2 DEF Enqueue, Complete, MailComplete
<1>4. CASE Worker
  <2>1. UNCHANGED agent /\ queue.state # "none" /\ job.status # "running"
    BY <1>4 DEF Worker, WorkerReadsJob, WorkerReadsArtifacts, Send, WorkerFails, WorkerDies, Working,
                Final
  <2>2. /\ queue'.state # "none"
        /\ queue'.state \in {"active", "read"} => queue'.status # "running"
        /\ queue'.state = "read" => agent.uploaded \subseteq queue'.files
    <3>1. CASE WorkerReadsJob
      BY <2>1, <3>1 DEF WorkerReadsJob, TypeOK, Entry
    <3>2. CASE WorkerReadsArtifacts
      BY <3>2 DEF WorkerReadsArtifacts, Linked, TypeOK, Entry, Stored, Complete
    <3>3. CASE Send
      <4>1. queue' = [queue EXCEPT !.state = "done"] \/ queue' = Retried
        BY <3>3 DEF Send, AfterSend
      <4>2. queue'.state \in {"done", "waiting", "dead"}
        BY <4>1, RetryEffect DEF TypeOK, Entry
      <4> QED
        BY <4>2
    <3>4. CASE WorkerFails
      BY <3>4, RetryEffect DEF WorkerFails
    <3>5. CASE WorkerDies
      <4>1. queue'.state \in {"waiting", "dead"}
        BY <3>5 DEF WorkerDies, TypeOK, Entry
      <4> QED
        BY <4>1
    <3> QED
      BY <1>4, <3>1, <3>2, <3>3, <3>4, <3>5 DEF Worker
  <2>3. MailComplete'
    <3>1. CASE mails' = mails
      BY <2>1, <3>1 DEF Complete, MailComplete
    <3>2. CASE queue.state = "read" /\ mails' = Append(mails, [status |-> queue.status, files |-> queue.files])
      <4>1. mails \in Seq(Mail)
        BY DEF TypeOK
      <4>2. \A i \in DOMAIN mails' :
              mails'[i] = IF i \in DOMAIN mails THEN mails[i]
                          ELSE [status |-> queue.status, files |-> queue.files]
        BY <3>2, <4>1
      <4> QED
        BY <2>1, <3>2, <4>2 DEF Complete, MailComplete
    <3> QED
      BY <1>4, <3>1, <3>2, MailEffect
  <2> QED
    BY <2>1, <2>2, <2>3 DEF Complete
<1>5. CASE Reader
  BY <1>5 DEF Reader, ListArtifacts, Download, Complete, MailComplete
<1> QED
  BY <1>1, <1>2, <1>3, <1>4, <1>5 DEF Next

-----------------------------------------------------------------------------
(* Where the links lead.                                                    *)

\* Neither an object nor a row is ever removed.
LEMMA NothingRemoved ==
  ASSUME Next
  PROVE  objects \subseteq objects' /\ rows \subseteq rows'
<1> USE DEF back, mail, page
<1>1. CASE CallSucceeds \/ LateServed
  BY <1>1 DEF CallSucceeds, LateServed, Serve
<1>2. CASE ~(CallSucceeds \/ LateServed)
  BY <1>2 DEF Next, Upload, TakeFile, CallFails, CallTimesOut, SendReport, AgentGone, Network, Lost,
              Server, StopCheck, StopCommit, EndedElsewhere, Release, ReportCommit, Enqueue, Worker,
              WorkerReadsJob, WorkerReadsArtifacts, Send, WorkerFails, WorkerDies, Reader,
              ListArtifacts, Download
<1> QED
  BY <1>1, <1>2

LEMMA LeadingNext ==
  ASSUME TypeOK, Stored, Leading, Next
  PROVE  Leading'
<1> USE DEF back, mail, page
<1>1. objects \subseteq objects' /\ rows \subseteq rows'
  BY NothingRemoved
<1>2. CASE Upload \/ Network \/ (Server /\ ~Enqueue)
  <2>1. UNCHANGED <<queue, mails, listed, opened>>
    BY <1>2 DEF Upload, TakeFile, CallSucceeds, CallFails, CallTimesOut, SendReport, AgentGone, Network,
                LateServed, Lost, Server, StopCheck, StopCommit, EndedElsewhere, Release, ReportCommit
  <2> QED
    BY <1>1, <2>1 DEF Leading
<1>3. CASE Enqueue
  <2>1. queue'.files = queue.files /\ UNCHANGED <<mails, listed, opened>>
    BY <1>3 DEF Enqueue, TypeOK, Entry
  <2> QED
    BY <1>1, <2>1 DEF Leading
<1>4. CASE Worker
  <2>1. UNCHANGED <<listed, opened, objects, rows>>
    BY <1>4 DEF Worker, WorkerReadsJob, WorkerReadsArtifacts, Send, WorkerFails, WorkerDies
  <2>2. queue'.files = queue.files \/ queue'.files = rows
    <3>1. CASE WorkerReadsJob \/ WorkerReadsArtifacts
      BY <3>1 DEF WorkerReadsJob, WorkerReadsArtifacts, Linked, TypeOK, Entry
    <3>2. CASE Send \/ WorkerFails
      BY <3>2 DEF Send, WorkerFails, AfterSend, Retried, TypeOK, Entry
    <3>3. CASE WorkerDies
      BY <3>3 DEF WorkerDies, TypeOK, Entry
    <3> QED
      BY <1>4, <3>1, <3>2, <3>3 DEF Worker
  <2>3. \A i \in DOMAIN mails' : mails'[i].files \subseteq objects
    <3>1. CASE mails' = mails
      BY <3>1 DEF Leading
    <3>2. CASE mails' = Append(mails, [status |-> queue.status, files |-> queue.files])
      <4>1. \A i \in DOMAIN mails' :
              mails'[i] = IF i \in DOMAIN mails THEN mails[i]
                          ELSE [status |-> queue.status, files |-> queue.files]
        BY <3>2 DEF TypeOK
      <4> QED
        BY <4>1 DEF Leading
    <3> QED
      BY <1>4, <3>1, <3>2, MailEffect
  <2> QED
    BY <2>1, <2>2, <2>3 DEF Leading, Stored
<1>5. CASE Reader
  BY <1>5 DEF Reader, ListArtifacts, Download, Leading, Stored
<1> QED
  BY <1>2, <1>3, <1>4, <1>5 DEF Next, Server

-----------------------------------------------------------------------------
(* How many copies.                                                         *)

LEMMA CountedNext ==
  ASSUME TypeOK, Final, Complete, Counted, Next
  PROVE  Counted'
<1> USE DEF back, mail, page
<1>1. CASE Upload \/ Network \/ (Server /\ ~Enqueue)
  <2>1. UNCHANGED <<queue, mails>>
    BY <1>1 DEF Upload, TakeFile, CallSucceeds, CallFails, CallTimesOut, SendReport, AgentGone, Network,
                LateServed, Lost, Server, StopCheck, StopCommit, EndedElsewhere, Release, ReportCommit
  <2> QED
    BY <2>1 DEF Counted
<1>2. CASE Enqueue
  <2>1. queue.state = "none"
    BY <1>2 DEF Enqueue, Final
  <2>2. /\ queue'.state \in {"none", "waiting"} /\ mails' = mails
        /\ queue'.attempts = queue.attempts /\ queue'.stalled = queue.stalled
    BY <1>2, <2>1 DEF Enqueue, TypeOK, Entry
  <2> QED
    BY <2>1, <2>2 DEF Counted
<1>3. CASE WorkerReadsJob \/ WorkerReadsArtifacts
  <2>1. /\ queue.state \in {"waiting", "active"} /\ queue'.state \in {"active", "read"} /\ mails' = mails
        /\ queue'.attempts = queue.attempts /\ queue'.stalled = queue.stalled
    BY <1>3 DEF WorkerReadsJob, WorkerReadsArtifacts, TypeOK, Entry
  <2> QED
    BY <2>1 DEF Counted
<1>4. CASE Send \/ WorkerFails \/ WorkerDies
  <2>1. /\ queue.attempts \in Nat /\ queue.stalled \in Nat /\ MaxAttempts \in Nat /\ MaxStalled \in Nat
        /\ Len(mails) \in Nat
    BY ResultsAssumption DEF TypeOK, Entry
  <2>2. /\ queue.attempts < MaxAttempts /\ queue.stalled <= MaxStalled
        /\ Len(mails) <= queue.attempts + queue.stalled
    <3>1. queue.state \in {"active", "read"}
      BY <1>4 DEF Send, WorkerFails, WorkerDies, Working
    <3> QED
      BY <2>1, <3>1 DEF Counted
  <2>3. mails' = mails \/ Len(mails') = Len(mails) + 1
    BY <1>4, MailEffect DEF Worker, TypeOK
  <2>4. \/ /\ queue'.state = "done"
           /\ queue'.attempts = queue.attempts /\ queue'.stalled = queue.stalled
        \/ /\ queue'.state = IF queue.attempts + 1 < MaxAttempts THEN "waiting" ELSE "dead"
           /\ queue'.attempts = queue.attempts + 1 /\ queue'.stalled = queue.stalled
        \/ /\ queue'.state = IF queue.stalled < MaxStalled THEN "waiting" ELSE "dead"
           /\ queue'.attempts = queue.attempts /\ queue'.stalled = queue.stalled + 1
    <3>1. CASE Send
      <4>1. queue' = [queue EXCEPT !.state = "done"] \/ queue' = Retried
        BY <3>1 DEF Send, AfterSend
      <4> QED
        BY <4>1, RetryEffect DEF TypeOK, Entry
    <3>2. CASE WorkerFails
      BY <3>2, RetryEffect DEF WorkerFails
    <3>3. CASE WorkerDies
      BY <3>3 DEF WorkerDies, TypeOK, Entry
    <3> QED
      BY <1>4, <3>1, <3>2, <3>3
  <2>5. CASE queue'.state = "done" /\ queue'.attempts = queue.attempts /\ queue'.stalled = queue.stalled
    BY <2>1, <2>2, <2>3, <2>5 DEF Counted
  <2>6. CASE /\ queue'.state = IF queue.attempts + 1 < MaxAttempts THEN "waiting" ELSE "dead"
             /\ queue'.attempts = queue.attempts + 1 /\ queue'.stalled = queue.stalled
    BY <2>1, <2>2, <2>3, <2>6 DEF Counted
  <2>7. CASE /\ queue'.state = IF queue.stalled < MaxStalled THEN "waiting" ELSE "dead"
             /\ queue'.attempts = queue.attempts /\ queue'.stalled = queue.stalled + 1
    BY <2>1, <2>2, <2>3, <2>7 DEF Counted
  <2> QED
    BY <2>4, <2>5, <2>6, <2>7
<1>5. CASE Reader
  BY <1>5 DEF Reader, ListArtifacts, Download, Counted
<1> QED
  BY <1>1, <1>2, <1>3, <1>4, <1>5 DEF Next, Server, Worker

-----------------------------------------------------------------------------
(* The theorems.                                                            *)

LEMMA InvInit == Init => IInv
<1> SUFFICES ASSUME Init PROVE IInv
  OBVIOUS
<1>1. TypeOK
  BY TypeInit
<1>2. Stored /\ Final
  BY DEF Init, Stored, Final
<1>3. Complete /\ Leading
  BY DEF Init, Complete, MailComplete, Leading
<1>4. Counted
  BY ResultsAssumption DEF Init, Counted
<1> QED
  BY <1>1, <1>2, <1>3, <1>4 DEF IInv

LEMMA InvNext == IInv /\ [Next]_vars => IInv'
<1> SUFFICES ASSUME IInv, [Next]_vars PROVE IInv'
  OBVIOUS
<1>1. CASE Next
  BY <1>1, TypeNext, StoredNext, FinalNext, CompleteNext, LeadingNext, CountedNext DEF IInv
<1>2. CASE UNCHANGED vars
  <2>1. TypeOK'
    BY <1>2 DEF vars, IInv, TypeOK, Entry, Agent, Calls, Mail
  <2>2. Stored' /\ Final'
    BY <1>2 DEF vars, IInv, Stored, Final
  <2>3. Complete' /\ Leading' /\ Counted'
    BY <1>2 DEF vars, IInv, Complete, MailComplete, Leading, Counted
  <2> QED
    BY <2>1, <2>2, <2>3 DEF IInv
<1> QED
  BY <1>1, <1>2

LEMMA InvCorrect == Spec => []IInv
BY InvInit, InvNext, PTL DEF Spec

\* The upload, the calls on their way, the queue's entry and the mails keep
\* their types; no file of the upload is on none of its lists.
THEOREM TypeCorrect == Spec => []TypeOK
<1>1. IInv => TypeOK
  BY DEF IInv
<1> QED
  BY <1>1, InvCorrect, PTL

\* Whatever fails, times out or arrives late: what the agent counts as
\* uploaded and what the page lists is registered, what is registered is in
\* the bucket, and so is what every link of the page and of a mail leads to.
THEOREM LinksLeadCorrect == Spec => []LinksLead
<1>1. IInv => LinksLead
  BY DEF IInv, Stored, Leading, LinksLead
<1> QED
  BY <1>1, InvCorrect, PTL

\* A mail lists every file the agent has counted as uploaded, and never
\* calls the job running.
THEOREM MailCompleteCorrect == Spec => []MailComplete
<1>1. IInv => MailComplete
  BY DEF IInv, Complete
<1> QED
  BY <1>1, InvCorrect, PTL

\* The requester gets at most one mail for each attempt and each hand-out of a stalled entry.
THEOREM CopiesBoundedCorrect == Spec => []CopiesBounded
<1>1. IInv => CopiesBounded
  <2>1. ASSUME IInv PROVE Len(mails) <= MaxAttempts + MaxStalled
    <3>1. /\ queue.attempts \in Nat /\ queue.stalled \in Nat /\ MaxAttempts \in Nat /\ MaxStalled \in Nat
          /\ Len(mails) \in Nat
      BY <2>1, ResultsAssumption DEF IInv, TypeOK, Entry
    <3> QED
      BY <2>1, <3>1 DEF IInv, Counted
  <2> QED
    BY <2>1 DEF CopiesBounded
<1> QED
  BY <1>1, InvCorrect, PTL
=============================================================================
