--------------------------- MODULE JobPage_proofs ---------------------------
(* Proofs about JobPage: its panels, its spinner, its room, and what it has *)
(* fetched, for any jobs and any numbers of events.                         *)
EXTENDS JobPage, TLAPS

-----------------------------------------------------------------------------
(* Requests under way.                                                      *)

\* No row is older than its changes.
Aged == \A j \in Jobs, p \in Panels : version[j][p] <= changes + 1

\* A request that goes out is under way, and no other is lost by it.
LEMMA AskAdds ==
    ASSUME TypeOK, NEW ps \in SUBSET Panels, NEW j \in Jobs, Ask(ps, j)
    PROVE  /\ calls' \in [Calls -> Nat]
           /\ \A c \in Calls : calls'[c] >= calls[c]
           /\ \A p \in ps : Call(p, j) \in Calls /\ calls'[Call(p, j)] > 0
<1>1. \A p \in ps : Call(p, j) \in Calls
  BY JobPageAssumption DEF Calls, Call
<1>2. calls \in [Calls -> Nat]
  BY DEF TypeOK
<1>3. calls' = [c \in Calls |-> IF c \in {Call(p, j) : p \in ps} THEN calls[c] + 1 ELSE calls[c]]
  BY DEF Ask
<1>4. calls' \in [Calls -> Nat]
  BY <1>2, <1>3
<1>5. \A c \in Calls : calls'[c] >= calls[c]
  BY <1>2, <1>3
<1>6. ASSUME NEW p \in ps
      PROVE  calls'[Call(p, j)] > 0
  <2>1. Call(p, j) \in {Call(q, j) : q \in ps}
    OBVIOUS
  <2>2. calls'[Call(p, j)] = calls[Call(p, j)] + 1
    BY <1>1, <1>3, <2>1
  <2>. QED
    BY <1>1, <1>2, <2>2
<1>. QED
  BY <1>1, <1>4, <1>5, <1>6

\* A request that is served carries the version of that moment, and is still under way.
LEMMA ServedKeeps ==
    ASSUME TypeOK, NEW c \in Calls, Served(c)
    PROVE  /\ UNCHANGED <<version, jobId, panels, stopping, socket, news, past, counts>>
           /\ calls' \in [Calls -> Nat]
           /\ \A w \in Calls \ {c} : calls'[w] >= calls[w]
           /\ \E d \in Calls : /\ d.panel = c.panel /\ d.job = c.job
                               /\ d.version = version[c.job][c.panel]
                               /\ calls'[d] > 0
<1>. DEFINE d == [c EXCEPT !.version = version[c.job][c.panel]]
<1>0. AnsweredWith(c, version[c.job][c.panel])
  BY DEF Served, JobServed, ArtifactsServed
<1>1. c.panel \in Panels /\ c.job \in Jobs /\ calls \in [Calls -> Nat] /\ c.version = 0
  BY <1>0 DEF Calls, TypeOK, AnsweredWith
<1>2. version[c.job][c.panel] \in 1..(MaxChanges + 1)
  BY <1>1 DEF TypeOK
<1>3. /\ d \in Calls
      /\ d.panel = c.panel /\ d.job = c.job /\ d.version = version[c.job][c.panel]
  BY <1>1, <1>2 DEF Calls
<1>4. d # c
  <2>1. d.version # 0
    BY <1>2, <1>3, JobPageAssumption
  <2>. QED
    BY <1>1, <2>1
<1>5. calls' = [calls EXCEPT ![c] = @ - 1, ![d] = @ + 1] /\ calls[c] > 0
  BY <1>0 DEF AnsweredWith
<1>6. calls' \in [Calls -> Nat] /\ calls'[d] > 0
  BY <1>1, <1>3, <1>4, <1>5
<1>7. \A w \in Calls \ {c} : calls'[w] >= calls[w]
  BY <1>1, <1>3, <1>4, <1>5
<1>. QED
  BY <1>0, <1>3, <1>6, <1>7 DEF AnsweredWith

\* A request that ends takes no other with it.
LEMMA EndKeeps ==
    ASSUME TypeOK, NEW c \in Calls, Applied(c) \/ Fails(c)
    PROVE  /\ calls' \in [Calls -> Nat]
           /\ \A w \in Calls \ {c} : calls'[w] = calls[w]
<1>1. calls \in [Calls -> Nat]
  BY DEF TypeOK
<1>2. calls[c] > 0 /\ calls' = [calls EXCEPT ![c] = @ - 1]
  BY DEF Applied, Fails, Ends
<1>3. calls' \in [Calls -> Nat]
  BY <1>1, <1>2
<1>. QED
  BY <1>1, <1>2, <1>3

-----------------------------------------------------------------------------
(* Types.                                                                   *)

LEMMA TypeInit == Init => TypeOK /\ Aged
<1>. SUFFICES ASSUME Init PROVE TypeOK /\ Aged
  OBVIOUS
<1>1. changes = 0 /\ events = 0 /\ changes \in 0..MaxChanges /\ events \in 0..MaxEvents
  BY JobPageAssumption DEF Init
<1>2. version \in [Jobs -> [Panels -> 1..(MaxChanges + 1)]]
  BY JobPageAssumption DEF Init
<1>3. calls \in [Calls -> Nat]
  BY DEF Init
<1>4. /\ shown \in [Panels -> [job: Jobs \cup {None}, version: Nat]]
      /\ heard \in [Panels -> Nat] /\ seen \in [Panels -> Nat]
      /\ joining \in [Jobs -> Nat] /\ out \in Seq([op: {"join", "leave"}, job: Jobs])
  BY DEF Init, Nothing
<1>5. Aged
  BY <1>1 DEF Init, Aged
<1>. QED
  BY <1>1, <1>2, <1>3, <1>4, <1>5 DEF Init, TypeOK

Messages == [op: {"join", "leave"}, job: Jobs]

LEMMA SendsType ==
    ASSUME TypeOK, NEW s \in Seq(Messages), Sends(s)
    PROVE  out' \in Seq(Messages)
  BY DEF TypeOK, Sends, Messages

LEMMA TypeStep == TypeOK /\ Aged /\ [Next]_vars => TypeOK' /\ Aged'
<1>. SUFFICES ASSUME TypeOK, Aged, [Next]_vars PROVE TypeOK' /\ Aged'
  OBVIOUS
<1>. USE JobPageAssumption
<1>1. ASSUME NEW j \in Jobs, Visit(j) PROVE TypeOK' /\ Aged'
  <2>1. calls' \in [Calls -> Nat]
    <3>1. Ask(Opened, j) /\ Opened \in SUBSET Panels
      BY <1>1 DEF Visit, Opened
    <3>. QED
      BY <3>1, AskAdds
  <2>2. out' \in Seq([op: {"join", "leave"}, job: Jobs])
    <3>1. <<Leave(jobId), Join(j)>> \in Seq(Messages)
      BY DEF TypeOK, Messages, Leave, Join
    <3>2. CASE listening
      BY <1>1, <3>1, <3>2, SendsType DEF Visit, Messages
    <3>3. CASE ~listening
      BY <1>1, <3>3 DEF Visit, TypeOK
    <3>. QED
      BY <3>2, <3>3
  <2>3. /\ shown' \in [Panels -> [job: Jobs \cup {None}, version: Nat]]
        /\ heard' \in [Panels -> Nat] /\ seen' \in [Panels -> Nat] /\ failed' = {}
        /\ loading' = TRUE /\ error' = FALSE /\ jobId' = j
    BY <1>1 DEF Visit, CleanSlate, Nothing
  <2>4. events' \in 0..MaxEvents
    BY <1>1 DEF Visit, Event, TypeOK
  <2>5. UNCHANGED <<version, stopping, link, listening, joining, rooms, refused, news, changes>>
    BY <1>1 DEF Visit
  <2>. QED
    BY <2>1, <2>2, <2>3, <2>4, <2>5 DEF TypeOK, Aged
<1>2. ASSUME NEW j \in Jobs, JoinEnds(j) PROVE TypeOK' /\ Aged'
  <2>1. joining \in [Jobs -> Nat] /\ joining[j] > 0 /\ joining' = [joining EXCEPT ![j] = @ - 1]
    BY <1>2 DEF JoinEnds, TypeOK
  <2>2. joining' \in [Jobs -> Nat]
    BY <2>1
  <2>3. rooms' \subseteq Jobs /\ refused' \subseteq Jobs
    BY <1>2 DEF JoinEnds, TypeOK
  <2>. QED
    BY <1>2, <2>2, <2>3 DEF JoinEnds, TypeOK, Aged, panels, past, counts
<1>3. ASSUME NEW j \in Jobs, NEW p \in Panels, Change(j, p) PROVE TypeOK' /\ Aged'
  <2>1. /\ changes' = changes + 1 /\ changes' \in 0..MaxChanges
        /\ events' \in 0..MaxEvents
    BY <1>3 DEF Change, Event, TypeOK
  <2>2. version[j][p] \in 1..(changes + 1)
    BY DEF TypeOK, Aged
  <2>3. version' = [version EXCEPT ![j][p] = @ + 1]
    BY <1>3 DEF Change
  <2>4. version' \in [Jobs -> [Panels -> 1..(MaxChanges + 1)]]
    <3>1. version[j][p] + 1 \in 1..(MaxChanges + 1)
      <4>1. changes \in Nat /\ MaxChanges \in Nat /\ changes + 1 <= MaxChanges
        BY <2>1, JobPageAssumption DEF TypeOK
      <4>. QED
        BY <2>2, <4>1
    <3>. QED
      BY <2>3, <3>1 DEF TypeOK
  <2>5. \A k \in Jobs, q \in Panels : version'[k][q] <= changes' + 1
    <3>. SUFFICES ASSUME NEW k \in Jobs, NEW q \in Panels
                  PROVE  version'[k][q] <= changes' + 1
      OBVIOUS
    <3>1. version[k][q] \in Nat /\ changes \in Nat /\ version[k][q] <= changes + 1
      <4>1. version[k] \in [Panels -> 1..(MaxChanges + 1)] /\ changes \in 0..MaxChanges
        BY DEF TypeOK
      <4>2. version[k][q] \in 1..(MaxChanges + 1)
        BY <4>1
      <4>. QED
        BY <4>1, <4>2 DEF Aged
    <3>2. version'[k][q] = IF k = j /\ q = p THEN version[k][q] + 1 ELSE version[k][q]
      BY <2>3 DEF TypeOK
    <3>. QED
      BY <2>1, <3>1, <3>2
  <2>6. news' \subseteq [job: Jobs, panel: Panels, version: Nat]
    <3>1. [job |-> j, panel |-> p, version |-> version[j][p] + 1] \in [job: Jobs, panel: Panels, version: Nat]
      BY <2>1, <2>2 DEF TypeOK
    <3>2. news' \subseteq news \cup {[job |-> j, panel |-> p, version |-> version[j][p] + 1]}
      BY <1>3 DEF Change
    <3>. QED
      BY <3>1, <3>2 DEF TypeOK
  <2>7. UNCHANGED <<jobId, panels, stopping, calls, socket, past>>
    BY <1>3 DEF Change
  <2>. QED
    BY <2>1, <2>4, <2>5, <2>6, <2>7 DEF TypeOK, Aged, panels, socket, past
<1>4. ASSUME NEW n \in news, NewsArrives(n) PROVE TypeOK' /\ Aged'
  <2>1. n \in [job: Jobs, panel: Panels, version: Nat] /\ jobId \in Jobs
    BY DEF TypeOK
  <2>2. CASE listening /\ n.job = jobId
    <3>1. Ask(ToFetch(n.panel), jobId) /\ ToFetch(n.panel) \in SUBSET Panels
      BY <1>4, <2>2 DEF NewsArrives, ToFetch, Panels
    <3>2. calls' \in [Calls -> Nat]
      BY <2>1, <3>1, AskAdds
    <3>3. heard' \in [Panels -> Nat]
      BY <1>4, <2>1, <2>2 DEF NewsArrives, Larger, TypeOK
    <3>. QED
      BY <1>4, <3>2, <3>3 DEF NewsArrives, TypeOK, Aged, panels, socket, counts
  <2>3. CASE ~(listening /\ n.job = jobId)
    BY <1>4, <2>3 DEF NewsArrives, TypeOK, Aged, panels, socket, counts
  <2>. QED
    BY <2>2, <2>3
<1>5. ASSUME NEW c \in Calls, Served(c) PROVE TypeOK' /\ Aged'
  <2>1. /\ calls' \in [Calls -> Nat]
        /\ UNCHANGED <<version, jobId, panels, stopping, socket, news, past, counts>>
    BY <1>5, ServedKeeps
  <2>. QED
    BY <2>1 DEF TypeOK, Aged, panels, socket, past, counts
<1>6. ASSUME NEW c \in Calls, Applied(c) PROVE TypeOK' /\ Aged'
  <2>1. calls' \in [Calls -> Nat]
    BY <1>6, EndKeeps
  <2>2. c.panel \in Panels /\ c.job \in Jobs /\ c.version \in Nat
    BY DEF Calls
  <2>3. shown' \in [Panels -> [job: Jobs \cup {None}, version: Nat]]
    <3>1. shown \in [Panels -> [job: Jobs \cup {None}, version: Nat]]
      BY DEF TypeOK
    <3>2. [job |-> c.job, version |-> c.version] \in [job: Jobs \cup {None}, version: Nat]
      BY <2>2
    <3>3. shown' = shown
             \/ shown' = [shown EXCEPT ![c.panel] = [job |-> c.job, version |-> c.version]]
      BY <1>6 DEF Applied
    <3>. QED
      BY <2>2, <3>1, <3>2, <3>3
  <2>4. seen' \in [Panels -> Nat]
    BY <1>6, <2>2 DEF Applied, TypeOK, Larger
  <2>5. loading' \in BOOLEAN
    BY <1>6 DEF Applied, TypeOK
  <2>. QED
    BY <1>6, <2>1, <2>3, <2>4, <2>5 DEF Applied, TypeOK, Aged, socket, counts
<1>7. ASSUME NEW c \in Calls, Fails(c) PROVE TypeOK' /\ Aged'
  <2>1. calls' \in [Calls -> Nat]
    BY <1>7, EndKeeps
  <2>2. c.panel \in Panels
    BY DEF Calls
  <2>3. failed' \subseteq Panels /\ error' \in BOOLEAN /\ loading' \in BOOLEAN
    BY <1>7, <2>2 DEF Fails, TypeOK
  <2>. QED
    BY <1>7, <2>1, <2>3 DEF Fails, TypeOK, Aged, socket, counts
<1>8. CASE StopPressed
  <2>1. stopping' \in Jobs \cup {None} /\ events' \in 0..MaxEvents
    BY <1>8 DEF StopPressed, Event, TypeOK
  <2>2. UNCHANGED <<version, jobId, panels, calls, socket, news, past, changes>>
    BY <1>8 DEF StopPressed, Event
  <2>. QED
    BY <2>1, <2>2 DEF TypeOK, Aged, panels, socket, past
<1>9. CASE StopAnswered
  <2>1. calls' \in [Calls -> Nat]
    <3>1. stopping \in Jobs /\ {"job"} \in SUBSET Panels
      BY <1>9 DEF StopAnswered, TypeOK, Panels
    <3>. QED
      BY <1>9, <3>1, AskAdds DEF StopAnswered, TypeOK
  <2>. QED
    BY <1>9, <2>1 DEF StopAnswered, TypeOK, Aged, panels, socket, past, counts
<1>10. CASE SocketTakes
  <2>1. out \in Seq(Messages) /\ out # <<>>
    BY <1>10 DEF SocketTakes, TypeOK, Messages
  <2>2. Head(out) \in Messages /\ Tail(out) \in Seq(Messages)
    BY <2>1
  <2>3. Head(out).job \in Jobs
    BY <2>2 DEF Messages
  <2>4. out' \in Seq(Messages) /\ joining' \in [Jobs -> Nat] /\ rooms' \subseteq Jobs
    <3>1. out' = Tail(out)
      BY <1>10 DEF SocketTakes
    <3>2. \/ joining' = joining /\ rooms' = rooms \ {Head(out).job}
          \/ joining' = [joining EXCEPT ![Head(out).job] = @ + 1] /\ rooms' = rooms
      BY <1>10 DEF SocketTakes
    <3>3. joining \in [Jobs -> Nat] /\ rooms \subseteq Jobs
      BY DEF TypeOK
    <3>4. joining' \in [Jobs -> Nat]
      BY <2>3, <3>2, <3>3
    <3>. QED
      BY <2>2, <3>1, <3>2, <3>3, <3>4
  <2>. QED
    BY <1>10, <2>4 DEF SocketTakes, TypeOK, Aged, Messages, panels, past, counts
<1>11. CASE Drop
  BY <1>11 DEF Drop, Event, TypeOK, Aged, panels, past
<1>12. CASE Disconnected
  <2>2. out' \in Seq([op: {"join", "leave"}, job: Jobs])
    <3>1. out' = <<Leave(jobId)>> \/ out' = <<>>
      BY <1>12 DEF Disconnected, Undo
    <3>2. <<Leave(jobId)>> \in Seq([op: {"join", "leave"}, job: Jobs])
      BY DEF Leave, TypeOK
    <3>3. <<>> \in Seq([op: {"join", "leave"}, job: Jobs])
      OBVIOUS
    <3>. QED
      BY <3>1, <3>2, <3>3
  <2>. QED
    BY <1>12, <2>2 DEF Disconnected, Undo, TypeOK, Aged, panels, past, counts
<1>13. CASE Connected \/ HandshakeRefused \/ AttemptsSpent
  BY <1>13 DEF Connected, HandshakeRefused, AttemptsSpent, AttemptEnds, TypeOK, Aged, panels, past, counts
<1>14. CASE Subscribe
  <2>1. <<Join(jobId)>> \in Seq(Messages)
    BY DEF Join, TypeOK, Messages
  <2>2. out' \in Seq([op: {"join", "leave"}, job: Jobs])
    BY <1>14, <2>1, SendsType DEF Subscribe, Messages
  <2>. QED
    BY <1>14, <2>2 DEF Subscribe, TypeOK, Aged, panels, past, counts
<1>15. CASE UNCHANGED vars
  BY <1>15 DEF vars, TypeOK, Aged
<1>. QED
  BY <1>1, <1>2, <1>3, <1>4, <1>5, <1>6, <1>7, <1>8, <1>9, <1>10, <1>11, <1>12, <1>13,
     <1>14, <1>15 DEF Next, Answer

\* The page, its requests, its rooms and what it remembers keep their types.
THEOREM TypeCorrect == Spec => [](TypeOK /\ Aged)
  BY TypeInit, TypeStep, PTL DEF Spec

-----------------------------------------------------------------------------
(* What the page shows.                                                     *)

LEMMA OwnInit == Init => OwnPage
<1>. SUFFICES ASSUME Init PROVE OwnPage
  OBVIOUS
<1>1. \A p \in Panels : shown[p].job = None
  BY DEF Init, Nothing
<1>2. Call("job", jobId) \in Calls /\ calls[Call("job", jobId)] > 0
  <2>1. Call("job", jobId) \in Calls
    BY JobPageAssumption DEF Init, Call, Calls, Panels
  <2>2. Call("job", jobId) \in {Call(p, jobId) : p \in Panels}
    BY DEF Panels
  <2>. QED
    BY <2>1, <2>2 DEF Init
<1>3. loading = TRUE
  BY DEF Init
<1>. QED
  BY <1>1, <1>2, <1>3 DEF OwnPage, Call

\* A step that keeps the panels, the page and every request under way keeps OwnPage.
LEMMA OwnKept ==
    ASSUME TypeOK, OwnPage, UNCHANGED <<jobId, shown, loading, error>>,
           calls' \in [Calls -> Nat],
           \A w \in Calls : calls'[w] >= calls[w]
    PROVE  OwnPage'
<1>1. ASSUME NEW c \in Calls, calls[c] > 0
      PROVE  calls'[c] > 0
  BY <1>1 DEF TypeOK
<1>. QED
  BY <1>1 DEF OwnPage, Nothing

LEMMA OwnStep == TypeOK /\ OwnPage /\ [Next]_vars => OwnPage'
<1>. SUFFICES ASSUME TypeOK, OwnPage, [Next]_vars PROVE OwnPage'
  OBVIOUS
<1>1. ASSUME NEW j \in Jobs, Visit(j) PROVE OwnPage'
  <2>1. Ask(Opened, j) /\ "job" \in Opened /\ Opened \in SUBSET Panels
    BY <1>1 DEF Visit, Opened, Panels
  <2>2. Call("job", j) \in Calls /\ calls'[Call("job", j)] > 0
    BY <2>1, AskAdds
  <2>3. jobId' = j /\ loading' = TRUE /\ shown' = [p \in Panels |-> Nothing]
    BY <1>1 DEF Visit, CleanSlate
  <2>. QED
    BY <2>2, <2>3 DEF OwnPage, Nothing, Call
<1>2. ASSUME NEW j \in Jobs, JoinEnds(j) PROVE OwnPage'
  BY <1>2 DEF JoinEnds, OwnPage, Nothing, panels
<1>3. ASSUME NEW j \in Jobs, NEW p \in Panels, Change(j, p) PROVE OwnPage'
  BY <1>3 DEF Change, OwnPage, Nothing, panels
<1>4. ASSUME NEW n \in news, NewsArrives(n) PROVE OwnPage'
  <2>1. UNCHANGED <<jobId, shown, loading, error>>
    BY <1>4 DEF NewsArrives, panels
  <2>2. CASE listening /\ n.job = jobId
    <3>1. Ask(ToFetch(n.panel), jobId) /\ ToFetch(n.panel) \in SUBSET Panels /\ jobId \in Jobs
      BY <1>4, <2>2 DEF NewsArrives, ToFetch, Panels, TypeOK
    <3>2. calls' \in [Calls -> Nat] /\ \A w \in Calls : calls'[w] >= calls[w]
      BY <3>1, AskAdds
    <3>. QED
      BY <2>1, <3>2, OwnKept
  <2>3. CASE ~(listening /\ n.job = jobId)
    BY <1>4, <2>1, <2>3 DEF NewsArrives, OwnPage, Nothing
  <2>. QED
    BY <2>2, <2>3
<1>5. ASSUME NEW c \in Calls, Served(c) PROVE OwnPage'
  <2>1. UNCHANGED <<jobId, shown, loading, error>>
    BY <1>5, ServedKeeps DEF panels
  <2>2. PICK d \in Calls : d.panel = c.panel /\ d.job = c.job /\ calls'[d] > 0
    BY <1>5, ServedKeeps
  <2>3. \A w \in Calls \ {c} : calls'[w] >= calls[w]
    BY <1>5, ServedKeeps
  <2>4. calls' \in [Calls -> Nat] /\ calls \in [Calls -> Nat]
    BY <1>5, ServedKeeps DEF TypeOK
  <2>5. ASSUME NEW w \in Calls, calls[w] > 0
        PROVE  \E e \in Calls : e.panel = w.panel /\ e.job = w.job /\ calls'[e] > 0
    <3>1. CASE w = c
      BY <2>2, <3>1
    <3>2. CASE w # c
      <4>1. calls'[w] > 0
        BY <2>3, <2>4, <2>5, <3>2
      <4>. QED
        BY <4>1
    <3>. QED
      BY <3>1, <3>2
  <2>. QED
    BY <2>1, <2>5 DEF OwnPage, Nothing
<1>6. ASSUME NEW c \in Calls, Applied(c) PROVE OwnPage'
  <2>1. c.panel \in Panels /\ c.job \in Jobs /\ shown \in [Panels -> [job: Jobs \cup {None}, version: Nat]]
    BY DEF Calls, TypeOK
  <2>2. \A w \in Calls \ {c} : calls'[w] = calls[w]
    BY <1>6, EndKeeps
  <2>3. CASE c.job = jobId
    <3>1. /\ shown' = [shown EXCEPT ![c.panel] = [job |-> c.job, version |-> c.version]]
          /\ loading' = (loading /\ c.panel # "job") /\ error' = error /\ jobId' = jobId
      BY <1>6, <2>3 DEF Applied, Mine
    <3>2. \A p \in Panels : shown'[p] = IF p = c.panel THEN [job |-> c.job, version |-> c.version] ELSE shown[p]
      BY <2>1, <3>1
    <3>3. \A p \in Panels : shown'[p].job \in {jobId', None}
      BY <2>3, <3>1, <3>2 DEF OwnPage
    <3>4. ASSUME loading'
          PROVE  \E w \in Calls : w.panel = "job" /\ w.job = jobId' /\ calls'[w] > 0
      <4>1. PICK w \in Calls : w.panel = "job" /\ w.job = jobId /\ calls[w] > 0
        BY <3>1, <3>4 DEF OwnPage
      <4>2. w # c
        BY <3>1, <3>4, <4>1
      <4>. QED
        BY <2>2, <3>1, <4>1, <4>2
    <3>5. ASSUME ~loading'
          PROVE  shown'["job"] # Nothing \/ error'
      <4>1. CASE c.panel = "job"
        <5>1. shown'["job"].job = c.job
          BY <2>1, <3>2, <4>1
        <5>2. Nothing.job = None
          BY DEF Nothing
        <5>. QED
          BY <2>1, <5>1, <5>2, JobPageAssumption
      <4>2. CASE c.panel # "job"
        <5>1. ~loading /\ shown'["job"] = shown["job"]
          BY <3>1, <3>2, <3>5, <4>2 DEF Panels
        <5>. QED
          BY <3>1, <5>1 DEF OwnPage
      <4>. QED
        BY <4>1, <4>2
    <3>. QED
      BY <3>3, <3>4, <3>5 DEF OwnPage, Nothing
  <2>4. CASE c.job # jobId
    <3>1. UNCHANGED <<jobId, shown, loading, error>>
      BY <1>6, <2>4 DEF Applied, Mine
    <3>2. \A w \in Calls : w.job = jobId => calls'[w] = calls[w]
      BY <2>2, <2>4
    <3>. QED
      BY <3>1, <3>2 DEF OwnPage, Nothing
  <2>. QED
    BY <2>3, <2>4
<1>7. ASSUME NEW c \in Calls, Fails(c) PROVE OwnPage'
  <2>1. c.panel \in Panels /\ c.job \in Jobs
    BY DEF Calls
  <2>2. \A w \in Calls \ {c} : calls'[w] = calls[w]
    BY <1>7, EndKeeps
  <2>3. CASE c.job = jobId
    <3>1. /\ loading' = (loading /\ c.panel # "job") /\ error' = (error \/ c.panel = "job")
          /\ UNCHANGED <<jobId, shown>>
      BY <1>7, <2>3 DEF Fails, Mine
    <3>2. \A w \in Calls : c.panel # "job" /\ w.panel = "job" => calls'[w] = calls[w]
      BY <2>2
    <3>. QED
      BY <3>1, <3>2 DEF OwnPage, Nothing
  <2>4. CASE c.job # jobId
    <3>1. UNCHANGED <<jobId, shown, loading, error>>
      BY <1>7, <2>4 DEF Fails, Mine
    <3>2. \A w \in Calls : w.job = jobId => calls'[w] = calls[w]
      BY <2>2, <2>4
    <3>. QED
      BY <3>1, <3>2 DEF OwnPage, Nothing
  <2>. QED
    BY <2>3, <2>4
<1>8. CASE StopPressed
  BY <1>8 DEF StopPressed, OwnPage, Nothing, panels
<1>9. CASE StopAnswered
  <2>1. UNCHANGED <<jobId, shown, loading, error>>
    BY <1>9 DEF StopAnswered, panels
  <2>2. stopping \in Jobs /\ {"job"} \in SUBSET Panels
    BY <1>9 DEF StopAnswered, TypeOK, Panels
  <2>3. CASE Ask({"job"}, stopping)
    <3>1. calls' \in [Calls -> Nat] /\ \A w \in Calls : calls'[w] >= calls[w]
      BY <2>2, <2>3, AskAdds
    <3>. QED
      BY <2>1, <3>1, OwnKept
  <2>4. CASE UNCHANGED calls
    BY <2>1, <2>4 DEF OwnPage, Nothing
  <2>. QED
    BY <1>9, <2>3, <2>4 DEF StopAnswered
<1>10. CASE Connected \/ HandshakeRefused \/ AttemptsSpent
  BY <1>10 DEF Connected, HandshakeRefused, AttemptsSpent, AttemptEnds, OwnPage, Nothing, panels
<1>11. CASE SocketTakes \/ Drop \/ Disconnected \/ Subscribe
  BY <1>11 DEF SocketTakes, Drop, Disconnected, Subscribe, OwnPage, Nothing, panels
<1>12. CASE UNCHANGED vars
  BY <1>12 DEF vars, OwnPage, Nothing
<1>. QED
  BY <1>1, <1>2, <1>3, <1>4, <1>5, <1>6, <1>7, <1>8, <1>9, <1>10, <1>11, <1>12 DEF Next, Answer

\* Whatever answers come late, the page shows its own job, waits for something behind
\* its spinner, and shows the job or an error without it.
THEOREM OwnPageCorrect == Spec => []OwnPage
  BY OwnInit, OwnStep, TypeInit, TypeStep, PTL DEF Spec

-----------------------------------------------------------------------------
(* The room.                                                                *)

\* The last word on job j that is still to be sent is that the page joins.
Pending(j) ==
    \E k \in DOMAIN out :
        /\ out[k] = Join(j)
        /\ \A l \in DOMAIN out : l > k => out[l] # Leave(j)

Joined(j) ==
    /\ \A l \in DOMAIN out : out[l] # Leave(j)
    /\ joining[j] > 0 \/ j \in rooms \/ j \in refused

\* A page that listens has joined, is joining, or is going to.
Room ==
    /\ link \in {"down", "over"} => ~listening
    /\ link = "up" /\ listening => Pending(jobId) \/ Joined(jobId)

LEMMA RoomImplies == TypeOK /\ Room => Listening
<1>. SUFFICES ASSUME TypeOK, Room, Settled, jobId \notin refused PROVE jobId \in rooms
  BY DEF Listening
<1>1. link = "up" /\ listening /\ out = <<>> /\ joining[jobId] = 0
  BY DEF Settled, TypeOK
<1>2. ~Pending(jobId)
  BY <1>1 DEF Pending
<1>. QED
  BY <1>1, <1>2 DEF Room, Joined

LEMMA RoomStep == TypeOK /\ Room /\ [Next]_vars => Room'
<1>. SUFFICES ASSUME TypeOK, Room, [Next]_vars PROVE Room'
  OBVIOUS
<1>0. out \in Seq(Messages) /\ jobId \in Jobs /\ joining \in [Jobs -> Nat]
  BY DEF TypeOK, Messages
<1>1. ASSUME NEW j \in Jobs, Visit(j) PROVE Room'
  <2>1. UNCHANGED <<link, listening>> /\ jobId' = j
    BY <1>1 DEF Visit
  <2>2. ASSUME link = "up", listening PROVE Pending(j)'
    <3>1. out' = out \o <<Leave(jobId), Join(j)>>
      BY <1>1, <2>2 DEF Visit, Sends
    <3>2. <<Leave(jobId), Join(j)>> \in Seq(Messages)
      BY <1>0 DEF Messages, Leave, Join
    <3>3. Len(out') = Len(out) + 2 /\ out'[Len(out) + 2] = Join(j) /\ out' \in Seq(Messages)
      BY <1>0, <3>1, <3>2
    <3>4. Len(out) + 2 \in DOMAIN out' /\ \A l \in DOMAIN out' : ~(l > Len(out) + 2)
      BY <1>0, <3>3
    <3>. QED
      BY <3>3, <3>4 DEF Pending, Join
  <2>. QED
    BY <2>1, <2>2 DEF Room
<1>2. ASSUME NEW j \in Jobs, JoinEnds(j) PROVE Room'
  <2>1. UNCHANGED <<link, listening, out, jobId>>
    BY <1>2 DEF JoinEnds
  <2>2. joining' = [joining EXCEPT ![j] = @ - 1]
    BY <1>2 DEF JoinEnds
  <2>3. \/ rooms' = rooms \cup {j} /\ refused' = refused \ {j}
        \/ rooms' = rooms /\ refused' = refused \cup {j}
    BY <1>2 DEF JoinEnds
  <2>4. ASSUME Joined(jobId) PROVE Joined(jobId)'
    <3>1. CASE j = jobId
      BY <2>1, <2>3, <2>4, <3>1 DEF Joined, Leave
    <3>2. CASE j # jobId
      <4>1. joining'[jobId] = joining[jobId]
        BY <1>0, <2>2, <3>2
      <4>. QED
        BY <2>1, <2>3, <2>4, <3>2, <4>1 DEF Joined, Leave
    <3>. QED
      BY <3>1, <3>2
  <2>5. ASSUME Pending(jobId) PROVE Pending(jobId)'
    BY <2>1, <2>5 DEF Pending, Leave, Join
  <2>. QED
    BY <2>1, <2>4, <2>5 DEF Room
<1>3. ASSUME UNCHANGED <<link, listening, out, joining, rooms, refused, jobId>> PROVE Room'
  BY <1>3 DEF Room, Pending, Joined, Leave, Join
<1>4. CASE SocketTakes
  <2>1. out # <<>> /\ out' = Tail(out) /\ UNCHANGED <<link, listening, jobId, refused>>
    BY <1>4 DEF SocketTakes
  <2>2. DEFINE m == Head(out)
  <2>3. m = out[1] /\ m \in Messages /\ 1 \in DOMAIN out
    BY <1>0, <2>1
  <2>4. out' \in Seq(Messages) /\ \A l \in DOMAIN out' : l + 1 \in DOMAIN out /\ out'[l] = out[l + 1]
    BY <1>0, <2>1
  <2>5. \/ m.op = "leave" /\ rooms' = rooms \ {m.job} /\ joining' = joining
        \/ m.op # "leave" /\ joining' = [joining EXCEPT ![m.job] = @ + 1] /\ rooms' = rooms
    BY <1>4 DEF SocketTakes
  <2>. HIDE DEF m
  <2>6. m.job \in Jobs /\ (m = [op |-> m.op, job |-> m.job])
    BY <2>3 DEF Messages
  <2>7. ASSUME Joined(jobId) PROVE Joined(jobId)'
    <3>1. m # Leave(jobId)
      BY <2>3, <2>7 DEF Joined
    <3>2. \A l \in DOMAIN out' : out'[l] # Leave(jobId')
      BY <2>1, <2>4, <2>7 DEF Joined
    <3>3. CASE m.op = "leave"
      <4>1. m.job # jobId
        BY <2>6, <3>1, <3>3 DEF Leave
      <4>. QED
        BY <2>1, <2>5, <2>7, <3>2, <3>3, <4>1 DEF Joined, Leave
    <3>4. CASE m.op # "leave"
      <4>1. joining' = [joining EXCEPT ![m.job] = @ + 1] /\ rooms' = rooms
        BY <2>5, <3>4
      <4>2. joining[jobId] > 0 => joining'[jobId] > 0
        BY <1>0, <2>6, <4>1
      <4>. QED
        BY <2>1, <2>7, <3>2, <4>1, <4>2 DEF Joined, Leave
    <3>. QED
      BY <3>3, <3>4
  <2>8. ASSUME Pending(jobId) PROVE Pending(jobId)' \/ Joined(jobId)'
    <3>1. PICK k \in DOMAIN out : /\ out[k] = Join(jobId)
                                  /\ \A l \in DOMAIN out : l > k => out[l] # Leave(jobId)
      BY <2>8 DEF Pending
    <3>2. CASE k = 1
      <4>1. m = Join(jobId)
        BY <2>3, <3>1, <3>2
      <4>2. m.op # "leave" /\ m.job = jobId
        BY <4>1 DEF Join
      <4>3. joining'[jobId] > 0
        BY <1>0, <2>5, <4>2
      <4>4. \A l \in DOMAIN out' : out'[l] # Leave(jobId)
        <5>. SUFFICES ASSUME NEW l \in DOMAIN out' PROVE out'[l] # Leave(jobId)
          OBVIOUS
        <5>1. l \in Nat /\ l > 0
          BY <2>4
        <5>. QED
          BY <2>4, <3>1, <3>2, <5>1
      <4>. QED
        BY <2>1, <4>3, <4>4 DEF Joined, Leave
    <3>3. CASE k # 1
      <4>1. k \in Nat /\ k > 1 /\ k <= Len(out)
        BY <1>0, <3>1, <3>3
      <4>2. k - 1 \in DOMAIN out' /\ out'[k - 1] = Join(jobId)
        BY <1>0, <2>1, <3>1, <4>1
      <4>3. \A l \in DOMAIN out' : l > k - 1 => out'[l] # Leave(jobId)
        <5>. SUFFICES ASSUME NEW l \in DOMAIN out', l > k - 1 PROVE out'[l] # Leave(jobId)
          OBVIOUS
        <5>1. l \in Nat /\ l + 1 > k
          BY <2>4, <4>1
        <5>. QED
          BY <2>4, <3>1, <5>1
      <4>. QED
        BY <2>1, <4>2, <4>3 DEF Pending, Leave, Join
    <3>. QED
      BY <3>2, <3>3
  <2>. QED
    BY <2>1, <2>7, <2>8 DEF Room
<1>5. CASE Drop
  BY <1>5 DEF Drop, Room
<1>6. CASE Disconnected
  BY <1>6 DEF Disconnected, Undo, Room
<1>7. CASE Connected \/ HandshakeRefused \/ AttemptsSpent
  BY <1>7 DEF Connected, HandshakeRefused, AttemptsSpent, AttemptEnds, Room
<1>8. CASE Subscribe
  <2>1. link \in {"up", "broken"} /\ UNCHANGED <<link, jobId>> /\ Sends(<<Join(jobId)>>)
    BY <1>8 DEF Subscribe
  <2>2. ASSUME link = "up" PROVE Pending(jobId)'
    <3>1. out' = out \o <<Join(jobId)>>
      BY <2>1, <2>2 DEF Sends
    <3>2. <<Join(jobId)>> \in Seq(Messages)
      BY <1>0 DEF Messages, Join
    <3>3. Len(out') = Len(out) + 1 /\ out'[Len(out) + 1] = Join(jobId) /\ out' \in Seq(Messages)
      BY <1>0, <3>1, <3>2
    <3>4. Len(out) + 1 \in DOMAIN out' /\ \A l \in DOMAIN out' : ~(l > Len(out) + 1)
      BY <1>0, <3>3
    <3>. QED
      BY <2>1, <3>3, <3>4 DEF Pending, Join
  <2>. QED
    BY <2>1, <2>2 DEF Room
<1>9. ASSUME NEW j \in Jobs, NEW p \in Panels, Change(j, p) PROVE Room'
  BY <1>3, <1>9 DEF Change, socket
<1>10. ASSUME NEW n \in news, NewsArrives(n) PROVE Room'
  BY <1>3, <1>10 DEF NewsArrives, socket
<1>11. ASSUME NEW c \in Calls, Answer(c) PROVE Room'
  BY <1>3, <1>11, ServedKeeps DEF Answer, Applied, Fails, socket
<1>12. CASE StopPressed \/ StopAnswered
  BY <1>3, <1>12 DEF StopPressed, StopAnswered, socket
<1>13. CASE UNCHANGED vars
  BY <1>3, <1>13 DEF vars
<1>. QED
  BY <1>1, <1>2, <1>4, <1>5, <1>6, <1>7, <1>8, <1>9, <1>10, <1>11, <1>12, <1>13 DEF Next

\* A page whose socket has settled is in the room of its job, unless the join was
\* refused, after any order of visits, late joins and reconnections.
THEOREM ListeningCorrect == Spec => []Listening
<1>1. Init => Room
  BY DEF Init, Room
<1>. QED
  BY <1>1, RoomStep, RoomImplies, TypeInit, TypeStep, PTL DEF Spec

-----------------------------------------------------------------------------
(* What has been announced.                                                 *)

\* A request of panel p for the page's job that will be answered with version v or later.
Awaited(p, v) ==
    \E c \in Calls : /\ calls[c] > 0 /\ c.panel = p /\ c.job = jobId
                     /\ c.version = 0 \/ c.version >= v

\* Nothing is announced before it is there, and what panel p heard of is there, seen,
\* awaited, or lost with a failed request.
Told ==
    /\ \A n \in news : n.version <= version[n.job][n.panel]
    /\ \A p \in Panels :
          /\ heard[p] <= version[jobId][p]
          /\ p \in failed \/ heard[p] <= seen[p] \/ Awaited(p, heard[p])

LEMMA ToldImplies == Told => AnnouncedFetched
<1>. SUFFICES ASSUME Told, \A c \in Calls : calls[c] = 0, NEW p \in Panels \ failed
              PROVE  heard[p] <= seen[p]
  BY DEF AnnouncedFetched
<1>1. ~Awaited(p, heard[p])
  BY DEF Awaited
<1>. QED
  BY <1>1 DEF Told

\* A step that keeps what is under way, and what was heard and seen, keeps Told.
LEMMA ToldKept ==
    ASSUME TypeOK, Told, UNCHANGED <<jobId, version, heard, seen, failed>>,
           news' \subseteq news, calls' \in [Calls -> Nat],
           \A c \in Calls : calls'[c] >= calls[c]
    PROVE  Told'
<1>1. ASSUME NEW c \in Calls, calls[c] > 0
      PROVE  calls'[c] > 0
  BY <1>1 DEF TypeOK
<1>2. ASSUME NEW p \in Panels, Awaited(p, heard[p]) PROVE Awaited(p, heard[p])'
  BY <1>1, <1>2 DEF Awaited
<1>. QED
  BY <1>2 DEF Told

LEMMA ToldStep == TypeOK /\ Told /\ [Next]_vars => Told'
<1>. SUFFICES ASSUME TypeOK, Told, [Next]_vars PROVE Told'
  OBVIOUS
<1>0. /\ version \in [Jobs -> [Panels -> Nat]] /\ jobId \in Jobs
      /\ heard \in [Panels -> Nat] /\ seen \in [Panels -> Nat]
      /\ calls \in [Calls -> Nat]
      /\ \A n \in news : n.job \in Jobs /\ n.panel \in Panels /\ n.version \in Nat
      /\ \A c \in Calls : c.panel \in Panels /\ c.job \in Jobs /\ c.version \in Nat
  <2>1. \A c \in Calls : c.panel \in Panels /\ c.job \in Jobs /\ c.version \in Nat
    BY JobPageAssumption DEF Calls
  <2>2. version \in [Jobs -> [Panels -> Nat]]
    BY DEF TypeOK
  <2>3. \A n \in news : n.job \in Jobs /\ n.panel \in Panels /\ n.version \in Nat
    BY DEF TypeOK
  <2>. QED
    BY <2>1, <2>2, <2>3 DEF TypeOK
<1>1. ASSUME NEW j \in Jobs, Visit(j) PROVE Told'
  <2>1. UNCHANGED <<version, news>> /\ jobId' = j
    BY <1>1 DEF Visit
  <2>2. \A p \in Panels : heard'[p] = 0 /\ seen'[p] = 0
    BY <1>1 DEF Visit
  <2>. QED
    BY <1>0, <2>1, <2>2 DEF Told
<1>2. ASSUME UNCHANGED <<jobId, version, heard, seen, failed, news, calls>> PROVE Told'
  BY <1>0, <1>2, ToldKept
<1>3. ASSUME NEW j \in Jobs, NEW q \in Panels, Change(j, q) PROVE Told'
  <2>1. /\ version' = [version EXCEPT ![j][q] = @ + 1]
        /\ UNCHANGED <<jobId, heard, seen, failed, calls>>
    BY <1>3 DEF Change, past
  <2>2. \A k \in Jobs, p \in Panels :
           version'[k][p] = IF k = j /\ p = q THEN version[k][p] + 1 ELSE version[k][p]
    BY <1>0, <2>1
  <2>3. ASSUME NEW n \in news' PROVE n.version <= version'[n.job][n.panel]
    <3>1. CASE n \in news
      BY <1>0, <2>2, <3>1 DEF Told
    <3>2. CASE n \notin news
      <4>1. n = [job |-> j, panel |-> q, version |-> version[j][q] + 1]
        BY <1>3, <2>3, <3>2 DEF Change
      <4>2. version'[j][q] = version[j][q] + 1 /\ version[j][q] \in Nat
        BY <1>0, <2>2
      <4>. QED
        BY <4>1, <4>2
    <3>. QED
      BY <3>1, <3>2
  <2>4. \A p \in Panels : heard[p] <= version'[jobId][p]
    BY <1>0, <2>2 DEF Told
  <2>5. \A p \in Panels : Awaited(p, heard[p]) => Awaited(p, heard[p])'
    BY <2>1 DEF Awaited
  <2>. QED
    BY <2>1, <2>3, <2>4, <2>5 DEF Told
<1>4. ASSUME NEW n \in news, NewsArrives(n) PROVE Told'
  <2>1. UNCHANGED <<version, jobId, seen, failed>> /\ news' \subseteq news
    BY <1>4 DEF NewsArrives, past
  <2>2. CASE listening /\ n.job = jobId
    <3>1. /\ Ask(ToFetch(n.panel), jobId)
          /\ heard' = [heard EXCEPT ![n.panel] = Larger(@, n.version)]
      BY <1>4, <2>2 DEF NewsArrives
    <3>2. ToFetch(n.panel) \in SUBSET Panels /\ n.panel \in ToFetch(n.panel)
      BY <1>0 DEF ToFetch, Panels
    <3>3. calls' \in [Calls -> Nat] /\ \A c \in Calls : calls'[c] >= calls[c]
      BY <1>0, <3>1, <3>2, AskAdds
    <3>4. \A c \in Calls : calls[c] > 0 => calls'[c] > 0
      BY <1>0, <3>3
    <3>5. Call(n.panel, jobId) \in Calls /\ calls'[Call(n.panel, jobId)] > 0
      BY <1>0, <3>1, <3>2, AskAdds
    <3>6. ASSUME NEW p \in Panels
          PROVE  /\ heard'[p] <= version'[jobId'][p]
                 /\ p \in failed' \/ heard'[p] <= seen'[p] \/ Awaited(p, heard[p])'
      <4>1. CASE p = n.panel
        <5>1. heard'[p] = Larger(heard[p], n.version)
          BY <1>0, <3>1, <4>1
        <5>2. heard'[p] <= version[jobId][p]
          BY <1>0, <2>2, <4>1, <5>1 DEF Told, Larger
        <5>3. Awaited(p, heard[p])'
          BY <2>1, <3>5, <4>1 DEF Awaited, Call
        <5>. QED
          BY <2>1, <5>2, <5>3
      <4>2. CASE p # n.panel
        <5>1. heard'[p] = heard[p]
          BY <1>0, <3>1, <4>2
        <5>2. Awaited(p, heard[p]) => Awaited(p, heard[p])'
          BY <2>1, <3>4, <5>1 DEF Awaited
        <5>. QED
          BY <2>1, <5>1, <5>2 DEF Told
      <4>. QED
        BY <4>1, <4>2
    <3>. QED
      BY <2>1, <3>6 DEF Told
  <2>3. CASE ~(listening /\ n.job = jobId)
    <3>1. UNCHANGED <<calls, heard>>
      BY <1>4, <2>3 DEF NewsArrives
    <3>. QED
      BY <1>0, <2>1, <3>1, ToldKept
  <2>. QED
    BY <2>2, <2>3
<1>5. ASSUME NEW c \in Calls, Served(c) PROVE Told'
  <2>1. UNCHANGED <<version, jobId, news, heard, seen, failed>>
    BY <1>5, ServedKeeps DEF past
  <2>2. PICK d \in Calls : /\ d.panel = c.panel /\ d.job = c.job
                           /\ d.version = version[c.job][c.panel] /\ calls'[d] > 0
    BY <1>5, ServedKeeps
  <2>3. \A w \in Calls \ {c} : calls[w] > 0 => calls'[w] > 0
    BY <1>0, <1>5, ServedKeeps
  <2>4. ASSUME NEW p \in Panels, Awaited(p, heard[p]) PROVE Awaited(p, heard[p])'
    <3>1. PICK w \in Calls : /\ calls[w] > 0 /\ w.panel = p /\ w.job = jobId
                             /\ w.version = 0 \/ w.version >= heard[p]
      BY <2>4 DEF Awaited
    <3>2. CASE w = c
      <4>1. d.version >= heard[p]
        BY <1>0, <2>2, <3>1, <3>2 DEF Told
      <4>. QED
        BY <2>1, <2>2, <3>1, <3>2, <4>1 DEF Awaited
    <3>3. CASE w # c
      <4>1. calls'[w] > 0
        BY <2>3, <3>1, <3>3
      <4>. QED
        BY <2>1, <3>1, <4>1 DEF Awaited
    <3>. QED
      BY <3>2, <3>3
  <2>. QED
    BY <2>1, <2>4 DEF Told
<1>6. ASSUME NEW c \in Calls, Applied(c) PROVE Told'
  <2>1. UNCHANGED <<version, jobId, news, heard, failed>>
    BY <1>6 DEF Applied
  <2>2. \A w \in Calls \ {c} : calls'[w] = calls[w]
    BY <1>6, EndKeeps
  <2>3. \A p \in Panels : seen'[p] >= seen[p]
    BY <1>0, <1>6 DEF Applied, Larger
  <2>4. ASSUME NEW p \in Panels, Awaited(p, heard[p])
        PROVE  heard'[p] <= seen'[p] \/ Awaited(p, heard[p])'
    <3>1. PICK w \in Calls : /\ calls[w] > 0 /\ w.panel = p /\ w.job = jobId
                             /\ w.version = 0 \/ w.version >= heard[p]
      BY <2>4 DEF Awaited
    <3>2. CASE w = c
      <4>1. seen' = [seen EXCEPT ![p] = Larger(@, c.version)] /\ c.version > 0
        BY <1>6, <3>1, <3>2 DEF Applied, Mine
      <4>2. c.version >= heard[p]
        BY <1>0, <3>1, <3>2, <4>1
      <4>3. seen'[p] = Larger(seen[p], c.version)
        BY <1>0, <4>1
      <4>. QED
        BY <1>0, <2>1, <4>2, <4>3 DEF Larger
    <3>3. CASE w # c
      BY <2>1, <2>2, <3>1, <3>3 DEF Awaited
    <3>. QED
      BY <3>2, <3>3
  <2>5. seen' \in [Panels -> Nat]
    BY <1>0, <1>6 DEF Applied, Larger
  <2>6. ASSUME NEW p \in Panels, heard[p] <= seen[p] PROVE heard'[p] <= seen'[p]
    BY <1>0, <2>1, <2>3, <2>5, <2>6
  <2>. QED
    BY <2>1, <2>4, <2>6 DEF Told
<1>7. ASSUME NEW c \in Calls, Fails(c) PROVE Told'
  <2>1. UNCHANGED <<version, jobId, news, heard, seen>>
    BY <1>7 DEF Fails
  <2>2. \A w \in Calls \ {c} : calls'[w] = calls[w]
    BY <1>7, EndKeeps
  <2>3. failed' = IF c.job = jobId THEN failed \cup {c.panel} ELSE failed
    BY <1>7 DEF Fails, Mine
  <2>4. ASSUME NEW p \in Panels, Awaited(p, heard[p])
        PROVE  p \in failed' \/ Awaited(p, heard[p])'
    <3>1. PICK w \in Calls : /\ calls[w] > 0 /\ w.panel = p /\ w.job = jobId
                             /\ w.version = 0 \/ w.version >= heard[p]
      BY <2>4 DEF Awaited
    <3>2. CASE w = c
      BY <2>3, <3>1, <3>2
    <3>3. CASE w # c
      BY <2>1, <2>2, <3>1, <3>3 DEF Awaited
    <3>. QED
      BY <3>2, <3>3
  <2>. QED
    BY <2>1, <2>3, <2>4 DEF Told
<1>8. CASE StopAnswered
  <2>1. UNCHANGED <<version, jobId, news, heard, seen, failed>>
    BY <1>8 DEF StopAnswered, past
  <2>2. stopping \in Jobs /\ {"job"} \in SUBSET Panels
    BY <1>8 DEF StopAnswered, TypeOK, Panels
  <2>3. CASE Ask({"job"}, stopping)
    <3>1. calls' \in [Calls -> Nat] /\ \A c \in Calls : calls'[c] >= calls[c]
      BY <2>2, <2>3, AskAdds
    <3>. QED
      BY <2>1, <3>1, ToldKept
  <2>4. CASE UNCHANGED calls
    BY <1>2, <2>1, <2>4
  <2>. QED
    BY <1>8, <2>3, <2>4 DEF StopAnswered
<1>9. CASE Drop
  <2>1. UNCHANGED <<jobId, version, heard, seen, failed, calls>> /\ news' \subseteq news
    BY <1>9 DEF Drop, past
  <2>. QED
    BY <1>0, <2>1, ToldKept
<1>10. ASSUME NEW j \in Jobs, JoinEnds(j) PROVE Told'
  BY <1>2, <1>10 DEF JoinEnds, past
<1>11. CASE StopPressed \/ SocketTakes \/ Disconnected \/ Subscribe
  BY <1>2, <1>11 DEF StopPressed, SocketTakes, Disconnected, Subscribe, past
<1>12. CASE Connected \/ HandshakeRefused \/ AttemptsSpent
  BY <1>2, <1>12 DEF Connected, HandshakeRefused, AttemptsSpent, AttemptEnds, past
<1>13. CASE UNCHANGED vars
  BY <1>2, <1>13 DEF vars
<1>. QED
  BY <1>1, <1>3, <1>4, <1>5, <1>6, <1>7, <1>8, <1>9, <1>10, <1>11, <1>12, <1>13 DEF Next, Answer

\* What was announced to the page has been fetched once nothing is under way, unless a
\* request failed: an announcement always starts a request, which is served after it.
THEOREM AnnouncedFetchedCorrect == Spec => []AnnouncedFetched
<1>1. Init => Told
  <2>. SUFFICES ASSUME Init PROVE Told
    OBVIOUS
  <2>1. TypeOK
    BY TypeInit
  <2>2. \A p \in Panels : heard[p] = 0 /\ seen[p] = 0 /\ version[jobId][p] = 1
    BY DEF Init
  <2>3. news = {}
    BY DEF Init
  <2>. QED
    BY <2>2, <2>3 DEF Told
<1>. QED
  BY <1>1, ToldStep, ToldImplies, TypeInit, TypeStep, PTL DEF Spec
=============================================================================
