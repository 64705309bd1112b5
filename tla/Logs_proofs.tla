---------------------------- MODULE Logs_proofs ----------------------------
(* Proofs about Logs: what the streamer stores and what the page shows, for *)
(* any numbers of lines, any batches and any number of late requests.       *)
EXTENDS Logs, FiniteSetTheorems, SequenceTheorems, TLAPS

-----------------------------------------------------------------------------
(* Types.                                                                   *)

Fetches == [from: Nat, rows: SUBSET Nat, answered: BOOLEAN]

Types ==
    /\ StreamTypeOK /\ IsFiniteSet(late)
    /\ announced \in BOOLEAN
    /\ shown \subseteq Nat /\ next \in Nat
    /\ fetches \subseteq Fetches
    /\ pending \in Kinds

LEMMA TypesImply == Types => TypeOK
  BY DEF Types, TypeOK, Fetches

LEMMA Constants ==
    /\ Lines \in Nat /\ MaxLate \in Nat /\ MaxStored \in Nat /\ PageLimit \in Nat
    /\ MaxBuffer \in Nat /\ MaxBuffer > 0 /\ BatchSize \in Nat /\ BatchSize > 0 /\ PageLimit > 0
  BY StreamerAssumption, PageAssumption

LEMMA TypesInit == Init => Types
<1>1. IsFiniteSet({}) /\ Cardinality({}) = 0
  BY FS_EmptySet
<1>2. <<>> \in Seq(Numbers) /\ Len(<<>>) = 0
  OBVIOUS
<1>3. ASSUME Init PROVE StreamTypeOK /\ IsFiniteSet(late)
  <2>1. /\ written = 0 /\ ended = FALSE /\ read = 0 /\ reading = TRUE
        /\ buffer = <<>> /\ stop = "no" /\ late = {} /\ stored = <<>>
        /\ post = [at |-> "none", batch |-> <<>>]
    BY <1>3 DEF Init, StreamInit, NoPost
  <2>2. 0 \in 0..Lines
    BY Constants
  <2>3. post \in [at: {"none", "sent", "ok", "failed"}, batch: Seq(Numbers)]
    BY <1>2, <2>1
  <2>4. {written, read} \subseteq 0..Lines /\ {ended, reading} \subseteq BOOLEAN
    BY <2>1, <2>2
  <2>5. late \subseteq Seq(Numbers) /\ IsFiniteSet(late) /\ Cardinality(late) <= MaxLate
    BY <1>1, <2>1, Constants
  <2>6. /\ buffer \in Seq(Numbers) /\ Len(buffer) <= MaxBuffer
        /\ stored \in Seq(Numbers) /\ Len(stored) <= MaxStored
    BY <1>2, <2>1, Constants
  <2>. QED
    BY <2>1, <2>3, <2>4, <2>5, <2>6 DEF StreamTypeOK
<1>4. ASSUME Init PROVE fetches \subseteq Fetches /\ shown = {} /\ next = 0 /\ pending \in Kinds
                        /\ announced = FALSE
  BY <1>4 DEF Init, Fetches, Request, Kinds
<1>. QED
  BY <1>3, <1>4 DEF Types

\* The sequences that the streamer cuts and joins.
LEMMA Cut ==
    ASSUME NEW S, NEW s \in Seq(S), NEW m \in Nat
    PROVE  /\ m <= Len(s) => /\ SubSeq(s, 1, m) \in Seq(S) /\ Len(SubSeq(s, 1, m)) = m
                             /\ \A i \in 1..m : SubSeq(s, 1, m)[i] = s[i]
                             /\ SubSeq(s, m + 1, Len(s)) \in Seq(S)
                             /\ Len(SubSeq(s, m + 1, Len(s))) = Len(s) - m
                             /\ \A i \in 1..(Len(s) - m) : SubSeq(s, m + 1, Len(s))[i] = s[m + i]
           /\ m > Len(s) => SubSeq(s, m + 1, Len(s)) = <<>>
<1>1. ASSUME m <= Len(s)
      PROVE  /\ SubSeq(s, 1, m) \in Seq(S) /\ Len(SubSeq(s, 1, m)) = m
             /\ \A i \in 1..m : SubSeq(s, 1, m)[i] = s[i]
  BY <1>1, SubSeqProperties
<1>2. ASSUME m <= Len(s)
      PROVE  /\ SubSeq(s, m + 1, Len(s)) \in Seq(S)
             /\ Len(SubSeq(s, m + 1, Len(s))) = Len(s) - m
             /\ \A i \in 1..(Len(s) - m) : SubSeq(s, m + 1, Len(s))[i] = s[m + i]
  BY <1>2, SubSeqProperties
<1>3. m > Len(s) => SubSeq(s, m + 1, Len(s)) = <<>>
  BY SubSeqEmpty
<1>. QED
  BY <1>1, <1>2, <1>3

\* A step of the streamer and its network keeps the types.
LEMMA StreamTypes == Types /\ StreamStep => Types'
<1>. SUFFICES ASSUME Types, StreamStep PROVE Types'
  OBVIOUS
<1>0. /\ written \in 0..Lines /\ read \in 0..Lines /\ ended \in BOOLEAN /\ reading \in BOOLEAN
      /\ buffer \in Seq(Numbers) /\ Len(buffer) \in Nat /\ Len(buffer) <= MaxBuffer
      /\ post.at \in {"none", "sent", "ok", "failed"} /\ post.batch \in Seq(Numbers)
      /\ post = [at |-> post.at, batch |-> post.batch]
      /\ late \subseteq Seq(Numbers) /\ IsFiniteSet(late) /\ Cardinality(late) <= MaxLate
      /\ stored \in Seq(Numbers) /\ Len(stored) <= MaxStored
  BY DEF Types, StreamTypeOK
<1>1. announced' \in BOOLEAN /\ UNCHANGED <<shown, next, fetches, pending>> /\ StreamNext
  BY DEF StreamStep, Announce, Types
<1>. SUFFICES StreamTypeOK' /\ IsFiniteSet(late)'
  BY <1>1 DEF Types
<1>2. CASE Write \/ ContainerEnds
  <2>1. written' \in 0..Lines /\ ended' \in BOOLEAN
    <3>1. CASE Write
      BY <1>0, <3>1, Constants DEF Write
    <3>2. CASE ContainerEnds
      BY <1>0, <3>2 DEF ContainerEnds
    <3>. QED
      BY <1>2, <3>1, <3>2
  <2>2. UNCHANGED <<read, reading, buffer, stop, post, late, stored>>
    BY <1>2 DEF Write, ContainerEnds
  <2>. QED
    BY <2>1, <2>2 DEF StreamTypeOK, Types
<1>3. CASE ReadLine
  <2>1. read < written /\ read' = read + 1 /\ buffer' = Buffered(read + 1)
    BY <1>3 DEF ReadLine, LineThere
  <2>2. read + 1 \in Numbers /\ read' \in 0..Lines
    BY <1>0, <2>1, Constants DEF Numbers
  <2>3. buffer' \in Seq(Numbers) /\ Len(buffer') <= MaxBuffer
    <3>1. CASE Len(buffer) >= MaxBuffer
      <4>1. buffer # <<>>
        BY <1>0, <3>1, Constants
      <4>2. Tail(buffer) \in Seq(Numbers) /\ Len(Tail(buffer)) = Len(buffer) - 1
        BY <1>0, <4>1, HeadTailProperties
      <4>3. buffer' = Append(Tail(buffer), read + 1)
        BY <2>1, <3>1 DEF Buffered
      <4>. QED
        BY <1>0, <2>2, <4>2, <4>3, Constants
    <3>2. CASE ~(Len(buffer) >= MaxBuffer)
      BY <1>0, <2>1, <2>2, <3>2, Constants DEF Buffered
    <3>. QED
      BY <3>1, <3>2
  <2>. QED
    BY <1>0, <1>3, <2>2, <2>3 DEF ReadLine, StreamTypeOK
<1>4. CASE ReadEnds \/ StopNext
  BY <1>0, <1>4 DEF ReadEnds, StopNext, StopCalled, Joined, FinalLoopEnds, StreamTypeOK, Types
<1>5. CASE Flush
  <2>. DEFINE n == Min2(BatchSize, Len(buffer))
  <2>1. n \in Nat /\ n <= Len(buffer)
    BY <1>0, Constants DEF Min2
  <2>2. SubSeq(buffer, 1, n) \in Seq(Numbers)
    BY <1>0, <2>1, Cut
  <2>. QED
    BY <1>0, <1>5, <2>2 DEF Flush, StreamTypeOK, Types
<1>6. CASE FlushSucceeds
  <2>. DEFINE m == Len(post.batch)
  <2>1. m \in Nat /\ buffer' = SubSeq(buffer, m + 1, Len(buffer))
    BY <1>0, <1>6 DEF FlushSucceeds, Trim
  <2>2. buffer' \in Seq(Numbers) /\ Len(buffer') <= MaxBuffer
    <3>. HIDE DEF m
    <3>1. CASE m <= Len(buffer)
      <4>1. SubSeq(buffer, m + 1, Len(buffer)) \in Seq(Numbers)
            /\ Len(SubSeq(buffer, m + 1, Len(buffer))) = Len(buffer) - m
        BY <1>0, <2>1, <3>1, Cut
      <4>2. m \in Nat /\ Len(buffer) - m <= MaxBuffer
        BY <1>0, <2>1, Constants
      <4>. QED
        BY <2>1, <4>1, <4>2
    <3>2. CASE m > Len(buffer)
      <4>1. buffer' = <<>>
        BY <1>0, <2>1, <3>2, Cut
      <4>. QED
        BY <4>1, Constants
    <3>. QED
      BY <1>0, <2>1, <3>1, <3>2
  <2>. QED
    BY <1>0, <1>6, <2>2 DEF FlushSucceeds, StreamTypeOK, Types, NoPost
<1>7. CASE FlushFails
  BY <1>0, <1>7 DEF FlushFails, StreamTypeOK, Types, NoPost
<1>8. CASE PostServed
  <2>1. stored' = stored \o post.batch /\ Len(stored) + Len(post.batch) <= MaxStored
    BY <1>8 DEF PostServed, Insert, Fits
  <2>2. stored' \in Seq(Numbers) /\ Len(stored') <= MaxStored
    BY <1>0, <2>1
  <2>. QED
    BY <1>0, <1>8, <2>2 DEF PostServed, StreamTypeOK, Types
<1>9. CASE PostRefused
  BY <1>0, <1>9 DEF PostRefused, StreamTypeOK, Types
<1>10. CASE PostTimesOut
  <2>1. CASE late' = late
    BY <1>0, <1>10, <2>1 DEF PostTimesOut, StreamTypeOK, Types
  <2>2. CASE Cardinality(late) < MaxLate /\ late' = late \cup {post.batch}
    <3>0. Cardinality(late) \in Nat
      BY <1>0, FS_CardinalityType
    <3>1. IsFiniteSet(late') /\ Cardinality(late') <= Cardinality(late) + 1
      <4>1. /\ IsFiniteSet(late \cup {post.batch})
            /\ Cardinality(late \cup {post.batch}) =
                 IF post.batch \in late THEN Cardinality(late) ELSE Cardinality(late) + 1
        BY <1>0, FS_AddElement
      <4>. QED
        BY <2>2, <3>0, <4>1
    <3>2. Cardinality(late') \in Nat
      BY <3>1, FS_CardinalityType
    <3>3. Cardinality(late') <= MaxLate /\ late' \subseteq Seq(Numbers)
      BY <1>0, <2>2, <3>0, <3>1, <3>2, Constants
    <3>. QED
      BY <1>0, <1>10, <3>1, <3>3 DEF PostTimesOut, StreamTypeOK, Types
  <2>. QED
    BY <1>10, <2>1, <2>2 DEF PostTimesOut
<1>11. CASE LatePostServed
  <2>1. PICK batch \in late : Fits(batch) /\ stored' = Insert(batch) /\ late' = late \ {batch}
    BY <1>11 DEF LatePostServed
  <2>2. stored' \in Seq(Numbers) /\ Len(stored') <= MaxStored
    BY <1>0, <2>1 DEF Insert, Fits
  <2>3. IsFiniteSet(late') /\ Cardinality(late') <= MaxLate
    <3>1. IsFiniteSet(late') /\ Cardinality(late') <= Cardinality(late)
      BY <1>0, <2>1, FS_Subset
    <3>2. Cardinality(late') \in Nat /\ Cardinality(late) \in Nat
      BY <1>0, <3>1, FS_CardinalityType
    <3>. QED
      BY <1>0, <3>1, <3>2, Constants
  <2>. QED
    BY <1>0, <1>11, <2>1, <2>2, <2>3 DEF LatePostServed, StreamTypeOK, Types
<1>. QED
  BY <1>1, <1>2, <1>3, <1>4, <1>5, <1>6, <1>7, <1>8, <1>9, <1>10, <1>11
     DEF StreamNext, FlushNext, Network

-----------------------------------------------------------------------------
(* The page.                                                                *)

\* The rows of an answer follow on where the request asked from.
Answers(f, n) == f.rows = (f.from + 1)..(f.from + n) /\ f.from + n <= Len(stored)

\* One request is under way, for all rows or for those after the ones shown.
Single ==
    /\ shown = 1..next /\ next <= Len(stored)
    /\ \A f, g \in fetches : f = g
    /\ \A f \in fetches :
          /\ f.from \in {0, next}
          /\ f.answered => \E n \in Nat : Answers(f, n)

\* A request that goes out is the only one, if it was asked for the right rows.
LEMMA FetchSingle ==
    ASSUME Types, Single, NEW kind \in {"incremental", "full"}, NEW after \in {0, next},
           Fetch(kind, after), UNCHANGED <<stored, shown, next>>
    PROVE  fetches' \subseteq Fetches /\ pending' \in Kinds /\ Single'
<1>1. CASE fetches # {}
  BY <1>1 DEF Fetch, UnderWay, Types, Single, Answers, Kinds
<1>2. CASE fetches = {}
  <2>1. fetches' = {[from |-> after, rows |-> {}, answered |-> FALSE]} /\ pending' = pending
    BY <1>2 DEF Fetch, UnderWay, Request
  <2>2. after \in Nat
    BY DEF Types
  <2>. QED
    BY <2>1, <2>2 DEF Types, Single, Answers, Fetches
<1>. QED
  BY <1>1, <1>2

\* Once the only request has ended, the next one is for rows that follow on.
LEMMA ContinueSingle ==
    ASSUME Types, Single, NEW f \in fetches, next' \in Nat, Continue(f, next'),
           shown' = 1..next', next' <= Len(stored), stored' = stored
    PROVE  fetches' \subseteq Fetches /\ pending' \in Kinds /\ Single'
<1>1. fetches \ {f} = {}
  BY DEF Single
<1>2. \/ fetches' = {}
      \/ \E n \in {0, next'} : fetches' = {[from |-> n, rows |-> {}, answered |-> FALSE]}
  BY <1>1 DEF Continue, Request, Types, Kinds
<1>3. CASE fetches' = {}
  BY <1>3 DEF Continue, Kinds, Single
<1>4. CASE \E n \in {0, next'} : fetches' = {[from |-> n, rows |-> {}, answered |-> FALSE]}
  <2>1. PICK n \in {0, next'} : fetches' = {[from |-> n, rows |-> {}, answered |-> FALSE]}
    BY <1>4
  <2>2. fetches' \subseteq Fetches
    BY <2>1 DEF Fetches
  <2>3. \A g \in fetches' : g.from = n /\ g.answered = FALSE
    BY <2>1
  <2>4. \A g, h \in fetches' : g = h
    BY <2>1
  <2>. QED
    BY <2>1, <2>2, <2>3, <2>4 DEF Continue, Kinds, Single
<1>. QED
  BY <1>2, <1>3, <1>4

\* What the page does keeps its types and its single request.
LEMMA PageStep == Types /\ Single /\ PageNext => Types' /\ Single'
<1>. SUFFICES ASSUME Types, Single, PageNext PROVE Types' /\ Single'
  OBVIOUS
<1>0. /\ next \in Nat /\ shown \subseteq Nat /\ announced \in BOOLEAN /\ fetches \subseteq Fetches
      /\ stored \in Seq(Numbers)
  BY DEF Types, StreamTypeOK
<1>1. UNCHANGED streamVars
  BY DEF PageNext, HandleLog, Refresh, FetchServed, FetchApplied, FetchFails
<1>2. StreamTypeOK' /\ IsFiniteSet(late)' /\ stored' = stored
  BY <1>1 DEF Types, StreamTypeOK, streamVars
<1>. SUFFICES /\ announced' \in BOOLEAN /\ shown' \subseteq Nat /\ next' \in Nat
              /\ fetches' \subseteq Fetches /\ pending' \in Kinds /\ Single'
  BY <1>2 DEF Types
<1>3. CASE HandleLog
  <2>1. announced' \in BOOLEAN /\ UNCHANGED <<shown, next>> /\ Fetch("incremental", next)
    BY <1>3 DEF HandleLog
  <2>. QED
    BY <1>0, <1>2, <2>1, FetchSingle
<1>4. CASE Refresh
  <2>1. UNCHANGED <<announced, shown, next>> /\ Fetch("full", 0)
    BY <1>4 DEF Refresh
  <2>. QED
    BY <1>0, <1>2, <2>1, FetchSingle
<1>5. CASE FetchServed
  <2>1. PICK f \in fetches :
          fetches' = (fetches \ {f}) \cup
              {[from |-> f.from, answered |-> TRUE,
                rows |-> (f.from + 1)..Min2(f.from + PageLimit, Len(stored))]}
    BY <1>5 DEF FetchServed
  <2>2. UNCHANGED <<announced, shown, next, pending>>
    BY <1>5 DEF FetchServed
  <2>3. fetches \ {f} = {} /\ f.from \in {0, next} /\ f \in Fetches /\ next <= Len(stored)
    BY <1>0 DEF Single
  <2>. DEFINE m == Min2(f.from + PageLimit, Len(stored))
  <2>4. m \in Nat /\ m >= f.from /\ m <= Len(stored) /\ f.from \in Nat
    BY <1>0, <2>3, Constants DEF Min2, Fetches
  <2>5. PICK n \in Nat : m = f.from + n
    <3>. HIDE DEF m
    <3>. QED
      <4>1. m - f.from \in Nat /\ m = f.from + (m - f.from)
        BY <2>4
      <4>. QED
        BY <4>1
  <2>6. PICK g \in Fetches : /\ fetches' = {g} /\ g.from = f.from /\ g.answered = TRUE
                             /\ g.rows = (f.from + 1)..(f.from + n)
    <3>1. fetches' = {[from |-> f.from, rows |-> (f.from + 1)..m, answered |-> TRUE]}
      BY <2>1, <2>3
    <3>2. [from |-> f.from, rows |-> (f.from + 1)..(f.from + n), answered |-> TRUE] \in Fetches
      BY <2>4 DEF Fetches
    <3>. QED
      BY <2>5, <3>1, <3>2
  <2>7. f.from + n <= Len(stored')
    BY <1>2, <2>4, <2>5
  <2>8. \A h \in fetches' : h.from \in {0, next'} /\ Answers(h, n)'
    BY <2>2, <2>3, <2>6, <2>7 DEF Answers
  <2>9. Single'
    BY <1>2, <2>2, <2>6, <2>8 DEF Single
  <2>. QED
    BY <1>0, <2>2, <2>6, <2>9 DEF Types
<1>6. CASE FetchApplied
  <2>1. PICK f \in fetches :
          /\ f.answered
          /\ shown' = IF f.from = 0 THEN f.rows ELSE shown \cup f.rows
          /\ next' = f.from + Cardinality(f.rows)
          /\ Continue(f, next')
    BY <1>6 DEF FetchApplied
  <2>2. PICK n \in Nat : Answers(f, n)
    BY <2>1 DEF Single
  <2>3. f.from \in {0, next} /\ f.from \in Nat
    BY <1>0 DEF Single, Fetches
  <2>4. Cardinality(f.rows) = n
    <3>1. f.from + 1 \in Int /\ f.from + n \in Int
      BY <2>3
    <3>2. Cardinality((f.from + 1)..(f.from + n)) = IF f.from + 1 > f.from + n THEN 0 ELSE (f.from + n) - (f.from + 1) + 1
      BY <3>1, FS_Interval
    <3>. QED
      BY <2>2, <2>3, <3>2 DEF Answers
  <2>5. next' = f.from + n /\ next' \in Nat /\ next' <= Len(stored)
    BY <2>1, <2>2, <2>3, <2>4 DEF Answers
  <2>6. shown' = 1..next'
    <3>1. CASE f.from = 0
      BY <2>1, <2>2, <2>5, <3>1 DEF Answers
    <3>2. CASE f.from # 0
      <4>1. f.from = next /\ shown' = 1..next \cup (next + 1)..(next + n)
        BY <2>1, <2>2, <2>3, <3>2 DEF Answers, Single
      <4>. QED
        BY <1>0, <2>5, <4>1
    <3>. QED
      BY <3>1, <3>2
  <2>7. fetches' \subseteq Fetches /\ pending' \in Kinds /\ Single'
    BY <1>2, <2>1, <2>5, <2>6, ContinueSingle
  <2>8. announced' = announced
    BY <1>6 DEF FetchApplied
  <2>. QED
    BY <1>0, <2>5, <2>6, <2>7, <2>8
<1>7. CASE FetchFails
  <2>1. PICK f \in fetches : Continue(f, next)
    BY <1>7 DEF FetchFails
  <2>2. UNCHANGED <<announced, shown, next>>
    BY <1>7 DEF FetchFails
  <2>3. Continue(f, next') /\ next' \in Nat /\ shown' = 1..next' /\ next' <= Len(stored)
    BY <1>0, <2>1, <2>2 DEF Single
  <2>. QED
    BY <1>0, <1>2, <2>2, <2>3, ContinueSingle
<1>. QED
  BY <1>3, <1>4, <1>5, <1>6, <1>7 DEF PageNext

\* The table only grows.
LEMMA TableGrows ==
    ASSUME Types, StreamStep
    PROVE  Len(stored') >= Len(stored)
<1>1. stored \in Seq(Numbers) /\ post.batch \in Seq(Numbers) /\ late \subseteq Seq(Numbers)
  BY DEF Types, StreamTypeOK
<1>2. CASE stored' = stored
  BY <1>1, <1>2
<1>3. CASE PostServed
  BY <1>1, <1>3 DEF PostServed, Insert
<1>4. CASE LatePostServed
  BY <1>1, <1>4 DEF LatePostServed, Insert
<1>. QED
  BY <1>2, <1>3, <1>4
     DEF StreamStep, StreamNext, StopNext, FlushNext, Network, Write, ContainerEnds, ReadLine,
         ReadEnds, StopCalled, Joined, FinalLoopEnds, Flush, FlushSucceeds, FlushFails,
         PostRefused, PostTimesOut

LEMMA PageInv == Types /\ Single /\ [Next]_vars => Types' /\ Single'
<1>. SUFFICES ASSUME Types, Single, [Next]_vars PROVE Types' /\ Single'
  OBVIOUS
<1>1. CASE StreamStep
  <2>1. Types' /\ Len(stored') >= Len(stored) /\ UNCHANGED <<shown, next, fetches>>
    BY <1>1, StreamTypes, TableGrows DEF StreamStep
  <2>2. /\ stored \in Seq(Numbers) /\ stored' \in Seq(Numbers) /\ next \in Nat
        /\ fetches \subseteq Fetches
    BY <2>1 DEF Types, StreamTypeOK
  <2>3. Len(stored) \in Nat /\ Len(stored') \in Nat
    BY <2>2
  <2>4. ASSUME NEW f \in fetches, NEW n \in Nat, Answers(f, n) PROVE Answers(f, n)'
    BY <2>1, <2>2, <2>3, <2>4 DEF Answers, Fetches
  <2>. QED
    BY <2>1, <2>2, <2>3, <2>4 DEF Single
<1>2. CASE PageNext
  BY <1>2, PageStep
<1>3. CASE UNCHANGED vars
  BY <1>3 DEF vars, Types, StreamTypeOK, Single, Answers
<1>. QED
  BY <1>1, <1>2, <1>3 DEF Next

LEMMA PageInit == Init => Single
  BY DEF Init, Single, Request, StreamInit

\* The streamer, the table and the page keep their types.
THEOREM TypeCorrect == Spec => []TypeOK
  BY TypesInit, PageInit, PageInv, TypesImply, PTL DEF Spec

\* The page shows the table from the beginning without a hole, for pages of any size.
THEOREM ShownGaplessCorrect == Spec => []ShownGapless
<1>1. Single => ShownGapless
  BY DEF Single, ShownGapless
<1>. QED
  BY <1>1, TypesInit, PageInit, PageInv, PTL DEF Spec

-----------------------------------------------------------------------------
(* The lines, as long as the buffer does not overflow.                      *)

\* The lines from b + 1 on, without a hole.
Run(q, b) == \A i \in 1..Len(q) : q[i] = b + i

Base == read - Len(buffer)

\* The lines up to b are stored.
StoredTo(b) == \A line \in 1..b : \E k \in 1..Len(stored) : stored[k] = line

\* The buffer holds the last lines that were read, and a batch in flight its first
\* ones; what is not in the buffer is stored; a late batch begins where the table,
\* or what lies before in it, has got to.
InTransit ==
    /\ Base \in Nat /\ Run(buffer, Base) /\ StoredTo(Base)
    /\ post.at = "none" => post.batch = <<>>
    /\ Len(post.batch) <= Len(buffer) /\ Run(post.batch, Base)
    /\ post.at = "ok" => StoredTo(Base + Len(post.batch))
    /\ \A batch \in late : \E b \in 0..Base : Run(batch, b)
    /\ StoredInOrder

LEMMA InTransitImplies == Types /\ InTransit => NothingLost /\ StoredInOrder
<1>. SUFFICES ASSUME Types, InTransit, NEW line \in 1..read
              PROVE  line \in ToSet(buffer) \cup ToSet(stored)
  BY DEF InTransit, NothingLost, Taken
<1>1. buffer \in Seq(Numbers) /\ stored \in Seq(Numbers) /\ read \in Nat
  BY Constants DEF Types, StreamTypeOK
<1>2. Base \in Nat /\ Base = read - Len(buffer)
  BY DEF InTransit, Base
<1>3. CASE line <= Base
  <2>1. line \in 1..Base
    BY <1>1, <1>2, <1>3
  <2>2. PICK k \in 1..Len(stored) : stored[k] = line
    BY <2>1 DEF InTransit, StoredTo
  <2>. QED
    BY <1>1, <2>2 DEF ToSet
<1>4. CASE line > Base
  <2>1. line - Base \in 1..Len(buffer)
    BY <1>1, <1>2, <1>4
  <2>2. buffer[line - Base] = Base + (line - Base)
    BY <2>1 DEF InTransit, Run
  <2>3. buffer[line - Base] = line
    BY <1>1, <1>2, <2>2
  <2>. QED
    BY <1>1, <2>1, <2>3 DEF ToSet
<1>. QED
  BY <1>1, <1>2, <1>3, <1>4

\* A batch that continues what is stored is appended in order.
LEMMA InsertInOrder ==
    ASSUME stored \in Seq(Numbers), StoredInOrder, NEW batch \in Seq(Numbers), NEW b \in Nat,
           Run(batch, b), StoredTo(b), stored' = stored \o batch
    PROVE  /\ StoredInOrder'
           /\ StoredTo(b + Len(batch))'
           /\ \A c \in Nat : StoredTo(c) => StoredTo(c)'
<1>0. /\ Len(stored) \in Nat /\ Len(batch) \in Nat /\ stored' \in Seq(Numbers)
      /\ Len(stored') = Len(stored) + Len(batch)
      /\ \A i \in 1..Len(stored) : stored'[i] = stored[i]
      /\ \A i \in 1..Len(batch) : stored'[Len(stored) + i] = batch[i]
  OBVIOUS
<1>1. \A i \in 1..Len(batch) : stored'[Len(stored) + i] = b + i
  BY <1>0 DEF Run
<1>2. \A line \in 1..b : \E k \in 1..Len(stored) : stored'[k] = line
  BY <1>0 DEF StoredTo
<1>3. ASSUME NEW c \in Nat, StoredTo(c) PROVE StoredTo(c)'
  BY <1>0, <1>3 DEF StoredTo
<1>4. StoredTo(b + Len(batch))'
  <2>. SUFFICES ASSUME NEW line \in 1..(b + Len(batch))
                PROVE  \E k \in 1..Len(stored') : stored'[k] = line
    BY DEF StoredTo
  <2>1. CASE line <= b
    BY <1>0, <1>2, <2>1
  <2>2. CASE line > b
    <3>1. line - b \in 1..Len(batch) /\ Len(stored) + (line - b) \in 1..Len(stored')
      BY <1>0, <2>2
    <3>2. stored'[Len(stored) + (line - b)] = b + (line - b)
      BY <1>1, <3>1
    <3>3. b + (line - b) = line
      OBVIOUS
    <3>. QED
      BY <3>1, <3>2, <3>3
  <2>. QED
    BY <2>1, <2>2
<1>5. StoredInOrder'
  <2>. SUFFICES ASSUME NEW i \in 1..Len(stored'), NEW line \in 1..(stored'[i] - 1)
                PROVE  \E k \in 1..(i - 1) : stored'[k] = line
    BY DEF StoredInOrder
  <2>1. CASE i <= Len(stored)
    <3>1. stored'[i] = stored[i] /\ i \in 1..Len(stored)
      BY <1>0, <2>1
    <3>2. PICK k \in 1..(i - 1) : stored[k] = line
      BY <3>1 DEF StoredInOrder
    <3>3. k \in 1..Len(stored)
      BY <1>0, <3>1
    <3>. QED
      BY <1>0, <3>2, <3>3
  <2>2. CASE i > Len(stored)
    <3>1. i - Len(stored) \in 1..Len(batch) /\ Len(stored) + (i - Len(stored)) = i
      BY <1>0, <2>2
    <3>2. stored'[i] = b + (i - Len(stored))
      BY <1>1, <3>1
    <3>3. CASE line <= b
      <4>1. PICK k \in 1..Len(stored) : stored'[k] = line
        BY <1>2, <3>3
      <4>2. k \in 1..(i - 1)
        BY <1>0, <2>2
      <4>. QED
        BY <4>1, <4>2
    <3>4. CASE line > b
      <4>1. line - b \in 1..Len(batch) /\ Len(stored) + (line - b) \in 1..(i - 1)
        BY <1>0, <3>1, <3>2, <3>4
      <4>2. stored'[Len(stored) + (line - b)] = b + (line - b)
        BY <1>1, <4>1
      <4>3. b + (line - b) = line
        OBVIOUS
      <4>. QED
        BY <4>1, <4>2, <4>3
    <3>. QED
      BY <3>3, <3>4
  <2>. QED
    BY <1>0, <2>1, <2>2
<1>. QED
  BY <1>3, <1>4, <1>5

LEMMA InTransitInit == Init => InTransit
<1>. SUFFICES ASSUME Init PROVE InTransit
  OBVIOUS
<1>1. /\ read = 0 /\ buffer = <<>> /\ late = {} /\ stored = <<>>
      /\ post.at = "none" /\ post.batch = <<>>
  BY DEF Init, StreamInit, NoPost
<1>. QED
  BY <1>1 DEF InTransit, Base, Run, StoredTo, StoredInOrder

LEMMA InTransitStep ==
    ASSUME Lines <= MaxBuffer, Types, InTransit, [Next]_vars
    PROVE  InTransit'
<1>0. /\ read \in Nat /\ read <= Lines /\ written \in Nat /\ written <= Lines
      /\ buffer \in Seq(Numbers) /\ Len(buffer) \in Nat
      /\ post.at \in {"none", "sent", "ok", "failed"} /\ post.batch \in Seq(Numbers)
      /\ post = [at |-> post.at, batch |-> post.batch]
      /\ late \subseteq Seq(Numbers) /\ stored \in Seq(Numbers)
      /\ Base \in Nat /\ Base = read - Len(buffer)
  BY Constants DEF Types, StreamTypeOK, InTransit, Base
<1>1. ASSUME UNCHANGED <<read, buffer, post, late, stored>> PROVE InTransit'
  <2>1. UNCHANGED <<read, buffer, post, late, stored, Base>>
    BY <1>1 DEF Base
  <2>2. \A q, b : Run(q, b) <=> Run(q, b)'
    BY DEF Run
  <2>3. Run(buffer, Base)' /\ StoredTo(Base)' /\ Run(post.batch, Base)'
    BY <2>1 DEF InTransit, Run, StoredTo
  <2>4. post'.at = "ok" => StoredTo(Base + Len(post.batch))'
    BY <2>1 DEF InTransit, StoredTo
  <2>5. \A batch \in late' : \E b \in 0..Base' : Run(batch, b)'
    BY <2>1 DEF InTransit, Run
  <2>6. StoredInOrder'
    BY <2>1 DEF InTransit, StoredInOrder
  <2>7. Base' \in Nat /\ (post'.at = "none" => post'.batch = <<>>) /\ Len(post'.batch) <= Len(buffer')
    BY <2>1 DEF InTransit
  <2>. QED
    BY <2>3, <2>4, <2>5, <2>6, <2>7 DEF InTransit
<1>2. CASE ReadLine
  <2>1. read < written /\ read' = read + 1 /\ UNCHANGED <<post, late, stored>>
    BY <1>2 DEF ReadLine, LineThere
  <2>2. ~(Len(buffer) >= MaxBuffer)
    BY <1>0, <2>1, Constants
  <2>3. buffer' = Append(buffer, read + 1)
    BY <1>2, <2>2 DEF ReadLine, Buffered
  <2>4. /\ Len(buffer') = Len(buffer) + 1 /\ buffer'[Len(buffer) + 1] = read + 1
        /\ \A i \in 1..Len(buffer) : buffer'[i] = buffer[i]
    BY <1>0, <2>3
  <2>5. Base' = Base
    BY <1>0, <2>1, <2>4 DEF Base
  <2>6. Run(buffer, Base)'
    <3>. SUFFICES ASSUME NEW i \in 1..(Len(buffer) + 1) PROVE buffer'[i] = Base + i
      BY <2>4, <2>5 DEF Run
    <3>1. CASE i \in 1..Len(buffer)
      BY <2>4, <3>1 DEF InTransit, Run
    <3>2. CASE i = Len(buffer) + 1
      BY <1>0, <2>4, <3>2
    <3>. QED
      BY <1>0, <3>1, <3>2
  <2>. QED
    BY <1>0, <2>1, <2>4, <2>5, <2>6 DEF InTransit, Run, StoredTo, StoredInOrder
<1>3. CASE Flush
  <2>. DEFINE n == Min2(BatchSize, Len(buffer))
  <2>1. n \in Nat /\ n <= Len(buffer)
    BY <1>0, Constants DEF Min2
  <2>2. post.at = "none" /\ UNCHANGED <<read, buffer, late, stored>>
    BY <1>3 DEF Flush, NoPost
  <2>3. post' = [at |-> "sent", batch |-> SubSeq(buffer, 1, n)]
    BY <1>3 DEF Flush
  <2>. HIDE DEF n
  <2>4. Len(post'.batch) = n /\ \A i \in 1..n : post'.batch[i] = buffer[i]
    BY <1>0, <2>1, <2>3, Cut
  <2>5. \A i \in 1..n : i \in 1..Len(buffer)
    BY <1>0, <2>1
  <2>6. Run(post.batch, Base)'
    BY <2>2, <2>4, <2>5 DEF Run, Base, InTransit
  <2>7. post'.at = "sent"
    BY <2>3
  <2>. QED
    BY <2>1, <2>2, <2>4, <2>6, <2>7 DEF InTransit, Base, Run, StoredTo, StoredInOrder
<1>4. CASE FlushSucceeds
  <2>. DEFINE m == Len(post.batch)
  <2>1. /\ post.at = "ok" /\ post' = [at |-> "none", batch |-> <<>>]
        /\ buffer' = SubSeq(buffer, m + 1, Len(buffer)) /\ UNCHANGED <<read, late, stored>>
    BY <1>4 DEF FlushSucceeds, Trim, NoPost
  <2>2. m \in Nat /\ m <= Len(buffer) /\ StoredTo(Base + m)
    BY <1>0, <2>1 DEF InTransit
  <2>. HIDE DEF m
  <2>3. Len(buffer') = Len(buffer) - m /\ \A i \in 1..(Len(buffer) - m) : buffer'[i] = buffer[m + i]
    <3>1. /\ Len(SubSeq(buffer, m + 1, Len(buffer))) = Len(buffer) - m
          /\ \A i \in 1..(Len(buffer) - m) : SubSeq(buffer, m + 1, Len(buffer))[i] = buffer[m + i]
      BY <1>0, <2>2, Cut
    <3>. QED
      BY <2>1, <3>1
  <2>4. Base' = Base + m
    BY <1>0, <2>1, <2>2, <2>3 DEF Base
  <2>5. Run(buffer, Base)'
    <3>. SUFFICES ASSUME NEW i \in 1..(Len(buffer) - m) PROVE buffer'[i] = Base + m + i
      BY <2>3, <2>4 DEF Run
    <3>1. m + i \in 1..Len(buffer)
      BY <1>0, <2>2
    <3>2. buffer[m + i] = Base + (m + i)
      BY <3>1 DEF InTransit, Run
    <3>. QED
      BY <1>0, <2>2, <2>3, <3>2
  <2>6. ASSUME NEW batch \in late PROVE \E b \in 0..Base' : Run(batch, b)
    <3>1. PICK b \in 0..Base : Run(batch, b)
      BY DEF InTransit
    <3>2. b \in 0..Base'
      BY <1>0, <2>2, <2>4
    <3>. QED
      BY <3>1, <3>2
  <2>7. StoredTo(Base)'
    BY <2>1, <2>2, <2>4 DEF StoredTo
  <2>8. Len(post'.batch) = 0 /\ post'.at = "none" /\ post'.batch = <<>>
    BY <2>1
  <2>9. Base' \in Nat /\ Len(buffer') \in Nat /\ 0 <= Len(buffer')
    BY <1>0, <2>2, <2>3, <2>4
  <2>10. Run(post.batch, Base)'
    BY <2>8 DEF Run
  <2>11. StoredInOrder' /\ Len(post'.batch) <= Len(buffer')
    <3>1. StoredInOrder'
      BY <2>1 DEF InTransit, StoredInOrder
    <3>2. Len(post'.batch) <= Len(buffer')
      BY <2>8, <2>9
    <3>. QED
      BY <3>1, <3>2
  <2>12. \A batch \in late' : \E b \in 0..Base' : Run(batch, b)'
    BY <2>1, <2>6 DEF Run
  <2>. QED
    BY <2>5, <2>7, <2>8, <2>9, <2>10, <2>11, <2>12 DEF InTransit
<1>5. CASE FlushFails \/ PostRefused
  <2>1. UNCHANGED <<read, buffer, late, stored>> /\ Base' = Base
    BY <1>5 DEF FlushFails, PostRefused, Base
  <2>2. CASE post' = [at |-> "none", batch |-> <<>>]
    <3>1. post'.at = "none" /\ post'.batch = <<>> /\ Len(post'.batch) = 0
      BY <2>2
    <3>. QED
      BY <1>0, <2>1, <3>1 DEF InTransit, Run, StoredTo, StoredInOrder
  <2>3. CASE post' = [post EXCEPT !.at = "failed"]
    <3>1. post'.at = "failed" /\ post'.batch = post.batch
      BY <1>0, <2>3
    <3>. QED
      BY <1>0, <2>1, <3>1 DEF InTransit, Run, StoredTo, StoredInOrder
  <2>. QED
    BY <1>5, <2>2, <2>3 DEF FlushFails, PostRefused, NoPost
<1>6. CASE PostServed
  <2>1. /\ stored' = stored \o post.batch /\ UNCHANGED <<read, buffer, late>>
        /\ post' = [post EXCEPT !.at = "ok"]
    BY <1>6 DEF PostServed, Insert
  <2>2. Run(post.batch, Base) /\ StoredTo(Base) /\ StoredInOrder
    BY DEF InTransit
  <2>3. /\ StoredInOrder' /\ StoredTo(Base + Len(post.batch))'
        /\ \A c \in Nat : StoredTo(c) => StoredTo(c)'
    <3>1. PICK b \in Nat : b = Base
      BY <1>0
    <3>2. PICK batch \in Seq(Numbers) : batch = post.batch
      BY <1>0
    <3>3. Base' = b
      BY <2>1, <3>1 DEF Base
    <3>4. post'.batch = batch
      BY <1>0, <2>1, <3>2
    <3>5. Run(batch, b) /\ StoredTo(b) /\ stored' = stored \o batch
      BY <2>1, <2>2, <3>1, <3>2
    <3>6. /\ StoredInOrder' /\ StoredTo(b + Len(batch))'
          /\ \A c \in Nat : StoredTo(c) => StoredTo(c)'
      BY <1>0, <2>2, <3>5, InsertInOrder
    <3>. QED
      BY <3>3, <3>4, <3>6 DEF StoredTo
  <2>4. Base' = Base /\ post'.at = "ok" /\ post'.batch = post.batch
    BY <1>0, <2>1 DEF Base
  <2>. QED
    BY <1>0, <2>1, <2>2, <2>3, <2>4 DEF InTransit, Run
<1>7. CASE PostTimesOut
  <2>1. UNCHANGED <<read, buffer, stored>> /\ post' = [post EXCEPT !.at = "failed"] /\ Base' = Base
    BY <1>7 DEF PostTimesOut, Base
  <2>2. post'.at = "failed" /\ post'.batch = post.batch
    BY <1>0, <2>1
  <2>3. ASSUME NEW batch \in late' PROVE \E b \in 0..Base : Run(batch, b)
    <3>1. CASE batch \in late
      BY <3>1 DEF InTransit
    <3>2. CASE batch = post.batch
      <4>1. Base \in 0..Base
        BY <1>0
      <4>. QED
        BY <3>2, <4>1 DEF InTransit
    <3>. QED
      BY <1>7, <2>3, <3>1, <3>2 DEF PostTimesOut
  <2>. QED
    BY <1>0, <2>1, <2>2, <2>3 DEF InTransit, Run, StoredTo, StoredInOrder
<1>8. CASE LatePostServed
  <2>1. PICK batch \in late : stored' = stored \o batch /\ late' = late \ {batch}
    BY <1>8 DEF LatePostServed, Insert
  <2>2. UNCHANGED <<read, buffer, post>> /\ Base' = Base
    BY <1>8 DEF LatePostServed, Base
  <2>3. PICK b \in 0..Base : Run(batch, b)
    BY DEF InTransit
  <2>4. b \in Nat /\ StoredTo(b) /\ batch \in Seq(Numbers)
    BY <1>0, <2>3 DEF InTransit, StoredTo
  <2>5. StoredInOrder' /\ \A c \in Nat : StoredTo(c) => StoredTo(c)'
    BY <1>0, <2>1, <2>3, <2>4, InsertInOrder DEF InTransit
  <2>6. StoredTo(Base)' /\ (post'.at = "ok" => StoredTo(Base + Len(post.batch))')
    BY <1>0, <2>2, <2>5 DEF InTransit
  <2>7. \A other \in late' : \E c \in 0..Base' : Run(other, c)
    BY <2>1, <2>2 DEF InTransit
  <2>. QED
    BY <1>0, <2>2, <2>5, <2>6, <2>7 DEF InTransit, Run
<1>9. CASE Write \/ ContainerEnds \/ ReadEnds \/ StopNext
  BY <1>1, <1>9 DEF Write, ContainerEnds, ReadEnds, StopNext, StopCalled, Joined, FinalLoopEnds
<1>10. CASE PageNext
  BY <1>1, <1>10
     DEF PageNext, HandleLog, Refresh, FetchServed, FetchApplied, FetchFails, streamVars
<1>11. CASE UNCHANGED vars
  BY <1>1, <1>11 DEF vars
<1>. QED
  BY <1>2, <1>3, <1>4, <1>5, <1>6, <1>7, <1>8, <1>9, <1>10, <1>11
     DEF Next, StreamStep, StreamNext, FlushNext, Network

\* No line that was read is lost before it is stored, if the buffer holds them all.
THEOREM NothingLostCorrect ==
    ASSUME Lines <= MaxBuffer
    PROVE  Spec => []NothingLost
<1>1. Types /\ InTransit /\ Single /\ [Next]_vars => InTransit'
  BY InTransitStep
<1>. QED
  BY <1>1, TypesInit, PageInit, PageInv, InTransitInit, InTransitImplies, PTL DEF Spec

\* The table is in order, whichever requests arrive late or twice, if the buffer does
\* not overflow.
THEOREM StoredInOrderCorrect ==
    ASSUME Lines <= MaxBuffer
    PROVE  Spec => []StoredInOrder
<1>1. Types /\ InTransit /\ Single /\ [Next]_vars => InTransit'
  BY InTransitStep
<1>. QED
  BY <1>1, TypesInit, PageInit, PageInv, InTransitInit, InTransitImplies, PTL DEF Spec
=============================================================================
