---------------------------- MODULE LogStreamer ----------------------------
(* The log of one job on its way from the container to the JobLog table:    *)
(* log_streamer.py on the node and POST /api/jobs/:id/logs in the backend.  *)
(* A line is known by its number.  One flush is in flight at a time: stop() *)
(* joins the flush thread before it flushes itself.                         *)
EXTENDS Integers, Sequences, FiniteSets, SequencesExt

CONSTANTS
    Lines,      \* lines the container writes, at most
    MaxBuffer,  \* lines the buffer holds (10000)
    BatchSize,  \* MAX_BATCH_SIZE (50)
    MaxLate,    \* requests given up by the agent and still under way, at most
    MaxStored   \* rows the table takes (bounds the duplicates)

ASSUME StreamerAssumption == /\ {Lines, MaxLate, MaxStored} \subseteq Nat
                             /\ {MaxBuffer, BatchSize} \subseteq Nat \ {0}

VARIABLES
    written,    \* lines the container has written
    ended,      \* the container has exited: end of file after the last line
    read,       \* lines the read loop has taken from the pipe
    reading,    \* the read thread is alive
    buffer,     \* _buffer
    stop,       \* where stop() is
    post,       \* the flush in flight
    late,       \* batches of requests the agent has given up
    stored      \* JobLog rows in the order of their sequence 1, 2, 3 ...

streamer   == <<written, ended, read, reading, buffer, stop, post, late>>
streamVars == <<written, ended, read, reading, buffer, stop, post, late, stored>>

NoPost   == [at |-> "none", batch |-> <<>>]
Numbers  == 1..Lines
Taken(q) == ToSet(q)

-----------------------------------------------------------------------------
(* The container and the read thread.                                       *)

Write ==
    /\ ~ended /\ written < Lines
    /\ written' = written + 1
    /\ UNCHANGED <<ended, read, reading, buffer, stop, post, late, stored>>

ContainerEnds ==
    /\ ~ended
    /\ ended' = TRUE
    /\ UNCHANGED <<written, read, reading, buffer, stop, post, late, stored>>

\* A full buffer drops its oldest line.
Buffered(line) ==
    Append(IF Len(buffer) >= MaxBuffer THEN Tail(buffer) ELSE buffer, line)

\* Mistaken variant: the empty string at the end of the file is taken for a line.
LineOrEnd == read <= written

LineThere == read < written

ReadLine ==
    /\ reading /\ LineThere /\ stop = "no"
    /\ read' = read + 1
    /\ buffer' = Buffered(read + 1)
    /\ UNCHANGED <<written, ended, reading, stop, post, late, stored>>

\* End of file; or a line is read after stop() was called, and is dropped.
ReadEnds ==
    /\ reading
    /\ IF LineThere THEN stop # "no" ELSE ended
    /\ reading' = FALSE
    /\ UNCHANGED <<written, ended, read, buffer, stop, post, late, stored>>

-----------------------------------------------------------------------------
(* _flush: snapshot under the lock, POST, trim under the lock.              *)

Min2(a, b) == IF a < b THEN a ELSE b

\* The flush loop, which starts at most one more flush once stop() was called,
\* and then the final loop of stop().
Flush ==
    /\ post = NoPost /\ buffer # <<>>
    /\ stop \in {"no", "joining", "final"}
    /\ stop' = IF stop = "joining" THEN "last" ELSE stop
    /\ post' = [at |-> "sent", batch |-> SubSeq(buffer, 1, Min2(BatchSize, Len(buffer)))]
    /\ UNCHANGED <<written, ended, read, reading, buffer, late, stored>>

\* Mistaken variant: a whole batch is cut off, however much of it was sent.
TrimBatchSize(batch) == SubSeq(buffer, BatchSize + 1, Len(buffer))

Trim(batch) == SubSeq(buffer, Len(batch) + 1, Len(buffer))

FlushSucceeds ==
    /\ post.at = "ok"
    /\ buffer' = Trim(post.batch)
    /\ post' = NoPost
    /\ UNCHANGED <<written, ended, read, reading, stop, late, stored>>

\* Mistaken variant: the final loop tries again.
NeverGivesUp == FALSE

\* `if not success: break` of the final loop.
GivesUp == stop = "final"

FlushFails ==
    /\ post.at = "failed"
    /\ post' = NoPost
    /\ stop' = IF GivesUp THEN "done" ELSE stop
    /\ UNCHANGED <<written, ended, read, reading, buffer, late, stored>>

-----------------------------------------------------------------------------
(* stop(): called once the polling loop of the job has ended.               *)

StopCalled ==
    /\ ended /\ stop = "no"
    /\ stop' = "joining"
    /\ UNCHANGED <<written, ended, read, reading, buffer, post, late, stored>>

\* A read thread that is still alive after ten seconds takes no line any more.  That
\* the flush thread is not is an assumption about timing: its sleep and one flush, with
\* five seconds to connect and five between two bytes of the answer, are taken to be
\* over when its join gives up.  Otherwise two flushes could trim one buffer.
Joined ==
    /\ stop \in {"joining", "last"} /\ post = NoPost
    /\ stop' = "final"
    /\ UNCHANGED <<written, ended, read, reading, buffer, post, late, stored>>

FinalLoopEnds ==
    /\ stop = "final" /\ buffer = <<>>
    /\ stop' = "done"
    /\ UNCHANGED <<written, ended, read, reading, buffer, post, late, stored>>

-----------------------------------------------------------------------------
(* The endpoint and the network.  The transaction numbers the rows from the *)
(* last one on; of two that overlap, the unique (jobId, sequence) lets one  *)
(* through and the other fails.                                             *)

\* Mistaken variant: each batch is numbered from 1 again, over what is there.
InsertFromStart(batch) == batch \o SubSeq(stored, Len(batch) + 1, Len(stored))

Insert(batch) == stored \o batch

Fits(batch) == Len(stored) + Len(batch) <= MaxStored

PostServed ==
    /\ post.at = "sent" /\ Fits(post.batch)
    /\ stored' = Insert(post.batch)
    /\ post' = [post EXCEPT !.at = "ok"]
    /\ UNCHANGED <<written, ended, read, reading, buffer, stop, late>>

\* 401, 403 once the job or the session is taken from the machine, 500.
PostRefused ==
    /\ post.at = "sent"
    /\ post' = [post EXCEPT !.at = "failed"]
    /\ UNCHANGED <<written, ended, read, reading, buffer, stop, late, stored>>

\* Five seconds without an answer: the request, or the answer, may be lost or late.
PostTimesOut ==
    /\ post.at \in {"sent", "ok"}
    /\ post' = [post EXCEPT !.at = "failed"]
    /\ \/ late' = late
       \/ post.at = "sent" /\ Cardinality(late) < MaxLate /\ late' = late \cup {post.batch}
    /\ UNCHANGED <<written, ended, read, reading, buffer, stop, stored>>

LatePostServed ==
    /\ \E batch \in late : /\ Fits(batch)
                           /\ stored' = Insert(batch)
                           /\ late' = late \ {batch}
    /\ UNCHANGED <<written, ended, read, reading, buffer, stop, post>>

-----------------------------------------------------------------------------

StreamInit ==
    /\ written = 0 /\ ended = FALSE /\ read = 0 /\ reading = TRUE
    /\ buffer = <<>> /\ stop = "no" /\ post = NoPost /\ late = {} /\ stored = <<>>

StopNext   == StopCalled \/ Joined \/ FinalLoopEnds
FlushNext  == Flush \/ FlushSucceeds \/ FlushFails
Network    == PostServed \/ PostRefused \/ PostTimesOut
StreamNext == \/ Write \/ ContainerEnds \/ ReadLine \/ ReadEnds
              \/ StopNext \/ FlushNext \/ Network \/ LatePostServed

StreamTypeOK ==
    /\ {written, read} \subseteq 0..Lines /\ {ended, reading} \subseteq BOOLEAN
    /\ buffer \in Seq(Numbers) /\ Len(buffer) <= MaxBuffer
    /\ stop \in {"no", "joining", "last", "final", "done"}
    /\ post \in [at: {"none", "sent", "ok", "failed"}, batch: Seq(Numbers)]
    /\ late \subseteq Seq(Numbers) /\ Cardinality(late) <= MaxLate
    /\ stored \in Seq(Numbers) /\ Len(stored) <= MaxStored

\* As long as the buffer does not overflow (Lines <= MaxBuffer), no line that was
\* read is lost before it is stored, whatever requests fail or arrive late.  A
\* line dropped while a flush is in flight makes Trim cut one that was not sent.
NothingLost == \A line \in 1..read : line \in Taken(buffer) \cup Taken(stored)

\* The table may hold lines twice, but a line never comes before one that was
\* written earlier and is not there yet, also when a late batch arrives.
StoredInOrder ==
    \A i \in 1..Len(stored) : \A line \in 1..(stored[i] - 1) :
        \E k \in 1..(i - 1) : stored[k] = line

\* stop() returns, and the agent goes on to report the job (agent.py:388-410).
StopReturns == stop = "joining" ~> stop = "done"
=============================================================================
