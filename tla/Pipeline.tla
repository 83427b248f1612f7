-------------------------------- MODULE Pipeline -------------------------------
(***************************************************************************)
(* run_parallel_pipeline: the walk thread, the worker threads and the      *)
(* consumer of a backup, with the two bounded channels between them, the   *)
(* byte budget that the walk acquires and the consumer returns, the        *)
(* reorder buffer, the assembly of large files from segments, and the      *)
(* paths on which one of the threads gives up.                             *)
(*                                                                         *)
(* A message in flight is [idx, res, held]: the sequence number of a walk  *)
(* entry, what became of it, and the bytes of the budget that travel with  *)
(* it.  res is "todo" on the work channel; then "done", "skipped" (Skipped *)
(* and SegmentSkipped), "soft" and "hard" (a WorkerErr by the kind of its  *)
(* error), and "walk" for a WalkErr, which has no sequence number.  Every  *)
(* error that the walk yields is a hard one, so the consumer's branch for  *)
(* a soft WalkErr has no counterpart here.                                 *)
(***************************************************************************)
EXTENDS SourceWalk, FiniteSets, FiniteSetsExt, Functions

CONSTANTS Workers,          \* worker threads
          Depth,            \* readahead_depth
          Capacity,         \* pipeline_buffer_bytes
          Sources           \* the sources, one of which a run walks

\* do_backup passes a segment size that does not exceed the budget.
ASSUME PipelineAssumption ==
    /\ IsFiniteSet(Workers) /\ Workers # {}
    /\ Depth \in Nat
    /\ Capacity \in Nat /\ SegmentSize <= Capacity
    /\ Sources \subseteq Seq(Objects)

WorkCap == 2 * Cardinality(Workers)
ResultCap == Cardinality(Workers) + Depth

VARIABLES
    source,      \* the objects of the run
    seq,         \* walk: seq_idx
    walker,      \* walk: where it is
    grant,       \* walk: bytes acquired for the entry about to be sent
    budget,      \* ByteBudget: [available, poisoned]
    work,        \* the work channel
    worker,      \* each worker: [at, msg]
    results,     \* the result channel
    rxOpen,      \* the consumer still holds the receiver
    consumer,    \* consumer: where it is
    next,        \* consumer: next_expected
    pending,     \* consumer: the reorder buffer
    accum,       \* consumer: large_file_accum
    toSkip,      \* consumer: segments_to_skip
    stream,      \* the items of the snapshot, with the byte ranges committed
    errors,      \* stats.errors
    err,         \* consume_err, and what the run returns
    shutdown     \* the shutdown flag

walkVars == <<source, seq, walker, grant>>
consumerVars == <<next, pending, accum, toSkip, stream, errors>>
vars == <<walkVars, budget, work, worker, results, rxOpen, consumer, consumerVars,
          err, shutdown>>

WalkEntries == [s \in Sources |-> WalkOf(s)]
Walk == WalkEntries[source]
EntryOf(msg) == Walk[msg.idx + 1]

Message == [idx : Nat, res : {"todo", "done", "skipped", "soft", "hard", "walk"},
            held : 0..Capacity]
Idle == [idx |-> 0, res |-> "todo", held |-> 0]
NoFile == [name |-> "none", index |-> 0, count |-> 0, parts |-> << >>]

\* What ends a run; the last four are found by validate_segment_accum and by the check
\* after the loop.
Causes == {"none", "interrupted", "walk", "worker", "commit",
           "nested", "orphan", "mismatch", "incomplete"}

TypeOK ==
    /\ source \in Sources
    /\ seq \in 0..Len(Walk)
    /\ walker \in {"next", "report", "acquire", "wait", "send", "gone"}
    /\ grant \in 0..Capacity
    /\ budget \in [available : 0..Capacity, poisoned : BOOLEAN]
    /\ work \in Seq(Message) /\ Len(work) <= WorkCap
    /\ worker \in [Workers -> [at : {"recv", "busy", "send", "gone"}, msg : Message]]
    /\ results \in Seq(Message) /\ Len(results) <= ResultCap
    /\ consumer \in {"recv", "drain", "append", "close", "closed"}
    /\ rxOpen = (consumer # "closed")
    /\ next \in 0..Len(Walk)
    /\ pending \subseteq Message
    /\ toSkip \in Nat /\ errors \in Nat
    /\ err \in Causes
    /\ shutdown \in BOOLEAN

Init ==
    /\ source \in Sources
    /\ seq = 0 /\ walker = "next" /\ grant = 0
    /\ budget = [available |-> Capacity, poisoned |-> FALSE]
    /\ work = << >>
    /\ worker = [w \in Workers |-> [at |-> "recv", msg |-> Idle]]
    /\ results = << >> /\ rxOpen = TRUE
    /\ consumer = "recv" /\ next = 0 /\ pending = {} /\ accum = NoFile /\ toSkip = 0
    /\ stream = << >> /\ errors = 0 /\ err = "none"
    /\ shutdown = FALSE
--------------------------------------------------------------------------------
(* The byte budget.  Only the walk thread waits on the condition variable, so  *)
(* notify_all moves it from "wait" back to the head of the loop in acquire.    *)

Notify == walker' = IF walker = "wait" THEN "acquire" ELSE walker

\* ByteBudget::release, by a worker or the consumer
Release(n) ==
    /\ budget' = [budget EXCEPT !.available = Min({@ + n, Capacity})]
    /\ Notify

\* ByteBudget::poison
Poison ==
    /\ budget' = [budget EXCEPT !.poisoned = TRUE]
    /\ Notify

Untouched == UNCHANGED <<budget, walker>>
--------------------------------------------------------------------------------
(* The walk thread.                                                            *)

\* The iterator is exhausted, or the shutdown flag is seen: the work channel closes.
WalkEnds ==
    /\ walker = "next" /\ (shutdown \/ seq = Len(Walk))
    /\ walker' = "gone"
    /\ UNCHANGED <<source, seq, grant, budget, work, worker, results, rxOpen, consumer,
                   consumerVars, err, shutdown>>

WalkYields ==
    /\ walker = "next" /\ ~shutdown /\ seq < Len(Walk)
    /\ walker' = IF Walk[seq + 1].kind = "error" THEN "report" ELSE "acquire"
    /\ UNCHANGED <<source, seq, grant, budget, work, worker, results, rxOpen, consumer,
                   consumerVars, err, shutdown>>

\* The WalkErr goes into the result channel, unless the receiver is gone.
WalkReports ==
    /\ walker = "report"
    /\ \/ /\ rxOpen /\ Len(results) < ResultCap
          /\ results' = Append(results, [idx |-> seq, res |-> "walk", held |-> 0])
       \/ ~rxOpen /\ UNCHANGED results
    /\ walker' = "gone"
    /\ UNCHANGED <<source, seq, grant, budget, work, worker, rxOpen, consumer,
                   consumerVars, err, shutdown>>

\* reserve_budget and ByteBudget::acquire: one round of its loop.
Acquire ==
    LET n == Min({Walk[seq + 1].len, Capacity})
    IN  /\ walker = "acquire"
        /\ \/ /\ budget.poisoned
              /\ walker' = "gone" /\ UNCHANGED <<budget, grant>>
           \/ /\ ~budget.poisoned /\ budget.available >= n
              /\ budget' = [budget EXCEPT !.available = @ - n]
              /\ grant' = n /\ walker' = "send"
           \/ /\ ~budget.poisoned /\ budget.available < n
              /\ walker' = "wait" /\ UNCHANGED <<budget, grant>>
        /\ UNCHANGED <<source, seq, work, worker, results, rxOpen, consumer, consumerVars,
                       err, shutdown>>

\* work_tx.send: it fails once every worker has dropped its receiver.
WalkSends ==
    /\ walker = "send" /\ grant' = 0
    /\ \/ /\ \E w \in Workers : worker[w].at # "gone"
          /\ Len(work) < WorkCap
          /\ work' = Append(work, [idx |-> seq, res |-> "todo", held |-> grant])
          /\ seq' = seq + 1 /\ walker' = "next" /\ UNCHANGED budget
       \/ /\ \A w \in Workers : worker[w].at = "gone"
          /\ budget' = [budget EXCEPT !.available = Min({@ + grant, Capacity})]
          /\ walker' = "gone" /\ UNCHANGED <<seq, work>>
    /\ UNCHANGED <<source, worker, results, rxOpen, consumer, consumerVars, err, shutdown>>
--------------------------------------------------------------------------------
(* A worker thread.                                                            *)

Take(w) ==
    /\ worker[w].at = "recv" /\ work # << >>
    /\ worker' = [worker EXCEPT ![w] = [at |-> "busy", msg |-> Head(work)]]
    /\ work' = Tail(work)
    /\ UNCHANGED <<walkVars, budget, results, rxOpen, consumer, consumerVars, err, shutdown>>

\* The work channel is empty and its sender is gone.
Starve(w) ==
    /\ worker[w].at = "recv" /\ work = << >> /\ walker = "gone"
    /\ worker' = [worker EXCEPT ![w] = [at |-> "gone", msg |-> Idle]]
    /\ UNCHANGED <<walkVars, budget, work, results, rxOpen, consumer, consumerVars, err,
                   shutdown>>

\* process_file_worker_inner: reading a file or a segment succeeds, or fails with an
\* error that is soft or hard; the other kinds pass through.
Readings(e) ==
    CASE e.kind \in {"file", "segment"} -> {"done", "soft", "hard"}
      [] e.kind = "skipped" -> {"skipped"}
      [] OTHER -> {"done"}

\* process_file_worker: a soft error becomes a skip while nothing of the file can have
\* been committed.
Converted(e, res) ==
    IF res = "soft" /\ (e.kind = "file" \/ (e.kind = "segment" /\ e.index = 0))
    THEN "skipped" ELSE res

\* The bytes that go on with the result: BudgetGuard::defuse on success; otherwise
\* the guard has released them.
\* (Mutant: the guard releases, and the result carries the bytes all the same.)
CarriedTwice(msg, res) == msg.held

Carried(msg, res) == IF res = "done" THEN msg.held ELSE 0

Process(w) ==
    /\ worker[w].at = "busy"
    /\ LET msg == worker[w].msg
       IN  \E reading \in Readings(EntryOf(msg)) :
             LET res == Converted(EntryOf(msg), reading)
             IN  /\ worker' = [worker EXCEPT ![w] =
                        [at |-> "send",
                         msg |-> [idx |-> msg.idx, res |-> res, held |-> Carried(msg, res)]]]
                 /\ IF res # "done" /\ msg.held > 0 THEN Release(msg.held) ELSE Untouched
    /\ UNCHANGED <<source, seq, grant, work, results, rxOpen, consumer, consumerVars, err,
                   shutdown>>

Deliver(w) ==
    /\ worker[w].at = "send"
    /\ \/ /\ rxOpen /\ Len(results) < ResultCap
          /\ results' = Append(results, worker[w].msg)
          /\ worker' = [worker EXCEPT ![w] = [at |-> "recv", msg |-> Idle]]
       \/ /\ ~rxOpen
          /\ worker' = [worker EXCEPT ![w] = [at |-> "gone", msg |-> Idle]]
          /\ UNCHANGED results
    /\ UNCHANGED <<walkVars, budget, work, rxOpen, consumer, consumerVars, err, shutdown>>
--------------------------------------------------------------------------------
(* The consumer.                                                               *)

\* An error leaves the loop: the budget is poisoned and consume_err is set.
\* (Mutant: the budget is not poisoned.)
GiveUpUnpoisoned(cause) ==
    /\ Untouched
    /\ err' = cause /\ consumer' = "close"

GiveUp(cause) ==
    /\ Poison
    /\ err' = cause /\ consumer' = "close"

\* A message is received; the shutdown flag is looked at before its content.
ReceiveResult ==
    /\ consumer = "recv" /\ results # << >>
    /\ results' = Tail(results)
    /\ LET msg == Head(results)
       IN  \/ /\ shutdown
              /\ GiveUp("interrupted") /\ UNCHANGED pending
           \/ /\ ~shutdown /\ msg.res = "walk"
              /\ GiveUp("walk") /\ UNCHANGED pending
           \/ /\ ~shutdown /\ msg.res # "walk"
              /\ pending' = pending \cup {msg}
              /\ consumer' = "drain" /\ Untouched /\ UNCHANGED err
    /\ UNCHANGED <<source, seq, grant, work, worker, rxOpen, next, accum, toSkip, stream,
                   errors, shutdown>>

\* The entry of the reorder buffer whose turn it is.
Turn == {msg \in pending : msg.idx = next}

\* pending.remove(&next_expected)
RemovePending(msg) == pending' = pending \ {msg} /\ next' = next + 1

\* One of the remaining segments of a file whose segment 0 was skipped.
DrainSkipped ==
    \E msg \in Turn :
      /\ consumer = "drain" /\ toSkip > 0
      /\ RemovePending(msg)
      /\ toSkip' = toSkip - 1
      /\ IF msg.res = "done" /\ EntryOf(msg).kind = "segment"
         THEN Release(msg.held) ELSE Untouched
      /\ UNCHANGED <<source, seq, grant, work, worker, results, rxOpen, consumer, accum,
                     stream, errors, err, shutdown>>

\* Skipped or SegmentSkipped: one error, and the rest of a large file is drained.
RestOfSkipped(e) == IF e.kind = "segment" THEN e.count - 1 ELSE 0

CountSkipped ==
    \E msg \in Turn :
      /\ consumer = "drain" /\ toSkip = 0 /\ msg.res = "skipped"
      /\ RemovePending(msg)
      /\ errors' = errors + 1
      /\ toSkip' = RestOfSkipped(EntryOf(msg))
      /\ UNCHANGED <<walkVars, budget, work, worker, results, rxOpen, consumer, accum,
                     stream, err, shutdown>>

\* A WorkerErr whose turn it is.  A soft one is only counted while no large file is
\* being assembled.
Tolerated(msg) == msg.res = "soft" /\ accum = NoFile

ConsumeError ==
    \E msg \in Turn :
      /\ consumer = "drain" /\ toSkip = 0 /\ msg.res \in {"soft", "hard"}
      /\ RemovePending(msg)
      /\ IF Tolerated(msg)
         THEN errors' = errors + 1 /\ Untouched /\ UNCHANGED <<consumer, err>>
         ELSE GiveUp("worker") /\ UNCHANGED errors
      /\ UNCHANGED <<source, seq, grant, work, worker, results, rxOpen, accum, toSkip,
                     stream, shutdown>>

\* validate_segment_accum: what is wrong with the entry.
SegmentFault(e) ==
    CASE e.kind # "segment" -> "none"
      [] e.kind = "segment" /\ e.index = 0 -> IF accum = NoFile THEN "none" ELSE "nested"
      [] OTHER -> IF accum = NoFile THEN "orphan"
                  ELSE IF <<e.index, e.name, e.count>> = <<accum.index, accum.name, accum.count>>
                       THEN "none" ELSE "mismatch"

\* The large file after its segment e, and the items that e completes.
Extended(e) ==
    [name |-> e.name, index |-> e.index + 1, count |-> e.count,
     parts |-> (IF e.index = 0 THEN << >> ELSE accum.parts)
               \o <<[offset |-> e.offset, len |-> e.len]>>]

Item(e) == [name |-> e.name,
            parts |-> IF e.kind = "file" THEN <<[offset |-> 0, len |-> e.len]>> ELSE << >>]

Completed(e) ==
    CASE e.kind = "segment" -> IF e.index = e.count - 1
                             THEN <<[name |-> e.name, parts |-> Extended(e).parts]>>
                             ELSE << >>
      [] OTHER -> <<Item(e)>>

\* consume_processed_entry on the path without errors: the chunks are committed, the
\* bytes returned, and a complete item goes into the item stream (and, with it, into
\* the new file cache).
Consume ==
    \E msg \in Turn :
      LET e == EntryOf(msg)
      IN  /\ consumer = "drain" /\ toSkip = 0 /\ msg.res = "done"
          /\ SegmentFault(e) = "none"
          /\ RemovePending(msg)
          /\ accum' = IF e.kind # "segment" THEN accum
                      ELSE IF e.index = e.count - 1 THEN NoFile ELSE Extended(e)
          /\ stream' = stream \o Completed(e)
          /\ IF e.kind \in {"file", "segment"} THEN Release(msg.held) ELSE Untouched
          /\ UNCHANGED <<source, seq, grant, work, worker, results, rxOpen, consumer, toSkip,
                         errors, err, shutdown>>

\* The same entry, when the accumulator refuses it or its chunks cannot be committed:
\* the bytes are not returned.  Nothing reads what a failed entry left in the
\* accumulator and in the item stream.
ConsumeFails ==
    \E msg \in Turn :
      LET fault == SegmentFault(EntryOf(msg))
      IN  /\ consumer = "drain" /\ toSkip = 0 /\ msg.res = "done"
          /\ RemovePending(msg)
          /\ GiveUp(IF fault = "none" THEN "commit" ELSE fault)
          /\ UNCHANGED <<source, seq, grant, work, worker, results, rxOpen, accum, toSkip,
                         stream, errors, shutdown>>

\* The same entry, when its item cannot be written: the bytes have been returned, and
\* other threads may run before the budget is poisoned.
ConsumeReturns ==
    \E msg \in Turn :
      /\ consumer = "drain" /\ toSkip = 0 /\ msg.res = "done"
      /\ EntryOf(msg).kind \in {"file", "segment"}
      /\ SegmentFault(EntryOf(msg)) = "none" /\ Completed(EntryOf(msg)) # << >>
      /\ RemovePending(msg)
      /\ Release(msg.held)
      /\ consumer' = "append"
      /\ UNCHANGED <<source, seq, grant, work, worker, results, rxOpen, accum, toSkip,
                     stream, errors, err, shutdown>>

AppendFails ==
    /\ consumer = "append"
    /\ GiveUp("commit")
    /\ UNCHANGED <<source, seq, grant, work, worker, results, rxOpen, consumerVars, shutdown>>

\* The entry whose turn it is has not arrived.
DrainEnds ==
    /\ consumer = "drain" /\ Turn = {}
    /\ consumer' = "recv"
    /\ UNCHANGED <<walkVars, budget, work, worker, results, rxOpen, consumerVars, err,
                   shutdown>>

\* The loop ends without an error: every sender is gone and the channel is empty.
Exhausted ==
    /\ consumer = "recv" /\ results = << >>
    /\ walker = "gone" /\ \A w \in Workers : worker[w].at = "gone"
    /\ consumer' = "close"
    /\ UNCHANGED <<walkVars, budget, work, worker, results, rxOpen, consumerVars, err,
                   shutdown>>

\* After the loop: the receiver is dropped with what is in the channel, a large file
\* must not be left incomplete, and the shutdown flag is looked at once more.  The
\* consumer's own variables end with it; item stream and statistics are the caller's, who
\* drops those of a failed run.
\* (Mutant: the flag is not looked at again.)
VerdictUnlooked ==
    IF err # "none" THEN err ELSE IF accum # NoFile THEN "incomplete" ELSE "none"

Verdict ==
    IF err # "none" THEN err
    ELSE IF accum # NoFile THEN "incomplete"
    ELSE IF shutdown THEN "interrupted" ELSE "none"

Close ==
    /\ consumer = "close"
    /\ consumer' = "closed" /\ rxOpen' = FALSE /\ results' = << >>
    /\ err' = Verdict
    /\ pending' = {} /\ accum' = NoFile /\ next' = 0 /\ toSkip' = 0
    /\ IF err' = "none" THEN UNCHANGED <<stream, errors>> ELSE stream' = << >> /\ errors' = 0
    /\ UNCHANGED <<walkVars, budget, work, worker, shutdown>>
--------------------------------------------------------------------------------
\* A signal handler sets the flag.
Interrupt ==
    /\ ~shutdown /\ shutdown' = TRUE
    /\ UNCHANGED <<walkVars, budget, work, worker, results, rxOpen, consumer, consumerVars, err>>

\* thread::scope returns when every thread has ended.
Returned ==
    /\ consumer = "closed" /\ walker = "gone"
    /\ \A w \in Workers : worker[w].at = "gone"

WalkThread == WalkEnds \/ WalkYields \/ WalkReports \/ Acquire \/ WalkSends
WorkerThread(w) == Take(w) \/ Starve(w) \/ Process(w) \/ Deliver(w)
Consumer ==
    \/ ReceiveResult \/ DrainSkipped \/ CountSkipped \/ ConsumeError
    \/ Consume \/ ConsumeFails \/ ConsumeReturns \/ AppendFails
    \/ DrainEnds \/ Exhausted \/ Close

Threads == WalkThread \/ (\E w \in Workers : WorkerThread(w)) \/ Consumer

Next == Threads \/ Interrupt

\* As long as some thread can go on, the operating system runs one of them: not even
\* fairness to each thread is needed.  The signal need never come.
Fairness == WF_vars(Threads)

Spec == Init /\ [][Next]_vars /\ Fairness
--------------------------------------------------------------------------------
Succeeded == consumer = "closed" /\ err = "none"

InFlight ==
    Range(work) \cup {worker[w].msg : w \in Workers} \cup Range(results) \cup pending

\* The bytes in flight: one element for every byte that a message holds.
Held == UNION {{m.idx} \X (1..m.held) : m \in InFlight}

\* While nothing has failed, every byte that the budget lacks is held by the walk or by
\* exactly one message between the walk and the consumer: BudgetGuard, defuse, the
\* release of the consumer and that of a skipped file's segments neither lose bytes
\* (the walk would wait for ever) nor return them twice (the cap of release would hide it
\* and more data than the budget would be in memory).
BudgetConserved ==
    err = "none" /\ rxOpen =>
        budget.available + grant + Cardinality(Held) = Capacity

\* However the workers overtake each other and whichever entries fail, the segments of
\* a large file reach the accumulator contiguously and in order: none of the checks of
\* validate_segment_accum ever fires, and a file is left incomplete only by a shutdown.
SegmentsInOrder ==
    /\ err \notin {"nested", "orphan", "mismatch"}
    /\ err = "incomplete" => shutdown

\* Between any two steps of the threads: the state is well-formed, no byte of the
\* budget is lost or returned twice, and no segment arrives out of order.
PipelineInv == TypeOK /\ BudgetConserved /\ SegmentsInOrder

Visible == {k \in DOMAIN source : source[k].type # "special"}

\* The byte ranges follow each other from 0 to size.
Tiles(parts, size) ==
    LET end(k) == IF k = 0 THEN 0 ELSE parts[k].offset + parts[k].len
    IN  /\ \A k \in DOMAIN parts : parts[k].offset = end(k - 1)
        /\ end(Len(parts)) = size

\* A run that reports success has put every object of the source into the item stream,
\* in the order of the walk, or has counted one error for it; and an item of a file that
\* was read has the bytes of the whole file, in order.
SnapshotComplete ==
    Succeeded =>
        /\ Len(stream) + errors = Cardinality(Visible)
        /\ \E place \in [DOMAIN stream -> Visible] :
             /\ \A j, k \in DOMAIN stream : j < k => place[j] < place[k]
             /\ \A k \in DOMAIN stream :
                  LET o == source[place[k]]
                  IN  /\ stream[k].name = o.name
                      /\ o.type = "file" /\ ~o.cached => Tiles(stream[k].parts, o.size)

\* Every run ends, all its threads joined: no thread waits for ever for bytes, for room
\* in a channel or for a message, whichever thread fails or stops first.
EveryRunEnds == <>Returned
================================================================================
