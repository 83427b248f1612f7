----------------------------- MODULE WriteSession -----------------------------
(***************************************************************************)
(* The write session of one backup: command dumps with their checkpoint,   *)
(* the sequential walk that reads, batches and deduplicates chunks, the    *)
(* pack writers, the threads that upload packs, the journal of pending     *)
(* packs and the way out when something fails.                             *)
(*                                                                         *)
(* The backup is one thread; what it has left to do is a list of           *)
(* operations, the next one first.  Upload threads, the child process of a *)
(* dump and its watchdog run beside it.  A chunk is a number; chunks of    *)
(* the item stream are numbered from TreeBase on.  Every blob counts as    *)
(* one unit of pack size.  A pack is the number of its sealing.            *)
(***************************************************************************)
EXTENDS Integers, Sequences, FiniteSets, FiniteSetsExt, SequencesExt

CONSTANTS
  WriteScenes,   \* what is backed up and what may go wrong: records
  WriteChunks,   \* chunks there are
  TreeBase,      \* the first item stream chunk, less one
  StreamItems,   \* items per chunk of the item stream
  BatchFiles,    \* small files per batch (CROSS_BATCH_MAX_CHUNKS)
  BatchChunks,   \* chunks of a large file per batch (max_pending_file_actions)
  MaxUploads,    \* max_in_flight_uploads
  Headroom,      \* UPLOAD_QUEUE_HEADROOM
  JournalEvery,  \* JOURNAL_WRITE_INTERVAL
  TargetBase     \* packs up to which the target size is the smallest (50)

VARIABLES
  wscene,   \* the member of WriteScenes played; never changes
  ws,       \* the session
  ops,      \* what the backup thread has to do
  up,       \* upload threads not joined: sequence of [pack, st]
  landed,   \* packs in storage
  sjournal, \* packs in the stored journal
  dp,       \* the process of a dump and its watchdog
  mark      \* what the session held at the last checkpoint

writeVars == <<wscene, ws, ops, up, landed, sjournal, dp, mark>>

NoTracker == [on |-> FALSE]
NoDump == [child |-> "none", watch |-> "none", read |-> 0]
EmptyWriter == [blobs |-> <<>>, refs |-> [c \in WriteChunks |-> 0]]
SessionOver == {"committed", "failed", "killed"}

Running == ws.end = "run"
Now(op) == Running /\ ops # <<>> /\ Head(ops).op = op

-----------------------------------------------------------------------------
(* Pack writers and the dedup index                                        *)

\* compute_data_pack_target: min * sqrt(n / 50) between min and max.
PackTarget(n, min, max) ==
  LET roots == {t \in min..max : t * t * TargetBase <= min * min * n}
  IN  IF roots = {} THEN min ELSE Max(roots)

InDedup(c) == c \in ws.session \/ c \in wscene.committed

\* bump_ref_pending: the pack writer that holds the chunk.
PendingIn(c) ==
  IF ws.data.refs[c] > 0 THEN "data" ELSE IF ws.tree.refs[c] > 0 THEN "tree" ELSE "none"

\* Where a chunk is found by bump_ref_if_exists, and by prefilter_hit, which
\* goes past the filter: dedup index, recovered chunks, pending packs.
Find(c) ==
  IF InDedup(c) THEN "index"
  ELSE IF c \in DOMAIN ws.recovered THEN "recovered" ELSE PendingIn(c)

\* prefilter_miss: the filter has no false negatives, so of the dedup index
\* only what is new in the session is looked up.
FindMiss(c) ==
  IF c \in ws.session THEN "index"
  ELSE IF c \in DOMAIN ws.recovered THEN "recovered" ELSE PendingIn(c)

\* promote_recovered_chunk
Promote(c) ==
  [ws EXCEPT !.recovered = Restrict(@, DOMAIN @ \ {c}),
             !.session = @ \cup {c},
             !.new = Append(@, [chunk |-> c, pack |-> ws.recovered[c], refs |-> 1]),
             !.tracker = IF ws.tracker.on
                         THEN [@ EXCEPT !.promoted = (c :> ws.recovered[c]) @@ @,
                                        !.inserts = @ \cup {c}]
                         ELSE @]

\* The reference counted where the chunk was found.
Bump(c, place) ==
  CASE place = "index" -> [ws EXCEPT !.bumps[c] = @ + 1]
    [] place = "recovered" -> Promote(c)
    [] place = "data" -> [ws EXCEPT !.data.refs[c] = @ + 1]
    [] place = "tree" -> [ws EXCEPT !.tree.refs[c] = @ + 1]

\* PackWriter::add_blob
AddBlob(type, c) ==
  IF type = "data"
  THEN [ws EXCEPT !.data = [blobs |-> Append(@.blobs, c), refs |-> [@.refs EXCEPT ![c] = 1]]]
  ELSE [ws EXCEPT !.tree = [blobs |-> Append(@.blobs, c), refs |-> [@.refs EXCEPT ![c] = 1]]]

Writer(type) == IF type = "data" THEN ws.data ELSE ws.tree
TargetSize(type) == IF type = "data" THEN ws.target ELSE wscene.minPack

\* flush_writer_async in three operations, to be done in this order.
FlushOps(type, abort) ==
  <<[op |-> "drain", type |-> type, abort |-> abort],
    [op |-> "cap", type |-> type, abort |-> abort],
    [op |-> "seal", type |-> type, abort |-> abort]>>

FlushPending(type, abort) == IF Writer(type).blobs = <<>> THEN <<>> ELSE FlushOps(type, abort)

\* After an error: a dump is rolled back, then the session is wound up.
ErrorOps ==
  (IF ws.tracker.on THEN <<[op |-> "rollback"]>> ELSE <<>>) \o <<[op |-> "abort"]>>

\* store_chunk, or process_worker_chunks with the outcome of the filter; the
\* pack is flushed when it is full, or when it is old.
StoreChunk ==
  LET c     == Head(ops).chunk
      type  == Head(ops).type
      place == IF Head(ops).how = "filtered" /\ wscene.tiered /\ c \notin wscene.filter
               THEN FindMiss(c) ELSE Find(c)
  IN  /\ Now("chunk")
      /\ IF place # "none" THEN ws' = Bump(c, place) /\ ops' = Tail(ops)
         ELSE IF Head(ops).how = "hit" THEN ws' = ws /\ ops' = ErrorOps
         ELSE /\ ws' = AddBlob(type, c)
              /\ \E old \in {FALSE, wscene.slow} :
                   ops' = (IF old \/ Len(Writer(type).blobs) + 1 >= TargetSize(type)
                           THEN FlushOps(type, FALSE) ELSE <<>>) \o Tail(ops)
      /\ UNCHANGED <<wscene, up, landed, sjournal, dp, mark>>

-----------------------------------------------------------------------------
(* Uploads and the journal                                                 *)

\* write_pending_index_best_effort
WriteJournal(session, fail) ==
  IF session.journal = {} \/ fail THEN session
  ELSE [session EXCEPT !.jlast = Cardinality(session.journal)]

JournalPut(session, fail) ==
  sjournal' = IF session.journal = {} \/ fail THEN sjournal ELSE session.journal

\* maybe_write_pending_index
MaybeWriteJournal(session) == Cardinality(session.journal) >= session.jlast + JournalEvery

Fails == {FALSE, wscene.flakyJournal}

\* An error of the flush: fatal, but only logged while winding up.
FlushError(n) == ops' = IF Head(ops).abort THEN SubSeq(ops, n + 1, Len(ops)) ELSE ErrorOps

\* drain_finished_uploads: threads that have ended are joined up to the first
\* that failed.
Drain ==
  LET bad   == {i \in DOMAIN up : up[i].st = "bad"}
      stays == SelectSeq(up, LAMBDA u : u.st = "flying")
  IN  /\ Now("drain")
      /\ IF bad # {}
         THEN /\ up' = SelectSeq(SubSeq(up, 1, Min(bad) - 1), LAMBDA u : u.st = "flying")
                         \o SubSeq(up, Min(bad) + 1, Len(up))
              /\ FlushError(3) /\ UNCHANGED <<ws, sjournal>>
         ELSE /\ up' = stays
              /\ ops' = Tail(ops)
              /\ \E fail \in Fails :
                   IF MaybeWriteJournal(ws)
                   THEN ws' = WriteJournal(ws, fail) /\ JournalPut(ws, fail)
                   ELSE UNCHANGED <<ws, sjournal>>
      /\ UNCHANGED <<wscene, landed, dp, mark>>

\* Vec::swap_remove(0)
SwapRemoveFirst(s) == IF Len(s) = 1 THEN <<>> ELSE <<Last(s)>> \o SubSeq(s, 2, Len(s) - 1)

\* cap_pending_uploads: with all slots taken, wait for the first thread.
Cap ==
  /\ Now("cap")
  /\ IF Len(up) < MaxUploads + Headroom
     THEN ops' = Tail(ops) /\ UNCHANGED <<ws, up, sjournal>>
     ELSE /\ up[1].st # "flying"
          /\ up' = SwapRemoveFirst(up)
          /\ IF up[1].st = "bad" THEN FlushError(2) /\ UNCHANGED <<ws, sjournal>>
             ELSE /\ ops' = Tail(ops)
                  /\ \E fail \in Fails :
                       IF MaybeWriteJournal(ws)
                       THEN ws' = WriteJournal(ws, fail) /\ JournalPut(ws, fail)
                       ELSE UNCHANGED <<ws, sjournal>>
  /\ UNCHANGED <<wscene, landed, dp, mark>>

\* The pack is sealed: target size, journal, tracker, dedup index and delta.
Seal ==
  LET type == Head(ops).type
      w    == Writer(type)
      pack == ws.packs + 1
      news == [i \in DOMAIN w.blobs |->
                 [chunk |-> w.blobs[i], pack |-> pack, refs |-> w.refs[w.blobs[i]]]]
      flushed == ws.flushed + (IF type = "data" THEN 1 ELSE 0)
      sealed == [ws EXCEPT
        !.packs = pack,
        !.flushed = flushed,
        !.target = IF type = "data"
                   THEN PackTarget(wscene.persisted + flushed, wscene.minPack, wscene.maxPack)
                   ELSE @,
        !.journal = @ \cup {pack},
        !.session = @ \cup Range(w.blobs),
        !.new = @ \o news,
        !.tracker = IF ws.tracker.on
                    THEN [@ EXCEPT !.sealed = @ \cup {pack}, !.inserts = @ \cup Range(w.blobs)]
                    ELSE @]
  IN  /\ Now("seal")
      /\ ws' = IF type = "data" THEN [sealed EXCEPT !.data = EmptyWriter]
               ELSE [sealed EXCEPT !.tree = EmptyWriter]
      /\ up' = Append(up, [pack |-> pack, st |-> "flying"])
      /\ ops' = Tail(ops)
      /\ UNCHANGED <<wscene, landed, sjournal, dp, mark>>

\* An upload thread ends; a thread of a killed process may or may not.
Upload ==
  \E i \in DOMAIN up :
    /\ up[i].st = "flying"
    /\ \/ /\ up' = [up EXCEPT ![i].st = "ok"]
          /\ landed' = landed \cup {up[i].pack}
       \/ /\ wscene.flakyUpload
          /\ up' = [up EXCEPT ![i].st = "bad"]
          /\ UNCHANGED landed
    /\ UNCHANGED <<wscene, ws, ops, sjournal, dp, mark>>

AllEnded == \A i \in DOMAIN up : up[i].st # "flying"

WaitOnlyLast ==
  /\ Now("wait")
  /\ up = <<>> \/ up[Len(up)].st # "flying"
  /\ up' = <<>>
  /\ \E fail \in Fails :
       /\ ws' = WriteJournal(ws, fail) /\ JournalPut(ws, fail)
       /\ ops' = IF up # <<>> /\ up[Len(up)].st = "bad" THEN ErrorOps ELSE Tail(ops)
  /\ UNCHANGED <<wscene, landed, dp, mark>>

\* wait_pending_uploads
WaitUploads ==
  /\ Now("wait") /\ AllEnded
  /\ up' = <<>>
  /\ \E fail \in Fails :
       /\ ws' = WriteJournal(ws, fail) /\ JournalPut(ws, fail)
       /\ ops' = IF \E i \in DOMAIN up : up[i].st = "bad" THEN ErrorOps ELSE Tail(ops)
  /\ UNCHANGED <<wscene, landed, dp, mark>>

-----------------------------------------------------------------------------
(* Command dumps                                                           *)

Dump(d) == wscene.dumps[d]
ChunkOp(c, type, how) == [op |-> "chunk", chunk |-> c, type |-> type, how |-> how]
ItemOp(i) == [op |-> "item", item |-> i]

\* begin_dump_checkpoint: the data pack is flushed, then ...
BeginDump ==
  /\ Now("dump")
  /\ ops' = FlushPending("data", FALSE) \o <<[op |-> "spawn", dump |-> Head(ops).dump]>> \o Tail(ops)
  /\ UNCHANGED <<wscene, ws, up, landed, sjournal, dp, mark>>

Held == [new |-> ws.new, bumps |-> ws.bumps, session |-> ws.session,
         recovered |-> ws.recovered, journal |-> ws.journal, target |-> ws.target]

\* ... the tracker is armed and the command starts with its watchdog.
SpawnDump ==
  /\ Now("spawn")
  /\ ws' = [ws EXCEPT !.tracker = [on |-> TRUE, len |-> Len(ws.new), bumps |-> ws.bumps,
                                   inserts |-> {}, promoted |-> <<>>, sealed |-> {},
                                   target |-> ws.target]]
  /\ mark' = Held
  /\ dp' = [child |-> "alive", watch |-> "armed", read |-> 0]
  /\ ops' = <<[Head(ops) EXCEPT !.op = "pull"]>> \o Tail(ops)
  /\ UNCHANGED <<wscene, up, landed, sjournal>>

\* The next chunk of the output; the output ends when the command has ended
\* or has been killed.
PullDump ==
  LET d    == Head(ops).dump
      more == dp.child = "alive" /\ dp.read < Len(Dump(d).chunks)
  IN  /\ Now("pull")
      /\ dp' = IF more THEN [dp EXCEPT !.read = @ + 1] ELSE dp
      /\ ops' = IF more THEN <<ChunkOp(Dump(d).chunks[dp.read + 1], "data", "plain")>> \o ops
                ELSE <<[Head(ops) EXCEPT !.op = "reap"]>> \o Tail(ops)
      /\ UNCHANGED <<wscene, ws, up, landed, sjournal, mark>>

\* finish: wait for the child, ...
ReapDump ==
  /\ Now("reap")
  /\ dp' = [dp EXCEPT !.child = IF @ = "alive" THEN "exited" ELSE @]
  /\ ops' = <<[Head(ops) EXCEPT !.op = "cancel"]>> \o Tail(ops)
  /\ UNCHANGED <<wscene, ws, up, landed, sjournal, mark>>

\* ... cancel the watchdog and join it.  The dump counts if the watchdog had
\* not fired and the command succeeded; then the checkpoint is dropped.
CancelDump ==
  LET d  == Head(ops).dump
      ok == dp.watch # "fired" /\ dp.child = "exited" /\ Dump(d).ok
  IN  /\ Now("cancel")
      /\ ops' = IF ok THEN <<ItemOp(-d)>> \o Tail(ops) ELSE ErrorOps
      /\ dp' = [dp EXCEPT !.watch = "joined"]
      /\ ws' = IF ok THEN [ws EXCEPT !.tracker = NoTracker] ELSE ws
      /\ UNCHANGED <<wscene, up, landed, sjournal, mark>>

\* The watchdog: the child is killed when the time is up; a child that has
\* exited is not affected, but the dump counts as timed out.
Watchdog ==
  /\ wscene.slow /\ dp.watch = "armed"
  /\ dp' = [dp EXCEPT !.watch = "fired", !.child = IF @ = "alive" THEN "killed" ELSE @]
  /\ UNCHANGED <<wscene, ws, ops, up, landed, sjournal, mark>>

RolledBackKeepingPromoted ==
  [ws EXCEPT !.new = SubSeq(@, 1, ws.tracker.len),
             !.bumps = ws.tracker.bumps,
             !.session = @ \ ws.tracker.inserts,
             !.journal = @ \ ws.tracker.sealed,
             !.data = EmptyWriter,
             !.target = ws.tracker.target,
             !.tracker = NoTracker]

\* rollback_dump_checkpoint
RolledBack ==
  [ws EXCEPT !.new = SubSeq(@, 1, ws.tracker.len),
             !.bumps = ws.tracker.bumps,
             !.session = @ \ ws.tracker.inserts,
             !.recovered = ws.tracker.promoted @@ @,
             !.journal = @ \ ws.tracker.sealed,
             !.data = EmptyWriter,
             !.target = ws.tracker.target,
             !.tracker = NoTracker]

\* The guard kills the child and joins the watchdog; then the checkpoint is
\* rolled back.
Rollback ==
  /\ Now("rollback")
  /\ ws' = RolledBack
  /\ dp' = [dp EXCEPT !.child = IF @ = "alive" THEN "killed" ELSE @, !.watch = "joined"]
  /\ ops' = Tail(ops)
  /\ UNCHANGED <<wscene, up, landed, sjournal, mark>>

-----------------------------------------------------------------------------
(* The sequential walk                                                     *)

WalkEntry(i) == wscene.entries[i]
FlushBatchOp == [op |-> "batch"]
DataOps(cs) == [k \in DOMAIN cs |-> ChunkOp(cs[k], "data", "filtered")]
HitOps(cs) == [k \in DOMAIN cs |-> ChunkOp(cs[k], "data", "hit")]
Skipped == [ws EXCEPT !.errors = @ + 1]

\* One entry of the walk.  Small files wait in the batch; everything else
\* flushes the batch first so that items keep the order of the walk.
ExamineAfter(flush) ==
  LET i == Head(ops).entry
      e == WalkEntry(i)
      rest == Tail(ops)
  IN  /\ Now("entry")
      /\ \/ /\ e.kind = "dir" \/ (e.kind \in {"small", "large"} /\ e.hit)
            /\ ops' = flush \o HitOps(e.chunks) \o <<ItemOp(i)>> \o rest
            /\ UNCHANGED ws
         \/ /\ e.kind = "small" /\ ~e.hit /\ e.failAt # 1
            /\ ws' = [ws EXCEPT !.batch = Append(@, i)]
            /\ ops' = (IF Len(ws.batch) + 1 >= BatchFiles THEN <<FlushBatchOp>> ELSE <<>>) \o rest
         \/ /\ e.kind = "small" /\ ~e.hit /\ e.failAt = 1
            /\ ws' = Skipped /\ ops' = rest
         \/ /\ e.kind = "large" /\ ~e.hit
            /\ ops' = flush \o <<[op |-> "large", entry |-> i, from |-> 1], ItemOp(i)>> \o rest
            /\ UNCHANGED ws
         \/ e.kind = "special" /\ ops' = rest /\ UNCHANGED ws
         \/ e.kind = "skipped" /\ ops' = rest /\ ws' = Skipped
         \/ e.kind = "hard" /\ ops' = ErrorOps /\ UNCHANGED ws
      /\ UNCHANGED <<wscene, up, landed, sjournal, dp, mark>>

Examine == ExamineAfter(<<FlushBatchOp>>)

\* flush_cross_file_batch: chunks and items of its files in their order.
FlushBatch ==
  /\ Now("batch")
  /\ ops' = FlattenSeq([k \in DOMAIN ws.batch |->
                          DataOps(WalkEntry(ws.batch[k]).chunks) \o <<ItemOp(ws.batch[k])>>])
              \o Tail(ops)
  /\ ws' = [ws EXCEPT !.batch = <<>>]
  /\ UNCHANGED <<wscene, up, landed, sjournal, dp, mark>>

\* flush_regular_file_batch
FlushFileBatch(e, from, to) == DataOps(SubSeq(e.chunks, from, to))

\* The chunk loop of process_regular_file_item:
\* a soft error drops the batch that was being filled and skips the file.
ReadLarge ==
  LET e    == WalkEntry(Head(ops).entry)
      from == Head(ops).from
      to   == Min({from + BatchChunks - 1, Len(e.chunks)})
  IN  /\ Now("large")
      /\ IF e.failAt \in from..to
         THEN ops' = SubSeq(ops, 3, Len(ops)) /\ ws' = Skipped
         ELSE /\ ops' = FlushFileBatch(e, from, to)
                          \o (IF to < Len(e.chunks)
                              THEN <<[Head(ops) EXCEPT !.from = to + 1]>> ELSE <<>>)
                          \o Tail(ops)
              /\ UNCHANGED ws
      /\ UNCHANGED <<wscene, up, landed, sjournal, dp, mark>>

TreeChunk == TreeBase + Len(ws.items)

\* append_item_to_stream
AppendItem ==
  LET items == Append(ws.items, Head(ops).item)
      full  == ws.stream + 1 >= StreamItems
  IN  /\ Now("item")
      /\ ws' = [ws EXCEPT !.items = items, !.stream = IF full THEN 0 ELSE @ + 1,
                          !.ptrs = IF full THEN Append(@, TreeBase + Len(items)) ELSE @]
      /\ ops' = (IF full THEN <<ChunkOp(TreeBase + Len(items), "tree", "plain")>> ELSE <<>>)
                  \o Tail(ops)
      /\ UNCHANGED <<wscene, up, landed, sjournal, dp, mark>>

\* flush_item_stream_chunk at the end of the walk, then flush_packs.
EndStream ==
  /\ Now("end")
  /\ ws' = IF ws.stream = 0 THEN ws
           ELSE [ws EXCEPT !.stream = 0, !.ptrs = Append(@, TreeChunk)]
  /\ ops' = (IF ws.stream = 0 THEN <<>> ELSE <<ChunkOp(TreeChunk, "tree", "plain")>>) \o Tail(ops)
  /\ UNCHANGED <<wscene, up, landed, sjournal, dp, mark>>

FlushPacks ==
  /\ Now("flush")
  /\ ops' = FlushPending("data", FALSE) \o FlushPending("tree", FALSE) \o Tail(ops)
  /\ UNCHANGED <<wscene, ws, up, landed, sjournal, dp, mark>>

\* The commit, which may fail, and removes the journal when it does not.
CommitSession ==
  /\ Now("commit")
  /\ \/ /\ ws' = [ws EXCEPT !.end = "committed"] /\ ops' = <<>> /\ sjournal' = {}
     \/ /\ wscene.flakyCommit /\ ops' = ErrorOps /\ UNCHANGED <<ws, sjournal>>
  /\ UNCHANGED <<wscene, up, landed, dp, mark>>

\* flush_on_abort: partial packs are flushed, uploads joined, and the
\* journal is written.
Abort ==
  /\ Now("abort")
  /\ ops' = FlushPending("data", TRUE) \o FlushPending("tree", TRUE) \o <<[op |-> "join"]>>
  /\ UNCHANGED <<wscene, ws, up, landed, sjournal, dp, mark>>

AbortWithoutJournal ==
  /\ Now("join") /\ AllEnded
  /\ up' = <<>>
  /\ ws' = [ws EXCEPT !.end = "failed"]
  /\ ops' = <<>>
  /\ UNCHANGED <<wscene, landed, sjournal, dp, mark>>

JoinAborted ==
  /\ Now("join") /\ AllEnded
  /\ up' = <<>>
  /\ \E fail \in Fails :
       /\ ws' = [WriteJournal(ws, fail) EXCEPT !.end = "failed"]
       /\ JournalPut(ws, fail)
  /\ ops' = <<>>
  /\ UNCHANGED <<wscene, landed, dp, mark>>

Kill ==
  /\ wscene.mayDie /\ Running
  /\ ws' = [ws EXCEPT !.end = "killed"]
  /\ UNCHANGED <<wscene, ops, up, landed, sjournal, dp, mark>>

-----------------------------------------------------------------------------
(* Specification                                                           *)

NoneOf == [c \in WriteChunks |-> 0]

InitialOps(s) ==
  (IF s.dumps = <<>> THEN <<>>
   ELSE <<ItemOp(0)>> \o [d \in DOMAIN s.dumps |-> [op |-> "dump", dump |-> d]])
    \o [i \in DOMAIN s.entries |-> [op |-> "entry", entry |-> i]]
    \o <<FlushBatchOp, [op |-> "end"], [op |-> "flush"], [op |-> "wait"], [op |-> "commit"]>>

WriteInit ==
  /\ wscene \in WriteScenes
  /\ ws = [data |-> EmptyWriter, tree |-> EmptyWriter, session |-> {}, new |-> <<>>,
           bumps |-> NoneOf, journal |-> {}, jlast |-> 0, recovered |-> wscene.recovered,
           flushed |-> 0, packs |-> 0, tracker |-> NoTracker, items |-> <<>>,
           target |-> PackTarget(wscene.persisted, wscene.minPack, wscene.maxPack),
           batch |-> <<>>, stream |-> 0, ptrs |-> <<>>, errors |-> 0,
           end |-> IF wscene.idle THEN "committed" ELSE "run"]
  /\ ops = InitialOps(wscene)
  /\ up = <<>> /\ landed = {} /\ sjournal = {} /\ dp = NoDump
  /\ mark = [new |-> <<>>]

BackupThread ==
  \/ StoreChunk \/ Drain \/ Cap \/ Seal \/ WaitUploads
  \/ BeginDump \/ SpawnDump \/ PullDump \/ ReapDump \/ CancelDump \/ Rollback
  \/ Examine \/ FlushBatch \/ ReadLarge \/ AppendItem \/ EndStream \/ FlushPacks
  \/ CommitSession \/ Abort \/ JoinAborted

WriteNext == BackupThread \/ Upload \/ Watchdog \/ Kill

WriteProgress == WF_writeVars(BackupThread) /\ WF_writeVars(Upload)

WriteSpec == WriteInit /\ [][WriteNext]_writeVars /\ WriteProgress

-----------------------------------------------------------------------------
(* Properties                                                              *)

ChunksOf(i) ==
  CASE i > 0 -> WalkEntry(i).chunks [] i < 0 -> Dump(-i).chunks [] OTHER -> <<>>

\* References of the snapshot to a chunk.
Needed(c) ==
  FoldLeft(LAMBDA n, i : n + Cardinality({k \in DOMAIN ChunksOf(i) : ChunksOf(i)[k] = c}),
           Cardinality({k \in DOMAIN ws.ptrs : ws.ptrs[k] = c}), ws.items)

\* References the delta of the session adds.
Counted(c) ==
  ws.bumps[c] + MapThenSumSet(LAMBDA k : ws.new[k].refs, {k \in DOMAIN ws.new : ws.new[k].chunk = c})

Torn == \E i \in DOMAIN wscene.entries : WalkEntry(i).kind = "large" /\ WalkEntry(i).failAt > BatchChunks

\* The delta that is committed counts every reference of the snapshot, to
\* chunks found in the index, recovered, pending in a pack or new; it counts
\* no other, except those of a large file that was given up half-way.
RefsCounted ==
  ws.end = "committed" /\ ~wscene.idle =>
    \A c \in WriteChunks : Needed(c) <= Counted(c) /\ (Torn \/ Needed(c) = Counted(c))

\* What is committed can be read: every chunk of the snapshot was in the
\* index, or the delta gives it a pack that has been uploaded.
CommittedIsStored ==
  ws.end = "committed" =>
    /\ \A k \in DOMAIN ws.new : ws.new[k].pack \in landed \cup Range(wscene.recovered)
    /\ \A c \in WriteChunks : Needed(c) > 0 =>
         c \in wscene.committed \/ \E k \in DOMAIN ws.new : ws.new[k].chunk = c

\* A chunk is written once: not when the index, the session or the recovered
\* packs have it, whatever the filter says.
StoredOnce ==
  \A k \in DOMAIN ws.new :
    /\ ws.new[k].chunk \notin wscene.committed
    /\ \A j \in DOMAIN ws.new : j # k => ws.new[j].chunk # ws.new[k].chunk

\* Items are written in the order of the walk, dumps first.
ItemsInWalkOrder ==
  \A j, k \in DOMAIN ws.items : j < k /\ ws.items[j] > 0 =>
    ws.items[k] > ws.items[j]

\* A dump is in the snapshot only with all its output, from a command that
\* succeeded and was not killed by the watchdog.
DumpsComplete ==
  \A k \in DOMAIN ws.items : ws.items[k] < 0 =>
    /\ Dump(-ws.items[k]).ok
    /\ k = Len(ws.items) => dp.child # "killed"

\* What a backup commits is what it walked and ran, and the index delta that
\* goes with it has every chunk of it once, stored, with all its references.
CommitSound ==
  RefsCounted /\ CommittedIsStored /\ StoredOnce /\ ItemsInWalkOrder /\ DumpsComplete

\* Rolling back a dump leaves delta, dedup index, recovered chunks, journal
\* and target size as they were at the checkpoint (rollback_dump_checkpoint).
RollbackExact == [][Rollback => Held' = mark]_writeVars

\* No more uploads are in flight than slots and headroom.
UploadsBounded == Len(up) <= MaxUploads + Headroom

\* A crash loses the record of at most JournalEvery packs.
JournalLag ==
  ~wscene.flakyJournal /\ wscene.dumps = <<>> /\ ws.end \in {"run", "killed"} =>
    Cardinality(ws.journal \ sjournal) <= JournalEvery

\* A backup that fails leaves a journal of every pack it has uploaded, except
\* those of a dump that was rolled back, for the next backup to recover.
FailureKeepsProgress ==
  ws.end = "failed" /\ ~wscene.flakyJournal => ws.journal \cap landed \subseteq sjournal

\* What a crash or a failure can lose of the packs of a backup is bounded: those
\* in flight and, after a crash, those since the last journal.
LossBounded == UploadsBounded /\ JournalLag /\ FailureKeepsProgress

\* Nothing of a dump outlives the backup that started it.
DumpsReaped ==
  ws.end \in {"committed", "failed"} => dp.child # "alive" /\ dp.watch \notin {"armed", "fired"}

\* The backup has committed, failed or been killed, and its dumps with it.
SessionEnded == ws.end \in SessionOver /\ DumpsReaped
=============================================================================
