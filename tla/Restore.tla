------------------------------ MODULE Restore -------------------------------
(***************************************************************************)
(* `vykar restore`: the items of a snapshot are read, directories and      *)
(* links are made in a hidden directory below the destination, the chunks  *)
(* of the files are fetched in coalesced ranges by parallel workers that   *)
(* write into the same files, and the result is moved into place.          *)
(*                                                                         *)
(* A byte is a pair of a chunk and a position in it; a file is a sequence  *)
(* of bytes and holes.                                                     *)
(***************************************************************************)
EXTENDS Integers, Sequences, FiniteSets, FiniteSetsExt, SequencesExt, Functions,
        TLC

CONSTANTS
  RestoreScenes,   \* what is stored, asked for and may fail: records
  RestoreThreads,  \* the workers, 1..n
  MaxGap,          \* MAX_COALESCE_GAP
  MaxRead,         \* MAX_READ_SIZE
  MaxBatch,        \* MAX_WRITE_BATCH
  MaxHandles       \* MAX_OPEN_FILES_PER_GROUP

VARIABLES
  rscene,   \* the member of RestoreScenes played; never changes
  rs,       \* the main thread: pc, plan and what is in place
  disk,     \* the output files under the hidden directory: index -> bytes
  wk,       \* the workers
  rfault    \* whether the one request or call that may fail has failed

restoreVars == <<rscene, rs, disk, wk, rfault>>

\* The members of a set in the order Before.
Ranked(S, Before(_, _)) ==
  [k \in 1..Cardinality(S) |->
     CHOOSE x \in S : Cardinality({y \in S : Before(y, x)}) = k - 1]

RFaulty(kind) == kind \in rscene.faults /\ ~rfault

-----------------------------------------------------------------------------
(* What is read                                                            *)

\* A blob decodes where the index says only if it is the blob of that chunk:
\* its envelope is bound to the chunk id.
DecodesAt(loc, c) ==
  \E b \in rscene.blobs : /\ b.chunk = c /\ b.pack = loc.pack
                          /\ b.offset = loc.offset /\ b.stored = loc.stored

PlainSize(c) == (CHOOSE b \in rscene.blobs : b.chunk = c).size
Plain(c) == [i \in 1..PlainSize(c) |-> <<c, i>>]

Resolvable(locs) ==
  \A c \in rscene.ptrs : c \in DOMAIN locs /\ DecodesAt(locs[c], c)

\* The item stream is read through the restore cache; any error there makes
\* the index the second try.
LoadItems ==
  /\ rs.pc = "open"
  /\ \/ /\ rs' = [rs EXCEPT
             !.pc = IF (rscene.cached /\ Resolvable(rscene.cache))
                         \/ Resolvable(rscene.index)
                    THEN "dest" ELSE "failed"]
        /\ UNCHANGED rfault
     \/ /\ RFaulty("items") /\ rfault' = TRUE
        /\ rs' = [rs EXCEPT
             !.pc = IF rscene.cached /\ Resolvable(rscene.index)
                    THEN "dest" ELSE "failed"]
  /\ UNCHANGED <<rscene, disk, wk>>

\* validate_and_prepare_dest, then the hidden directory.
PrepareDest ==
  /\ rs.pc = "dest"
  /\ rs' = IF rscene.dest = "full" THEN [rs EXCEPT !.pc = "failed"]
           ELSE [rs EXCEPT !.pc = "items", !.temp = TRUE]
  /\ UNCHANGED <<rscene, disk, wk, rfault>>

\* The error path after the hidden directory exists: it is removed.
CleanedUp == [rs EXCEPT !.pc = "failed", !.temp = FALSE]

-----------------------------------------------------------------------------
(* stream_and_plan                                                         *)

\* path_matches_selection: the path or one of its ancestors is selected.
Included(path) ==
  rscene.all \/ \E n \in 1..Len(path) : SubSeq(path, 1, n) \in rscene.selected

SizesAgree(item) ==
  \A i \in 1..Len(item.chunks) :
    LET c == item.chunks[i] IN
    /\ c.id \in DOMAIN rs.sizes => rs.sizes[c.id] = c.size
    /\ \A j \in 1..i : item.chunks[j].id = c.id => item.chunks[j].size = c.size

\* Where the chunk at position i of a file goes.
OffsetOf(chunks, i) ==
  FoldSeq(LAMBDA c, sum : c.size + sum, 0, SubSeq(chunks, 1, i - 1))

\* The targets of a chunk are in the order of the stream.
TargetsOf(item, file, c) ==
  LET at == {i \in 1..Len(item.chunks) : item.chunks[i].id = c}
      order == Ranked(at, <)
  IN  [k \in 1..Len(order) |->
         [file |-> file, offset |-> OffsetOf(item.chunks, order[k])]]

Planned(item) ==
  LET f == Len(rs.files) + 1
      cs == {item.chunks[i].id : i \in 1..Len(item.chunks)}
      all == DOMAIN rs.targets \union cs
  IN  [rs EXCEPT
        !.files = Append(@, [path |-> item.path, chunks |-> item.chunks,
                    total |-> OffsetOf(item.chunks, Len(item.chunks) + 1)]),
        !.sizes = [c \in all |->
                     IF c \in DOMAIN @ THEN @[c]
                     ELSE (CHOOSE x \in Range(item.chunks) : x.id = c).size],
        !.targets = [c \in all |->
                       (IF c \in DOMAIN @ THEN @[c] ELSE <<>>)
                         \o TargetsOf(item, f, c)]]

\* One item: directories and links are made at once, a file is planned.  An
\* item that cannot be decoded, or a chunk with two sizes, ends the restore.
PlanItem ==
  /\ rs.pc = "items" /\ rs.done < Len(rscene.items)
  /\ LET item == rscene.items[rs.done + 1]
         next == CASE ~Included(item.path) -> rs
                   [] Included(item.path) /\ item.kind = "file" -> Planned(item)
                   [] OTHER -> [rs EXCEPT !.made = @ \union {item.path}]
     IN  rs' = IF \/ item.kind = "garbled"
                  \/ /\ item.kind = "file" /\ Included(item.path)
                     /\ ~SizesAgree(item)
               THEN CleanedUp
               ELSE [next EXCEPT !.done = @ + 1]
  /\ UNCHANGED <<rscene, disk, wk, rfault>>

-----------------------------------------------------------------------------
(* build_read_groups                                                       *)

BlobOf(c) ==
  [chunk |-> c, pack |-> rscene.index[c].pack,
   offset |-> rscene.index[c].offset, stored |-> rscene.index[c].stored,
   size |-> rs.sizes[c], targets |-> rs.targets[c]]

GroupOf(b) == [pack |-> b.pack, start |-> b.offset,
               end |-> b.offset + b.stored, blobs |-> <<b>>]

\* A blob joins the current group of its pack if the gap and the size of the
\* read allow it.
CoalesceInto(groups, b) ==
  IF /\ groups # <<>> /\ Last(groups).pack = b.pack
     /\ b.offset - Last(groups).end <= MaxGap
     /\ b.offset + b.stored - Last(groups).start <= MaxRead
  THEN Front(groups) \o <<[Last(groups) EXCEPT !.end = b.offset + b.stored,
                                               !.blobs = Append(@, b)]>>
  ELSE Append(groups, GroupOf(b))

\* The blobs by pack and offset, coalesced; the groups come out in the order
\* they are sorted into afterwards.
ReadGroups ==
  LET Before(c, d) ==
        LET x == rscene.index[c]  y == rscene.index[d]
        IN  x.pack < y.pack \/ (x.pack = y.pack /\ x.offset < y.offset)
      order == Ranked(DOMAIN rs.targets, Before)
  IN  FoldLeft(CoalesceInto, <<>>, [k \in DOMAIN order |-> BlobOf(order[k])])

GroupBytes(g) == g.end - g.start

\* lightest_bucket: the first of the smallest.
Lightest(bytes) ==
  Min({i \in DOMAIN bytes : \A j \in DOMAIN bytes : bytes[i] <= bytes[j]})

\* The write accumulator of a worker, when empty.
NoPending == [on |-> FALSE, file |-> 0, start |-> 0, buf |-> <<>>]

Idle == [groups |-> <<>>, blobs |-> <<>>, pend |-> NoPending, write |-> <<>>,
         handles |-> <<>>, pc |-> "done"]

\* The groups are planned through the index, and empty files are made.
PlanReads ==
  /\ rs.pc = "items" /\ rs.done = Len(rscene.items)
  /\ IF rs.files = <<>>
     THEN rs' = [rs EXCEPT !.pc = "move"] /\ UNCHANGED disk
     ELSE IF ~(DOMAIN rs.targets \subseteq DOMAIN rscene.index)
     THEN rs' = CleanedUp /\ UNCHANGED disk
     ELSE /\ disk' = [f \in {i \in DOMAIN rs.files : rs.files[i].total = 0} |->
                        <<>>]
          /\ rs' = [rs EXCEPT !.pc = "deal", !.groups = ReadGroups]
  /\ UNCHANGED <<rscene, wk, rfault>>

Workers == 1..Min({Cardinality(RestoreThreads), Len(rs.groups)})
BytesOf(groups) == FoldSeq(LAMBDA g, sum : GroupBytes(g) + sum, 0, groups)

\* partition_groups, a group at a time: it stays with its pack unless that
\* bucket would get more than 1.3 of its fair share.
DealGroup ==
  LET g == rs.groups[rs.dealt + 1]
      load == [w \in Workers |-> BytesOf(wk[w].groups)]
      cap == ((BytesOf(rs.groups) \div Cardinality(Workers)) * 13) \div 10
      w == IF /\ g.pack \in DOMAIN rs.affinity
              /\ load[rs.affinity[g.pack]] + GroupBytes(g) <= cap
           THEN rs.affinity[g.pack] ELSE Lightest(load)
  IN
  /\ rs.pc = "deal" /\ rs.dealt < Len(rs.groups)
  /\ wk' = [wk EXCEPT ![w].groups = Append(@, g)]
  /\ rs' = [rs EXCEPT !.dealt = @ + 1, !.affinity = (g.pack :> w) @@ @]
  /\ UNCHANGED <<rscene, disk, rfault>>

\* A worker for every bucket that is not empty.
StartWorkers ==
  /\ rs.pc = "deal" /\ rs.dealt = Len(rs.groups)
  /\ wk' = [w \in RestoreThreads |->
              IF wk[w].groups = <<>> THEN wk[w]
              ELSE [wk[w] EXCEPT !.pc = "group"]]
  /\ rs' = [rs EXCEPT !.pc = "read"]
  /\ UNCHANGED <<rscene, disk, rfault>>

-----------------------------------------------------------------------------
(* process_read_group                                                      *)

WriteOf(file, offset, data) == [file |-> file, offset |-> offset, data |-> data]

Flushed(acc) ==
  [acc EXCEPT !.out = IF acc.pend.on
                      THEN Append(@, WriteOf(acc.pend.file, acc.pend.start,
                                             acc.pend.buf))
                      ELSE @,
              !.pend = NoPending]

Contiguous(acc, t) ==
  /\ acc.pend.on /\ acc.pend.file = t.file
  /\ t.offset = acc.pend.start + Len(acc.pend.buf)

\* The write accumulator: what follows on in the same file is collected up to
\* the size of a batch; anything else is flushed first.
PlaceData(acc, data, t) ==
  IF Contiguous(acc, t) /\ Len(acc.pend.buf) + Len(data) <= MaxBatch
  THEN LET more == [acc EXCEPT !.pend.buf = @ \o data]
       IN  IF Len(more.pend.buf) >= MaxBatch THEN Flushed(more) ELSE more
  ELSE IF Contiguous(acc, t) \/ Len(data) >= MaxBatch
  THEN [Flushed(acc) EXCEPT !.out = Append(@, WriteOf(t.file, t.offset, data))]
  ELSE [Flushed(acc) EXCEPT !.pend = [on |-> TRUE, file |-> t.file,
                                      start |-> t.offset, buf |-> data]]

\* A blob decodes to the size the items give it.
BlobGood(b) == DecodesAt(b, b.chunk) /\ PlainSize(b.chunk) = b.size

\* The next group of a worker is fetched; a missing pack or a failing
\* request cancels the others.
FetchGroup(w) ==
  /\ wk[w].pc = "group"
  /\ IF rs.cancelled \/ wk[w].groups = <<>>
     THEN wk' = [wk EXCEPT ![w].pc = "done"] /\ UNCHANGED <<rs, rfault>>
     ELSE LET g == Head(wk[w].groups)
              bad == {b \in rscene.blobs : b.pack = g.pack} = {}
          IN
          \/ /\ ~bad
             /\ wk' = [wk EXCEPT ![w] = [@ EXCEPT !.pc = "blob",
                         !.groups = Tail(@), !.blobs = g.blobs,
                         !.handles = <<>>, !.pend = NoPending]]
             /\ UNCHANGED <<rs, rfault>>
          \/ /\ bad \/ RFaulty("read")
             /\ rfault' = (rfault \/ ~bad)
             /\ wk' = [wk EXCEPT ![w].pc = "failed"]
             /\ rs' = [rs EXCEPT !.cancelled = TRUE]
  /\ UNCHANGED <<rscene, disk>>

\* The targets of a blob are served, or at the end of the group the rest
\* is flushed; what is to be written then is in "write".
Served(me) ==
  LET start == [pend |-> me.pend, out |-> <<>>]
      acc == IF me.blobs = <<>> THEN Flushed(start)
             ELSE LET b == Head(me.blobs)
                  IN  FoldLeft(LAMBDA x, t : PlaceData(x, Plain(b.chunk), t),
                               start, b.targets)
  IN  [me EXCEPT !.pend = acc.pend, !.write = acc.out,
                 !.blobs = IF @ = <<>> THEN @ ELSE Tail(@)]

NextBlobWaiting(w) ==
  LET me == wk[w] IN
  /\ me.pc = "blob" /\ me.write = <<>> /\ ~rs.cancelled
  /\ wk' = [wk EXCEPT ![w] = IF me.blobs = <<>> /\ ~me.pend.on
                             THEN [me EXCEPT !.pc = "group"] ELSE Served(me)]
  /\ UNCHANGED <<rscene, rs, disk, rfault>>

\* The next blob, unless the restore is cancelled.  A blob that does not
\* decode cancels it.
NextBlob(w) ==
  LET me == wk[w]
      stop == me.blobs # <<>> /\ rs.cancelled
      bad == me.blobs # <<>> /\ ~stop /\ ~BlobGood(Head(me.blobs))
  IN
  /\ me.pc = "blob" /\ me.write = <<>>
  /\ wk' = [wk EXCEPT ![w] =
       CASE stop \/ (me.blobs = <<>> /\ ~me.pend.on) ->
              [me EXCEPT !.pc = "group"]
         [] bad -> [me EXCEPT !.pc = "failed"]
         [] OTHER -> Served(me)]
  /\ rs' = [rs EXCEPT !.cancelled = @ \/ bad]
  /\ UNCHANGED <<rscene, disk, rfault>>

\* write_buf: the file is opened, or created, unless a handle is cached; the
\* least recently used handle gives way.
Promoted(handles, f) ==
  IF f \in Range(handles) THEN Append(Remove(handles, f), f)
  ELSE Append(IF Len(handles) >= MaxHandles THEN Tail(handles) ELSE handles, f)

OpenOutput(w) ==
  LET f == Head(wk[w].write).file IN
  /\ wk[w].pc = "blob" /\ wk[w].write # <<>>
  /\ f \notin Range(wk[w].handles)
  /\ \/ /\ disk' = IF f \in DOMAIN disk THEN disk
                   ELSE [x \in DOMAIN disk \union {f} |->
                           IF x = f THEN <<>> ELSE disk[x]]
        /\ rs' = [rs EXCEPT !.created = @ \union {f}]
        /\ wk' = [wk EXCEPT ![w] = [@ EXCEPT
                    !.pc = IF f \in rs.created THEN "blob" ELSE "length",
                    !.handles = Promoted(@, f)]]
        /\ UNCHANGED rfault
     \/ /\ RFaulty("open") /\ rfault' = TRUE
        /\ wk' = [wk EXCEPT ![w].pc = "failed"]
        /\ rs' = [rs EXCEPT !.cancelled = TRUE]
        /\ UNCHANGED disk
  /\ UNCHANGED rscene

Hole == <<"hole", 0>>

Resized(bytes, n) ==
  [i \in 1..n |-> IF i <= Len(bytes) THEN bytes[i] ELSE Hole]

\* The first to open a file sets its length, maybe after others have written.
SetLength(w) ==
  LET f == Last(wk[w].handles) IN
  /\ wk[w].pc = "length"
  /\ disk' = [disk EXCEPT ![f] = Resized(@, rs.files[f].total)]
  /\ wk' = [wk EXCEPT ![w].pc = "blob"]
  /\ UNCHANGED <<rscene, rs, rfault>>

Patched(bytes, offset, data) ==
  [i \in 1..Max({Len(bytes), offset + Len(data)}) |->
     IF i \in offset + 1 .. offset + Len(data) THEN data[i - offset]
     ELSE IF i <= Len(bytes) THEN bytes[i] ELSE Hole]

WriteOutput(w) ==
  LET x == Head(wk[w].write) IN
  /\ wk[w].pc = "blob" /\ wk[w].write # <<>>
  /\ x.file \in Range(wk[w].handles)
  /\ disk' = [disk EXCEPT ![x.file] = Patched(@, x.offset, x.data)]
  /\ rs' = [rs EXCEPT !.bytes = @ + Len(x.data)]
  /\ wk' = [wk EXCEPT ![w] = [@ EXCEPT !.write = Tail(@),
                                       !.handles = Promoted(@, x.file)]]
  /\ UNCHANGED <<rscene, rfault>>

-----------------------------------------------------------------------------
(* The end                                                                 *)

AllEnded == \A w \in RestoreThreads : wk[w].pc \in {"done", "failed"}

JoinIgnoring ==
  /\ rs.pc = "read" /\ AllEnded
  /\ rs' = [rs EXCEPT !.pc = "move"]
  /\ UNCHANGED <<rscene, disk, wk, rfault>>

\* The workers are joined; the first error is the result.
Join ==
  /\ rs.pc = "read" /\ AllEnded
  /\ rs' = IF \E w \in RestoreThreads : wk[w].pc = "failed"
           THEN CleanedUp ELSE [rs EXCEPT !.pc = "move"]
  /\ UNCHANGED <<rscene, disk, wk, rfault>>

\* The top-level entries under the hidden directory.
Entries == {Head(p) : p \in rs.made \union {rs.files[f].path :
                                              f \in DOMAIN rs.files}}

\* An entry is renamed into the destination.
MoveEntry ==
  /\ rs.pc = "move"
  /\ \E e \in Entries \ rs.moved :
       \/ rs' = [rs EXCEPT !.moved = @ \union {e}] /\ UNCHANGED rfault
       \/ RFaulty("rename") /\ rfault' = TRUE /\ rs' = CleanedUp
  /\ UNCHANGED <<rscene, disk, wk>>

\* The hidden directory is empty and goes; then mode, time and attributes of
\* the files are set, whatever comes of it.
FinishRestore ==
  /\ rs.pc = "move" /\ Entries \subseteq rs.moved
  /\ rs' = [rs EXCEPT !.pc = "end", !.temp = FALSE]
  /\ UNCHANGED <<rscene, disk, wk, rfault>>

RestoreInit ==
  /\ rscene \in RestoreScenes
  /\ rs = [pc |-> IF rscene.none THEN "end" ELSE "open", temp |-> FALSE,
           done |-> 0, files |-> <<>>, sizes |-> [c \in {} |-> 0],
           targets |-> [c \in {} |-> <<>>], made |-> {}, groups |-> <<>>, dealt |-> 0,
           affinity |-> <<>>, cancelled |-> FALSE, created |-> {}, bytes |-> 0, moved |-> {}]
  /\ disk = [f \in {} |-> <<>>]
  /\ wk = [w \in RestoreThreads |-> Idle]
  /\ rfault = FALSE

WorkerStep(w) ==
  \/ FetchGroup(w) \/ NextBlob(w) \/ OpenOutput(w)
  \/ SetLength(w) \/ WriteOutput(w)

RestoreNext ==
  \/ LoadItems \/ PrepareDest \/ PlanItem \/ PlanReads \/ DealGroup \/ StartWorkers
  \/ \E w \in RestoreThreads : WorkerStep(w)
  \/ Join \/ MoveEntry \/ FinishRestore

RestoreSpec == RestoreInit /\ [][RestoreNext]_restoreVars
                           /\ WF_restoreVars(RestoreNext)

-----------------------------------------------------------------------------
(* Properties                                                              *)

\* What a file of the snapshot contains.
FileBytes(chunks) == FlattenSeq([i \in 1..Len(chunks) |-> Plain(chunks[i].id)])

InPlace(path) == Head(path) \in rs.moved

\* A file that has arrived in the destination is whole, whatever fails: the
\* workers, a rename, one after others have gone through.
NoPartialFiles ==
  \A f \in DOMAIN rs.files :
    InPlace(rs.files[f].path) =>
      /\ f \in DOMAIN disk
      /\ disk[f] = FileBytes(rs.files[f].chunks)

\* A restore that succeeds has put every selected item into place, has
\* written each of their bytes once, and leaves no hidden directory.
RestoreComplete ==
  (rs.pc = "end" /\ ~rscene.none) =>
    /\ \A i \in 1..Len(rscene.items) :
         LET item == rscene.items[i] IN
         Included(item.path) =>
           /\ InPlace(item.path)
           /\ item.kind = "file" =>
                \E f \in DOMAIN rs.files : /\ rs.files[f].path = item.path
                                           /\ f \in DOMAIN disk
                                           /\ disk[f] = FileBytes(item.chunks)
    /\ rs.bytes = FoldSeq(LAMBDA f, sum : f.total + sum, 0, rs.files)
    /\ ~rs.temp

\* A restore that fails leaves nothing behind, unless the moving itself
\* failed.
FailureLeavesNothing ==
  rs.pc = "failed" =>
    ~rs.temp /\ (rs.moved # {} => rfault /\ "rename" \in rscene.faults)

\* Every chunk of every planned file is in exactly one read, inside its
\* range, with all its targets; a read is within the limit unless it is for
\* a single blob.
PlanCovers ==
  rs.pc = "deal" =>
    /\ \A c \in DOMAIN rs.targets :
         Cardinality({x \in {<<g, b>> : g \in 1..Len(rs.groups),
                                        b \in 1..Cardinality(rscene.blobs)} :
            /\ x[2] <= Len(rs.groups[x[1]].blobs)
            /\ rs.groups[x[1]].blobs[x[2]].chunk = c}) = 1
    /\ \A g \in Range(rs.groups) :
         /\ GroupBytes(g) <= MaxRead \/ Len(g.blobs) = 1
         /\ \A b \in Range(g.blobs) : /\ g.start <= b.offset
                                      /\ b.offset + b.stored <= g.end

\* If the index and the packs are sound and nothing fails, the restore does
\* not fail, however old the restore cache is.
SoundRestoreSucceeds ==
  (rscene.sound /\ rscene.dest # "full" /\ ~rfault) => rs.pc # "failed"

\* All or nothing: the reads cover what is needed, a success has restored all of
\* it, a failure has a reason and leaves neither parts of files nor leftovers.
RestoreSound ==
  /\ PlanCovers /\ RestoreComplete /\ NoPartialFiles
  /\ FailureLeavesNothing /\ SoundRestoreSucceeds

\* The restore has ended: a worker that fails does not leave the others waiting.
RestoreEnded == rs.pc \in {"end", "failed"}

=============================================================================
