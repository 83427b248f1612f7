---------------------------- MODULE CheckRepair -----------------------------
(***************************************************************************)
(* `vykar check`, with and without the help of the server, and             *)
(* `vykar check --repair` as a plan or applied.                            *)
(*                                                                         *)
(* A snapshot has item pointers and file chunks; a pack is there or not,   *)
(* its header is good or not, and some of its chunks may be damaged.       *)
(* Reading damaged data is told apart from a request that fails: whether   *)
(* the code can tell them apart depends on the backend.                    *)
(***************************************************************************)
EXTENDS Integers, Sequences, FiniteSets, FiniteSetsExt, SequencesExt, Functions

CONSTANTS
  CheckScenes,    \* what is stored, what is run and what may fail: records
  BatchThreshold, \* chunks from which on a pack is fetched as a whole
  VerifyBatch,    \* SERVER_VERIFY_BATCH_SIZE
  VerifyBytes     \* SERVER_VERIFY_MAX_BYTES and MAX_VERIFY_BYTES

VARIABLES
  task,     \* the member of CheckScenes played; never changes
  snaps,    \* the snapshot objects: id -> "ok", "corrupt", "garbled", "junk"
  stored,   \* the index object: chunk -> [pack, refs]
  chk,      \* the command
  stamp,    \* whether a successful full check has been recorded
  failed    \* whether the one request that may fail has failed

checkVars == <<task, snaps, stored, chk, stamp, failed>>

Content(id) == task.content[id]
Chunks(id) == Content(id).ptrs \union Content(id).files

Refers(id, c) == (IF c \in Content(id).ptrs THEN 1 ELSE 0)
                   + (IF c \in Content(id).files THEN 1 ELSE 0)

Has(p) == task.packs[p].there
Bad(p) == task.packs[p].bad

\* The chunks an index places in a pack.
InPack(index, p) == {c \in DOMAIN index : index[c].pack = p}
PacksOf(index) == {index[c].pack : c \in DOMAIN index}

\* A chunk that can be fetched, decrypted and decompressed.
Fetches(index, c) ==
  /\ c \in DOMAIN index
  /\ Has(index[c].pack) /\ c \notin Bad(index[c].pack)

\* A request may fail once, where the scene says so.
Faulty(kind) == kind \in task.faults /\ ~failed

\* is_transient_io: only errors of the local file system are told apart; the
\* remote backends report every error as VykarError::Other.
IsTransient == task.backend = "local"

-----------------------------------------------------------------------------
(* What is listed                                                          *)

\* refresh_snapshot_cache: what the local cache knows is not read again; the
\* others must be readable.
Manifest == {id \in DOMAIN snaps :
               snaps[id] \in {"ok", "garbled"}
                 \/ (snaps[id] = "corrupt" /\ id \in task.cached)}

Effective ==
  IF task.percent = 100 \/ task.full = "due" THEN 100 ELSE task.percent

\* How many of n are kept in a sample.
SampleSize(n) ==
  Min({n, Max({1, (n * Effective + 99) \div 100})})

\* Open: the snapshots are listed.  A cached snapshot needs no request; one
\* whose object cannot be fetched is left out.
OpenCheck ==
  /\ chk.pc = "open"
  /\ IF task.mode = "check" /\ Effective = 0
     THEN chk' = [chk EXCEPT !.pc = "end"] /\ UNCHANGED failed
     ELSE \/ /\ chk' = [chk EXCEPT !.pc = "index", !.listed = Manifest]
             /\ UNCHANGED failed
          \/ /\ Faulty("list") /\ failed' = TRUE
             /\ \E id \in Manifest \ task.cached :
                  chk' = [chk EXCEPT !.pc = "index", !.listed = Manifest \ {id}]
  /\ UNCHANGED <<task, snaps, stored, stamp>>

\* load_chunk_index_uncached, and the sample of the packs.
LoadFresh ==
  LET all == PacksOf(stored) IN
  /\ chk.pc = "index"
  /\ \E keep \in IF task.mode = "check" /\ Effective < 100 /\ all # {}
                 THEN kSubset(SampleSize(Cardinality(all)), all) ELSE {all} :
       \E queue \in SetToSeqs(keep) :
         chk' = [chk EXCEPT !.index = stored,
                   !.skip = all \ keep,
                   !.queue = queue,
                   !.pc = IF task.mode = "check" THEN "server" ELSE "refresh"]
  /\ UNCHANGED <<task, snaps, stored, stamp, failed>>

\* refresh_snapshot_list, strict: any failing request ends the command.
RefreshList ==
  /\ chk.pc = "refresh"
  /\ \/ chk' = [chk EXCEPT !.pc = "orphans", !.listed = Manifest,
                           !.todo = DOMAIN snaps \ Manifest]
        /\ UNCHANGED failed
     \/ /\ Faulty("list") /\ failed' = TRUE
        /\ DOMAIN snaps \ task.cached # {}
        /\ chk' = [chk EXCEPT !.pc = "failed"]
  /\ UNCHANGED <<task, snaps, stored, stamp>>

-----------------------------------------------------------------------------
(* try_server_verify, and execute_verify_packs on the server               *)

\* estimate_pack_bytes, and the size of the file, dead blobs included.
Estimate(p) == 1 + Cardinality(InPack(chk.index, p))
FileSize(p) == IF Has(p) THEN task.packs[p].size ELSE 0

Total(size(_), ps) == FoldSeq(LAMBDA p, sum : size(p) + sum, 0, ps)

\* The packs of the next request: few enough and, beyond the first, small
\* enough.
Batch ==
  LET fits == {n \in 1..Min({VerifyBatch, Len(chk.queue)}) :
                 n = 1 \/ Total(Estimate, SubSeq(chk.queue, 1, n))
                            <= VerifyBytes}
  IN  SubSeq(chk.queue, 1, Max(fits))

\* The packs the server gets through: it stops before the file that would go
\* past the limit.
Processed(batch) ==
  LET fits == {n \in 0..Len(batch) : \A m \in 1..n :
                 Has(batch[m]) =>
                   Total(FileSize, SubSeq(batch, 1, m)) <= VerifyBytes}
  IN  SubSeq(batch, 1, Max(fits))

\* verify_single_pack: hash, header and blob boundaries of the whole file.
ServerAccepts(p) == Has(p) /\ task.packs[p].header /\ Bad(p) = {}

CoveredAll(batch, results) == Len(batch)

\* How many packs of the request count as verified: all, unless truncated.
Covered(batch, results) ==
  IF Len(results) < Len(batch) THEN Len(results) ELSE Len(batch)

\* One request, and process_verify_response.  A pack the server did not get
\* to stays for the client; the first one is not asked for again.
ServerVerify ==
  LET results == Processed(Batch)
      n == Covered(Batch, results)
  IN
  /\ chk.pc = "server"
  /\ task.server /\ chk.queue # <<>> /\ Total(Estimate, Batch) <= VerifyBytes
  /\ chk' = [chk EXCEPT
       !.skip = @ \union Range(SubSeq(chk.queue, 1, n)),
       !.errors = @ \union {p \in Range(results) : ~ServerAccepts(p)},
       !.queue = SubSeq(@, Max({n, 1}) + 1, Len(@))]
  /\ UNCHANGED <<task, snaps, stored, stamp, failed>>

\* The request fails, or the server refuses it as too large: nothing is
\* verified if it was the first, else the packs before it stay verified.
ServerFails ==
  /\ chk.pc = "server"
  /\ task.server /\ chk.queue # <<>>
  /\ \/ Total(Estimate, Batch) > VerifyBytes /\ UNCHANGED failed
     \/ Faulty("server") /\ failed' = TRUE
  /\ chk' = [chk EXCEPT !.queue = <<>>]
  /\ UNCHANGED <<task, snaps, stored, stamp>>

\* The queue is empty, or the backend has no such request; the snapshots to
\* check are sampled.
ServerEnds ==
  /\ chk.pc = "server"
  /\ ~task.server \/ chk.queue = <<>>
  /\ \E sample \in
       IF Effective = 100 \/ chk.listed = {} THEN {chk.listed}
       ELSE kSubset(SampleSize(Cardinality(chk.listed)), chk.listed) :
         chk' = [chk EXCEPT !.pc = "snapshots", !.todo = sample]
  /\ UNCHANGED <<task, snaps, stored, stamp, failed>>

-----------------------------------------------------------------------------
(* integrity_scan                                                          *)

Issue(kind, at) == [kind |-> kind, at |-> at]
CorruptSnapshot(id) == Issue("CorruptSnapshot", id)
InvalidKey(id) == Issue("InvalidSnapshotKey", id)
Dangling(id) == Issue("Dangling", id)
Unreadable(id) == Issue("UnreadableSnapshot", id)
ReadFailed(id) == Issue("SnapshotReadFailed", id)
MissingPack(p) == Issue("MissingPack", p)
CorruptPack(p) == Issue("CorruptPackContent", p)
CorruptChunk(c) == Issue("CorruptChunk", c)
CheckFailed(p) == Issue("PackExistenceCheckFailed", p)

Found(issues) == [chk EXCEPT !.issues = @ \union issues]

\* Objects under snapshots/ that are not in the manifest.
OrphanIssue(id) == IF snaps[id] = "junk" THEN InvalidKey(id)
                   ELSE CorruptSnapshot(id)

ScanOrphan ==
  /\ chk.pc = "orphans"
  /\ \E id \in chk.todo :
       /\ \/ chk' = [Found({OrphanIssue(id)}) EXCEPT !.todo = @ \ {id}]
             /\ UNCHANGED failed
          \/ /\ snaps[id] # "junk" /\ Faulty("meta") /\ failed' = TRUE
             /\ chk' = [Found({ReadFailed(id)}) EXCEPT !.todo = @ \ {id}]
  /\ UNCHANGED <<task, snaps, stored, stamp>>

\* What a snapshot's own data say, and the chunks it is known to refer to;
\* nothing of a garbled item stream can be decoded.
SnapshotIssues(index, id) ==
  LET c == Content(id) IN
  CASE snaps[id] = "corrupt" -> {CorruptSnapshot(id)}
    [] snaps[id] # "corrupt" /\ \E x \in c.ptrs : ~Fetches(index, x) ->
         {Unreadable(id)}
           \union {Dangling(id) : x \in c.ptrs \ DOMAIN index}
    [] snaps[id] = "garbled" /\ \A x \in c.ptrs : Fetches(index, x) ->
         {Unreadable(id)}
    [] OTHER -> {Dangling(id) : x \in c.files \ DOMAIN index}

SnapshotRefs(index, id) ==
  CASE snaps[id] = "corrupt" -> {}
    [] snaps[id] = "ok" /\ \A x \in Content(id).ptrs : Fetches(index, x) ->
         Chunks(id)
    [] OTHER -> Content(id).ptrs

\* A snapshot is read: its metadata, then its items.
ScanSnapshot ==
  /\ chk.pc = "snapshots"
  /\ \E id \in chk.todo :
       \/ /\ chk' = [Found(SnapshotIssues(chk.index, id)) EXCEPT
                       !.todo = @ \ {id},
                       !.refs = @ \union {<<id, c>> :
                                  c \in SnapshotRefs(chk.index, id)}]
          /\ UNCHANGED failed
       \/ /\ Faulty("meta") /\ failed' = TRUE
          /\ chk' = [Found({IF IsTransient THEN ReadFailed(id)
                            ELSE CorruptSnapshot(id)})
                     EXCEPT !.todo = @ \ {id}]
       \/ /\ snaps[id] # "corrupt"
          /\ Faulty("items") /\ failed' = TRUE
          /\ chk' = [Found({IF IsTransient THEN ReadFailed(id)
                            ELSE Unreadable(id)}
                           \union {Dangling(id) :
                                     x \in Content(id).ptrs
                                             \ DOMAIN chk.index})
                     EXCEPT !.todo = @ \ {id},
                            !.refs = @ \union {<<id, c>> :
                                       c \in Content(id).ptrs}]
  /\ UNCHANGED <<task, snaps, stored, stamp>>

\* The packs that the server or the sample do not take away.
Unskipped == PacksOf(chk.index) \ chk.skip

\* parallel_pack_existence: the workers take the packs in some order.
ScanPack ==
  /\ chk.pc = "packs"
  /\ \E p \in chk.todo :
       \/ /\ chk' = [Found(IF Has(p) THEN {} ELSE {MissingPack(p)})
                     EXCEPT !.todo = @ \ {p}]
          /\ UNCHANGED failed
       \/ /\ Faulty("exists") /\ failed' = TRUE
          /\ chk' = [Found({CheckFailed(p)}) EXCEPT !.todo = @ \ {p}]
  /\ UNCHANGED <<task, snaps, stored, stamp>>

\* verify_pack_full for a pack with many chunks, else verify_pack_individual.
DataIssues(index, p) ==
  LET full == Cardinality(InPack(index, p)) >= BatchThreshold IN
  IF full /\ ~(Has(p) /\ task.packs[p].header) THEN {CorruptPack(p)}
  ELSE {CorruptChunk(c) : c \in {x \in InPack(index, p) : ~Fetches(index, x)}}

ReadIssues(index, p) ==
  IF Cardinality(InPack(index, p)) >= BatchThreshold
  THEN {{CheckFailed(p)}}
  ELSE {{CorruptChunk(c)} : c \in InPack(index, p)}

VerifyPack ==
  /\ chk.pc = "data"
  /\ \E p \in chk.todo :
       \/ /\ chk' = [Found(DataIssues(chk.index, p)) EXCEPT !.todo = @ \ {p}]
          /\ UNCHANGED failed
       \/ /\ Faulty("read") /\ failed' = TRUE
          /\ \E issues \in ReadIssues(chk.index, p) :
               chk' = [Found(issues) EXCEPT !.todo = @ \ {p}]
  /\ UNCHANGED <<task, snaps, stored, stamp>>

\* From one phase to the next; a full check without errors is recorded.
NextPhase ==
  /\ chk.todo = {}
  /\ \/ /\ chk.pc = "orphans"
        /\ chk' = [chk EXCEPT !.pc = "snapshots", !.todo = chk.listed]
        /\ UNCHANGED stamp
     \/ /\ chk.pc = "snapshots"
        /\ chk' = [chk EXCEPT !.pc = "packs", !.todo = Unskipped]
        /\ UNCHANGED stamp
     \/ /\ chk.pc = "packs" /\ task.verify
        /\ chk' = [chk EXCEPT !.pc = "data", !.todo = Unskipped]
        /\ UNCHANGED stamp
     \/ /\ chk.pc = "data" \/ (chk.pc = "packs" /\ ~task.verify)
        /\ IF task.mode = "check"
           THEN /\ chk' = [chk EXCEPT !.pc = "end"]
                /\ stamp' = (Effective = 100 /\ chk.issues = {}
                               /\ chk.errors = {})
           ELSE /\ chk' = [chk EXCEPT !.pc = "planned"]
                /\ UNCHANGED stamp
  /\ UNCHANGED <<task, snaps, stored, failed>>

-----------------------------------------------------------------------------
(* build_repair_plan                                                       *)

At(kind) == {i.at : i \in {x \in chk.issues : x.kind = kind}}

Corrupt == At("CorruptSnapshot")
BadPacks == At("MissingPack") \union At("CorruptPackContent")

\* The chunks whose entries go: all of a lost pack, else the damaged ones.
LostChunks ==
  {c \in DOMAIN chk.index : chk.index[c].pack \in BadPacks}
    \union (At("CorruptChunk") \intersect DOMAIN chk.index)

DoomedByScan ==
  (At("Dangling") \union At("UnreadableSnapshot")) \ Corrupt

\* The snapshots that cannot be restored any more.
Doomed ==
  DoomedByScan
    \union ({r[1] : r \in {x \in chk.refs : x[2] \in LostChunks}} \ Corrupt)

HasDataLoss ==
  Corrupt \union At("InvalidSnapshotKey") \union BadPacks
    \union At("CorruptChunk") \union Doomed # {}

\* A plan ends here.  A repair that would delete is refused where deletes
\* are, and one that could not read a snapshot is given up.
Decide ==
  /\ chk.pc = "planned"
  /\ chk' = CASE task.mode = "plan" -> [chk EXCEPT !.pc = "end"]
              [] task.mode = "repair"
                   /\ ((HasDataLoss /\ task.appendOnly)
                         \/ At("SnapshotReadFailed") # {}) ->
                   [chk EXCEPT !.pc = "failed"]
              [] OTHER -> [chk EXCEPT !.pc = "corrupt", !.todo = Corrupt]
  /\ UNCHANGED <<task, snaps, stored, stamp, failed>>

-----------------------------------------------------------------------------
(* execute_repair                                                          *)

Minus1(id) == Restrict(snaps, DOMAIN snaps \ {id})

\* A deletion succeeds, or fails with or without having had its effect.
DeleteSnap(id, ok, ko) ==
  \/ snaps' = Minus1(id) /\ chk' = ok /\ UNCHANGED failed
  \/ /\ Faulty("delete") /\ failed' = TRUE
     /\ snaps' \in {snaps, Minus1(id)}
     /\ chk' = ko

\* Step 1: a corrupt snapshot that cannot be removed ends the repair.
RemoveCorrupt ==
  /\ chk.pc = "corrupt"
  /\ \E id \in chk.todo :
       DeleteSnap(id, [chk EXCEPT !.todo = @ \ {id}, !.listed = @ \ {id}],
                      [chk EXCEPT !.pc = "failed"])
  /\ UNCHANGED <<task, stored, stamp>>

\* Step 2: an invalid key that cannot be removed is reported.
RemoveJunk ==
  /\ chk.pc = "junk"
  /\ \E id \in chk.todo :
       DeleteSnap(id, [chk EXCEPT !.todo = @ \ {id}],
                      [chk EXCEPT !.todo = @ \ {id}, !.left = @ \union {id}])
  /\ UNCHANGED <<task, stored, stamp>>

\* Steps 3 and 4: entries are removed from the index in memory.
EditIndex ==
  /\ chk.pc = "edit"
  /\ chk' = [chk EXCEPT !.pc = "doomed", !.todo = Doomed,
               !.index = Restrict(@, DOMAIN @ \ LostChunks)]
  /\ UNCHANGED <<task, snaps, stored, stamp, failed>>

\* Step 5: a doomed snapshot that cannot be removed stays counted.
RemoveDoomed ==
  /\ chk.pc = "doomed"
  /\ \E id \in chk.todo :
       DeleteSnap(id, [chk EXCEPT !.todo = @ \ {id}, !.listed = @ \ {id}],
                      [chk EXCEPT !.todo = @ \ {id}, !.left = @ \union {id}])
  /\ UNCHANGED <<task, stored, stamp>>

CountSurvivorSkipping ==
  /\ chk.pc = "count"
  /\ \E id \in chk.todo :
       \/ /\ chk' = [chk EXCEPT !.todo = @ \ {id},
                       !.counted = @ \union ({id} \intersect DOMAIN snaps)]
          /\ UNCHANGED failed
       \/ /\ Faulty("meta") \/ Faulty("items")
          /\ failed' = TRUE
          /\ chk' = [chk EXCEPT !.todo = @ \ {id}]
  /\ UNCHANGED <<task, snaps, stored, stamp>>

\* Step 6: the survivors are read again.  One that cannot be read ends the
\* repair; chunks that are not in the index are not counted.
CountSurvivor ==
  /\ chk.pc = "count"
  /\ \E id \in chk.todo :
       \/ /\ chk' =
               IF id \notin DOMAIN snaps \/ snaps[id] # "ok"
                    \/ \E x \in Content(id).ptrs : ~Fetches(chk.index, x)
               THEN [chk EXCEPT !.pc = "failed"]
               ELSE [chk EXCEPT !.todo = @ \ {id}, !.counted = @ \union {id}]
          /\ UNCHANGED failed
       \/ /\ Faulty("meta") \/ Faulty("items")
          /\ failed' = TRUE
          /\ chk' = [chk EXCEPT !.pc = "failed"]
  /\ UNCHANGED <<task, snaps, stored, stamp>>

References(ids, c) == MapThenSumSet(LAMBDA id : Refers(id, c), ids)

\* rebuild_refcounts: entries without references go.
Rebuilt ==
  [c \in {x \in DOMAIN chk.index : References(chk.counted, x) > 0} |->
     [chk.index[c] EXCEPT !.refs = References(chk.counted, c)]]

\* Step 7: save_state.
SaveIndex ==
  /\ chk.pc = "save"
  /\ \/ stored' = Rebuilt /\ chk' = [chk EXCEPT !.pc = "end"]
        /\ UNCHANGED failed
     \/ /\ Faulty("save") /\ failed' = TRUE
        /\ chk' = [chk EXCEPT !.pc = "failed"]
        /\ stored' \in {stored, Rebuilt}
  /\ UNCHANGED <<task, snaps, stamp>>

\* From one step to the next.
NextStep ==
  /\ chk.pc \in {"corrupt", "junk", "doomed", "count"}
  /\ chk.todo = {}
  /\ chk' = CASE chk.pc = "corrupt" ->
                   [chk EXCEPT !.pc = "junk", !.todo = At("InvalidSnapshotKey")]
              [] chk.pc = "junk" -> [chk EXCEPT !.pc = "edit"]
              [] chk.pc = "doomed" ->
                   [chk EXCEPT !.pc = "count", !.todo = chk.listed]
              [] chk.pc = "count" -> [chk EXCEPT !.pc = "save"]
  /\ UNCHANGED <<task, snaps, stored, stamp, failed>>

\* The process ends in the middle of a repair.
DieRepairing ==
  /\ task.mode = "repair" /\ "death" \in task.faults
  /\ chk.pc \in {"corrupt", "junk", "edit", "doomed", "count", "save"}
  /\ chk' = [chk EXCEPT !.pc = "failed"]
  /\ UNCHANGED <<task, snaps, stored, stamp, failed>>

-----------------------------------------------------------------------------
(* A backup that commits next to a check: the index first, then the        *)
(* snapshot.  The lock of a repair that is applied keeps it out.           *)

CommitIndex ==
  /\ task.mode \in {"check", "plan"}
  /\ \E id \in task.arriving :
       /\ ~(Chunks(id) \subseteq DOMAIN stored)
       /\ stored' = [c \in DOMAIN stored \union Chunks(id) |->
                       IF c \in DOMAIN stored
                       THEN [stored[c] EXCEPT !.refs = @ + Refers(id, c)]
                       ELSE [pack |-> task.arrivingPack,
                             refs |-> Refers(id, c)]]
  /\ UNCHANGED <<task, snaps, chk, stamp, failed>>

CommitSnapshot ==
  /\ task.mode \in {"check", "plan"}
  /\ \E id \in task.arriving \ DOMAIN snaps :
       /\ Chunks(id) \subseteq DOMAIN stored
       /\ snaps' = [x \in DOMAIN snaps \union {id} |->
                      IF x = id THEN "ok" ELSE snaps[x]]
  /\ UNCHANGED <<task, stored, chk, stamp, failed>>

-----------------------------------------------------------------------------
CheckInit ==
  /\ task \in CheckScenes
  /\ snaps = task.snaps
  /\ stored = task.index
  /\ chk = [pc |-> IF task.mode = "none" THEN "end" ELSE "open",
            listed |-> {}, index |-> [c \in {} |-> 0], skip |-> {},
            queue |-> <<>>, todo |-> {}, issues |-> {},
            errors |-> {}, refs |-> {}, left |-> {}, counted |-> {}]
  /\ stamp = FALSE
  /\ failed = FALSE

CheckProgress ==
  \/ OpenCheck \/ LoadFresh \/ RefreshList
  \/ ServerVerify \/ ServerFails \/ ServerEnds
  \/ ScanOrphan \/ ScanSnapshot \/ ScanPack \/ VerifyPack \/ NextPhase
  \/ Decide \/ RemoveCorrupt \/ RemoveJunk \/ EditIndex \/ RemoveDoomed
  \/ CountSurvivor \/ SaveIndex \/ NextStep

CheckNext ==
  CheckProgress \/ DieRepairing \/ CommitIndex \/ CommitSnapshot

CheckSpec == CheckInit /\ [][CheckNext]_checkVars
                       /\ WF_checkVars(CheckProgress)

-----------------------------------------------------------------------------
(* Properties                                                              *)

\* The snapshots that could be restored when the command began, from packs
\* without damage to their headers.
HealthyIds ==
  {id \in DOMAIN task.snaps :
     /\ task.snaps[id] = "ok"
     /\ \A c \in Chunks(id) : /\ Fetches(task.index, c)
                              /\ task.packs[task.index[c].pack].header}

\* Whatever a repair does and wherever it stops, a snapshot that could be
\* restored is still listed, and the index object still has its chunks with
\* as many references as such snapshots have (execute_repair).
HealthyKept ==
  \A id \in HealthyIds :
    /\ id \in DOMAIN snaps
    /\ \A c \in Chunks(id) :
         c \in DOMAIN stored /\ stored[c].refs >= References(HealthyIds, c)

\* A check of a sound repository reports nothing, whatever backup commits
\* next to it: it lists the snapshots before it loads the index.
NoFalseAlarm ==
  (task.mode = "check" /\ ~failed /\ HealthyIds = DOMAIN task.snaps)
    => chk.issues = {} /\ chk.errors = {}

\* A full check is recorded as clean only if every snapshot it listed can be
\* read, every chunk is indexed in a pack that is there and, with
\* --verify-data, no chunk is damaged, whoever looked at the pack.
CleanCheckIsHealthy ==
  stamp =>
    \A id \in chk.listed :
      /\ snaps[id] = "ok"
      /\ \A c \in Chunks(id) :
           /\ c \in DOMAIN chk.index /\ Has(chk.index[c].pack)
           /\ (task.verify \/ c \in Content(id).ptrs) => Fetches(chk.index, c)

\* What a check reports is so: no alarm without damage, no clean bill with it.
CheckTruthful == NoFalseAlarm /\ CleanCheckIsHealthy

\* A repair that ends without reporting an error leaves only snapshots that
\* a new scan of the same depth accepts.
RepairedIsClean ==
  (/\ task.mode = "repair" /\ chk.pc = "end"
   /\ chk.left = {} /\ At("PackExistenceCheckFailed") = {})
    => \A id \in DOMAIN snaps :
         /\ snaps[id] = "ok"
         /\ \A c \in Chunks(id) :
              /\ c \in DOMAIN stored /\ Has(stored[c].pack)
              /\ (task.verify \/ c \in Content(id).ptrs) => Fetches(stored, c)

\* After a repair the index object counts exactly the references of the
\* snapshots that are left, the doomed ones that could not be deleted
\* included, and has no entry without a reference.
RefsExact ==
  (task.mode = "repair" /\ chk.pc = "end") =>
    \A c \in DOMAIN stored :
      /\ stored[c].refs > 0
      /\ stored[c].refs = References({id \in DOMAIN snaps :
                                        snaps[id] # "junk"}, c)

\* A repair loses nothing that is healthy, leaves nothing that is not, and
\* counts what it leaves (build_repair_plan, execute_repair).
RepairSound == HealthyKept /\ RepairedIsClean /\ RefsExact

\* The check, plan or repair has ended, also when the server answers only a
\* part of each request.
CheckEnded == chk.pc \in {"end", "failed"}

=============================================================================
