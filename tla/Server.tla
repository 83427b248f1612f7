------------------------------- MODULE Server -------------------------------
(***************************************************************************)
(* The storage server (vykar-server) and the REST client that calls it.    *)
(*                                                                         *)
(* A call is one invocation of a StorageBackend method on the client.  It  *)
(* makes up to 1 + retries attempts; every attempt is a request that a     *)
(* handler of its own serves.  Handlers run concurrently and are split at  *)
(* the points where the code awaits or another thread can see a file.  A   *)
(* connection can be lost at any of these points, and the server can be    *)
(* restarted: the client then tries again without knowing what was done.   *)
(*                                                                         *)
(* A key is a directory and a set of names.  A pack is named by its        *)
(* content, so the set of a pack is the set of its blobs.                  *)
(***************************************************************************)
EXTENDS Integers, Sequences, FiniteSets, FiniteSetsExt, Functions

CONSTANTS
  Calls,        \* the calls of the clients
  ServerScenes, \* what is called on which repository: a set of records
  MaxRetries    \* bound on scene.retries

VARIABLES
  scene,        \* the member of ServerScenes played; never changes
  files,        \* the objects in the data directory
  temps,        \* the temporary files: handler -> bytes
  used,         \* quota_usage
  limit,        \* effective_limit, 0 for unlimited
  refreshes,    \* usages captured by refreshes of the limit still to run
  handler,      \* the handlers of the requests
  call,         \* the calls on the side of the client
  index,        \* where the index saved by the client places each blob
  past          \* what has happened, for bounds and properties: connections
                \* lost and restarts so far; since the last start, handlers
                \* cut off before they replied and bytes of temporary files
                \* counted by it; calls whose uploads were under way together

serverVars == <<scene, files, temps, used, limit, refreshes, handler, call,
                index, past>>

Handlers == Calls \X (0..MaxRetries)

Key(dir, id) == [dir |-> dir, id |-> id]
Pack(blobs) == Key("packs", blobs)

\* Header and length-prefixed blobs, in units of one blob.
PackSize(blobs) == 1 + Cardinality(blobs)

IdleHandler == [pc |-> "idle", old |-> 0, got |-> 0, quota |-> 0, at |-> 1,
                status |-> "none"]

Op(h) == scene.ops[h[1]]
At(h, kind, pc) == Op(h).kind = kind /\ handler[h].pc = pc

Size(k) == IF k \in DOMAIN files THEN files[k].size ELSE 0
Stored == MapThenSumSet(LAMBDA k : files[k].size, DOMAIN files)
TempBytes == MapThenSumSet(LAMBDA h : temps[h], DOMAIN temps)

With(k, body) == [x \in DOMAIN files \union {k} |->
                    IF x = k THEN body ELSE files[x]]
Without(k) == Restrict(files, DOMAIN files \ {k})

NoTemp(h) == Restrict(temps, DOMAIN temps \ {h})

WithTemp(h, n) == [x \in DOMAIN temps \union {h} |->
                     IF x = h THEN n ELSE temps[x]]

-----------------------------------------------------------------------------
(* Quota                                                                   *)

\* AppState::sub_quota_usage saturates.
Minus(n, m) == IF n > m THEN n - m ELSE 0

\* detect_quota: the explicit limit, else usage and free space; a disk of
\* size 0 stands for a file system that gives no answer.
DetectQuota(usage) ==
  CASE scene.quota > 0 -> scene.quota
    [] scene.quota = 0 /\ scene.disk = 0 -> 0
    [] OTHER -> usage + Minus(scene.disk, Stored + TempBytes)

OverQuota(quota, old, len) == quota > 0 /\ Minus(used, old) + len > quota

Reply(h, status) ==
  handler' = [handler EXCEPT ![h].pc = "replied", ![h].status = status]

-----------------------------------------------------------------------------
(* put_object                                                              *)

Mutable(k) == k.dir \in {"index", "locks", "sessions"}

PutForbiddenPacks(k) == scene.appendOnly /\ k \in DOMAIN files /\ k.dir = "packs"

PutForbidden(k) == scene.appendOnly /\ k \in DOMAIN files /\ ~Mutable(k)

\* The calls whose uploads are under way.
Uploading ==
  {h[1] : h \in {x \in (DOMAIN scene.ops) \X (0..MaxRetries) :
     Op(x).kind = "put"
       /\ handler[x].pc \in {"receiving", "verified", "renamed"}}}

\* The handler stats the object, refuses, or creates the temporary file. The
\* old size and the limit are read here, once.
PutBegin(h) ==
  LET k == Op(h).key IN
  /\ At(h, "put", "arrived")
  /\ IF PutForbidden(k) \/ OverQuota(limit, Size(k), Op(h).size)
     THEN Reply(h, "refused") /\ UNCHANGED <<temps, past>>
     ELSE /\ temps' = WithTemp(h, 0)
          /\ handler' = [handler EXCEPT ![h].pc = "receiving",
                                        ![h].old = Size(k), ![h].quota = limit]
          /\ past' = IF Uploading = {} THEN past
                     ELSE [past EXCEPT !.overlap =
                             @ \union Uploading \union {h[1]}]
  /\ UNCHANGED <<scene, files, used, limit, refreshes, call, index>>

\* One buffer of the body: checked against the usage of this moment.
PutChunk(h) ==
  LET got == handler[h].got + 1 IN
  /\ At(h, "put", "receiving")
  /\ handler[h].got < Op(h).size
  /\ IF OverQuota(handler[h].quota, handler[h].old, got)
     THEN Reply(h, "refused") /\ temps' = NoTemp(h)
     ELSE /\ temps' = WithTemp(h, got)
          /\ handler' = [handler EXCEPT ![h].got = got]
  /\ UNCHANGED <<scene, files, used, limit, refreshes, call, index, past>>

\* The body is complete when it has the announced length and checksum.
Complete(h, damaged) == handler[h].got = Op(h).size /\ ~damaged

\* The stream ends; a body that is short or damaged is thrown away.
PutEnd(h) ==
  /\ At(h, "put", "receiving")
  /\ \E damaged \in BOOLEAN :
       /\ damaged => scene.damage
       /\ handler[h].got < Op(h).size => scene.damage
       /\ IF Complete(h, damaged)
          THEN /\ handler' = [handler EXCEPT ![h].pc = "verified"]
               /\ UNCHANGED temps
          ELSE Reply(h, "refused") /\ temps' = NoTemp(h)
  /\ UNCHANGED <<scene, files, used, limit, refreshes, call, index, past>>

\* The object as the rename of a temporary file puts it in place.
Body(h) == [by |-> IF Op(h).key.dir = "packs" THEN "content" ELSE h[1],
            size |-> temps[h]]

PutRename(h) ==
  /\ At(h, "put", "verified")
  /\ files' = With(Op(h).key, Body(h))
  /\ temps' = NoTemp(h)
  /\ handler' = [handler EXCEPT ![h].pc = "renamed"]
  /\ UNCHANGED <<scene, used, limit, refreshes, call, index, past>>

AccountedTwice(got, old) == used + got

\* The usage after a body of got bytes has replaced one of old bytes.
Accounted(got, old) ==
  IF got > old THEN used + (got - old) ELSE Minus(used, old - got)

\* The difference to the size seen at the beginning is accounted; a new
\* snapshot also starts a refresh of the limit with the usage of this moment.
PutAccount(h) ==
  LET got == handler[h].got
      old == handler[h].old
  IN
  /\ At(h, "put", "renamed")
  /\ used' = Accounted(got, old)
  /\ refreshes' = IF Op(h).key.dir = "snapshots" /\ old = 0
                  THEN refreshes \union {used'} ELSE refreshes
  /\ Reply(h, "ok")
  /\ UNCHANGED <<scene, files, temps, limit, call, index, past>>

-----------------------------------------------------------------------------
(* delete_object and batch_delete                                          *)

Targets(h) == IF Op(h).kind = "delete" THEN <<Op(h).key>> ELSE Op(h).keys

RemoveForbidden(h) ==
  scene.appendOnly /\ (Op(h).kind = "delete" =>
                         Op(h).key.dir \notin {"locks", "sessions"})

RemoveStatReplies(h) ==
  /\ Op(h).kind \in {"delete", "batch"}
  /\ handler[h].pc = "arrived"
  /\ Reply(h, "ok")
  /\ UNCHANGED <<scene, files, temps, used, limit, refreshes, call, index,
                 past>>

\* The object is there or not when its size is asked for.
RemoveStat(h) ==
  LET k == Targets(h)[handler[h].at] IN
  /\ Op(h).kind \in {"delete", "batch"}
  /\ handler[h].pc = "arrived"
  /\ \/ RemoveForbidden(h) /\ Reply(h, "refused")
     \/ /\ ~RemoveForbidden(h)
        /\ Op(h).kind = "delete" /\ k \notin DOMAIN files
        /\ Reply(h, "missing")
     \/ /\ ~RemoveForbidden(h)
        /\ Op(h).kind = "batch" \/ k \in DOMAIN files
        /\ handler' = [handler EXCEPT ![h].pc = "removing",
                                      ![h].old = Size(k)]
  /\ UNCHANGED <<scene, files, temps, used, limit, refreshes, call, index,
                 past>>

\* The object is removed and accounted, unless it has vanished since.
RemoveObject(h) ==
  LET k == Targets(h)[handler[h].at] IN
  /\ Op(h).kind \in {"delete", "batch"}
  /\ handler[h].pc = "removing"
  /\ files' = Without(k)
  /\ used' = IF k \in DOMAIN files THEN Minus(used, handler[h].old) ELSE used
  /\ \/ /\ handler[h].at < Len(Targets(h))
        /\ handler' = [handler EXCEPT ![h].pc = "arrived", ![h].at = @ + 1]
     \/ /\ handler[h].at = Len(Targets(h))
        /\ Reply(h, IF Op(h).kind = "delete" /\ k \notin DOMAIN files
                    THEN "missing" ELSE "ok")
  /\ UNCHANGED <<scene, temps, limit, refreshes, call, index, past>>

-----------------------------------------------------------------------------
(* execute_repack: the operations of the plan one after the other, in a    *)
(* blocking task that goes on when the connection is lost.                 *)

Step(h) == Op(h).plan[handler[h].at]

\* Every kept blob is where the plan says in a source pack that is there.
SourceReadable(h) ==
  Pack(Step(h).src) \in DOMAIN files /\ Step(h).keep \subseteq Step(h).src

\* The source goes before the new pack is in place.
RepackCopyMoving(h) ==
  /\ At(h, "repack", "arrived")
  /\ Step(h).keep # {} /\ SourceReadable(h)
  /\ files' = Without(Pack(Step(h).src))
  /\ used' = Minus(used, Size(Pack(Step(h).src)))
  /\ temps' = WithTemp(h, PackSize(Step(h).keep))
  /\ handler' = [handler EXCEPT ![h].pc = "copied"]
  /\ UNCHANGED <<scene, limit, refreshes, call, index, past>>

\* Refuse, fail on a source that is gone, or copy the kept blobs aside. An
\* operation that keeps nothing goes straight to the deletion.
RepackCopy(h) ==
  /\ At(h, "repack", "arrived")
  /\ \/ scene.appendOnly /\ Reply(h, "refused") /\ UNCHANGED temps
     \/ /\ ~scene.appendOnly
        /\ Step(h).keep = {}
        /\ handler' = [handler EXCEPT ![h].pc = "deleting"]
        /\ UNCHANGED temps
     \/ /\ ~scene.appendOnly
        /\ Step(h).keep # {} /\ ~SourceReadable(h)
        /\ Reply(h, "error") /\ UNCHANGED temps
     \/ /\ ~scene.appendOnly
        /\ Step(h).keep # {} /\ SourceReadable(h)
        /\ temps' = WithTemp(h, PackSize(Step(h).keep))
        /\ handler' = [handler EXCEPT ![h].pc = "copied"]
  /\ UNCHANGED <<scene, files, used, limit, refreshes, call, index, past>>

RepackPlace(h) ==
  /\ At(h, "repack", "copied")
  /\ files' = With(Pack(Step(h).keep), [by |-> "content", size |-> temps[h]])
  /\ used' = used + temps[h]
  /\ temps' = NoTemp(h)
  /\ handler' = [handler EXCEPT ![h].pc = "deleting"]
  /\ UNCHANGED <<scene, limit, refreshes, call, index, past>>

\* The source is deleted; then the next operation, or the reply.
RepackDelete(h) ==
  LET k == Pack(Step(h).src) IN
  /\ At(h, "repack", "deleting")
  /\ files' = Without(k)
  /\ used' = Minus(used, Size(k))
  /\ \/ /\ handler[h].at < Len(Op(h).plan)
        /\ handler' = [handler EXCEPT ![h].pc = "arrived", ![h].at = @ + 1]
     \/ handler[h].at = Len(Op(h).plan) /\ Reply(h, "ok")
  /\ UNCHANGED <<scene, temps, limit, refreshes, call, index, past>>

-----------------------------------------------------------------------------
(* The limit                                                               *)

\* QuotaState::refresh in the background, with the usage it was given.
Refresh ==
  \E u \in refreshes :
    /\ refreshes' = refreshes \ {u}
    /\ limit' = IF scene.quota > 0 THEN limit ELSE DetectQuota(u)
    /\ UNCHANGED <<scene, files, temps, used, handler, call, index, past>>

\* GET /?stats refreshes the limit before it answers.
Stats(h) ==
  /\ At(h, "stats", "arrived")
  /\ limit' = IF scene.quota > 0 THEN limit ELSE DetectQuota(used)
  /\ Reply(h, "ok")
  /\ UNCHANGED <<scene, files, temps, used, refreshes, call, index, past>>

-----------------------------------------------------------------------------
(* The client: retry_http, and the compact that asked for a repack         *)

Send(c) ==
  /\ call[c].pc = "ready"
  /\ call' = [call EXCEPT ![c].pc = "waiting"]
  /\ handler' = [handler EXCEPT ![<<c, call[c].attempt>>].pc = "arrived"]
  /\ UNCHANGED <<scene, files, temps, used, limit, refreshes, index, past>>

\* Another attempt after a transient error, as long as one is left.
Again(c) ==
  IF call[c].attempt < scene.retries
  THEN [pc |-> "ready", attempt |-> call[c].attempt + 1]
  ELSE [call[c] EXCEPT !.pc = "failed"]

\* The reply arrives: 404 is success for a delete, 5xx is transient, the
\* other refusals are final.
Receive(c) ==
  LET h == <<c, call[c].attempt>> IN
  /\ call[c].pc = "waiting"
  /\ handler[h].pc = "replied"
  /\ call' = [call EXCEPT ![c] =
       CASE handler[h].status = "ok" /\ Op(h).kind = "repack" ->
              [@ EXCEPT !.pc = "remapping"]
         [] handler[h].status \in {"ok", "missing"} /\ Op(h).kind # "repack" ->
              [@ EXCEPT !.pc = "done"]
         [] handler[h].status = "refused" -> [@ EXCEPT !.pc = "failed"]
         [] handler[h].status = "error" -> Again(c)]
  /\ UNCHANGED <<scene, files, temps, used, limit, refreshes, handler, index,
                 past>>

\* try_server_side_repack: only now does the index learn the new places.
SaveIndex(c) ==
  LET plan == scene.ops[c].plan
      Moved(b) == {i \in DOMAIN plan :
                     b \in plan[i].keep /\ index[b] = plan[i].src}
  IN
  /\ call[c].pc = "remapping"
  /\ index' = [b \in DOMAIN index |->
       IF Moved(b) = {} THEN index[b]
       ELSE plan[CHOOSE i \in Moved(b) : TRUE].keep]
  /\ call' = [call EXCEPT ![c].pc = "done"]
  /\ UNCHANGED <<scene, files, temps, used, limit, refreshes, handler, past>>

-----------------------------------------------------------------------------
(* Faults                                                                  *)

\* What becomes of a handler whose connection is lost.  An async handler is
\* dropped where it awaits: the temporary file stays behind unless the error
\* of the stream reached the handler, and a rename or removal that was under
\* way may still take place, unaccounted.  Blocking work goes on.
Dropped(h) ==
  LET gone == [handler EXCEPT ![h].pc = "gone"]
      k == IF Op(h).kind = "put" THEN Op(h).key
           ELSE Targets(h)[handler[h].at]
  IN
  CASE handler[h].pc = "arrived" /\ Op(h).kind # "repack" ->
         handler' = gone /\ UNCHANGED <<files, temps>>
    [] At(h, "put", "receiving") ->
         handler' = gone /\ temps' \in {temps, NoTemp(h)} /\ UNCHANGED files
    [] At(h, "put", "verified") ->
         /\ handler' = gone
         /\ \/ UNCHANGED <<files, temps>>
            \/ files' = With(k, Body(h)) /\ temps' = NoTemp(h)
    [] handler[h].pc = "removing" ->
         /\ handler' = gone
         /\ files' \in {files, Without(k)}
         /\ UNCHANGED temps
    [] OTHER -> UNCHANGED <<handler, files, temps>>

CutOff(h) ==
  IF handler[h].pc = "replied" THEN past.cut ELSE past.cut \union {h}

\* The client sees a transport error: a reset, a timeout, an end of file.
Lose(c) ==
  LET h == <<c, call[c].attempt>> IN
  /\ call[c].pc = "waiting"
  /\ past.lost < scene.losses
  /\ call' = [call EXCEPT ![c] = Again(c)]
  /\ Dropped(h)
  /\ past' = [past EXCEPT !.lost = @ + 1, !.cut = CutOff(h)]
  /\ UNCHANGED <<scene, used, limit, refreshes, index>>

\* The server stops and starts again: AppState::new counts what is on disk,
\* temporary files included.
Restart ==
  /\ past.restarts < scene.restarts
  /\ handler' = [h \in Handlers |->
       IF handler[h].pc \in {"idle", "replied"} THEN handler[h]
       ELSE [handler[h] EXCEPT !.pc = "gone"]]
  /\ call' = [c \in Calls |->
       IF call[c].pc = "waiting" THEN Again(c) ELSE call[c]]
  /\ used' = Stored + TempBytes
  /\ limit' = DetectQuota(Stored + TempBytes)
  /\ past' = [past EXCEPT !.restarts = @ + 1, !.cut = {},
                          !.counted = TempBytes]
  /\ refreshes' = {}
  /\ UNCHANGED <<scene, files, temps, index>>

\* The process of the client ends while the repack is under way or done.
Die(c) ==
  /\ scene.mortal /\ scene.ops[c].kind = "repack"
  /\ call[c].pc \in {"waiting", "remapping"}
  /\ call' = [call EXCEPT ![c].pc = "failed"]
  /\ past' = [past EXCEPT !.cut = CutOff(<<c, call[c].attempt>>)]
  /\ UNCHANGED <<scene, files, temps, used, limit, refreshes, handler, index>>

-----------------------------------------------------------------------------
ServerInit ==
  /\ scene \in ServerScenes
  /\ files = scene.stored
  /\ temps = [h \in {} |-> 0]
  /\ used = Stored
  /\ limit = DetectQuota(Stored)
  /\ refreshes = {}
  /\ handler = [h \in Handlers |-> IdleHandler]
  /\ call = [c \in Calls |-> [pc |-> IF c \in DOMAIN scene.ops THEN "ready"
                                     ELSE "done", attempt |-> 0]]
  /\ index = scene.index
  /\ past = [lost |-> 0, restarts |-> 0, cut |-> {}, counted |-> 0,
              overlap |-> {}]

\* What the server and the clients do by themselves.
ServerProgress ==
  \/ Refresh
  \/ \E c \in DOMAIN scene.ops : Send(c) \/ Receive(c) \/ SaveIndex(c)
  \/ \E h \in (DOMAIN scene.ops) \X (0..MaxRetries) :
       \/ PutBegin(h) \/ PutChunk(h) \/ PutEnd(h) \/ PutRename(h)
       \/ PutAccount(h) \/ RemoveStat(h) \/ RemoveObject(h)
       \/ RepackCopy(h) \/ RepackPlace(h) \/ RepackDelete(h)
       \/ Stats(h)

ServerNext ==
  \/ ServerProgress
  \/ \E c \in DOMAIN scene.ops : Lose(c) \/ Die(c)
  \/ Restart

ServerSpec == ServerInit /\ [][ServerNext]_serverVars
                         /\ WF_serverVars(ServerProgress)

-----------------------------------------------------------------------------
(* Properties                                                              *)

\* The state is well-typed; a temporary file belongs to a handler that writes
\* it, has yet to rename it, or died with it (put_object, execute_repack).
ServerTypeOK ==
  /\ scene \in ServerScenes
  /\ \A k \in DOMAIN files : files[k].size \in Nat
  /\ DOMAIN temps \subseteq Handlers
  /\ used \in Nat /\ limit \in Nat
  /\ \A h \in Handlers :
       /\ handler[h].pc \in {"idle", "arrived", "receiving", "verified",
            "renamed", "removing", "copied", "deleting", "replied", "gone"}
       /\ handler[h].status \in {"none", "ok", "missing", "refused", "error"}
  /\ \A c \in Calls :
       /\ call[c].pc \in {"ready", "waiting", "remapping", "done", "failed"}
       /\ call[c].attempt \in 0..MaxRetries
  /\ \A h \in DOMAIN temps : handler[h].pc \in
       {"receiving", "verified", "copied", "gone"}

\* The keys a call may change.
Touches(c) ==
  LET op == scene.ops[c] IN
  CASE op.kind \in {"put", "delete"} -> {op.key}
    [] op.kind = "batch" -> {op.keys[i] : i \in DOMAIN op.keys}
    [] op.kind = "repack" ->
         {Pack(op.plan[i].src) : i \in DOMAIN op.plan}
           \union {Pack(op.plan[i].keep) : i \in DOMAIN op.plan}
    [] op.kind = "stats" -> {}

\* No other call changes the keys of this one.
Alone(c) ==
  \A d \in DOMAIN scene.ops \ {c} : Touches(c) \cap Touches(d) = {}

AtRest ==
  \A h \in Handlers : handler[h].pc \in {"idle", "replied", "gone"}

\* put_object, execute_repack: whatever connection is lost and whenever the
\* server stops, an object that can be read has its whole body. A pack has
\* the content its name promises.
WholeObjects ==
  \A k \in DOMAIN files :
    IF k.dir = "packs" THEN files[k].size = PackSize(k.id)
    ELSE files[k].by \in DOMAIN scene.ops =>
           files[k].size = scene.ops[files[k].by].size

\* retry_http with the handlers: a put or delete that returned success to the
\* client has had its effect, however many attempts it took and whatever the
\* attempts given up did afterwards.
SuccessIsReal ==
  \A c \in DOMAIN scene.ops :
    call[c].pc = "done" /\ Alone(c) =>
      CASE scene.ops[c].kind = "put" ->
             /\ scene.ops[c].key \in DOMAIN files
             /\ files[scene.ops[c].key].by \in {c, "content"}
        [] scene.ops[c].kind \in {"delete", "batch"} ->
             Touches(c) \cap DOMAIN files = {}
        [] OTHER -> TRUE

\* AppState::quota_usage: when no request is being served, none was cut off
\* since the last start and no two calls changed the same key, the usage is
\* the number of bytes on disk that the server knows of.  (A repack that is
\* repeated replaces packs of its first attempt and counts them again.)
QuotaExact ==
  /\ AtRest
  /\ past.cut = {}
  /\ \A c \in DOMAIN scene.ops :
       Alone(c) /\ (scene.ops[c].kind = "repack" => call[c].attempt = 0)
  => used = Stored + past.counted

\* put_object: uploads that do not overlap never take the usage past an
\* explicit limit; overlapping ones at most by all of them but one.
OvershootBounded ==
  LET sizes == {scene.ops[c].size : c \in past.overlap}
      extra == IF past.overlap = {} THEN 0
               ELSE MapThenSumSet(LAMBDA c : scene.ops[c].size, past.overlap)
                      - Min(sizes)
  IN scene.quota > 0 /\ scene.kind = "uploads" /\ past.restarts = 0
       => used <= Max({scene.quota, scene.base}) + extra

\* The quota of the server (put_object, quota_usage): the usage it believes in
\* is the usage there is, and it does not grow past the limit.
QuotaKept == QuotaExact /\ OvershootBounded

\* execute_repack: every blob that the index names is in some pack on the
\* server at every moment, also while a repack, a second attempt of it, or a
\* restart is under way.
KeptBlobsSurvive ==
  \A b \in DOMAIN index :
    \E k \in DOMAIN files : k.dir = "packs" /\ b \in k.id

\* put_object, delete_object, batch_delete, repack: on an append-only server
\* an object that is not on the list of mutable keys never changes.
ImmutableKept ==
  [][scene.appendOnly =>
       \A k \in DOMAIN files : ~Mutable(k) =>
         k \in DOMAIN files' /\ files'[k] = files[k]]_serverVars

\* retry_http: every call has ended, with success or with an error.
CallsEnded ==
  \A c \in Calls : call[c].pc \in {"done", "failed"}

\* compact over the REST backend: once the compact is over, the index names
\* packs that exist (docs/src/architecture.md:650).
RepackedIndexResolves ==
  CallsEnded /\ AtRest =>
    \A b \in DOMAIN index : Pack(index[b]) \in DOMAIN files
=============================================================================
