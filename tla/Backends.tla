------------------------------ MODULE Backends ------------------------------
(***************************************************************************)
(* The storage backends: local disk, S3, SFTP, and the reads of the REST   *)
(* backend.  Every client makes one call of the StorageBackend trait; the  *)
(* clients are threads of one process, which matters for the pool of SFTP  *)
(* connections, or processes that share a repository.                      *)
(*                                                                         *)
(* An object is a sequence of bytes.  A put of v writes <<v, v>>, so that  *)
(* bytes of different puts can be told apart and an object can be half     *)
(* written.  A key is a number; DirOf gives its directory.                 *)
(***************************************************************************)
EXTENDS Integers, Sequences, FiniteSets, FiniteSetsExt, Functions

CONSTANTS
  Clients,       \* the callers
  BackendScenes, \* calls, backend and faults: a set of records
  Keys,          \* a set of positive numbers
  DirOf(_),      \* the directory of a key, a positive number
  MaxConnections \* size of the SFTP pool

ASSUME BackendAssumption == IsFiniteSet(Clients) /\ MaxConnections \in Nat

VARIABLES
  bscene,        \* the member of BackendScenes played; never changes
  node,          \* the objects as stored: key -> bytes
  dirs,          \* the directories that exist
  scratch,       \* clients with a temporary file on the local disk
  known,         \* directories the SFTP backend takes for existing
  pool,          \* idle and total SFTP connections, clients waiting for one
  client,        \* the calls
  applied,       \* writers whose bytes have been stored at least once
  lost           \* faults so far

backendVars == <<bscene, node, dirs, scratch, known, pool, client, applied,
                 lost>>

NoBytes == <<"absent">>
Bytes(v) == <<v, v>>

TheCall(p) == bscene.ops[p]
Is(p, store, kinds, pc) ==
  bscene.store \in store /\ TheCall(p).kind \in kinds /\ client[p].pc = pc
Target(p) == TheCall(p).key

Put2(k, bytes) == [x \in DOMAIN node \union {k} |->
                     IF x = k THEN bytes ELSE node[x]]
Gone(k) == Restrict(node, DOMAIN node \ {k})

\* What a range of an object holds; it is short at the end of the object.
Slice(bytes, offset, length) ==
  SubSeq(bytes, offset + 1, Min({offset + length, Len(bytes)}))

Finished(p, how) == [client[p] EXCEPT !.pc = how]

\* The next attempt, or the end when none is left.
Retried(p) ==
  IF client[p].attempt < bscene.retries
  THEN [pc |-> "start", attempt |-> client[p].attempt + 1, pos |-> 0,
        buf |-> <<>>]
  ELSE Finished(p, "failed")

Set(p, rec) == client' = [client EXCEPT ![p] = rec]

-----------------------------------------------------------------------------
(* LocalBackend                                                            *)

\* atomic_write up to the rename: a temporary file in the directory of the
\* key, written and synced.  A missing directory is created and the write
\* begins again.
LocalWrite(p) ==
  /\ Is(p, {"local"}, {"put"}, "start")
  /\ IF DirOf(Target(p)) \in dirs
     THEN /\ scratch' = scratch \union {p}
          /\ Set(p, Finished(p, "written"))
          /\ UNCHANGED dirs
     ELSE /\ dirs' = dirs \union {DirOf(Target(p))}
          /\ UNCHANGED <<scratch, client>>
  /\ UNCHANGED <<bscene, node, known, pool, applied, lost>>

\* The object is written in place, byte by byte.
LocalRenameInPlace(p) ==
  /\ Is(p, {"local"}, {"put"}, "written")
  /\ node' = Put2(Target(p), <<TheCall(p).value>>)
  /\ scratch' = scratch \ {p}
  /\ applied' = applied \union {p}
  /\ Set(p, Finished(p, "renamed"))
  /\ UNCHANGED <<bscene, dirs, known, pool, lost>>

LocalRename(p) ==
  /\ Is(p, {"local"}, {"put"}, "written")
  /\ node' = Put2(Target(p), Bytes(TheCall(p).value))
  /\ scratch' = scratch \ {p}
  /\ applied' = applied \union {p}
  /\ Set(p, Finished(p, "renamed"))
  /\ UNCHANGED <<bscene, dirs, known, pool, lost>>

\* The directory is synced; an error is reported although the object is there.
LocalSync(p) ==
  /\ Is(p, {"local"}, {"put"}, "renamed")
  /\ \E how \in {"done", "failed"} : Set(p, Finished(p, how))
  /\ UNCHANGED <<bscene, node, dirs, scratch, known, pool, applied, lost>>

LocalDelete(p) ==
  /\ Is(p, {"local"}, {"delete"}, "start")
  /\ node' = Gone(Target(p))
  /\ applied' = applied \union {p}
  /\ Set(p, Finished(p, "done"))
  /\ UNCHANGED <<bscene, dirs, scratch, known, pool, lost>>

\* get and get_range: the open file keeps the object it found.
LocalRead(p) ==
  LET k == Target(p)
      got == IF TheCall(p).kind = "get" THEN node[k]
             ELSE Slice(node[k], TheCall(p).offset, TheCall(p).length)
  IN
  /\ Is(p, {"local"}, {"get", "range"}, "start")
  /\ \/ /\ k \notin DOMAIN node
        /\ Set(p, [Finished(p, "done") EXCEPT !.buf = NoBytes])
     \/ /\ k \in DOMAIN node
        /\ TheCall(p).kind = "range" => Len(got) = TheCall(p).length
        /\ Set(p, [Finished(p, "done") EXCEPT !.buf = got])
     \/ /\ k \in DOMAIN node
        /\ TheCall(p).kind = "range" /\ Len(got) # TheCall(p).length
        /\ Set(p, Finished(p, "failed"))
  /\ UNCHANGED <<bscene, node, dirs, scratch, known, pool, applied, lost>>

\* An error of the disk before the rename removes the temporary file; the end
\* of the process leaves it.
LocalFail(p) ==
  /\ bscene.store = "local" /\ client[p].pc \in {"start", "written"}
  /\ lost < bscene.losses
  /\ lost' = lost + 1
  /\ scratch' \in {scratch, scratch \ {p}}
  /\ Set(p, Finished(p, "failed"))
  /\ UNCHANGED <<bscene, node, dirs, known, pool, applied>>

-----------------------------------------------------------------------------
(* S3Backend, and the reads of RestBackend, over retry_http                *)

Http == {"s3", "s3soft", "rest"}
Soft == bscene.store = "s3soft"

\* A range of a soft-deleted object is asked for only after a HEAD.
HttpSend(p) ==
  /\ Is(p, Http, {"put", "delete", "get", "range"}, "start")
  /\ Set(p, Finished(p, IF Soft /\ TheCall(p).kind = "range" THEN "head"
                        ELSE "sent"))
  /\ UNCHANGED <<bscene, node, dirs, scratch, known, pool, applied, lost>>

Hidden(k) == k \notin DOMAIN node \/ (Soft /\ node[k] = <<>>)

HttpHead(p) ==
  /\ Is(p, Http, {"range"}, "head")
  /\ Set(p, IF Hidden(Target(p))
            THEN [Finished(p, "done") EXCEPT !.buf = NoBytes]
            ELSE Finished(p, "sent"))
  /\ UNCHANGED <<bscene, node, dirs, scratch, known, pool, applied, lost>>

\* The store serves a write: replaced as a whole.  A soft delete writes an
\* empty object.
HttpWrite(p) ==
  LET k == Target(p) IN
  /\ Is(p, {"s3", "s3soft"}, {"put", "delete"}, "sent")
  /\ node' = CASE TheCall(p).kind = "put" -> Put2(k, Bytes(TheCall(p).value))
               [] TheCall(p).kind = "delete" /\ Soft -> Put2(k, <<>>)
               [] TheCall(p).kind = "delete" /\ ~Soft -> Gone(k)
  /\ applied' = applied \union {p}
  /\ Set(p, Finished(p, "answered"))
  /\ UNCHANGED <<bscene, dirs, scratch, known, pool, lost>>

\* The store serves a read.  A range that begins behind the end is refused:
\* with 416 by S3, which is final, with 500 by the server, which is retried.
HttpServe(p) ==
  LET k == Target(p)
      behind == TheCall(p).kind = "range" /\ TheCall(p).offset >= Len(node[k])
  IN
  /\ Is(p, Http, {"get", "range"}, "sent")
  /\ Set(p,
       CASE k \notin DOMAIN node ->
              [Finished(p, "answered") EXCEPT !.buf = NoBytes]
         [] k \in DOMAIN node /\ behind /\ bscene.store = "rest" -> Retried(p)
         [] k \in DOMAIN node /\ behind /\ bscene.store # "rest" ->
              Finished(p, "failed")
         [] OTHER ->
              [Finished(p, "answered") EXCEPT !.buf =
                 IF TheCall(p).kind = "get" THEN node[k]
                 ELSE Slice(node[k], TheCall(p).offset, TheCall(p).length)])
  /\ UNCHANGED <<bscene, node, dirs, scratch, known, pool, applied, lost>>

\* get_range accepts exactly the bytes asked for: a short answer is an error
\* of the Content-Range for REST and a short read for S3.
Short(p) ==
  /\ TheCall(p).kind = "range" /\ client[p].buf # NoBytes
  /\ Len(client[p].buf) # TheCall(p).length

HttpReceive(p) ==
  LET buf == client[p].buf IN
  /\ Is(p, Http, {"put", "delete", "get", "range"}, "answered")
  /\ Set(p,
       CASE Short(p) /\ bscene.store = "rest" -> Finished(p, "failed")
         [] Short(p) /\ bscene.store # "rest" -> Retried(p)
         [] ~Short(p) /\ TheCall(p).kind = "get" /\ Soft /\ buf = <<>> ->
              [Finished(p, "done") EXCEPT !.buf = NoBytes]
         [] OTHER -> Finished(p, "done"))
  /\ UNCHANGED <<bscene, node, dirs, scratch, known, pool, applied, lost>>

\* The request, or only its answer, is lost.
HttpLose(p) ==
  /\ bscene.store \in Http
  /\ client[p].pc \in {"head", "sent", "answered"}
  /\ lost < bscene.losses
  /\ lost' = lost + 1
  /\ Set(p, Retried(p))
  /\ UNCHANGED <<bscene, node, dirs, scratch, known, pool, applied>>

-----------------------------------------------------------------------------
(* SftpBackend: the pool                                                   *)

Sftp(p, kinds, pc) == Is(p, {"sftp"}, kinds, pc)

\* acquire_conn: an idle connection, a new one, or wait on pool_ready.
PoolTake(p) ==
  /\ bscene.store = "sftp" /\ client[p].pc = "start"
  /\ \/ /\ pool.idle > 0
        /\ pool' = [pool EXCEPT !.idle = @ - 1]
        /\ Set(p, Finished(p, "ready"))
     \/ /\ pool.idle = 0 /\ pool.total < MaxConnections
        /\ pool' = [pool EXCEPT !.total = @ + 1]
        /\ Set(p, Finished(p, "connecting"))
     \/ /\ pool.idle = 0 /\ pool.total = MaxConnections
        /\ pool' = [pool EXCEPT !.waiting = @ \union {p}]
        /\ Set(p, Finished(p, "waiting"))
  /\ UNCHANGED <<bscene, node, dirs, scratch, known, applied, lost>>

PoolConnect(p) ==
  /\ bscene.store = "sftp" /\ client[p].pc = "connecting"
  /\ Set(p, Finished(p, "ready"))
  /\ UNCHANGED <<bscene, node, dirs, scratch, known, pool, applied, lost>>

\* notify_one: one of the clients that wait looks at the pool again.
Notified(p, rec, newPool) ==
  \E w \in IF pool.waiting = {} THEN {p} ELSE pool.waiting :
    /\ pool' = [newPool EXCEPT !.waiting = @ \ {w}]
    /\ client' = [client EXCEPT ![w].pc = "start", ![p] = rec]

\* release_conn: the connection is idle again.
GiveBack(p, rec) == Notified(p, rec, [pool EXCEPT !.idle = @ + 1])

DiscardQuietly(p, rec) ==
  pool' = [pool EXCEPT !.total = @ - 1] /\ client' = [client EXCEPT ![p] = rec]

DiscardKeepingSlot(p, rec) == Notified(p, rec, pool)

\* release_slot: the connection is gone, its slot is free.
Discard(p, rec) == Notified(p, rec, [pool EXCEPT !.total = @ - 1])

\* The connection cannot be made.
PoolRefused(p) ==
  /\ bscene.store = "sftp" /\ client[p].pc = "connecting"
  /\ lost < bscene.losses
  /\ lost' = lost + 1
  /\ Discard(p, Retried(p))
  /\ UNCHANGED <<bscene, node, dirs, scratch, known, applied>>

\* POOL_ACQUIRE_TIMEOUT has passed.
PoolTimeout(p) ==
  /\ bscene.store = "sftp" /\ client[p].pc = "waiting"
  /\ lost < bscene.losses
  /\ lost' = lost + 1
  /\ pool' = [pool EXCEPT !.waiting = @ \ {p}]
  /\ Set(p, Retried(p))
  /\ UNCHANGED <<bscene, node, dirs, scratch, known, applied>>

-----------------------------------------------------------------------------
(* SftpBackend: the calls                                                  *)

\* put makes the parent directory unless it is known, and opens the object
\* itself for writing, which truncates it.
SftpOpen(p) ==
  LET k == Target(p) IN
  /\ Sftp(p, {"put"}, "ready")
  /\ dirs' = IF DirOf(k) \in known THEN dirs ELSE dirs \union {DirOf(k)}
  /\ node' = Put2(k, <<>>)
  /\ Set(p, Finished(p, "opened"))
  /\ UNCHANGED <<bscene, scratch, known, pool, applied, lost>>

\* One write request, at the position of this writer.
SftpWrite(p) ==
  LET k == Target(p)
      pos == client[p].pos + 1
      old == node[k]
  IN
  /\ Sftp(p, {"put"}, "opened")
  /\ client[p].pos < Len(Bytes(TheCall(p).value))
  /\ node' = [node EXCEPT ![k] =
       [i \in 1..Max({pos, Len(old)}) |->
          CASE i = pos -> TheCall(p).value
            [] i # pos /\ i <= Len(old) -> old[i]
            [] OTHER -> "zero"]]
  /\ Set(p, [client[p] EXCEPT !.pos = pos])
  /\ UNCHANGED <<bscene, dirs, scratch, known, pool, applied, lost>>

SftpClose(p) ==
  /\ Sftp(p, {"put"}, "opened")
  /\ client[p].pos = Len(Bytes(TheCall(p).value))
  /\ applied' = applied \union {p}
  /\ known' = known \union {DirOf(Target(p))}
  /\ GiveBack(p, Finished(p, "done"))
  /\ UNCHANGED <<bscene, node, dirs, scratch, lost>>

SftpDelete(p) ==
  /\ Sftp(p, {"delete"}, "ready")
  /\ node' = Gone(Target(p))
  /\ applied' = applied \union {p}
  /\ GiveBack(p, Finished(p, "done"))
  /\ UNCHANGED <<bscene, dirs, scratch, known, lost>>

\* get and get_range read one byte after the other from the object as it is
\* then, up to its end or to the length asked for.
SftpRead(p) ==
  LET k == Target(p)
      ranged == TheCall(p).kind = "range"
      from == IF ranged THEN TheCall(p).offset ELSE 0
      next == from + Len(client[p].buf) + 1
      full == ranged /\ Len(client[p].buf) = TheCall(p).length
  IN
  /\ Sftp(p, {"get", "range"}, "ready")
  /\ \/ /\ k \notin DOMAIN node
        /\ GiveBack(p, [Finished(p, "done") EXCEPT !.buf = NoBytes])
     \/ /\ k \in DOMAIN node /\ ~full /\ next <= Len(node[k])
        /\ Set(p, [client[p] EXCEPT !.buf = Append(@, node[k][next])])
        /\ UNCHANGED pool
     \/ /\ k \in DOMAIN node /\ (full \/ next > Len(node[k]))
        /\ GiveBack(p, Finished(p, IF ranged /\ ~full THEN "failed"
                                   ELSE "done"))
  /\ UNCHANGED <<bscene, node, dirs, scratch, known, applied, lost>>

\* The connection breaks: it is discarded and the call begins again.
SftpLose(p) ==
  /\ bscene.store = "sftp" /\ client[p].pc \in {"ready", "opened"}
  /\ lost < bscene.losses
  /\ lost' = lost + 1
  /\ Discard(p, Retried(p))
  /\ UNCHANGED <<bscene, node, dirs, scratch, known, applied>>

-----------------------------------------------------------------------------
(* list: page by page from S3, directory by directory elsewhere            *)

\* One page holds one key; tombstones are left out.
ListPage(p) ==
  LET rest == {k \in DOMAIN node : k > client[p].pos} IN
  /\ Is(p, {"s3", "s3soft"}, {"list"}, "start")
  /\ Set(p, IF rest = {} THEN Finished(p, "done")
            ELSE [client[p] EXCEPT !.pos = Min(rest), !.buf =
                    IF Hidden(Min(rest)) THEN @ ELSE Append(@, Min(rest))])
  /\ UNCHANGED <<bscene, node, dirs, scratch, known, pool, applied, lost>>

\* The directories in turn, each as it is at that moment; the local backend
\* also lists temporary files (0 stands for their names).
ListDir(p) ==
  LET left == {d \in dirs : d > client[p].pos}
      d == Min(left)
      found == {k \in DOMAIN node : DirOf(k) = d}
                 \union {0 : q \in {x \in scratch : DirOf(Target(x)) = d}}
  IN
  /\ Is(p, {"local"}, {"list"}, "start") \/ Is(p, {"sftp"}, {"list"}, "ready")
  /\ IF left # {}
     THEN /\ Set(p, [client[p] EXCEPT !.pos = d,
                       !.buf = Append(@, found)])
          /\ UNCHANGED pool
     ELSE IF bscene.store = "local"
     THEN Set(p, Finished(p, "done")) /\ UNCHANGED pool
     ELSE GiveBack(p, Finished(p, "done"))
  /\ UNCHANGED <<bscene, node, dirs, scratch, known, applied, lost>>

Listed(p) ==
  IF bscene.store \in Http THEN Range(client[p].buf)
  ELSE UNION Range(client[p].buf)

-----------------------------------------------------------------------------
(* Everything                                                              *)

BackendInit ==
  /\ bscene \in BackendScenes
  /\ node = bscene.stored
  /\ dirs = {DirOf(k) : k \in DOMAIN bscene.stored}
  /\ scratch = {}
  /\ known = {}
  /\ pool = [idle |-> 0, total |-> 0, waiting |-> {}]
  /\ client = [p \in Clients |->
       [pc |-> IF bscene.store = "none" THEN "done" ELSE "start",
        attempt |-> 0, pos |-> 0, buf |-> <<>>]]
  /\ applied = {}
  /\ lost = 0

BackendProgress ==
  \E p \in Clients :
    \/ LocalWrite(p) \/ LocalRename(p) \/ LocalSync(p) \/ LocalDelete(p)
    \/ LocalRead(p)
    \/ HttpSend(p) \/ HttpHead(p) \/ HttpWrite(p) \/ HttpServe(p)
    \/ HttpReceive(p)
    \/ ListPage(p) \/ ListDir(p)
    \/ PoolTake(p) \/ PoolConnect(p)
    \/ SftpOpen(p) \/ SftpWrite(p) \/ SftpClose(p) \/ SftpDelete(p)
    \/ SftpRead(p)

BackendFault ==
  \E p \in Clients :
    LocalFail(p) \/ HttpLose(p) \/ PoolTimeout(p) \/ PoolRefused(p)
      \/ SftpLose(p)

BackendNext == BackendProgress \/ BackendFault

BackendSpec == BackendInit /\ [][BackendNext]_backendVars
                           /\ WF_backendVars(BackendProgress)

-----------------------------------------------------------------------------
(* Properties                                                              *)

Pcs == {"start", "written", "renamed", "head", "sent", "answered", "waiting",
        "connecting", "ready", "opened", "done", "failed"}

\* The state is well-typed; who waits in the queue of the pool is who waits in
\* acquire_conn.
BackendTypeOK ==
  /\ bscene \in BackendScenes /\ DOMAIN bscene.ops = Clients
  /\ DOMAIN node \subseteq Keys
  /\ scratch \subseteq Clients /\ applied \subseteq Clients
  /\ \A p \in Clients : client[p].pc \in Pcs /\ client[p].attempt \in Nat
  /\ pool.waiting = {p \in Clients : client[p].pc = "waiting"}

\* acquire_conn, release_conn, release_slot: every slot of the pool is an
\* idle connection or in the hands of one call; none is lost when calls fail,
\* and there are never more connections than max_connections.
PoolConserved ==
  bscene.store = "sftp" =>
    /\ pool.total = pool.idle + Cardinality({p \in Clients :
         client[p].pc \in {"connecting", "ready", "opened"}})
    /\ pool.total <= MaxConnections

\* The value that callers take the bytes of an object for.
ValueOf(bytes) ==
  CASE bytes = NoBytes \/ bytes = <<>> -> "absent"
    [] bytes # NoBytes /\ Cardinality(Range(bytes)) = 1 -> bytes[1]
    [] OTHER -> "torn"

Outcome(p) == IF client[p].pc \in {"done", "failed"} THEN client[p].pc
              ELSE "pending"

\* put, delete, get and get_range of the local and the S3 backend, with soft
\* delete and with answers lost, are those of a store that replaces objects
\* as a whole.  REST: the reads.  SFTP writes in place and is left out.
OS == INSTANCE ObjectStore WITH
  Absent <- "absent",
  todo <- bscene.ops,
  store <- [k \in Keys |->
              IF k \in DOMAIN node /\ Len(node[k]) \in {0, 2}
              THEN ValueOf(node[k])
              ELSE IF k \in DOMAIN node THEN "torn" ELSE "absent"],
  seen <- [p \in Clients |-> IF TheCall(p).kind \in {"get", "range"}
                            THEN ValueOf(client[p].buf) ELSE "absent"],
  status <- [p \in Clients |-> Outcome(p)]

\* The calls of the local, S3 and REST backends refine the atomic store.
ImplementsObjectStore ==
  /\ OS!StoreInit
  /\ [][bscene.store # "sftp" => [OS!StoreNext]_(OS!storeVars)]_backendVars

\* get_range: a range that is returned has exactly the length asked for.
RangeExact ==
  \A p \in Clients :
    TheCall(p).kind = "range" /\ client[p].pc = "done"
      /\ client[p].buf # NoBytes => Len(client[p].buf) = TheCall(p).length

\* put of every backend: an object written by a call that succeeded is whole,
\* if no other call writes the same key.
PutDoneWhole ==
  \A p \in Clients :
    /\ TheCall(p).kind = "put" /\ client[p].pc = "done"
    /\ \A q \in Clients \ {p} :
         TheCall(q).kind \in {"put", "delete"} => Target(q) # Target(p)
    => Target(p) \in DOMAIN node /\ node[Target(p)] = Bytes(TheCall(p).value)

\* list of every backend, while other calls write: objects that no call
\* touches are all there, deleted ones (tombstones too) and unknown ones are
\* not.
ListComplete ==
  LET touched == {Target(q) : q \in {x \in Clients :
                                       TheCall(x).kind \in {"put", "delete"}}}
      there == {k \in DOMAIN bscene.stored : bscene.stored[k] # <<>>}
  IN \A p \in Clients :
       TheCall(p).kind = "list" /\ client[p].pc = "done" =>
         /\ there \ touched \subseteq Listed(p)
         /\ Listed(p) \subseteq there \union touched \union {0}

\* acquire_conn: every call has ended; a client that waits for a connection is
\* woken without the help of its timeout.
StoreCallsEnded ==
  \A p \in Clients : client[p].pc \in {"done", "failed"}
=============================================================================
