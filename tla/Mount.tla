------------------------------- MODULE Mount --------------------------------
(***************************************************************************)
(* `vykar mount`: the items of one or of all snapshots become a tree, and  *)
(* files are read from it by concurrent requests through a cache of        *)
(* chunks.  The repository is opened without a session marker, so that a   *)
(* compact may remove a chunk the tree still names.                        *)
(*                                                                         *)
(* The tree is a function from paths to nodes; the root is <<>>.           *)
(***************************************************************************)
EXTENDS Integers, Sequences, FiniteSets, FiniteSetsExt, SequencesExt, Functions

CONSTANTS
  MountScenes,    \* what is mounted: records
  MountClients,   \* the requests that run at the same time
  CacheSize,      \* capacity of the chunk cache
  ReadCounts,     \* how much a read may ask for
  Seeks,          \* the seeks a client may make: <<origin, distance>>
  MountOps        \* bound on the operations of a client

VARIABLES
  mscene,   \* the member of MountScenes played; never changes
  mtree,    \* what build_vfs_tree has built
  mleft,    \* the snapshots and items still to be put into the tree
  mlru,     \* the cached chunks, least recently used first
  mgone,    \* chunks that are no longer where the index has them
  cl        \* the clients

mountVars == <<mscene, mtree, mleft, mlru, mgone, cl>>

-----------------------------------------------------------------------------
(* The tree                                                                *)

DirNode == [kind |-> "dir", chunks |-> <<>>, listed |-> FALSE]
NodeOf(item) == [kind |-> item.kind, chunks |-> item.chunks, listed |-> TRUE]

Above(path) == {SubSeq(path, 1, n) : n \in 0..Len(path) - 1}
Below(path, p) == Len(p) > Len(path) /\ SubSeq(p, 1, Len(path)) = path

\* insert_into_tree: missing directories are made on the way; under anything
\* but a directory the item is dropped.  A directory that is there keeps
\* what is in it.
InsertIntoTree(tree, item) ==
  IF \E p \in Above(item.path) : p \in DOMAIN tree /\ tree[p].kind # "dir"
  THEN tree
  ELSE LET keep == item.kind = "dir" /\ item.path \in DOMAIN tree
                     /\ tree[item.path].kind = "dir"
       IN  [p \in {q \in DOMAIN tree : keep \/ ~Below(item.path, q)}
                    \union Above(item.path) \union {item.path} |->
              IF p = item.path THEN NodeOf(item)
              ELSE IF p \in DOMAIN tree THEN tree[p] ELSE DirNode]

\* One item; with several snapshots its path starts with the snapshot.  The
\* root of a snapshot is a directory even if the snapshot is empty.
BuildTree ==
  /\ mleft # <<>>
  /\ mtree' = InsertIntoTree(mtree, Head(mleft))
  /\ mleft' = Tail(mleft)
  /\ UNCHANGED <<mscene, mlru, mgone, cl>>

Serving == mleft = <<>>

-----------------------------------------------------------------------------
(* Open, seek, read                                                        *)

SizeOfChunks(chunks) == FoldSeq(LAMBDA c, sum : c.size + sum, 0, chunks)
BytesOfChunk(c) == [i \in 1..c.size |-> <<c.id, i>>]

Quiet == [pc |-> "closed", chunks |-> <<>>, pos |-> 0, ops |-> 0, at |-> 0,
          start |-> 0, count |-> 0, buf |-> <<>>]

CanAct(c) == Serving /\ cl[c].ops < MountOps

\* lookup, then a handle at the beginning of the file.  Opening anything else
\* is refused and changes nothing.
OpenHandle(c) ==
  /\ CanAct(c) /\ cl[c].pc = "closed"
  /\ \E p \in DOMAIN mtree :
       /\ mtree[p].kind = "file"
       /\ cl' = [cl EXCEPT ![c] = [Quiet EXCEPT !.pc = "open",
                   !.chunks = mtree[p].chunks, !.ops = cl[c].ops + 1]]
  /\ UNCHANGED <<mscene, mtree, mleft, mlru, mgone>>

Origin(c, from) ==
  CASE from = "start" -> 0
    [] from = "current" -> cl[c].pos
    [] from = "end" -> SizeOfChunks(cl[c].chunks)

\* A position before the beginning is refused; one behind the end is not.
Seek(c) ==
  /\ CanAct(c) /\ cl[c].pc = "open"
  /\ \E s \in Seeks :
       /\ Origin(c, s[1]) + s[2] >= 0
       /\ cl' = [cl EXCEPT ![c].pos = Origin(c, s[1]) + s[2], ![c].ops = @ + 1]
  /\ UNCHANGED <<mscene, mtree, mleft, mlru, mgone>>

\* read_bytes: nothing behind the end, otherwise no more than there is.
BeginRead(c) ==
  /\ CanAct(c) /\ cl[c].pc = "open"
  /\ \E n \in ReadCounts :
       LET left == SizeOfChunks(cl[c].chunks) - cl[c].pos IN
       cl' = [cl EXCEPT ![c] = [@ EXCEPT
                !.ops = @ + 1, !.pc = IF left <= 0 THEN "open" ELSE "walk",
                !.at = 1, !.start = cl[c].pos, !.buf = <<>>,
                !.count = IF left <= 0 THEN 0 ELSE Min({n, left})]]
  /\ UNCHANGED <<mscene, mtree, mleft, mlru, mgone>>

ChunkStart(me) == SizeOfChunks(SubSeq(me.chunks, 1, me.at - 1))
Chunk(me) == me.chunks[me.at]

CopiedWhole(me) ==
  LET to == Min({me.count - Len(me.buf), Chunk(me).size})
  IN  [me EXCEPT !.buf = @ \o SubSeq(BytesOfChunk(Chunk(me)), 1, to),
                 !.at = @ + 1, !.pc = "walk"]

\* What the current chunk adds to the buffer.
Copied(me) ==
  LET from == me.start + Len(me.buf) - ChunkStart(me)
      to == Min({from + me.count - Len(me.buf), Chunk(me).size})
  IN  [me EXCEPT !.buf = @ \o SubSeq(BytesOfChunk(Chunk(me)), from + 1, to),
                 !.at = @ + 1, !.pc = "walk"]

Used(lru, id) == Append(Remove(lru, id), id)

\* The walk over the chunks: those before the position are passed over, the
\* others come from the cache if they are there.
WalkChunk(c) ==
  LET me == cl[c]
      offset == me.start + Len(me.buf)
      skip == offset >= ChunkStart(me) + Chunk(me).size
      hit == ~skip /\ Chunk(me).id \in Range(mlru)
  IN
  /\ me.pc = "walk" /\ me.at <= Len(me.chunks) /\ Len(me.buf) < me.count
  /\ cl' = [cl EXCEPT ![c] = CASE skip -> [me EXCEPT !.at = @ + 1]
                               [] hit -> Copied(me)
                               [] OTHER -> [me EXCEPT !.pc = "fetch"]]
  /\ mlru' = IF hit THEN Used(mlru, Chunk(me).id) ELSE mlru
  /\ UNCHANGED <<mscene, mtree, mleft, mgone>>

\* Under the lock of the repository; a chunk that is gone fails the
\* read and leaves the position.
FetchChunk(c) ==
  LET me == cl[c] IN
  /\ me.pc = "fetch"
  /\ \/ /\ Chunk(me).id \notin mgone
        /\ cl' = [cl EXCEPT ![c].pc = "put"]
     \/ /\ Chunk(me).id \in mgone
        /\ cl' = [cl EXCEPT ![c] = [me EXCEPT !.pc = "open", !.count = 0,
                                              !.start = me.pos, !.buf = <<>>]]
  /\ UNCHANGED <<mscene, mtree, mleft, mlru, mgone>>

\* The chunk is cached; another request may have cached it meanwhile.
PutChunk(c) ==
  LET me == cl[c]
      there == Chunk(me).id \in Range(mlru)
      full == Len(mlru) >= CacheSize
  IN
  /\ me.pc = "put"
  /\ mlru' = IF there THEN Used(mlru, Chunk(me).id)
             ELSE Append(IF full THEN Tail(mlru) ELSE mlru, Chunk(me).id)
  /\ cl' = [cl EXCEPT ![c] = Copied(me)]
  /\ UNCHANGED <<mscene, mtree, mleft, mgone>>

\* The buffer is the answer and moves the position.
EndReadBytes(c) ==
  LET me == cl[c] IN
  /\ me.pc = "walk" /\ (me.at > Len(me.chunks) \/ Len(me.buf) = me.count)
  /\ cl' = [cl EXCEPT ![c] = [me EXCEPT !.pc = "open",
                                        !.pos = @ + Len(me.buf)]]
  /\ UNCHANGED <<mscene, mtree, mleft, mlru, mgone>>

\* A compact elsewhere moves a chunk; the index of the mount is not reloaded.
CompactAway ==
  /\ mscene.compact /\ mgone = {}
  /\ \E p \in DOMAIN mtree : \E c \in Range(mtree[p].chunks) : mgone' = {c.id}
  /\ UNCHANGED <<mscene, mtree, mleft, mlru, cl>>

Rooted == [p \in {<<>>} \union mscene.roots |-> DirNode]

MountInit ==
  /\ mscene \in MountScenes
  /\ mtree = Rooted
  /\ mleft = mscene.items
  /\ mlru = <<>>
  /\ mgone = {}
  /\ cl = [c \in MountClients |-> Quiet]

ReadStep(c) == WalkChunk(c) \/ FetchChunk(c) \/ PutChunk(c) \/ EndReadBytes(c)

MountNext ==
  \/ BuildTree \/ CompactAway
  \/ \E c \in MountClients :
       OpenHandle(c) \/ Seek(c) \/ BeginRead(c) \/ ReadStep(c)

MountProgress ==
  /\ WF_mountVars(BuildTree)
  /\ \A c \in MountClients : WF_mountVars(ReadStep(c))

MountSpec == MountInit /\ [][MountNext]_mountVars /\ MountProgress

-----------------------------------------------------------------------------
(* Properties                                                              *)

\* The tree holds every item of the snapshot where it was, with its kind and
\* content, and nothing else but directories on the way: in whatever order
\* the items come.
TreeExact ==
  Serving =>
    /\ \A i \in 1..Len(mscene.items) :
         LET item == mscene.items[i]
         IN  item.path \in DOMAIN mtree /\ mtree[item.path] = NodeOf(item)
    /\ \A p \in DOMAIN mtree :
         \/ p \in {<<>>} \union mscene.roots
         \/ \E i \in 1..Len(mscene.items) :
              p = mscene.items[i].path \/ p \in Above(mscene.items[i].path)

\* What a read returns is the bytes of the file from the position on, as
\* many as asked for and there are; then the position is behind them.
ReadsExact ==
  \A c \in MountClients :
    LET me == cl[c]
        all == FlattenSeq([i \in 1..Len(me.chunks) |->
                             BytesOfChunk(me.chunks[i])])
    IN  (me.pc = "open" /\ me.count > 0) =>
          me.buf = SubSeq(all, me.start + 1, me.start + me.count)

\* The cache holds no chunk twice and no more than its size, although it is
\* unlocked between the lookup and the insertion.
CacheBounded ==
  Len(mlru) <= CacheSize /\ Cardinality(Range(mlru)) = Len(mlru)

\* A mount shows the snapshot: its tree, the bytes of its files, and through a
\* cache that stays within its size.
MountSound == TreeExact /\ ReadsExact /\ CacheBounded

\* Every read that began has returned, also when its chunks are gone.
ReadsEnded ==
  \A c \in MountClients : cl[c].pc \notin {"walk", "fetch", "put"}

=============================================================================
