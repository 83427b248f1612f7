------------------------------ MODULE MCStorage ------------------------------
(* The server and the storage backends for model checking.  A behaviour      *)
(* plays one scene of one of them while the other has nothing to do.         *)
EXTENDS Server, Backends, TLC

CONSTANTS c1, c2, p1, p2, p3

-----------------------------------------------------------------------------
(* The server                                                              *)

Put(k, n) == [kind |-> "put", key |-> k, size |-> n]
PutPack(blobs) == Put(Pack(blobs), PackSize(blobs))
Delete(k) == [kind |-> "delete", key |-> k]
Batch(ks) == [kind |-> "batch", keys |-> ks]
Repack(plan) == [kind |-> "repack", plan |-> plan]
StatsCall == [kind |-> "stats"]

Index == Key("index", {})
Snapshot == Key("snapshots", {"s"})
Lock == Key("locks", {"l"})
Config == Key("config", {})

Old(n) == [by |-> "old", size |-> n]
Packed(blobs) == Pack(blobs) :> [by |-> "content", size |-> PackSize(blobs)]

Scene(kind, ops, stored, quota, disk, appendOnly, losses, restarts) ==
  [kind |-> kind, ops |-> ops, stored |-> stored, quota |-> quota,
   base |-> MapThenSumSet(LAMBDA k : stored[k].size, DOMAIN stored),
   disk |-> disk, appendOnly |-> appendOnly, losses |-> losses,
   restarts |-> restarts, retries |-> 1, damage |-> losses > 0,
   mortal |-> FALSE, index |-> [b \in {} |-> {}]]

\* Two uploads next to each other, each of which fits the quota alone.
Rivals ==
  Scene("uploads", c1 :> PutPack({"a"}) @@ c2 :> Put(Snapshot, 2),
        Index :> Old(1), 3, 0, FALSE, 1, 0)

\* The index is overwritten while a lock is removed; the server restarts.
Overwrite ==
  Scene("uploads", c1 :> Put(Index, 1) @@ c2 :> Delete(Lock),
        Index :> Old(2) @@ Lock :> Old(1), 9, 0, FALSE, 1, 1)

\* Two clients write the same index.
SameKey ==
  Scene("uploads", c1 :> Put(Index, 1) @@ c2 :> Put(Index, 2),
        Index :> Old(3), 9, 0, FALSE, 1, 0)

\* An append-only server: a snapshot is uploaded, history is kept.
AppendOnly ==
  Scene("uploads", c1 :> Put(Snapshot, 2) @@ c2 :> Put(Config, 2),
        Config :> Old(1), 9, 0, TRUE, 1, 0)

AppendOnlyRemoval ==
  Scene("uploads", c1 :> Batch(<<Config>>) @@ c2 :> Delete(Lock),
        Config :> Old(1) @@ Lock :> Old(1), 9, 0, TRUE, 1, 0)

AppendOnlyRepack ==
  [Scene("repack", c1 :> Repack(<<[src |-> {"a", "b"}, keep |-> {"a"}]>>)
           @@ c2 :> Delete(Config),
         Packed({"a", "b"}) @@ Config :> Old(1), 9, 0, TRUE, 0, 0)
   EXCEPT !.index = "a" :> {"a", "b"}]

\* The limit follows the free space; a batch removes keys, one of them absent.
FreeSpace ==
  Scene("auto", c1 :> Put(Snapshot, 1) @@ c2 :> Batch(<<Lock, Config, Index>>),
        Lock :> Old(1) @@ Index :> Old(2), 0, 5, FALSE, 1, 0)

Measured ==
  Scene("auto", c1 :> PutPack({"a"}) @@ c2 :> StatsCall,
        Index :> Old(1), 0, 4, FALSE, 0, 1)

\* Two packs are repacked, a third is dropped, in one plan.
Plan == <<[src |-> {"x"}, keep |-> {}],
          [src |-> {"a", "b"}, keep |-> {"a"}],
          [src |-> {"c", "d"}, keep |-> {"d"}]>>

Repacking(losses, restarts) ==
  [Scene("repack", c1 :> Repack(Plan),
         Packed({"x"}) @@ Packed({"a", "b"}) @@ Packed({"c", "d"}),
         0, 0, FALSE, losses, restarts)
   EXCEPT !.index = "a" :> {"a", "b"} @@ "d" :> {"c", "d"},
          !.mortal = TRUE]

NoServer == Scene("none", [c \in {} |-> StatsCall], [k \in {} |-> Old(0)],
                  0, 0, FALSE, 0, 0)

Servers == {Rivals, Overwrite, SameKey, AppendOnly, AppendOnlyRemoval,
            AppendOnlyRepack, FreeSpace, Measured, Repacking(1, 1)}

\* The same plan; a connection is lost once.
LostReply == {[Repacking(1, 0) EXCEPT !.mortal = FALSE], NoServer}

MCServers == Servers \union {NoServer}

-----------------------------------------------------------------------------
(* The backends                                                            *)

MCDirOf(k) == IF k <= 2 THEN 1 ELSE 2

SPut(k, v) == [kind |-> "put", key |-> k, value |-> v]
SDelete(k) == [kind |-> "delete", key |-> k]
SGet(k) == [kind |-> "get", key |-> k]
SRange(k, offset, length) ==
  [kind |-> "range", key |-> k, offset |-> offset, length |-> length]
SList == [kind |-> "list", key |-> 1]

Mix(a, b, c) == p1 :> a @@ p2 :> b @@ p3 :> c

\* Two objects; with soft delete also a tombstone.
StoreScene(store, ops) ==
  [store |-> store, ops |-> ops, losses |-> 1, retries |-> 1,
   stored |-> IF store = "s3soft"
              THEN 1 :> Bytes("u") @@ 2 :> <<>> @@ 3 :> Bytes("w")
              ELSE 1 :> Bytes("u") @@ 3 :> Bytes("w")]

\* Writers, readers and a listing on the same keys.
Mixes == {Mix(SPut(1, "x"), SPut(1, "y"), SGet(1)),
          Mix(SPut(1, "x"), SDelete(1), SGet(1)),
          Mix(SPut(4, "x"), SDelete(1), SList),
          Mix(SDelete(1), SRange(1, 1, 1), SRange(1, 0, 2))}

\* Ranges at and behind the end of an object.
Bounds == Mix(SRange(1, 0, 2), SRange(1, 1, 2), SRange(1, 2, 1))

Stores ==
  {StoreScene(s, m) : s \in {"local", "s3", "s3soft"}, m \in Mixes}
    \union {StoreScene(s, Bounds) : s \in {"local", "s3", "rest", "sftp"}}
    \union {StoreScene("sftp", m) : m \in
              {Mix(SPut(1, "x"), SPut(2, "y"), SGet(3)),
               Mix(SPut(2, "x"), SDelete(1), SList)}}
    \union {[StoreScene("sftp", Mix(SGet(1), SGet(1), SGet(3)))
              EXCEPT !.retries = 0]}

NoStore == StoreScene("none", Mix(SGet(1), SGet(1), SGet(1)))

MCStores == Stores \union {NoStore}
OnlyNoStore == {NoStore}

-----------------------------------------------------------------------------
(* One of the two at a time                                                *)

StorageInit ==
  /\ \/ scene \in ServerScenes \ {NoServer} /\ bscene = NoStore
     \/ scene = NoServer /\ bscene \in BackendScenes \ {NoStore}
  /\ ServerInit /\ BackendInit

StorageNext ==
  \/ ServerNext /\ UNCHANGED backendVars
  \/ BackendNext /\ UNCHANGED serverVars

StorageSpec == /\ StorageInit
               /\ [][StorageNext]_<<serverVars, backendVars>>
               /\ WF_serverVars(ServerProgress)
               /\ WF_backendVars(BackendProgress)

\* Storage keeps its word, over every backend and whatever connection is lost:
\* what it acknowledges is done, what it holds is whole, what it returns is
\* what was asked for.
StorageInv ==
  /\ ServerTypeOK /\ BackendTypeOK
  /\ WholeObjects /\ SuccessIsReal
  /\ RangeExact /\ PutDoneWhole /\ ListComplete
=============================================================================
