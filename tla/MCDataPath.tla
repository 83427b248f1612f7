------------------------------ MODULE MCDataPath ------------------------------
(* The components between a backup and the objects in storage, for model     *)
(* checking: the server, the storage backends, the write session, the local  *)
(* caches, the file cache and the rate limits. A behaviour plays one scene   *)
(* of one of them while the others have nothing to do.                       *)
EXTENDS MCStorage, MCWriteSession, MCLocalCaches, MCFileCache, Limits

\* Threads that move bytes under limits.
Move(op, size) == [op |-> op, size |-> size]
NoLimits == [rate |-> [read |-> 0, write |-> 0, source |-> 0], plan |-> <<>>, horizon |-> 0]
MCLimitScenes ==
  {[rate |-> [read |-> 2, write |-> 0, source |-> 0], horizon |-> 6,
    plan |-> <<<<Move("get", 3), Move("get_into", 2)>>,
               <<Move("get_into", 1), Move("put", 2)>>>>],
   [rate |-> [read |-> 0, write |-> 2, source |-> 1], horizon |-> 5,
    plan |-> <<<<Move("put", 3), Move("source", 2)>>,
               <<Move("put", 2), Move("other", 0), Move("source", 1)>>,
               <<Move("put", 2), Move("get", 4)>>>>],
   [rate |-> [read |-> 2, write |-> 1, source |-> 2], horizon |-> 5,
    plan |-> <<<<Move("get", 3), Move("put", 2)>>,
               <<Move("put", 1), Move("source", 3), Move("source", 1)>>>>]}

DataWrites == MCWrites \union {NoWrites}
DataCaches == MCCaches \union {NoCaches}
DataFiles == MCFiles \union {NoBackups}
DataLimits == MCLimitScenes \union {NoLimits}

VARIABLE playing   \* the component that plays

dataVars == <<playing, serverVars, backendVars, writeVars, cacheVars, fileVars, limitVars>>

DataInit ==
  /\ playing \in {"server", "backends", "writes", "caches", "files", "limits"}
  /\ scene \in IF playing = "server" THEN Servers ELSE {NoServer}
  /\ bscene \in IF playing = "backends" THEN Stores ELSE {NoStore}
  /\ wscene \in IF playing = "writes" THEN MCWrites ELSE {NoWrites}
  /\ cscene \in IF playing = "caches" THEN MCCaches ELSE {NoCaches}
  /\ fscene \in IF playing = "files" THEN MCFiles ELSE {NoBackups}
  /\ lscene \in IF playing = "limits" THEN MCLimitScenes ELSE {NoLimits}
  /\ ServerInit /\ BackendInit /\ WriteInit /\ CacheInit /\ FileInit /\ LimitInit

\* A step of component c.
Only(c) ==
  /\ playing = c /\ UNCHANGED playing
  /\ IF c = "server" THEN TRUE ELSE UNCHANGED serverVars
  /\ IF c = "backends" THEN TRUE ELSE UNCHANGED backendVars
  /\ IF c = "writes" THEN TRUE ELSE UNCHANGED writeVars
  /\ IF c = "caches" THEN TRUE ELSE UNCHANGED cacheVars
  /\ IF c = "files" THEN TRUE ELSE UNCHANGED fileVars
  /\ IF c = "limits" THEN TRUE ELSE UNCHANGED limitVars

DataNext ==
  \/ Only("server") /\ ServerNext
  \/ Only("backends") /\ BackendNext
  \/ Only("writes") /\ WriteNext
  \/ Only("caches") /\ CacheNext
  \/ Only("files") /\ FileNext
  \/ Only("limits") /\ LimitNext

\* The fairness of the components. Only one of them plays, so that one
\* condition stands for the conditions of all of them.
DataProgress ==
  \/ Only("server") /\ ServerProgress
  \/ Only("backends") /\ BackendProgress
  \/ Only("writes") /\ (BackupThread \/ Upload)
  \/ Only("caches") /\ \E p \in CacheProcs : CacheStep(p)
  \/ Only("files") /\ \E p \in Backups : Advance(p)

DataSpec == DataInit /\ [][DataNext]_dataVars /\ WF_dataVars(DataProgress)

\* Whatever fails, is lost or dies: every call of the server and of a storage
\* backend returns, every write session commits or fails, and every process
\* that uses the caches ends.
DataPathEnds ==
  []<>(CallsEnded /\ StoreCallsEnded /\ SessionEnded /\ CachesEnded /\ BackupsEnded)
=============================================================================
