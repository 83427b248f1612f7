---------------------------- MODULE Backends_proofs ----------------------------
(***************************************************************************)
(* The pool of SFTP connections loses nothing, for any number of clients,  *)
(* any size of the pool and whatever breaks. The argument: every step of a *)
(* call moves at most one client into or out of the set of those that hold *)
(* a connection, and changes the counters of the pool with it; a client    *)
(* that is notified held none.                                             *)
(***************************************************************************)
EXTENDS Backends, FiniteSetTheorems, TLAPS

Holding == {"connecting", "ready", "opened"}
Holders == {p \in Clients : client[p].pc \in Holding}

\* The connections in the hands of a call.
Held(c) == IF c.pc \in Holding THEN 1 ELSE 0

\* The call of a client is a record of these fields.
IsCall(c) == \E a, n, i, x : c = [pc |-> a, attempt |-> n, pos |-> i, buf |-> x]

PoolInv ==
  /\ pool \in [idle : Nat, total : Nat, waiting : SUBSET Clients]
  /\ DOMAIN client = Clients
  /\ \A p \in Clients : IsCall(client[p])
  /\ \A p \in pool.waiting : client[p].pc = "waiting"
  /\ pool.total = pool.idle + Cardinality(Holders)
  /\ pool.total <= MaxConnections

SftpInv == bscene.store = "sftp" => PoolInv

LEMMA CallRecord ==
  ASSUME NEW c, NEW a, NEW n, NEW i, NEW x,
         c = [pc |-> a, attempt |-> n, pos |-> i, buf |-> x]
  PROVE  IsCall(c) /\ c.pc = a
  BY Zenon DEF IsCall

\* What the steps of a call make of it is a call again.
LEMMA CallUpdates ==
  ASSUME NEW c, IsCall(c), NEW j, NEW y
  PROVE  /\ LET d == [c EXCEPT !.pos = j] IN IsCall(d) /\ d.pc = c.pc
         /\ LET d == [c EXCEPT !.buf = y] IN IsCall(d) /\ d.pc = c.pc
         /\ LET d == [c EXCEPT !.pc = y] IN IsCall(d) /\ d.pc = y
<1>1. PICK a, n, i, x : c = [pc |-> a, attempt |-> n, pos |-> i, buf |-> x]
  BY Zenon DEF IsCall
<1>2. /\ [c EXCEPT !.pos = j] = [pc |-> a, attempt |-> n, pos |-> j, buf |-> x]
      /\ [c EXCEPT !.buf = y] = [pc |-> a, attempt |-> n, pos |-> i, buf |-> y]
      /\ [c EXCEPT !.pc = y] = [pc |-> y, attempt |-> n, pos |-> i, buf |-> x]
  <2>1. [c EXCEPT !.pos = j] = [pc |-> a, attempt |-> n, pos |-> j, buf |-> x]
    BY <1>1
  <2>2. [c EXCEPT !.buf = y] = [pc |-> a, attempt |-> n, pos |-> i, buf |-> y]
    BY <1>1
  <2>3. [c EXCEPT !.pc = y] = [pc |-> y, attempt |-> n, pos |-> i, buf |-> x]
    BY <1>1
  <2> QED BY <2>1, <2>2, <2>3, Zenon
<1>3. c.pc = a
  BY <1>1
<1> DEFINE P == [c EXCEPT !.pos = j]
           B == [c EXCEPT !.buf = y]
           C == [c EXCEPT !.pc = y]
<1>4. IsCall(P) /\ P.pc = a /\ IsCall(B) /\ B.pc = a
      /\ IsCall(C) /\ C.pc = y
  <2> HIDE DEF P, B, C
  <2>1. /\ P = [pc |-> a, attempt |-> n, pos |-> j, buf |-> x]
        /\ B = [pc |-> a, attempt |-> n, pos |-> i, buf |-> y]
        /\ C = [pc |-> y, attempt |-> n, pos |-> i, buf |-> x]
    BY <1>2, Zenon DEF P, B, C
  <2> QED BY <2>1, CallRecord
<1> QED
  BY <1>3, <1>4, Zenon

LEMMA CallRecords ==
  ASSUME NEW p, IsCall(client[p])
  PROVE  /\ \A how : IsCall(Finished(p, how)) /\ Finished(p, how).pc = how
         /\ IsCall(Retried(p)) /\ Retried(p).pc \in {"start", "failed"}
<1>1. \A how : IsCall(Finished(p, how)) /\ Finished(p, how).pc = how
  BY CallUpdates, Zenon DEF Finished
<1>2. CASE client[p].attempt < bscene.retries
  <2>1. Retried(p) = [pc |-> "start", attempt |-> client[p].attempt + 1, pos |-> 0, buf |-> <<>>]
    BY <1>2, Zenon DEF Retried
  <2> QED BY <1>1, <2>1, CallRecord
<1>3. CASE ~(client[p].attempt < bscene.retries)
  <2>1. Retried(p) = Finished(p, "failed")
    BY <1>3, Zenon DEF Retried
  <2> QED BY <1>1, <2>1, Zenon
<1> QED
  BY <1>2, <1>3

\* A step of one client, which holds a connection before and after or neither.
LEMMA StepCounts ==
  ASSUME PoolInv, NEW p \in Clients, NEW rec, IsCall(rec),
         client' = [client EXCEPT ![p] = rec],
         pool' \in [idle : Nat, total : Nat, waiting : SUBSET Clients],
         pool'.waiting \subseteq pool.waiting \cup {p}, p \in pool'.waiting => rec.pc = "waiting",
         pool'.total <= MaxConnections,
         pool'.total - pool'.idle = pool.total - pool.idle + Held(rec) - Held(client[p])
  PROVE  PoolInv'
<1>0. Held(rec) \in {0, 1} /\ Held(client[p]) \in {0, 1}
  BY DEF Held
<1>1. DOMAIN client' = Clients /\ \A q \in Clients : client'[q] = IF q = p THEN rec ELSE client[q]
  BY DEF PoolInv
<1>2. (\A q \in Clients : IsCall(client[q]))'
  BY <1>1 DEF PoolInv
<1>3. \A q \in pool'.waiting : client'[q].pc = "waiting"
  BY <1>1 DEF PoolInv
<1>4. IsFiniteSet(Holders)
  BY FS_Subset, BackendAssumption DEF Holders
<1>5. Cardinality(Holders) \in Nat
  BY <1>4, FS_CardinalityType
<1>6. pool'.total = pool'.idle + Cardinality(Holders')
  <2>1. CASE client[p].pc \in Holding /\ rec.pc \notin Holding
    <3>1. Holders' = Holders \ {p} /\ p \in Holders
      BY <1>1, <2>1 DEF Holders
    <3>2. Cardinality(Holders') = Cardinality(Holders) - 1
      BY Zenon, <1>4, <3>1, FS_RemoveElement
    <3> QED BY <1>5, <2>1, <3>2 DEF PoolInv, Held
  <2>2. CASE client[p].pc \notin Holding /\ rec.pc \in Holding
    <3>1. Holders' = Holders \cup {p} /\ p \notin Holders
      BY <1>1, <2>2 DEF Holders
    <3>2. Cardinality(Holders') = Cardinality(Holders) + 1
      BY Zenon, <1>4, <3>1, FS_AddElement
    <3> QED BY <1>5, <2>2, <3>2 DEF PoolInv, Held
  <2>3. CASE client[p].pc \in Holding <=> rec.pc \in Holding
    <3>1. Holders' = Holders
      BY <1>1, <2>3 DEF Holders
    <3> QED BY <1>5, <2>3, <3>1 DEF PoolInv, Held
  <2> QED BY <2>1, <2>2, <2>3
<1> QED
  BY <1>1, <1>2, <1>3, <1>6 DEF PoolInv

\* A client gives up its connection; one that waits, if any, is notified.
LEMMA NotifiedCounts ==
  ASSUME PoolInv, NEW p \in Clients, client[p].pc \in Holding,
         NEW rec, IsCall(rec), rec.pc \in {"start", "done", "failed"},
         NEW newPool \in [idle : Nat, total : Nat, waiting : SUBSET Clients],
         newPool.waiting = pool.waiting, newPool.total <= MaxConnections,
         newPool.total - newPool.idle = pool.total - pool.idle - 1,
         Notified(p, rec, newPool)
  PROVE  PoolInv'
<1>1. PICK w \in IF pool.waiting = {} THEN {p} ELSE pool.waiting :
        /\ pool' = [newPool EXCEPT !.waiting = @ \ {w}]
        /\ client' = [client EXCEPT ![w].pc = "start", ![p] = rec]
  BY Zenon DEF Notified
<1>2. w \in Clients /\ (w # p => client[w].pc = "waiting")
  BY <1>1 DEF PoolInv
<1>3. /\ pool' \in [idle : Nat, total : Nat, waiting : SUBSET Clients]
      /\ pool'.total = newPool.total /\ pool'.idle = newPool.idle
      /\ pool'.waiting = pool.waiting \ {w}
  BY <1>1
<1>4. p \notin pool'.waiting
  BY <1>3 DEF PoolInv, Holding
<1>5. DOMAIN client' = Clients /\ client'[p] = rec
  BY <1>1, <1>2, Zenon DEF PoolInv
<1>6. \A q \in Clients \ {p} : client'[q] = IF q = w THEN Finished(w, "start") ELSE client[q]
  BY <1>1, <1>2, Zenon DEF PoolInv, Finished
<1>7. IsCall(Finished(w, "start")) /\ Finished(w, "start").pc = "start"
  BY <1>2, CallRecords DEF PoolInv
<1>8. \A q \in Clients : IsCall(client'[q])
  BY <1>5, <1>6, <1>7 DEF PoolInv
<1>9. \A q \in pool'.waiting : client'[q].pc = "waiting"
  BY <1>3, <1>4, <1>6 DEF PoolInv
<1>10. Holders' = Holders \ {p} /\ p \in Holders
  <2>1. \A q \in Clients \ {p} : client'[q].pc \in Holding <=> client[q].pc \in Holding
    BY <1>2, <1>6, <1>7 DEF Holding
  <2>2. client'[p].pc \notin Holding
    BY <1>5 DEF Holding
  <2> QED BY <2>1, <2>2 DEF Holders
<1>11. IsFiniteSet(Holders)
  BY FS_Subset, BackendAssumption DEF Holders
<1>12. Cardinality(Holders) \in Nat /\ Cardinality(Holders') = Cardinality(Holders) - 1
  BY <1>10, <1>11, FS_RemoveElement, FS_CardinalityType
<1>13. pool'.total = pool'.idle + Cardinality(Holders')
  BY <1>3, <1>12 DEF PoolInv
<1> QED
  BY <1>3, <1>5, <1>8, <1>9, <1>13 DEF PoolInv

LEMMA ReleaseCounts ==
  ASSUME PoolInv, NEW p \in Clients, client[p].pc \in Holding,
         NEW rec, IsCall(rec), rec.pc \in {"start", "done", "failed"},
         GiveBack(p, rec) \/ Discard(p, rec)
  PROVE  PoolInv'
<1>1. pool \in [idle : Nat, total : Nat, waiting : SUBSET Clients] /\ pool.total <= MaxConnections
  BY DEF PoolInv
<1>2. IsFiniteSet(Holders) /\ p \in Holders
  BY FS_Subset, BackendAssumption DEF Holders
<1>3. Cardinality(Holders) \in Nat /\ Cardinality(Holders) # 0
  BY <1>2, FS_CardinalityType, FS_EmptySet
<1>4. pool.total >= pool.idle + 1
  BY <1>1, <1>3 DEF PoolInv
<1>5. CASE GiveBack(p, rec)
  <2> DEFINE new == [pool EXCEPT !.idle = @ + 1]
  <2>1. /\ new \in [idle : Nat, total : Nat, waiting : SUBSET Clients]
        /\ new.waiting = pool.waiting /\ new.total = pool.total /\ new.idle = pool.idle + 1
    BY <1>1
  <2>2. new.total <= MaxConnections /\ new.total - new.idle = pool.total - pool.idle - 1
    BY <1>1, <2>1
  <2>3. Notified(p, rec, new)
    BY <1>5 DEF GiveBack
  <2> HIDE DEF new
  <2> QED BY <2>1, <2>2, <2>3, NotifiedCounts
<1>6. CASE Discard(p, rec)
  <2> DEFINE new == [pool EXCEPT !.total = @ - 1]
  <2>1. /\ new \in [idle : Nat, total : Nat, waiting : SUBSET Clients]
        /\ new.waiting = pool.waiting /\ new.total = pool.total - 1 /\ new.idle = pool.idle
    BY <1>1, <1>4
  <2>2. new.total <= MaxConnections /\ new.total - new.idle = pool.total - pool.idle - 1
    BY <1>1, <2>1, BackendAssumption
  <2>3. Notified(p, rec, new)
    BY <1>6 DEF Discard
  <2> HIDE DEF new
  <2> QED BY <2>1, <2>2, <2>3, NotifiedCounts
<1> QED
  BY <1>5, <1>6

\* acquire_conn.
LEMMA AcquireCounts ==
  ASSUME PoolInv, NEW p \in Clients, PoolTake(p) \/ PoolConnect(p) \/ PoolTimeout(p)
  PROVE  PoolInv'
<1>1. /\ pool \in [idle : Nat, total : Nat, waiting : SUBSET Clients] /\ IsCall(client[p])
      /\ pool.total <= MaxConnections /\ \A q \in pool.waiting : client[q].pc = "waiting"
  BY DEF PoolInv
<1>2. \A how : IsCall(Finished(p, how)) /\ Finished(p, how).pc = how
  BY <1>1, CallRecords
<1>3. /\ Held(Finished(p, "ready")) = 1 /\ Held(Finished(p, "connecting")) = 1
      /\ Held(Finished(p, "waiting")) = 0
  BY <1>2 DEF Held, Holding
<1>4. CASE PoolTake(p)
  <2>1. client[p].pc = "start" /\ Held(client[p]) = 0 /\ p \notin pool.waiting
    BY <1>1, <1>4 DEF PoolTake, Held, Holding
  <2>2. CASE pool.idle > 0 /\ pool' = [pool EXCEPT !.idle = @ - 1] /\ Set(p, Finished(p, "ready"))
    <3>1. /\ pool' \in [idle : Nat, total : Nat, waiting : SUBSET Clients]
          /\ pool'.idle = pool.idle - 1 /\ pool'.total = pool.total /\ pool'.waiting = pool.waiting
      BY <1>1, <2>2
    <3>2. client' = [client EXCEPT ![p] = Finished(p, "ready")]
      BY <2>2 DEF Set
    <3>3. pool'.total - pool'.idle
            = pool.total - pool.idle + Held(Finished(p, "ready")) - Held(client[p])
      BY <1>1, <1>3, <2>1, <3>1
    <3> QED BY Zenon, <1>1, <1>2, <2>1, <3>1, <3>2, <3>3, StepCounts
  <2>3. CASE /\ pool.total < MaxConnections /\ pool' = [pool EXCEPT !.total = @ + 1]
             /\ Set(p, Finished(p, "connecting"))
    <3>1. /\ pool' \in [idle : Nat, total : Nat, waiting : SUBSET Clients]
          /\ pool'.idle = pool.idle /\ pool'.total = pool.total + 1 /\ pool'.waiting = pool.waiting
      BY <1>1, <2>3
    <3>2. client' = [client EXCEPT ![p] = Finished(p, "connecting")]
      BY <2>3 DEF Set
    <3>3. pool'.total - pool'.idle
            = pool.total - pool.idle + Held(Finished(p, "connecting")) - Held(client[p])
      BY <1>1, <1>3, <2>1, <3>1
    <3>4. pool'.total <= MaxConnections
      BY <1>1, <2>3, <3>1, BackendAssumption
    <3> QED BY Zenon, <1>1, <1>2, <2>1, <3>1, <3>2, <3>3, <3>4, StepCounts
  <2>4. CASE pool' = [pool EXCEPT !.waiting = @ \union {p}] /\ Set(p, Finished(p, "waiting"))
    <3>1. /\ pool' \in [idle : Nat, total : Nat, waiting : SUBSET Clients]
          /\ pool'.idle = pool.idle /\ pool'.total = pool.total
          /\ pool'.waiting = pool.waiting \cup {p}
      BY <1>1, <2>4
    <3>2. client' = [client EXCEPT ![p] = Finished(p, "waiting")]
      BY <2>4 DEF Set
    <3>3. pool'.total - pool'.idle
            = pool.total - pool.idle + Held(Finished(p, "waiting")) - Held(client[p])
      BY <1>1, <1>3, <2>1, <3>1
    <3> QED BY Zenon, <1>1, <1>2, <3>1, <3>2, <3>3, StepCounts
  <2> QED BY <1>4, <2>2, <2>3, <2>4, Zenon DEF PoolTake
<1>5. CASE PoolConnect(p)
  <2>1. client[p].pc = "connecting" /\ pool' = pool /\ Set(p, Finished(p, "ready"))
    BY <1>5 DEF PoolConnect
  <2>2. client' = [client EXCEPT ![p] = Finished(p, "ready")]
    BY <2>1 DEF Set
  <2>3. p \notin pool.waiting
    BY <1>1, <2>1
  <2>4. pool'.total - pool'.idle
          = pool.total - pool.idle + Held(Finished(p, "ready")) - Held(client[p])
    BY <1>1, <1>3, <2>1 DEF Held, Holding
  <2> QED BY Zenon, <1>1, <1>2, <2>1, <2>2, <2>3, <2>4, StepCounts
<1>6. CASE PoolTimeout(p)
  <2>1. /\ client[p].pc = "waiting" /\ Set(p, Retried(p))
        /\ pool' = [pool EXCEPT !.waiting = @ \ {p}]
    BY <1>6 DEF PoolTimeout
  <2>2. IsCall(Retried(p)) /\ Retried(p).pc \in {"start", "failed"}
    BY <1>1, CallRecords
  <2>3. /\ pool' \in [idle : Nat, total : Nat, waiting : SUBSET Clients]
        /\ pool'.idle = pool.idle /\ pool'.total = pool.total
        /\ pool'.waiting = pool.waiting \ {p}
    BY <1>1, <2>1
  <2>4. client' = [client EXCEPT ![p] = Retried(p)]
    BY <2>1 DEF Set
  <2>5. Held(client[p]) = 0 /\ Held(Retried(p)) = 0
    BY <2>1, <2>2 DEF Held, Holding
  <2>6. pool'.total - pool'.idle = pool.total - pool.idle + Held(Retried(p)) - Held(client[p])
    BY <1>1, <2>3, <2>5
  <2> QED BY Zenon, <1>1, <2>2, <2>3, <2>4, <2>6, StepCounts
<1> QED
  BY <1>4, <1>5, <1>6

\* The calls of a client that holds a connection.
LEMMA CallCounts ==
  ASSUME PoolInv, bscene.store = "sftp", NEW p \in Clients,
         \/ SftpOpen(p) \/ SftpWrite(p) \/ SftpClose(p) \/ SftpDelete(p) \/ SftpRead(p)
         \/ ListDir(p) \/ PoolRefused(p) \/ SftpLose(p)
  PROVE  PoolInv'
<1> USE DEF Sftp, Is
<1>1. /\ pool \in [idle : Nat, total : Nat, waiting : SUBSET Clients] /\ IsCall(client[p])
      /\ pool.total <= MaxConnections /\ \A q \in pool.waiting : client[q].pc = "waiting"
  BY DEF PoolInv
<1>2. \A how : IsCall(Finished(p, how)) /\ Finished(p, how).pc = how
  BY <1>1, CallRecords
<1>3. IsCall(Retried(p)) /\ Retried(p).pc \in {"start", "failed"}
  BY <1>1, CallRecords
\* A call that goes on keeps its connection.
<1>4. ASSUME NEW rec, IsCall(rec), client[p].pc \in Holding, rec.pc \in Holding,
             Set(p, rec), pool' = pool
      PROVE  PoolInv'
  <2>1. client' = [client EXCEPT ![p] = rec]
    BY <1>4 DEF Set
  <2>2. p \notin pool.waiting
    BY <1>1, <1>4 DEF Holding
  <2>3. pool'.total - pool'.idle = pool.total - pool.idle + Held(rec) - Held(client[p])
    BY <1>1, <1>4 DEF Held
  <2> QED BY Zenon, <1>1, <1>4, <2>1, <2>2, <2>3, StepCounts
<1>5. CASE SftpOpen(p)
  <2>1. client[p].pc = "ready" /\ Set(p, Finished(p, "opened")) /\ pool' = pool
    BY <1>5 DEF SftpOpen
  <2> QED BY <1>2, <1>4, <2>1 DEF Holding
<1>6. CASE SftpWrite(p)
  <2> DEFINE rec == [client[p] EXCEPT !.pos = client[p].pos + 1]
  <2>1. client[p].pc = "opened" /\ Set(p, rec) /\ pool' = pool
    BY <1>6, Zenon DEF SftpWrite
  <2>2. IsCall(rec) /\ rec.pc = client[p].pc
    BY <1>1, CallUpdates, Zenon
  <2> HIDE DEF rec
  <2> QED BY <1>4, <2>1, <2>2 DEF Holding
<1>7. CASE SftpClose(p)
  <2>1. client[p].pc = "opened" /\ GiveBack(p, Finished(p, "done"))
    BY <1>7, Zenon DEF SftpClose
  <2> QED BY <1>2, <2>1, ReleaseCounts DEF Holding
<1>8. CASE SftpDelete(p)
  <2>1. client[p].pc = "ready" /\ GiveBack(p, Finished(p, "done"))
    BY <1>8, Zenon DEF SftpDelete
  <2> QED BY <1>2, <2>1, ReleaseCounts DEF Holding
<1>9. CASE PoolRefused(p) \/ SftpLose(p)
  <2>1. client[p].pc \in Holding /\ Discard(p, Retried(p))
    BY <1>9 DEF PoolRefused, SftpLose, Holding
  <2> QED BY <1>3, <2>1, ReleaseCounts
<1>10. CASE SftpRead(p)
  <2>1. client[p].pc = "ready"
    BY <1>10, Zenon DEF SftpRead
  <2>2. CASE GiveBack(p, [Finished(p, "done") EXCEPT !.buf = NoBytes])
    <3> DEFINE rec == [Finished(p, "done") EXCEPT !.buf = NoBytes]
    <3>1. IsCall(rec) /\ rec.pc = "done"
      BY <1>2, CallUpdates, Zenon
    <3> HIDE DEF rec
    <3> QED BY Zenon, <2>1, <2>2, <3>1, ReleaseCounts DEF Holding, rec
  <2>3. ASSUME NEW x, Set(p, [client[p] EXCEPT !.buf = x]), pool' = pool PROVE PoolInv'
    <3> DEFINE rec == [client[p] EXCEPT !.buf = x]
    <3>1. IsCall(rec) /\ rec.pc = client[p].pc /\ Set(p, rec)
      BY <1>1, <2>3, CallUpdates, Zenon
    <3> HIDE DEF rec
    <3> QED BY <1>4, <2>1, <2>3, <3>1 DEF Holding
  <2>4. ASSUME NEW how \in {"failed", "done"}, GiveBack(p, Finished(p, how)) PROVE PoolInv'
    BY <1>2, <2>1, <2>4, ReleaseCounts DEF Holding
  <2> QED BY <1>10, <2>2, <2>3, <2>4, Zenon DEF SftpRead
<1>11. CASE ListDir(p)
  <2>1. client[p].pc = "ready"
    BY <1>11, Zenon DEF ListDir
  <2>2. ASSUME NEW j, NEW x, Set(p, [client[p] EXCEPT !.pos = j, !.buf = x]), pool' = pool
        PROVE  PoolInv'
    <3> DEFINE moved == [client[p] EXCEPT !.pos = j]
    <3>1. IsCall(moved) /\ moved.pc = client[p].pc
      BY <1>1, CallUpdates, Zenon
    <3>2. Set(p, [moved EXCEPT !.buf = x])
      BY <2>2, Zenon
    <3> HIDE DEF moved
    <3> DEFINE rec == [moved EXCEPT !.buf = x]
    <3>3. IsCall(rec) /\ rec.pc = moved.pc
      BY <3>1, CallUpdates, Zenon
    <3>4. rec.pc = client[p].pc /\ Set(p, rec)
      BY <3>1, <3>2, <3>3, Zenon
    <3> HIDE DEF rec
    <3> QED BY <1>4, <2>1, <2>2, <3>3, <3>4 DEF Holding
  <2>3. CASE GiveBack(p, Finished(p, "done"))
    BY <1>2, <2>1, <2>3, ReleaseCounts DEF Holding
  <2> QED BY <1>11, <2>2, <2>3, Zenon DEF ListDir
<1> QED
  BY <1>5, <1>6, <1>7, <1>8, <1>9, <1>10, <1>11

LEMMA PoolInitial == BackendInit => SftpInv
<1> SUFFICES ASSUME BackendInit, bscene.store = "sftp" PROVE PoolInv
  BY DEF SftpInv
<1>1. \A p \in Clients : client[p] = [pc |-> "start", attempt |-> 0, pos |-> 0, buf |-> <<>>]
  BY DEF BackendInit
<1>2. \A p \in Clients : IsCall(client[p]) /\ client[p].pc = "start"
  BY <1>1, CallRecord
<1>3. Holders = {}
  BY <1>2 DEF Holders, Holding
<1>4. Cardinality(Holders) = 0
  BY <1>3, FS_EmptySet
<1> QED
  BY <1>2, <1>4, BackendAssumption DEF BackendInit, PoolInv

LEMMA PoolPreserved == SftpInv /\ [BackendNext]_backendVars => SftpInv'
<1> SUFFICES ASSUME SftpInv, [BackendNext]_backendVars PROVE SftpInv'
  OBVIOUS
<1>1. CASE UNCHANGED backendVars
  BY <1>1 DEF SftpInv, PoolInv, Holders, backendVars
<1>2. ASSUME NEW p \in Clients,
             \/ LocalWrite(p) \/ LocalRename(p) \/ LocalSync(p) \/ LocalDelete(p) \/ LocalRead(p)
             \/ LocalFail(p) \/ HttpSend(p) \/ HttpHead(p) \/ HttpWrite(p) \/ HttpServe(p)
             \/ HttpReceive(p) \/ HttpLose(p) \/ ListPage(p)
      PROVE  bscene' = bscene /\ bscene.store # "sftp"
  BY <1>2, Zenon DEF LocalWrite, LocalRename, LocalSync, LocalDelete, LocalRead, LocalFail, HttpSend,
     HttpHead, HttpWrite, HttpServe, HttpReceive, HttpLose, ListPage, Is, Http
<1>3. ASSUME NEW p \in Clients, PoolTake(p) \/ PoolConnect(p) \/ PoolTimeout(p) PROVE SftpInv'
  <2>1. bscene' = bscene /\ bscene.store = "sftp"
    BY <1>3, Zenon DEF PoolTake, PoolConnect, PoolTimeout
  <2> QED BY <1>3, <2>1, AcquireCounts DEF SftpInv
<1>4. ASSUME NEW p \in Clients,
             \/ SftpOpen(p) \/ SftpWrite(p) \/ SftpClose(p) \/ SftpDelete(p) \/ SftpRead(p)
             \/ ListDir(p) \/ PoolRefused(p) \/ SftpLose(p)
      PROVE  SftpInv'
  <2>1. bscene' = bscene
    BY <1>4, Zenon DEF SftpOpen, SftpWrite, SftpClose, SftpDelete, SftpRead, ListDir, PoolRefused,
       SftpLose
  <2> QED BY <1>4, <2>1, CallCounts DEF SftpInv
<1> QED
  BY <1>1, <1>2, <1>3, <1>4 DEF BackendNext, BackendProgress, BackendFault, SftpInv

(* For any number of clients and any max_connections, whatever connection  *)
(* is refused, breaks or is waited for in vain: every slot of the pool is  *)
(* an idle connection or in the hands of one call (acquire_conn,           *)
(* release_conn, release_slot).                                            *)
THEOREM PoolLosesNothing == BackendSpec => []PoolConserved
<1>1. SftpInv => PoolConserved
  BY DEF SftpInv, PoolInv, PoolConserved, Holders, Holding
<1> QED
  BY <1>1, PoolInitial, PoolPreserved, PTL DEF BackendSpec
================================================================================
