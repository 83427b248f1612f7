----------------------------- MODULE ObjectStore -----------------------------
(***************************************************************************)
(* What the StorageBackend trait promises its callers: an object is        *)
(* replaced or removed as a whole.  A call that is retried may write its   *)
(* value more than once while it lasts; one that succeeded has written it  *)
(* at least once; one that failed may have written it.  A read returns the *)
(* value the object had at one moment of the call.                         *)
(***************************************************************************)
CONSTANTS Clients, Absent

VARIABLES
  todo,     \* the call of each client: [kind, key, value]
  store,    \* the value of each key, Absent if there is none
  applied,  \* clients whose write has taken place
  seen,     \* what the read of a client has met
  status    \* "pending", "done" or "failed"

storeVars == <<todo, store, applied, seen, status>>

Writes(p) == todo[p].kind \in {"put", "delete"}
Reads(p) == todo[p].kind \in {"get", "range"}

StoreInit ==
  /\ applied = {}
  /\ seen = [p \in Clients |-> Absent]
  /\ status \in [Clients -> {"pending", "done"}]

Written(p) == [store EXCEPT ![todo[p].key] =
                 IF todo[p].kind = "put" THEN todo[p].value ELSE Absent]

\* A write replaces the object, at any time during the call.
Apply(p) ==
  /\ Writes(p) /\ status[p] = "pending"
  /\ store' = Written(p)
  /\ applied' = applied \union {p}
  /\ UNCHANGED <<todo, seen, status>>

\* A read meets the value of this moment, or gives up what it had.
Look(p) ==
  /\ Reads(p) /\ status[p] = "pending"
  /\ seen' = [seen EXCEPT ![p] = store[todo[p].key]]
  /\ UNCHANGED <<todo, store, applied, status>>

Forget(p) ==
  /\ Reads(p) /\ status[p] = "pending"
  /\ seen' = [seen EXCEPT ![p] = Absent]
  /\ UNCHANGED <<todo, store, applied, status>>

Return(p) ==
  /\ status[p] = "pending"
  /\ \/ /\ Writes(p) => p \in applied
        /\ status' = [status EXCEPT ![p] = "done"]
     \/ status' = [status EXCEPT ![p] = "failed"]
  /\ UNCHANGED <<todo, store, applied, seen>>

\* A call on the local disk does what it has to do and returns in one step.
AtOnce(p) ==
  /\ status[p] = "pending"
  /\ status' = [status EXCEPT ![p] = "done"]
  /\ \/ /\ Writes(p)
        /\ store' = Written(p)
        /\ applied' = applied \union {p}
        /\ UNCHANGED <<todo, seen>>
     \/ /\ Reads(p)
        /\ seen' = [seen EXCEPT ![p] = store[todo[p].key]]
        /\ UNCHANGED <<todo, store, applied>>

StoreNext ==
  \E p \in Clients : Apply(p) \/ Look(p) \/ Forget(p) \/ Return(p) \/ AtOnce(p)
==============================================================================
