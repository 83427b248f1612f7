---------------------------- MODULE SharedExclusive ----------------------------
(***************************************************************************)
(* What the two-tier locking of vykar promises, without saying how: any    *)
(* number of sessions (backups uploading, readers) may be in the           *)
(* repository together, and any maintenance command (delete, prune,        *)
(* compact, check --repair) is in it only while no session is.  RepoLock   *)
(* is shown to implement this specification.                               *)
(***************************************************************************)
CONSTANTS Sessions,     \* the processes that register a session marker
          Maints        \* the processes that take the maintenance lock

VARIABLES sharers,      \* the sessions that are in the repository
          owners        \* the maintenance commands that may modify it

vars == <<sharers, owners>>

Init == sharers = {} /\ owners = {}

Enter(s) ==
    /\ owners = {}
    /\ sharers' = sharers \cup {s}
    /\ UNCHANGED owners

Own(m) ==
    /\ sharers = {}
    /\ owners' = owners \cup {m}
    /\ UNCHANGED sharers

\* Sessions leave by finishing, by crashing, or by being reaped as stale.
Leave(S) ==
    /\ sharers' = sharers \ S
    /\ UNCHANGED owners

\* Maintenance ends by releasing its lock, by crashing, or by losing the lock.
Disown(M) ==
    /\ owners' = owners \ M
    /\ UNCHANGED sharers

Next ==
    \/ \E s \in Sessions : Enter(s)
    \/ \E m \in Maints : Own(m)
    \/ \E S \in SUBSET Sessions : Leave(S)
    \/ \E M \in SUBSET Maints : Disown(M)

Spec == Init /\ [][Next]_vars
================================================================================
