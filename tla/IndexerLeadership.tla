-------------------------- MODULE IndexerLeadership --------------------------
(***************************************************************************)
(* The single-writer election of the indexers (indexer/leader.ts): every   *)
(* replica keeps trying to take one Postgres advisory lock on a connection *)
(* of its own; the one that gets it starts the watchers and, once they     *)
(* have caught up, the expiry sweeper.  Postgres frees the lock with the   *)
(* session that holds it, which says nothing to the watchers.              *)
(***************************************************************************)
EXTENDS Integers

CONSTANTS
    Replicas,
    NoReplica,
    MaxCrashes,         \* bound: processes that die
    MaxLockLosses       \* bound: lock connections that die under a live process

ASSUME LeadershipAssumption ==
    /\ NoReplica \notin Replicas
    /\ MaxCrashes \in Nat
    /\ MaxLockLosses \in Nat

VARIABLES
    holder,     \* the replica whose session holds the advisory lock
    phase,      \* where each replica is in runIndexerLeadership
    crashes, losses

lockVars == <<holder, phase, crashes, losses>>

\* "electing": in the loop, with or without watchers a failed start left
\* behind; "starting": awaiting onLeadershipAcquired; "sweeping": returned
\* from it, the expiry sweeper runs.
Phases == {"down", "electing", "starting", "sweeping"}

LockTypeOK ==
    /\ holder \in Replicas \union {NoReplica}
    /\ phase \in [Replicas -> Phases]
    /\ crashes \in 0..MaxCrashes
    /\ losses \in 0..MaxLockLosses

LockInit ==
    /\ holder = NoReplica
    /\ phase = [r \in Replicas |-> "electing"]
    /\ crashes = 0
    /\ losses = 0

\* Mutant of LockIsFree: the lock does not outlive the query that takes it.
LockIsFreeToAll == TRUE

LockIsFree == holder = NoReplica

\* Mutant of Acquire: nobody asks again once the lock has been refused.
AcquireAtBootOnly(r) ==
    /\ phase[r] = "electing"
    /\ LockIsFree
    /\ losses = 0
    /\ holder' = r
    /\ phase' = [phase EXCEPT ![r] = "starting"]
    /\ UNCHANGED <<crashes, losses>>

\* pg_try_advisory_lock answers true only when no session holds the lock, the
\* replica's own earlier session included: each try opens a new connection.
Acquire(r) ==
    /\ phase[r] = "electing"
    /\ LockIsFree
    /\ holder' = r
    /\ phase' = [phase EXCEPT ![r] = "starting"]
    /\ UNCHANGED <<crashes, losses>>

\* onLeadershipAcquired resolves: the sweeper starts and the loop returns.
LeadershipRuns(r) ==
    /\ phase[r] = "starting"
    /\ phase' = [phase EXCEPT ![r] = "sweeping"]
    /\ UNCHANGED <<holder, crashes, losses>>

\* onLeadershipAcquired throws: the catch goes back to the loop, and the lock
\* stays with the connection that took it.
LeadershipFails(r) ==
    /\ phase' = [phase EXCEPT ![r] = "electing"]
    /\ UNCHANGED <<holder, crashes, losses>>

\* The lock connection dies under a live process: logged, nothing stops.
LoseLock(r) ==
    /\ holder = r
    /\ phase[r] \in {"starting", "sweeping"}
    /\ losses < MaxLockLosses
    /\ losses' = losses + 1
    /\ holder' = NoReplica
    /\ UNCHANGED <<phase, crashes>>

\* The process ends, and its sessions with it.
Die(r) ==
    /\ phase[r] # "down"
    /\ crashes < MaxCrashes
    /\ crashes' = crashes + 1
    /\ phase' = [phase EXCEPT ![r] = "down"]
    /\ holder' = IF holder = r THEN NoReplica ELSE holder
    /\ UNCHANGED losses

Boot(r) ==
    /\ phase[r] = "down"
    /\ phase' = [phase EXCEPT ![r] = "electing"]
    /\ UNCHANGED <<holder, crashes, losses>>
=============================================================================
