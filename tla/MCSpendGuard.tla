---------------------------- MODULE MCSpendGuard ----------------------------
(***************************************************************************)
(* Small instances of SpendGuard for TLC.  The cap triples are the ones    *)
(* that make the interesting cases happen: a policy, a raise of it, a      *)
(* tightening, and a malformed triple setPolicy refuses.                   *)
(***************************************************************************)
EXTENDS SpendGuardProperties, TLC

Triple(daily, perTx, threshold) ==
    [dailyCap |-> daily, perTxCap |-> perTx, escalationThreshold |-> threshold]

\* Queue contention: one policy, so the state space goes to requests.
OnePolicy == {Triple(3, 2, 1)}

\* Cap changes: base, raise, tightening of every cap, of the per-transaction
\* cap only, malformed.
PolicyChanges == {Triple(2, 2, 1), Triple(3, 2, 0), Triple(1, 1, 0),
                  Triple(2, 1, 0), Triple(1, 2, 1)}

AgentSymmetry == Permutations(Agents)
=============================================================================
