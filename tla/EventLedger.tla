----------------------------- MODULE EventLedger -----------------------------
(***************************************************************************)
(* What the event indexer promises about the effects of one on-chain       *)
(* event: whatever runs twice, overlaps or dies, one worker takes the      *)
(* event and books it at most once, the audit row before the spend; it may *)
(* hand back only what it has not begun, and the only other way not to     *)
(* finish is to be abandoned by a process that died.                       *)
(***************************************************************************)
EXTENDS Integers

CONSTANT Events

VARIABLES fate, rows, charged

ledgerVars == <<fate, rows, charged>>

Fates == {"untaken", "working", "applied", "abandoned"}

\* Some events may have been booked in an earlier life of the server.
LedgerInit ==
    /\ fate \in [Events -> {"untaken", "applied"}]
    /\ rows = [e \in Events |-> IF fate[e] = "applied" THEN 1 ELSE 0]
    /\ charged = rows

Take(e) ==
    /\ fate[e] = "untaken"
    /\ fate' = [fate EXCEPT ![e] = "working"]
    /\ UNCHANGED <<rows, charged>>

Enter(e) ==
    /\ fate[e] = "working"
    /\ rows[e] = 0
    /\ rows' = [rows EXCEPT ![e] = 1]
    /\ UNCHANGED <<fate, charged>>

Charge(e) ==
    /\ fate[e] = "working"
    /\ rows[e] = 1
    /\ charged[e] = 0
    /\ charged' = [charged EXCEPT ![e] = 1]
    /\ UNCHANGED <<fate, rows>>

Finish(e) ==
    /\ fate[e] = "working"
    /\ rows[e] = 1
    /\ charged[e] = 1
    /\ fate' = [fate EXCEPT ![e] = "applied"]
    /\ UNCHANGED <<rows, charged>>

\* An event whose handler could not begin is handed back untouched.
PutBack(e) ==
    /\ fate[e] = "working"
    /\ rows[e] = 0
    /\ fate' = [fate EXCEPT ![e] = "untaken"]
    /\ UNCHANGED <<rows, charged>>

Abandon(lost) ==
    /\ \A e \in lost : fate[e] = "working"
    /\ fate' = [e \in Events |-> IF e \in lost THEN "abandoned" ELSE fate[e]]
    /\ UNCHANGED <<rows, charged>>

LedgerNext ==
    \/ \E e \in Events :
          Take(e) \/ Enter(e) \/ Charge(e) \/ Finish(e) \/ PutBack(e)
    \/ \E lost \in SUBSET Events : Abandon(lost)

LedgerSpec == LedgerInit /\ [][LedgerNext]_ledgerVars
=============================================================================
