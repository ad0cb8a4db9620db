---------------------------- MODULE MCApprovalQueue ----------------------------
\* Instances of ApprovalQueue for TLC: one approves, one rejects.
EXTENDS ApprovalQueueProperties, TLC

CONSTANTS c1, c2, w1, w2

Decisions == [c \in Calls |->
    IF c = c1 THEN "approvePending" ELSE "rejectPending"]
MixedCalls == [c \in Calls |-> IF c = c1 THEN "org" ELSE "global"]
GlobalCalls == [c \in Calls |-> "global"]
FirstIsLarge == {<<"org", 1>>}

\* The module gives no wallet a role of its own, so the first call's is the first
\* one; a wallet nobody signs with plays no part, nor does its grant.
LeanInit ==
    /\ Init
    /\ signer[c1] # w2
    /\ grants = {signer[c] : c \in Calls} \ {Relayer}

LeanSpec == LeanInit /\ [][Next]_vars /\ \A c \in Calls : WF_vars(CallStep(c))
=============================================================================
