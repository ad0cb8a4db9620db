------------------------ MODULE ApprovalQueueProperties ------------------------
(***************************************************************************)
(* What the decision routes promise.                                       *)
(***************************************************************************)
EXTENDS ApprovalQueue

\* A wallet has one execution under way: the next call of the same account
\* sends when the one before has its outcome (txQueue.ts:22-33), unless a wait
\* for Circle ran out or its answer was lost.
OneExecutionPerWallet ==
    \A c, d \in Calls :
        /\ c # d /\ UsesCircle(c) /\ LineOf(c) = LineOf(d)
        /\ tx[c] = "pending" /\ tx[d] = "pending"
        => {c, d} \intersect hit # {}

\* A transaction that decided a request is tied to a person: when its call is
\* over there is an operator's action for it, unless the process died, a wait
\* ran out or a statement was refused (approvals.ts:271, signing.ts:142).
EveryDecisionIsSigned ==
    \A c \in Calls :
        tx[c] = "mined" /\ pc[c] \in Over => c \in operatorActions \union hit

\* A refusal before the chain was asked spends no gas, a success names a
\* transaction that was sent, and with a Circle wallet one that took effect.
AnswersAreTrue ==
    \A c \in Calls :
        /\ answer[c] \in {"403", "404"} => tx[c] = "none"
        /\ c \in operatorActions =>
             tx[c] \in (IF UsesCircle(c) THEN {"mined"}
                        ELSE {"pending", "mined", "reverted"})

\* Two people are never both told that their decision of one request took
\* effect, however their checks and sends interleave (signing.ts:169-187,
\* circleExecution.ts:185-224).  The relayer's path records what it has sent,
\* so this is about Circle wallets; and a number the organisation's contract
\* has not issued yet, which only a row of the global deployment leads to, can
\* be rejected before and decided again after it is issued.
OneDecisionReported ==
    \A c, d \in Calls :
        /\ c # d /\ {c, d} \subseteq operatorActions
        /\ UsesCircle(c) /\ UsesCircle(d) /\ Where(c) = Where(d)
        => /\ AgentHome = "org" /\ target[c] = "org"
           /\ <<"global", id[c]>> \in rows

\* A decision on a request the caller's queue listed is sent where its row
\* leads (the organisation's contract for its own row, the one the agent has
\* now for a global row), and not at all when that is the contract that holds
\* the request and the amount is above the credential's ceiling
\* (approvals.ts:97-136, 49-58).
Destination(c) == IF HomeOf[c] = "org" THEN "org" ELSE AgentHome

ListedCallsArrive ==
    \A c \in shown :
        /\ target[c] \in {NoTarget, Destination(c)}
        /\ /\ c \in Capped /\ <<HomeOf[c], id[c]>> \in Large
           /\ Destination(c) = HomeOf[c]
           => tx[c] = "none"

\* approvals.ts:231-232, "the deployment the request actually lives on": a
\* decision on a listed request is sent to the contract that holds it.
LandsWhereShown ==
    \A c \in shown : target[c] \in {NoTarget, HomeOf[c]}

\* Every call is answered unless the process dies: a failed transaction does
\* not stall its account's queue (txQueue.ts:14).
EveryCallIsAnswered ==
    \A c \in Calls : pc[c] = "orgRow" ~> pc[c] \in Over
==============================================================================
