----------------------- MODULE PaymentRouteProperties -----------------------
(***************************************************************************)
(* What POST /payments promises its clients and the queue.                 *)
(***************************************************************************)
EXTENDS PaymentRoute

\* A payment reported as approved was paid, and one reported as escalated has
\* its own request, under the id it was told, unless the policy changed between
\* the check and the transaction (payments.ts:62-131).
AnswersTellTheOutcome ==
    \A c \in Calls :
        /\ answer[c] = "approved" =>
             outcome[c] = "paid" \/ minedAt[c] # checkedAt[c]
        /\ answer[c] = "escalated" =>
             \/ outcome[c] = "escalated" /\ named[c] = request[c]
             \/ outcome[c] = "paid" /\ minedAt[c] # checkedAt[c]

\* The queue holds requests the guard has issued, and one entry that is none,
\* left by a payment that was to be approved and settled at once
\* (payments.ts:92-121).
RowsNameRequests ==
    \A id \in rows :
        \/ id \in 1..issued
        \/ /\ id = NoRequest
           /\ \E c \in Calls : checked[c] = "escalated" /\ outcome[c] = "paid"

\* A payment answered with an error or as blocked has moved nothing and raised
\* no request, unless a fault hit its call: the others of the same wallet, a
\* grant withdrawn and the policy's changes do not make it so
\* (signing.ts:209-235).
ErrorsMovedNothing ==
    \A c \in Calls \ hit :
        answer[c] \in {"blocked", "404", "500", "503"} =>
            outcome[c] \notin {"paid", "escalated"} /\ tx[c] # "pending"

\* circleExecution.ts:187 says: "a timeout does NOT mean the tx died — the
\* idempotency key makes a later retry safe to re-issue".
PaidOncePerIntent ==
    \A c, d \in Calls :
        c # d /\ IntentOf[c] = IntentOf[d] =>
            ~(outcome[c] = "paid" /\ outcome[d] = "paid")
=============================================================================
