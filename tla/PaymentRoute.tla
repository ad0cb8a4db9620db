---------------------------- MODULE PaymentRoute ----------------------------
(***************************************************************************)
(* POST /payments (routes/payments.ts): an agent's payment is looked up,   *)
(* checked against the policy, sent from the agent's own Circle wallet     *)
(* (submitAsAgent in chain/signing.ts, executeContractAndWait) and, when   *)
(* it is to be approved, entered in the queue from its receipt.  Between   *)
(* the check and the transaction the policy may change, and a client whose *)
(* payment ended in an error may send it again.  One agent; every await is *)
(* a step.                                                                 *)
(***************************************************************************)
EXTENDS Integers, Sequences

CONSTANTS
    Calls,              \* HTTP requests, each posted at most once
    IntentOf,           \* the payment a request is meant to make
    MaxMoves,           \* bound: changes of the policy's verdict
    MaxFaults           \* bound: reads, statements, answers lost, restarts

ASSUME PaymentAssumption == {MaxMoves, MaxFaults} \subseteq Nat

Verdicts == {"no policy", "blocked", "escalated", "paid"}
Outcomes == {"none", "blocked", "escalated", "paid"}

VARIABLES
    verdict, moves,     \* what the registry says of the payment, and changes
    frozen, granted,    \* paused or without funds; SpendGuard.approvers
    issued,             \* nextRequestId
    tx, nonce, sent,    \* the wallet's transactions, in the order sent
    outcome, request,   \* what a mined one came to, and its request id
    events, rows,       \* events of blocked payments, pending_requests ids
    walleted,           \* whether agents.circleWalletId is set
    checksummed,        \* calls that spell the address with its checksum
    pc, checked, named, answer, line,   \* the calls and their promise chain
    checkedAt, minedAt, hit, faults     \* observation

registryVars == <<verdict, moves, frozen, granted, issued>>
poolVars == <<tx, nonce, sent, outcome, request, minedAt>>
dbVars == <<events, rows>>
fixedVars == <<walleted, checksummed>>
bodyVars == <<checked, named, checkedAt>>
vars == <<registryVars, poolVars, dbVars, fixedVars, bodyVars, pc, answer, line,
          hit, faults>>

Steps == {"idle", "policy", "check", "event", "wallet", "grant", "send", "poll",
          "receipt", "row", "answered", "dead"}
Answered == {"approved", "escalated", "blocked", "404", "500", "503"}

\* The id of a row made from a payment that raised no request.
NoRequest == 0

\* A topic that is an address does not fit the column.
TooLarge == -1

TypeOK ==
    /\ verdict \in Verdicts /\ moves \in 0..MaxMoves
    /\ {frozen, granted, walleted} \subseteq BOOLEAN
    /\ issued \in Nat /\ sent \in Nat
    /\ tx \in [Calls -> {"none", "pending", "mined", "failed"}]
    /\ nonce \in [Calls -> Nat]
    /\ outcome \in [Calls -> Outcomes]
    /\ request \in [Calls -> Nat]
    /\ events \subseteq Calls /\ checksummed \subseteq Calls
    /\ rows \subseteq Nat
    /\ pc \in [Calls -> Steps]
    /\ checked \in [Calls -> Verdicts]
    /\ named \in [Calls -> Nat \union {TooLarge}]
    /\ answer \in [Calls -> Answered \union {"none"}]
    /\ line \in Seq(Calls)
    /\ hit \subseteq Calls /\ faults \in 0..MaxFaults

Init ==
    /\ verdict \in Verdicts
    /\ moves = 0
    /\ frozen = FALSE
    /\ granted \in BOOLEAN
    /\ issued = 0
    /\ sent = 0
    /\ tx = [c \in Calls |-> "none"]
    /\ nonce = [c \in Calls |-> 0]
    /\ outcome = [c \in Calls |-> "none"]
    /\ request = [c \in Calls |-> NoRequest]
    /\ events = {}
    /\ rows = {}
    /\ walleted \in BOOLEAN
    /\ checksummed \in SUBSET Calls
    /\ pc = [c \in Calls |-> "idle"]
    /\ checked = [c \in Calls |-> "no policy"]
    /\ named = [c \in Calls |-> NoRequest]
    /\ answer = [c \in Calls |-> "none"]
    /\ line = <<>>
    /\ checkedAt = [c \in Calls |-> 0]
    /\ minedAt = [c \in Calls |-> 0]
    /\ hit = {}
    /\ faults = 0

-----------------------------------------------------------------------------
(* The chain *)

callVars == <<dbVars, fixedVars, bodyVars, pc, answer, line, hit, faults>>

\* Caps change, other payments use the headroom up, midnight gives it back.
PolicyMoves ==
    /\ moves < MaxMoves /\ moves' = moves + 1
    /\ verdict' \in Verdicts \ {verdict}
    /\ verdict = "no policy" \/ verdict' # "no policy"
    /\ UNCHANGED <<frozen, granted, issued, poolVars, callVars>>

\* The guard is paused, the allowance or the balance is gone; an administrator
\* grants or revokes the agent's wallet.
Freeze == ~frozen /\ frozen' = TRUE /\ UNCHANGED granted
Regrant == granted' = ~granted /\ UNCHANGED frozen
Administration ==
    /\ moves < MaxMoves /\ moves' = moves + 1
    /\ Freeze \/ Regrant
    /\ UNCHANGED <<verdict, issued, poolVars, callVars>>

IsNext(c) ==
    /\ tx[c] = "pending"
    /\ \A d \in Calls : tx[d] = "pending" => nonce[c] <= nonce[d]

\* requestPayment: an address without a policy is blocked, too.
Came(v) == IF v = "no policy" THEN "blocked" ELSE v

Mine(c) ==
    /\ IsNext(c)
    /\ \/ /\ frozen
          /\ tx' = [tx EXCEPT ![c] = "failed"]
          /\ UNCHANGED <<outcome, request, issued>>
       \/ /\ ~frozen
          /\ tx' = [tx EXCEPT ![c] = "mined"]
          /\ outcome' = [outcome EXCEPT ![c] = Came(verdict)]
          /\ IF verdict = "escalated"
             THEN /\ issued' = issued + 1
                  /\ request' = [request EXCEPT ![c] = issued + 1]
             ELSE UNCHANGED <<issued, request>>
    /\ minedAt' = [minedAt EXCEPT ![c] = moves]
    /\ UNCHANGED <<verdict, moves, frozen, granted, nonce, sent, callVars>>

\* Circle denies or cancels an execution it has not sent.
Cancelled(c) ==
    /\ tx[c] = "pending"
    /\ tx' = [tx EXCEPT ![c] = "failed"]
    /\ UNCHANGED <<registryVars, nonce, sent, outcome, request, minedAt, callVars>>

\* PaymentEscalated's watcher makes the row of a request it finds.
IndexRequest(id) ==
    /\ rows' = rows \union {id}
    /\ UNCHANGED <<registryVars, poolVars, events, fixedVars, bodyVars, pc,
                   answer, line, hit, faults>>

-----------------------------------------------------------------------------
(* The calls *)

Goes(c, to) == pc' = [pc EXCEPT ![c] = to]
Answers(c, how) ==
    /\ Goes(c, "answered")
    /\ answer' = [answer EXCEPT ![c] = how]
Fault(c) == faults < MaxFaults /\ faults' = faults + 1 /\ hit' = hit \union {c}
NoFault == UNCHANGED <<hit, faults>>

callFrame == <<registryVars, fixedVars>>

\* A client repeats a payment whose request ended in an error.
MayPost(c) ==
    \A d \in Calls \ {c} : IntentOf[d] = IntentOf[c] =>
        \/ pc[d] \in {"idle", "dead"}
        \/ answer[d] \in {"500", "503"}

Post(c) ==
    /\ pc[c] = "idle"
    /\ MayPost(c)
    /\ Goes(c, "policy")
    /\ NoFault
    /\ UNCHANGED <<callFrame, poolVars, dbVars, bodyVars, answer, line>>

\* readAgentPolicy fails closed with a 503, an unknown agent is a 404.
ReadPolicy(c) ==
    /\ pc[c] = "policy"
    /\ \/ verdict = "no policy" /\ Answers(c, "404") /\ NoFault
       \/ verdict # "no policy" /\ Goes(c, "check") /\ UNCHANGED answer /\ NoFault
       \/ Fault(c) /\ Answers(c, "503")
    /\ UNCHANGED <<callFrame, poolVars, dbVars, bodyVars, line>>

\* checkPolicy, at the latest block: what it says now decides the rest.
Check(c) ==
    /\ pc[c] = "check"
    /\ \/ /\ checked' = [checked EXCEPT ![c] = Came(verdict)]
          /\ checkedAt' = [checkedAt EXCEPT ![c] = moves]
          /\ Goes(c, IF Came(verdict) = "blocked" THEN "event" ELSE "wallet")
          /\ NoFault /\ UNCHANGED answer
       \/ /\ Fault(c)
          /\ Answers(c, "500")
          /\ UNCHANGED <<checked, checkedAt>>
    /\ UNCHANGED <<callFrame, poolVars, dbVars, named, line>>

\* The agent is written as it was spelled, and agents has it in lower case: the
\* foreign key refuses a checksummed address.
WriteBlocked(c) ==
    /\ pc[c] = "event"
    /\ \/ /\ c \notin checksummed
          /\ events' = events \union {c}
          /\ Answers(c, "blocked")
          /\ NoFault
       \/ /\ (c \in checksummed /\ NoFault) \/ Fault(c)
          /\ Answers(c, "500")
          /\ UNCHANGED events
    /\ UNCHANGED <<callFrame, poolVars, rows, bodyVars, line>>

\* submitAsAgent: without a wallet the relayer's transaction is refused by
\* its estimate, for the caller is not the agent.
JoinQueue(c) ==
    /\ pc[c] = "wallet"
    /\ \/ /\ walleted
          /\ line' = Append(line, c)
          /\ Goes(c, "grant")
          /\ NoFault /\ UNCHANGED answer
       \/ ~walleted /\ Answers(c, "503") /\ NoFault /\ UNCHANGED line
       \/ Fault(c) /\ Answers(c, "500") /\ UNCHANGED line
    /\ UNCHANGED <<callFrame, poolVars, dbVars, bodyVars>>

HasTurn(c) == line # <<>> /\ Head(line) = c

\* The run settles, resolved or rejected, and the next begins.
Leaves(c) == line' = Tail(line)
LeavesWith(c, how) == Leaves(c) /\ Answers(c, how)

ReadGrant(c) ==
    /\ pc[c] = "grant" /\ HasTurn(c)
    /\ \/ granted /\ Goes(c, "send") /\ NoFault /\ UNCHANGED <<line, answer>>
       \/ ~granted /\ LeavesWith(c, "500") /\ NoFault
       \/ Fault(c) /\ LeavesWith(c, "503")
    /\ UNCHANGED <<callFrame, poolVars, dbVars, bodyVars>>

Submits(c) ==
    /\ tx' = [tx EXCEPT ![c] = "pending"]
    /\ nonce' = [nonce EXCEPT ![c] = sent]
    /\ sent' = sent + 1
    /\ UNCHANGED <<outcome, request, minedAt>>

\* Each attempt has an idempotency key of its own.
Send(c) ==
    /\ pc[c] = "send" /\ HasTurn(c)
    /\ \/ Submits(c) /\ Goes(c, "poll") /\ NoFault /\ UNCHANGED <<line, answer>>
       \/ /\ Fault(c)
          /\ Submits(c) \/ UNCHANGED poolVars
          /\ LeavesWith(c, "503")
    /\ UNCHANGED <<callFrame, dbVars, bodyVars>>

\* Mutant of HasFailed: what is not complete yet is taken for failed.
HasFailedOrWaits(c) == tx[c] # "mined"

HasFailed(c) == tx[c] = "failed"

\* Mutant of AfterSuccess: every payment is reported as made.
AfterSuccessOf(v) == IF v = "blocked" THEN "receipt" ELSE "approved"

\* The answer to a payment not to be approved is decided before it is sent.
AfterSuccess(v) == IF v = "escalated" THEN "receipt" ELSE "approved"

Poll(c) ==
    /\ pc[c] = "poll" /\ HasTurn(c)
    /\ \/ /\ tx[c] = "mined"
          /\ Leaves(c)
          /\ IF AfterSuccess(checked[c]) = "receipt"
             THEN Goes(c, "receipt") /\ UNCHANGED answer
             ELSE Answers(c, "approved")
          /\ NoFault
       \/ HasFailed(c) /\ LeavesWith(c, "503") /\ NoFault
       \/ Fault(c) /\ LeavesWith(c, "503")
    /\ UNCHANGED <<callFrame, poolVars, dbVars, bodyVars>>

\* Mutant of RequestIdIn: a topic that is no request's id is taken for zero.
RequestIdOrZero(c) == request[c]

\* The first log of the guard with a topic above zero: PaymentEscalated has the
\* request there, PaymentApproved a zero, and PaymentBlocked the agent.
RequestIdIn(c) == IF outcome[c] = "blocked" THEN TooLarge ELSE request[c]

ReadReceipt(c) ==
    /\ pc[c] = "receipt"
    /\ \/ /\ named' = [named EXCEPT ![c] = RequestIdIn(c)]
          /\ Goes(c, "row")
          /\ NoFault /\ UNCHANGED answer
       \/ Fault(c) /\ Answers(c, "500") /\ UNCHANGED named
    /\ UNCHANGED <<callFrame, poolVars, dbVars, checked, checkedAt, line>>

FitsColumn(id) == id # TooLarge

UpsertRequest(c) ==
    /\ pc[c] = "row"
    /\ \/ /\ FitsColumn(named[c])
          /\ rows' = rows \union {named[c]}
          /\ Answers(c, "escalated")
          /\ NoFault
       \/ /\ (~FitsColumn(named[c]) /\ NoFault) \/ Fault(c)
          /\ Answers(c, "500")
          /\ UNCHANGED rows
    /\ UNCHANGED <<callFrame, poolVars, events, bodyVars, line>>

InFlight == {c \in Calls : pc[c] \notin {"idle", "answered", "dead"}}

Restart ==
    /\ InFlight # {}
    /\ faults < MaxFaults /\ faults' = faults + 1
    /\ pc' = [c \in Calls |-> IF c \in InFlight THEN "dead" ELSE pc[c]]
    /\ hit' = hit \union InFlight
    /\ line' = <<>>
    /\ UNCHANGED <<callFrame, poolVars, dbVars, bodyVars, answer>>

CallStep(c) ==
    \/ Post(c) \/ ReadPolicy(c) \/ Check(c) \/ WriteBlocked(c) \/ JoinQueue(c)
    \/ ReadGrant(c) \/ Send(c) \/ Poll(c) \/ ReadReceipt(c) \/ UpsertRequest(c)

Next ==
    \/ PolicyMoves \/ Administration
    \/ \E c \in Calls : CallStep(c) \/ Mine(c) \/ Cancelled(c)
    \/ \E id \in 1..issued : IndexRequest(id)
    \/ Restart

Spec == Init /\ [][Next]_vars
=============================================================================
