--------------------------- MODULE ApprovalQueue ---------------------------
(***************************************************************************)
(* How a person's decision on an escalated payment reaches the chain: the  *)
(* routes POST /approvals/:id/approve and /reject (routes/approvals.ts),   *)
(* the choice of signer and the check before the send (chain/signing.ts),  *)
(* the per-signer transaction queues (chain/txQueue.ts), Circle's          *)
(* executions (chain/circleExecution.ts) and the mempool.   One server     *)
(* process serves two deployments; each call is a process that gives way   *)
(* at every await.                                                         *)
(***************************************************************************)
EXTENDS Integers, Sequences

CONSTANTS
    Calls,              \* HTTP requests, each posted at most once
    Relayer,            \* the signer of callers without a Circle wallet
    Wallets,            \* the Circle wallets of the others
    DecisionOf,         \* approvePending or rejectPending, by the call's route
    HomeOf,             \* the deployment of the caller's organisation
    Capped,             \* calls whose credential has a maxApproval ceiling
    Large,              \* requests whose amount is above that ceiling
    AgentHome,          \* deployment of the agents that have global requests
    MaxRequests         \* bound: escalations per deployment

Signers == Wallets \union {Relayer}
Deployments == {"global", "org"}
Ids == 1..MaxRequests
Requests == Deployments \X Ids
Lines == Signers \X Deployments

ASSUME QueueAssumption ==
    /\ Relayer \notin Wallets
    /\ DecisionOf \in [Calls -> {"approvePending", "rejectPending"}]
    /\ HomeOf \in [Calls -> Deployments]
    /\ Capped \subseteq Calls
    /\ Large \subseteq Requests
    /\ AgentHome \in Deployments
    /\ MaxRequests \in Nat

VARIABLES
    status,             \* the chain: each deployment's requests by id,
    issued,             \* nextRequestId,
    frozen,             \* whether payments stopped fitting a cap, or paused,
    grants,             \* and SpendGuard.approvers
    sent,               \* the transactions each account has sent,
    nonce,              \* the place of a call's transaction among them,
    tx,                 \* and what became of it
    rows,               \* the database: indexed pending_requests
    operatorActions,    \* and operator_actions
    signer, id, pc, target,     \* the calls: the account, the id in the URL
    line,               \* the process: the promise chain of each account
    answer,
    alarms,             \* calls counted by recordTxFailure
    shown, hit          \* observation: calls whose request the caller's queue
                        \* listed, and calls a fault has hit

chainVars == <<status, issued, frozen, grants>>
poolVars == <<sent, nonce, tx>>
dbVars == <<rows, operatorActions>>
bodyVars == <<signer, id>>
vars == <<chainVars, poolVars, dbVars, pc, bodyVars, target, line, answer,
          alarms, shown, hit>>

\* Where a call is: before it is sent, after, over.
Locating == {"orgRow", "globalRow", "ownProbe", "globalProbe"}
Unsent == Locating \union {"idle", "scope", "join", "grant", "check", "send"}
Rereading == {"reread 503", "reread 500"}
Over == {"answered", "dead"}
Steps == Unsent \union Rereading \union Over \union {"poll", "record"}

NoTarget == "none"
Where(c) == <<target[c], id[c]>>
LineOf(c) == <<signer[c], target[c]>>

TypeOK ==
    /\ status \in [Requests -> {"none", "open", "approved", "rejected"}]
    /\ issued \in [Deployments -> 0..MaxRequests]
    /\ frozen \in BOOLEAN
    /\ grants \subseteq Wallets
    /\ sent \in [Lines -> Nat]
    /\ nonce \in [Calls -> Nat]
    /\ tx \in [Calls -> {"none", "pending", "mined", "reverted"}]
    /\ rows \subseteq Requests
    /\ operatorActions \subseteq Calls
    /\ pc \in [Calls -> Steps]
    /\ signer \in [Calls -> Signers]
    /\ id \in [Calls -> Ids]
    /\ target \in [Calls -> Deployments \union {NoTarget}]
    /\ line \in [Lines -> Seq(Calls)]
    /\ answer \in [Calls -> {"none", "200", "403", "404", "409", "500", "503"}]
    /\ alarms \subseteq Calls
    /\ shown \subseteq Calls
    /\ hit \subseteq Calls

Init ==
    /\ status = [r \in Requests |-> "none"]
    /\ issued = [d \in Deployments |-> 0]
    /\ frozen = FALSE
    /\ grants \in SUBSET Wallets
    /\ sent = [l \in Lines |-> 0]
    /\ nonce = [c \in Calls |-> 0]
    /\ tx = [c \in Calls |-> "none"]
    /\ rows = {}
    /\ operatorActions = {}
    /\ pc = [c \in Calls |-> "idle"]
    /\ signer \in [Calls -> Signers]
    /\ id \in [Calls -> Ids]
    /\ target = [c \in Calls |-> NoTarget]
    /\ line = [l \in Lines |-> <<>>]
    /\ answer = [c \in Calls |-> "none"]
    /\ alarms = {}
    /\ shown = {}
    /\ hit = {}

-----------------------------------------------------------------------------
(* The chain and the watchers *)

Resolved(r) == status[r] \in {"approved", "rejected"}

\* The outcome of a call's transaction on the present state: onlyApprover,
\* require(!r.resolved), then what recordSpend and _settle require.
Barred(c) ==
    \/ signer[c] \in Wallets \ grants
    \/ DecisionOf[c] = "approvePending"
       /\ (frozen \/ status[Where(c)] = "none")

Reverts(c) == Resolved(Where(c)) \/ Barred(c)

Escalate(d) ==
    /\ issued[d] < MaxRequests
    /\ issued' = [issued EXCEPT ![d] = @ + 1]
    /\ status' = [status EXCEPT ![<<d, issued[d] + 1>>] = "open"]
    /\ UNCHANGED <<frozen, grants, poolVars, dbVars, pc, bodyVars, target,
                   line, answer, alarms, shown, hit>>

\* A cap was lowered, the guard was paused, or the agent's funds are gone.
Freeze ==
    /\ ~frozen
    /\ frozen' = TRUE
    /\ UNCHANGED <<status, issued, grants, poolVars, dbVars, pc, bodyVars,
                   target, line, answer, alarms, shown, hit>>

\* An administrator revokes an approver.
Revoke(w) ==
    /\ grants' = grants \ {w}
    /\ UNCHANGED <<status, issued, frozen, poolVars, dbVars, pc, bodyVars,
                   target, line, answer, alarms, shown, hit>>

\* PaymentEscalated's watcher, or the payment route, writes the row.
IndexRequest(r) ==
    /\ status[r] # "none" /\ r[2] <= issued[r[1]]
    /\ rows' = rows \union {r}
    /\ UNCHANGED <<chainVars, poolVars, operatorActions, pc, bodyVars, target,
                   line, answer, alarms, shown, hit>>

\* An account's transactions are mined in the order of their nonces.
IsNext(c) ==
    /\ tx[c] = "pending"
    /\ \A d \in Calls : tx[d] = "pending" /\ LineOf(d) = LineOf(c)
                        => nonce[c] <= nonce[d]

Verdict(c) ==
    IF DecisionOf[c] = "approvePending" THEN "approved" ELSE "rejected"

Mine(c) ==
    /\ IsNext(c)
    /\ \/ /\ Reverts(c)
          /\ tx' = [tx EXCEPT ![c] = "reverted"]
          /\ UNCHANGED status
       \/ /\ ~Reverts(c)
          /\ tx' = [tx EXCEPT ![c] = "mined"]
          /\ status' = [status EXCEPT ![Where(c)] = Verdict(c)]
    /\ UNCHANGED <<issued, frozen, grants, sent, nonce, dbVars, pc, bodyVars,
                   target, line, answer, alarms, shown, hit>>

-----------------------------------------------------------------------------
(* The calls *)

Goes(c, to) == pc' = [pc EXCEPT ![c] = to]

Answers(c, code) ==
    /\ Goes(c, "answered")
    /\ answer' = [answer EXCEPT ![c] = code]

\* A statement that fails, a read that gets no answer, a wait that runs out.
Fault(c) == hit' = hit \union {c}

UsesCircle(c) == signer[c] \in Wallets

\* serializeTx: the promise chain runs a call when the one before is settled,
\* resolved or rejected.
Joins(c) == line' = [line EXCEPT ![LineOf(c)] = Append(@, c)]

\* Mutant of HasTurn: a call runs while others are ahead of it.
HasTurnAnyway(c) == line[LineOf(c)] # <<>>

HasTurn(c) == line[LineOf(c)] # <<>> /\ Head(line[LineOf(c)]) = c
Leaves(c) == line' = [line EXCEPT ![LineOf(c)] = Tail(@)]

\* Mutant of FailsAlarmed: a failed transaction stalls the queue.
FailsAndStalls(c, then) ==
    /\ alarms' = alarms \union {c}
    /\ Goes(c, then)
    /\ UNCHANGED <<line, answer>>

\* submitAsApprover throws after recordTxFailure.
FailsAlarmed(c, then) ==
    /\ Leaves(c)
    /\ alarms' = alarms \union {c}
    /\ Goes(c, then)
    /\ UNCHANGED answer

callFrame == <<chainVars, rows, bodyVars>>

Post(c) ==
    /\ pc[c] = "idle"
    /\ Goes(c, "orgRow")
    /\ shown' = shown \union {x \in {c} : <<HomeOf[c], id[c]>> \in rows}
    /\ UNCHANGED <<callFrame, poolVars, operatorActions, target, line, answer,
                   alarms, hit>>

Found(c, d) ==
    /\ target' = [target EXCEPT ![c] = d]
    /\ Goes(c, "scope")
    /\ UNCHANGED answer

NotFound(c, next) ==
    /\ IF next = "404" THEN Answers(c, next)
       ELSE Goes(c, next) /\ UNCHANGED answer
    /\ UNCHANGED target

\* pending() returns a zero agent for an id never issued.
Exists(d, i) == i <= issued[d]

\* findRequestDeployment: the rows of the caller's organisation, the global
\* rows, then the contracts.
Locate(c) ==
    /\ \/ /\ pc[c] = "orgRow"
          /\ IF HomeOf[c] = "org" /\ <<"org", id[c]>> \in rows
             THEN Found(c, "org") ELSE NotFound(c, "globalRow")
       \/ /\ pc[c] = "globalRow"
          /\ IF <<"global", id[c]>> \in rows
             THEN Found(c, AgentHome) ELSE NotFound(c, "ownProbe")
       \/ /\ pc[c] = "ownProbe"
          /\ IF Exists(HomeOf[c], id[c]) THEN Found(c, HomeOf[c])
             ELSE NotFound(c, IF HomeOf[c] = "global" THEN "404"
                              ELSE "globalProbe")
       \/ /\ pc[c] = "globalProbe"
          /\ IF Exists("global", id[c]) THEN Found(c, "global")
             ELSE NotFound(c, "404")
    /\ UNCHANGED <<callFrame, poolVars, operatorActions, line, alarms, shown,
                   hit>>

\* Mutant of AboveCeiling: the ceiling is looked up under the global key.
AboveCeilingOfGlobal(c) ==
    c \in Capped /\ <<"global", id[c]>> \in rows \intersect Large

AboveCeiling(c) == c \in Capped /\ Where(c) \in rows \intersect Large

\* withinApprovalScope: a row not indexed yet passes.
WithinScope(c) ==
    /\ pc[c] = "scope"
    /\ IF AboveCeiling(c)
       THEN Answers(c, "500")
       ELSE Goes(c, "join") /\ UNCHANGED answer
    /\ UNCHANGED <<callFrame, poolVars, operatorActions, target, line, alarms,
                   shown, hit>>

BeforeQueueFails(c) ==
    /\ pc[c] \in Locating \union {"scope"}
    /\ Fault(c)
    /\ Answers(c, "500")
    /\ UNCHANGED <<callFrame, poolVars, operatorActions, target, line, alarms,
                   shown>>

\* submitAsApprover looks the caller's wallet up, then queues behind it.
JoinQueue(c) ==
    /\ pc[c] = "join"
    /\ \/ /\ Joins(c)
          /\ Goes(c, IF UsesCircle(c) THEN "grant" ELSE "check")
          /\ UNCHANGED hit
       \/ /\ Fault(c)
          /\ Goes(c, "reread 500")
          /\ UNCHANGED line
    /\ UNCHANGED <<callFrame, poolVars, operatorActions, target, answer, alarms,
                   shown>>

\* readGrant; GrantMissingError is answered 403.
ReadGrant(c) ==
    /\ pc[c] = "grant"
    /\ HasTurn(c)
    /\ \/ /\ signer[c] \in grants
          /\ Goes(c, "check")
          /\ UNCHANGED <<line, answer, hit>>
       \/ /\ signer[c] \notin grants
          /\ Leaves(c)
          /\ Answers(c, "403")
          /\ UNCHANGED hit
       \/ /\ Fault(c)
          /\ Leaves(c)
          /\ Goes(c, "reread 503")
          /\ UNCHANGED answer
    /\ UNCHANGED <<callFrame, poolVars, operatorActions, target, alarms, shown>>

\* ensureUnresolved.  The relayer's path wraps what it throws; Circle's does
\* not, so that a failed read is answered 500 there.
CheckUnresolved(c) ==
    /\ pc[c] = "check"
    /\ HasTurn(c)
    /\ \/ /\ ~Resolved(Where(c))
          /\ Goes(c, "send")
          /\ UNCHANGED <<line, answer, alarms, hit>>
       \/ /\ Resolved(Where(c))
          /\ IF UsesCircle(c)
             THEN /\ Leaves(c)
                  /\ alarms' = alarms \union {c}
                  /\ Answers(c, "409")
             ELSE FailsAlarmed(c, "reread 503")
          /\ UNCHANGED hit
       \/ /\ Fault(c)
          /\ FailsAlarmed(c, IF UsesCircle(c) THEN "reread 500"
                             ELSE "reread 503")
    /\ UNCHANGED <<callFrame, poolVars, operatorActions, target, shown>>

Submits(c) ==
    /\ sent' = [sent EXCEPT ![LineOf(c)] = @ + 1]
    /\ nonce' = [nonce EXCEPT ![c] = sent[LineOf(c)]]
    /\ tx' = [tx EXCEPT ![c] = "pending"]

\* writeContract returns the hash of a transaction not mined yet; Circle is
\* polled for the outcome.
Send(c) ==
    /\ pc[c] = "send"
    /\ HasTurn(c)
    /\ UsesCircle(c) \/ ~Reverts(c)
    /\ Submits(c)
    /\ IF UsesCircle(c)
       THEN Goes(c, "poll") /\ UNCHANGED line
       ELSE Goes(c, "record") /\ Leaves(c)
    /\ UNCHANGED <<callFrame, operatorActions, target, answer, alarms, shown,
                   hit>>

\* The estimate reverts or the submission is rejected; or its answer is lost
\* and the transaction lives on.
SendFails(c) ==
    /\ pc[c] = "send"
    /\ HasTurn(c)
    /\ \/ Reverts(c) /\ UNCHANGED <<poolVars, hit>>
       \/ Fault(c) /\ UNCHANGED poolVars
       \/ Fault(c) /\ (UsesCircle(c) \/ ~Reverts(c)) /\ Submits(c)
    /\ FailsAlarmed(c, "reread 503")
    /\ UNCHANGED <<callFrame, operatorActions, target, shown>>

\* Mutant of IsComplete: any terminal state passes for success.
IsTerminal(c) == tx[c] \in {"mined", "reverted"}

IsComplete(c) == tx[c] = "mined"

\* executeContractAndWait polls until Circle reports COMPLETE or a failure.
Poll(c) ==
    /\ pc[c] = "poll"
    /\ HasTurn(c)
    /\ \/ /\ IsComplete(c)
          /\ Leaves(c)
          /\ Goes(c, "record")
          /\ UNCHANGED <<answer, alarms>>
       \/ /\ tx[c] = "reverted"
          /\ FailsAlarmed(c, "reread 503")
    /\ UNCHANGED <<callFrame, poolVars, operatorActions, target, shown, hit>>

\* POLL_TIMEOUT_MS has passed, or a poll gets no answer.
PollGivesUp(c) ==
    /\ pc[c] = "poll"
    /\ HasTurn(c)
    /\ Fault(c)
    /\ FailsAlarmed(c, "reread 503")
    /\ UNCHANGED <<callFrame, poolVars, operatorActions, target, shown>>

\* Circle denies or cancels an execution it has not sent.
Cancelled(c) ==
    /\ UsesCircle(c)
    /\ tx[c] = "pending"
    /\ tx' = [tx EXCEPT ![c] = "reverted"]
    /\ UNCHANGED <<callFrame, sent, nonce, operatorActions, pc, target, line,
                   answer, alarms, shown, hit>>

\* resolveRequest's catch: a request resolved in the meantime is a 409.
Reread(c) ==
    /\ pc[c] \in Rereading
    /\ \/ /\ Answers(c, IF Resolved(Where(c)) THEN "409"
                         ELSE IF pc[c] = "reread 503" THEN "503" ELSE "500")
          /\ UNCHANGED hit
       \/ /\ Fault(c)
          /\ Answers(c, IF pc[c] = "reread 503" THEN "503" ELSE "500")
    /\ UNCHANGED <<callFrame, poolVars, operatorActions, target, line, alarms,
                   shown>>

\* Mutant of Record: only what is mined by now is recorded.
RecordIfMined(c) ==
    /\ pc[c] = "record"
    /\ operatorActions' = IF tx[c] = "mined" THEN operatorActions \union {c}
                          ELSE operatorActions
    /\ Answers(c, "200")
    /\ UNCHANGED <<callFrame, poolVars, target, line, alarms, shown, hit>>

\* recordOperatorAction, then the broadcast and the answer.
Record(c) ==
    /\ pc[c] = "record"
    /\ \/ /\ operatorActions' = operatorActions \union {c}
          /\ Answers(c, "200")
          /\ UNCHANGED hit
       \/ /\ Fault(c)
          /\ Answers(c, "500")
          /\ UNCHANGED operatorActions
    /\ UNCHANGED <<callFrame, poolVars, target, line, alarms, shown>>

InFlight == {c \in Calls : pc[c] \notin Over \union {"idle"}}

\* The process dies and another starts: promise chains are in memory.
Restart ==
    /\ InFlight # {}
    /\ pc' = [c \in Calls |-> IF c \in InFlight THEN "dead" ELSE pc[c]]
    /\ hit' = hit \union InFlight
    /\ line' = [l \in Lines |-> <<>>]
    /\ UNCHANGED <<callFrame, poolVars, operatorActions, target, answer, alarms,
                   shown>>

-----------------------------------------------------------------------------
CallStep(c) ==
    \/ Post(c) \/ Locate(c) \/ WithinScope(c) \/ BeforeQueueFails(c)
    \/ JoinQueue(c) \/ ReadGrant(c) \/ CheckUnresolved(c)
    \/ Send(c) \/ SendFails(c) \/ Poll(c) \/ PollGivesUp(c)
    \/ Reread(c) \/ Record(c)

Next ==
    \/ \E d \in Deployments : Escalate(d)
    \/ Freeze
    \/ \E r \in Requests : IndexRequest(r)
    \/ \E w \in Wallets : Revoke(w)
    \/ \E c \in Calls : CallStep(c) \/ Mine(c) \/ Cancelled(c)
    \/ Restart

Spec == Init /\ [][Next]_vars

\* Every await of a handler settles: polling has a deadline, and no step waits
\* for the chain to mine.
FairSpec == Spec /\ \A c \in Calls : WF_vars(CallStep(c))
=============================================================================
