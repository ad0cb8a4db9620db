-------------------------- MODULE ApprovalQueueProofs --------------------------
(***************************************************************************)
(* What the decision routes promise holds for any number of calls, wallets *)
(* and requests.                                                           *)
(***************************************************************************)
EXTENDS ApprovalQueueProperties, TLAPS

TxStates == {"none", "pending", "mined", "reverted"}
Codes == {"none", "200", "403", "404", "409", "500", "503"}

\* The part of the type invariant the argument needs.
CallsTyped ==
    /\ pc \in [Calls -> Steps]
    /\ tx \in [Calls -> TxStates]
    /\ answer \in [Calls -> Codes]

\* A call that has not reached its send, or was refused there, has no
\* transaction; a wait that ended without a fault knows the outcome; what is
\* about to be recorded was sent.
Account(c) ==
    /\ pc[c] \in Unsent => tx[c] = "none" /\ answer[c] = "none"
    /\ pc[c] \notin Over => answer[c] = "none" /\ c \notin operatorActions
    /\ pc[c] = "poll" => UsesCircle(c)
    /\ pc[c] = "record" => tx[c] # "none" /\ (UsesCircle(c) => tx[c] = "mined")
    /\ pc[c] \in Rereading => c \in hit \/ tx[c] \in {"none", "reverted"}
    /\ pc[c] \in Over => c \in operatorActions \union hit
                         \/ tx[c] \in {"none", "reverted"}
    /\ answer[c] \in {"403", "404"} => tx[c] = "none"
    /\ c \in operatorActions =>
         tx[c] # "none" /\ (UsesCircle(c) => tx[c] = "mined")

CallsAccounted == CallsTyped /\ \A c \in Calls : Account(c)

frameVars == <<tx, pc, signer, answer, operatorActions, hit>>

LEMMA InitAccounted == Init => CallsAccounted
  BY DEF Init, CallsAccounted, CallsTyped, Account, Steps, Unsent, Rereading,
         Over, Locating, TxStates, Codes

\* A step that leaves the calls' own state alone keeps the accounts.
LEMMA FrameAccounted ==
  ASSUME CallsAccounted, UNCHANGED frameVars
  PROVE  CallsAccounted'
  BY DEF CallsAccounted, CallsTyped, Account, frameVars, UsesCircle

\* A step of one call that leaves the others' pc, transaction, answer, record
\* and faults as they are keeps the accounts when it keeps that call's own.
LEMMA OtherAccounts ==
  ASSUME CallsAccounted, NEW c \in Calls, CallsTyped', signer' = signer,
         Account(c)',
         \A d \in Calls : d # c =>
            /\ pc'[d] = pc[d] /\ tx'[d] = tx[d] /\ answer'[d] = answer[d]
            /\ (d \in operatorActions' <=> d \in operatorActions)
            /\ (d \in hit' <=> d \in hit)
  PROVE  CallsAccounted'
<1>1. SUFFICES ASSUME NEW d \in Calls, d # c PROVE Account(d)'
  BY DEF CallsAccounted
<1>2. Account(d)
  BY DEF CallsAccounted
<1>. QED BY <1>1, <1>2 DEF Account, UsesCircle

-----------------------------------------------------------------------------
LEMMA StepAccounted ==
  ASSUME CallsAccounted, NEW c \in Calls, CallStep(c)
  PROVE  CallsAccounted'
<1>. USE DEF callFrame, bodyVars, poolVars
<1>0. CallsTyped /\ Account(c)
  BY DEF CallsAccounted
<1>1. signer' = signer
  BY DEF CallStep, Post, Locate, WithinScope, BeforeQueueFails, JoinQueue,
         ReadGrant, CheckUnresolved, Send, SendFails, Poll, PollGivesUp, Reread,
         Record
<1>2. CASE Post(c)
  <2>1. CallsTyped'
    BY <1>2, <1>0 DEF Post, Goes, CallsTyped, Steps,
       Unsent, Rereading, Over, Locating, TxStates, Codes
  <2>2. Account(c)'
    BY <1>2, <1>0, <1>1 DEF Post, Goes, CallsTyped, Account,
       UsesCircle, Unsent, Rereading, Over, Locating, TxStates
  <2>. QED BY <2>1, <2>2, <1>2, <1>0, <1>1, OtherAccounts DEF Post, Goes,
           CallsTyped
<1>3. CASE Locate(c)
  <2>1. CallsTyped'
    BY <1>3, <1>0 DEF Locate, Found, NotFound, Goes, Answers, CallsTyped, Steps,
       Unsent, Rereading, Over, Locating, TxStates, Codes
  <2>2. Account(c)'
    BY <1>3, <1>0, <1>1 DEF Locate, Found, NotFound, Goes, Answers,
       CallsTyped, Account, UsesCircle, Unsent, Rereading, Over, Locating,
       TxStates
  <2>. QED BY <2>1, <2>2, <1>3, <1>0, <1>1, OtherAccounts DEF Locate, Found,
              NotFound, Goes, Answers, CallsTyped
<1>4. CASE WithinScope(c)
  <2>1. CallsTyped'
    BY <1>4, <1>0 DEF WithinScope, Goes, Answers, CallsTyped, Steps,
       Unsent, Rereading, Over, Locating, TxStates, Codes
  <2>2. Account(c)'
    BY <1>4, <1>0, <1>1 DEF WithinScope, Goes, Answers, CallsTyped, Account,
       UsesCircle, Unsent, Rereading, Over, Locating, TxStates
  <2>. QED BY <2>1, <2>2, <1>4, <1>0, <1>1, OtherAccounts DEF WithinScope,
              Goes, Answers, CallsTyped
<1>5. CASE BeforeQueueFails(c)
  <2>1. CallsTyped'
    BY <1>5, <1>0 DEF BeforeQueueFails, Fault, Goes, Answers, CallsTyped, Steps,
       Unsent, Rereading, Over, Locating, TxStates, Codes
  <2>2. Account(c)'
    BY <1>5, <1>0, <1>1 DEF BeforeQueueFails, Fault, Goes, Answers,
       CallsTyped, Account, UsesCircle, Unsent, Rereading, Over, Locating,
       TxStates
  <2>. QED BY <2>1, <2>2, <1>5, <1>0, <1>1, OtherAccounts DEF
              BeforeQueueFails, Fault, Goes, Answers, CallsTyped
<1>6. CASE JoinQueue(c)
  <2>1. CallsTyped'
    BY <1>6, <1>0 DEF JoinQueue, Fault, Goes, CallsTyped, Steps,
       Unsent, Rereading, Over, Locating, TxStates, Codes
  <2>2. Account(c)'
    BY <1>6, <1>0, <1>1 DEF JoinQueue, Fault, Goes, CallsTyped, Account,
       UsesCircle, Unsent, Rereading, Over, Locating, TxStates
  <2>. QED BY <2>1, <2>2, <1>6, <1>0, <1>1, OtherAccounts DEF JoinQueue,
              Fault, Goes, CallsTyped
<1>7. CASE ReadGrant(c)
  <2>1. CallsTyped'
    BY <1>7, <1>0 DEF ReadGrant, Fault, Goes, Answers, CallsTyped, Steps,
       Unsent, Rereading, Over, Locating, TxStates, Codes
  <2>2. Account(c)'
    BY <1>7, <1>0, <1>1 DEF ReadGrant, Fault, Goes, Answers, CallsTyped,
       Account, UsesCircle, Unsent, Rereading, Over, Locating, TxStates
  <2>. QED BY <2>1, <2>2, <1>7, <1>0, <1>1, OtherAccounts DEF ReadGrant,
              Fault, Goes, Answers, CallsTyped
<1>8. CASE CheckUnresolved(c)
  <2>1. CallsTyped'
    BY <1>8, <1>0 DEF CheckUnresolved, FailsAlarmed, Fault, Goes, Answers,
       CallsTyped, Steps, Unsent, Rereading, Over, Locating, TxStates, Codes
  <2>2. Account(c)'
    BY <1>8, <1>0, <1>1 DEF CheckUnresolved, FailsAlarmed, Fault, Goes,
       Answers, CallsTyped, Account, UsesCircle, Unsent, Rereading, Over,
       Locating, TxStates
  <2>. QED BY <2>1, <2>2, <1>8, <1>0, <1>1, OtherAccounts DEF CheckUnresolved,
              FailsAlarmed, Fault, Goes, Answers, CallsTyped
<1>9. CASE Send(c)
  <2>1. CallsTyped'
    BY <1>9, <1>0 DEF Send, Submits, Goes, CallsTyped, Steps,
       Unsent, Rereading, Over, Locating, TxStates, Codes
  <2>2. Account(c)'
    BY <1>9, <1>0, <1>1 DEF Send, Submits, Goes, CallsTyped, Account,
       UsesCircle, Unsent, Rereading, Over, Locating, TxStates
  <2>. QED BY <2>1, <2>2, <1>9, <1>0, <1>1, OtherAccounts DEF Send, Submits,
              Goes, CallsTyped
<1>10. CASE SendFails(c)
  <2>1. CallsTyped'
    BY <1>10, <1>0 DEF SendFails, Submits, FailsAlarmed, Fault, Goes,
       CallsTyped, Steps, Unsent, Rereading, Over, Locating, TxStates, Codes
  <2>2. Account(c)'
    BY <1>10, <1>0, <1>1 DEF SendFails, Submits, FailsAlarmed, Fault, Goes,
       CallsTyped, Account, UsesCircle, Unsent, Rereading, Over, Locating,
       TxStates
  <2>. QED BY <2>1, <2>2, <1>10, <1>0, <1>1, OtherAccounts DEF SendFails,
              Submits, FailsAlarmed, Fault, Goes, CallsTyped
<1>11. CASE Poll(c)
  <2>1. CallsTyped'
    BY <1>11, <1>0 DEF Poll, IsComplete, FailsAlarmed, Goes, CallsTyped, Steps,
       Unsent, Rereading, Over, Locating, TxStates, Codes
  <2>2. Account(c)'
    BY <1>11, <1>0, <1>1 DEF Poll, IsComplete, FailsAlarmed, Goes, CallsTyped,
       Account, UsesCircle, Unsent, Rereading, Over, Locating, TxStates
  <2>. QED BY <2>1, <2>2, <1>11, <1>0, <1>1, OtherAccounts DEF Poll,
              IsComplete, FailsAlarmed, Goes, CallsTyped
<1>12. CASE PollGivesUp(c)
  <2>1. CallsTyped'
    BY <1>12, <1>0 DEF PollGivesUp, FailsAlarmed, Fault, Goes, CallsTyped,
       Steps, Unsent, Rereading, Over, Locating, TxStates, Codes
  <2>2. Account(c)'
    BY <1>12, <1>0, <1>1 DEF PollGivesUp, FailsAlarmed, Fault, Goes,
       CallsTyped, Account, UsesCircle, Unsent, Rereading, Over, Locating,
       TxStates
  <2>. QED BY <2>1, <2>2, <1>12, <1>0, <1>1, OtherAccounts DEF PollGivesUp,
              FailsAlarmed, Fault, Goes, CallsTyped
<1>13. CASE Reread(c)
  <2>1. CallsTyped'
    BY <1>13, <1>0 DEF Reread, Fault, Goes, Answers, CallsTyped, Steps,
       Unsent, Rereading, Over, Locating, TxStates, Codes
  <2>2. Account(c)'
    BY <1>13, <1>0, <1>1 DEF Reread, Fault, Goes, Answers, CallsTyped, Account,
       UsesCircle, Unsent, Rereading, Over, Locating, TxStates
  <2>. QED BY <2>1, <2>2, <1>13, <1>0, <1>1, OtherAccounts DEF Reread, Fault,
              Goes, Answers, CallsTyped
<1>14. CASE Record(c)
  <2>1. CallsTyped'
    BY <1>14, <1>0 DEF Record, Fault, Goes, Answers, CallsTyped, Steps,
       Unsent, Rereading, Over, Locating, TxStates, Codes
  <2>2. Account(c)'
    BY <1>14, <1>0, <1>1 DEF Record, Fault, Goes, Answers, CallsTyped, Account,
       UsesCircle, Unsent, Rereading, Over, Locating, TxStates
  <2>. QED BY <2>1, <2>2, <1>14, <1>0, <1>1, OtherAccounts DEF Record, Fault,
              Goes, Answers, CallsTyped
<1>. QED BY <1>2, <1>3, <1>4, <1>5, <1>6, <1>7, <1>8, <1>9, <1>10, <1>11,
            <1>12, <1>13, <1>14 DEF CallStep

LEMMA ChainAccounted ==
  ASSUME CallsAccounted, NEW c \in Calls, Mine(c) \/ Cancelled(c)
  PROVE  CallsAccounted'
<1>. USE DEF callFrame, bodyVars, poolVars, dbVars
<1>0. CallsTyped /\ Account(c)
  BY DEF CallsAccounted
<1>1. /\ signer' = signer /\ pc' = pc /\ answer' = answer /\ hit' = hit
      /\ operatorActions' = operatorActions
      /\ tx[c] = "pending"
      /\ tx' = [tx EXCEPT ![c] = "mined"] \/ tx' = [tx EXCEPT ![c] = "reverted"]
  BY DEF Mine, IsNext, Cancelled
<1>2. CASE tx' = [tx EXCEPT ![c] = "mined"]
  <2>1. CallsTyped' /\ Account(c)'
    BY <1>0, <1>1, <1>2 DEF CallsTyped, Account, UsesCircle, TxStates, Unsent,
       Rereading, Over
  <2>. QED BY <2>1, <1>2, <1>0, <1>1, OtherAccounts DEF CallsTyped
<1>3. CASE tx' = [tx EXCEPT ![c] = "reverted"]
  <2>1. CallsTyped' /\ Account(c)'
    BY <1>0, <1>1, <1>3 DEF CallsTyped, Account, UsesCircle, TxStates, Unsent,
       Rereading, Over
  <2>. QED BY <2>1, <1>3, <1>0, <1>1, OtherAccounts DEF CallsTyped
<1>. QED BY <1>1, <1>2, <1>3

\* The calls a dead process took along are hit.
LEMMA RestartAccounted ==
  ASSUME CallsAccounted, Restart
  PROVE  CallsAccounted'
<1>. USE DEF callFrame, bodyVars, poolVars
<1>1. CallsTyped'
  BY DEF CallsAccounted, CallsTyped, Restart, Steps, Over
<1>2. ASSUME NEW d \in Calls PROVE Account(d)'
  <2>1. Account(d) /\ CallsTyped
    BY DEF CallsAccounted
  <2>2. CASE d \in InFlight
    <3>1. pc'[d] = "dead" /\ d \in hit'
      BY <2>2 DEF Restart
    <3>. QED BY <2>1, <2>2, <3>1 DEF Restart, InFlight, Account, UsesCircle,
             Unsent, Rereading, Over, Locating
  <2>3. CASE d \notin InFlight
    <3>1. pc'[d] = pc[d] /\ (d \in hit' <=> d \in hit)
      BY <2>3 DEF Restart
    <3>. QED BY <2>1, <3>1 DEF Restart, Account, UsesCircle
  <2>. QED BY <2>2, <2>3
<1>. QED BY <1>1, <1>2 DEF CallsAccounted

LEMMA NextAccounted == CallsAccounted /\ [Next]_vars => CallsAccounted'
<1>. SUFFICES ASSUME CallsAccounted, [Next]_vars PROVE CallsAccounted'
  OBVIOUS
<1>1. ASSUME NEW d \in Deployments, Escalate(d) PROVE CallsAccounted'
  BY <1>1, FrameAccounted DEF Escalate, frameVars, poolVars, bodyVars, dbVars
<1>2. CASE Freeze
  BY <1>2, FrameAccounted DEF Freeze, frameVars, poolVars, bodyVars, dbVars
<1>3. ASSUME NEW r \in Requests, IndexRequest(r) PROVE CallsAccounted'
  BY <1>3, FrameAccounted DEF IndexRequest, frameVars, poolVars, bodyVars
<1>4. ASSUME NEW w \in Wallets, Revoke(w) PROVE CallsAccounted'
  BY <1>4, FrameAccounted DEF Revoke, frameVars, poolVars, bodyVars, dbVars
<1>5. ASSUME NEW c \in Calls, CallStep(c) PROVE CallsAccounted'
  BY <1>5, StepAccounted
<1>6. ASSUME NEW c \in Calls, Mine(c) \/ Cancelled(c) PROVE CallsAccounted'
  BY <1>6, ChainAccounted
<1>7. CASE Restart
  BY <1>7, RestartAccounted
<1>8. CASE UNCHANGED vars
  BY <1>8, FrameAccounted DEF vars, frameVars, poolVars, bodyVars, dbVars
<1>. QED BY <1>1, <1>2, <1>3, <1>4, <1>5, <1>6, <1>7, <1>8 DEF Next

LEMMA AlwaysAccounted == Spec => []CallsAccounted
  BY InitAccounted, NextAccounted, PTL DEF Spec

\* A decision that took effect has an operator's action when its call is over,
\* or a fault hit the call: approvals.ts:271, signing.ts:142.
THEOREM DecisionsSigned == Spec => []EveryDecisionIsSigned
<1>1. CallsAccounted => EveryDecisionIsSigned
  BY DEF CallsAccounted, Account, EveryDecisionIsSigned
<1>. QED BY <1>1, AlwaysAccounted, PTL

\* Refusals spend no gas and recorded actions were sent; a wallet's took effect.
THEOREM AnswersCorrect == Spec => []AnswersAreTrue
<1>1. CallsAccounted => AnswersAreTrue
  BY DEF CallsAccounted, CallsTyped, TxStates, Account, AnswersAreTrue
<1>. QED BY <1>1, AlwaysAccounted, PTL

-----------------------------------------------------------------------------
LEMMA StatusTyped == Init => status \in [Requests -> {"none"}]
  BY DEF Init

ChainTyped == DOMAIN status = Requests /\ issued \in [Deployments -> Nat]

\* Every step but an escalation and a mined decision leaves the chain alone.
LEMMA CallsLeaveChain ==
  ASSUME NEW c \in Calls, CallStep(c)
  PROVE  UNCHANGED <<status, issued>>
  BY DEF CallStep, Post, Locate, WithinScope, BeforeQueueFails, JoinQueue,
     ReadGrant, CheckUnresolved, Send, SendFails, Poll, PollGivesUp, Reread,
     Record, callFrame, chainVars

StatusMoves ==
    \/ UNCHANGED <<status, issued>>
    \/ \E d \in Deployments : Escalate(d)
    \/ \E c \in Calls : Mine(c)

LEMMA MovesComplete == [Next]_vars => StatusMoves
<1>. SUFFICES ASSUME [Next]_vars PROVE StatusMoves
  OBVIOUS
<1>. USE DEF StatusMoves, chainVars
<1>1. CASE Freeze
  BY <1>1 DEF Freeze
<1>2. ASSUME NEW r \in Requests, IndexRequest(r) PROVE StatusMoves
  BY <1>2 DEF IndexRequest
<1>3. ASSUME NEW w \in Wallets, Revoke(w) PROVE StatusMoves
  BY <1>3 DEF Revoke
<1>4. ASSUME NEW c \in Calls, CallStep(c) PROVE StatusMoves
  BY <1>4, CallsLeaveChain
<1>5. ASSUME NEW c \in Calls, Cancelled(c) PROVE StatusMoves
  BY <1>5 DEF Cancelled, callFrame
<1>6. CASE Restart
  BY <1>6 DEF Restart, callFrame
<1>7. CASE UNCHANGED vars
  BY <1>7 DEF vars
<1>. QED BY <1>1, <1>2, <1>3, <1>4, <1>5, <1>6, <1>7 DEF Next

LEMMA ChainStaysTyped == ChainTyped /\ [Next]_vars => ChainTyped'
<1>. SUFFICES ASSUME ChainTyped, StatusMoves PROVE ChainTyped'
  BY MovesComplete
<1>1. CASE UNCHANGED <<status, issued>>
  BY <1>1 DEF ChainTyped
<1>2. ASSUME NEW d \in Deployments, Escalate(d) PROVE ChainTyped'
  BY <1>2 DEF ChainTyped, Escalate
<1>3. ASSUME NEW c \in Calls, Mine(c) PROVE ChainTyped'
  BY <1>3 DEF ChainTyped, Mine, chainVars
<1>. QED BY <1>1, <1>2, <1>3 DEF StatusMoves

-----------------------------------------------------------------------------
\* What the URL names is found before anything is queued.
Located == {"scope", "join", "grant", "check", "send", "poll"}

TargetsInv ==
    /\ signer \in [Calls -> Signers]
    /\ target \in [Calls -> Deployments \union {NoTarget}]
    /\ \A c \in Calls : pc[c] \in Located => target[c] \in Deployments

\* A step of one call leaves the others where they are.
LEMMA OthersWait ==
  ASSUME CallsTyped, TargetsInv, NEW c \in Calls, CallStep(c),
         NEW d \in Calls, d # c
  PROVE  /\ pc'[d] = pc[d] /\ tx'[d] = tx[d] /\ target'[d] = target[d]
         /\ (d \in hit' <=> d \in hit) /\ (d \in shown' <=> d \in shown)
<1>. USE DEF CallsTyped, TargetsInv, Goes, Answers, Fault
<1>1. CASE Post(c) \/ WithinScope(c) \/ BeforeQueueFails(c) \/ JoinQueue(c)
  BY <1>1 DEF Post, WithinScope, BeforeQueueFails, JoinQueue, poolVars
<1>2. CASE Locate(c)
  BY <1>2 DEF Locate, Found, NotFound, poolVars
<1>3. CASE ReadGrant(c) \/ CheckUnresolved(c)
  BY <1>3 DEF ReadGrant, CheckUnresolved, FailsAlarmed, poolVars
<1>4. CASE Send(c) \/ SendFails(c)
  BY <1>4 DEF Send, SendFails, Submits, FailsAlarmed, poolVars
<1>5. CASE Poll(c) \/ PollGivesUp(c)
  BY <1>5 DEF Poll, PollGivesUp, FailsAlarmed, poolVars
<1>6. CASE Reread(c) \/ Record(c)
  BY <1>6 DEF Reread, Record, poolVars
<1>. QED BY <1>1, <1>2, <1>3, <1>4, <1>5, <1>6 DEF CallStep

LEMMA NextTargets == CallsTyped /\ TargetsInv /\ [Next]_vars => TargetsInv'
<1>. SUFFICES ASSUME CallsTyped, TargetsInv, [Next]_vars PROVE TargetsInv'
  OBVIOUS
<1>. USE DEF callFrame, bodyVars, poolVars, dbVars
<1>1. CASE UNCHANGED <<signer, target, pc>>
  BY <1>1 DEF TargetsInv
<1>2. CASE \/ Freeze \/ UNCHANGED vars
           \/ \E d \in Deployments : Escalate(d)
           \/ \E r \in Requests : IndexRequest(r)
           \/ \E w \in Wallets : Revoke(w)
           \/ \E c \in Calls : Mine(c) \/ Cancelled(c)
  BY <1>1, <1>2 DEF Freeze, Escalate, IndexRequest, Revoke, Mine, Cancelled,
     vars
<1>3. ASSUME NEW c \in Calls, CallStep(c) PROVE TargetsInv'
  <2>. USE DEF CallsTyped, TargetsInv, Goes, Answers, Located
  <2>1. signer' = signer
    BY <1>3 DEF CallStep, Post, Locate, WithinScope, BeforeQueueFails,
       JoinQueue, ReadGrant, CheckUnresolved, Send, SendFails, Poll,
       PollGivesUp, Reread, Record
  <2>2. /\ target' \in [Calls -> Deployments \union {NoTarget}]
        /\ pc'[c] \in Located => target'[c] \in Deployments
    <3>1. CASE Locate(c)
      BY <3>1, QueueAssumption DEF Locate, Found, NotFound, Deployments
    <3>2. CASE Post(c) \/ WithinScope(c) \/ BeforeQueueFails(c) \/ JoinQueue(c)
      BY <3>2 DEF Post, WithinScope, BeforeQueueFails, JoinQueue
    <3>3. CASE ReadGrant(c) \/ CheckUnresolved(c)
      BY <3>3 DEF ReadGrant, CheckUnresolved, FailsAlarmed
    <3>4. CASE Send(c) \/ SendFails(c)
      BY <3>4 DEF Send, SendFails, FailsAlarmed
    <3>5. CASE Poll(c) \/ PollGivesUp(c)
      BY <3>5 DEF Poll, PollGivesUp, FailsAlarmed
    <3>6. CASE Reread(c) \/ Record(c)
      BY <3>6 DEF Reread, Record
    <3>. QED BY <1>3, <3>1, <3>2, <3>3, <3>4, <3>5, <3>6 DEF CallStep
  <2>3. \A d \in Calls \ {c} : pc'[d] = pc[d] /\ target'[d] = target[d]
    BY <1>3, OthersWait
  <2>. QED BY <2>1, <2>2, <2>3
<1>4. CASE Restart
  BY <1>4 DEF Restart, CallsTyped, TargetsInv, Located
<1>. QED BY <1>2, <1>3, <1>4 DEF Next

LEMMA AlwaysLocated == Spec => []TargetsInv
<1>1. Init => TargetsInv
  BY DEF Init, TargetsInv, Located
<1>2. CallsAccounted => CallsTyped
  BY DEF CallsAccounted
<1>. QED BY <1>1, <1>2, NextTargets, AlwaysAccounted, PTL DEF Spec

\* The promise chains: only the call at the head of one leaves it, and a
\* wallet's execution without an outcome, unless a fault hit the call, is that
\* of the call at the head.
LinesTyped == line \in [Lines -> Seq(Calls)]

KeepsTurn(c) ==
    UsesCircle(c) /\ tx[c] = "pending" /\ c \notin hit =>
        pc[c] = "poll" /\ HasTurn(c)

TurnsInv == LinesTyped /\ \A c \in Calls : KeepsTurn(c)

LineMoves(c) == UNCHANGED line \/ Joins(c) \/ (HasTurn(c) /\ Leaves(c))

\* A line another call joins or leaves keeps its head.
LEMMA HeadStays ==
  ASSUME LinesTyped, NEW c \in Calls, NEW d \in Calls, c # d, LineMoves(c),
         HasTurn(d), UNCHANGED <<signer[d], target[d]>>, LineOf(d) \in Lines
  PROVE  HasTurn(d)'
<1>1. PICK l : l = LineOf(d)
  OBVIOUS
<1>2. LineOf(d)' = l /\ line[l] # <<>> /\ Head(line[l]) = d
  BY <1>1 DEF LineOf, HasTurn
<1>3. CASE UNCHANGED line
  BY <1>2, <1>3 DEF HasTurn
<1>4. CASE l # LineOf(c)
  <2>1. PICK k : k = LineOf(c)
    OBVIOUS
  <2>2. \/ line' = line
        \/ line' = [line EXCEPT ![k] = Append(@, c)]
        \/ line' = [line EXCEPT ![k] = Tail(@)]
    BY <2>1 DEF LineMoves, Joins, Leaves
  <2>3. line'[l] = line[l]
    BY <1>1, <1>4, <2>1, <2>2 DEF LinesTyped
  <2>. QED BY <1>2, <2>3 DEF HasTurn
<1>5. CASE l = LineOf(c) /\ Joins(c)
  <2>1. line'[l] = Append(line[l], c) /\ line[l] \in Seq(Calls)
    BY <1>1, <1>5 DEF LinesTyped, Joins
  <2>2. line'[l] # <<>> /\ Head(line'[l]) = d
    BY <1>2, <2>1
  <2>. QED BY <1>2, <2>2 DEF HasTurn
<1>6. CASE l = LineOf(c) /\ HasTurn(c)
  BY <1>2, <1>6 DEF HasTurn
<1>. QED BY <1>3, <1>4, <1>5, <1>6 DEF LineMoves

LEMMA LinesStayTyped ==
  ASSUME LinesTyped, NEW c \in Calls, LineMoves(c)
  PROVE  LinesTyped'
<1>1. CASE UNCHANGED line
  BY <1>1 DEF LinesTyped
<1>2. CASE Joins(c)
  <2>1. PICK k : k = LineOf(c)
    OBVIOUS
  <2>2. line' = [line EXCEPT ![k] = Append(line[k], c)]
    BY <1>2, <2>1 DEF Joins
  <2>3. k \in Lines => Append(line[k], c) \in Seq(Calls)
    BY DEF LinesTyped
  <2>. QED BY <2>2, <2>3 DEF LinesTyped
<1>3. CASE HasTurn(c) /\ Leaves(c)
  <2>1. PICK k : k = LineOf(c)
    OBVIOUS
  <2>2. line' = [line EXCEPT ![k] = Tail(line[k])] /\ line[k] # <<>>
    BY <1>3, <2>1 DEF Leaves, HasTurn
  <2>3. k \in Lines => Tail(line[k]) \in Seq(Calls)
    BY <2>2 DEF LinesTyped
  <2>. QED BY <2>2, <2>3 DEF LinesTyped
<1>. QED BY <1>1, <1>2, <1>3 DEF LineMoves

\* A step of one call keeps the turns of the others.
LEMMA OtherTurns ==
  ASSUME TargetsInv, TurnsInv, NEW c \in Calls, LineMoves(c),
         signer' = signer,
         KeepsTurn(c)',
         \A d \in Calls : d # c =>
            /\ pc'[d] = pc[d] /\ tx'[d] = tx[d] /\ target'[d] = target[d]
            /\ (d \in hit' <=> d \in hit)
  PROVE  TurnsInv'
<1>1. SUFFICES ASSUME NEW d \in Calls, d # c PROVE KeepsTurn(d)'
  BY LinesStayTyped DEF TurnsInv
<1>2. KeepsTurn(d)
  BY DEF TurnsInv
<1>3. pc[d] = "poll" /\ HasTurn(d) => HasTurn(d)'
  <2>1. pc[d] = "poll" => LineOf(d) \in Lines
    BY DEF TargetsInv, Located, LineOf, Lines
  <2>. QED BY <1>1, <2>1, HeadStays DEF TurnsInv
<1>. QED BY <1>1, <1>2, <1>3 DEF KeepsTurn, UsesCircle

LEMMA CallMovesLine ==
  ASSUME NEW c \in Calls, CallStep(c)
  PROVE  LineMoves(c)
BY DEF CallStep, Post, Locate, WithinScope, BeforeQueueFails, JoinQueue,
   ReadGrant, CheckUnresolved, Send, SendFails, Poll, PollGivesUp, Reread,
   Record, FailsAlarmed, LineMoves

LEMMA StepTurns ==
  ASSUME CallsAccounted, TargetsInv, TurnsInv, NEW c \in Calls, CallStep(c)
  PROVE  TurnsInv'
<1>. USE DEF callFrame, bodyVars, poolVars
<1>0. /\ CallsTyped /\ Account(c) /\ KeepsTurn(c) /\ signer' = signer
      /\ LineMoves(c)
  BY CallMovesLine DEF CallsAccounted, TurnsInv, CallStep, Post, Locate,
     WithinScope, BeforeQueueFails, JoinQueue, ReadGrant, CheckUnresolved, Send,
     SendFails, Poll, PollGivesUp, Reread, Record
<1>1. \A d \in Calls : d # c =>
        /\ pc'[d] = pc[d] /\ tx'[d] = tx[d] /\ target'[d] = target[d]
        /\ (d \in hit' <=> d \in hit)
  BY <1>0, OthersWait
<1>2. SUFFICES KeepsTurn(c)'
  BY <1>0, <1>1, OtherTurns
<1>3. CASE \/ Post(c) \/ Locate(c) \/ WithinScope(c) \/ BeforeQueueFails(c)
           \/ JoinQueue(c) \/ ReadGrant(c) \/ CheckUnresolved(c)
  <2>1. pc[c] \in Unsent /\ tx' = tx
    BY <1>3 DEF Unsent, Locating, Post, Locate, WithinScope, BeforeQueueFails,
       JoinQueue, ReadGrant, CheckUnresolved
  <2>. QED BY <1>0, <2>1 DEF KeepsTurn, Account
<1>4. CASE Send(c)
  <2>1. UsesCircle(c)' => /\ pc'[c] = "poll" /\ line' = line
                          /\ target' = target /\ HasTurn(c)
    BY <1>0, <1>4 DEF Send, Goes, UsesCircle, CallsTyped
  <2>. QED BY <1>0, <2>1 DEF KeepsTurn, HasTurn, LineOf
<1>5. CASE SendFails(c)
  <2>1. tx'[c] = "pending" => c \in hit'
    BY <1>0, <1>5 DEF SendFails, Fault, CallsTyped, Account, Unsent
  <2>. QED BY <2>1 DEF KeepsTurn
<1>6. CASE Poll(c) \/ PollGivesUp(c)
  <2>1. c \in hit' \/ tx'[c] # "pending"
    BY <1>6 DEF Poll, PollGivesUp, IsComplete, Fault
  <2>. QED BY <2>1 DEF KeepsTurn
<1>7. CASE Reread(c) \/ Record(c)
  <2>1. pc[c] # "poll" /\ tx' = tx /\ (c \in hit => c \in hit')
    BY <1>7 DEF Reread, Record, Rereading, Fault
  <2>. QED BY <1>0, <2>1 DEF KeepsTurn, UsesCircle
<1>. QED BY <1>3, <1>4, <1>5, <1>6, <1>7 DEF CallStep

LEMMA ChainTurns ==
  ASSUME CallsAccounted, TurnsInv, NEW c \in Calls, Mine(c) \/ Cancelled(c)
  PROVE  TurnsInv'
<1>1. /\ UNCHANGED <<signer, pc, target, line, hit>>
      /\ tx' = [tx EXCEPT ![c] = "mined"] \/ tx' = [tx EXCEPT ![c] = "reverted"]
  BY DEF Mine, Cancelled, callFrame, bodyVars, dbVars
<1>2. \A d \in Calls : tx'[d] = "pending" => tx[d] = "pending"
  BY <1>1 DEF CallsAccounted, CallsTyped
<1>. QED BY <1>1, <1>2 DEF TurnsInv, LinesTyped, KeepsTurn, UsesCircle, HasTurn,
         LineOf

LEMMA NextTurns ==
  CallsAccounted /\ TargetsInv /\ TurnsInv /\ [Next]_vars => TurnsInv'
<1>. SUFFICES ASSUME CallsAccounted, TargetsInv, TurnsInv, [Next]_vars
              PROVE  TurnsInv'
  OBVIOUS
<1>1. CASE UNCHANGED <<signer, pc, target, line, tx, hit>>
  BY <1>1 DEF TurnsInv, LinesTyped, KeepsTurn, UsesCircle, HasTurn, LineOf
<1>2. CASE \/ Freeze \/ UNCHANGED vars
           \/ \E d \in Deployments : Escalate(d)
           \/ \E r \in Requests : IndexRequest(r)
           \/ \E w \in Wallets : Revoke(w)
  BY <1>1, <1>2 DEF Freeze, Escalate, IndexRequest, Revoke, vars, poolVars,
     bodyVars
<1>3. ASSUME NEW c \in Calls, CallStep(c) PROVE TurnsInv'
  BY <1>3, StepTurns
<1>4. ASSUME NEW c \in Calls, Mine(c) \/ Cancelled(c) PROVE TurnsInv'
  BY <1>4, ChainTurns
<1>5. CASE Restart
  <2>1. LinesTyped'
    BY <1>5 DEF Restart, LinesTyped
  <2>2. ASSUME NEW c \in Calls PROVE KeepsTurn(c)'
    <3>1. CASE c \in InFlight
      BY <1>5, <3>1 DEF Restart, KeepsTurn
    <3>2. CASE c \notin InFlight
      <4>1. pc[c] # "poll" /\ KeepsTurn(c)
        BY <3>2 DEF InFlight, Over, TurnsInv
      <4>2. ~(UsesCircle(c) /\ tx[c] = "pending" /\ c \notin hit)
        BY <4>1 DEF KeepsTurn
      <4>. QED BY <1>5, <4>2 DEF Restart, callFrame, bodyVars, poolVars,
               KeepsTurn, UsesCircle
    <3>. QED BY <3>1, <3>2
  <2>. QED BY <2>1, <2>2 DEF TurnsInv
<1>. QED BY <1>2, <1>3, <1>4, <1>5 DEF Next

\* One execution of a wallet is under way: an account's calls take turns, and
\* the next one sends when the one before has its outcome (txQueue.ts:22-33).
THEOREM ExecutionsTakeTurns == Spec => []OneExecutionPerWallet
<1>1. Init => TurnsInv
  BY DEF Init, TurnsInv, LinesTyped, KeepsTurn
<1>2. TurnsInv => OneExecutionPerWallet
  <2>. SUFFICES ASSUME TurnsInv, NEW c \in Calls, NEW d \in Calls, c # d,
                       UsesCircle(c), LineOf(c) = LineOf(d),
                       tx[c] = "pending", tx[d] = "pending",
                       c \notin hit, d \notin hit
                PROVE  FALSE
    BY DEF OneExecutionPerWallet
  <2>1. UsesCircle(d)
    BY DEF UsesCircle, LineOf
  <2>2. HasTurn(c) /\ HasTurn(d)
    BY <2>1 DEF TurnsInv, KeepsTurn
  <2>. QED BY <2>2 DEF HasTurn
<1>. QED BY <1>1, <1>2, NextTurns, AlwaysAccounted, AlwaysLocated, PTL
         DEF Spec

-----------------------------------------------------------------------------
(* One decision of a request is reported *)

\* A row of the global deployment has led the call to the organisation's
\* contract, which may not have issued that number yet.
Astray(c) ==
    AgentHome = "org" /\ target[c] = "org" /\ <<"global", id[c]>> \in rows

\* A call is located where its number was issued, or is astray; what it decided
\* stays decided.
Decided(c) ==
    /\ target[c] \in Deployments => id[c] <= issued[target[c]] \/ Astray(c)
    /\ tx[c] # "none" => target[c] \in Deployments
    /\ tx[c] = "mined" => Resolved(Where(c)) \/ Astray(c)

Rivals(c, d) ==
    c # d /\ tx[c] = "mined" /\ tx[d] = "mined" /\ Where(c) = Where(d)

RowsIssued ==
    /\ rows \subseteq Requests
    /\ \A r \in rows : r[2] <= issued[r[1]]

DecisionInv ==
    /\ ChainTyped /\ id \in [Calls -> Ids] /\ RowsIssued
    /\ \A c \in Calls : Decided(c)
    /\ \A c, d \in Calls : Rivals(c, d) => Astray(c)

\* A step that mines nothing and only adds rows and requests.
LEMMA DecisionsStay ==
  ASSUME DecisionInv, TargetsInv, UNCHANGED <<target, id>>,
         ChainTyped', RowsIssued', rows \subseteq rows',
         \A d \in Deployments : issued[d] <= issued'[d],
         \A r \in Requests : r[2] <= issued[r[1]] => status'[r] = status[r],
         \A c \in Calls : /\ tx'[c] = "mined" => tx[c] = "mined"
                          /\ tx'[c] # "none" => tx[c] # "none"
  PROVE  DecisionInv'
<1>1. ASSUME NEW c \in Calls PROVE Decided(c)'
  <2>1. Decided(c) /\ id[c] \in Ids
    BY DEF DecisionInv
  <2>2. Astray(c) => Astray(c)'
    BY DEF Astray
  <2>3. target[c] \in Deployments =>
          /\ issued[target[c]] \in Nat /\ issued'[target[c]] \in Nat
          /\ issued[target[c]] <= issued'[target[c]]
    BY DEF ChainTyped, DecisionInv
  <2>4. target[c] \in Deployments /\ id[c] <= issued[target[c]] =>
          id[c] <= issued'[target[c]]
    BY <2>1, <2>3, QueueAssumption DEF Ids
  <2>5. target[c] \in Deployments /\ id[c] <= issued[target[c]] =>
          status'[Where(c)] = status[Where(c)]
    <3>1. target[c] \in Deployments =>
            /\ Where(c) \in Requests
            /\ Where(c)[1] = target[c] /\ Where(c)[2] = id[c]
      BY <2>1 DEF Where, Requests
    <3>. QED BY <3>1
  <2>. QED BY <2>1, <2>2, <2>4, <2>5 DEF Decided, Resolved, Where
<1>2. ASSUME NEW c \in Calls, NEW d \in Calls, Rivals(c, d)'
      PROVE  Astray(c)'
  BY <1>2 DEF DecisionInv, Rivals, Astray, Where
<1>. QED BY <1>1, <1>2 DEF DecisionInv

LEMMA StepDecides ==
  ASSUME CallsAccounted, TargetsInv, DecisionInv, NEW c \in Calls, CallStep(c)
  PROVE  DecisionInv'
<1>0. CallsTyped /\ Account(c) /\ Decided(c) /\ id[c] \in Ids
  BY DEF CallsAccounted, DecisionInv
<1>1. UNCHANGED <<status, issued, rows, id>>
  BY CallsLeaveChain DEF CallStep, Post, Locate, WithinScope, BeforeQueueFails,
     JoinQueue, ReadGrant, CheckUnresolved, Send, SendFails, Poll, PollGivesUp,
     Reread, Record, callFrame, bodyVars
<1>2. ChainTyped' /\ RowsIssued' /\ id' \in [Calls -> Ids]
  BY <1>1 DEF DecisionInv, ChainTyped, RowsIssued
<1>3. \A d \in Calls : d # c => /\ tx'[d] = tx[d] /\ target'[d] = target[d]
                                /\ Where(d)' = Where(d)
                                /\ Astray(d)' = Astray(d)
  BY <1>0, <1>1, OthersWait DEF Where, Astray
<1>4. CASE Locate(c)
  <2>1. pc[c] \in Locating /\ tx' = tx /\ tx[c] = "none"
    BY <1>0, <1>4 DEF Locate, Locating, Account, Unsent, poolVars
  <2>2. \/ target'[c] = target[c]
        \/ target'[c] \in Deployments /\ (id[c] <= issued[target'[c]] \/ Astray(c)')
    <3>1. \A d : Found(c, d) => target'[c] = d
      BY DEF Found, TargetsInv
    <3>2. \A code : NotFound(c, code) => target'[c] = target[c]
      BY DEF NotFound
    <3>3. \A d \in Deployments : <<d, id[c]>> \in rows => id[c] <= issued[d]
      BY DEF DecisionInv, RowsIssued
    <3>4. CASE pc[c] = "orgRow"
      BY <1>4, <3>1, <3>2, <3>3, <3>4 DEF Locate, Deployments
    <3>5. CASE pc[c] = "globalRow"
      <4>1. \/ <<"global", id[c]>> \in rows /\ target'[c] = AgentHome
            \/ target'[c] = target[c]
        BY <1>4, <3>1, <3>2, <3>5 DEF Locate
      <4>. QED BY <1>1, <3>3, <4>1, QueueAssumption DEF Deployments, Astray
    <3>6. CASE pc[c] \in {"ownProbe", "globalProbe"}
      BY <1>4, <3>1, <3>2, <3>6, QueueAssumption DEF Locate, Exists, Deployments
    <3>. QED BY <1>4, <3>4, <3>5, <3>6 DEF Locate
  <2>3. Decided(c)'
    BY <1>0, <1>1, <2>1, <2>2 DEF Decided, Astray
  <2>4. ASSUME NEW d \in Calls, NEW e \in Calls, Rivals(d, e)'
        PROVE  Astray(d)'
    BY <1>3, <2>1, <2>4 DEF Rivals, DecisionInv
  <2>5. ASSUME NEW d \in Calls, d # c PROVE Decided(d)'
    BY <1>1, <1>3, <2>5 DEF Decided, DecisionInv, Resolved
  <2>. QED BY <1>2, <2>3, <2>4, <2>5 DEF DecisionInv
<1>5. CASE ~Locate(c)
  <2>1. target' = target
    BY <1>5 DEF CallStep, Post, WithinScope, BeforeQueueFails, JoinQueue,
       ReadGrant, CheckUnresolved, Send, SendFails, Poll, PollGivesUp, Reread,
       Record
  <2>2. tx' = tx \/ (pc[c] = "send" /\ tx'[c] = "pending")
    BY <1>0, <1>5 DEF CallStep, Post, WithinScope, BeforeQueueFails, JoinQueue,
       ReadGrant, CheckUnresolved, Send, SendFails, Submits, Poll, PollGivesUp,
       Reread, Record, poolVars, CallsTyped
  <2>3. pc[c] = "send" => target[c] \in Deployments
    BY DEF TargetsInv, Located
  <2>4. Decided(c)'
    BY <1>0, <1>1, <2>1, <2>2, <2>3 DEF Decided, Astray, Resolved, Where
  <2>5. ASSUME NEW d \in Calls, NEW e \in Calls, Rivals(d, e)'
        PROVE  Astray(d)'
    <3>1. tx[d] = "mined" /\ tx[e] = "mined"
      BY <1>3, <2>2, <2>5 DEF Rivals
    <3>. QED BY <1>1, <2>1, <2>5, <3>1 DEF Rivals, DecisionInv, Astray, Where
  <2>6. ASSUME NEW d \in Calls, d # c PROVE Decided(d)'
    BY <1>1, <1>3, <2>6 DEF Decided, DecisionInv, Resolved
  <2>. QED BY <1>2, <2>4, <2>5, <2>6 DEF DecisionInv
<1>. QED BY <1>4, <1>5

\* The chain mines a decision only of a request that is still open.
LEMMA MineDecides ==
  ASSUME CallsAccounted, TargetsInv, DecisionInv, NEW c \in Calls, Mine(c)
  PROVE  DecisionInv'
<1>1. UNCHANGED <<issued, rows, target, id>> /\ tx[c] = "pending"
  BY DEF Mine, IsNext, dbVars, bodyVars
<1>2. Decided(c) /\ tx \in [Calls -> TxStates] /\ DOMAIN status = Requests
      /\ target[c] \in Deployments /\ id[c] \in Ids
  BY <1>1 DEF DecisionInv, CallsAccounted, CallsTyped, Decided, ChainTyped
<1>3. CASE tx' = [tx EXCEPT ![c] = "reverted"] /\ status' = status
  <2>1. ChainTyped' /\ RowsIssued'
    BY <1>1, <1>3 DEF DecisionInv, ChainTyped, RowsIssued
  <2>2. \A d \in Calls : /\ tx'[d] = "mined" => tx[d] = "mined"
                         /\ tx'[d] # "none" => tx[d] # "none"
    BY <1>1, <1>2, <1>3
  <2>3. \A d \in Deployments : issued[d] <= issued'[d]
    BY <1>1 DEF DecisionInv, ChainTyped
  <2>. QED BY <1>1, <1>3, <2>1, <2>2, <2>3, DecisionsStay
<1>4. CASE /\ tx' = [tx EXCEPT ![c] = "mined"] /\ ~Resolved(Where(c))
           /\ status' = [status EXCEPT ![Where(c)] = Verdict(c)]
  <2>1. ChainTyped' /\ RowsIssued' /\ id' \in [Calls -> Ids]
    BY <1>1, <1>4 DEF DecisionInv, ChainTyped, RowsIssued
  <2>2. Where(c) \in Requests /\ Verdict(c) \in {"approved", "rejected"}
    BY <1>2 DEF Where, Requests, Verdict
  <2>3. \A r \in Requests : Resolved(r) => Resolved(r)'
    BY <1>2, <1>4, <2>2 DEF Resolved
  <2>4. Resolved(Where(c))'
    BY <1>1, <1>2, <1>4, <2>2 DEF Resolved, Where
  <2>5. ASSUME NEW d \in Calls PROVE Decided(d)'
    <3>1. Decided(d) /\ id[d] \in Ids
      BY DEF DecisionInv
    <3>2. CASE d = c
      BY <1>1, <1>2, <2>4, <3>2 DEF Decided, Astray
    <3>3. CASE d # c
      <4>1. tx'[d] = tx[d]
        BY <1>2, <1>4, <3>3
      <4>2. target[d] \in Deployments => Where(d) \in Requests
        BY <3>1 DEF Where, Requests
      <4>3. Resolved(Where(d)) /\ target[d] \in Deployments =>
              Resolved(Where(d))'
        BY <1>1, <2>3, <4>2 DEF Where, Resolved
      <4>. QED BY <1>1, <3>1, <4>1, <4>3 DEF Decided, Astray
    <3>. QED BY <3>2, <3>3
  <2>6. ASSUME NEW d \in Calls, tx[d] = "mined", Where(d) = Where(c)
        PROVE  Astray(d) /\ Astray(c)
    <3>1. Astray(d)
      BY <1>4, <2>6 DEF DecisionInv, Decided, Resolved
    <3>. QED BY <2>6, <3>1 DEF Astray, Where
  <2>7. ASSUME NEW d \in Calls, NEW e \in Calls, Rivals(d, e)'
        PROVE  Astray(d)'
    <3>1. d # e /\ Where(d) = Where(e)
      BY <1>1, <2>7 DEF Rivals, Where
    <3>2. /\ d # c => tx[d] = "mined"
          /\ e # c => tx[e] = "mined"
      BY <1>2, <1>4, <2>7 DEF Rivals
    <3>3. Astray(d)
      BY <2>6, <3>1, <3>2 DEF DecisionInv, Rivals
    <3>. QED BY <1>1, <3>3 DEF Astray
  <2>. QED BY <2>1, <2>5, <2>7 DEF DecisionInv
<1>. QED BY <1>3, <1>4 DEF Mine, Reverts

LEMMA NextDecides ==
  CallsAccounted /\ TargetsInv /\ DecisionInv /\ [Next]_vars => DecisionInv'
<1>. SUFFICES ASSUME CallsAccounted, TargetsInv, DecisionInv, [Next]_vars
              PROVE  DecisionInv'
  OBVIOUS
<1>. USE DEF callFrame, chainVars, bodyVars, poolVars, dbVars
<1>0. ChainTyped' /\ \A d \in Deployments : issued[d] \in Nat
  BY ChainStaysTyped DEF DecisionInv, ChainTyped
<1>1. ASSUME UNCHANGED <<status, issued, rows, target, id>>,
             \A c \in Calls : \/ tx'[c] = tx[c]
                              \/ tx[c] = "pending" /\ tx'[c] = "reverted"
      PROVE  DecisionInv'
  <2>1. RowsIssued'
    BY <1>1 DEF DecisionInv, RowsIssued
  <2>2. \A d \in Deployments : issued[d] <= issued'[d]
    BY <1>0, <1>1
  <2>3. \A c \in Calls : /\ tx'[c] = "mined" => tx[c] = "mined"
                         /\ tx'[c] # "none" => tx[c] # "none"
    BY <1>1
  <2>. QED BY <1>0, <1>1, <2>1, <2>2, <2>3, DecisionsStay
<1>2. CASE Freeze \/ Restart \/ UNCHANGED vars \/ \E w \in Wallets : Revoke(w)
  <2>1. UNCHANGED <<status, issued, rows, target, id, tx>>
    BY <1>2 DEF Freeze, Restart, Revoke, vars
  <2>2. tx' = tx
    BY <2>1
  <2>3. \A c \in Calls : tx'[c] = tx[c]
    BY <2>2
  <2>. QED BY <1>1, <2>1, <2>3
<1>3. ASSUME NEW c \in Calls, Cancelled(c) PROVE DecisionInv'
  <2>1. /\ UNCHANGED <<status, issued, rows, target, id>> /\ tx[c] = "pending"
        /\ tx' = [tx EXCEPT ![c] = "reverted"]
    BY <1>3 DEF Cancelled
  <2>2. tx \in [Calls -> TxStates]
    BY DEF CallsAccounted, CallsTyped
  <2>3. tx[c] = "pending" /\ tx' = [tx EXCEPT ![c] = "reverted"]
    BY <2>1
  <2>4. \A d \in Calls : \/ tx'[d] = tx[d]
                         \/ tx[d] = "pending" /\ tx'[d] = "reverted"
    BY <2>2, <2>3
  <2>. QED BY <1>1, <2>1, <2>4
<1>4. ASSUME NEW d \in Deployments, Escalate(d) PROVE DecisionInv'
  <2>1. /\ UNCHANGED <<rows, target, id, tx>>
        /\ issued' = [issued EXCEPT ![d] = @ + 1]
        /\ status' = [status EXCEPT ![<<d, issued[d] + 1>>] = "open"]
        /\ DOMAIN issued = Deployments /\ DOMAIN status = Requests
    BY <1>4 DEF Escalate, DecisionInv, ChainTyped
  <2>2. \A e \in Deployments : issued[e] <= issued'[e]
    BY <1>0, <2>1
  <2>3. RowsIssued'
    <3>1. \A r \in rows : /\ r[1] \in Deployments /\ r[2] \in Nat
                          /\ r[2] <= issued[r[1]]
      BY QueueAssumption DEF DecisionInv, RowsIssued, Requests, Ids
    <3>2. \A r \in rows : issued'[r[1]] \in Nat
      BY <1>0, <3>1 DEF ChainTyped
    <3>3. \A r \in rows : r[2] <= issued'[r[1]]
      BY <1>0, <2>2, <3>1, <3>2
    <3>. QED BY <2>1, <3>3 DEF DecisionInv, RowsIssued
  <2>4. \A r \in Requests : r[2] <= issued[r[1]] => status'[r] = status[r]
    <3>1. ASSUME NEW r \in Requests, r[2] <= issued[r[1]]
          PROVE  r # <<d, issued[d] + 1>>
      BY <1>0, <3>1
    <3>. QED BY <2>1, <3>1
  <2>. QED BY <1>0, <2>1, <2>2, <2>3, <2>4, DecisionsStay
<1>5. ASSUME NEW r \in Requests, IndexRequest(r) PROVE DecisionInv'
  <2>1. RowsIssued' /\ rows \subseteq rows'
    BY <1>5 DEF IndexRequest, DecisionInv, RowsIssued
  <2>2. \A d \in Deployments : issued[d] <= issued'[d]
    BY <1>0, <1>5 DEF IndexRequest
  <2>. QED BY <1>0, <1>5, <2>1, <2>2, DecisionsStay DEF IndexRequest
<1>6. ASSUME NEW c \in Calls, CallStep(c) PROVE DecisionInv'
  BY <1>6, StepDecides
<1>7. ASSUME NEW c \in Calls, Mine(c) PROVE DecisionInv'
  BY <1>7, MineDecides
<1>. QED BY <1>2, <1>3, <1>4, <1>5, <1>6, <1>7 DEF Next

\* Two people with Circle wallets are never both told that their decision of
\* one request took effect, but for a number rejected before it was issued,
\* where a row of the global deployment has led (approvals.ts:114).
THEOREM DecisionsReportedOnce == Spec => []OneDecisionReported
<1>1. Init => DecisionInv
  BY StatusTyped DEF Init, DecisionInv, ChainTyped, RowsIssued, Decided, Rivals,
     Deployments, NoTarget, Requests
<1>2. CallsAccounted /\ DecisionInv => OneDecisionReported
  <2>. SUFFICES ASSUME CallsAccounted, DecisionInv,
                       NEW c \in Calls, NEW d \in Calls, c # d,
                       c \in operatorActions, d \in operatorActions,
                       Where(c) = Where(d), UsesCircle(c), UsesCircle(d)
                PROVE  Astray(c)
    BY DEF OneDecisionReported, Astray
  <2>1. tx[c] = "mined" /\ tx[d] = "mined"
    BY DEF CallsAccounted, Account
  <2>. QED BY <2>1 DEF DecisionInv, Rivals
<1>. QED BY <1>1, <1>2, NextDecides, AlwaysAccounted, AlwaysLocated, PTL
         DEF Spec

-----------------------------------------------------------------------------
\* A call whose request the caller's queue listed is located by a row, never by
\* a probe of a contract, and stops at the ceiling if it is above it.
ListedCall(c) ==
    /\ pc[c] \in Locating \union {"idle"} => target[c] = NoTarget
    /\ c \in shown =>
         /\ <<HomeOf[c], id[c]>> \in rows
         /\ target[c] \in {NoTarget, Destination(c)}
         /\ pc[c] \notin {"ownProbe", "globalProbe"}
         /\ pc[c] = "globalRow" => HomeOf[c] = "global"
         /\ pc[c] = "scope" => target[c] = Destination(c)
         /\ /\ c \in Capped /\ <<HomeOf[c], id[c]>> \in Large
            /\ Destination(c) = HomeOf[c]
            =>
              /\ pc[c] \in Locating \union Over \union {"idle", "scope"}
              /\ tx[c] = "none"

ListedInv == shown \subseteq Calls /\ \A c \in Calls : ListedCall(c)

\* A step that changes nothing of a call but what is indexed, or ends it.
LEMMA ListedStays ==
  ASSUME NEW c \in Calls, ListedCall(c), rows \subseteq rows',
         UNCHANGED <<target[c], id[c]>>, c \in shown' <=> c \in shown,
         pc'[c] = pc[c] \/ pc'[c] \in Over,
         tx[c] = "none" => tx'[c] = "none"
  PROVE  ListedCall(c)'
BY DEF ListedCall, Locating, Over

LEMMA StepListed ==
  ASSUME CallsAccounted, TargetsInv, ListedInv,
         NEW c \in Calls, CallStep(c)
  PROVE  ListedInv'
<1>. USE DEF callFrame, bodyVars, poolVars, chainVars
<1>0. /\ CallsTyped /\ Account(c) /\ ListedCall(c)
      /\ rows' = rows /\ id' = id
  BY DEF CallsAccounted, ListedInv, CallStep, Post, Locate, WithinScope,
     BeforeQueueFails, JoinQueue, ReadGrant, CheckUnresolved, Send, SendFails,
     Poll, PollGivesUp, Reread, Record
<1>1. ASSUME NEW d \in Calls, d # c PROVE ListedCall(d)'
  BY <1>0, <1>1, OthersWait, ListedStays DEF ListedInv
<1>2. shown' \subseteq Calls
  BY DEF ListedInv, CallStep, Post, Locate, WithinScope, BeforeQueueFails,
     JoinQueue, ReadGrant, CheckUnresolved, Send, SendFails, Poll, PollGivesUp,
     Reread, Record
<1>3. CASE Post(c)
  <2>1. /\ pc[c] = "idle" /\ pc'[c] = "orgRow" /\ target' = target /\ tx' = tx
        /\ c \in shown' => c \in shown \/ <<HomeOf[c], id[c]>> \in rows
    BY <1>0, <1>3 DEF Post, Goes, CallsTyped
  <2>2. target[c] = NoTarget /\ tx[c] = "none"
    BY <1>0, <2>1 DEF ListedCall, Account, Unsent
  <2>3. ListedCall(c)'
    BY <1>0, <2>1, <2>2 DEF ListedCall, Locating
  <2>. QED BY <1>1, <1>2, <2>3 DEF ListedInv
<1>4. CASE Locate(c)
  <2>1. /\ pc[c] \in Locating /\ tx' = tx /\ shown' = shown
        /\ target[c] = NoTarget /\ tx[c] = "none"
    BY <1>0, <1>4 DEF Locate, Locating, ListedCall, Account, Unsent
  <2>2. \A code, d :
          /\ Goes(c, code) => pc'[c] = code
          /\ Answers(c, code) => pc'[c] = "answered"
          /\ Found(c, d) => pc'[c] = "scope" /\ target'[c] = d
          /\ NotFound(c, code) =>
               /\ target'[c] = NoTarget
               /\ pc'[c] = IF code = "404" THEN "answered" ELSE code
    BY <1>0, <2>1 DEF CallsTyped, TargetsInv, Goes, Answers, Found, NotFound
  <2>3. ASSUME c \in shown PROVE <<HomeOf[c], id[c]>> \in rows
    BY <1>0, <2>3 DEF ListedCall
  <2>4. CASE pc[c] = "orgRow"
    <3>1. \/ /\ pc'[c] = "scope" /\ target'[c] = "org" /\ HomeOf[c] = "org"
          \/ /\ pc'[c] = "globalRow" /\ target'[c] = NoTarget
             /\ ~(HomeOf[c] = "org" /\ <<"org", id[c]>> \in rows)
      BY <1>4, <2>2, <2>4 DEF Locate
    <3>2. HomeOf[c] \in {"org", "global"}
      BY QueueAssumption DEF Deployments
    <3>3. ListedCall(c)'
      BY <1>0, <2>1, <2>3, <3>1, <3>2 DEF ListedCall, Locating, Destination
    <3>. QED BY <1>1, <1>2, <3>3 DEF ListedInv
  <2>5. CASE pc[c] = "globalRow"
    <3>1. \/ pc'[c] = "scope" /\ target'[c] = AgentHome
          \/ /\ pc'[c] = "ownProbe" /\ target'[c] = NoTarget
             /\ <<"global", id[c]>> \notin rows
      BY <1>4, <2>2, <2>5 DEF Locate
    <3>2. c \in shown => HomeOf[c] = "global"
      BY <1>0, <2>5 DEF ListedCall
    <3>3. ListedCall(c)'
      BY <1>0, <2>1, <2>3, <3>1, <3>2 DEF ListedCall, Locating, Destination
    <3>. QED BY <1>1, <1>2, <3>3 DEF ListedInv
  <2>6. CASE pc[c] \in {"ownProbe", "globalProbe"}
    <3>1. c \notin shown
      BY <1>0, <2>6 DEF ListedCall
    <3>2. pc'[c] \in Locating => target'[c] = NoTarget
      BY <1>4, <2>2, <2>6 DEF Locate, Locating
    <3>3. pc'[c] # "idle"
      BY <1>4, <2>2, <2>6 DEF Locate
    <3>4. ListedCall(c)'
      BY <2>1, <3>1, <3>2, <3>3 DEF ListedCall
    <3>. QED BY <1>1, <1>2, <3>4 DEF ListedInv
  <2>. QED BY <1>4, <2>4, <2>5, <2>6 DEF Locate
<1>5. CASE WithinScope(c)
  <2>1. /\ pc[c] = "scope" /\ target' = target /\ shown' = shown /\ tx' = tx
        /\ \/ pc'[c] = "answered"
           \/ pc'[c] = "join" /\ ~AboveCeiling(c)
    BY <1>0, <1>5 DEF WithinScope, Goes, Answers, CallsTyped
  <2>2. c \in shown => /\ target[c] = Destination(c)
                       /\ <<HomeOf[c], id[c]>> \in rows
    BY <1>0, <2>1 DEF ListedCall
  <2>3. c \in shown /\ pc'[c] = "join" /\ Destination(c) = HomeOf[c] =>
          ~(c \in Capped /\ <<HomeOf[c], id[c]>> \in Large)
    BY <2>1, <2>2 DEF AboveCeiling, Where
  <2>4. ListedCall(c)'
    BY <1>0, <2>1, <2>2, <2>3 DEF ListedCall, Locating, Over
  <2>. QED BY <1>1, <1>2, <2>4 DEF ListedInv
<1>6. CASE BeforeQueueFails(c)
  <2>1. /\ pc'[c] \in Over /\ UNCHANGED <<target, shown, tx>>
    BY <1>0, <1>6 DEF BeforeQueueFails, Answers, Goes, CallsTyped, Over
  <2>. QED BY <1>0, <1>1, <1>2, <2>1, ListedStays DEF ListedInv
<1>. DEFINE Queued == {"join", "grant", "check", "send", "poll", "record"}
                        \union Rereading
            Later == Queued \union {"answered"}
<1>7. CASE pc[c] \in Queued /\ pc'[c] \in Later /\ UNCHANGED <<target, shown>>
  <2>1. c \in shown /\ Destination(c) = HomeOf[c] =>
          ~(c \in Capped /\ <<HomeOf[c], id[c]>> \in Large)
    BY <1>0, <1>7 DEF ListedCall, Locating, Over, Rereading
  <2>2. /\ pc'[c] \notin Locating \union {"idle", "scope"}
        /\ pc'[c] \notin {"ownProbe", "globalProbe", "globalRow"}
    BY <1>7 DEF Locating, Rereading
  <2>3. ListedCall(c)'
    BY <1>0, <1>7, <2>1, <2>2 DEF ListedCall
  <2>. QED BY <1>1, <1>2, <2>3 DEF ListedInv
<1>8. CASE JoinQueue(c) \/ ReadGrant(c) \/ CheckUnresolved(c)
  <2>1. pc[c] \in Queued /\ pc'[c] \in Later /\ UNCHANGED <<target, shown>>
    BY <1>0, <1>8 DEF JoinQueue, ReadGrant, CheckUnresolved, FailsAlarmed, Goes,
       Answers, CallsTyped, Rereading
  <2>. QED BY <1>7, <2>1
<1>9. CASE Send(c) \/ SendFails(c) \/ Poll(c) \/ PollGivesUp(c)
  <2>1. pc[c] \in Queued /\ pc'[c] \in Later /\ UNCHANGED <<target, shown>>
    BY <1>0, <1>9 DEF Send, SendFails, Poll, PollGivesUp, FailsAlarmed, Goes,
       CallsTyped, Rereading
  <2>. QED BY <1>7, <2>1
<1>10. CASE Reread(c) \/ Record(c)
  <2>1. pc[c] \in Queued /\ pc'[c] \in Later /\ UNCHANGED <<target, shown>>
    BY <1>0, <1>10 DEF Reread, Record, Answers, Goes, CallsTyped, Rereading
  <2>. QED BY <1>7, <2>1
<1>. QED BY <1>3, <1>4, <1>5, <1>6, <1>8, <1>9, <1>10 DEF CallStep

LEMMA NextListed ==
  ASSUME CallsAccounted, TargetsInv, ListedInv,
         [Next]_vars
  PROVE  ListedInv'
<1>. USE DEF callFrame, bodyVars, poolVars, dbVars
<1>1. CASE rows \subseteq rows' /\ UNCHANGED <<target, id, shown, pc, tx>>
  BY <1>1, ListedStays DEF ListedInv
<1>2. CASE \/ Freeze \/ UNCHANGED vars
           \/ \E d \in Deployments : Escalate(d)
           \/ \E r \in Requests : IndexRequest(r)
           \/ \E w \in Wallets : Revoke(w)
  BY <1>1, <1>2 DEF Freeze, Escalate, IndexRequest, Revoke, vars
<1>3. ASSUME NEW c \in Calls, CallStep(c) PROVE ListedInv'
  BY <1>3, StepListed
<1>4. ASSUME NEW c \in Calls, Mine(c) \/ Cancelled(c) PROVE ListedInv'
  <2>1. /\ UNCHANGED <<rows, target, id, shown, pc>> /\ tx[c] = "pending"
        /\ \/ tx' = [tx EXCEPT ![c] = "mined"]
           \/ tx' = [tx EXCEPT ![c] = "reverted"]
    BY <1>4 DEF Mine, IsNext, Cancelled
  <2>2. \A d \in Calls : tx[d] = "none" => tx'[d] = "none"
    BY <2>1 DEF CallsAccounted, CallsTyped
  <2>. QED BY <2>1, <2>2, ListedStays DEF ListedInv
<1>5. CASE Restart
  <2>1. /\ UNCHANGED <<rows, target, id, shown, tx>>
        /\ \A d \in Calls : pc'[d] = pc[d] \/ pc'[d] \in Over
    BY <1>5 DEF Restart, CallsAccounted, CallsTyped, Over, chainVars
  <2>. QED BY <2>1, ListedStays DEF ListedInv
<1>. QED BY <1>2, <1>3, <1>4, <1>5 DEF Next

\* A decision on a request its caller's queue listed is sent where the row
\* leads, wherever the agents' organisation is, and no request above the
\* credential's ceiling is decided in the contract that holds it.
THEOREM ListedCallsLand == Spec => []ListedCallsArrive
<1>1. Init => ListedInv
  BY DEF Init, ListedInv, ListedCall
<1>2. ListedInv => ListedCallsArrive
  BY DEF ListedInv, ListedCall, ListedCallsArrive
<1>3. CallsAccounted /\ TargetsInv /\ ListedInv /\ [Next]_vars => ListedInv'
  BY NextListed
<1>. QED BY <1>1, <1>2, <1>3, AlwaysAccounted, AlwaysLocated, PTL DEF Spec
==============================================================================
