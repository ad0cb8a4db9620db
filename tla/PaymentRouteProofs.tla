-------------------------- MODULE PaymentRouteProofs --------------------------
(***************************************************************************)
(* What POST /payments promises of its answers and of the queue's rows     *)
(* holds for any number of calls, changes of the policy and faults.        *)
(***************************************************************************)
EXTENDS PaymentRouteProperties, TLAPS

Unsent == {"idle", "policy", "check", "event", "wallet", "grant", "send"}
Closed == {"answered", "dead"}
Errors == {"blocked", "404", "500", "503"}

\* The part of the type invariant the argument needs.
CallsTyped ==
    /\ verdict \in Verdicts
    /\ issued \in Nat
    /\ tx \in [Calls -> {"none", "pending", "mined", "failed"}]
    /\ outcome \in [Calls -> Outcomes]
    /\ request \in [Calls -> Nat]
    /\ pc \in [Calls -> Steps]
    /\ checked \in [Calls -> Verdicts]
    /\ named \in [Calls -> Nat \union {TooLarge}]
    /\ answer \in [Calls -> Answered \union {"none"}]

\* Only a mined transaction has an outcome, and only an escalation a request.
Settled(c) ==
    /\ tx[c] = "mined" <=> outcome[c] # "none"
    /\ outcome[c] = "escalated" => request[c] \in 1..issued
    /\ outcome[c] # "escalated" => request[c] = NoRequest

\* Nothing is sent before the call's turn, its receipt is read when the
\* transaction is mined, and a call no fault has hit and answered with an error
\* has sent nothing, or what failed or was blocked.
Account(c) ==
    /\ pc[c] \in Unsent => tx[c] = "none"
    /\ pc[c] \notin Closed => answer[c] = "none"
    /\ pc[c] = "dead" => answer[c] = "none"
    /\ pc[c] \in {"receipt", "row"} =>
         tx[c] = "mined" /\ checked[c] = "escalated"
    /\ pc[c] = "row" => named[c] = RequestIdIn(c)
    /\ answer[c] \in Errors =>
         \/ c \in hit
         \/ tx[c] \in {"none", "failed"}
         \/ outcome[c] = "blocked"

CallsAccounted == CallsTyped /\ \A c \in Calls : Settled(c) /\ Account(c)
PaymentInv == CallsAccounted /\ RowsNameRequests

callState == <<verdict, issued, tx, outcome, request, pc, checked, named,
               answer, hit>>

LEMMA InitAccounted == Init => PaymentInv
<1>. SUFFICES ASSUME Init PROVE PaymentInv
  OBVIOUS
<1>0. /\ verdict \in Verdicts /\ issued = 0 /\ rows = {}
      /\ tx = [c \in Calls |-> "none"] /\ outcome = [c \in Calls |-> "none"]
      /\ request = [c \in Calls |-> NoRequest]
      /\ named = [c \in Calls |-> NoRequest]
      /\ pc = [c \in Calls |-> "idle"] /\ answer = [c \in Calls |-> "none"]
      /\ checked = [c \in Calls |-> "no policy"]
  BY DEF Init
<1>1. CallsTyped
  BY <1>0 DEF CallsTyped, Verdicts, Outcomes, Steps, Answered, NoRequest
<1>2. ASSUME NEW c \in Calls PROVE Settled(c) /\ Account(c)
  BY <1>0 DEF Settled, Account, Unsent, Closed, Errors
<1>3. RowsNameRequests
  BY <1>0 DEF RowsNameRequests
<1>. QED BY <1>1, <1>2, <1>3 DEF PaymentInv, CallsAccounted

\* A step of call c leaves what the others owe, and the chain, alone.
LEMMA OthersAccounted ==
  ASSUME CallsAccounted, NEW c \in Calls, CallsTyped',
         Settled(c)', Account(c)', hit \subseteq hit', issued' = issued,
         outcome' = outcome, request' = request,
         \A d \in Calls \ {c} :
            /\ tx'[d] = tx[d] /\ pc'[d] = pc[d] /\ checked'[d] = checked[d]
            /\ named'[d] = named[d] /\ answer'[d] = answer[d]
  PROVE  CallsAccounted'
<1>1. SUFFICES ASSUME NEW d \in Calls, d # c
               PROVE  Settled(d)' /\ Account(d)'
  BY DEF CallsAccounted
<1>2. Settled(d) /\ Account(d)
  BY DEF CallsAccounted
<1>. QED BY <1>1, <1>2 DEF Settled, Account, RequestIdIn

LEMMA CallStepAccounted ==
  ASSUME CallsAccounted, NEW c \in Calls, CallStep(c)
  PROVE  CallsAccounted'
<1>. USE DEF callFrame, registryVars, poolVars, dbVars, fixedVars, bodyVars,
             NoFault, Fault, Goes, Answers
<1>0. CallsTyped /\ Settled(c) /\ Account(c)
  BY DEF CallsAccounted
<1>. DEFINE Others == \A d \in Calls \ {c} :
            /\ tx'[d] = tx[d] /\ pc'[d] = pc[d] /\ checked'[d] = checked[d]
            /\ named'[d] = named[d] /\ answer'[d] = answer[d]
<1>1. CASE Post(c)
  <2>1. CallsTyped' /\ Others
    BY <1>1, <1>0 DEF Post, CallsTyped, Steps
  <2>2. Settled(c)' /\ Account(c)'
    BY <1>1, <1>0 DEF Post, CallsTyped, Settled, Account, Unsent, Closed
  <2>. QED BY <1>1, <2>1, <2>2, OthersAccounted DEF Post
<1>2. CASE ReadPolicy(c)
  <2>1. CallsTyped' /\ Others
    BY <1>2, <1>0 DEF ReadPolicy, CallsTyped, Steps, Answered
  <2>2. Settled(c)' /\ Account(c)'
    BY <1>2, <1>0 DEF ReadPolicy, CallsTyped, Settled, Account, Unsent, Closed,
                      Errors
  <2>. QED BY <1>2, <2>1, <2>2, OthersAccounted DEF ReadPolicy
<1>3. CASE Check(c)
  <2>0. Came(verdict) \in Verdicts
    BY <1>0 DEF CallsTyped, Came, Verdicts
  <2>1. CallsTyped' /\ Others
    <3>1. CASE Answers(c, "500")
      BY <1>3, <3>1, <1>0 DEF Check, CallsTyped, Steps, Answered
    <3>2. CASE checked' = [checked EXCEPT ![c] = Came(verdict)]
               /\ UNCHANGED answer
      BY <1>3, <3>2, <2>0, <1>0 DEF Check, CallsTyped, Steps
    <3>. QED BY <1>3, <3>1, <3>2 DEF Check
  <2>2. Settled(c)' /\ Account(c)'
    BY <1>3, <1>0 DEF Check, CallsTyped, Settled, Account, Unsent, Closed,
       Errors
  <2>. QED BY <1>3, <2>1, <2>2, OthersAccounted DEF Check
<1>4. CASE WriteBlocked(c)
  <2>1. CallsTyped' /\ Others
    BY <1>4, <1>0 DEF WriteBlocked, CallsTyped, Steps, Answered
  <2>2. Settled(c)' /\ Account(c)'
    BY <1>4, <1>0 DEF WriteBlocked, CallsTyped, Settled, Account, Unsent,
       Closed, Errors
  <2>. QED BY <1>4, <2>1, <2>2, OthersAccounted DEF WriteBlocked
<1>5. CASE JoinQueue(c)
  <2>1. CallsTyped' /\ Others
    BY <1>5, <1>0 DEF JoinQueue, CallsTyped, Steps, Answered
  <2>2. Settled(c)' /\ Account(c)'
    BY <1>5, <1>0 DEF JoinQueue, CallsTyped, Settled, Account, Unsent, Closed,
                      Errors
  <2>. QED BY <1>5, <2>1, <2>2, OthersAccounted DEF JoinQueue
<1>6. CASE ReadGrant(c)
  <2>1. CallsTyped' /\ Others
    BY <1>6, <1>0 DEF ReadGrant, LeavesWith, CallsTyped, Steps, Answered
  <2>2. Settled(c)' /\ Account(c)'
    BY <1>6, <1>0 DEF ReadGrant, LeavesWith, CallsTyped, Settled, Account,
                      Unsent, Closed, Errors
  <2>. QED BY <1>6, <2>1, <2>2, OthersAccounted DEF ReadGrant
<1>7. CASE Send(c)
  <2>1. /\ \/ Submits(c) \/ UNCHANGED poolVars
        /\ \/ pc' = [pc EXCEPT ![c] = "poll"] /\ UNCHANGED <<answer, hit>>
           \/ /\ pc' = [pc EXCEPT ![c] = "answered"]
              /\ answer' = [answer EXCEPT ![c] = "503"]
              /\ hit' = hit \union {c}
        /\ UNCHANGED <<registryVars, checked, named>>
    BY <1>7 DEF Send, LeavesWith
  <2>2. CallsTyped' /\ Others
    BY <2>1, <1>0 DEF Submits, CallsTyped, Steps, Answered
  <2>3. pc[c] = "send"
    BY <1>7 DEF Send
  <2>4. Settled(c)' /\ Account(c)'
    <3>1. tx'[c] # "mined" /\ outcome'[c] = "none" /\ tx[c] = "none"
      BY <2>1, <2>3, <1>0 DEF Submits, CallsTyped, Settled, Account, Unsent
    <3>2. Settled(c)'
      BY <2>1, <3>1, <1>0 DEF Submits, Settled
    <3>3. Account(c)'
      BY <2>1, <2>3, <3>1, <1>0 DEF CallsTyped, Account, Unsent, Closed, Errors
    <3>. QED BY <3>2, <3>3
  <2>. QED BY <2>1, <2>2, <2>4, OthersAccounted DEF Submits
<1>8. CASE Poll(c)
  <2>1. CallsTyped' /\ Others
    BY <1>8, <1>0 DEF Poll, LeavesWith, CallsTyped, Steps, Answered
  <2>2. Settled(c)' /\ Account(c)'
    BY <1>8, <1>0 DEF Poll, LeavesWith, HasFailed, AfterSuccess, CallsTyped,
                      Settled, Account, Unsent, Closed, Errors
  <2>. QED BY <1>8, <2>1, <2>2, OthersAccounted DEF Poll
<1>9. CASE ReadReceipt(c)
  <2>1. CallsTyped' /\ Others
    BY <1>9, <1>0 DEF ReadReceipt, RequestIdIn, CallsTyped, Steps, Answered
  <2>2. Settled(c)' /\ Account(c)'
    BY <1>9, <1>0 DEF ReadReceipt, RequestIdIn, CallsTyped, Settled, Account,
                      Unsent, Closed, Errors
  <2>. QED BY <1>9, <2>1, <2>2, OthersAccounted DEF ReadReceipt
<1>10. CASE UpsertRequest(c)
  <2>1. CallsTyped' /\ Others
    BY <1>10, <1>0 DEF UpsertRequest, CallsTyped, Steps, Answered
  <2>2. Settled(c)' /\ Account(c)'
    BY <1>10, <1>0 DEF UpsertRequest, FitsColumn, RequestIdIn, TooLarge,
                       CallsTyped, Settled, Account, Unsent, Closed, Errors
  <2>. QED BY <1>10, <2>1, <2>2, OthersAccounted DEF UpsertRequest
<1>. QED BY <1>1, <1>2, <1>3, <1>4, <1>5, <1>6, <1>7, <1>8, <1>9, <1>10
         DEF CallStep

\* The chain: requests are issued one after another, and what a payment came to
\* stays.
LEMMA ChainAccounted ==
  ASSUME CallsAccounted, NEW c \in Calls, Mine(c) \/ Cancelled(c)
  PROVE  CallsAccounted' /\ issued <= issued'
<1>. USE DEF callVars, registryVars, dbVars, fixedVars, bodyVars
<1>0. CallsTyped /\ \A d \in Calls : Settled(d) /\ Account(d)
  BY DEF CallsAccounted
<1>1. CASE Cancelled(c)
  <2>1. CallsTyped'
    BY <1>1, <1>0 DEF Cancelled, CallsTyped
  <2>2. ASSUME NEW d \in Calls PROVE Settled(d)' /\ Account(d)'
    BY <1>1, <1>0 DEF Cancelled, CallsTyped, Settled, Account, RequestIdIn
  <2>. QED BY <1>1, <1>0, <2>1, <2>2 DEF CallsAccounted, Cancelled, CallsTyped
<1>2. CASE Mine(c) /\ frozen
  <2>1. CallsTyped' /\ issued' = issued
    BY <1>2, <1>0 DEF Mine, IsNext, CallsTyped
  <2>2. ASSUME NEW d \in Calls PROVE Settled(d)' /\ Account(d)'
    BY <1>2, <1>0 DEF Mine, IsNext, CallsTyped, Settled, Account, RequestIdIn
  <2>. QED BY <1>0, <2>1, <2>2 DEF CallsAccounted, CallsTyped
<1>3. CASE Mine(c) /\ ~frozen
  <2>0. /\ tx[c] = "pending"
        /\ tx' = [tx EXCEPT ![c] = "mined"]
        /\ outcome' = [outcome EXCEPT ![c] = Came(verdict)]
        /\ \/ /\ verdict = "escalated" /\ issued' = issued + 1
              /\ request' = [request EXCEPT ![c] = issued + 1]
           \/ verdict # "escalated" /\ UNCHANGED <<issued, request>>
        /\ UNCHANGED <<verdict, pc, checked, named, answer, hit>>
    BY <1>3 DEF Mine, IsNext
  <2>a. /\ Came(verdict) \in Outcomes \ {"none"}
        /\ Came(verdict) = "escalated" <=> verdict = "escalated"
    BY <1>0 DEF CallsTyped, Came, Verdicts, Outcomes
  <2>b. issued' \in Nat /\ issued <= issued' /\ request' \in [Calls -> Nat]
    BY <2>0, <1>0 DEF CallsTyped
  <2>1. CallsTyped' /\ issued <= issued'
    BY <2>0, <2>a, <2>b, <1>0 DEF CallsTyped
  <2>c. Settled(c) /\ Account(c) /\ CallsTyped
    BY <1>0
  <2>2. Settled(c)' /\ Account(c)'
    <3>1. outcome[c] = "none" /\ request[c] = NoRequest
      BY <2>0, <2>c DEF Settled
    <3>2. tx'[c] = "mined" /\ outcome'[c] = Came(verdict)
      BY <2>0, <2>c DEF CallsTyped
    <3>3. /\ verdict = "escalated" => request'[c] \in 1..issued'
          /\ verdict # "escalated" => request'[c] = NoRequest
      BY <2>0, <2>c, <3>1 DEF CallsTyped
    <3>4. Settled(c)'
      BY <2>a, <3>2, <3>3 DEF Settled
    <3>5. Account(c)'
      BY <2>0, <2>c, <3>1, <3>2 DEF Account, Unsent
    <3>. QED BY <3>4, <3>5
  <2>3. ASSUME NEW d \in Calls, d # c PROVE Settled(d)' /\ Account(d)'
    BY <2>0, <1>0, <2>1, <2>3 DEF CallsTyped, Settled, Account, RequestIdIn
  <2>. QED BY <2>1, <2>2, <2>3 DEF CallsAccounted
<1>. QED BY <1>1, <1>2, <1>3

LEMMA OtherStepsAccounted ==
  ASSUME CallsAccounted,
         \/ PolicyMoves \/ Administration \/ Restart
         \/ \E id \in 1..issued : IndexRequest(id)
         \/ UNCHANGED vars
  PROVE  CallsAccounted' /\ UNCHANGED <<issued, outcome, checked>>
<1>. USE DEF callFrame, callVars, registryVars, poolVars, dbVars, fixedVars,
             bodyVars
<1>0. CallsTyped /\ \A d \in Calls : Settled(d) /\ Account(d)
  BY DEF CallsAccounted
<1>1. CASE PolicyMoves \/ Administration
  <2>1. CallsTyped'
    BY <1>1, <1>0 DEF PolicyMoves, Administration, CallsTyped
  <2>. QED BY <1>1, <1>0, <2>1 DEF PolicyMoves, Administration, CallsAccounted,
                                  Settled, Account, RequestIdIn
<1>2. CASE Restart
  <2>1. CallsTyped'
    BY <1>2, <1>0 DEF Restart, CallsTyped, Steps
  <2>2. ASSUME NEW d \in Calls PROVE Settled(d)' /\ Account(d)'
    BY <1>2, <1>0 DEF Restart, InFlight, CallsTyped, Settled, Account,
                      RequestIdIn, Unsent, Closed, Errors
  <2>. QED BY <1>2, <2>1, <2>2 DEF CallsAccounted, Restart
<1>3. CASE \E id \in 1..issued : IndexRequest(id)
  BY <1>3, <1>0 DEF IndexRequest, CallsAccounted, CallsTyped, Settled, Account,
                    RequestIdIn
<1>4. CASE UNCHANGED vars
  BY <1>4, <1>0 DEF vars, CallsAccounted, CallsTyped, Settled, Account,
                    RequestIdIn
<1>. QED BY <1>1, <1>2, <1>3, <1>4

\* A row is added for a request the chain has issued, or by the call whose
\* payment was settled at once.
LEMMA RowsFollow ==
  ASSUME PaymentInv, [Next]_vars, CallsAccounted'
  PROVE  RowsNameRequests'
<1>. USE DEF callFrame, callVars, registryVars, poolVars, dbVars, fixedVars,
             bodyVars
<1>0. /\ CallsTyped /\ RowsNameRequests
      /\ \A d \in Calls : Settled(d) /\ Account(d)
  BY DEF PaymentInv, CallsAccounted
<1>. DEFINE Settles(d) == checked[d] = "escalated" /\ outcome[d] = "paid"
\* What a row may name stays so.
<1>1. ASSUME issued <= issued', issued' \in Nat,
             \A d \in Calls : Settles(d) => Settles(d)',
             NEW id \in rows
      PROVE  \/ id \in 1..issued'
             \/ id = NoRequest /\ \E d \in Calls : Settles(d)'
  BY <1>0, <1>1 DEF CallsTyped, RowsNameRequests
<1>2. ASSUME NEW c \in Calls, CallStep(c)
      PROVE  RowsNameRequests'
  <2>1. issued' = issued /\ outcome' = outcome
    BY <1>2 DEF CallStep, Post, ReadPolicy, Check, WriteBlocked, JoinQueue,
                ReadGrant, Send, Poll, ReadReceipt, UpsertRequest, Submits
  <2>2. \A d \in Calls : Settles(d) => Settles(d)'
    <3>1. CASE Check(c)
      <4>1. outcome[c] = "none"
        BY <3>1, <1>0 DEF Check, Account, Settled, Unsent, CallsTyped, Outcomes
      <4>. QED BY <3>1, <4>1, <2>1, <1>0 DEF Check, CallsTyped
    <3>2. CASE ~Check(c)
      <4>1. checked' = checked
        BY <1>2, <3>2 DEF CallStep, Post, ReadPolicy, WriteBlocked, JoinQueue,
                  ReadGrant, Send, Poll, ReadReceipt, UpsertRequest
      <4>. QED BY <4>1, <2>1
    <3>. QED BY <3>1, <3>2
  <2>3. issued <= issued' /\ issued' \in Nat
    BY <2>1, <1>0 DEF CallsTyped
  <2>4. CASE ~UpsertRequest(c)
    <3>1. rows' = rows
      BY <1>2, <2>4 DEF CallStep, Post, ReadPolicy, Check, WriteBlocked,
                JoinQueue, ReadGrant, Send, Poll, ReadReceipt
    <3>. QED BY <3>1, <2>2, <2>3, <1>1 DEF RowsNameRequests
  <2>5. CASE UpsertRequest(c)
    <3>1. /\ pc[c] = "row" /\ checked' = checked
          /\ \/ rows' = rows
             \/ rows' = rows \union {named[c]} /\ FitsColumn(named[c])
      BY <2>5 DEF UpsertRequest
    <3>2. FitsColumn(named[c]) =>
            named[c] \in 1..issued \/ (named[c] = NoRequest /\ Settles(c))
      <4>1. /\ tx[c] = "mined" /\ checked[c] = "escalated"
            /\ named[c] = RequestIdIn(c)
        BY <3>1, <1>0 DEF Account
      <4>2. outcome[c] \in {"blocked", "escalated", "paid"}
        BY <4>1, <1>0 DEF Settled, CallsTyped, Outcomes
      <4>. QED BY <4>1, <4>2, <1>0 DEF Settled, RequestIdIn, FitsColumn
    <3>3. FitsColumn(named[c]) =>
            named[c] \in 1..issued' \/ (named[c] = NoRequest /\ Settles(c)')
      BY <3>2, <3>1, <2>1
    <3>. QED BY <3>1, <3>3, <2>2, <2>3, <1>1 DEF RowsNameRequests
  <2>. QED BY <2>4, <2>5
<1>3. ASSUME NEW c \in Calls, Mine(c) \/ Cancelled(c)
      PROVE  RowsNameRequests'
  <2>1. issued <= issued'
    BY <1>3, ChainAccounted DEF PaymentInv
  <2>2. issued' \in Nat
    BY DEF CallsAccounted, CallsTyped
  <2>3. \A d \in Calls : Settles(d) => Settles(d)'
    BY <1>3, <1>0 DEF Mine, Cancelled, IsNext, Settled, CallsTyped
  <2>4. rows' = rows
    BY <1>3 DEF Mine, Cancelled
  <2>. QED BY <2>1, <2>2, <2>3, <2>4, <1>1 DEF RowsNameRequests
<1>4. ASSUME \/ PolicyMoves \/ Administration \/ Restart
             \/ \E id \in 1..issued : IndexRequest(id)
             \/ UNCHANGED vars
      PROVE  RowsNameRequests'
  <2>1. UNCHANGED <<issued, outcome, checked>>
    BY <1>4, OtherStepsAccounted DEF PaymentInv
  <2>2. rows' = rows \/ \E id \in 1..issued : rows' = rows \union {id}
    BY <1>4 DEF PolicyMoves, Administration, Restart, IndexRequest, vars
  <2>3. issued <= issued' /\ issued' \in Nat
    BY <2>1, <1>0 DEF CallsTyped
  <2>. QED BY <2>1, <2>2, <2>3, <1>1 DEF RowsNameRequests
<1>. QED BY <1>2, <1>3, <1>4 DEF Next

LEMMA PaymentInvariant == Spec => []PaymentInv
<1>1. ASSUME PaymentInv, [Next]_vars PROVE PaymentInv'
  <2>1. CallsAccounted'
    BY <1>1, CallStepAccounted, ChainAccounted, OtherStepsAccounted
       DEF PaymentInv, Next
  <2>. QED BY <1>1, <2>1, RowsFollow DEF PaymentInv
<1>. QED BY InitAccounted, <1>1, PTL DEF Spec

\* Every row of the queue names a request the guard has issued, or is the one
\* entry of payments that were to be approved and settled at once.
THEOREM RowsCorrect == Spec => []RowsNameRequests
BY PaymentInvariant, PTL DEF PaymentInv

\* A payment answered with an error or as blocked has moved nothing and raised
\* no request, unless a fault hit its call.
THEOREM ErrorsCorrect == Spec => []ErrorsMovedNothing
<1>1. PaymentInv => ErrorsMovedNothing
  BY DEF PaymentInv, CallsAccounted, CallsTyped, Settled, Account, Errors,
         ErrorsMovedNothing, Outcomes
<1>. QED BY <1>1, PaymentInvariant, PTL

-----------------------------------------------------------------------------
(* What the client is told                                                 *)

InHand == {"wallet", "grant", "send", "poll", "receipt", "row"}

TimesTyped ==
    /\ moves \in Nat
    /\ checkedAt \in [Calls -> Nat]
    /\ minedAt \in [Calls -> Nat]

\* While nothing has moved since the check, the verdict is still the one the
\* call has, and so is the outcome of its transaction.
Told(c) ==
    /\ checkedAt[c] <= moves
    /\ pc[c] \in InHand => checked[c] \in {"escalated", "paid"}
    /\ pc[c] \in InHand /\ checkedAt[c] = moves => checked[c] = Came(verdict)
    /\ pc[c] \in InHand /\ tx[c] = "mined" /\ minedAt[c] = checkedAt[c]
         => outcome[c] = checked[c]
    /\ answer[c] \in {"approved", "escalated"} => tx[c] = "mined"
    /\ answer[c] = "approved" =>
         outcome[c] = "paid" \/ minedAt[c] # checkedAt[c]
    /\ answer[c] = "escalated" =>
         \/ outcome[c] = "escalated" /\ named[c] = request[c]
         \/ outcome[c] = "paid" /\ minedAt[c] # checkedAt[c]

ToldInv == CallsAccounted /\ TimesTyped /\ \A c \in Calls : Told(c)

\* A call keeps what it was told while nothing of it and of the policy moves.
LEMMA TheRestIsTold ==
  ASSUME ToldInv, NEW d \in Calls,
         moves' = moves, verdict' = verdict, tx'[d] = tx[d], pc'[d] = pc[d],
         checked'[d] = checked[d], checkedAt'[d] = checkedAt[d],
         minedAt'[d] = minedAt[d], named'[d] = named[d],
         answer'[d] = answer[d], outcome'[d] = outcome[d],
         request'[d] = request[d]
  PROVE  Told(d)'
BY DEF ToldInv, Told, Came

LEMMA CallStepTold ==
  ASSUME ToldInv, NEW c \in Calls, CallStep(c)
  PROVE  TimesTyped' /\ \A d \in Calls : Told(d)'
<1>. USE DEF callFrame, registryVars, poolVars, dbVars, fixedVars, bodyVars,
             NoFault, Fault, Goes, Answers
<1>0. /\ CallsTyped /\ Settled(c) /\ Account(c) /\ Told(c) /\ TimesTyped
  BY DEF ToldInv, CallsAccounted
<1>. DEFINE Frame == /\ UNCHANGED <<moves, verdict, outcome, request>>
                     /\ \A d \in Calls \ {c} :
                          /\ tx'[d] = tx[d] /\ pc'[d] = pc[d]
                          /\ checked'[d] = checked[d]
                          /\ checkedAt'[d] = checkedAt[d]
                          /\ minedAt'[d] = minedAt[d]
                          /\ named'[d] = named[d] /\ answer'[d] = answer[d]
<1>a. SUFFICES TimesTyped' /\ Frame /\ Told(c)'
  BY TheRestIsTold
<1>b. TimesTyped' /\ Frame
  <2>1. CASE Check(c)
    BY <2>1, <1>0 DEF Check, CallsTyped, TimesTyped
  <2>2. CASE Send(c)
    <3>1. /\ \/ Submits(c) \/ UNCHANGED poolVars
          /\ \/ pc' = [pc EXCEPT ![c] = "poll"] /\ UNCHANGED answer
             \/ /\ pc' = [pc EXCEPT ![c] = "answered"]
                /\ answer' = [answer EXCEPT ![c] = "503"]
          /\ UNCHANGED <<registryVars, checked, checkedAt, named>>
      BY <2>2 DEF Send, LeavesWith
    <3>. QED BY <3>1, <1>0 DEF Submits, CallsTyped, TimesTyped
  <2>3. CASE Post(c) \/ ReadPolicy(c) \/ WriteBlocked(c) \/ JoinQueue(c)
    BY <2>3, <1>0 DEF Post, ReadPolicy, WriteBlocked, JoinQueue, CallsTyped,
                      TimesTyped
  <2>4. CASE ReadGrant(c) \/ Poll(c)
    BY <2>4, <1>0 DEF ReadGrant, Poll, LeavesWith, CallsTyped, TimesTyped
  <2>5. CASE ReadReceipt(c) \/ UpsertRequest(c)
    BY <2>5, <1>0 DEF ReadReceipt, UpsertRequest, CallsTyped, TimesTyped
  <2>. QED BY <2>1, <2>2, <2>3, <2>4, <2>5 DEF CallStep
<1>c. Told(c)'
  <2>0. pc[c] \notin Closed => answer[c] = "none"
    BY <1>0 DEF Account
  <2>1. CASE Post(c) \/ ReadPolicy(c) \/ WriteBlocked(c)
    BY <2>1, <2>0, <1>0 DEF Post, ReadPolicy, WriteBlocked, Closed, CallsTyped,
                            Told, InHand
  <2>2. CASE Check(c)
    <3>1. tx[c] = "none" /\ answer[c] = "none" /\ moves' = moves
          /\ verdict' = verdict /\ tx' = tx
      BY <2>2, <2>0, <1>0 DEF Check, Closed, Account, Unsent
    <3>2. CASE Answers(c, "500") /\ UNCHANGED <<checked, checkedAt>>
      BY <2>2, <3>1, <3>2, <1>0 DEF Check, CallsTyped, Told, InHand
    <3>3. CASE /\ checked' = [checked EXCEPT ![c] = Came(verdict)]
               /\ checkedAt' = [checkedAt EXCEPT ![c] = moves]
               /\ pc' = [pc EXCEPT ![c] = IF Came(verdict) = "blocked"
                                          THEN "event" ELSE "wallet"]
               /\ UNCHANGED answer
      <4>1. Came(verdict) \in {"blocked", "escalated", "paid"}
        BY <1>0 DEF CallsTyped, Came, Verdicts
      <4>2. checked'[c] = Came(verdict) /\ checkedAt'[c] = moves
            /\ answer'[c] = "none" /\ tx'[c] = "none"
            /\ (pc'[c] \in InHand => Came(verdict) # "blocked")
        BY <3>1, <3>3, <1>0 DEF CallsTyped, TimesTyped, InHand
      <4>3. Came(verdict)' = Came(verdict)
        BY <3>1 DEF Came
      <4>. QED BY <3>1, <4>1, <4>2, <4>3, <1>0 DEF Told, TimesTyped
    <3>. QED BY <2>2, <3>2, <3>3 DEF Check
  <2>3. CASE JoinQueue(c)
    BY <2>3, <2>0, <1>0 DEF JoinQueue, Closed, CallsTyped, Told, InHand, Came
  <2>4. CASE ReadGrant(c)
    BY <2>4, <2>0, <1>0 DEF ReadGrant, LeavesWith, Closed, CallsTyped, Told,
                            InHand, Came
  <2>5. CASE Send(c)
    <3>1. /\ pc[c] = "send" /\ tx[c] = "none" /\ answer[c] = "none"
          /\ tx'[c] # "mined" /\ answer'[c] \in {"none", "503"}
      BY <2>5, <2>0, <1>0 DEF Send, LeavesWith, Submits, Closed, Account,
         Unsent, CallsTyped
    <3>2. UNCHANGED <<registryVars, checked, checkedAt>>
      BY <2>5 DEF Send
    <3>. QED BY <3>1, <3>2, <1>0 DEF Told, InHand, Came
  <2>6. CASE Poll(c)
    <3>1. UNCHANGED <<registryVars, poolVars, checked, checkedAt, named>>
          /\ pc[c] = "poll" /\ answer[c] = "none"
      BY <2>6, <2>0 DEF Poll, Closed
    <3>2. \/ answer'[c] \in {"none", "503"}
          \/ answer'[c] = "approved" /\ tx[c] = "mined" /\ checked[c] # "escalated"
      BY <2>6, <3>1, <1>0 DEF Poll, LeavesWith, AfterSuccess, CallsTyped
    <3>. QED BY <3>1, <3>2, <1>0 DEF Told, InHand, Came
  <2>7. CASE ReadReceipt(c)
    BY <2>7, <2>0, <1>0 DEF ReadReceipt, Closed, CallsTyped, Told, InHand, Came
  <2>8. CASE UpsertRequest(c)
    <3>1. /\ UNCHANGED <<registryVars, poolVars, checked, checkedAt, named>>
          /\ pc[c] = "row" /\ answer[c] = "none" /\ pc'[c] = "answered"
          /\ \/ answer'[c] = "500"
             \/ answer'[c] = "escalated" /\ FitsColumn(named[c])
      BY <2>8, <2>0, <1>0 DEF UpsertRequest, Closed, CallsTyped
    <3>2. /\ tx[c] = "mined" /\ checked[c] = "escalated"
          /\ named[c] = RequestIdIn(c)
      BY <3>1, <1>0 DEF Account
    <3>3. outcome[c] \in {"blocked", "escalated", "paid"}
      BY <3>2, <1>0 DEF Settled, CallsTyped, Outcomes
    <3>4. FitsColumn(named[c]) => outcome[c] # "blocked" /\ named[c] = request[c]
      BY <3>2 DEF FitsColumn, RequestIdIn
    <3>. QED BY <3>1, <3>2, <3>3, <3>4, <1>0 DEF Told, InHand
  <2>. QED BY <2>1, <2>2, <2>3, <2>4, <2>5, <2>6, <2>7, <2>8 DEF CallStep
<1>. QED BY <1>b, <1>c

LEMMA ChainTold ==
  ASSUME ToldInv, NEW c \in Calls, Mine(c) \/ Cancelled(c)
  PROVE  TimesTyped' /\ \A d \in Calls : Told(d)'
<1>. USE DEF callVars, registryVars, dbVars, fixedVars, bodyVars
<1>0. /\ CallsTyped /\ Settled(c) /\ Account(c) /\ Told(c) /\ TimesTyped
  BY DEF ToldInv, CallsAccounted
<1>. DEFINE OnlyC == \A d \in Calls \ {c} :
            /\ tx'[d] = tx[d] /\ outcome'[d] = outcome[d]
            /\ request'[d] = request[d] /\ minedAt'[d] = minedAt[d]
<1>1. /\ tx[c] = "pending"
      /\ UNCHANGED <<moves, verdict, pc, checked, checkedAt, named, answer>>
  BY DEF Mine, Cancelled, IsNext
<1>2. /\ TimesTyped' /\ OnlyC
      /\ tx'[c] # "failed" => minedAt'[c] = moves /\ outcome'[c] = Came(verdict)
  <2>1. CASE Cancelled(c)
    <3>1. /\ UNCHANGED <<outcome, request, minedAt, moves, checkedAt>>
          /\ tx' = [tx EXCEPT ![c] = "failed"]
      BY <2>1 DEF Cancelled
    <3>. QED BY <3>1, <1>0 DEF CallsTyped, TimesTyped
  <2>2. CASE Mine(c) /\ frozen
    <3>1. /\ UNCHANGED <<outcome, request, moves, checkedAt>>
          /\ tx' = [tx EXCEPT ![c] = "failed"]
          /\ minedAt' = [minedAt EXCEPT ![c] = moves]
      BY <2>2 DEF Mine
    <3>. QED BY <3>1, <1>0 DEF CallsTyped, TimesTyped
  <2>3. CASE Mine(c) /\ ~frozen
    <3>1. /\ UNCHANGED <<moves, checkedAt>>
          /\ tx' = [tx EXCEPT ![c] = "mined"]
          /\ outcome' = [outcome EXCEPT ![c] = Came(verdict)]
          /\ minedAt' = [minedAt EXCEPT ![c] = moves]
          /\ request' \in {request, [request EXCEPT ![c] = issued + 1]}
      BY <2>3 DEF Mine
    <3>. QED BY <3>1, <1>0 DEF CallsTyped, TimesTyped
  <2>. QED BY <2>1, <2>2, <2>3
<1>3. Told(c)'
  <2>1. answer'[c] \notin {"approved", "escalated"}
    BY <1>0, <1>1 DEF Told
  <2>2. pc'[c] \in InHand /\ tx'[c] = "mined" /\ minedAt'[c] = checkedAt'[c]
          => outcome'[c] = checked'[c]
    BY <1>0, <1>1, <1>2 DEF Told
  <2>. QED BY <1>0, <1>1, <2>1, <2>2 DEF Told, Came
<1>4. ASSUME NEW d \in Calls, d # c PROVE Told(d)'
  BY <1>1, <1>2, <1>4, TheRestIsTold
<1>. QED BY <1>2, <1>3, <1>4

LEMMA OtherStepsTold ==
  ASSUME ToldInv,
         \/ PolicyMoves \/ Administration \/ Restart
         \/ \E id \in 1..issued : IndexRequest(id)
         \/ UNCHANGED vars
  PROVE  TimesTyped' /\ \A d \in Calls : Told(d)'
<1>. USE DEF callFrame, callVars, registryVars, poolVars, dbVars, fixedVars,
             bodyVars
<1>0. CallsTyped /\ TimesTyped /\ \A d \in Calls : Told(d)
  BY DEF ToldInv, CallsAccounted
<1>1. CASE PolicyMoves \/ Administration
  <2>1. /\ moves' = moves + 1
        /\ UNCHANGED <<tx, pc, checked, checkedAt, minedAt, named, answer,
                       outcome, request>>
    BY <1>1 DEF PolicyMoves, Administration
  <2>. QED BY <2>1, <1>0 DEF Told, TimesTyped
<1>2. CASE Restart
  <2>1. /\ UNCHANGED <<moves, verdict, tx, checked, checkedAt, minedAt, named,
                       answer, outcome, request>>
        /\ \A d \in Calls : pc'[d] \in {pc[d], "dead"}
    BY <1>2, <1>0 DEF Restart, CallsTyped
  <2>. QED BY <2>1, <1>0 DEF Told, TimesTyped, InHand, Came
<1>3. CASE (\E id \in 1..issued : IndexRequest(id)) \/ UNCHANGED vars
  BY <1>3, <1>0, TheRestIsTold DEF IndexRequest, vars, TimesTyped
<1>. QED BY <1>1, <1>2, <1>3

\* What a client is told of its payment is what came of it, unless the policy
\* moved between the check and the transaction.
THEOREM AnswersCorrect == Spec => []AnswersTellTheOutcome
<1>1. Init => ToldInv
  <2>1. Init => TimesTyped /\ \A c \in Calls : Told(c)
    <3>. SUFFICES ASSUME Init PROVE TimesTyped /\ \A c \in Calls : Told(c)
      OBVIOUS
    <3>1. /\ moves = 0 /\ checkedAt = [c \in Calls |-> 0]
          /\ minedAt = [c \in Calls |-> 0]
          /\ pc = [c \in Calls |-> "idle"] /\ answer = [c \in Calls |-> "none"]
      BY DEF Init
    <3>. QED BY <3>1 DEF TimesTyped, Told, InHand
  <2>. QED BY <2>1, InitAccounted DEF PaymentInv, ToldInv
<1>2. ASSUME ToldInv, [Next]_vars PROVE ToldInv'
  <2>1. CallsAccounted'
    BY <1>2, CallStepAccounted, ChainAccounted, OtherStepsAccounted
       DEF ToldInv, Next
  <2>2. TimesTyped' /\ \A d \in Calls : Told(d)'
    BY <1>2, CallStepTold, ChainTold, OtherStepsTold DEF Next
  <2>. QED BY <2>1, <2>2 DEF ToldInv
<1>3. ToldInv => AnswersTellTheOutcome
  BY DEF ToldInv, Told, AnswersTellTheOutcome
<1>. QED BY <1>1, <1>2, <1>3, PTL DEF Spec
=============================================================================
