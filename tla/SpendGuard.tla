----------------------------- MODULE SpendGuard -----------------------------
(***************************************************************************)
(* contracts/src/SpendGuard.sol over PolicyRegistry, AuditLog and USDC:    *)
(* the gate every agent payment passes through.  One action is one         *)
(* transaction: every call it makes into the registry, the token and the   *)
(* audit log is part of it, and a transaction in which a require fails is  *)
(* a step not taken.                                                       *)
(*                                                                         *)
(* funds is what an agent's balance and allowance let the guard pull.  The *)
(* audit log is kept as what its entries add up to per agent: the USDC its *)
(* "approved" and "approved-after-escalation" entries report, and the      *)
(* "escalated" entries no "...-after-escalation" entry answers yet.        *)
(***************************************************************************)
EXTENDS PolicyRegistry, Integers

CONSTANTS
    ZeroAddress,   \* agent and counterparty of a request never issued
    Amounts,       \* payment amounts the agents ask for
    Funding,       \* what each agent lets the guard pull at the start
    MaxRequests,   \* bound: escalated requests in a behaviour
    MaxBlocked     \* bound: blocked entries in the audit log

ASSUME GuardAssumption ==
    /\ ZeroAddress \notin Agents \cup Counterparties
    /\ Amounts \subseteq Nat
    /\ Funding \in Nat
    /\ MaxRequests \in Nat
    /\ MaxBlocked \in Nat

VARIABLES
    paused,
    pending,         \* the PendingRequest of every id
    nextRequestId,
    funds,           \* USDC the guard can still pull from an agent
    audit,           \* per agent: paid (USDC), queued (escalated, unanswered)
    blockedEntries,  \* "blocked: ..." entries of the audit log
    movedToday,      \* history: USDC that left the agent since midnight
    movedTotal,      \* history: USDC that left all agents since midnight
    reservedOn,      \* history: the day a request's reservation was made
    fate             \* history: what became of a request

guardVars == <<paused, pending, nextRequestId, funds, audit, blockedEntries>>
historyVars == <<movedToday, movedTotal, reservedOn, fate>>
vars == <<registryVars, guardVars, historyVars>>

RequestIds == 1..MaxRequests
PendingRequest == [agent: Agents \cup {ZeroAddress},
                   counterparty: Counterparties \cup {ZeroAddress},
                   amount: Nat, resolved: BOOLEAN]
Unissued == [agent |-> ZeroAddress, counterparty |-> ZeroAddress,
             amount |-> 0, resolved |-> FALSE]

Init ==
    /\ RegistryInit
    /\ paused = FALSE
    /\ pending = [id \in RequestIds |-> Unissued]
    /\ nextRequestId = 0
    /\ funds = [a \in Agents |-> Funding]
    /\ audit = [a \in Agents |-> [paid |-> 0, queued |-> 0]]
    /\ blockedEntries = 0
    /\ movedToday = [a \in Agents |-> 0]
    /\ movedTotal = 0
    /\ reservedOn = [id \in RequestIds |-> 0]
    /\ fate = [id \in RequestIds |-> "unissued"]

-----------------------------------------------------------------------------
SetPaused(value) ==
    /\ paused' = value
    /\ UNCHANGED <<registryVars, pending, nextRequestId, funds, audit,
                   blockedEntries, historyVars>>

\* What checkPolicy answers agent a now.
PolicyAllows(a, c, amount) ==
    Allowed(policies[a], <<a, c>> \in allowlist, meter[a], global,
            globalDailyCap, amount, Today)

\* Mutant: the money is pulled from another wallet than the agent's.
SettleFromElsewhere(a, amount) ==
    /\ movedTotal' = movedTotal + amount
    /\ UNCHANGED <<funds, movedToday>>

\* _settle: transferFrom moves the money or reverts everything.
Settle(a, amount) ==
    /\ funds[a] >= amount
    /\ funds' = [funds EXCEPT ![a] = @ - amount]
    /\ movedToday' = [movedToday EXCEPT ![a] = @ + amount]
    /\ movedTotal' = movedTotal + amount

\* Mutant: the flag is tested but never set.
StillOpen(r) == r

\* r.resolved = true
Resolved(r) == [r EXCEPT !.resolved = TRUE]

RegistryCapsUnchanged ==
    UNCHANGED <<now, policies, pendingPolicy, allowlist, globalDailyCap,
                announcedAt>>

\* requestPayment, refused by checkPolicy: an audit entry and nothing else.
RequestBlocked(a, c, amount) ==
    /\ ~paused
    /\ ~PolicyAllows(a, c, amount)
    /\ blockedEntries < MaxBlocked
    /\ blockedEntries' = blockedEntries + 1
    /\ UNCHANGED <<registryVars, paused, pending, nextRequestId, funds, audit,
                   historyVars>>

\* requestPayment above the threshold: reserve, queue, audit.
RequestEscalated(a, c, amount) ==
    LET id == nextRequestId + 1 IN
    /\ ~paused
    /\ PolicyAllows(a, c, amount)
    /\ NeedsApproval(policies[a], amount)
    /\ nextRequestId < MaxRequests
    /\ CanReserve(policies[a], meter[a], global, globalDailyCap, amount, Today)
    /\ nextRequestId' = id
    /\ meter' = [meter EXCEPT ![a] = ReserveMeter(@, amount, Today)]
    /\ global' = ReserveGlobal(global, amount, Today)
    /\ pending' = [pending EXCEPT ![id] =
           [agent |-> a, counterparty |-> c, amount |-> amount,
            resolved |-> FALSE]]
    /\ audit' = [audit EXCEPT ![a].queued = @ + 1]
    /\ reservedOn' = [reservedOn EXCEPT ![id] = Today]
    /\ fate' = [fate EXCEPT ![id] = "open"]
    /\ RegistryCapsUnchanged
    /\ UNCHANGED <<paused, funds, blockedEntries, movedToday, movedTotal>>

\* requestPayment within the threshold: recordSpend, settle, audit.
RequestPaid(a, c, amount) ==
    /\ ~paused
    /\ PolicyAllows(a, c, amount)
    /\ ~NeedsApproval(policies[a], amount)
    /\ CanSpend(policies[a], meter[a], global, globalDailyCap, amount, Today)
    /\ meter' = [meter EXCEPT ![a] = SpendMeter(@, amount, Today)]
    /\ global' = SpendGlobal(global, amount, Today)
    /\ Settle(a, amount)
    /\ audit' = [audit EXCEPT ![a].paid = @ + amount]
    /\ RegistryCapsUnchanged
    /\ UNCHANGED <<paused, pending, nextRequestId, blockedEntries, reservedOn,
                   fate>>

\* approvePending: release, recordSpend, settle, audit.  An id never issued
\* belongs to the zero address, which has no policy, so recordSpend reverts.
ApprovePending(id) ==
    LET r == pending[id]
        a == r.agent
        released == ReleaseMeter(meter[a], r.amount, Today)
        releasedGlobal == ReleaseGlobal(meter[a], global, r.amount, Today)
    IN
    /\ ~paused
    /\ ~r.resolved
    /\ a \in Agents
    /\ CanSpend(policies[a], released, releasedGlobal, globalDailyCap,
                r.amount, Today)
    /\ pending' = [pending EXCEPT ![id] = Resolved(@)]
    /\ meter' = [meter EXCEPT ![a] = SpendMeter(released, r.amount, Today)]
    /\ global' = SpendGlobal(releasedGlobal, r.amount, Today)
    /\ Settle(a, r.amount)
    /\ audit' = [audit EXCEPT ![a] = [paid |-> @.paid + r.amount,
                                      queued |-> @.queued - 1]]
    /\ fate' = [fate EXCEPT ![id] = "paid"]
    /\ RegistryCapsUnchanged
    /\ UNCHANGED <<paused, nextRequestId, blockedEntries, reservedOn>>

\* rejectPending of a queued request, paused or not: release, audit.
RejectPending(id) ==
    LET r == pending[id] IN
    /\ ~r.resolved
    /\ r.agent \in Agents
    /\ pending' = [pending EXCEPT ![id] = Resolved(@)]
    /\ meter' = [meter EXCEPT ![r.agent] = ReleaseMeter(@, r.amount, Today)]
    /\ global' = ReleaseGlobal(meter[r.agent], global, r.amount, Today)
    /\ audit' = [audit EXCEPT ![r.agent].queued = @ - 1]
    /\ fate' = [fate EXCEPT ![id] = "rejected"]
    /\ RegistryCapsUnchanged
    /\ UNCHANGED <<paused, nextRequestId, funds, blockedEntries, movedToday,
                   movedTotal, reservedOn>>

\* rejectPending of an id never issued: only the flag is set, since the zero
\* address has no policy to release and its audit entry is no agent's.
RejectUnissued(id) ==
    /\ ~pending[id].resolved
    /\ pending[id].agent = ZeroAddress
    /\ pending' = [pending EXCEPT ![id] = Resolved(@)]
    /\ UNCHANGED <<registryVars, paused, nextRequestId, funds, audit,
                   blockedEntries, historyVars>>

\* Time passes; at midnight the token-side history starts over.
Tick ==
    /\ now < MaxTime
    /\ now' = now + 1
    /\ LET midnight == now' \div DayLength # Today IN
       /\ movedToday' = IF midnight THEN [a \in Agents |-> 0] ELSE movedToday
       /\ movedTotal' = IF midnight THEN 0 ELSE movedTotal
    /\ UNCHANGED <<policies, meter, pendingPolicy, allowlist, globalDailyCap,
                   global, announcedAt, guardVars, reservedOn, fate>>

AdminTransaction == RegistryAdmin /\ UNCHANGED <<guardVars, historyVars>>

RequestPayment(a, c, amount) ==
    \/ RequestBlocked(a, c, amount)
    \/ RequestEscalated(a, c, amount)
    \/ RequestPaid(a, c, amount)

Next ==
    \/ AdminTransaction
    \/ \E value \in BOOLEAN : SetPaused(value)
    \/ \E a \in Agents, c \in Counterparties, amount \in Amounts :
         RequestPayment(a, c, amount)
    \/ \E id \in RequestIds :
         ApprovePending(id) \/ RejectPending(id) \/ RejectUnissued(id)
    \/ Tick

Spec == Init /\ [][Next]_vars

-----------------------------------------------------------------------------
(* Every variable keeps its type. *)
TypeOK ==
    /\ RegistryTypeOK
    /\ paused \in BOOLEAN
    /\ pending \in [RequestIds -> PendingRequest]
    /\ nextRequestId \in 0..MaxRequests
    /\ funds \in [Agents -> Nat]
    /\ audit \in [Agents -> [paid: Nat, queued: Int]]
    /\ blockedEntries \in Nat
    /\ movedToday \in [Agents -> Nat]
    /\ movedTotal \in Nat
    /\ reservedOn \in [RequestIds -> Nat]
    /\ fate \in [RequestIds -> {"unissued", "open", "paid", "rejected"}]
=============================================================================
