----------------------------- MODULE DailyBudget -----------------------------
(***************************************************************************)
(* What the contracts promise, with none of their bookkeeping: a budget    *)
(* that starts afresh at midnight, for each agent and for all of them, and *)
(* large payments that move only once, on approval of the very request.    *)
(***************************************************************************)
EXTENDS Naturals

CONSTANTS Agents, RequestIds, Amounts

VARIABLES
    cap,          \* daily budget of each agent
    directLimit,  \* largest payment an agent makes without approval
    ceiling,      \* daily budget of all agents together
    moved,        \* moved today, per agent
    movedAll,     \* moved today, by all
    ask,          \* what a request asks for: agent and amount
    status        \* of a request: unissued, open, paid or rejected

limits == <<cap, directLimit, ceiling>>
requests == <<ask, status>>
vars == <<limits, moved, movedAll, requests>>

Init ==
    /\ cap \in [Agents -> Nat]
    /\ directLimit \in [Agents -> Nat]
    /\ ceiling \in Nat
    /\ moved = [a \in Agents |-> 0]
    /\ movedAll = 0
    /\ status = [id \in RequestIds |-> "unissued"]

SetLimits ==
    /\ cap' \in [Agents -> Nat]
    /\ directLimit' \in [Agents -> Nat]
    /\ ceiling' \in Nat
    /\ UNCHANGED <<moved, movedAll, requests>>

Midnight ==
    /\ moved' = [a \in Agents |-> 0]
    /\ movedAll' = 0
    /\ UNCHANGED <<limits, requests>>

Spend(a, amount) ==
    /\ moved[a] + amount <= cap[a]
    /\ movedAll + amount <= ceiling
    /\ moved' = [moved EXCEPT ![a] = @ + amount]
    /\ movedAll' = movedAll + amount
    /\ UNCHANGED limits

PayDirectly(a, amount) ==
    /\ amount <= directLimit[a]
    /\ Spend(a, amount)
    /\ UNCHANGED requests

Ask(id, a, amount) ==
    /\ status[id] = "unissued"
    /\ status' = [status EXCEPT ![id] = "open"]
    /\ ask' = [ask EXCEPT ![id] = [agent |-> a, amount |-> amount]]
    /\ UNCHANGED <<limits, moved, movedAll>>

Approve(id) ==
    /\ status[id] = "open"
    /\ Spend(ask[id].agent, ask[id].amount)
    /\ status' = [status EXCEPT ![id] = "paid"]
    /\ UNCHANGED ask

Reject(id) ==
    /\ status[id] = "open"
    /\ status' = [status EXCEPT ![id] = "rejected"]
    /\ UNCHANGED <<limits, moved, movedAll, ask>>

Next ==
    \/ SetLimits
    \/ Midnight
    \/ \E a \in Agents, amount \in Amounts : PayDirectly(a, amount)
    \/ \E id \in RequestIds, a \in Agents, amount \in Amounts : Ask(id, a, amount)
    \/ \E id \in RequestIds : Approve(id) \/ Reject(id)

Spec == Init /\ [][Next]_vars
=============================================================================
