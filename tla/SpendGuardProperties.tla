------------------------ MODULE SpendGuardProperties ------------------------
(***************************************************************************)
(* What must hold of SpendGuard and PolicyRegistry together, and the       *)
(* abstract DailyBudget they implement.                                    *)
(***************************************************************************)
EXTENDS SpendGuard, FiniteSets

-----------------------------------------------------------------------------
(* Invariants *)

\* An agent's counter, read day-aware, is the USDC the token really moved out
\* of its wallet since midnight, although it is reset lazily and only by the
\* next reserve or recordSpend.
CountedSpend(m) == IF m.lastResetDay = Today THEN m.spentToday ELSE 0

BooksMatchToken ==
    \A a \in Agents : CountedSpend(meter[a]) = movedToday[a]

\* The global counter, read day-aware, never under-counts today's outflow.
CeilingNeverUnderCounts == movedTotal <= GlobalSpent(global, Today)

\* release tests only the agent's day before it subtracts from the global
\* reservations: sound because an agent that rolled to a day took the global
\* counters with it, and no counter is ahead of the clock.
GlobalDayCovers ==
    /\ global.day <= Today
    /\ \A a \in Agents : meter[a].lastResetDay <= global.day

\* A request is open exactly until its flag is set, and setting the flag of an
\* id in advance (rejectPending on an id never issued) does not decide the
\* request that gets the id later.
FlagsMatchFate ==
    \A id \in RequestIds :
        /\ id > nextRequestId <=> fate[id] = "unissued"
        /\ id <= nextRequestId =>
             /\ pending[id].agent \in Agents
             /\ policies[pending[id].agent].exists
             /\ pending[id].resolved <=> fate[id] \in {"paid", "rejected"}

OpenRequests == {id \in RequestIds : fate[id] = "open"}
LiveReservations == {id \in OpenRequests : reservedOn[id] = Today}

\* What the requests weigh together: total[n] is what the first n of them do.
Total(weight) ==
    LET total[n \in 0..MaxRequests] ==
          IF n = 0 THEN 0 ELSE total[n - 1] + weight[n]
    IN  total[MaxRequests]

AmountOf(ids) ==
    Total([id \in RequestIds |-> IF id \in ids THEN pending[id].amount ELSE 0])

\* Requests already answered, or queued on an earlier day, hold no headroom:
\* what is counted as reserved never exceeds today's open requests.
HeadroomNeverLeaks ==
    /\ \A a \in Agents :
         meter[a].lastResetDay = Today =>
            meter[a].activeReserved <=
                AmountOf({id \in LiveReservations : pending[id].agent = a})
    /\ GlobalReserved(global, Today) <= AmountOf(LiveReservations)

\* A payment checkPolicy lets through is never refused by reserve or
\* recordSpend later in the same transaction: the pre-filter and the
\* authoritative requires agree in every reachable state.
PreFilterIsSound ==
    \A a \in Agents, c \in Counterparties, amount \in Amounts :
        PolicyAllows(a, c, amount) =>
            IF NeedsApproval(policies[a], amount)
            THEN CanReserve(policies[a], meter[a], global, globalDailyCap,
                            amount, Today)
            ELSE CanSpend(policies[a], meter[a], global, globalDailyCap,
                          amount, Today)

\* The audit log accounts for every USDC the guard pulled, and what it shows
\* as escalated and unanswered are the agent's open requests.
AuditReconciles ==
    \A a \in Agents :
        /\ audit[a].paid + funds[a] = Funding
        /\ audit[a].queued =
             Cardinality({id \in OpenRequests : pending[id].agent = a})

-----------------------------------------------------------------------------
(* Action properties *)

\* The daily cap of an existing policy rises only to a value the
\* administrator announced, last touched at least CapChangeDelay ago.
RaiseWasAnnounced(a) ==
    /\ announcedAt[a] > 0
    /\ now >= announcedAt[a] + CapChangeDelay
    /\ policies'[a].dailyCap = pendingPolicy[a].dailyCap

TimelockRespected ==
    [][\A a \in Agents :
          IsRaise(policies[a], policies'[a]) => RaiseWasAnnounced(a)]_vars

\* The refinement mapping to DailyBudget.
capOf == [a \in Agents |-> policies[a].dailyCap]
limitOf == [a \in Agents |-> policies[a].escalationThreshold]
movedOf == [a \in Agents |-> CountedSpend(meter[a])]
askOf == [id \in RequestIds |-> [agent |-> pending[id].agent,
                                 amount |-> pending[id].amount]]

Budget == INSTANCE DailyBudget WITH
    cap <- capOf, directLimit <- limitOf, ceiling <- globalDailyCap,
    moved <- movedOf, movedAll <- movedTotal, ask <- askOf, status <- fate

\* The counters implement a budget that starts afresh at midnight, and every
\* request is paid at most once, never after its rejection, for the amount and
\* from the agent it was queued for.
ImplementsDailyBudget == Budget!Spec
=============================================================================
