-------------------------- MODULE DailyBudgetProofs --------------------------
(***************************************************************************)
(* The contracts implement DailyBudget, for every set of agents, caps and  *)
(* requests: under the refinement mapping of SpendGuardProperties initial  *)
(* states map to initial states, and every transaction to one step of the  *)
(* budget or to none.                                                      *)
(***************************************************************************)
EXTENDS SpendGuardProofs

\* The mapping of a state, and of its successor, is well typed.
LEMMA LimitTypes ==
    ASSUME TypeOK
    PROVE  /\ capOf \in [Agents -> Nat]
           /\ limitOf \in [Agents -> Nat]
           /\ globalDailyCap \in Nat
  BY DEF TypeOK, RegistryTypeOK, Policy, capOf, limitOf

\* What recordSpend's requires say of the money moved: the payment fits in
\* what is left of the agent's budget and of everybody's.
LEMMA SpendFits ==
    ASSUME TypeOK, BooksMatchToken, CeilingNeverUnderCounts,
           NEW a \in Agents, NEW amount \in Nat,
           NEW m \in Meter, CountedSpend(m) = CountedSpend(meter[a]),
           NEW g \in Ceiling,
           GlobalSpent(g, Today) = GlobalSpent(global, Today),
           CanSpend(policies[a], m, g, globalDailyCap, amount, Today)
    PROVE  /\ movedOf[a] + amount <= capOf[a]
           /\ movedTotal + amount <= globalDailyCap
  <1>0. /\ Today \in Nat
        /\ movedTotal \in Nat
        /\ globalDailyCap \in Nat
        /\ policies[a] \in Policy
    BY DayType DEF Today, TypeOK, RegistryTypeOK
  <1>1. Rolled(m, Today).spentToday = CountedSpend(m)
    BY DEF Rolled, CountedSpend
  <1>2. movedOf[a] + amount <= capOf[a]
    BY <1>1 DEF CanSpend, movedOf, capOf
  <1>3. GlobalSpent(global, Today) \in Nat
    BY <1>0, GlobalTypes DEF TypeOK, RegistryTypeOK
  <1>4. movedTotal + amount <= globalDailyCap
    BY <1>0, <1>3 DEF CanSpend, CeilingNeverUnderCounts
  <1>5. QED
    BY <1>2, <1>4

\* A spend moves the money of the one agent in the budget too.
LEMMA SpendMoves ==
    ASSUME TypeOK, NEW a \in Agents, NEW amount \in Nat,
           NEW m \in Meter, CountedSpend(m) = CountedSpend(meter[a]),
           meter' = [meter EXCEPT ![a] = SpendMeter(m, amount, Today)],
           now' = now
    PROVE  movedOf' = [movedOf EXCEPT ![a] = @ + amount]
  <1>0. meter \in [Agents -> Meter] /\ Today \in Nat
    BY DayType DEF Today, TypeOK, RegistryTypeOK
  <1>1. Today' = Today
    BY DEF Today
  <1>2. \A b \in Agents : CountedSpend(meter[b])' =
            CountedSpend(IF b = a THEN SpendMeter(m, amount, Today)
                         ELSE meter[b])
    BY <1>0, <1>1 DEF CountedSpend
  <1>3. CountedSpend(SpendMeter(m, amount, Today)) = movedOf[a] + amount
    BY <1>0, CountedAfter DEF movedOf
  <1>4. QED
    BY <1>2, <1>3 DEF movedOf

\* A reservation or a release moves no money in the budget.
LEMMA KeepMoves ==
    ASSUME TypeOK, NEW a \in Agents,
           NEW m \in Meter, CountedSpend(m) = CountedSpend(meter[a]),
           meter' = [meter EXCEPT ![a] = m],
           now' = now
    PROVE  movedOf' = movedOf
  <1>0. meter \in [Agents -> Meter]
    BY DEF TypeOK, RegistryTypeOK
  <1>1. Today' = Today
    BY DEF Today
  <1>2. \A b \in Agents : CountedSpend(meter[b])' = CountedSpend(meter[b])
    BY <1>0, <1>1 DEF CountedSpend
  <1>3. QED
    BY <1>2 DEF movedOf

\* Every step of the contracts is a step of the budget, or none of it.
LEMMA BudgetStep ==
    ASSUME TypeOK, TypeOK', GlobalDayCovers, BooksMatchToken, BooksMatchToken',
           CeilingNeverUnderCounts, RequestsInv, [Next]_vars
    PROVE  [Budget!Next]_(Budget!vars)
  <1> DEFINE Untouched == UNCHANGED <<capOf, limitOf, globalDailyCap, movedOf,
                                      movedTotal, askOf, fate>>
  <1>0. /\ meter \in [Agents -> Meter]
        /\ global \in Ceiling
        /\ pending \in [RequestIds -> PendingRequest]
        /\ policies \in [Agents -> Policy]
        /\ fate \in [RequestIds -> {"unissued", "open", "paid", "rejected"}]
        /\ nextRequestId \in 0..MaxRequests
        /\ Today \in Nat
    BY DayType DEF Today, TypeOK, RegistryTypeOK
  <1>1. Untouched => UNCHANGED Budget!vars
    BY DEF Budget!vars, Budget!limits, Budget!requests
  <1>2. CASE AdminTransaction
    <2>1. UNCHANGED <<meter, now, pending, fate, movedTotal>>
      BY <1>2
      DEF AdminTransaction, RegistryAdmin, guardVars, historyVars,
          SetGlobalDailyCap, SchedulePolicy, SetPolicyNow, ApplyPolicy,
          CancelPolicyChange, SetAllowlist
    <2>2. UNCHANGED <<movedOf, askOf>>
      BY <2>1 DEF movedOf, askOf, CountedSpend, Today
    <2>3. /\ capOf' \in [Agents -> Nat]
          /\ limitOf' \in [Agents -> Nat]
          /\ globalDailyCap' \in Nat
      BY DEF TypeOK, RegistryTypeOK, Policy, capOf, limitOf
    <2>4. Budget!SetLimits
      BY <2>1, <2>2, <2>3 DEF Budget!SetLimits, Budget!requests
    <2>5. QED
      BY <2>4 DEF Budget!Next
  <1>3. ASSUME UNCHANGED <<now, policies, meter, globalDailyCap, movedTotal,
                           pending, fate>>
        PROVE  [Budget!Next]_(Budget!vars)
    <2>1. Untouched
      BY <1>3 DEF capOf, limitOf, movedOf, askOf, CountedSpend, Today
    <2>2. QED
      BY <1>1, <2>1
  <1>4. ASSUME NEW value \in BOOLEAN, SetPaused(value)
        PROVE  [Budget!Next]_(Budget!vars)
    BY <1>3, <1>4 DEF SetPaused, registryVars, historyVars
  <1>5. ASSUME NEW a \in Agents, NEW c \in Counterparties,
               NEW amount \in Amounts, RequestPayment(a, c, amount)
        PROVE  [Budget!Next]_(Budget!vars)
    <2>0. amount \in Nat /\ meter[a] \in Meter
      BY <1>0, GuardAssumption
    <2>1. CASE RequestBlocked(a, c, amount)
      BY <1>3, <2>1 DEF RequestBlocked, registryVars, historyVars
    <2>2. CASE RequestEscalated(a, c, amount)
      <3> DEFINE new == nextRequestId + 1
                 r == [agent |-> a, counterparty |-> c, amount |-> amount,
                       resolved |-> FALSE]
      <3>1. /\ new \in RequestIds
            /\ pending' = [pending EXCEPT ![new] = r]
            /\ fate' = [fate EXCEPT ![new] = "open"]
            /\ meter' = [meter EXCEPT ![a] = ReserveMeter(@, amount, Today)]
            /\ UNCHANGED <<policies, globalDailyCap, now, movedTotal>>
        BY <1>0, <2>2, GuardAssumption
        DEF RequestEscalated, RequestIds, RegistryCapsUnchanged
      <3>2. fate[new] = "unissued"
        <4>1. new > nextRequestId
          BY <1>0
        <4>2. QED
          BY <3>1, <4>1 DEF RequestsInv, FlagsMatchFate
      <3>3. movedOf' = movedOf
        BY <2>0, <1>0, <3>1, KeepMoves, CountedAfter, MeterTypes
      <3>4. UNCHANGED <<capOf, limitOf>>
        BY <3>1 DEF capOf, limitOf
      <3>5. askOf' = [askOf EXCEPT ![new] = [agent |-> a, amount |-> amount]]
        BY <1>0, <3>1 DEF askOf
      <3>6. Budget!Ask(new, a, amount)
        BY <3>1, <3>2, <3>3, <3>4, <3>5 DEF Budget!Ask, Budget!limits
      <3>7. QED
        BY <3>1, <3>6 DEF Budget!Next
    <2>3. CASE RequestPaid(a, c, amount)
      <3>1. /\ CanSpend(policies[a], meter[a], global, globalDailyCap, amount,
                        Today)
            /\ ~NeedsApproval(policies[a], amount)
            /\ meter' = [meter EXCEPT ![a] = SpendMeter(meter[a], amount, Today)]
            /\ movedTotal' = movedTotal + amount
            /\ UNCHANGED <<policies, globalDailyCap, now, pending, fate>>
        BY <2>3 DEF RequestPaid, Settle, RegistryCapsUnchanged
      <3>2. movedOf[a] + amount <= capOf[a]
            /\ movedTotal + amount <= globalDailyCap
        BY <1>0, <2>0, <3>1, SpendFits
      <3>3. movedOf' = [movedOf EXCEPT ![a] = @ + amount]
        BY <2>0, <3>1, SpendMoves
      <3>4. UNCHANGED <<capOf, limitOf, askOf>>
        BY <3>1 DEF capOf, limitOf, askOf
      <3>5. amount <= limitOf[a]
        BY <1>0, <2>0, <3>1 DEF NeedsApproval, limitOf, Policy
      <3>6. Budget!PayDirectly(a, amount)
        BY <3>1, <3>2, <3>3, <3>4, <3>5
        DEF Budget!PayDirectly, Budget!Spend, Budget!limits, Budget!requests
      <3>7. QED
        BY <3>6 DEF Budget!Next
    <2>4. QED
      BY <1>5, <2>1, <2>2, <2>3 DEF RequestPayment
  <1>6. ASSUME NEW id \in RequestIds, ApprovePending(id)
        PROVE  [Budget!Next]_(Budget!vars)
    <2> DEFINE a == pending[id].agent
               amount == pending[id].amount
               m == ReleaseMeter(meter[a], amount, Today)
               g == ReleaseGlobal(meter[a], global, amount, Today)
    <2>0. /\ a \in Agents
          /\ amount \in Nat
          /\ meter[a] \in Meter
      BY <1>0, <1>6 DEF ApprovePending, PendingRequest
    <2>1. /\ CanSpend(policies[a], m, g, globalDailyCap, amount, Today)
          /\ ~pending[id].resolved
          /\ pending' = [pending EXCEPT ![id] = Resolved(@)]
          /\ fate' = [fate EXCEPT ![id] = "paid"]
          /\ meter' = [meter EXCEPT ![a] = SpendMeter(m, amount, Today)]
          /\ movedTotal' = movedTotal + amount
          /\ UNCHANGED <<policies, globalDailyCap, now>>
      BY <1>6 DEF ApprovePending, Settle, RegistryCapsUnchanged
    <2>2. /\ m \in Meter
          /\ g \in Ceiling
          /\ CountedSpend(m) = CountedSpend(meter[a])
          /\ GlobalSpent(g, Today) = GlobalSpent(global, Today)
      <3>1. m \in Meter /\ CountedSpend(m) = CountedSpend(meter[a])
        BY <1>0, <2>0, MeterTypes, CountedAfter
      <3>2. g \in Ceiling
        BY <1>0, <2>0, GlobalTypes
      <3>3. GlobalSpent(g, Today) = GlobalSpent(global, Today)
        BY <1>0, <2>0 DEF ReleaseGlobal, GlobalSpent, Ceiling
      <3>4. QED
        BY <3>1, <3>2, <3>3
    <2>3. movedOf[a] + amount <= capOf[a]
          /\ movedTotal + amount <= globalDailyCap
      <3> HIDE DEF m, g, a, amount
      <3>1. QED
        BY <2>0, <2>1, <2>2, SpendFits
    <2>4. movedOf' = [movedOf EXCEPT ![a] = @ + amount]
      <3> HIDE DEF m, g, a, amount
      <3>1. QED
        BY <2>0, <2>1, <2>2, SpendMoves
    <2>5. fate[id] = "open"
      <3>1. id <= nextRequestId /\ ~(id > nextRequestId)
        BY <1>0, <2>0, GuardAssumption
        DEF RequestsInv, UnissuedBelongToNobody, RequestIds
      <3>2. QED
        BY <1>0, <2>1, <3>1 DEF RequestsInv, FlagsMatchFate
    <2>6. UNCHANGED <<capOf, limitOf>>
      BY <2>1 DEF capOf, limitOf
    <2>7. /\ askOf' = askOf
          /\ askOf[id].agent = a
          /\ askOf[id].amount = amount
      BY <1>0, <2>1 DEF askOf, Resolved, PendingRequest
    <2>8. Budget!Approve(id)
      BY <2>1, <2>3, <2>4, <2>5, <2>6, <2>7
      DEF Budget!Approve, Budget!Spend, Budget!limits
    <2>9. QED
      BY <2>8 DEF Budget!Next
  <1>7. ASSUME NEW id \in RequestIds, RejectPending(id)
        PROVE  [Budget!Next]_(Budget!vars)
    <2> DEFINE a == pending[id].agent
               amount == pending[id].amount
    <2>0. /\ a \in Agents
          /\ amount \in Nat
          /\ meter[a] \in Meter
      BY <1>0, <1>7 DEF RejectPending, PendingRequest
    <2>1. /\ ~pending[id].resolved
          /\ pending' = [pending EXCEPT ![id] = Resolved(@)]
          /\ fate' = [fate EXCEPT ![id] = "rejected"]
          /\ meter' = [meter EXCEPT ![a] = ReleaseMeter(meter[a], amount, Today)]
          /\ UNCHANGED <<policies, globalDailyCap, now, movedTotal>>
      BY <1>7 DEF RejectPending, RegistryCapsUnchanged
    <2>2. movedOf' = movedOf
      BY <1>0, <2>0, <2>1, KeepMoves, MeterTypes, CountedAfter
    <2>3. fate[id] = "open"
      <3>1. id <= nextRequestId /\ ~(id > nextRequestId)
        BY <1>0, <2>0, GuardAssumption
        DEF RequestsInv, UnissuedBelongToNobody, RequestIds
      <3>2. QED
        BY <1>0, <2>1, <3>1 DEF RequestsInv, FlagsMatchFate
    <2>4. UNCHANGED <<capOf, limitOf>>
      BY <2>1 DEF capOf, limitOf
    <2>5. askOf' = askOf
      BY <1>0, <2>1 DEF askOf, Resolved, PendingRequest
    <2>6. Budget!Reject(id)
      BY <2>1, <2>2, <2>3, <2>4, <2>5 DEF Budget!Reject, Budget!limits
    <2>7. QED
      BY <2>6 DEF Budget!Next
  <1>8. ASSUME NEW id \in RequestIds, RejectUnissued(id)
        PROVE  [Budget!Next]_(Budget!vars)
    <2>1. /\ pending' = [pending EXCEPT ![id] = Resolved(@)]
          /\ UNCHANGED <<policies, globalDailyCap, now, meter, movedTotal, fate>>
      BY <1>8 DEF RejectUnissued, registryVars, historyVars
    <2>2. askOf' = askOf
      BY <1>0, <2>1 DEF askOf, Resolved, PendingRequest
    <2>3. UNCHANGED <<capOf, limitOf, movedOf>>
      BY <2>1 DEF capOf, limitOf, movedOf, CountedSpend, Today
    <2>4. QED
      BY <1>1, <2>1, <2>2, <2>3
  <1>9. CASE Tick
    <2>0. Today' = now' \div DayLength
      BY DEF Today
    <2>1. UNCHANGED <<policies, globalDailyCap, meter, pending, fate>>
      BY <1>9 DEF Tick, guardVars
    <2>2. UNCHANGED <<capOf, limitOf, askOf>>
      BY <2>1 DEF capOf, limitOf, askOf
    <2>3. CASE Today' = Today
      <3>1. movedTotal' = movedTotal
        BY <1>9, <2>0, <2>3 DEF Tick
      <3>2. movedOf' = movedOf
        BY <2>1, <2>3 DEF movedOf, CountedSpend
      <3>3. QED
        BY <1>1, <2>1, <2>2, <3>1, <3>2
    <2>4. CASE Today' # Today
      <3>1. movedTotal' = 0
        BY <1>9, <2>0, <2>4 DEF Tick
      <3>2. movedToday' = [a \in Agents |-> 0]
        BY <1>9, <2>0, <2>4 DEF Tick
      <3>3. movedOf' = [a \in Agents |-> 0]
        BY <3>2 DEF movedOf, BooksMatchToken
      <3>4. Budget!Midnight
        BY <2>1, <2>2, <3>1, <3>3
        DEF Budget!Midnight, Budget!limits, Budget!requests
      <3>5. QED
        BY <3>4 DEF Budget!Next
    <2>5. QED
      BY <2>3, <2>4
  <1>10. CASE UNCHANGED vars
    BY <1>3, <1>10 DEF vars, registryVars, guardVars, historyVars
  <1>11. QED
    BY <1>2, <1>4, <1>5, <1>6, <1>7, <1>8, <1>9, <1>10 DEF Next

\* The contracts implement the budget: caps are of the money the token moved
\* today, whatever the counters' resets missed, and requests are paid once.
THEOREM BudgetImplemented == Spec => ImplementsDailyBudget
  <1>1. Init => Budget!Init
    <2> SUFFICES ASSUME Init PROVE Budget!Init
      OBVIOUS
    <2>1. \A a \in Agents : policies[a] = NoPolicy /\ meter[a].spentToday = 0
      BY DEF Init, RegistryInit
    <2>2. capOf \in [Agents -> Nat] /\ limitOf \in [Agents -> Nat]
      BY <2>1 DEF capOf, limitOf, NoPolicy
    <2>3. movedOf = [a \in Agents |-> 0]
      BY <2>1 DEF movedOf, CountedSpend
    <2>4. globalDailyCap \in Nat
      BY RegistryAssumption DEF Init, RegistryInit
    <2>5. QED
      BY <2>2, <2>3, <2>4 DEF Init, Budget!Init
  <1>2. QED
    BY <1>1, BudgetStep, TypeCorrect, DaysCovered, BooksCorrect,
       CeilingCovers, RequestsCorrect, PTL
    DEF Spec, ImplementsDailyBudget, Budget!Spec
=============================================================================
