--------------------------- MODULE SpendGuardProofs ---------------------------
(***************************************************************************)
(* Proofs about the contracts, for every set of agents, caps and requests  *)
(* and every clock: types, the day the counters belong to, and that they   *)
(* agree with the money the token moved; the timelock, the agreement of    *)
(* checkPolicy with reserve and recordSpend, and that a request is decided *)
(* once.                                                                   *)
(***************************************************************************)
EXTENDS SpendGuardProperties, FiniteSetTheorems, WellFoundedInduction, TLAPS

\* The day of a timestamp is a natural number.
LEMMA DayType == ASSUME NEW n \in Nat PROVE n \div DayLength \in Nat
  BY RegistryAssumption

\* The day never goes back as the clock advances by one unit.
LEMMA DayMonotone ==
    ASSUME NEW n \in Nat
    PROVE  n \div DayLength <= (n + 1) \div DayLength
  BY RegistryAssumption

\* reserve, release and recordSpend keep an agent's counters natural numbers.
LEMMA MeterTypes ==
    ASSUME NEW m \in Meter, NEW amount \in Nat, NEW day \in Nat
    PROVE  /\ Rolled(m, day) \in Meter
           /\ ReserveMeter(m, amount, day) \in Meter
           /\ ReleaseMeter(m, amount, day) \in Meter
           /\ SpendMeter(m, amount, day) \in Meter
  <1>1. Rolled(m, day) \in Meter
    BY DEF Rolled, Meter
  <1>2. ReserveMeter(m, amount, day) \in Meter
    BY <1>1 DEF ReserveMeter, Meter
  <1>3. ReleaseMeter(m, amount, day) \in Meter
    BY DEF ReleaseMeter, Floored, Meter
  <1>4. SpendMeter(m, amount, day) \in Meter
    BY <1>1 DEF SpendMeter, Meter
  <1> QED BY <1>1, <1>2, <1>3, <1>4

\* reserve, release and recordSpend keep the global counters natural numbers.
LEMMA GlobalTypes ==
    ASSUME NEW m \in Meter, NEW g \in Ceiling, NEW amount \in Nat,
           NEW day \in Nat
    PROVE  /\ GlobalSpent(g, day) \in Nat
           /\ GlobalReserved(g, day) \in Nat
           /\ ReserveGlobal(g, amount, day) \in Ceiling
           /\ ReleaseGlobal(m, g, amount, day) \in Ceiling
           /\ SpendGlobal(g, amount, day) \in Ceiling
  <1>1. GlobalSpent(g, day) \in Nat /\ GlobalReserved(g, day) \in Nat
    BY DEF GlobalSpent, GlobalReserved, Ceiling
  <1>2. ReserveGlobal(g, amount, day) \in Ceiling
    BY <1>1 DEF ReserveGlobal, Ceiling
  <1>3. ReleaseGlobal(m, g, amount, day) \in Ceiling
    BY DEF ReleaseGlobal, Floored, Ceiling
  <1>4. SpendGlobal(g, amount, day) \in Ceiling
    BY <1>1 DEF SpendGlobal, Ceiling
  <1> QED BY <1>1, <1>2, <1>3, <1>4

\* A resolved request is a request.
LEMMA ResolvedType ==
    ASSUME NEW p \in [RequestIds -> PendingRequest], NEW id \in RequestIds
    PROVE  [p EXCEPT ![id] = Resolved(@)] \in [RequestIds -> PendingRequest]
  <1>1. p[id] \in PendingRequest
    OBVIOUS
  <1>2. Resolved(p[id]) \in PendingRequest
    BY <1>1 DEF Resolved, PendingRequest
  <1>3. QED
    BY <1>2

\* Every reachable state is well typed; in particular no counter a release
\* subtracts from goes below zero.
THEOREM TypeCorrect == Spec => []TypeOK
  <1>1. Init => TypeOK
    <2> SUFFICES ASSUME Init PROVE TypeOK
      OBVIOUS
    <2>1. RegistryTypeOK
      BY RegistryAssumption
      DEF Init, RegistryInit, RegistryTypeOK, NoPolicy, NoSchedule, Policy,
          Meter, Scheduled, Ceiling
    <2>2. pending \in [RequestIds -> PendingRequest]
      <3>1. Unissued \in PendingRequest
        BY DEF Unissued, PendingRequest
      <3>2. QED
        BY <3>1 DEF Init
    <2>3. nextRequestId \in 0..MaxRequests
      BY GuardAssumption DEF Init
    <2>4. audit \in [Agents -> [paid: Nat, queued: Int]]
      BY DEF Init
    <2>5. fate \in [RequestIds -> {"unissued", "open", "paid", "rejected"}]
      BY DEF Init
    <2>6. /\ funds \in [Agents -> Nat]
          /\ movedToday \in [Agents -> Nat]
          /\ reservedOn \in [RequestIds -> Nat]
      BY GuardAssumption DEF Init
    <2>7. QED
      BY <2>1, <2>2, <2>3, <2>4, <2>5, <2>6 DEF Init, TypeOK
  <1>2. TypeOK /\ [Next]_vars => TypeOK'
    <2> SUFFICES ASSUME TypeOK, [Next]_vars PROVE TypeOK'
      OBVIOUS
    <2> USE DEF TypeOK, RegistryTypeOK
    <2>0. Today \in Nat
      BY DayType DEF Today
    <2>1. CASE AdminTransaction
      <3>1. ASSUME NEW cap \in GlobalCapInputs, SetGlobalDailyCap(cap)
            PROVE  RegistryTypeOK'
        BY <3>1, RegistryAssumption DEF SetGlobalDailyCap
      <3>2. ASSUME NEW a \in Agents, NEW c \in PolicyInputs,
                   SchedulePolicy(a, c)
            PROVE  RegistryTypeOK'
        <4>1. c \in Caps
          BY RegistryAssumption
        <4>2. now + CapChangeDelay \in Nat
          BY RegistryAssumption
        <4>3. QED
          BY <3>2, <4>1, <4>2 DEF SchedulePolicy, Scheduled, Caps
      <3>3. ASSUME NEW a \in Agents, NEW c \in PolicyInputs,
                   SetPolicyNow(a, c)
            PROVE  RegistryTypeOK'
        <4>1. c \in Caps
          BY RegistryAssumption
        <4>2. QED
          BY <3>3, <4>1 DEF SetPolicyNow, Enforced, Policy, Caps
      <3>4. ASSUME NEW a \in Agents, ApplyPolicy(a)
            PROVE  RegistryTypeOK'
        BY <3>4 DEF ApplyPolicy, Enforced, Policy, Scheduled, NoSchedule
      <3>5. ASSUME NEW a \in Agents, CancelPolicyChange(a)
            PROVE  RegistryTypeOK'
        BY <3>5 DEF CancelPolicyChange, Scheduled, NoSchedule
      <3>6. ASSUME NEW a \in Agents, NEW c \in Counterparties,
                   NEW allowed \in BOOLEAN, SetAllowlist(a, c, allowed)
            PROVE  RegistryTypeOK'
        BY <3>6 DEF SetAllowlist
      <3>7. RegistryTypeOK'
        BY <2>1, <3>1, <3>2, <3>3, <3>4, <3>5, <3>6
        DEF AdminTransaction, RegistryAdmin
      <3>8. QED
        BY <2>1, <3>7 DEF AdminTransaction, guardVars, historyVars
    <2>2. ASSUME NEW value \in BOOLEAN, SetPaused(value)
          PROVE  TypeOK'
      BY <2>2 DEF SetPaused, registryVars, historyVars
    <2>3. ASSUME NEW a \in Agents, NEW c \in Counterparties,
                 NEW amount \in Amounts, RequestPayment(a, c, amount)
          PROVE  TypeOK'
      <3>0. amount \in Nat
        BY GuardAssumption
      <3>1. CASE RequestBlocked(a, c, amount)
        BY <3>1 DEF RequestBlocked, registryVars, historyVars
      <3>2. CASE RequestEscalated(a, c, amount)
        <4>1. meter' \in [Agents -> Meter] /\ global' \in Ceiling
          BY <3>2, <3>0, <2>0, MeterTypes, GlobalTypes DEF RequestEscalated
        <4>2. nextRequestId' \in 0..MaxRequests
          BY <3>2, GuardAssumption DEF RequestEscalated
        <4>3. pending' \in [RequestIds -> PendingRequest]
          BY <3>2, <3>0 DEF RequestEscalated, PendingRequest
        <4>4. audit' \in [Agents -> [paid: Nat, queued: Int]]
          BY <3>2 DEF RequestEscalated
        <4>5. reservedOn' \in [RequestIds -> Nat]
          BY <3>2, <2>0 DEF RequestEscalated
        <4>6. fate' \in [RequestIds -> {"unissued", "open", "paid", "rejected"}]
          BY <3>2 DEF RequestEscalated
        <4>7. QED
          BY <3>2, <4>1, <4>2, <4>3, <4>4, <4>5, <4>6
          DEF RequestEscalated, RegistryCapsUnchanged
      <3>3. CASE RequestPaid(a, c, amount)
        <4>1. meter' \in [Agents -> Meter] /\ global' \in Ceiling
          BY <3>3, <3>0, <2>0, MeterTypes, GlobalTypes DEF RequestPaid
        <4>2. audit' \in [Agents -> [paid: Nat, queued: Int]]
          BY <3>3, <3>0 DEF RequestPaid
        <4>3. /\ funds' \in [Agents -> Nat]
              /\ movedToday' \in [Agents -> Nat]
              /\ movedTotal' \in Nat
          BY <3>3, <3>0 DEF RequestPaid, Settle
        <4>4. QED
          BY <3>3, <4>1, <4>2, <4>3 DEF RequestPaid, RegistryCapsUnchanged
      <3>4. QED
        BY <2>3, <3>1, <3>2, <3>3 DEF RequestPayment
    <2>4. ASSUME NEW id \in RequestIds, ApprovePending(id)
          PROVE  TypeOK'
      <3> DEFINE a == pending[id].agent
                 amount == pending[id].amount
      <3>0. a \in Agents /\ amount \in Nat
        BY <2>4 DEF ApprovePending, PendingRequest
      <3>1. meter' \in [Agents -> Meter] /\ global' \in Ceiling
        <4>1. ReleaseMeter(meter[a], amount, Today) \in Meter
          BY <3>0, <2>0, MeterTypes
        <4>2. ReleaseGlobal(meter[a], global, amount, Today) \in Ceiling
          BY <3>0, <2>0, GlobalTypes
        <4>3. QED
          <5>1. /\ \A m \in Meter : SpendMeter(m, amount, Today) \in Meter
                /\ \A g \in Ceiling : SpendGlobal(g, amount, Today) \in Ceiling
            BY <3>0, <2>0, MeterTypes, GlobalTypes
          <5>2. QED
            BY <2>4, <3>0, <4>1, <4>2, <5>1 DEF ApprovePending
      <3>2. pending' \in [RequestIds -> PendingRequest]
        <4>1. pending' = [pending EXCEPT ![id] = Resolved(@)]
          BY <2>4 DEF ApprovePending
        <4>2. QED
          BY <4>1, ResolvedType
      <3>3. audit' \in [Agents -> [paid: Nat, queued: Int]]
        BY <2>4, <3>0 DEF ApprovePending
      <3>4. /\ funds' \in [Agents -> Nat]
            /\ movedToday' \in [Agents -> Nat]
            /\ movedTotal' \in Nat
        BY <2>4, <3>0 DEF ApprovePending, Settle
      <3>5. fate' \in [RequestIds -> {"unissued", "open", "paid", "rejected"}]
        BY <2>4 DEF ApprovePending
      <3>6. QED
        BY <2>4, <3>1, <3>2, <3>3, <3>4, <3>5
        DEF ApprovePending, RegistryCapsUnchanged
    <2>5. ASSUME NEW id \in RequestIds, RejectPending(id)
          PROVE  TypeOK'
      <3> DEFINE a == pending[id].agent
                 amount == pending[id].amount
      <3>0. a \in Agents /\ amount \in Nat
        BY <2>5 DEF RejectPending, PendingRequest
      <3>1. meter' \in [Agents -> Meter] /\ global' \in Ceiling
        <4>1. ReleaseMeter(meter[a], amount, Today) \in Meter
          BY <3>0, <2>0, MeterTypes
        <4>2. ReleaseGlobal(meter[a], global, amount, Today) \in Ceiling
          BY <3>0, <2>0, GlobalTypes
        <4>3. QED
          BY <2>5, <4>1, <4>2 DEF RejectPending
      <3>2. pending' \in [RequestIds -> PendingRequest]
        <4>1. pending' = [pending EXCEPT ![id] = Resolved(@)]
          BY <2>5 DEF RejectPending
        <4>2. QED
          BY <4>1, ResolvedType
      <3>3. audit' \in [Agents -> [paid: Nat, queued: Int]]
        BY <2>5, <3>0 DEF RejectPending
      <3>4. fate' \in [RequestIds -> {"unissued", "open", "paid", "rejected"}]
        BY <2>5 DEF RejectPending
      <3>5. QED
        BY <2>5, <3>1, <3>2, <3>3, <3>4
        DEF RejectPending, RegistryCapsUnchanged
    <2>6. ASSUME NEW id \in RequestIds, RejectUnissued(id)
          PROVE  TypeOK'
      <3>1. pending[id] \in PendingRequest
        OBVIOUS
      <3>2. Resolved(pending[id]) \in PendingRequest
        BY <3>1 DEF Resolved, PendingRequest
      <3>3. pending' \in [RequestIds -> PendingRequest]
        BY <2>6, <3>2 DEF RejectUnissued
      <3>4. QED
        BY <2>6, <3>3 DEF RejectUnissued, registryVars, historyVars
    <2>7. CASE Tick
      BY <2>7 DEF Tick, guardVars
    <2>8. CASE UNCHANGED vars
      BY <2>8 DEF vars, registryVars, guardVars, historyVars
    <2>9. QED
      BY <2>1, <2>2, <2>3, <2>4, <2>5, <2>6, <2>7, <2>8 DEF Next
  <1>3. QED
    BY <1>1, <1>2, PTL DEF Spec

-----------------------------------------------------------------------------
(* What a step does to the books: the counters, the clock and the history  *)
(* of the money moved.                                                     *)

books == <<now, meter, global, movedToday, movedTotal>>

ReserveStep(a, amount) ==
    /\ meter' = [meter EXCEPT ![a] = ReserveMeter(@, amount, Today)]
    /\ global' = ReserveGlobal(global, amount, Today)
    /\ UNCHANGED <<now, movedToday, movedTotal>>

ReleaseStep(a, amount) ==
    /\ meter' = [meter EXCEPT ![a] = ReleaseMeter(@, amount, Today)]
    /\ global' = ReleaseGlobal(meter[a], global, amount, Today)
    /\ UNCHANGED <<now, movedToday, movedTotal>>

\* A spend out of counters m and g: those of the state, or what a release
\* left of them.
SpendStep(a, amount, m, g) ==
    /\ meter' = [meter EXCEPT ![a] = SpendMeter(m, amount, Today)]
    /\ global' = SpendGlobal(g, amount, Today)
    /\ movedToday' = [movedToday EXCEPT ![a] = @ + amount]
    /\ movedTotal' = movedTotal + amount
    /\ UNCHANGED now

BookStep ==
    \/ UNCHANGED books
    \/ Tick
    \/ \E a \in Agents, amount \in Nat :
         \/ ReserveStep(a, amount)
         \/ ReleaseStep(a, amount)
         \/ SpendStep(a, amount, meter[a], global)
         \/ SpendStep(a, amount, ReleaseMeter(meter[a], amount, Today),
                      ReleaseGlobal(meter[a], global, amount, Today))

\* Every transaction leaves the books alone, or makes one of these changes.
LEMMA BookSteps ==
    ASSUME TypeOK, [Next]_vars
    PROVE  BookStep
  <1>1. CASE AdminTransaction
    BY <1>1
    DEF AdminTransaction, RegistryAdmin, SetGlobalDailyCap, SchedulePolicy,
        SetPolicyNow, ApplyPolicy, CancelPolicyChange, SetAllowlist,
        historyVars, BookStep, books
  <1>2. ASSUME NEW value \in BOOLEAN, SetPaused(value)
        PROVE  BookStep
    BY <1>2 DEF SetPaused, registryVars, historyVars, BookStep, books
  <1>3. ASSUME NEW a \in Agents, NEW c \in Counterparties,
               NEW amount \in Amounts, RequestPayment(a, c, amount)
        PROVE  BookStep
    <2>0. amount \in Nat
      BY GuardAssumption
    <2>1. CASE RequestBlocked(a, c, amount)
      BY <2>1 DEF RequestBlocked, registryVars, historyVars, BookStep, books
    <2>2. CASE RequestEscalated(a, c, amount)
      <3>1. ReserveStep(a, amount)
        BY <2>2 DEF RequestEscalated, RegistryCapsUnchanged, ReserveStep
      <3>2. QED
        BY <3>1, <2>0 DEF BookStep
    <2>3. CASE RequestPaid(a, c, amount)
      <3>1. SpendStep(a, amount, meter[a], global)
        BY <2>3 DEF RequestPaid, Settle, RegistryCapsUnchanged, SpendStep,
           TypeOK, RegistryTypeOK
      <3>2. QED
        BY <3>1, <2>0 DEF BookStep
    <2>4. QED
      BY <1>3, <2>1, <2>2, <2>3 DEF RequestPayment
  <1>4. ASSUME NEW id \in RequestIds, ApprovePending(id)
        PROVE  BookStep
    <2> DEFINE a == pending[id].agent
               amount == pending[id].amount
    <2>0. a \in Agents /\ amount \in Nat
      BY <1>4 DEF ApprovePending, TypeOK, PendingRequest
    <2>1. SpendStep(a, amount, ReleaseMeter(meter[a], amount, Today),
                    ReleaseGlobal(meter[a], global, amount, Today))
      BY <1>4 DEF ApprovePending, Settle, RegistryCapsUnchanged, SpendStep
    <2>2. QED
      BY <2>0, <2>1 DEF BookStep
  <1>5. ASSUME NEW id \in RequestIds, RejectPending(id)
        PROVE  BookStep
    <2> DEFINE a == pending[id].agent
               amount == pending[id].amount
    <2>0. a \in Agents /\ amount \in Nat
      BY <1>5 DEF RejectPending, TypeOK, PendingRequest
    <2>1. ReleaseStep(a, amount)
      BY <1>5 DEF RejectPending, RegistryCapsUnchanged, ReleaseStep
    <2>2. QED
      BY <2>0, <2>1 DEF BookStep
  <1>6. ASSUME NEW id \in RequestIds, RejectUnissued(id)
        PROVE  BookStep
    BY <1>6 DEF RejectUnissued, registryVars, historyVars, BookStep, books
  <1>7. CASE Tick
    BY <1>7 DEF BookStep
  <1>8. CASE UNCHANGED vars
    BY <1>8 DEF vars, registryVars, historyVars, BookStep, books
  <1>9. QED
    BY <1>1, <1>2, <1>3, <1>4, <1>5, <1>6, <1>7, <1>8 DEF Next

-----------------------------------------------------------------------------
(* The day of the counters *)

\* A step of the clock keeps or advances the day.
LEMMA TodayAdvances ==
    ASSUME TypeOK, Tick
    PROVE  Today <= Today' /\ Today \in Nat /\ Today' \in Nat
  BY DayType, DayMonotone DEF Today, Tick, TypeOK, RegistryTypeOK

\* No counter is ahead of the clock, and no agent's counter is of a later day
\* than the global ones, which every roll of an agent's counter takes along.
THEOREM DaysCovered == Spec => []GlobalDayCovers
  <1>1. Init => GlobalDayCovers
    BY RegistryAssumption DEF Init, RegistryInit, GlobalDayCovers, Today
  <1>2. TypeOK /\ GlobalDayCovers /\ [Next]_vars => GlobalDayCovers'
    <2> SUFFICES ASSUME TypeOK, GlobalDayCovers, [Next]_vars
                 PROVE  GlobalDayCovers'
      OBVIOUS
    <2>0. /\ Today \in Nat
          /\ global \in Ceiling
          /\ meter \in [Agents -> Meter]
      BY DayType DEF Today, TypeOK, RegistryTypeOK
    <2>1. CASE UNCHANGED books
      BY <2>1 DEF books, GlobalDayCovers, Today
    <2>2. CASE Tick
      <3>1. global' = global /\ meter' = meter
        BY <2>2 DEF Tick
      <3>2. QED
        BY <2>0, <2>2, <3>1, TodayAdvances DEF GlobalDayCovers, Ceiling
    <2>3. ASSUME NEW a \in Agents, NEW amount \in Nat,
                 ReserveStep(a, amount)
          PROVE  GlobalDayCovers'
      <3>1. Today' = Today
        BY <2>3 DEF ReserveStep, Today
      <3>2. global'.day = Today
        BY <2>3 DEF ReserveStep, ReserveGlobal
      <3>3. meter'[a].lastResetDay = Today
        BY <2>0, <2>3 DEF ReserveStep, ReserveMeter, Rolled, Meter
      <3>4. \A b \in Agents \ {a} : meter'[b] = meter[b]
        BY <2>0, <2>3 DEF ReserveStep
      <3>5. \A b \in Agents : meter[b].lastResetDay \in Nat
        BY <2>0 DEF Meter
      <3>6. QED
        BY <2>0, <3>1, <3>2, <3>3, <3>4, <3>5 DEF GlobalDayCovers, Ceiling
    <2>4. ASSUME NEW a \in Agents, NEW amount \in Nat,
                 ReleaseStep(a, amount)
          PROVE  GlobalDayCovers'
      <3>1. Today' = Today
        BY <2>4 DEF ReleaseStep, Today
      <3>2. global'.day = global.day
        BY <2>0, <2>4 DEF ReleaseStep, ReleaseGlobal, Ceiling
      <3>3. meter'[a].lastResetDay = meter[a].lastResetDay
        BY <2>0, <2>4 DEF ReleaseStep, ReleaseMeter, Meter
      <3>4. \A b \in Agents \ {a} : meter'[b] = meter[b]
        BY <2>0, <2>4 DEF ReleaseStep
      <3>5. QED
        BY <3>1, <3>2, <3>3, <3>4 DEF GlobalDayCovers
    <2>5. ASSUME NEW a \in Agents, NEW amount \in Nat, NEW m \in Meter,
                 NEW g, SpendStep(a, amount, m, g)
          PROVE  GlobalDayCovers'
      <3>1. Today' = Today
        BY <2>5 DEF SpendStep, Today
      <3>2. global'.day = Today
        BY <2>5 DEF SpendStep, SpendGlobal
      <3>3. meter'[a].lastResetDay = Today
        BY <2>0, <2>5 DEF SpendStep, SpendMeter, Rolled, Meter
      <3>4. \A b \in Agents \ {a} : meter'[b] = meter[b]
        BY <2>0, <2>5 DEF SpendStep
      <3>5. \A b \in Agents : meter[b].lastResetDay \in Nat
        BY <2>0 DEF Meter
      <3>6. QED
        BY <2>0, <3>1, <3>2, <3>3, <3>4, <3>5 DEF GlobalDayCovers, Ceiling
    <2>6. \A a \in Agents, amount \in Nat :
            ReleaseMeter(meter[a], amount, Today) \in Meter
      BY <2>0, MeterTypes
    <2>7. QED
      BY <2>0, <2>1, <2>2, <2>3, <2>4, <2>5, <2>6, BookSteps DEF BookStep
  <1>3. QED
    BY <1>1, <1>2, TypeCorrect, PTL DEF Spec

-----------------------------------------------------------------------------
(* The counters and the token *)

\* An agent's counter after a spend, and after anything else that is not a new
\* day, read as of the same day.
LEMMA CountedAfter ==
    ASSUME NEW m \in Meter, NEW amount \in Nat, Today \in Nat
    PROVE  /\ CountedSpend(ReserveMeter(m, amount, Today)) = CountedSpend(m)
           /\ CountedSpend(ReleaseMeter(m, amount, Today)) = CountedSpend(m)
           /\ CountedSpend(SpendMeter(m, amount, Today))
                = CountedSpend(m) + amount
  <1>1. CountedSpend(ReserveMeter(m, amount, Today)) = CountedSpend(m)
    BY DEF CountedSpend, ReserveMeter, Rolled, Meter
  <1>2. CountedSpend(ReleaseMeter(m, amount, Today)) = CountedSpend(m)
    BY DEF CountedSpend, ReleaseMeter, Meter
  <1>3. CountedSpend(SpendMeter(m, amount, Today)) = CountedSpend(m) + amount
    BY DEF CountedSpend, SpendMeter, Rolled, Meter
  <1>4. QED
    BY <1>1, <1>2, <1>3

\* An agent's lazily reset counter is the USDC the token moved out of its
\* wallet since midnight.  That no counter is ahead of the clock (DaysCovered)
\* is what makes midnight harmless: a counter of an earlier day reads as zero.
THEOREM BooksCorrect == Spec => []BooksMatchToken
  <1>1. Init => BooksMatchToken
    <2> SUFFICES ASSUME Init, NEW a \in Agents
                 PROVE  CountedSpend(meter[a]) = movedToday[a]
      BY DEF BooksMatchToken
    <2>1. meter[a].spentToday = 0
      BY DEF Init, RegistryInit
    <2>2. movedToday[a] = 0
      BY DEF Init
    <2>3. QED
      BY <2>1, <2>2 DEF CountedSpend
  <1>2. TypeOK /\ GlobalDayCovers /\ BooksMatchToken /\ [Next]_vars
          => BooksMatchToken'
    <2> SUFFICES ASSUME TypeOK, GlobalDayCovers, BooksMatchToken, [Next]_vars
                 PROVE  BooksMatchToken'
      OBVIOUS
    <2>0. /\ Today \in Nat
          /\ global \in Ceiling
          /\ meter \in [Agents -> Meter]
          /\ movedToday \in [Agents -> Nat]
      BY DayType DEF Today, TypeOK, RegistryTypeOK
    <2>1. CASE UNCHANGED books
      BY <2>1 DEF books, BooksMatchToken, CountedSpend, Today
    <2>2. CASE Tick
      <3>0. Today' = now' \div DayLength
        BY DEF Today
      <3>1. CASE Today' = Today
        BY <2>2, <3>0, <3>1 DEF Tick, BooksMatchToken, CountedSpend
      <3>2. CASE Today' # Today
        <4>1. \A a \in Agents : movedToday'[a] = 0
          BY <2>2, <3>0, <3>2 DEF Tick
        <4>2. \A a \in Agents : meter'[a].lastResetDay <= Today
          BY <2>0, <2>2 DEF Tick, GlobalDayCovers, Ceiling, Meter
        <4>3. Today < Today'
          BY <2>2, <3>2, TodayAdvances
        <4>4. \A a \in Agents : meter'[a].lastResetDay # Today'
          BY <2>0, <2>2, <4>2, <4>3, TodayAdvances DEF Tick, Meter
        <4>5. QED
          BY <4>1, <4>4 DEF BooksMatchToken, CountedSpend
      <3>3. QED
        BY <3>1, <3>2
    <2>3. ASSUME NEW a \in Agents, NEW m \in Meter,
                 CountedSpend(m) = CountedSpend(meter[a]),
                 meter' = [meter EXCEPT ![a] = m],
                 UNCHANGED <<now, movedToday>>
          PROVE  BooksMatchToken'
      <3>1. Today' = Today
        BY <2>3 DEF Today
      <3>2. QED
        BY <2>0, <2>3, <3>1 DEF BooksMatchToken, CountedSpend
    <2>4. ASSUME NEW a \in Agents, NEW amount \in Nat, NEW m \in Meter,
                 CountedSpend(m) = CountedSpend(meter[a]), NEW g,
                 SpendStep(a, amount, m, g)
          PROVE  BooksMatchToken'
      <3>1. Today' = Today
        BY <2>4 DEF SpendStep, Today
      <3>2. meter' = [meter EXCEPT ![a] = SpendMeter(m, amount, Today)]
        BY <2>4 DEF SpendStep
      <3>3. movedToday' = [movedToday EXCEPT ![a] = @ + amount]
        BY <2>4 DEF SpendStep
      <3>4. CountedSpend(SpendMeter(m, amount, Today))
              = movedToday[a] + amount
        BY <2>0, <2>4, CountedAfter DEF BooksMatchToken
      <3>5. \A b \in Agents : CountedSpend(meter'[b]) = movedToday'[b]
        BY <2>0, <3>2, <3>3, <3>4 DEF BooksMatchToken
      <3>6. QED
        BY <3>1, <3>5 DEF BooksMatchToken, CountedSpend
    <2>5. ASSUME NEW a \in Agents, NEW amount \in Nat
          PROVE  /\ ReserveMeter(meter[a], amount, Today) \in Meter
                 /\ ReleaseMeter(meter[a], amount, Today) \in Meter
                 /\ CountedSpend(ReserveMeter(meter[a], amount, Today))
                      = CountedSpend(meter[a])
                 /\ CountedSpend(ReleaseMeter(meter[a], amount, Today))
                      = CountedSpend(meter[a])
      BY <2>0, MeterTypes, CountedAfter
    <2>6. ASSUME NEW a \in Agents, NEW amount \in Nat,
                 ReserveStep(a, amount)
          PROVE  BooksMatchToken'
      BY <2>3, <2>5, <2>6 DEF ReserveStep
    <2>7. ASSUME NEW a \in Agents, NEW amount \in Nat,
                 ReleaseStep(a, amount)
          PROVE  BooksMatchToken'
      BY <2>3, <2>5, <2>7 DEF ReleaseStep
    <2>8. QED
      BY <2>0, <2>1, <2>2, <2>4, <2>5, <2>6, <2>7, BookSteps DEF BookStep
  <1>3. QED
    BY <1>1, <1>2, TypeCorrect, DaysCovered, PTL DEF Spec

\* The global counter, read as of today, covers everything the token moved
\* since midnight: the reset it misses can only make it read too high.
THEOREM CeilingCovers == Spec => []CeilingNeverUnderCounts
  <1>1. Init => CeilingNeverUnderCounts
    BY DEF Init, RegistryInit, CeilingNeverUnderCounts, GlobalSpent
  <1>2. TypeOK /\ CeilingNeverUnderCounts /\ [Next]_vars
          => CeilingNeverUnderCounts'
    <2> SUFFICES ASSUME TypeOK, CeilingNeverUnderCounts, [Next]_vars
                 PROVE  CeilingNeverUnderCounts'
      OBVIOUS
    <2>0. /\ Today \in Nat
          /\ global \in Ceiling
          /\ movedTotal \in Nat
      BY DayType DEF Today, TypeOK, RegistryTypeOK
    <2>1. CASE UNCHANGED books
      BY <2>1 DEF books, CeilingNeverUnderCounts, GlobalSpent, Today
    <2>2. CASE Tick
      <3>0. Today' = now' \div DayLength
        BY DEF Today
      <3>1. CASE Today' = Today
        BY <2>2, <3>0, <3>1 DEF Tick, CeilingNeverUnderCounts, GlobalSpent
      <3>2. CASE Today' # Today
        BY <2>0, <2>2, <3>0, <3>2
        DEF Tick, CeilingNeverUnderCounts, GlobalSpent, Ceiling
      <3>3. QED
        BY <3>1, <3>2
    <2>3. ASSUME NEW a \in Agents, NEW amount \in Nat,
                 ReserveStep(a, amount)
          PROVE  CeilingNeverUnderCounts'
      BY <2>0, <2>3
      DEF ReserveStep, ReserveGlobal, CeilingNeverUnderCounts, GlobalSpent,
          Ceiling, Today
    <2>4. ASSUME NEW a \in Agents, NEW amount \in Nat,
                 ReleaseStep(a, amount)
          PROVE  CeilingNeverUnderCounts'
      BY <2>0, <2>4
      DEF ReleaseStep, ReleaseGlobal, CeilingNeverUnderCounts, GlobalSpent,
          Ceiling, Today
    <2>5. ASSUME NEW a \in Agents, NEW amount \in Nat, NEW m,
                 NEW g \in Ceiling,
                 GlobalSpent(g, Today) = GlobalSpent(global, Today),
                 SpendStep(a, amount, m, g)
          PROVE  CeilingNeverUnderCounts'
      <3>1. GlobalSpent(g, Today) \in Nat
        BY <2>0, <2>5 DEF GlobalSpent, Ceiling
      <3>2. QED
        BY <2>0, <2>5, <3>1
        DEF SpendStep, SpendGlobal, CeilingNeverUnderCounts, GlobalSpent,
            Today
    <2>6. ASSUME NEW a \in Agents, NEW amount \in Nat
          PROVE  LET g == ReleaseGlobal(meter[a], global, amount, Today)
                 IN  /\ g \in Ceiling
                     /\ GlobalSpent(g, Today) = GlobalSpent(global, Today)
      BY <2>0 DEF ReleaseGlobal, Floored, GlobalSpent, Ceiling
    <2>7. QED
      BY <2>0, <2>1, <2>2, <2>3, <2>4, <2>5, <2>6, BookSteps DEF BookStep
  <1>3. QED
    BY <1>1, <1>2, TypeCorrect, PTL DEF Spec

-----------------------------------------------------------------------------
(* Caps *)

\* What a transaction does to the policies and the scheduled increases.
PolicyStep ==
    \/ UNCHANGED <<policies, pendingPolicy, announcedAt>>
    \/ \E a \in Agents, c \in PolicyInputs : SchedulePolicy(a, c)
    \/ \E a \in Agents, c \in PolicyInputs : SetPolicyNow(a, c)
    \/ \E a \in Agents : ApplyPolicy(a)
    \/ \E a \in Agents : CancelPolicyChange(a)

\* Only the administrator's transactions and applyPolicy touch the policies.
LEMMA PolicySteps ==
    ASSUME [Next]_vars
    PROVE  PolicyStep
  <1>1. CASE AdminTransaction
    BY <1>1
    DEF AdminTransaction, RegistryAdmin, SetGlobalDailyCap, SetAllowlist,
        PolicyStep
  <1>2. CASE \E value \in BOOLEAN : SetPaused(value)
    BY <1>2 DEF SetPaused, registryVars, PolicyStep
  <1>3. CASE \E a \in Agents, c \in Counterparties, amount \in Amounts :
               RequestPayment(a, c, amount)
    BY <1>3
    DEF RequestPayment, RequestBlocked, RequestEscalated, RequestPaid,
        registryVars, RegistryCapsUnchanged, PolicyStep
  <1>4. CASE \E id \in RequestIds :
               ApprovePending(id) \/ RejectPending(id) \/ RejectUnissued(id)
    BY <1>4
    DEF ApprovePending, RejectPending, RejectUnissued, registryVars,
        RegistryCapsUnchanged, PolicyStep
  <1>5. CASE Tick
    BY <1>5 DEF Tick, PolicyStep
  <1>6. CASE UNCHANGED vars
    BY <1>6 DEF vars, registryVars, PolicyStep
  <1>7. QED
    BY <1>1, <1>2, <1>3, <1>4, <1>5, <1>6 DEF Next

\* A scheduled increase takes effect CapChangeDelay after it was announced,
\* and the clock is past the zero that stands for "none".
Announced ==
    /\ now > 0
    /\ \A a \in Agents :
         pendingPolicy[a].effectiveAt # 0 =>
            /\ announcedAt[a] > 0
            /\ pendingPolicy[a].effectiveAt = announcedAt[a] + CapChangeDelay

\* The announcement of every scheduled increase is the one its effectiveAt was
\* computed from, whatever setPolicy, applyPolicy and cancelPolicyChange did
\* since.
LEMMA AnnouncedInvariant == Spec => []Announced
  <1>1. Init => Announced
    BY RegistryAssumption DEF Init, RegistryInit, Announced, NoSchedule
  <1>2. TypeOK /\ Announced /\ [Next]_vars => Announced'
    <2> SUFFICES ASSUME TypeOK, Announced, [Next]_vars PROVE Announced'
      OBVIOUS
    <2>0. /\ now \in Nat
          /\ pendingPolicy \in [Agents -> Scheduled]
          /\ announcedAt \in [Agents -> Nat]
      BY DEF TypeOK, RegistryTypeOK
    <2>1. now' > 0
      <3>1. now' = now \/ now' = now + 1
        <4>1. CASE Tick
          BY <4>1 DEF Tick
        <4>2. CASE ~Tick
          BY <4>2, BookSteps
          DEF BookStep, books, ReserveStep, ReleaseStep, SpendStep
        <4>3. QED
          BY <4>1, <4>2
      <3>2. QED
        BY <2>0, <3>1 DEF Announced
    <2>2. CASE UNCHANGED <<policies, pendingPolicy, announcedAt>>
      BY <2>1, <2>2 DEF Announced
    <2>3. ASSUME NEW a \in Agents, NEW c \in PolicyInputs,
                 SchedulePolicy(a, c)
          PROVE  Announced'
      BY <2>0, <2>1, <2>3, RegistryAssumption DEF SchedulePolicy, Announced
    <2>4. ASSUME NEW a \in Agents, NEW c \in PolicyInputs, SetPolicyNow(a, c)
          PROVE  Announced'
      BY <2>1, <2>4 DEF SetPolicyNow, Announced
    <2>5. ASSUME NEW a \in Agents, ApplyPolicy(a)
          PROVE  Announced'
      BY <2>0, <2>1, <2>5 DEF ApplyPolicy, IsDue, NoSchedule, Announced
    <2>6. ASSUME NEW a \in Agents, CancelPolicyChange(a)
          PROVE  Announced'
      BY <2>0, <2>1, <2>6 DEF CancelPolicyChange, NoSchedule, Announced
    <2>7. QED
      BY <2>2, <2>3, <2>4, <2>5, <2>6, PolicySteps DEF PolicyStep
  <1>3. QED
    BY <1>1, <1>2, TypeCorrect, PTL DEF Spec

\* No step raises the daily cap of an existing policy other than to the caps
\* announced at least CapChangeDelay earlier.
THEOREM TimelockCorrect == Spec => TimelockRespected
  <1>1. TypeOK /\ Announced /\ [Next]_vars
          => [\A a \in Agents :
                IsRaise(policies[a], policies'[a]) => RaiseWasAnnounced(a)]_vars
    <2> SUFFICES ASSUME TypeOK, Announced, [Next]_vars, NEW b \in Agents,
                        IsRaise(policies[b], policies'[b])
                 PROVE  RaiseWasAnnounced(b)
      OBVIOUS
    <2>0. /\ now \in Nat
          /\ policies \in [Agents -> Policy]
          /\ pendingPolicy \in [Agents -> Scheduled]
          /\ announcedAt \in [Agents -> Nat]
      BY DEF TypeOK, RegistryTypeOK
    <2>1. policies'[b] # policies[b]
      BY <2>0 DEF IsRaise, Policy
    <2>2. CASE UNCHANGED <<policies, pendingPolicy, announcedAt>>
      BY <2>1, <2>2
    <2>3. ASSUME NEW a \in Agents, NEW c \in PolicyInputs,
                 SchedulePolicy(a, c)
          PROVE  RaiseWasAnnounced(b)
      BY <2>1, <2>3 DEF SchedulePolicy
    <2>4. ASSUME NEW a \in Agents, NEW c \in PolicyInputs, SetPolicyNow(a, c)
          PROVE  RaiseWasAnnounced(b)
      <3>1. a = b
        BY <2>0, <2>1, <2>4 DEF SetPolicyNow
      <3>2. policies'[b].dailyCap = c.dailyCap
        BY <2>0, <2>4, <3>1 DEF SetPolicyNow, Enforced
      <3>3. QED
        BY <2>4, <3>1, <3>2 DEF SetPolicyNow, IsRaise
    <2>5. ASSUME NEW a \in Agents, ApplyPolicy(a)
          PROVE  RaiseWasAnnounced(b)
      <3>1. a = b
        BY <2>0, <2>1, <2>5 DEF ApplyPolicy
      <3>2. policies'[b].dailyCap = pendingPolicy[b].dailyCap
        BY <2>0, <2>5, <3>1 DEF ApplyPolicy, Enforced
      <3>3. pendingPolicy[b].effectiveAt # 0
            /\ now >= pendingPolicy[b].effectiveAt
        BY <2>5, <3>1 DEF ApplyPolicy, IsDue
      <3>4. QED
        BY <3>2, <3>3 DEF Announced, RaiseWasAnnounced
    <2>6. ASSUME NEW a \in Agents, CancelPolicyChange(a)
          PROVE  RaiseWasAnnounced(b)
      BY <2>1, <2>6 DEF CancelPolicyChange
    <2>7. QED
      BY <2>2, <2>3, <2>4, <2>5, <2>6, PolicySteps DEF PolicyStep
  <1>2. QED
    BY <1>1, TypeCorrect, AnnouncedInvariant, PTL DEF Spec, TimelockRespected

-----------------------------------------------------------------------------
(* checkPolicy, reserve and recordSpend *)

\* What checkPolicy lets through, reserve and recordSpend accept: the day-aware
\* reads of the one are the rolled counters of the others.
THEOREM PreFilterCorrect == Spec => []PreFilterIsSound
  <1>1. TypeOK => PreFilterIsSound
    <2> SUFFICES ASSUME TypeOK, NEW a \in Agents, NEW c \in Counterparties,
                        NEW amount \in Amounts, PolicyAllows(a, c, amount)
                 PROVE  /\ CanReserve(policies[a], meter[a], global,
                                      globalDailyCap, amount, Today)
                        /\ CanSpend(policies[a], meter[a], global,
                                    globalDailyCap, amount, Today)
      BY DEF PreFilterIsSound
    <2>1. /\ Today \in Nat
          /\ global \in Ceiling
          /\ meter[a] \in Meter
          /\ policies[a] \in Policy
          /\ globalDailyCap \in Nat
          /\ amount \in Nat
      BY DayType, GuardAssumption DEF Today, TypeOK, RegistryTypeOK
    <2>2. GlobalSpent(global, Today) \in Nat
          /\ GlobalReserved(global, Today) \in Nat
      BY <2>1, GlobalTypes
    <2>3. policies[a].exists
          /\ GlobalSpent(global, Today) + GlobalReserved(global, Today) + amount
               <= globalDailyCap
      BY DEF PolicyAllows, Allowed
    <2>4. Rolled(meter[a], Today).spentToday
            + Rolled(meter[a], Today).activeReserved + amount
          <= policies[a].dailyCap
      BY DEF PolicyAllows, Allowed, Rolled
    <2>5. Rolled(meter[a], Today) \in Meter
      BY <2>1, MeterTypes
    <2>6. Rolled(meter[a], Today).spentToday + amount <= policies[a].dailyCap
      BY <2>1, <2>4, <2>5 DEF Meter, Policy
    <2>7. GlobalSpent(global, Today) + amount <= globalDailyCap
      BY <2>1, <2>2, <2>3
    <2>8. QED
      BY <2>3, <2>4, <2>6, <2>7 DEF CanReserve, CanSpend
  <1>2. QED
    BY <1>1, TypeCorrect, PTL

-----------------------------------------------------------------------------
(* Requests *)

\* An id not issued yet belongs to nobody, so approvePending cannot pay it.
UnissuedBelongToNobody ==
    \A id \in RequestIds :
        id > nextRequestId => pending[id].agent = ZeroAddress

\* What decides requests: FlagsMatchFate, with what makes it inductive.
RequestsInv == FlagsMatchFate /\ UnissuedBelongToNobody

\* A policy once set never ceases to exist.
LEMMA PoliciesPersist ==
    ASSUME TypeOK, [Next]_vars, NEW a \in Agents, policies[a].exists
    PROVE  policies'[a].exists
  <1>0. policies \in [Agents -> Policy]
    BY DEF TypeOK, RegistryTypeOK
  <1>1. ASSUME NEW b \in Agents, NEW c,
               policies' = [policies EXCEPT ![b] = Enforced(c)]
        PROVE  policies'[a].exists
    <2>1. Enforced(c).exists
      BY DEF Enforced
    <2>2. QED
      BY <1>0, <1>1, <2>1
  <1>2. QED
    BY <1>1, PolicySteps
    DEF PolicyStep, SchedulePolicy, SetPolicyNow, ApplyPolicy,
        CancelPolicyChange

\* A transaction that leaves the requests alone keeps RequestsInv.
LEMMA RequestsUntouched ==
    ASSUME TypeOK, RequestsInv, [Next]_vars,
           UNCHANGED <<pending, nextRequestId, fate>>
    PROVE  RequestsInv'
  BY PoliciesPersist DEF RequestsInv, FlagsMatchFate, UnissuedBelongToNobody

\* A request's flag is set exactly when it was paid or rejected: approving and
\* rejecting, in any order and however often, decide a request once, and
\* rejectPending of an id not issued yet leaves no trace on the request that
\* gets the id.
THEOREM RequestsCorrect == Spec => []RequestsInv
  <1>1. Init => RequestsInv
    <2> SUFFICES ASSUME Init PROVE RequestsInv
      OBVIOUS
    <2>1. \A id \in RequestIds : /\ pending[id] = Unissued
                                 /\ fate[id] = "unissued"
                                 /\ id > nextRequestId
      BY GuardAssumption DEF Init, RequestIds
    <2>2. QED
      BY <2>1, GuardAssumption
      DEF Init, RequestsInv, FlagsMatchFate, UnissuedBelongToNobody, Unissued,
          RequestIds
  <1>2. TypeOK /\ RequestsInv /\ [Next]_vars => RequestsInv'
    <2> SUFFICES ASSUME TypeOK, RequestsInv, [Next]_vars PROVE RequestsInv'
      OBVIOUS
    <2> USE DEF RequestsInv
    <2>0. /\ pending \in [RequestIds -> PendingRequest]
          /\ nextRequestId \in 0..MaxRequests
          /\ MaxRequests \in Nat
          /\ fate \in [RequestIds -> {"unissued", "open", "paid", "rejected"}]
      BY GuardAssumption DEF TypeOK
    <2>1. CASE AdminTransaction
      BY <2>1, RequestsUntouched DEF AdminTransaction, guardVars, historyVars
    <2>2. ASSUME NEW value \in BOOLEAN, SetPaused(value)
          PROVE  RequestsInv'
      BY <2>2, RequestsUntouched DEF SetPaused, historyVars
    <2>3. ASSUME NEW a \in Agents, NEW c \in Counterparties,
                 NEW amount \in Amounts, RequestPayment(a, c, amount)
          PROVE  RequestsInv'
      <3>1. CASE RequestBlocked(a, c, amount)
        BY <3>1, RequestsUntouched DEF RequestBlocked, historyVars
      <3>2. CASE RequestPaid(a, c, amount)
        BY <3>2, RequestsUntouched DEF RequestPaid
      <3>3. CASE RequestEscalated(a, c, amount)
        <4> DEFINE new == nextRequestId + 1
                   r == [agent |-> a, counterparty |-> c, amount |-> amount,
                         resolved |-> FALSE]
        <4>1. /\ new \in RequestIds
              /\ nextRequestId' = new
              /\ pending' = [pending EXCEPT ![new] = r]
              /\ fate' = [fate EXCEPT ![new] = "open"]
              /\ policies' = policies
              /\ policies[a].exists
          BY <2>0, <3>3
          DEF RequestEscalated, RequestIds, RegistryCapsUnchanged, CanReserve
        <4>2. /\ pending'[new].agent = a
              /\ ~pending'[new].resolved
              /\ fate'[new] = "open"
          BY <2>0, <4>1
        <4>3. \A id \in RequestIds : id # new => /\ pending'[id] = pending[id]
                                                 /\ fate'[id] = fate[id]
          BY <2>0, <4>1
        <4>4. \A id \in RequestIds :
                id # new => (id > new <=> id > nextRequestId)
          BY <2>0 DEF RequestIds
        <4>5. a # ZeroAddress
          BY GuardAssumption
        <4>6. ASSUME NEW id \in RequestIds, id # new
              PROVE  /\ id > nextRequestId' <=> fate'[id] = "unissued"
                     /\ id <= nextRequestId' =>
                          /\ pending'[id].agent \in Agents
                          /\ policies'[pending'[id].agent].exists
                          /\ pending'[id].resolved
                               <=> fate'[id] \in {"paid", "rejected"}
                     /\ id > nextRequestId' => pending'[id].agent = ZeroAddress
          <5>1. (id > nextRequestId' <=> id > nextRequestId)
                /\ (id <= nextRequestId' <=> id <= nextRequestId)
            BY <2>0, <4>1, <4>6 DEF RequestIds
          <5>2. QED
            BY <4>1, <4>3, <4>6, <5>1 DEF FlagsMatchFate, UnissuedBelongToNobody
        <4>7. new <= nextRequestId' /\ ~(new > nextRequestId')
          BY <2>0, <4>1
        <4>8. QED
          BY <4>1, <4>2, <4>6, <4>7 DEF FlagsMatchFate, UnissuedBelongToNobody
      <3>4. QED
        BY <2>3, <3>1, <3>2, <3>3 DEF RequestPayment
    <2>4. ASSUME NEW id \in RequestIds, NEW f \in {"paid", "rejected"},
                 pending[id].agent \in Agents,
                 pending' = [pending EXCEPT ![id] = Resolved(@)],
                 fate' = [fate EXCEPT ![id] = f],
                 UNCHANGED <<policies, nextRequestId>>
          PROVE  RequestsInv'
      <3>1. id <= nextRequestId /\ ~(id > nextRequestId)
        BY <2>0, <2>4, GuardAssumption DEF UnissuedBelongToNobody, RequestIds
      <3>2. pending[id] \in PendingRequest
        BY <2>0
      <3>3. /\ pending'[id].agent = pending[id].agent
            /\ pending'[id].resolved
        BY <2>0, <2>4, <3>2 DEF Resolved, PendingRequest
      <3>4. fate'[id] = f
        BY <2>0, <2>4
      <3>5. \A j \in RequestIds : j # id => /\ pending'[j] = pending[j]
                                            /\ fate'[j] = fate[j]
        BY <2>0, <2>4
      <3>6. QED
        BY <2>4, <3>1, <3>3, <3>4, <3>5
        DEF FlagsMatchFate, UnissuedBelongToNobody
    <2>5. ASSUME NEW id \in RequestIds, ApprovePending(id)
          PROVE  RequestsInv'
      BY <2>4, <2>5 DEF ApprovePending, RegistryCapsUnchanged
    <2>6. ASSUME NEW id \in RequestIds, RejectPending(id)
          PROVE  RequestsInv'
      BY <2>4, <2>6 DEF RejectPending, RegistryCapsUnchanged
    <2>7. ASSUME NEW id \in RequestIds, RejectUnissued(id)
          PROVE  RequestsInv'
      <3>0. pending[id] \in PendingRequest
        BY <2>0
      <3>1. /\ pending'[id].agent = ZeroAddress
            /\ \A j \in RequestIds : j # id => pending'[j] = pending[j]
        BY <2>0, <2>7, <3>0 DEF RejectUnissued, Resolved, PendingRequest
      <3>2. id > nextRequestId /\ ~(id <= nextRequestId)
        BY <2>0, <2>7, GuardAssumption
        DEF RejectUnissued, FlagsMatchFate, RequestIds
      <3>3. UNCHANGED <<policies, nextRequestId, fate>>
        BY <2>7 DEF RejectUnissued, registryVars, historyVars
      <3>4. QED
        BY <3>1, <3>2, <3>3 DEF FlagsMatchFate, UnissuedBelongToNobody
    <2>8. CASE Tick
      BY <2>8, RequestsUntouched DEF Tick, guardVars
    <2>9. CASE UNCHANGED vars
      BY <2>9, RequestsUntouched DEF vars, guardVars, historyVars
    <2>10. QED
      BY <2>1, <2>2, <2>3, <2>5, <2>6, <2>7, <2>8, <2>9 DEF Next
  <1>3. QED
    BY <1>1, <1>2, TypeCorrect, PTL DEF Spec

\* The flag of a request tells whether it was decided.
COROLLARY FlagsCorrect == Spec => []FlagsMatchFate
  BY RequestsCorrect, PTL DEF RequestsInv

-----------------------------------------------------------------------------
(* The audit log *)

OpenOf(a) == {id \in OpenRequests : pending[id].agent = a}

\* One agent's share of AuditReconciles.
Reconciled(a) ==
    /\ audit[a].paid + funds[a] = Funding
    /\ audit[a].queued = Cardinality(OpenOf(a))

LEMMA OpenFinite == \A a : IsFiniteSet(OpenOf(a))
  <1>1. IsFiniteSet(RequestIds)
    BY FS_Interval, GuardAssumption DEF RequestIds
  <1>2. \A a : OpenOf(a) \subseteq RequestIds
    BY DEF OpenOf, OpenRequests
  <1>3. QED
    BY <1>1, <1>2, FS_Subset

\* A request that is queued is one more, one that is answered one less.
LEMMA QueueGrows ==
    ASSUME TypeOK, NEW a \in Agents, NEW id \in RequestIds, fate[id] # "open",
           fate' = [fate EXCEPT ![id] = "open"], NEW r,
           pending' = [pending EXCEPT ![id] = r], r.agent = a
    PROVE  \A b \in Agents :
             Cardinality(OpenOf(b))' =
               IF b = a THEN Cardinality(OpenOf(b)) + 1
               ELSE Cardinality(OpenOf(b))
  <1>1. /\ fate'[id] = "open" /\ pending'[id].agent = a
        /\ \A j \in RequestIds \ {id} :
             fate'[j] = fate[j] /\ pending'[j] = pending[j]
    BY DEF TypeOK
  <1>2. OpenOf(a)' = OpenOf(a) \cup {id} /\ id \notin OpenOf(a)
    BY <1>1 DEF OpenOf, OpenRequests
  <1>3. \A b \in Agents : b # a => OpenOf(b)' = OpenOf(b)
    BY <1>1 DEF OpenOf, OpenRequests
  <1>4. Cardinality(OpenOf(a) \cup {id}) = Cardinality(OpenOf(a)) + 1
    BY <1>2, OpenFinite, FS_AddElement
  <1>5. QED
    BY <1>2, <1>3, <1>4

LEMMA QueueShrinks ==
    ASSUME TypeOK, NEW id \in RequestIds, fate[id] = "open",
           NEW f \in {"paid", "rejected"}, fate' = [fate EXCEPT ![id] = f],
           pending' = [pending EXCEPT ![id] = Resolved(@)]
    PROVE  \A b \in Agents :
             Cardinality(OpenOf(b))' =
               IF b = pending[id].agent THEN Cardinality(OpenOf(b)) - 1
               ELSE Cardinality(OpenOf(b))
  <1>a. PICK a : a = pending[id].agent
    OBVIOUS
  <1>0. pending[id] \in PendingRequest
    BY DEF TypeOK
  <1>1. /\ fate'[id] # "open" /\ pending'[id].agent = a
        /\ \A j \in RequestIds \ {id} :
             fate'[j] = fate[j] /\ pending'[j] = pending[j]
    BY <1>a, <1>0 DEF TypeOK, Resolved, PendingRequest
  <1>2. OpenOf(a)' = OpenOf(a) \ {id} /\ id \in OpenOf(a)
    BY <1>a, <1>1 DEF OpenOf, OpenRequests
  <1>3. \A b \in Agents : b # a => OpenOf(b)' = OpenOf(b)
    BY <1>a, <1>1 DEF OpenOf, OpenRequests
  <1>4. Cardinality(OpenOf(a) \ {id}) = Cardinality(OpenOf(a)) - 1
    BY <1>2, OpenFinite, FS_RemoveElement
  <1>5. QED
    BY <1>a, <1>2, <1>3, <1>4

\* The audit log accounts for every USDC the guard pulled, and its escalated
\* entries without an answer are the agent's open requests: whatever order
\* requests, approvals, rejections and pauses come in.
THEOREM AuditCorrect == Spec => []AuditReconciles
  <1>. DEFINE Whole == \A a \in Agents : Reconciled(a)
  <1>1. Init => Whole
    <2> SUFFICES ASSUME Init, NEW a \in Agents PROVE Reconciled(a)
      OBVIOUS
    <2>1. OpenOf(a) = {}
      BY DEF Init, OpenOf, OpenRequests
    <2>2. QED
      BY <2>1, FS_EmptySet, GuardAssumption DEF Init, Reconciled
  <1>2. TypeOK /\ RequestsInv /\ Whole /\ [Next]_vars => Whole'
    <2> SUFFICES ASSUME TypeOK, RequestsInv, Whole, [Next]_vars PROVE Whole'
      OBVIOUS
    <2>0. /\ pending \in [RequestIds -> PendingRequest]
          /\ nextRequestId \in 0..MaxRequests /\ MaxRequests \in Nat
          /\ fate \in [RequestIds -> {"unissued", "open", "paid", "rejected"}]
          /\ funds \in [Agents -> Nat] /\ Funding \in Nat
          /\ audit \in [Agents -> [paid: Nat, queued: Int]]
      BY GuardAssumption DEF TypeOK
    <2>1. CASE UNCHANGED <<fate, funds, audit>> /\
               \A id \in RequestIds : pending'[id].agent = pending[id].agent
      <3>1. \A a \in Agents : OpenOf(a)' = OpenOf(a)
        BY <2>1 DEF OpenOf, OpenRequests
      <3>2. QED
        BY <2>1, <3>1 DEF Reconciled
    <2>2. CASE \/ AdminTransaction \/ Tick \/ UNCHANGED vars
               \/ \E value \in BOOLEAN : SetPaused(value)
               \/ \E a \in Agents, c \in Counterparties, amount \in Amounts :
                    RequestBlocked(a, c, amount)
      BY <2>1, <2>2 DEF AdminTransaction, Tick, vars, SetPaused, RequestBlocked,
         guardVars, historyVars
    <2>3. ASSUME NEW id \in RequestIds, RejectUnissued(id)
          PROVE  Whole'
      <3>1. \A j \in RequestIds : pending'[j].agent = pending[j].agent
        BY <2>0, <2>3 DEF RejectUnissued, Resolved, PendingRequest
      <3>2. QED
        BY <2>1, <2>3, <3>1 DEF RejectUnissued, historyVars
    <2>4. ASSUME NEW a \in Agents, NEW c \in Counterparties,
                 NEW amount \in Amounts, RequestPaid(a, c, amount)
          PROVE  Whole'
      <3>1. \A b \in Agents : OpenOf(b)' = OpenOf(b)
        BY <2>4 DEF RequestPaid, OpenOf, OpenRequests
      <3>2. amount \in Nat
        BY GuardAssumption
      <3>3. \A b \in Agents :
              /\ audit'[b].queued = audit[b].queued
              /\ audit'[b].paid =
                   IF b = a THEN audit[b].paid + amount ELSE audit[b].paid
        BY <2>0, <2>4 DEF RequestPaid
      <3>4. \A b \in Agents :
              /\ funds'[b] = IF b = a THEN funds[b] - amount ELSE funds[b]
              /\ audit[b].paid \in Nat /\ funds[b] \in Nat
        BY <2>0, <2>4 DEF RequestPaid, Settle
      <3>5. QED
        BY <2>0, <3>1, <3>2, <3>3, <3>4 DEF Reconciled
    <2>5. ASSUME NEW a \in Agents, NEW c \in Counterparties,
                 NEW amount \in Amounts, RequestEscalated(a, c, amount)
          PROVE  Whole'
      <3>1. PICK id \in RequestIds : id = nextRequestId + 1
        BY <2>0, <2>5 DEF RequestEscalated, RequestIds
      <3>2. fate[id] # "open"
        BY <2>0, <3>1 DEF RequestsInv, FlagsMatchFate
      <3>. DEFINE r == [agent |-> a, counterparty |-> c, amount |-> amount,
                        resolved |-> FALSE]
      <3>3. /\ pending' = [pending EXCEPT ![id] = r] /\ r.agent = a
            /\ fate' = [fate EXCEPT ![id] = "open"]
        BY <2>5, <3>1 DEF RequestEscalated
      <3>4. \A b \in Agents :
              Cardinality(OpenOf(b))' =
                IF b = a THEN Cardinality(OpenOf(b)) + 1
                ELSE Cardinality(OpenOf(b))
        BY <3>2, <3>3, QueueGrows
      <3>5. \A b \in Agents :
              /\ audit'[b].paid = audit[b].paid /\ funds'[b] = funds[b]
              /\ audit'[b].queued =
                   IF b = a THEN audit[b].queued + 1 ELSE audit[b].queued
        BY <2>0, <2>5 DEF RequestEscalated
      <3>6. QED
        BY <3>4, <3>5 DEF Reconciled
    <2>6. ASSUME NEW id \in RequestIds, ApprovePending(id) \/ RejectPending(id)
          PROVE  Whole'
      <3>. DEFINE a == pending[id].agent
                  amount == pending[id].amount
      <3>1. /\ a \in Agents /\ amount \in Nat /\ ~pending[id].resolved
            /\ pending' = [pending EXCEPT ![id] = Resolved(@)]
        BY <2>0, <2>6 DEF ApprovePending, RejectPending, PendingRequest
      <3>2. fate[id] = "open"
        BY <2>0, <3>1, GuardAssumption
        DEF RequestsInv, FlagsMatchFate, UnissuedBelongToNobody, RequestIds
      <3>3. PICK f \in {"paid", "rejected"} : fate' = [fate EXCEPT ![id] = f]
        BY <2>6 DEF ApprovePending, RejectPending
      <3>4. \A b \in Agents :
              Cardinality(OpenOf(b))' =
                IF b = a THEN Cardinality(OpenOf(b)) - 1
                ELSE Cardinality(OpenOf(b))
        BY <3>1, <3>2, <3>3, QueueShrinks
      <3>5. \A b \in Agents :
              audit'[b].queued =
                IF b = a THEN audit[b].queued - 1 ELSE audit[b].queued
        BY <2>0, <2>6, <3>1 DEF ApprovePending, RejectPending
      <3>6. \A b \in Agents : audit'[b].paid + funds'[b] = audit[b].paid + funds[b]
        <4>1. CASE ApprovePending(id)
          <5>1. \A b \in Agents :
                  /\ audit'[b].paid =
                       IF b = a THEN audit[b].paid + amount ELSE audit[b].paid
                  /\ funds'[b] = IF b = a THEN funds[b] - amount ELSE funds[b]
            BY <2>0, <3>1, <4>1 DEF ApprovePending, Settle
          <5>2. \A b \in Agents : audit[b].paid \in Nat /\ funds[b] \in Nat
            BY <2>0
          <5>3. QED
            BY <3>1, <5>1, <5>2
        <4>2. CASE RejectPending(id)
          BY <2>0, <3>1, <4>2 DEF RejectPending
        <4>3. QED
          BY <2>6, <4>1, <4>2
      <3>7. QED
        BY <3>4, <3>5, <3>6 DEF Reconciled
    <2>7. QED
      BY <2>2, <2>3, <2>4, <2>5, <2>6 DEF Next, RequestPayment
  <1>3. Whole => AuditReconciles
    BY DEF Reconciled, OpenOf, AuditReconciles
  <1>4. QED
    BY <1>1, <1>2, <1>3, TypeCorrect, RequestsCorrect, PTL DEF Spec

-----------------------------------------------------------------------------
(* Sums of amounts.  The library's induction takes a predicate, which the   *)
(* provers cannot instantiate; what the sums need is an inductive set, and  *)
(* that follows from the least element of a set.                            *)

\* Every non-empty set of natural numbers has a least element.
LEMMA LeastNatural ==
    ASSUME NEW S, S \subseteq Nat, S # {}
    PROVE  \E k \in S : \A j \in S : k <= j
  <1>. DEFINE R == OpToRel(<, Nat)
  <1>1. IsWellFoundedOn(R, Nat)
    BY NatLessThanWellFounded, Zenon
  <1>2. \A x, y \in Nat : y < x => <<y, x>> \in R
    BY Zenon DEF OpToRel
  <1>. HIDE DEF R
  <1>3. PICK k \in S : \A j \in S : <<j, k>> \notin R
    BY <1>1, WFMin, Zenon
  <1>4. \A j \in S : j \in Nat /\ k \in Nat /\ ~(j < k)
    BY <1>2, <1>3, Zenon
  <1>5. QED
    BY <1>4

\* Induction over the natural numbers, for a set instead of a predicate.
LEMMA InductiveSet ==
    ASSUME NEW S, 0 \in S, \A n \in Nat : n \in S => n + 1 \in S
    PROVE  Nat \subseteq S
  <1>1. SUFFICES ASSUME Nat \ S # {} PROVE FALSE
    OBVIOUS
  <1>2. PICK k \in Nat \ S : \A j \in Nat \ S : k <= j
    <2>1. Nat \ S \subseteq Nat
      OBVIOUS
    <2>2. QED
      BY <1>1, <2>1, LeastNatural
  <1>3. k # 0 /\ k - 1 \in Nat /\ ~(k <= k - 1) /\ k = (k - 1) + 1
    BY <1>2
  <1>4. k - 1 \in S
    BY <1>2, <1>3
  <1>5. QED
    BY <1>2, <1>3, <1>4

Weights == [RequestIds -> Nat]

\* f[n] is what the first n requests weigh together.
IsSum(f, k, w) == f = [n \in 0..k |-> IF n = 0 THEN 0 ELSE f[n - 1] + w[n]]

\* The recursion of Total has a solution, and Total is its last value.
LEMMA TotalIsSum ==
    ASSUME NEW w \in Weights
    PROVE  \E f : IsSum(f, MaxRequests, w) /\ Total(w) = f[MaxRequests]
  <1>. DEFINE S == {k \in Nat : \E f : IsSum(f, k, w)}
  <1>1. 0 \in S
    <2>. DEFINE f == [n \in 0..0 |-> 0]
    <2>1. f = [n \in 0..0 |-> IF n = 0 THEN 0 ELSE f[n - 1] + w[n]]
      OBVIOUS
    <2>2. QED
      BY <2>1 DEF IsSum
  <1>2. ASSUME NEW k \in Nat, k \in S PROVE k + 1 \in S
    <2>1. PICK f : IsSum(f, k, w)
      BY <1>2
    <2>2. \A n \in 0..k : f[n] = IF n = 0 THEN 0 ELSE f[n - 1] + w[n]
      BY <2>1 DEF IsSum
    <2>. DEFINE g == [n \in 0..(k + 1) |->
                        IF n = k + 1 THEN f[k] + w[k + 1] ELSE f[n]]
    <2>3. ASSUME NEW n \in 0..(k + 1)
          PROVE  g[n] = IF n = 0 THEN 0 ELSE g[n - 1] + w[n]
      <3>1. CASE n = k + 1
        <4>1. n - 1 = k /\ n # 0 /\ k # k + 1 /\ k \in 0..(k + 1)
          BY <3>1
        <4>2. g[n - 1] = f[k] /\ g[n] = f[k] + w[k + 1]
          BY <3>1, <4>1
        <4>3. QED
          BY <3>1, <4>1, <4>2
      <3>2. CASE n # k + 1
        <4>1. n \in 0..k /\ g[n] = f[n]
          BY <3>2
        <4>2. n # 0 => /\ n - 1 \in 0..(k + 1) /\ n - 1 # k + 1
                       /\ g[n - 1] = f[n - 1]
          BY <4>1
        <4>3. QED
          BY <2>2, <4>1, <4>2
      <3>3. QED
        BY <3>1, <3>2
    <2>4. IsSum(g, k + 1, w)
      BY <2>3 DEF IsSum
    <2>5. QED
      BY <2>4
  <1>3. Nat \subseteq S
    <2>. HIDE DEF S
    <2>1. QED
      BY <1>1, <1>2, InductiveSet
  <1>4. PICK f : IsSum(f, MaxRequests, w)
    BY <1>3, GuardAssumption
  <1>5. Total(w) = (CHOOSE h : IsSum(h, MaxRequests, w))[MaxRequests]
    BY Zenon DEF Total, IsSum
  <1>6. QED
    BY <1>4, <1>5, Zenon

\* A sum of natural numbers is one.
LEMMA SumType ==
    ASSUME NEW w \in Weights, NEW f, IsSum(f, MaxRequests, w)
    PROVE  \A n \in 0..MaxRequests : f[n] \in Nat
  <1>. DEFINE S == {k \in Nat : k <= MaxRequests => f[k] \in Nat}
  <1>1. 0 \in S
    BY GuardAssumption DEF IsSum
  <1>2. ASSUME NEW k \in Nat, k \in S, k + 1 <= MaxRequests PROVE k + 1 \in S
    <2>1. /\ f[k] \in Nat /\ k + 1 \in 0..MaxRequests /\ k + 1 # 0
          /\ k + 1 \in RequestIds /\ (k + 1) - 1 = k
      BY <1>2, GuardAssumption DEF RequestIds
    <2>2. f[k + 1] = f[k] + w[k + 1]
      BY <2>1 DEF IsSum
    <2>3. QED
      BY <2>1, <2>2 DEF Weights
  <1>3. Nat \subseteq S
    <2>1. \A k \in Nat : k \in S => k + 1 \in S
      BY <1>2, GuardAssumption
    <2>. HIDE DEF S
    <2>2. QED
      BY <1>1, <2>1, InductiveSet
  <1>4. QED
    BY <1>3, GuardAssumption

LEMMA TotalType == ASSUME NEW w \in Weights PROVE Total(w) \in Nat
  BY TotalIsSum, SumType, GuardAssumption

\* When one request's weight changes, the total changes by as much.
LEMMA TotalStep ==
    ASSUME NEW w \in Weights, NEW v \in Weights, NEW id \in RequestIds,
           \A j \in RequestIds \ {id} : v[j] = w[j]
    PROVE  Total(v) + w[id] = Total(w) + v[id]
  <1>1. PICK f : IsSum(f, MaxRequests, w) /\ Total(w) = f[MaxRequests]
    BY TotalIsSum
  <1>2. PICK g : IsSum(g, MaxRequests, v) /\ Total(v) = g[MaxRequests]
    BY TotalIsSum
  <1>3. /\ \A n \in 0..MaxRequests : f[n] \in Nat /\ g[n] \in Nat
        /\ id \in Nat \ {0} /\ id <= MaxRequests /\ MaxRequests \in Nat
        /\ \A j \in RequestIds : w[j] \in Nat /\ v[j] \in Nat
    <2>1. \A n \in 0..MaxRequests : f[n] \in Nat
      BY <1>1, SumType
    <2>2. \A n \in 0..MaxRequests : g[n] \in Nat
      BY <1>2, SumType
    <2>3. id \in Nat \ {0} /\ id <= MaxRequests /\ MaxRequests \in Nat
      BY GuardAssumption DEF RequestIds
    <2>4. \A j \in RequestIds : w[j] \in Nat /\ v[j] \in Nat
      BY DEF Weights
    <2>5. QED
      BY <2>1, <2>2, <2>3, <2>4
  <1>. DEFINE Related(k) == IF k < id THEN g[k] = f[k]
                            ELSE g[k] + w[id] = f[k] + v[id]
              S == {k \in Nat : k <= MaxRequests => Related(k)}
  <1>4. 0 \in S
    BY <1>1, <1>2, <1>3 DEF IsSum
  <1>5. ASSUME NEW k \in Nat, k \in S, k + 1 <= MaxRequests PROVE k + 1 \in S
    <2>1. /\ Related(k) /\ k + 1 \in 0..MaxRequests /\ k + 1 # 0
          /\ k \in 0..MaxRequests
          /\ k + 1 \in RequestIds /\ (k + 1) - 1 = k
      BY <1>3, <1>5 DEF RequestIds
    <2>2. f[k + 1] = f[k] + w[k + 1] /\ g[k + 1] = g[k] + v[k + 1]
      BY <1>1, <1>2, <2>1 DEF IsSum
    <2>3. k + 1 # id => v[k + 1] = w[k + 1]
      BY <2>1
    <2>4. Related(k + 1)
      <3>1. CASE k + 1 < id
        BY <1>3, <2>1, <2>2, <2>3, <3>1
      <3>2. CASE k + 1 = id
        BY <1>3, <2>1, <2>2, <3>2
      <3>3. CASE id < k + 1
        BY <1>3, <2>1, <2>2, <2>3, <3>3
      <3>4. QED
        BY <1>3, <3>1, <3>2, <3>3
    <2>5. QED
      BY <2>4
  <1>6. Nat \subseteq S
    <2>1. \A k \in Nat : k \in S => k + 1 \in S
      BY <1>3, <1>5
    <2>. HIDE DEF S
    <2>2. QED
      BY <1>4, <2>1, InductiveSet
  <1>7. Related(MaxRequests)
    BY <1>3, <1>6
  <1>8. QED
    BY <1>1, <1>2, <1>3, <1>7

-----------------------------------------------------------------------------
(* What the requests of a set are for together *)

LEMMA AmountType == ASSUME TypeOK, NEW ids PROVE AmountOf(ids) \in Nat
  <1>1. [id \in RequestIds |-> IF id \in ids THEN pending[id].amount ELSE 0]
          \in Weights
    BY DEF TypeOK, PendingRequest, Weights
  <1>2. QED
    BY <1>1, TotalType DEF AmountOf

\* A set of requests that keep their amounts weighs the same, with one request
\* more by its amount more, with one less by its amount less.
LEMMA AmountAfter ==
    ASSUME TypeOK, TypeOK', NEW id \in RequestIds, NEW ids, NEW rest,
           ids = rest \cup {id}, id \notin rest,
           \A j \in RequestIds \ {id} : pending'[j].amount = pending[j].amount
    PROVE  /\ AmountOf(ids)' = AmountOf(rest) + pending'[id].amount
           /\ AmountOf(rest)' = AmountOf(rest)
           /\ pending'[id].amount = pending[id].amount =>
                AmountOf(rest)' = AmountOf(ids) - pending[id].amount
  <1>1. PICK w : w = [j \in RequestIds |->
                        IF j \in rest THEN pending[j].amount ELSE 0]
    OBVIOUS
  <1>2. PICK v : v = [j \in RequestIds |->
                        IF j \in ids THEN pending[j].amount ELSE 0]
    OBVIOUS
  <1>3. PICK wp : wp = [j \in RequestIds |->
                        IF j \in rest THEN pending'[j].amount ELSE 0]
    OBVIOUS
  <1>4. PICK vp : vp = [j \in RequestIds |->
                        IF j \in ids THEN pending'[j].amount ELSE 0]
    OBVIOUS
  <1>5. /\ \A j \in RequestIds : pending[j].amount \in Nat
        /\ \A j \in RequestIds : pending'[j].amount \in Nat
    BY DEF TypeOK, PendingRequest
  <1>6. w \in Weights /\ v \in Weights /\ vp \in Weights
    BY <1>1, <1>2, <1>4, <1>5 DEF Weights
  <1>7. wp = w
    BY <1>1, <1>3
  <1>8. Total(v) = Total(w) + pending[id].amount
    <2>1. \A j \in RequestIds \ {id} : v[j] = w[j]
      BY <1>1, <1>2
    <2>2. w[id] = 0 /\ v[id] = pending[id].amount
      BY <1>1, <1>2
    <2>3. Total(v) + w[id] = Total(w) + v[id]
      BY <1>6, <2>1, TotalStep
    <2>4. Total(v) \in Nat /\ Total(w) \in Nat
      BY <1>6, TotalType
    <2>5. QED
      BY <1>5, <2>2, <2>3, <2>4
  <1>9. Total(vp) = Total(w) + pending'[id].amount
    <2>1. \A j \in RequestIds \ {id} : vp[j] = w[j]
      BY <1>1, <1>4
    <2>2. w[id] = 0 /\ vp[id] = pending'[id].amount
      BY <1>1, <1>4
    <2>3. Total(vp) + w[id] = Total(w) + vp[id]
      BY <1>6, <2>1, TotalStep
    <2>4. Total(vp) \in Nat /\ Total(w) \in Nat
      BY <1>6, TotalType
    <2>5. QED
      BY <1>5, <2>2, <2>3, <2>4
  <1>10. /\ AmountOf(rest) = Total(w) /\ AmountOf(ids) = Total(v)
         /\ AmountOf(rest)' = Total(wp) /\ AmountOf(ids)' = Total(vp)
    BY <1>1, <1>2, <1>3, <1>4 DEF AmountOf
  <1>11. Total(w) \in Nat
    BY <1>6, TotalType
  <1>12. QED
    BY <1>5, <1>7, <1>8, <1>9, <1>10, <1>11

-----------------------------------------------------------------------------
(* Headroom *)

\* An agent's reservations, read day-aware as the global ones are.
HeldOn(m, day) == IF m.lastResetDay = day THEN m.activeReserved ELSE 0

LiveOf(a) == {id \in LiveReservations : pending[id].agent = a}

\* What reserve, release and recordSpend do to the reservations of the day.
LEMMA HeldAfter ==
    ASSUME NEW m \in Meter, NEW amount \in Nat, NEW day \in Nat
    PROVE  /\ HeldOn(ReserveMeter(m, amount, day), day)
                = HeldOn(m, day) + amount
           /\ HeldOn(ReleaseMeter(m, amount, day), day)
                = Floored(HeldOn(m, day), amount)
           /\ HeldOn(SpendMeter(m, amount, day), day) = HeldOn(m, day)
  <1>1. HeldOn(ReserveMeter(m, amount, day), day) = HeldOn(m, day) + amount
    BY DEF HeldOn, ReserveMeter, Rolled, Meter
  <1>2. HeldOn(ReleaseMeter(m, amount, day), day)
          = Floored(HeldOn(m, day), amount)
    BY DEF HeldOn, ReleaseMeter, Floored, Meter
  <1>3. HeldOn(SpendMeter(m, amount, day), day) = HeldOn(m, day)
    BY DEF HeldOn, SpendMeter, Rolled, Meter
  <1>4. QED
    BY <1>1, <1>2, <1>3

LEMMA GlobalHeldAfter ==
    ASSUME NEW m \in Meter, NEW g \in Ceiling, NEW amount \in Nat,
           NEW day \in Nat, m.lastResetDay <= g.day, g.day <= day
    PROVE  /\ GlobalReserved(ReserveGlobal(g, amount, day), day)
                = GlobalReserved(g, day) + amount
           /\ GlobalReserved(ReleaseGlobal(m, g, amount, day), day)
                = IF m.lastResetDay = day
                  THEN Floored(GlobalReserved(g, day), amount)
                  ELSE GlobalReserved(g, day)
           /\ GlobalReserved(SpendGlobal(g, amount, day), day)
                = GlobalReserved(g, day)
  <1>1. GlobalReserved(ReserveGlobal(g, amount, day), day)
          = GlobalReserved(g, day) + amount
    BY DEF GlobalReserved, ReserveGlobal
  <1>2. GlobalReserved(ReleaseGlobal(m, g, amount, day), day)
          = IF m.lastResetDay = day
            THEN Floored(GlobalReserved(g, day), amount)
            ELSE GlobalReserved(g, day)
    BY DEF GlobalReserved, ReleaseGlobal, Floored, Ceiling, Meter
  <1>3. GlobalReserved(SpendGlobal(g, amount, day), day)
          = GlobalReserved(g, day)
    BY DEF GlobalReserved, SpendGlobal
  <1>4. QED
    BY <1>1, <1>2, <1>3

\* HeadroomNeverLeaks, read day-aware, and the reason the two counters agree
\* on what a release gives back: a reservation of today was made after the
\* agent's counter rolled over to today.
Headroom ==
    /\ \A a \in Agents : HeldOn(meter[a], Today) <= AmountOf(LiveOf(a))
    /\ GlobalReserved(global, Today) <= AmountOf(LiveReservations)

ReservedAfterRoll ==
    \A id \in RequestIds :
        fate[id] # "unissued" =>
            reservedOn[id] <= meter[pending[id].agent].lastResetDay

\* What requests of today are for is a natural number, and so is what the
\* counters hold for them.
LEMMA LiveAmounts ==
    ASSUME TypeOK
    PROVE  /\ \A a : AmountOf(LiveOf(a)) \in Nat
           /\ AmountOf(LiveReservations) \in Nat
  <1>1. ASSUME NEW a PROVE AmountOf(LiveOf(a)) \in Nat
    <2>1. PICK ids : ids = LiveOf(a)
      OBVIOUS
    <2>2. QED
      BY <2>1, AmountType
  <1>2. AmountOf(LiveReservations) \in Nat
    <2>1. PICK ids : ids = LiveReservations
      OBVIOUS
    <2>2. QED
      BY <2>1, AmountType
  <1>3. QED
    BY <1>1, <1>2

LEMMA LiveAmountsAfter ==
    ASSUME TypeOK'
    PROVE  /\ \A a : AmountOf(LiveOf(a))' \in Nat
           /\ AmountOf(LiveReservations)' \in Nat
  <1>1. ASSUME NEW ids
        PROVE  Total([id \in RequestIds |->
                        IF id \in ids THEN pending'[id].amount ELSE 0]) \in Nat
    <2>1. [id \in RequestIds |-> IF id \in ids THEN pending'[id].amount ELSE 0]
            \in Weights
      BY DEF TypeOK, PendingRequest, Weights
    <2>2. QED
      BY <2>1, TotalType
  <1>2. QED
    BY <1>1 DEF AmountOf

LEMMA HeldTypes ==
    ASSUME TypeOK, NEW day
    PROVE  /\ \A a \in Agents : HeldOn(meter[a], day) \in Nat
           /\ GlobalReserved(global, day) \in Nat
  BY DEF HeldOn, GlobalReserved, TypeOK, RegistryTypeOK, Meter, Ceiling

LEMMA HeadroomIsDayAware ==
    ASSUME TypeOK
    PROVE  HeadroomNeverLeaks <=> Headroom
  <1>1. \A a \in Agents : AmountOf(LiveOf(a)) \in Nat
    BY LiveAmounts
  <1>2. QED
    BY <1>1 DEF HeadroomNeverLeaks, Headroom, HeldOn, LiveOf

\* The day of an agent's counter never goes back.
LEMMA MeterDayAdvances ==
    ASSUME TypeOK, GlobalDayCovers, [Next]_vars
    PROVE  \A a \in Agents : meter[a].lastResetDay <= meter'[a].lastResetDay
  <1>0. /\ Today \in Nat
        /\ meter \in [Agents -> Meter]
        /\ \A a \in Agents : meter[a].lastResetDay \in Nat
        /\ \A a \in Agents : meter[a].lastResetDay <= Today
    BY DayType DEF Today, TypeOK, RegistryTypeOK, Meter, GlobalDayCovers,
       Ceiling
  <1>1. CASE UNCHANGED books \/ Tick
    BY <1>0, <1>1 DEF books, Tick
  <1>2. ASSUME NEW a \in Agents, NEW m \in Meter,
               meter' = [meter EXCEPT ![a] = m],
               meter[a].lastResetDay <= m.lastResetDay
        PROVE  \A b \in Agents :
                 meter[b].lastResetDay <= meter'[b].lastResetDay
    BY <1>0, <1>2
  <1>3. ASSUME NEW a \in Agents, NEW amount \in Nat, ReserveStep(a, amount)
        PROVE  \A b \in Agents :
                 meter[b].lastResetDay <= meter'[b].lastResetDay
    <2>1. PICK m \in Meter : m = ReserveMeter(meter[a], amount, Today)
      BY <1>0, MeterTypes
    <2>2. m.lastResetDay = Today
      BY <1>0, <2>1 DEF ReserveMeter, Rolled, Meter
    <2>3. QED
      BY <1>0, <1>2, <1>3, <2>1, <2>2 DEF ReserveStep
  <1>4. ASSUME NEW a \in Agents, NEW amount \in Nat, ReleaseStep(a, amount)
        PROVE  \A b \in Agents :
                 meter[b].lastResetDay <= meter'[b].lastResetDay
    <2>1. PICK m \in Meter : m = ReleaseMeter(meter[a], amount, Today)
      BY <1>0, MeterTypes
    <2>2. m.lastResetDay = meter[a].lastResetDay
      BY <1>0, <2>1 DEF ReleaseMeter, Meter
    <2>3. QED
      BY <1>0, <1>2, <1>4, <2>1, <2>2 DEF ReleaseStep
  <1>5. ASSUME NEW a \in Agents, NEW amount \in Nat, NEW m \in Meter, NEW g,
               SpendStep(a, amount, m, g)
        PROVE  \A b \in Agents :
                 meter[b].lastResetDay <= meter'[b].lastResetDay
    <2>1. SpendMeter(m, amount, Today).lastResetDay = Today
      BY <1>0 DEF SpendMeter, Rolled, Meter
    <2>2. QED
      BY <1>0, <1>2, <1>5, <2>1, MeterTypes DEF SpendStep
  <1>6. \A a \in Agents, amount \in Nat :
          ReleaseMeter(meter[a], amount, Today) \in Meter
    BY <1>0, MeterTypes
  <1>7. QED
    BY <1>0, <1>1, <1>3, <1>4, <1>5, <1>6, BookSteps DEF BookStep

\* A step that leaves the requests alone and reserves nothing more.
LEMMA HeadroomKept ==
    ASSUME TypeOK, TypeOK', Headroom, Today' = Today,
           UNCHANGED <<fate, reservedOn>>,
           \A id \in RequestIds : /\ pending'[id].agent = pending[id].agent
                                  /\ pending'[id].amount = pending[id].amount,
           \A a \in Agents : HeldOn(meter'[a], Today) <= HeldOn(meter[a], Today),
           GlobalReserved(global', Today) <= GlobalReserved(global, Today)
    PROVE  Headroom'
  <1>1. /\ LiveReservations' = LiveReservations
        /\ \A a \in Agents : LiveOf(a)' = LiveOf(a)
    BY DEF LiveReservations, OpenRequests, LiveOf
  <1>2. ASSUME NEW a \in Agents
        PROVE  AmountOf(LiveOf(a))' = AmountOf(LiveOf(a))
    <2>1. [id \in RequestIds |->
             IF id \in LiveOf(a) THEN pending[id].amount ELSE 0]'
            = [id \in RequestIds |->
                 IF id \in LiveOf(a) THEN pending[id].amount ELSE 0]
      BY <1>1
    <2>2. QED
      BY <2>1 DEF AmountOf
  <1>3. AmountOf(LiveReservations)' = AmountOf(LiveReservations)
    <2>1. [id \in RequestIds |->
             IF id \in LiveReservations THEN pending[id].amount ELSE 0]'
            = [id \in RequestIds |->
                 IF id \in LiveReservations THEN pending[id].amount ELSE 0]
      BY <1>1
    <2>2. QED
      BY <2>1 DEF AmountOf
  <1>4. /\ \A a \in Agents : /\ HeldOn(meter'[a], Today) \in Nat
                             /\ HeldOn(meter[a], Today) \in Nat
                             /\ AmountOf(LiveOf(a)) \in Nat
        /\ AmountOf(LiveReservations) \in Nat
        /\ GlobalReserved(global, Today) \in Nat
        /\ GlobalReserved(global', Today) \in Nat
    BY LiveAmounts
    DEF HeldOn, GlobalReserved, TypeOK, RegistryTypeOK, Meter, Ceiling
  <1>5. QED
    BY <1>2, <1>3, <1>4 DEF Headroom

\* A step that changes one request: every other one stays live, or not, for
\* the amount it was.
OnlyChanges(id) ==
    \A j \in RequestIds \ {id} : /\ pending'[j] = pending[j]
                                 /\ fate'[j] = fate[j]
                                 /\ reservedOn'[j] = reservedOn[j]

\* A request that is queued adds its amount to both counters and to what
\* today's requests are for.
LEMMA HeadroomReserved ==
    ASSUME TypeOK, TypeOK', Headroom, Today' = Today,
           NEW id \in RequestIds, NEW a \in Agents, NEW amount \in Nat,
           OnlyChanges(id), fate[id] # "open", fate'[id] = "open",
           reservedOn'[id] = Today, pending'[id].agent = a,
           pending'[id].amount = amount,
           \A b \in Agents :
             HeldOn(meter'[b], Today) =
               IF b = a THEN HeldOn(meter[b], Today) + amount
               ELSE HeldOn(meter[b], Today),
           GlobalReserved(global', Today)
             = GlobalReserved(global, Today) + amount
    PROVE  Headroom'
  <1>0. \A j \in RequestIds \ {id} : pending'[j].amount = pending[j].amount
    BY DEF OnlyChanges
  <1>1. /\ id \notin LiveReservations
        /\ LiveReservations' = LiveReservations \cup {id}
    BY DEF LiveReservations, OpenRequests, OnlyChanges
  <1>2. AmountOf(LiveReservations)' = AmountOf(LiveReservations) + amount
    <2>1. PICK ids : ids = LiveReservations'
      OBVIOUS
    <2>2. PICK rest : rest = LiveReservations
      OBVIOUS
    <2>3. AmountOf(ids)' = AmountOf(rest) + pending'[id].amount
      BY <1>0, <1>1, <2>1, <2>2, AmountAfter
    <2>4. AmountOf(LiveReservations)' = AmountOf(ids)'
      BY <2>1 DEF AmountOf
    <2>5. QED
      BY <2>2, <2>3, <2>4
  <1>3. ASSUME NEW b \in Agents
        PROVE  AmountOf(LiveOf(b))' =
                 IF b = a THEN AmountOf(LiveOf(b)) + amount
                 ELSE AmountOf(LiveOf(b))
    <2>1. PICK ids : ids = LiveOf(b)'
      OBVIOUS
    <2>2. PICK rest : rest = LiveOf(b)
      OBVIOUS
    <2>3. AmountOf(LiveOf(b))' = AmountOf(ids)'
      BY <2>1 DEF AmountOf
    <2>4. id \notin rest
      BY <1>1, <2>2 DEF LiveOf
    <2>5. CASE b = a
      <3>1. ids = rest \cup {id}
        BY <1>1, <2>1, <2>2, <2>5 DEF LiveOf, OnlyChanges, LiveReservations,
           OpenRequests
      <3>2. AmountOf(ids)' = AmountOf(rest) + pending'[id].amount
        BY <1>0, <2>4, <3>1, AmountAfter
      <3>3. QED
        BY <2>2, <2>3, <2>5, <3>2
    <2>6. CASE b # a
      <3>1. ids = rest
        BY <1>1, <2>1, <2>2, <2>6 DEF LiveOf, OnlyChanges, LiveReservations,
           OpenRequests
      <3>2. PICK more : more = rest \cup {id}
        OBVIOUS
      <3>3. AmountOf(rest)' = AmountOf(rest)
        BY <1>0, <2>4, <3>2, AmountAfter
      <3>4. QED
        BY <2>2, <2>3, <2>6, <3>1, <3>3
    <2>7. QED
      BY <2>5, <2>6
  <1>4. QED
    BY <1>2, <1>3, LiveAmounts, HeldTypes DEF Headroom

\* A request that is answered takes its amount, as far as there is as much,
\* out of both counters if it still holds any, and out of what today's
\* requests are for exactly then when it is one of them.
LEMMA HeadroomReleased ==
    ASSUME TypeOK, TypeOK', Headroom, Today' = Today,
           NEW id \in RequestIds, NEW a \in Agents, NEW amount \in Nat,
           OnlyChanges(id), fate[id] = "open", fate'[id] # "open",
           pending[id].agent = a, pending[id].amount = amount,
           pending'[id].agent = a, pending'[id].amount = amount,
           reservedOn[id] = Today => meter[a].lastResetDay = Today,
           \A b \in Agents :
             HeldOn(meter'[b], Today) =
               IF b = a THEN Floored(HeldOn(meter[b], Today), amount)
               ELSE HeldOn(meter[b], Today),
           GlobalReserved(global', Today) =
             IF meter[a].lastResetDay = Today
             THEN Floored(GlobalReserved(global, Today), amount)
             ELSE GlobalReserved(global, Today)
    PROVE  Headroom'
  <1>0. /\ \A j \in RequestIds \ {id} : pending'[j].amount = pending[j].amount
        /\ pending'[id].amount = pending[id].amount
    BY DEF OnlyChanges
  <1>1. /\ id \notin LiveReservations'
        /\ LiveReservations' = LiveReservations \ {id}
        /\ id \in LiveReservations <=> reservedOn[id] = Today
    BY DEF LiveReservations, OpenRequests, OnlyChanges
  <1>2. /\ AmountOf(LiveReservations)' \in Nat
        /\ AmountOf(LiveReservations)' =
             IF reservedOn[id] = Today THEN AmountOf(LiveReservations) - amount
             ELSE AmountOf(LiveReservations)
    <2>1. PICK rest : rest = LiveReservations'
      OBVIOUS
    <2>2. PICK ids : ids = rest \cup {id}
      OBVIOUS
    <2>3. AmountOf(LiveReservations)' = AmountOf(rest)'
      BY <2>1 DEF AmountOf
    <2>4. /\ AmountOf(rest)' = AmountOf(rest)
          /\ AmountOf(rest)' = AmountOf(ids) - pending[id].amount
      BY <1>0, <1>1, <2>1, <2>2, AmountAfter
    <2>5. IF reservedOn[id] = Today THEN LiveReservations = ids
          ELSE LiveReservations = rest
      BY <1>1, <2>1, <2>2
    <2>6. QED
      BY <2>3, <2>4, <2>5, AmountType
  <1>3. ASSUME NEW b \in Agents
        PROVE  /\ AmountOf(LiveOf(b))' \in Nat
               /\ AmountOf(LiveOf(b))' =
                    IF b = a /\ reservedOn[id] = Today
                    THEN AmountOf(LiveOf(b)) - amount ELSE AmountOf(LiveOf(b))
    <2>1. PICK rest : rest = LiveOf(b)'
      OBVIOUS
    <2>2. PICK ids : ids = rest \cup {id}
      OBVIOUS
    <2>3. AmountOf(LiveOf(b))' = AmountOf(rest)'
      BY <2>1 DEF AmountOf
    <2>4. id \notin rest
      BY <1>1, <2>1 DEF LiveOf
    <2>5. /\ AmountOf(rest)' = AmountOf(rest)
          /\ AmountOf(rest)' = AmountOf(ids) - pending[id].amount
      BY <1>0, <2>2, <2>4, AmountAfter
    <2>6. LiveOf(b)' = LiveOf(b) \ {id}
      BY <1>1 DEF LiveOf, OnlyChanges, LiveReservations, OpenRequests
    <2>7. id \in LiveOf(b) <=> (b = a /\ reservedOn[id] = Today)
      BY <1>1 DEF LiveOf
    <2>8. IF b = a /\ reservedOn[id] = Today THEN LiveOf(b) = ids
          ELSE LiveOf(b) = rest
      BY <2>1, <2>2, <2>6, <2>7
    <2>9. QED
      BY <2>3, <2>5, <2>8, AmountType
  <1>4. \A b \in Agents : HeldOn(meter[b], Today)' <= AmountOf(LiveOf(b))'
    BY <1>3, LiveAmounts, HeldTypes DEF Headroom, Floored
  <1>5. GlobalReserved(global, Today)' <= AmountOf(LiveReservations)'
    BY <1>2, LiveAmounts, HeldTypes DEF Headroom, Floored
  <1>6. QED
    BY <1>4, <1>5 DEF Headroom

\* A request that is answered keeps what it asked for and when it was queued.
AnswerStep(id) ==
    /\ OnlyChanges(id)
    /\ fate[id] = "open" /\ fate'[id] \in {"paid", "rejected"}
    /\ reservedOn' = reservedOn
    /\ pending'[id].agent = pending[id].agent
    /\ pending'[id].amount = pending[id].amount

QueueStep(id, a, amount) ==
    /\ OnlyChanges(id)
    /\ fate[id] = "unissued" /\ fate'[id] = "open"
    /\ reservedOn'[id] = Today
    /\ pending'[id].agent = a /\ pending'[id].amount = amount

QuietStep ==
    /\ UNCHANGED <<fate, reservedOn>>
    /\ \A id \in RequestIds : /\ pending'[id].agent = pending[id].agent
                              /\ pending'[id].amount = pending[id].amount

LEMMA AnswerSteps ==
    ASSUME TypeOK, RequestsInv, NEW id \in RequestIds,
           ApprovePending(id) \/ RejectPending(id)
    PROVE  AnswerStep(id) /\ pending[id].agent \in Agents
  <1>0. /\ pending \in [RequestIds -> PendingRequest]
        /\ fate \in [RequestIds -> {"unissued", "open", "paid", "rejected"}]
        /\ nextRequestId \in Nat
    BY GuardAssumption DEF TypeOK
  <1>1. /\ pending[id].agent \in Agents /\ ~pending[id].resolved
        /\ pending' = [pending EXCEPT ![id] = Resolved(@)]
        /\ reservedOn' = reservedOn
    BY DEF ApprovePending, RejectPending
  <1>2. fate[id] = "open"
    BY <1>0, <1>1, GuardAssumption
    DEF RequestsInv, FlagsMatchFate, UnissuedBelongToNobody, RequestIds
  <1>3. PICK f \in {"paid", "rejected"} : fate' = [fate EXCEPT ![id] = f]
    BY DEF ApprovePending, RejectPending
  <1>4. /\ pending'[id].agent = pending[id].agent
        /\ pending'[id].amount = pending[id].amount
    BY <1>0, <1>1 DEF Resolved, PendingRequest
  <1>5. QED
    BY <1>0, <1>1, <1>2, <1>3, <1>4 DEF AnswerStep, OnlyChanges

LEMMA QueueSteps ==
    ASSUME TypeOK, RequestsInv, NEW a \in Agents, NEW c \in Counterparties,
           NEW amount \in Amounts, RequestEscalated(a, c, amount)
    PROVE  \E id \in RequestIds : QueueStep(id, a, amount)
  <1>0. /\ nextRequestId \in 0..MaxRequests /\ MaxRequests \in Nat
        /\ pending \in [RequestIds -> PendingRequest]
        /\ fate \in [RequestIds -> {"unissued", "open", "paid", "rejected"}]
        /\ reservedOn \in [RequestIds -> Nat]
    BY GuardAssumption DEF TypeOK
  <1>1. PICK id \in RequestIds : id = nextRequestId + 1
    BY <1>0 DEF RequestEscalated, RequestIds
  <1>2. fate[id] = "unissued"
    BY <1>0, <1>1 DEF RequestsInv, FlagsMatchFate
  <1>3. PICK r : r = [agent |-> a, counterparty |-> c, amount |-> amount,
                      resolved |-> FALSE]
    OBVIOUS
  <1>4. /\ pending' = [pending EXCEPT ![id] = r]
        /\ reservedOn' = [reservedOn EXCEPT ![id] = Today]
        /\ fate' = [fate EXCEPT ![id] = "open"]
    BY <1>1, <1>3 DEF RequestEscalated
  <1>5. QED
    BY <1>0, <1>2, <1>3, <1>4 DEF QueueStep, OnlyChanges

\* Every other transaction leaves what the requests are and hold alone.
LEMMA QuietSteps ==
    ASSUME TypeOK,
           \/ AdminTransaction \/ Tick \/ UNCHANGED vars
           \/ \E value \in BOOLEAN : SetPaused(value)
           \/ \E a \in Agents, c \in Counterparties, amount \in Amounts :
                RequestBlocked(a, c, amount) \/ RequestPaid(a, c, amount)
           \/ \E id \in RequestIds : RejectUnissued(id)
    PROVE  QuietStep
  <1>1. CASE UNCHANGED <<pending, fate, reservedOn>>
    BY <1>1 DEF QuietStep
  <1>2. ASSUME NEW id \in RequestIds, RejectUnissued(id) PROVE QuietStep
    BY <1>2 DEF RejectUnissued, Resolved, PendingRequest, TypeOK, historyVars,
       QuietStep
  <1>3. QED
    BY <1>1, <1>2 DEF AdminTransaction, Tick, vars, SetPaused, RequestBlocked,
       RequestPaid, guardVars, historyVars

\* A reservation of today is never older than its agent's counters.
LEMMA ReservationsAgree ==
    ASSUME TypeOK, TypeOK', GlobalDayCovers, RequestsInv, ReservedAfterRoll,
           [Next]_vars
    PROVE  ReservedAfterRoll'
  <1>0. /\ Today \in Nat /\ nextRequestId \in Nat
        /\ \A a \in Agents : /\ meter[a].lastResetDay \in Nat
                             /\ meter'[a].lastResetDay \in Nat
                             /\ meter[a].lastResetDay <= meter'[a].lastResetDay
        /\ \A id \in RequestIds : reservedOn[id] \in Nat
    BY DayType, MeterDayAdvances, GuardAssumption
    DEF Today, TypeOK, RegistryTypeOK, Meter
  <1>1. \A id \in RequestIds :
          fate[id] # "unissued" => pending[id].agent \in Agents
    BY <1>0 DEF RequestsInv, FlagsMatchFate, RequestIds
  <1>2. ASSUME NEW id \in RequestIds, fate[id] # "unissued",
               reservedOn'[id] = reservedOn[id],
               pending'[id].agent = pending[id].agent
        PROVE  reservedOn'[id] <= meter'[pending'[id].agent].lastResetDay
    <2>1. PICK a \in Agents : a = pending[id].agent
      BY <1>1, <1>2
    <2>2. reservedOn[id] <= meter[a].lastResetDay
      BY <1>2, <2>1 DEF ReservedAfterRoll
    <2>3. QED
      BY <1>0, <1>2, <2>1, <2>2
  <1>3. CASE QuietStep
    BY <1>2, <1>3 DEF QuietStep, ReservedAfterRoll
  <1>4. ASSUME NEW id \in RequestIds, AnswerStep(id)
        PROVE  ReservedAfterRoll'
    BY <1>2, <1>4 DEF AnswerStep, OnlyChanges, ReservedAfterRoll
  <1>5. ASSUME NEW a \in Agents, NEW c \in Counterparties,
               NEW amount \in Amounts, RequestEscalated(a, c, amount)
        PROVE  ReservedAfterRoll'
    <2>1. PICK id \in RequestIds : QueueStep(id, a, amount)
      BY <1>5, QueueSteps
    <2>2. meter'[a].lastResetDay = Today
      <3>1. amount \in Nat /\ meter \in [Agents -> Meter]
        BY GuardAssumption DEF TypeOK, RegistryTypeOK
      <3>2. meter'[a] = ReserveMeter(meter[a], amount, Today)
        BY <1>5, <3>1 DEF RequestEscalated
      <3>3. QED
        BY <3>1, <3>2 DEF ReserveMeter, Rolled, Meter
    <2>3. reservedOn'[id] <= meter'[pending'[id].agent].lastResetDay
      BY <1>0, <2>1, <2>2 DEF QueueStep
    <2>4. ASSUME NEW j \in RequestIds \ {id}, fate'[j] # "unissued"
          PROVE  reservedOn'[j] <= meter'[pending'[j].agent].lastResetDay
      BY <1>2, <2>1, <2>4 DEF QueueStep, OnlyChanges
    <2>5. QED
      BY <2>3, <2>4 DEF ReservedAfterRoll
  <1>6. QED
    BY <1>3, <1>4, <1>5, AnswerSteps, QuietSteps DEF Next, RequestPayment

\* What the counters hold is never more than today's open requests: answers
\* that come on a later day, in any order, give back at most what is there.
THEOREM HeadroomCorrect == Spec => []HeadroomNeverLeaks
  <1>. DEFINE Inv == Headroom /\ ReservedAfterRoll
  <1>1. Init /\ TypeOK => Inv
    <2> SUFFICES ASSUME Init, TypeOK PROVE Inv
      OBVIOUS
    <2>1. /\ \A a \in Agents : HeldOn(meter[a], Today) = 0
          /\ GlobalReserved(global, Today) = 0
      BY DEF Init, RegistryInit, HeldOn, GlobalReserved
    <2>2. Headroom
      BY <2>1, LiveAmounts DEF Headroom
    <2>3. ReservedAfterRoll
      BY DEF Init, ReservedAfterRoll
    <2>4. QED
      BY <2>2, <2>3
  <1>2. /\ TypeOK /\ TypeOK' /\ GlobalDayCovers /\ RequestsInv
        /\ Inv /\ [Next]_vars
        => Inv'
    <2> SUFFICES ASSUME TypeOK, TypeOK', GlobalDayCovers, RequestsInv, Inv,
                        [Next]_vars
                 PROVE  Headroom'
      BY ReservationsAgree
    <2>0. /\ Today \in Nat
          /\ global \in Ceiling
          /\ meter \in [Agents -> Meter]
          /\ \A a \in Agents : meter[a].lastResetDay <= global.day
          /\ global.day <= Today
      BY DayType DEF Today, TypeOK, RegistryTypeOK, GlobalDayCovers
    <2>1. CASE QuietStep /\ UNCHANGED books
      <3>1. Today' = Today /\ meter' = meter /\ global' = global
        BY <2>1 DEF books, Today
      <3>2. QED
        BY <2>1, <3>1, HeadroomKept, HeldTypes DEF QuietStep
    <2>2. CASE \/ AdminTransaction \/ UNCHANGED vars
               \/ \E value \in BOOLEAN : SetPaused(value)
               \/ \E a \in Agents, c \in Counterparties, amount \in Amounts :
                    RequestBlocked(a, c, amount)
               \/ \E id \in RequestIds : RejectUnissued(id)
      <3>1. QuietStep
        BY <2>2, QuietSteps
      <3>2. UNCHANGED books
        BY <2>2
        DEF AdminTransaction, RegistryAdmin, SetGlobalDailyCap, SchedulePolicy,
            SetPolicyNow, ApplyPolicy, CancelPolicyChange, SetAllowlist,
            SetPaused, RequestBlocked, RejectUnissued, vars, registryVars,
            historyVars, books
      <3>3. QED
        BY <2>1, <3>1, <3>2
    <2>3. CASE Tick
      <3>1. QuietStep /\ meter' = meter /\ global' = global
        BY <2>3, QuietSteps DEF Tick
      <3>2. CASE Today' = Today
        BY <3>1, <3>2, HeadroomKept, HeldTypes DEF QuietStep
      <3>3. CASE Today' # Today
        <4>1. Today < Today' /\ Today' \in Nat
          BY <2>3, <3>3, TodayAdvances
        <4>2. global'.day # Today'
          BY <2>0, <3>1, <4>1 DEF Ceiling
        <4>3. \A a \in Agents : meter'[a].lastResetDay # Today'
          BY <2>0, <3>1, <4>1 DEF Meter, Ceiling
        <4>4. /\ \A a \in Agents : HeldOn(meter'[a], Today') = 0
              /\ GlobalReserved(global', Today') = 0
          BY <4>2, <4>3 DEF HeldOn, GlobalReserved
        <4>5. /\ \A a : AmountOf(LiveOf(a))' \in Nat
              /\ AmountOf(LiveReservations)' \in Nat
          BY LiveAmountsAfter
        <4>6. QED
          BY <4>4, <4>5 DEF Headroom
      <3>4. QED
        BY <3>2, <3>3
    <2>4. ASSUME NEW a \in Agents, NEW c \in Counterparties,
                 NEW amount \in Amounts, RequestPaid(a, c, amount)
          PROVE  Headroom'
      <3>0. amount \in Nat
        BY GuardAssumption
      <3>1. QuietStep /\ Today' = Today
        BY <2>4, QuietSteps DEF RequestPaid, RegistryCapsUnchanged, Today
      <3>2. /\ meter' = [meter EXCEPT ![a] = SpendMeter(@, amount, Today)]
            /\ global' = SpendGlobal(global, amount, Today)
        BY <2>4 DEF RequestPaid
      <3>3. \A b \in Agents : HeldOn(meter'[b], Today) = HeldOn(meter[b], Today)
        BY <2>0, <3>0, <3>2, HeldAfter
      <3>4. GlobalReserved(global', Today) = GlobalReserved(global, Today)
        BY <2>0, <3>0, <3>2, GlobalHeldAfter
      <3>5. QED
        BY <3>1, <3>3, <3>4, HeadroomKept, HeldTypes DEF QuietStep
    <2>5. ASSUME NEW a \in Agents, NEW c \in Counterparties,
                 NEW amount \in Amounts, RequestEscalated(a, c, amount)
          PROVE  Headroom'
      <3>0. amount \in Nat
        BY GuardAssumption
      <3>1. PICK id \in RequestIds : QueueStep(id, a, amount)
        BY <2>5, QueueSteps
      <3>2. /\ meter' = [meter EXCEPT ![a] = ReserveMeter(@, amount, Today)]
            /\ global' = ReserveGlobal(global, amount, Today)
            /\ Today' = Today
        BY <2>5 DEF RequestEscalated, RegistryCapsUnchanged, Today
      <3>3. \A b \in Agents :
              HeldOn(meter'[b], Today) =
                IF b = a THEN HeldOn(meter[b], Today) + amount
                ELSE HeldOn(meter[b], Today)
        BY <2>0, <3>0, <3>2, HeldAfter
      <3>4. GlobalReserved(global', Today)
              = GlobalReserved(global, Today) + amount
        BY <2>0, <3>0, <3>2, GlobalHeldAfter
      <3>5. QED
        BY <3>0, <3>1, <3>2, <3>3, <3>4, HeadroomReserved DEF QueueStep
    <2>6. ASSUME NEW id \in RequestIds, ApprovePending(id)
          PROVE  Headroom'
      <3>1. PICK a \in Agents : a = pending[id].agent
        BY <2>6, AnswerSteps
      <3>2. PICK amount \in Nat : amount = pending[id].amount
        BY DEF TypeOK, PendingRequest
      <3>3. AnswerStep(id) /\ Today' = Today
        BY <2>6, AnswerSteps DEF ApprovePending, RegistryCapsUnchanged, Today
      <3>4. PICK m \in Meter : m = ReleaseMeter(meter[a], amount, Today)
        BY <2>0, <3>1, <3>2, MeterTypes
      <3>5. PICK g \in Ceiling :
              g = ReleaseGlobal(meter[a], global, amount, Today)
        BY <2>0, <3>1, <3>2, GlobalTypes
      <3>6. /\ meter' = [meter EXCEPT ![a] = SpendMeter(m, amount, Today)]
            /\ global' = SpendGlobal(g, amount, Today)
        BY <2>6, <3>1, <3>2, <3>4, <3>5 DEF ApprovePending
      <3>7. \A b \in Agents :
              HeldOn(meter'[b], Today) =
                IF b = a THEN Floored(HeldOn(meter[b], Today), amount)
                ELSE HeldOn(meter[b], Today)
        BY <2>0, <3>2, <3>4, <3>6, HeldAfter
      <3>8. GlobalReserved(global', Today) =
              IF meter[a].lastResetDay = Today
              THEN Floored(GlobalReserved(global, Today), amount)
              ELSE GlobalReserved(global, Today)
        BY <2>0, <3>1, <3>2, <3>5, <3>6, GlobalHeldAfter DEF SpendGlobal,
           GlobalReserved
      <3>9. reservedOn[id] = Today => meter[a].lastResetDay = Today
        <4>1. reservedOn[id] <= meter[a].lastResetDay
          BY <3>1, <3>3 DEF ReservedAfterRoll, AnswerStep
        <4>2. meter[a].lastResetDay \in Nat
          BY <2>0 DEF Meter
        <4>3. QED
          BY <2>0, <4>1, <4>2 DEF Ceiling
      <3>10. QED
        BY <3>1, <3>2, <3>3, <3>7, <3>8, <3>9, HeadroomReleased
        DEF AnswerStep
    <2>7. ASSUME NEW id \in RequestIds, RejectPending(id)
          PROVE  Headroom'
      <3>1. PICK a \in Agents : a = pending[id].agent
        BY <2>7, AnswerSteps
      <3>2. PICK amount \in Nat : amount = pending[id].amount
        BY DEF TypeOK, PendingRequest
      <3>3. AnswerStep(id) /\ Today' = Today
        BY <2>7, AnswerSteps DEF RejectPending, RegistryCapsUnchanged, Today
      <3>4. PICK m \in Meter : m = ReleaseMeter(meter[a], amount, Today)
        BY <2>0, <3>1, <3>2, MeterTypes
      <3>5. PICK g \in Ceiling :
              g = ReleaseGlobal(meter[a], global, amount, Today)
        BY <2>0, <3>1, <3>2, GlobalTypes
      <3>6. /\ meter' = [meter EXCEPT ![a] = m]
            /\ global' = g
        BY <2>7, <3>1, <3>2, <3>4, <3>5 DEF RejectPending
      <3>7. \A b \in Agents :
              HeldOn(meter'[b], Today) =
                IF b = a THEN Floored(HeldOn(meter[b], Today), amount)
                ELSE HeldOn(meter[b], Today)
        BY <2>0, <3>2, <3>4, <3>6, HeldAfter
      <3>8. GlobalReserved(global', Today) =
              IF meter[a].lastResetDay = Today
              THEN Floored(GlobalReserved(global, Today), amount)
              ELSE GlobalReserved(global, Today)
        BY <2>0, <3>1, <3>2, <3>5, <3>6, GlobalHeldAfter
      <3>9. reservedOn[id] = Today => meter[a].lastResetDay = Today
        <4>1. reservedOn[id] <= meter[a].lastResetDay
          BY <3>1, <3>3 DEF ReservedAfterRoll, AnswerStep
        <4>2. meter[a].lastResetDay \in Nat
          BY <2>0 DEF Meter
        <4>3. QED
          BY <2>0, <4>1, <4>2 DEF Ceiling
      <3>10. QED
        BY <3>1, <3>2, <3>3, <3>7, <3>8, <3>9, HeadroomReleased
        DEF AnswerStep
    <2>8. QED
      BY <2>2, <2>3, <2>4, <2>5, <2>6, <2>7 DEF Next, RequestPayment
  <1>3. TypeOK /\ Inv => HeadroomNeverLeaks
    BY HeadroomIsDayAware
  <1>4. QED
    BY <1>1, <1>2, <1>3, TypeCorrect, DaysCovered, RequestsCorrect, PTL
    DEF Spec
=============================================================================
