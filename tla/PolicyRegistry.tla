--------------------------- MODULE PolicyRegistry ---------------------------
(***************************************************************************)
(* contracts/src/PolicyRegistry.sol: spending policies, the lazily reset   *)
(* daily counters and the reservations of escalated requests.              *)
(*                                                                         *)
(* The administrator's calls and applyPolicy are transactions of their own *)
(* and are actions here.  reserve, release and recordSpend are only ever   *)
(* called by SpendGuard, several of them in one transaction, so they are   *)
(* operators from counters to counters that module SpendGuard composes.  A *)
(* transaction that reverts changes nothing and is a step not taken.       *)
(***************************************************************************)
EXTENDS Naturals

CONSTANTS
    Agents,          \* addresses a policy can be set for
    Counterparties,  \* addresses a payment can go to
    DayLength,       \* length of "1 days" in clock units
    CapChangeDelay,  \* CAP_CHANGE_DELAY in clock units
    UnlimitedCap,    \* initial globalDailyCap, type(uint256).max
    PolicyInputs,    \* cap triples the administrator submits
    GlobalCapInputs, \* global ceilings the administrator submits
    MaxTime          \* bound: the clock stops here

Caps == [dailyCap: Nat, perTxCap: Nat, escalationThreshold: Nat]

ASSUME RegistryAssumption ==
    /\ DayLength \in Nat \ {0}
    /\ CapChangeDelay \in Nat \ {0}
    /\ UnlimitedCap \in Nat
    /\ PolicyInputs \subseteq Caps
    /\ GlobalCapInputs \subseteq Nat
    /\ MaxTime \in Nat

VARIABLES
    now,            \* block.timestamp
    policies,       \* the caps of Policy, per agent
    meter,          \* spentToday, activeReserved, lastResetDay of Policy
    pendingPolicy,  \* scheduled cap increase per agent; effectiveAt = 0: none
    allowlist,      \* set of <<agent, counterparty>>
    globalDailyCap,
    global,         \* globalSpentToday, globalReservedToday, lastGlobalResetDay
    announcedAt     \* history: when the scheduled increase was submitted

registryVars == <<now, policies, meter, pendingPolicy, allowlist,
                  globalDailyCap, global, announcedAt>>

Today == now \div DayLength

Policy == [exists: BOOLEAN, dailyCap: Nat, perTxCap: Nat,
           escalationThreshold: Nat]
Meter == [spentToday: Nat, activeReserved: Nat, lastResetDay: Nat]
Ceiling == [spent: Nat, reserved: Nat, day: Nat]
Scheduled == [dailyCap: Nat, perTxCap: Nat, escalationThreshold: Nat,
              effectiveAt: Nat]

NoPolicy == [exists |-> FALSE, dailyCap |-> 0, perTxCap |-> 0,
             escalationThreshold |-> 0]
NoSchedule == [dailyCap |-> 0, perTxCap |-> 0, escalationThreshold |-> 0,
               effectiveAt |-> 0]

-----------------------------------------------------------------------------
(* The counters.  m is an agent's Meter, g the global Ceiling.             *)

\* Mutant: the rollover forgets to clear spentToday.
RolledKeepingSpent(m, day) ==
    [spentToday |-> m.spentToday, lastResetDay |-> day,
     activeReserved |-> IF m.lastResetDay = day THEN m.activeReserved ELSE 0]

\* The day rollover at the head of reserve and recordSpend.
Rolled(m, day) ==
    IF m.lastResetDay = day THEN m
    ELSE [spentToday |-> 0, activeReserved |-> 0, lastResetDay |-> day]

\* The day-aware reads of the global counters.
GlobalSpent(g, day) == IF g.day = day THEN g.spent ELSE 0
GlobalReserved(g, day) == IF g.day = day THEN g.reserved ELSE 0

\* Mutant: unchecked subtraction.
Unfloored(x, amount) == x - amount

\* What release subtracts, never going below zero.
Floored(x, amount) == IF amount > x THEN 0 ELSE x - amount

\* reserve: its requires, then the two counters it writes.
CanReserve(p, m, g, ceiling, amount, day) ==
    /\ p.exists
    /\ Rolled(m, day).spentToday + Rolled(m, day).activeReserved + amount
         <= p.dailyCap
    /\ GlobalSpent(g, day) + GlobalReserved(g, day) + amount <= ceiling

ReserveMeter(m, amount, day) ==
    [Rolled(m, day) EXCEPT !.activeReserved = @ + amount]

\* Mutant: every reservation starts the global counter over.
ReserveGlobalResetting(g, amount, day) ==
    [spent |-> 0, reserved |-> GlobalReserved(g, day) + amount, day |-> day]

\* Mutant: the day of the global counters is left to recordSpend.
ReserveGlobalKeepingDay(g, amount, day) ==
    [g EXCEPT !.reserved = GlobalReserved(g, day) + amount]

\* globalSpentToday is not written here, whatever day it belongs to.
ReserveGlobal(g, amount, day) ==
    [spent |-> g.spent, reserved |-> GlobalReserved(g, day) + amount,
     day |-> day]

\* release: a no-op unless the agent's counters are today's.
ReleaseMeter(m, amount, day) ==
    IF m.lastResetDay = day
    THEN [m EXCEPT !.activeReserved = Floored(@, amount)]
    ELSE m

\* Mutant: release gives back the agent's headroom but not the global one.
ReleaseGlobalForgotten(m, g, amount, day) == g

ReleaseGlobal(m, g, amount, day) ==
    IF m.lastResetDay = day
    THEN [g EXCEPT !.reserved = Floored(@, amount)]
    ELSE g

\* Mutant: trusts checkPolicy and the reservation for the daily cap.
CanSpendTrusting(p, m, g, ceiling, amount, day) ==
    /\ p.exists
    /\ GlobalSpent(g, day) + amount <= ceiling

\* recordSpend: its requires, then the two counters it writes.
CanSpend(p, m, g, ceiling, amount, day) ==
    /\ p.exists
    /\ Rolled(m, day).spentToday + amount <= p.dailyCap
    /\ GlobalSpent(g, day) + amount <= ceiling

SpendMeter(m, amount, day) ==
    [Rolled(m, day) EXCEPT !.spentToday = @ + amount]

SpendGlobal(g, amount, day) ==
    [spent |-> GlobalSpent(g, day) + amount,
     reserved |-> GlobalReserved(g, day),
     day |-> day]

\* Mutant: checkPolicy does not count the reservations queued ahead.
AllowedIgnoringReserved(p, listed, m, g, ceiling, amount, day) ==
    /\ p.exists
    /\ listed
    /\ amount <= p.perTxCap
    /\ (IF m.lastResetDay = day THEN m.spentToday ELSE 0) + amount <= p.dailyCap
    /\ GlobalSpent(g, day) + amount <= ceiling

\* checkPolicy, for an agent with policy p: is the payment allowed, and does
\* an allowed payment need an approver?
Allowed(p, listed, m, g, ceiling, amount, day) ==
    /\ p.exists
    /\ listed
    /\ amount <= p.perTxCap
    /\ LET spent == IF m.lastResetDay = day THEN m.spentToday ELSE 0
           reserved == IF m.lastResetDay = day THEN m.activeReserved ELSE 0
       IN  spent + reserved + amount <= p.dailyCap
    /\ GlobalSpent(g, day) + GlobalReserved(g, day) + amount <= ceiling

NeedsApproval(p, amount) == amount > p.escalationThreshold

-----------------------------------------------------------------------------
(* Transactions of the administrator, and applyPolicy which anyone sends.  *)

RegistryInit ==
    /\ now = DayLength   \* some day after the zero the counters start at
    /\ policies = [a \in Agents |-> NoPolicy]
    /\ meter = [a \in Agents |->
                  [spentToday |-> 0, activeReserved |-> 0, lastResetDay |-> 0]]
    /\ pendingPolicy = [a \in Agents |-> NoSchedule]
    /\ allowlist = {}
    /\ globalDailyCap = UnlimitedCap
    /\ global = [spent |-> 0, reserved |-> 0, day |-> 0]
    /\ announcedAt = [a \in Agents |-> 0]

SetGlobalDailyCap(cap) ==
    /\ globalDailyCap' = cap
    /\ UNCHANGED <<now, policies, meter, pendingPolicy, allowlist, global,
                   announcedAt>>

\* _applyPolicy
Enforced(c) == [exists |-> TRUE, dailyCap |-> c.dailyCap,
                perTxCap |-> c.perTxCap,
                escalationThreshold |-> c.escalationThreshold]

WellFormed(c) ==
    /\ c.perTxCap <= c.dailyCap
    /\ c.escalationThreshold <= c.perTxCap

IsRaise(p, c) == p.exists /\ c.dailyCap > p.dailyCap

\* setPolicy that raises the daily cap: scheduled, replacing any earlier one.
SchedulePolicy(a, c) ==
    /\ WellFormed(c)
    /\ IsRaise(policies[a], c)
    /\ pendingPolicy' = [pendingPolicy EXCEPT ![a] =
           [dailyCap |-> c.dailyCap, perTxCap |-> c.perTxCap,
            escalationThreshold |-> c.escalationThreshold,
            effectiveAt |-> now + CapChangeDelay]]
    /\ announcedAt' = [announcedAt EXCEPT ![a] = now]
    /\ UNCHANGED <<now, policies, meter, allowlist, globalDailyCap, global>>

\* setPolicy otherwise: applied at once; a scheduled increase stays scheduled.
SetPolicyNow(a, c) ==
    /\ WellFormed(c)
    /\ ~IsRaise(policies[a], c)
    /\ policies' = [policies EXCEPT ![a] = Enforced(c)]
    /\ UNCHANGED <<now, meter, pendingPolicy, allowlist, globalDailyCap,
                   global, announcedAt>>

\* Mutant: a scheduled increase may be applied at any time.
IsScheduled(s) == s.effectiveAt # 0

\* applyPolicy's requires: scheduled, and the delay has elapsed.
IsDue(s) == s.effectiveAt # 0 /\ now >= s.effectiveAt

ApplyPolicy(a) ==
    /\ IsDue(pendingPolicy[a])
    /\ policies' = [policies EXCEPT ![a] = Enforced(pendingPolicy[a])]
    /\ pendingPolicy' = [pendingPolicy EXCEPT ![a] = NoSchedule]
    /\ announcedAt' = [announcedAt EXCEPT ![a] = 0]
    /\ UNCHANGED <<now, meter, allowlist, globalDailyCap, global>>

CancelPolicyChange(a) ==
    /\ pendingPolicy[a].effectiveAt # 0
    /\ pendingPolicy' = [pendingPolicy EXCEPT ![a] = NoSchedule]
    /\ announcedAt' = [announcedAt EXCEPT ![a] = 0]
    /\ UNCHANGED <<now, policies, meter, allowlist, globalDailyCap, global>>

SetAllowlist(a, c, allowed) ==
    /\ allowlist' = IF allowed THEN allowlist \cup {<<a, c>>}
                    ELSE allowlist \ {<<a, c>>}
    /\ UNCHANGED <<now, policies, meter, pendingPolicy, globalDailyCap,
                   global, announcedAt>>

RegistryAdmin ==
    \/ \E cap \in GlobalCapInputs : SetGlobalDailyCap(cap)
    \/ \E a \in Agents :
         \/ \E c \in PolicyInputs : SchedulePolicy(a, c) \/ SetPolicyNow(a, c)
         \/ ApplyPolicy(a)
         \/ CancelPolicyChange(a)
         \/ \E c \in Counterparties, allowed \in BOOLEAN :
              SetAllowlist(a, c, allowed)

-----------------------------------------------------------------------------
RegistryTypeOK ==
    /\ now \in Nat
    /\ policies \in [Agents -> Policy]
    /\ meter \in [Agents -> Meter]
    /\ pendingPolicy \in [Agents -> Scheduled]
    /\ allowlist \subseteq Agents \X Counterparties
    /\ globalDailyCap \in Nat
    /\ global \in Ceiling
    /\ announcedAt \in [Agents -> Nat]
=============================================================================
