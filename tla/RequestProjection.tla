-------------------------- MODULE RequestProjection --------------------------
(***************************************************************************)
(* The approval queue's rows in Postgres: how the watchers of five event   *)
(* types (indexer/watchPaymentEvents.ts, watchPolicyEvents.ts), the route  *)
(* POST /payments and the sweeper (indexer/expirePendingRequests.ts) write *)
(* pending_requests and events.  One deployment and one agent; each event  *)
(* type has a watcher of its own, so the events of one request are handled *)
(* in any order.  Every statement is a step.                               *)
(***************************************************************************)
EXTENDS Integers

CONSTANTS
    Requests,           \* the escalations the chain may emit
    Sweeps,             \* sweeps that may overlap: ticks, or two leaders
    TTL,                \* RESERVATION_TTL_SECONDS
    MaxTime,            \* bound: the clock
    MaxFaults,          \* bound: statements refused, processes that die
    NoRequest

ASSUME ProjectionAssumption ==
    /\ TTL \in Nat \ {0}
    /\ MaxTime \in Nat
    /\ MaxFaults \in Nat
    /\ NoRequest \notin Requests

VARIABLES
    now,
    fate, escalatedAt,                  \* the chain
    agentRow, row, trail,               \* the database
    handler, sweep,                     \* the processes
    closedBy, unexplained, faults       \* observation

chainVars == <<fate, escalatedAt>>
dbVars == <<agentRow, row, trail>>
seenVars == <<closedBy, unexplained, faults>>
vars == <<now, chainVars, dbVars, handler, sweep, seenVars>>

Times == 0..MaxTime
NoTime == -1

\* PaymentEscalated, SpendReserved, PaymentApproved, PendingApproved and
\* PendingRejected.
Events == {"escalated", "reserved", "paid", "approved", "rejected"}

\* The statement a handler is at; "lost" is an event whose marker a dead
\* process left behind, or whose attempts ran out.
Statements == {"entry", "insert", "stamp", "charge", "close"}
First == [e \in Events |->
    CASE e \in {"escalated", "paid"} -> "entry"
      [] e = "reserved" -> "stamp"
      [] OTHER -> "close"]

NoRow == [status |-> "absent", createdAt |-> NoTime, expiresAt |-> NoTime]
Row == {NoRow} \union
       [status : {"open", "resolved"}, createdAt : Times,
        expiresAt : {NoTime} \union Nat]

\* What the events table says of a request, and what its agent was charged.
Trail == [escalated : Nat, approved : Nat, expired : Nat, charged : Nat]
NoTrail == [escalated |-> 0, approved |-> 0, expired |-> 0, charged |-> 0]

Sweep == [pc : {"idle", "claim"}, todo : SUBSET Requests, at : {NoRequest}]
         \union [pc : {"explain"}, todo : SUBSET Requests, at : Requests]
NoSweep == [pc |-> "idle", todo |-> {}, at |-> NoRequest]

TypeOK ==
    /\ now \in Times
    /\ fate \in [Requests -> {"unsent", "pending", "approved", "rejected"}]
    /\ escalatedAt \in [Requests -> Times]
    /\ agentRow \in BOOLEAN
    /\ row \in [Requests -> Row]
    /\ trail \in [Requests -> Trail]
    /\ handler \in [Requests -> [Events ->
                        Statements \union {"unsent", "done", "lost"}]]
    /\ sweep \in [Sweeps -> Sweep]
    /\ closedBy \in [Requests -> {"nobody", "decision", "expiry"}]
    /\ unexplained \subseteq Requests
    /\ faults \in 0..MaxFaults

Init ==
    /\ now = 0
    /\ fate = [r \in Requests |-> "unsent"]
    /\ escalatedAt = [r \in Requests |-> 0]
    /\ agentRow \in BOOLEAN
    /\ row = [r \in Requests |-> NoRow]
    /\ trail = [r \in Requests |-> NoTrail]
    /\ handler = [r \in Requests |-> [e \in Events |-> "unsent"]]
    /\ sweep = [s \in Sweeps |-> NoSweep]
    /\ closedBy = [r \in Requests |-> "nobody"]
    /\ unexplained = {}
    /\ faults = 0

Fault == faults < MaxFaults /\ faults' = faults + 1

-----------------------------------------------------------------------------
(* The chain *)

Emits(r, events) ==
    handler' = [handler EXCEPT ![r] =
        [e \in Events |-> IF e \in events THEN First[e] ELSE @[e]]]

\* requestPayment queues a request and reserves its amount.
Escalate(r) ==
    /\ fate[r] = "unsent"
    /\ fate' = [fate EXCEPT ![r] = "pending"]
    /\ escalatedAt' = [escalatedAt EXCEPT ![r] = now]
    /\ Emits(r, {"escalated", "reserved"})
    /\ UNCHANGED <<now, dbVars, sweep, seenVars>>

\* approvePending and rejectPending know no expiry.
Approve(r) ==
    /\ fate[r] = "pending"
    /\ fate' = [fate EXCEPT ![r] = "approved"]
    /\ Emits(r, {"paid", "approved"})
    /\ UNCHANGED <<now, escalatedAt, dbVars, sweep, seenVars>>

Reject(r) ==
    /\ fate[r] = "pending"
    /\ fate' = [fate EXCEPT ![r] = "rejected"]
    /\ Emits(r, {"rejected"})
    /\ UNCHANGED <<now, escalatedAt, dbVars, sweep, seenVars>>

-----------------------------------------------------------------------------
(* The watchers *)

Known(r) == row[r].status # "absent"

\* Mutant of Inserted: the upsert's update resets the flag.
InsertedAfresh(r) ==
    [status |-> "open", createdAt |-> now, expiresAt |-> row[r].expiresAt]

\* upsert with an empty update: a row that exists is left as it is.
Inserted(r) ==
    IF Known(r) THEN row[r]
    ELSE [status |-> "open", createdAt |-> now, expiresAt |-> NoTime]

\* Mutant of Stamped: seconds taken for milliseconds.
StampedLongAgo(r) ==
    IF Known(r) THEN [row[r] EXCEPT !.expiresAt = 0] ELSE row[r]

\* updateMany: nothing happens to a row that is not there yet.  The expiry is
\* the chain's own, block.timestamp + RESERVATION_TTL.
Stamped(r) ==
    IF Known(r)
    THEN [row[r] EXCEPT !.expiresAt = escalatedAt[r] + TTL]
    ELSE row[r]

Closed(r) ==
    IF Known(r) THEN [row[r] EXCEPT !.status = "resolved"] ELSE row[r]

\* Who set the flag.
ClosingBy(r, who) ==
    closedBy' = IF row[r].status = "open"
                THEN [closedBy EXCEPT ![r] = who] ELSE closedBy

Proceeds(r, e, pc) == handler' = [handler EXCEPT ![r][e] = pc]

\* The audit row comes first; events.agent refers to the agent's row.
EnterEscalation(r) ==
    /\ handler[r]["escalated"] = "entry"
    /\ agentRow
    /\ trail' = [trail EXCEPT ![r].escalated = @ + 1]
    /\ Proceeds(r, "escalated", "insert")
    /\ UNCHANGED <<now, chainVars, agentRow, row, sweep, seenVars>>

InsertRequest(r) ==
    /\ handler[r]["escalated"] = "insert"
    /\ row' = [row EXCEPT ![r] = Inserted(r)]
    /\ Proceeds(r, "escalated", "done")
    /\ UNCHANGED <<now, chainVars, agentRow, trail, sweep, seenVars>>

EnterPayment(r) ==
    /\ handler[r]["paid"] = "entry"
    /\ agentRow
    /\ trail' = [trail EXCEPT ![r].approved = @ + 1]
    /\ Proceeds(r, "paid", "charge")
    /\ UNCHANGED <<now, chainVars, agentRow, row, sweep, seenVars>>

ChargePayment(r) ==
    /\ handler[r]["paid"] = "charge"
    /\ trail' = [trail EXCEPT ![r].charged = @ + 1]
    /\ Proceeds(r, "paid", "close")
    /\ UNCHANGED <<now, chainVars, agentRow, row, sweep, seenVars>>

\* The last statement of PaymentApproved, the only one of PendingApproved and
\* PendingRejected.
CloseRequest(r, e) ==
    /\ e \in {"paid", "approved", "rejected"}
    /\ handler[r][e] = "close"
    /\ row' = [row EXCEPT ![r] = Closed(r)]
    /\ ClosingBy(r, "decision")
    /\ Proceeds(r, e, "done")
    /\ UNCHANGED <<now, chainVars, agentRow, trail, sweep, unexplained, faults>>

StampExpiry(r) ==
    /\ handler[r]["reserved"] = "stamp"
    /\ row' = [row EXCEPT ![r] = Stamped(r)]
    /\ Proceeds(r, "reserved", "done")
    /\ UNCHANGED <<now, chainVars, agentRow, trail, sweep, seenVars>>

\* A statement is refused or the process dies: the runner starts the handler
\* over, in this life or the next, or the event is lost.
HandlerFails(r, e) ==
    /\ handler[r][e] \in Statements
    /\ Fault
    /\ \E pc \in {First[e], "lost"} : Proceeds(r, e, pc)
    /\ UNCHANGED <<now, chainVars, dbVars, sweep, closedBy, unexplained>>

\* Without the agent's row every attempt fails, and the event is given up.
EntryRejected(r, e) ==
    /\ handler[r][e] = "entry"
    /\ ~agentRow
    /\ Proceeds(r, e, "lost")
    /\ UNCHANGED <<now, chainVars, dbVars, sweep, seenVars>>

\* The PolicySet watcher inserts the agent's row.
InsertAgent ==
    /\ ~agentRow
    /\ agentRow' = TRUE
    /\ UNCHANGED <<now, chainVars, row, trail, handler, sweep, seenVars>>

\* POST /payments inserts the request it has just seen escalated, unless the
\* watcher did.
RouteInserts(r) ==
    /\ fate[r] # "unsent"
    /\ ~Known(r)
    /\ row' = [row EXCEPT ![r] = Inserted(r)]
    /\ UNCHANGED <<now, chainVars, agentRow, trail, handler, sweep, seenVars>>

-----------------------------------------------------------------------------
(* The sweeper *)

\* Mutant of IsOverdue: rows without a stamp are left alone.
IsOverdueStamped(r) ==
    /\ row[r].status = "open"
    /\ row[r].expiresAt # NoTime
    /\ row[r].expiresAt <= now

IsOverdue(r) ==
    /\ row[r].status = "open"
    /\ \/ row[r].expiresAt # NoTime /\ row[r].expiresAt <= now
       \/ row[r].expiresAt = NoTime /\ row[r].createdAt + TTL <= now

\* findMany; its limit of 100 rows is out of the instances' reach.
FindOverdue(s) ==
    LET overdue == {r \in Requests : IsOverdue(r)}
    IN  /\ sweep[s].pc = "idle"
        /\ overdue # {}
        /\ sweep' = [sweep EXCEPT ![s] = [NoSweep EXCEPT !.pc = "claim",
                                                         !.todo = overdue]]
        /\ UNCHANGED <<now, chainVars, dbVars, handler, seenVars>>

\* The rows are taken by creation time.
IsNext(r, todo) ==
    r \in todo /\ \A q \in todo : row[r].createdAt <= row[q].createdAt

After(s, r) ==
    LET rest == sweep[s].todo \ {r}
    IN  IF rest = {} THEN NoSweep
        ELSE [NoSweep EXCEPT !.pc = "claim", !.todo = rest]

\* Mutant of Wins: the update is not guarded.
WinsAlways(r) == TRUE

\* The update is guarded by resolved = false: it counts one row or none.
Wins(r) == row[r].status = "open"

\* Mutant of Claimed: the loop goes on without the audit row.
ClaimedSilently(s, r) == After(s, r)

Claimed(s, r) == [sweep[s] EXCEPT !.pc = "explain", !.at = r]

ClaimOverdue(s, r) ==
    /\ sweep[s].pc = "claim"
    /\ IsNext(r, sweep[s].todo)
    /\ \/ /\ Wins(r)
          /\ row' = [row EXCEPT ![r] = Closed(r)]
          /\ ClosingBy(r, "expiry")
          /\ sweep' = [sweep EXCEPT ![s] = Claimed(s, r)]
       \/ /\ ~Wins(r)
          /\ sweep' = [sweep EXCEPT ![s] = After(s, r)]
          /\ UNCHANGED <<row, closedBy>>
    /\ UNCHANGED <<now, chainVars, agentRow, trail, handler, unexplained, faults>>

ExplainExpiry(s) ==
    LET r == sweep[s].at
    IN  /\ sweep[s].pc = "explain"
        /\ agentRow
        /\ trail' = [trail EXCEPT ![r].expired = @ + 1]
        /\ sweep' = [sweep EXCEPT ![s] = After(s, r)]
        /\ UNCHANGED <<now, chainVars, agentRow, row, handler, seenVars>>

\* A sweep that throws, or whose process dies, ends; a later tick starts over.
SweepEnds(s) ==
    /\ sweep[s].pc # "idle"
    /\ \/ Fault
       \/ sweep[s].pc = "explain" /\ ~agentRow /\ UNCHANGED faults
    /\ sweep' = [sweep EXCEPT ![s] = NoSweep]
    /\ unexplained' = IF sweep[s].pc = "explain"
                      THEN unexplained \union {sweep[s].at} ELSE unexplained
    /\ UNCHANGED <<now, chainVars, dbVars, handler, closedBy>>

-----------------------------------------------------------------------------
TimePasses ==
    /\ now < MaxTime
    /\ now' = now + 1
    /\ UNCHANGED <<chainVars, dbVars, handler, sweep, seenVars>>

ChainStep(r) == Escalate(r) \/ Approve(r) \/ Reject(r)

WatcherStep(r) ==
    \/ EnterEscalation(r) \/ InsertRequest(r) \/ EnterPayment(r)
    \/ ChargePayment(r) \/ StampExpiry(r)
    \/ \E e \in Events : CloseRequest(r, e)

SweepStep(s) ==
    \/ FindOverdue(s) \/ ExplainExpiry(s) \/ SweepEnds(s)
    \/ \E r \in Requests : ClaimOverdue(s, r)

Next ==
    \/ TimePasses \/ InsertAgent
    \/ \E r \in Requests :
         \/ ChainStep(r) \/ WatcherStep(r) \/ RouteInserts(r)
         \/ \E e \in Events : HandlerFails(r, e) \/ EntryRejected(r, e)
    \/ \E s \in Sweeps : SweepStep(s)

Spec == Init /\ [][Next]_vars

\* The interval ticks and its statements are answered.  The watchers need no
\* fairness: the sweeper closes what they leave open.
FairSpec ==
    Spec /\ WF_vars(TimePasses) /\ \A s \in Sweeps : WF_vars(SweepStep(s))
=============================================================================
