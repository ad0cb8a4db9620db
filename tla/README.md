# Warden: TLA+ models of the spending guard and its server

Warden lets software agents pay in USDC under policies. Smart contracts
(`src/contracts/src`) hold the policies and move the money; a Node server
(`src/src`) relays calls to them, mirrors their events into Postgres, serves an
approval queue to people and keeps the people's roles and the contract's
approvers together. This directory models the contracts, the event indexer, the
queue's rows, and the routes that decide requests, make payments, change
policies, register agents and change memberships. TLC checks the models on
small instances, and TLAPS proves invariants of the contracts and of the server
for every instance.

## 1. The system

| Component | State it keeps | Operations | What makes it correct |
|---|---|---|---|
| `PolicyRegistry.sol` | per agent: caps, `spentToday`, `activeReserved`, `lastResetDay`; scheduled raise; allowlist; global ceiling and its counters | `setPolicy`, `applyPolicy`, `cancelPolicyChange`, `setAllowlist`, `setGlobalDailyCap`; `reserve`, `release`, `recordSpend`, `checkPolicy` for the guard | counters reset lazily yet always say what moved today; raises wait for the timelock; a reservation gives its headroom back |
| `SpendGuard.sol` | `paused`, `pending`, `nextRequestId` | `requestPayment` (blocked, escalated, paid), `approvePending`, `rejectPending`, `setPaused` | no payment beyond the day's budget; a request is paid at most once and never after its rejection; nothing is recorded unless the money moved |
| `AuditLog.sol` | append-only entries | `record` | entries add up to the money that moved and to the open queue |
| `AccessControlLite.sol`, `ReentrancyGuard.sol` | admin, approvers, guards, lock | grants and transfers | only holders of a role act; a transaction is one step |
| indexer `runner.ts` | `processed_logs` claims, `indexer_checkpoints`, the backfill queue | `startWatcher`, `backfill`, `processBatch` | every event is applied, once, through restarts and replicas |
| indexer `leader.ts` | a Postgres advisory lock | acquire, lose, release | some replica indexes; two at once do no harm |
| `watchPaymentEvents.ts`, `watchPolicyEvents.ts` | `events`, `pending_requests`, `agents`, `allowlist` | one handler per event type | the rows say what the chain says, whatever order the watchers run in |
| `expirePendingRequests.ts` | `pending_requests`, `events` | a sweep a minute | only overdue requests are expired, once, with an audit row |
| `signing.ts`, `txQueue.ts`, `circleExecution.ts` | one promise chain per signing account | submit as admin, approver or agent | one submission at a time per account; a resolved request is not submitted again |
| `routes/approvals.ts`, `payments.ts`, `policies.ts` | operator actions | the HTTP side of the above | the answer matches what the chain will do |
| `routes/agents.ts`, `auth/wallet.ts` | agents, users, external wallets, cooldowns | register, provision | one wallet per agent, none lost |
| `routes/auth/*`, `auth/invites.ts`, `chain/approverSync.ts` | memberships, invitations | role changes, removal, healing, accepting | the grant on chain follows the role |
| `ws/*`, `chain/txAlert.ts`, `auth/failureAlert.ts` | connected clients, sliding windows | register, broadcast, alert | events reach the scope they belong to; one alert per burst |
| `orgs.ts` | organisations, the founder's membership | create, list | the founder is an owner whom the chain has no grant of yet |
| `auth/*` (identity), `webhooks.ts`, `me.ts`, `audit.ts`, `status.ts`, `pagination.ts`, `config.ts`, scripts | external identities, rows | reads and single-row writes | request-local |

The server reaches the contracts through transactions (approvals, policies,
payments) and the contracts reach the server through events. Nothing else
connects them: the money is safe by what the contracts check, whatever the
server believes, and the server's picture is as good as its indexer.

### What is hard

* **Lazy resets.** Three pairs of counters are reset by the next write of a
  day, by `reserve` and `recordSpend` for the agent and, differently, for the
  global pair. Nothing happens at midnight.
* **Requests outlive their day.** A request can be approved on any later day,
  with caps changed, other payments made, and its reservation gone.
* **Claim, apply, checkpoint** are separate database writes with awaits and
  crashes between them; live batches and the backfill of one watcher run
  concurrently, and after a lost lock two replicas do.
* **One watcher per event type.** The events of one request arrive through
  several watchers in any order.
* **Check, then submit.** The queue's pre-check and the transaction are
  separated by other approvers' transactions; a payment's `checkPolicy` and its
  transaction by changes of the policy; a role's grant and its row by other
  calls and by webhooks.
* **An answer is not an outcome.** A submission may be refused, or accepted and
  its answer lost; a wait for Circle runs out while the transaction lives; the
  process dies between a transaction and the row that names its author.
* **Two deployments, one number.** Request ids count per contract, and the
  contract a request belongs to is looked up from rows that change.
* **One SpendGuard, many organisations.** On testnet, and on mainnet for those
  without contracts of their own, every organisation writes the same grants.

`PROJECT.json` lists each hazard at its line with the properties that cover it.

## 2. The modules

| Module | What it models |
|---|---|
| `PolicyRegistry` | the registry's state, its administrator's transactions, and `reserve` / `release` / `recordSpend` / `checkPolicy` as operators on the counters |
| `SpendGuard` | the guard over the registry, the token and the audit log: the whole on-chain system and its `Spec` |
| `DailyBudget` | the abstract promise: a budget that starts afresh at midnight, and requests decided once |
| `SpendGuardProperties` | invariants, action properties, the refinement mapping to `DailyBudget` |
| `MCSpendGuard` | instances for TLC |
| `IndexerLeadership` | the election of one indexing replica by a Postgres advisory lock (`leader.ts`) |
| `Indexer` | one event watcher (`runner.ts`, with the `PaymentApproved` handler) on several replicas, over `IndexerLeadership` |
| `EventLedger` | the abstract promise: an event is taken by one worker and booked at most once |
| `IndexerProperties` | invariants, liveness, the refinement mapping to `EventLedger`, what the documentation says of a restart |
| `MCIndexer` | instances for TLC |
| `RequestProjection` | the rows of the approval queue, written by five watchers, the payment route and overlapping sweeps of `expirePendingRequests.ts` |
| `ApprovalQueue` | the decision routes: locating the request's deployment, the signer's promise chain, the pre-check, Circle, the mempool, the operator's row |
| `PaymentRoute` | `POST /payments`: policy read, `checkPolicy`, the agent's wallet, the receipt, the queue's row |
| `AgentAdministration` | `POST /agents` and the policy routes, the pinned and cached policy reads, the `PolicySet` watcher |
| `Membership` | roles, removals, the healing endpoint, invitations and their claims, wallets, webhooks, and the grants on chain |
| `...Properties`, `MC...` | of each of these: what must hold, and the instances for TLC |
| `SpendGuardProofs`, `DailyBudgetProofs` | proofs about the contracts |
| `IndexerProofs`, `RequestProjectionProofs`, `ApprovalQueueProofs`, `PaymentRouteProofs`, `AgentAdministrationProofs`, `MembershipProofs` | proofs about the server |

### How state and actions correspond to the code

A Solidity transaction is atomic and `nonReentrant`, so **one action is one
transaction**, with every call it makes into the registry, the token and the
audit log. A `require` that fails reverts everything and is a step not taken:
requires are guards. `requestPayment` has three outcomes and is three actions
(`RequestBlocked`, `RequestEscalated`, `RequestPaid`); `setPolicy` has two
(`SchedulePolicy`, `SetPolicyNow`); `rejectPending` of an id that was never
issued, which the code accepts, is `RejectUnissued`.

`Policy` of the source is split in three by who writes it: `policies` (caps),
`meter` (the agent's daily counters) and nothing for `reservedUntil`, which is
written and never read on chain. `global` is the record of the three global
counters. `block.timestamp` is `now`, in units of which `DayLength` make a day;
`Today` is `block.timestamp / 1 days`. The clock starts on a day after zero, so
that zero counters are a previous day's, as they are on a chain.

Amounts and caps are natural numbers: USDC has six decimals and its supply is
far from 2^256, so no sum of amounts the token could move overflows.
`UnlimitedCap` stands for `type(uint256).max`. What an agent's balance and
allowance let the guard pull is one number, `funds`; a transfer that would
exceed it reverts. The audit log is kept as what its entries add up to.

`movedToday`, `movedTotal`, `reservedOn`, `fate` and `announcedAt` are history
variables: no guard reads them. The first two are the token's side of the
books and start over at midnight, which the contracts never do.

In the server nothing is atomic but a statement, so in `Indexer` **one action
is one database statement, RPC answer or poll**; what runs between two awaits
is part of the action before it. `work[r][w]` is one call of `processBatch`
with the handler inside it: `todo` the logs left, `pc` the statement it is at,
`tries` the attempts of `processLogWithRetry`, `failed` and `reached` the local
variables `failed` and `checkpointBlock`. The worker `Backfill` is the call in
the chunk loop, whose variables are `backfill[r]`; a `Slot` is a live batch,
which viem starts and nobody awaits, so several run at once and
next to the backfill. A statement is refused (`Refused`) without effect, at the
sites `FaultSites` names. A refused checkpoint write of a live batch is a
rejection nobody handles, which ends a Node process: `CheckpointRefused`.

The database is `checkpoint`, `claimed` (the markers of `processed_logs`),
`rows` and `charged` (how often each event's audit row was written and its
amount added to `spentToday`) and `agentRow`, which the foreign key of
`events.agent` needs and the `PolicySet` watcher inserts. The third write of the
handler, resolving the request, can be repeated without harm; it is a step that
can be refused and its row is left out. `applied`, `orphaned`, `gaveUp` and
`baseline` only observe. viem's subscription, the chain, Node and the platform
that restarts processes are modelled as the code relies on them: a subscription
begins at the head its first poll sees and hands over every later block once.

In the other server modules, too, **one action runs from one await to the
next**. Each HTTP call is a process with a program counter (`pc`), used at most
once; a call that a refused statement, a lost answer or a restart has touched
is noted in `hit`, which only properties read, so that they can say what holds
of the others without exception.

* `RequestProjection` keeps a row per request (`absent`, `open`, `resolved`,
  with `createdAt` and `expiresAt`), the audit trail as counts, and the
  statement each handler is at. A handler that failed may run again from its
  start; the sweep's `findMany`, its claim by `updateMany` and its audit row are
  three statements of which two sweeps may be at any.
* `ApprovalQueue` follows a call through the lookups of
  `findRequestDeployment`, the ceiling of its credential, the promise chain of
  its account (`line`, a sequence per signer and deployment), `readGrant`,
  `ensureUnresolved`, the submission, Circle's states and the operator's row. A
  relayer's call ends at the submission, a Circle wallet's at the outcome. The
  chain is what the calls can tell apart: a request's status, the grants,
  whether an approval would fit.
* `PaymentRoute` has the policy's verdict on the payment (`no policy`,
  `blocked`, `escalated`, `paid`) as a variable that moves between the check and
  the transaction. The request id is taken from the receipt as the code does,
  from the first topic above zero of any event of the guard.
* `AgentAdministration` keeps the chain as the sequence of the blocks in which a
  policy or the day changed, because reads are pinned to a block: `ReadsAt` says
  which block the multicall behind a header sees; of a policy
  only the daily cap. The cache's lifetime is the step `CacheExpires`, the
  timelock of a day is midnight (`Ripen`).
* `Membership` has one variable for the role and one for the on-chain grant of a
  wallet, and the routes in between. It starts with any grants: who founds an
  organisation has a wallet and no grant (`orgs.ts:67-83`), contracts of an
  organisation's own start with none, and on a SpendGuard that is shared
  (`orgContracts.ts:169-184`) there are those other organisations gave.
  These go on giving and taking them during the calls
  (`OtherOrganizationSubmits`). `disturbed` holds the users whose grant and role
  something named in the property has set apart, at the start those who are out
  of step already. Callers of the routes are owners or
  administrators; how they prove it is not modelled. A wallet belongs to its
  user, because Circle makes a new one per attempt.

The modules share no variables: each has as much of the chain and of the other
components as its calls can observe, changed by actions of its own
(`PolicyMoves`, `Freeze`, `Revoke`, `IndexRequest`, `WatchPolicySet`). What
those actions may do is what the modules of the contracts and of the indexer do.

## 3. What is checked

### Properties of the contracts

* `BooksMatchToken`: an agent's counter, read day-aware, is what the token
  moved out of its wallet since midnight.
* `CeilingNeverUnderCounts`: the global counter covers the day's outflow. (It
  can exceed it, see the observations.)
* `GlobalDayCovers`: no counter is ahead of the clock and no agent's is of a
  later day than the global pair, which is what `release` silently relies on.
* `HeadroomNeverLeaks`: what is counted as reserved never exceeds the open
  requests of the day. A forgotten release would.
* `FlagsMatchFate`: a request is resolved exactly when it was paid or
  rejected, although ids can be rejected before they are issued.
* `AuditReconciles`: the audit log accounts for every USDC and every open
  request.
* `PreFilterIsSound`: a payment `checkPolicy` allows is not refused later in
  its transaction, after any history of cap changes.
* `TimelockRespected`: a daily cap rises only to an announced value, its delay
  after the announcement.
* `ImplementsDailyBudget`: the refinement. The money the token moved since
  midnight stays within every cap at the moment it moves, and each request is
  paid at most once, never after a rejection, from the agent and for the
  amount it was queued with.

### Properties of the indexer

* `ImplementsEventLedger`: while no statement is refused, no overlap of live
  batches, backfills and leaders, and no crash, applies an event twice or hands
  it to two workers, and the audit row comes before the spend.
* `ClaimsAreAccountedFor`: a marker without effects is the residue the code
  documents (a crash, a refused release) and nothing else.
* `SpendHasAuditRow`: retries may repeat writes but never leave a spend without
  its row.
* `OnlyLockLossDuplicatesWatchers`: a second set of watchers needs a lock
  connection that died under the first.
* `EveryEventInSightIsIndexed`, `LeaderIsReplaced`: liveness.

None of these says that a failed event is tried again after a restart, which the
runner, the schema and `SECURITY_CHECKLIST` promise and the code does not keep
(finding 1). A retried handler may count a spend twice; `SpendHasAuditRow` does
not exclude that (see the observations).

### Properties of the queue's rows

* `SweptOnlyAfterWindow`: a row is swept only after the window of its request on
  chain has passed, whoever inserted it and even if it was never stamped.
* `ExpiryRecordedOnce`, `NothingVanishesUnexplained`: overlapping sweeps write
  at most one expiry, and an undecided request leaves the queue only with an
  audit row, or after a failure between the sweep's two writes.
* `ClosedRowsStayClosed`: no order of watchers, route and sweeps reopens a row.
* `EveryRowIsClosed`: every row leaves the queue, also one inserted after the
  decision on it was handled, which only the sweeper can still close.

### Properties of the decision routes

* `OneExecutionPerWallet`: calls of one Circle wallet have one transaction under
  way, unless a wait ran out.
* `EveryDecisionIsSigned`: a transaction that was mined for a call has its
  operator's row once the call is over. Calls a fault has hit are exempt.
* `AnswersAreTrue`: a 403 or 404 has sent nothing, an operator's row names a
  transaction that was sent, with Circle one that took effect.
* `OneDecisionReported`: two people who sign with Circle wallets are never both
  told that their decision of one request took effect, though their queues do
  not wait for each other. Exempt are numbers of the organisation's contract that
  a global row carries too: a call misrouted by that row (finding 2) may reject
  the number before it is issued, and issuing it starts it afresh. So in the run
  the property is about calls that meet on the global contract, and the theorem
  about all others.
* `ListedCallsArrive`: a decision on a listed request is sent where its row
  leads: the organisation's own contract for its own rows, the one the agent has
  now for a global row; and not at all above the credential's ceiling when the
  request is on that contract. Whether that is the contract the row was shown
  with is another matter (`LandsWhereShown`, finding 2).
* `EveryCallIsAnswered`: liveness.

### Properties of the payment route

* `AnswersTellTheOutcome`: approved means paid and escalated means queued under
  the id that was told, unless the policy changed after the check (what is
  answered then is among the observations).
* `RowsNameRequests`: the route puts into the queue only requests the guard
  issued, and one entry (id 0) of payments that settled at once after all.
* `ErrorsMovedNothing`: without a fault, an error means that no money moved, no
  request was raised and nothing is still under way. With one it may have moved:
  finding 3.

### Properties of the administration routes

* `SnapshotsAreTrue`: whatever reads, changes of policy and midnight overlap, a
  snapshot that is cached or served agrees with `checkPolicy`'s arithmetic at
  the block it names, and an answer no fault has touched is of the block its
  call pinned. A multicall that saw a later block than the header's would break
  it. The route of a single agent has no exception: it is answered from the
  pinned block or not at all. Two things the documentation says are not claimed,
  because the code does not keep them (see the observations): that a list whose
  read failed is not answered with zeroes (block 0) or from the cache, and that
  after a failed probe live reservations are counted.
* `ChangesAreSigned`: a change sent to the registry has its operator's row,
  unless a fault or the watcher's earlier insert of a new agent cut the call
  short.
* `RegistrationsAreWhole`: an agent reported as registered has its wallet in its
  row and its policy on chain or in the pool.
* `LoweringIsRaced`: a cap below what was spent today needs a payment between
  the route's look (for a registration, its beginning) and its transaction.
* `TypeOK` says that headroom is never negative; with unbounded integers in
  TypeScript that takes a test in the code.

### Properties of memberships

* `DriftIsExplained`: when nothing is under way, role and grant agree, unless
  they never have, or a second call on the same user, another organisation on
  the same SpendGuard, a webhook, an invitation, a later wallet or a row that
  was not written set them apart; a refused submission, or a call of other
  users, does not, and a heal brings them together. What happens to a disturbed
  user is not claimed; two calls that overlap may leave a removed person with a
  grant (see the observations).
* `GrantsAreSigned`: every grant sent is tied to the person who asked for it;
  calls a fault has hit are exempt.
* `InviteAdmitsOnce`: an invitation admits its user once, whoever removes him in
  between, unless two claims overlap or its mark is lost (both admit twice).
  Creating an invitation, a check and an insert in the code, is one step, and a
  user has one at a time.

### Runs

| Run | Instance | What it shows |
|---|---|---|
| `guard_queue` | 2 agents (symmetric), one policy (3/2/1), ceiling 4 or unlimited, amounts 1 and 2, 2 requests, 3 days of one clock unit | contention for the ceiling, requests resolved on any day, pause, allowlist changes |
| `guard_caps` | 1 agent, five cap triples (one malformed), days of two units, delay of two, 1 request, blocked payments | every way caps change around an open request |
| `indexer_takeover` | 2 replicas, 1 live batch each, 1 event, a checkpoint behind the head, 1 crash, 1 lost lock | overlap of everything that can overlap, nothing refused; the event ends up applied and the lock is taken over |
| `indexer_faults` | 1 replica, 2 live batches, 2 events, 3 refusals anywhere, 1 crash | failure paths of the loop, the retries and the backfill |
| `indexer_skipped_gap` | 1 replica, 2 events, nothing refused | finding 1 |
| `projection` | 1 request, 2 sweeps, window of 2, clock to 4, 1 fault | every order of five watchers, route and sweeps |
| `approvals` | 2 calls (one approves, one rejects; one on a global row), up to 2 Circle wallets and the relayer, 2 deployments with 1 request each, the agents' organisation on its own | overlap of two decisions in one line or in two, on one contract or on two |
| `approvals_misrouted` | two calls on rows of the global deployment | finding 2 |
| `memberships` | 1 user, 2 calls, 2 claims, 1 wallet request, 1 event from outside, 1 fault, roles owner and viewer, any grant at the start | every pair of calls about one member |
| `administration` | 1 agent (registered before or by a call), 2 calls, caps 0 to 2, 4 blocks, 1 fault | reads across changes, the pause, the timelock, midnight |
| `payments` | 2 payments of one agent, 2 changes of verdict, pause or grant, 2 faults | everything between the check and the answer |
| `payments_repeated` | 1 payment and its repetition, 1 fault | finding 3 |

Two requests are enough for an old and a new reservation to meet, and three
days for one of them to be resolved when the counters belong to neither of
their days. The caps are chosen so that two requests fit one by one and not
together. A day of one unit makes midnight the most frequent event; the second
run has days of two so that time also passes within a day. `MaxBlocked` is 0
in the queue run (a blocked payment changes only the audit log) and 1 in the
other. The system may stop at any time (nobody has to send a transaction), so
deadlock is not an error. `MaxTime`, `MaxRequests` and `MaxBlocked` are the
only bounds in guards.

No fairness is assumed for the contracts: they promise nothing about what
somebody will eventually send.

For the indexer, a marker concerns one event, so one is enough for two replicas
to compete; in the other runs two events and chunks of one block make every
pair of batches possible (one chunk each, one live batch for both, in either
order); attempts are two instead of three and five, so that three refusals
exhaust them. Two live batches in flight are what it takes for batches of one
subscription to overtake each other. `MaxBlock`, `Slots`, `MaxFaults`,
`MaxCrashes` and `MaxLockLosses` are the bounds. A process whose start failed
does not get the lock a second time (it would subscribe twice). The replicas
stop when the chain does, so deadlock is not an error.

In `projection` requests do not interact, so one is enough; two sweeps overlap
as two leaders or two ticks would. The window is 2 so that there is a time in
it, after it, and one to sweep at. Two calls make every pair of decisions,
members' changes, policy changes or payments; the properties that name a call or
two are violated, if at all, by two of them and what happens around them, which
the bounds `MaxRequests`, `MaxMoves`, `MaxBlocks`, `MaxOutside`, `MaxWallets`
and `MaxFaults` limit. A call is made at most once, so every instance stops, and
deadlock is not an error. `approvals` names the first call's Circle wallet
first, since the module gives none a part of its own, and leaves a wallet nobody
signs with without a grant (`LeanSpec`). In `memberships` the roles owner and
viewer are one that expects a grant and one that does not; admin and approver
differ from them in who may assign them.

Liveness assumes weak fairness of what a live process runs by itself: its
timers, its promises, its polls (`LeaderStep`, `ReplayStep`, `PollStep`,
`BatchStep`, `SweepStep`, `CallStep`), of the platform that restarts a dead
process, and, for the sweeper, of the clock. The chain, a crash, a lost
connection, a refusal and a watcher are never fair. `EveryCallIsAnswered` needs
no fairness of the chain because every wait for it has a deadline.
`EveryEventInSightIsIndexed` is checked where nothing is refused, because an
event whose retries are exhausted is given up by its batch, and the next boot
takes it up only if no later batch has moved the checkpoint past it (finding 1).
`LeaderIsReplaced`
needs a replica that is still in the loop, because one that lost its lock
connection never asks again; the instance has two replicas and one lost
connection.

`TypeOK` of `RequestProjection` is proved; those of `ApprovalQueue`,
`Membership` and `PaymentRoute` state the types of their variables and are part
of no run, since the properties above fail first on what they would catch.

### Findings

Three statements of comments do not hold of the code and have a run whose
counterexample shows it. More are among the observations below.

1. `indexer_skipped_gap`: a live batch that ends before the queued backfill
   reads the checkpoint moves it past the downtime, which is then never
   replayed. No failure is needed: backfills of all watchers wait for each other
   while all subscriptions run (`runner.ts:97`, `schema.prisma:88`). The
   property, `BootSkipsNothing`, is broken in a second way, which the run does
   not show because a shorter trace ends first: an event whose attempts all fail
   caps the checkpoint of its own batch only, the next live batch or the next
   chunk of the backfill writes its block past it (`runner.ts:183`), and the
   next boot starts behind it. `runner.ts:24-27`, `schema.prisma:87-90` and
   `SECURITY_CHECKLIST.md:143` say that a failed event holds the checkpoint back
   and that nothing is lost.
2. `approvals_misrouted`: a row of the shared deployment is decided on the
   contract its agent's organisation has **now** (`approvals.ts:114`). If the
   agent's row carries an organisation that has contracts of its own, the
   decision reaches those, where the same id may be another request. The comment
   says "the deployment the request actually lives on". It takes an agent whose
   request was raised on the shared contract and whose row names such an
   organisation: `scripts/backfill-agent-orgs.ts:129-132` writes the
   organisation into rows that had none, and one agent's address may be used on
   both deployments.
3. `payments_repeated`: a payment whose wait ran out is answered with an error
   while its transaction lives, and each attempt has an idempotency key of its
   own, so the client's repetition pays again, although the comment and the
   error text call it safe (`circleExecution.ts:169`, `187`, `224`).

### Observations without a run

Found while modelling; the models contain the behaviour, the properties above
allow for it and say so.

Contracts and indexer:

* `release` looks at the agent's day only: resolving a request of an earlier day
  takes its amount out of today's reservations, so `globalReservedToday`
  under-counts, which its comment rules out (`PolicyRegistry.sol:83`, `237`).
  The money is not at risk: `recordSpend` checks what moved.
* `reserve` stamps the global day without clearing the global spend: if the
  first write of a day is an escalation, yesterday's spend counts against
  today's ceiling (`PolicyRegistry.sol:204`, `Hardening.t.sol:153`).
* `wouldFitNow` is not what `recordSpend` enforces once the request's day is
  over (`approvals.ts:193`, `212`).
* A `PaymentApproved` handler that fails after counting the spend counts it
  again (`runner.ts:13`, `200`), and an update whose answer was lost is followed
  by a second one in `upsertAgentSpend` itself. The comment there calls the
  counter best-effort (`watchPaymentEvents.ts:159-189`).
* When two events share a block and the second fails, even their own batch's
  checkpoint names the block (`runner.ts:155`, `165`).
* A checkpoint read refused while the watchers start leaves the lock with a
  process that never starts the sweeper (`leader.ts:58`, `63`).
* A claim refused for another reason than its key releases a marker that may be
  another worker's. A request queued before `perTxCap` was tightened settles
  above it.
* The sweeper may expire the row of a request that was paid, when the watcher of
  its decision ran before its row existed (`expirePendingRequests.ts:14-16`).

Decisions and payments:

* With the relayer the operator's row is written when the transaction is sent:
  it may name one that reverts (`approvals.ts:324`).
* A call that finds the request decided counts as a failed transaction in the
  alert (`signing.ts:153`). `rejectPending` of an id never issued succeeds.
* `POST /payments` demands an approver grant of the agent's wallet, and its
  relayer path is always refused by "caller is not the agent".
* A payment checked as to be approved that settles at once is answered
  "escalated" and leaves a row with id 0; one that is blocked by then is
  answered 500, since the agent's address in the topic does not fit the id's
  column. An event of a blocked payment whose agent is spelled with its checksum
  violates the foreign key: 500. `GrantMissingError` is answered with 500 here.

Agents and policies:

* A retry of `POST /agents` mints another wallet, since each attempt's
  idempotency key is random (`agents.ts:202`, `230`, `wallet.ts:331`). If the
  `PolicySet` watcher inserts the row first, the route's insert fails: the
  Circle wallet's id and the operator's row are lost, and no code repairs it.
* The policy cache is evicted when the transaction is sent, so a read in
  between caches the old policy for its lifetime.
* When the chain does not answer, `GET /agents` answers 200 with cached
  snapshots or with zeroes that say the agent has no policy
  (`policyState.ts:299-319`), which the comment there intends;
  `README.md:104-105` says of both agents routes that they answer 503 rather
  than stale values.
* One failed probe of the contract's version, whatever the reason, makes the
  process show headroom without live reservations from then on
  (`policyState.ts:106-116`). The memo's comment says that there are none then
  (`policyState.ts:89-90`); the one in the `catch` admits the case and calls it
  fail-safe, though it makes the headroom too large.
* A pending increase survives a pause and can be applied by anybody; a failed
  read of it is answered 404.

Members:

* Two wallet requests of one user at once make two wallets, and the later
  overwrites the earlier, whose grant stays (`wallet.ts:256-258`).
* A removal decides by the role it has read whether there is a grant to revoke
  (`members.ts:274`). A promotion of the same viewer under way at that moment
  sends its grant and finds the row gone; without any fault the removed person
  keeps a grant nobody lists, which the route's comment excludes
  (`members.ts:266-267`). So does a membership that a webhook deletes.
* Where organisations share a SpendGuard, a demotion, removal or heal in one of
  them takes the grant the other expects of the same person, who cannot approve
  there until somebody heals (`orgContracts.ts:169-184`, `members.ts:135-141`).
* Who founds an organisation is its owner and has no grant until a heal or a
  change of his role (`orgs.ts:67-83`).
* An administrator may demote an owner and then remove him; the only owner may
  demote himself. Two claims of one invitation that overlap with a removal admit
  twice.

Not findings, because the repository states them: raises of `perTxCap` and the
threshold alone are immediate, reservations end at the day boundary before
their TTL, and tightening does not cancel a scheduled raise.

## 4. What is proved

For every set of agents and counterparties, every day length and delay, every
caps and amounts and any number of requests; from `RegistryAssumption` and
`GuardAssumption` only (the constants are natural numbers, a day and the delay
are not zero, the zero address is nobody).

* `TypeCorrect`: `Spec => []TypeOK`. Inductive as it stands. The lemmas
  `MeterTypes` and `GlobalTypes` carry the arithmetic.
* `DaysCovered`: inductive with `TypeOK`; `DayMonotone` says the day never goes
  back.
* `BooksCorrect`: needs `GlobalDayCovers`. At midnight the token-side history
  drops to zero, and a counter of an earlier day reads as zero; were a counter
  ahead of the clock, it would come back to life.
* `CeilingCovers`: inductive with `TypeOK`.
* These three go through `BookSteps`, which reduces the transactions to what
  they do to the books: nothing, the clock, a reservation, a release, a spend,
  or a release followed by a spend.
* `TimelockCorrect`: from `Announced` (the announcement of every scheduled
  raise is the one its `effectiveAt` was computed from; the clock is past
  zero, which stands for "none").
* `PreFilterCorrect`: from types alone: the day-aware reads are the rolled
  counters.
* `FlagsCorrect`: from `RequestsInv`, which adds that an unissued id belongs to
  the zero address, so `approvePending` cannot pay it.
* `AuditCorrect`: from `TypeOK` and `RequestsInv`; a request joins or leaves the
  agent's open ones as the audit log's count moves by one.
* `HeadroomCorrect`: `HeadroomNeverLeaks` read day-aware (`Headroom`), with
  `ReservedAfterRoll`: a reservation of today was made after its agent's counter
  rolled over, so that the agent's and the global counter agree on what a
  release gives back. It adds up sets of requests; what a sum over a finite set
  does when an element joins or leaves is proved in the same module, by a least
  counterexample, since the sum is a recursive function.
* `BudgetImplemented`: initial states map to initial states and each
  transaction to one step of `DailyBudget` or none, using all of the above.

About the server, for any number of calls, sweeps, wallets, users and faults
(from the modules' `ASSUME`s only):

* `IndexerProofs`: `TypeCorrect`, inductive once every busy worker has an event;
  `ClaimsCorrect`; `SpendCorrect` from `BooksInv` (an event's rows are ahead of
  its charges by as many workers as are about to charge it); `WatchersCorrect`
  from `WatchInv` (the processes that watch without the lock are at most as many
  as the locks lost); and `LedgerImplemented`, step by step, from `LedgerInv`
  (an event is in one worker's hands, claimed, and booked as far as that worker
  has come). The last one assumes `HandlerNeverRefused`: no write of the handler
  and no insert of a claim is refused. A refused write is retried after those
  that went through, which is how the code books an event twice; deaths, lost
  locks, refused releases, checkpoints and reads are all still allowed.
* `RequestProjectionProofs`: `TypeCorrect`; `WindowCorrect`, from `WindowInv`
  (a row's times follow its request's on chain, and what a sweep has found was
  overdue); `ExpiryCorrect` and `VanishingsExplained`, from `TrailInv` (a row
  closed by a sweep and not yet explained is in the hands of exactly one sweep,
  or its failure is noted); `RowsStayClosed`, step by step.
* `ApprovalQueueProofs`: `DecisionsSigned` and `AnswersCorrect` from
  `CallsAccounted`, which says for every place a call can be at what it has sent
  and what it knows of it; `ExecutionsTakeTurns` from `TurnsInv` (a wallet's
  execution without an outcome is that of the call at the head of its line,
  unless a fault hit the call); `DecisionsReportedOnce` from `DecisionInv` (a
  call that is not `Astray` decides an issued request, which stays resolved from
  its execution on, so that no second one takes effect); `ListedCallsLand` from
  `ListedInv` (where a call on a listed request is going, by its program
  counter), wherever the agents resolve to.
* `MembershipProofs`: `GrantsSigned` from `GrantsTied` (which of a call's
  submissions are recorded, by its program counter); `InvitesAdmitOnce` from
  `InvitesOnce`, which counts the claims under way; `DriftExplained` from
  `DriftInv`: an undisturbed user is served by one call at most (`Sole`), what
  that call knows of him is still so, and whatever does not agree it is about to
  send, or has sent and is about to write (`Settled`, which reads the grants as
  they will be once the pool is mined); a wallet that is not in its user's row
  yet is unknown to the chain and to every call (`Fresh`). It starts from any
  grants, and other organisations on the same SpendGuard may submit at any time
  (`OthersAgree`).
* `PaymentRouteProofs`: `RowsCorrect` and `ErrorsCorrect` from `PaymentInv`:
  what a call at each place has sent, that only a mined transaction has an
  outcome and only an escalation a request, and that the id read from a receipt
  belongs to it. `AnswersCorrect` from `ToldInv`: while nothing has moved since
  the check, the verdict is still the one the call acts on, and so is the
  outcome of a transaction mined then.
* `AgentAdministrationProofs`: `TypeCorrect`; `ChangesSigned` and
  `RegistrationsWhole` from `RowsInv` (a registration and its agent's row,
  wallet and first policy, on chain or in the pool; no two registrations at work
  on one agent); `SnapshotsTrue` from `SnapshotsInv`, since the chain keeps its
  blocks and a read sees the one its call pinned (`PinnedRead`); `LoweringRaced`
  from `CapsInv` (an increase that waits is above the cap in force and, from the
  day after it was scheduled, not below the day's spend; a call that is about to
  send looked at a block in which the agent had not spent more than its cap).

Every safety invariant, action property and refinement of a passing run is
stated by a theorem. The search for an inductive invariant corrected one of
them: `LoweringIsRaced`, first stated of changes alone, is false with five
blocks, as TLC then found, since a registration can be overtaken by a payment
too; it names both kinds since.

Only model-checked are the four liveness properties
(`EveryEventInSightIsIndexed`, `LeaderIsReplaced`, `EveryRowIsClosed`,
`EveryCallIsAnswered`), since fairness and `ENABLED` are out of the prover's
reach, and the violations behind the findings. The induction theorems of the
library take operators as parameters and cannot be used; sums over finite sets
are the one place where induction over data was needed.

## 5. Plan

1. Contracts, indexer, queue's rows, decisions, payments, administration,
   memberships: modelled.
2. Left to prove: the whole `TypeOK` of `ApprovalQueue`, `PaymentRoute` and
   `Membership`, of which the proofs carry the parts they need; the election
   (`IndexerLeadership`) on its own.
3. Left to model: the registration of a WebSocket across an await
   (`ws/broadcast.ts`), the sliding window of the failure alerts.

## 6. Not modelled

Identity and cryptography, configuration, pagination and formatting, gas, chain
reorganisations, and the access control of the contracts beyond the approvers'
grants (an action is that of a caller who holds the role). Of the modelled
routes: the read-only `GET /policies/pending/:agent`, the synchronisation's
status and the list of users, the display copies of caps and allowlists in
`agents` and `allowlist` (two policy events handled out of order leave the older
caps there until the routes read the chain), `ensureAgentWallet`, which no code
calls, and an organisation's move to contracts of its own while calls are under
way: nothing in the server writes the addresses that make the difference
(`orgContracts.ts:177`), and contracts that start without grants are among the
initial states of `Membership`. Generated ABIs have no behaviour. `PROJECT.json`
gives the reason for each component.
