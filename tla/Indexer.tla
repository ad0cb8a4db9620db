------------------------------- MODULE Indexer -------------------------------
(***************************************************************************)
(* One event watcher (indexer/runner.ts) as the replicas run it: the       *)
(* PaymentApproved watcher of a deployment, whose handler writes an audit  *)
(* row, counts the spend and resolves the request.  Every database         *)
(* statement, RPC answer and poll is a step of its own.  A replica runs    *)
(* one backfill and, beside it, the batches of its live subscription,      *)
(* which nobody awaits.                                                    *)
(***************************************************************************)
EXTENDS IndexerLeadership, FiniteSets

CONSTANTS
    Logs,               \* the events, numbered in chain order
    BlockOf,            \* the block that carries each of them
    MaxBlock,           \* bound: the last block that is mined
    InitHead,           \* the chain's head when the replicas boot
    InitCheckpoints,    \* what an earlier life may have left in the database
    Slots,              \* bound: live batches in flight per replica
    Backfill,           \* the worker that replays history
    ChunkSize,          \* BACKFILL_CHUNK
    ChunkAttempts,      \* 5 in backfill
    LogAttempts,        \* LOG_RETRY_ATTEMPTS
    FaultSites,         \* the statements the database or the RPC may refuse
    MaxFaults           \* bound: how often they refuse

NoBlock == -1
AllSites == {"find", "head", "create", "fetch", "claim", "write", "release",
             "mark"}

ASSUME IndexerAssumption ==
    /\ Logs \subseteq Nat \ {0}
    /\ MaxBlock \in Nat /\ InitHead \in 0..MaxBlock
    /\ BlockOf \in [Logs -> 1..MaxBlock]
    /\ \A l, m \in Logs : l < m => BlockOf[l] <= BlockOf[m]
    /\ InitCheckpoints \subseteq 0..InitHead \union {NoBlock}
    /\ Backfill \notin Slots
    /\ ChunkSize \in Nat \ {0}
    /\ ChunkAttempts \in Nat \ {0}
    /\ LogAttempts \in Nat \ {0}
    /\ FaultSites \subseteq AllSites
    /\ MaxFaults \in Nat

VARIABLES
    head,               \* the chain
    checkpoint, claimed, rows, charged, agentRow,       \* the database
    cursor, backfill, work,                             \* each process
    applied, orphaned, gaveUp, baseline, faults         \* observation

dbVars == <<checkpoint, claimed, rows, charged, agentRow>>
seenVars == <<applied, orphaned, gaveUp, baseline>>
indexerVars == <<head, dbVars, cursor, backfill, work, seenVars, faults>>
vars == <<lockVars, indexerVars>>

Workers == Slots \union {Backfill}
Blocks == 0..MaxBlock
MaybeBlock == Blocks \union {NoBlock}

\* A worker is one call of processBatch and the handler inside it.
Batch == [pc : {"idle", "claim", "row", "spend", "resolve", "release", "mark"},
          todo : SUBSET Logs, tries : 1..LogAttempts,
          failed : BOOLEAN, reached : MaybeBlock]
Idle == [pc |-> "idle", todo |-> {}, tries |-> 1,
         failed |-> FALSE, reached |-> NoBlock]

Replay == [pc : {"off", "find", "baseline", "create", "head", "fetch",
                 "running", "done", "failed"},
           from : Nat, upto : Blocks, attempt : 1..ChunkAttempts]
NoReplay == [pc |-> "off", from |-> 0, upto |-> 0, attempt |-> 1]

TypeOK ==
    /\ LockTypeOK
    /\ head \in Blocks
    /\ checkpoint \in MaybeBlock
    /\ claimed \subseteq Logs /\ applied \subseteq Logs
    /\ orphaned \subseteq Logs /\ gaveUp \subseteq Logs
    /\ rows \in [Logs -> Nat] /\ charged \in [Logs -> Nat]
    /\ agentRow \in BOOLEAN
    /\ cursor \in [Replicas -> MaybeBlock]
    /\ backfill \in [Replicas -> Replay]
    /\ work \in [Replicas -> [Workers -> Batch]]
    /\ baseline \in MaybeBlock
    /\ faults \in 0..MaxFaults

\* Mutant of LogsIn: the first block of the range is left out.
LogsAfter(from, to) == {l \in Logs : from < BlockOf[l] /\ BlockOf[l] <= to}

LogsIn(from, to) == {l \in Logs : from <= BlockOf[l] /\ BlockOf[l] <= to}
Lower(x, y) == IF x <= y THEN x ELSE y

Init ==
    /\ LockInit
    /\ head = InitHead
    /\ checkpoint \in InitCheckpoints
    /\ claimed = LogsIn(0, checkpoint)
    /\ applied = claimed
    /\ rows = [l \in Logs |-> IF l \in claimed THEN 1 ELSE 0]
    /\ charged = rows
    /\ agentRow \in {claimed # {}, TRUE}
    /\ cursor = [r \in Replicas |-> NoBlock]
    /\ backfill = [r \in Replicas |-> NoReplay]
    /\ work = [r \in Replicas |-> [w \in Workers |-> Idle]]
    /\ orphaned = {}
    /\ gaveUp = {}
    /\ baseline = checkpoint
    /\ faults = 0

\* A refused statement has no effect in the database.
Refused(site) ==
    /\ site \in FaultSites
    /\ faults < MaxFaults
    /\ faults' = faults + 1

-----------------------------------------------------------------------------
(* processBatch *)

Current(b) == CHOOSE l \in b.todo : \A m \in b.todo : l <= m
Loaded(logs) == [Idle EXCEPT !.pc = "claim", !.todo = logs]

\* The loop's next log, or the checkpoint write after the last.
Onward(b) ==
    LET rest == b.todo \ {Current(b)}
    IN  [b EXCEPT !.todo = rest, !.tries = 1,
                  !.pc = IF rest = {} THEN "mark" ELSE "claim"]

\* Mutant of Caught: the claim is kept.
CaughtKeepingClaim(b) == [Onward(b) EXCEPT !.failed = TRUE]

\* The loop's catch.
Caught(b) == [b EXCEPT !.pc = "release", !.failed = TRUE]

\* Mutants of Retried: one attempt too many; a retry that goes on with the
\* spend instead of starting over.
RetriedOnceMore(b) ==
    IF b.tries <= LogAttempts
    THEN [b EXCEPT !.pc = "row", !.tries = @ + 1]
    ELSE Caught(b)
RetriedHalfway(b) ==
    IF b.tries < LogAttempts
    THEN [b EXCEPT !.pc = "spend", !.tries = @ + 1]
    ELSE Caught(b)

\* processLogWithRetry starts the whole handler again, or gives the log up.
Retried(b) ==
    IF b.tries < LogAttempts
    THEN [b EXCEPT !.pc = "row", !.tries = @ + 1]
    ELSE Caught(b)

\* The first failure of this batch caps its checkpoint.
Processed(b) ==
    [Onward(b) EXCEPT !.reached = IF b.failed THEN @ ELSE BlockOf[Current(b)]]

GoesOnWith(r, w, b) == work' = [work EXCEPT ![r][w] = b]

\* Mutant of InsertsMarker: the answer to the claim is ignored.
InsertsAnyway(l) == TRUE

\* The unique key (txHash, logIndex) lets one insert of a log's marker through.
InsertsMarker(l) == l \notin claimed

\* The insert decides: a second claim of a log skips it.
ClaimLog(r, w) ==
    LET b == work[r][w]
        l == Current(b)
    IN  /\ b.pc = "claim"
        /\ \/ /\ InsertsMarker(l)
              /\ claimed' = claimed \union {l}
              /\ GoesOnWith(r, w, [b EXCEPT !.pc = "row"])
              /\ UNCHANGED <<gaveUp, faults>>
           \/ /\ ~InsertsMarker(l)
              /\ GoesOnWith(r, w, Onward(b))
              /\ UNCHANGED <<claimed, gaveUp, faults>>
           \/ /\ Refused("claim")
              /\ GoesOnWith(r, w, Caught(b))
              /\ gaveUp' = gaveUp \union {l}
              /\ UNCHANGED claimed
        /\ UNCHANGED <<lockVars, head, checkpoint, rows, charged, agentRow,
                       cursor, backfill, applied, orphaned, baseline>>

\* A statement of the handler throws.
AttemptFails(r, w) ==
    LET b == work[r][w]
    IN  /\ GoesOnWith(r, w, Retried(b))
        /\ gaveUp' = IF b.tries < LogAttempts THEN gaveUp
                     ELSE gaveUp \union {Current(b)}
        /\ UNCHANGED <<lockVars, head, dbVars, cursor, backfill,
                       applied, orphaned, baseline>>

HandlerRefused(r, w) == Refused("write") /\ AttemptFails(r, w)

\* events.agent is a foreign key: no audit row before the agent's own.
RowIsAccepted == agentRow

WriteRow(r, w) ==
    LET b == work[r][w]
    IN  /\ b.pc = "row"
        /\ \/ HandlerRefused(r, w)
           \/ ~RowIsAccepted /\ AttemptFails(r, w) /\ UNCHANGED faults
           \/ /\ RowIsAccepted
              /\ rows' = [rows EXCEPT ![Current(b)] = @ + 1]
              /\ GoesOnWith(r, w, [b EXCEPT !.pc = "spend"])
              /\ UNCHANGED <<lockVars, head, checkpoint, claimed, charged,
                             agentRow, cursor, backfill, seenVars, faults>>

\* upsertAgentSpend finds the agent's row, which the audit row refers to: the
\* upsert of its catch never creates one.
CountSpend(r, w) ==
    LET b == work[r][w]
    IN  /\ b.pc = "spend"
        /\ \/ HandlerRefused(r, w)
           \/ /\ charged' = [charged EXCEPT ![Current(b)] = @ + 1]
              /\ GoesOnWith(r, w, [b EXCEPT !.pc = "resolve"])
              /\ UNCHANGED <<lockVars, head, checkpoint, claimed, rows,
                             agentRow, cursor, backfill, seenVars, faults>>

\* The request's row is resolved (a repeatable write, abstracted) and the
\* handler returns.
ResolveRequest(r, w) ==
    LET b == work[r][w]
    IN  /\ b.pc = "resolve"
        /\ \/ HandlerRefused(r, w)
           \/ /\ applied' = applied \union {Current(b)}
              /\ GoesOnWith(r, w, Processed(b))
              /\ UNCHANGED <<lockVars, head, dbVars, cursor, backfill,
                             orphaned, gaveUp, baseline, faults>>

\* deleteMany by the log's key, whoever inserted the marker; a refusal is
\* swallowed and leaves the marker.
ReleaseClaim(r, w) ==
    LET b == work[r][w]
        l == Current(b)
    IN  /\ b.pc = "release"
        /\ GoesOnWith(r, w, Onward(b))
        /\ \/ /\ claimed' = claimed \ {l}
              /\ UNCHANGED <<orphaned, faults>>
           \/ /\ Refused("release")
              /\ orphaned' = orphaned \union {l}
              /\ UNCHANGED claimed
        /\ UNCHANGED <<lockVars, head, checkpoint, rows, charged, agentRow,
                       cursor, backfill, applied, gaveUp, baseline>>

-----------------------------------------------------------------------------
(* backfill *)

ChunkEnd(b) == Lower(b.from + ChunkSize - 1, b.upto)

AfterChunk(b) ==
    IF ChunkEnd(b) = b.upto
    THEN [b EXCEPT !.pc = "done"]
    ELSE [b EXCEPT !.pc = "fetch", !.from = ChunkEnd(b) + 1, !.attempt = 1]

\* A chunk is tried again a few times, then the backfill returns quietly.
AfterRejection(b) ==
    IF b.attempt < ChunkAttempts
    THEN [b EXCEPT !.pc = "fetch", !.attempt = @ + 1]
    ELSE [b EXCEPT !.pc = "done"]

ReplaysWith(r, b) == backfill' = [backfill EXCEPT ![r] = b]

\* backfill rejects, startWatcher and onLeadershipAcquired with it; the live
\* subscription stays.
StartFails(r) ==
    /\ LeadershipFails(r)
    /\ ReplaysWith(r, [backfill[r] EXCEPT !.pc = "failed"])

FindCheckpoint(r) ==
    LET b == backfill[r]
    IN  /\ b.pc = "find"
        /\ \/ /\ checkpoint = NoBlock
              /\ ReplaysWith(r, [b EXCEPT !.pc = "baseline"])
              /\ UNCHANGED <<lockVars, faults>>
           \/ /\ checkpoint # NoBlock
              /\ ReplaysWith(r, [b EXCEPT !.pc = "head", !.from = checkpoint + 1])
              /\ UNCHANGED <<lockVars, faults>>
           \/ Refused("find") /\ StartFails(r)
        /\ UNCHANGED <<head, dbVars, cursor, work, seenVars>>

\* First boot: the head read here becomes the checkpoint.
ReadBaseline(r) ==
    LET b == backfill[r]
    IN  /\ b.pc = "baseline"
        /\ \/ /\ ReplaysWith(r, [b EXCEPT !.pc = "create", !.upto = head])
              /\ UNCHANGED <<lockVars, faults>>
           \/ Refused("head") /\ StartFails(r)
        /\ UNCHANGED <<head, dbVars, cursor, work, seenVars>>

\* create, not upsert: a row a live batch wrote meanwhile makes it throw.
CreateCheckpoint(r) ==
    LET b == backfill[r]
    IN  /\ b.pc = "create"
        /\ \/ /\ checkpoint = NoBlock
              /\ checkpoint' = b.upto
              /\ baseline' = b.upto
              /\ ReplaysWith(r, [b EXCEPT !.pc = "done"])
              /\ UNCHANGED <<lockVars, faults>>
           \/ /\ checkpoint # NoBlock
              /\ StartFails(r)
              /\ UNCHANGED <<checkpoint, baseline, faults>>
           \/ /\ Refused("create")
              /\ StartFails(r)
              /\ UNCHANGED <<checkpoint, baseline>>
        /\ UNCHANGED <<head, claimed, rows, charged, agentRow, cursor, work,
                       applied, orphaned, gaveUp>>

\* Without an answer the backfill is abandoned and the boot goes on.
ReadHead(r) ==
    LET b == backfill[r]
    IN  /\ b.pc = "head"
        /\ \/ /\ ReplaysWith(r, [b EXCEPT !.upto = head, !.pc =
                                 IF b.from > head THEN "done" ELSE "fetch"])
              /\ UNCHANGED faults
           \/ /\ Refused("head")
              /\ ReplaysWith(r, [b EXCEPT !.pc = "done"])
        /\ UNCHANGED <<lockVars, head, dbVars, cursor, work, seenVars>>

FetchChunk(r) ==
    LET b == backfill[r]
        logs == LogsIn(b.from, ChunkEnd(b))
    IN  /\ b.pc = "fetch"
        /\ \/ /\ logs = {}
              /\ ReplaysWith(r, AfterChunk(b))
              /\ UNCHANGED <<work, faults>>
           \/ /\ logs # {}
              /\ ReplaysWith(r, [b EXCEPT !.pc = "running"])
              /\ GoesOnWith(r, Backfill, Loaded(logs))
              /\ UNCHANGED faults
           \/ /\ Refused("fetch")
              /\ ReplaysWith(r, AfterRejection(b))
              /\ UNCHANGED work
        /\ UNCHANGED <<lockVars, head, dbVars, cursor, seenVars>>

-----------------------------------------------------------------------------
(* The life of a process *)

\* The logs a process is working on.
InHand(r) == {Current(work[r][w]) : w \in
    {v \in Workers : work[r][v].pc \in {"row", "spend", "resolve", "release"}}}

ProcessEnds(r) ==
    /\ Die(r)
    /\ cursor' = [cursor EXCEPT ![r] = NoBlock]
    /\ backfill' = [backfill EXCEPT ![r] = NoReplay]
    /\ work' = [work EXCEPT ![r] = [w \in Workers |-> Idle]]
    /\ orphaned' = orphaned \union InHand(r)
    /\ UNCHANGED <<head, dbVars, applied, gaveUp, baseline>>

Crash(r) == ProcessEnds(r) /\ UNCHANGED faults

\* The checkpoint moves to this batch's block, forwards or backwards.
WriteCheckpoint(r, w) ==
    LET b == work[r][w]
    IN  /\ b.pc = "mark"
        /\ checkpoint' = IF b.reached = NoBlock THEN checkpoint ELSE b.reached
        /\ baseline' = IF baseline = NoBlock THEN checkpoint' ELSE baseline
        /\ GoesOnWith(r, w, Idle)
        /\ ReplaysWith(r, IF w = Backfill THEN AfterChunk(backfill[r])
                                          ELSE backfill[r])
        /\ UNCHANGED <<lockVars, head, claimed, rows, charged, agentRow, cursor,
                       applied, orphaned, gaveUp, faults>>

\* Refused: the chunk loop catches it in a backfill; nobody catches it in a
\* live batch, and a rejection nobody handles ends the process.
CheckpointRefused(r, w) ==
    LET b == work[r][w]
    IN  /\ b.pc = "mark"
        /\ b.reached # NoBlock
        /\ Refused("mark")
        /\ \/ /\ w = Backfill
              /\ GoesOnWith(r, w, Idle)
              /\ ReplaysWith(r, AfterRejection(backfill[r]))
              /\ UNCHANGED <<lockVars, head, dbVars, cursor, seenVars>>
           \/ w # Backfill /\ ProcessEnds(r)

\* runIndexerLeadership gets the lock: startWatcher subscribes and queues the
\* backfill.  Bound: a process whose start failed does not start again.
StartWatching(r) ==
    /\ backfill[r].pc = "off"
    /\ Acquire(r)
    /\ ReplaysWith(r, [NoReplay EXCEPT !.pc = "find"])
    /\ UNCHANGED <<head, dbVars, cursor, work, seenVars, faults>>

StartSweeper(r) ==
    /\ backfill[r].pc = "done"
    /\ LeadershipRuns(r)
    /\ UNCHANGED indexerVars

\* The subscription begins at the head its first poll sees.
Subscribe(r) ==
    /\ backfill[r].pc # "off"
    /\ cursor[r] = NoBlock
    /\ cursor' = [cursor EXCEPT ![r] = head]
    /\ UNCHANGED <<lockVars, head, dbVars, backfill, work, seenVars, faults>>

\* A later poll hands the new logs to onLogs and does not wait for it.
Poll(r, s) ==
    LET logs == LogsIn(cursor[r] + 1, head)
    IN  /\ cursor[r] # NoBlock
        /\ cursor[r] < head
        /\ work[r][s] = Idle
        /\ cursor' = [cursor EXCEPT ![r] = head]
        /\ IF logs = {} THEN UNCHANGED work ELSE GoesOnWith(r, s, Loaded(logs))
        /\ UNCHANGED <<lockVars, head, dbVars, backfill, seenVars, faults>>

Restart(r) == Boot(r) /\ UNCHANGED indexerVars

LockConnectionDies(r) == LoseLock(r) /\ UNCHANGED indexerVars

Mine ==
    /\ head < MaxBlock
    /\ head' = head + 1
    /\ UNCHANGED <<lockVars, dbVars, cursor, backfill, work, seenVars, faults>>

\* The PolicySet watcher makes sure the agent has a row.
IndexPolicySet ==
    /\ ~agentRow
    /\ agentRow' = TRUE
    /\ UNCHANGED <<lockVars, head, checkpoint, claimed, rows, charged, cursor,
                   backfill, work, seenVars, faults>>

BatchStep(r, w) ==
    \/ ClaimLog(r, w) \/ WriteRow(r, w) \/ CountSpend(r, w)
    \/ ResolveRequest(r, w) \/ ReleaseClaim(r, w)
    \/ WriteCheckpoint(r, w) \/ CheckpointRefused(r, w)

ReplayStep(r) ==
    \/ FindCheckpoint(r) \/ ReadBaseline(r) \/ CreateCheckpoint(r)
    \/ ReadHead(r) \/ FetchChunk(r)

PollStep(r) == Subscribe(r) \/ \E s \in Slots : Poll(r, s)

LeaderStep(r) == StartWatching(r) \/ StartSweeper(r)

Next ==
    \/ Mine \/ IndexPolicySet
    \/ \E r \in Replicas :
         \/ LeaderStep(r) \/ ReplayStep(r) \/ PollStep(r)
         \/ \E w \in Workers : BatchStep(r, w)
         \/ Crash(r) \/ Restart(r) \/ LockConnectionDies(r)

Spec == Init /\ [][Next]_vars

\* A live process runs its timers and its promises, and the platform starts a
\* dead one again; no fairness for the chain, for crashes or for refusals.
Fairness ==
    \A r \in Replicas :
        /\ WF_vars(LeaderStep(r)) /\ WF_vars(ReplayStep(r))
        /\ WF_vars(PollStep(r)) /\ WF_vars(Restart(r))
        /\ \A w \in Workers : WF_vars(BatchStep(r, w))

FairSpec == Spec /\ Fairness
=============================================================================
