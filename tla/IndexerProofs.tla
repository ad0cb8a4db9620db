---------------------------- MODULE IndexerProofs ----------------------------
(***************************************************************************)
(* What must hold of the event indexer, proved for any number of replicas, *)
(* events, live batches, crashes, lost locks and refused statements.       *)
(***************************************************************************)
EXTENDS IndexerProperties, FiniteSetTheorems, WellFoundedInduction, TLAPS

-----------------------------------------------------------------------------
(* The loop of a batch *)

\* A set of numbers has a least one, and Current is it.
LEMMA LeastNumber ==
  ASSUME NEW S \in SUBSET Nat, S # {}
  PROVE  \E n \in S : \A m \in S : n <= m
<1>1. PICK n \in S : \A m \in S : <<m, n>> \notin OpToRel(<, Nat)
  BY NatLessThanWellFounded, WFMin
<1>2. \A m \in S : ~(m < n)
  BY <1>1 DEF OpToRel
<1>. QED BY <1>2

Handling == {"row", "spend", "resolve", "release"}
Looping == Handling \union {"claim"}

\* A batch in its loop has a log to work on.
HasLog(b) == b.pc \in Looping => b.todo # {}

LEMMA CurrentIsALog ==
  ASSUME NEW b \in Batch, b.todo # {}
  PROVE  Current(b) \in b.todo /\ Current(b) \in Logs
<1>1. b.todo \in SUBSET Nat /\ b.todo \subseteq Logs
  BY IndexerAssumption DEF Batch
<1>2. \E l \in b.todo : \A m \in b.todo : l <= m
  BY <1>1, LeastNumber
<1>. QED BY <1>1, <1>2 DEF Current

\* The loop's moves, from a batch that has a log.
LEMMA BatchMoves ==
  ASSUME NEW b \in Batch, b.todo # {}
  PROVE  /\ \A x \in {Onward(b), Caught(b), Retried(b), Processed(b)} :
              x \in Batch /\ HasLog(x)
         /\ Onward(b).pc \in {"claim", "mark"}
         /\ Onward(b).reached = b.reached
         /\ Processed(b).pc \in {"claim", "mark"}
         /\ Processed(b).reached \in {b.reached, BlockOf[Current(b)]}
         /\ Caught(b).pc = "release"
         /\ Caught(b).todo = b.todo /\ Caught(b).reached = b.reached
         /\ Retried(b).pc \in {"row", "release"}
         /\ Retried(b).todo = b.todo /\ Retried(b).reached = b.reached
<1>. DEFINE l == Current(b)
<1>1. l \in b.todo /\ l \in Logs /\ BlockOf[l] \in MaybeBlock
  <2>1. l \in b.todo /\ l \in Logs
    BY CurrentIsALog
  <2>2. MaxBlock \in Nat /\ BlockOf \in [Logs -> 1..MaxBlock]
    BY IndexerAssumption
  <2>. QED BY <2>1, <2>2 DEF MaybeBlock, Blocks
<1>2. LogAttempts \in Nat \ {0} /\ 1 \in 1..LogAttempts
  BY IndexerAssumption
<1>3. /\ Caught(b) \in Batch /\ HasLog(Caught(b)) /\ Caught(b).pc = "release"
      /\ Caught(b).todo = b.todo /\ Caught(b).reached = b.reached
  BY DEF Caught, Batch, HasLog
<1>4. /\ Onward(b) \in Batch /\ HasLog(Onward(b))
      /\ Onward(b).pc \in {"claim", "mark"} /\ Onward(b).reached = b.reached
  <2>. DEFINE rest == b.todo \ {l}
  <2>1. rest \in SUBSET Logs
    BY DEF Batch
  <2>2. /\ Onward(b).pc = IF rest = {} THEN "mark" ELSE "claim"
        /\ Onward(b).todo = rest /\ Onward(b).reached = b.reached
    BY DEF Onward, Batch
  <2>3. Onward(b) \in Batch
    BY <1>2, <2>1 DEF Onward, Batch
  <2>. QED BY <2>2, <2>3 DEF HasLog, Looping, Handling
<1>5. /\ Processed(b) \in Batch /\ HasLog(Processed(b))
      /\ Processed(b).pc = Onward(b).pc
      /\ Processed(b).reached \in {b.reached, BlockOf[l]}
  BY <1>1, <1>4 DEF Processed, Batch, HasLog
<1>6. /\ Retried(b) \in Batch /\ HasLog(Retried(b))
      /\ Retried(b).pc \in {"row", "release"}
      /\ Retried(b).todo = b.todo /\ Retried(b).reached = b.reached
  <2>1. b.tries \in 1..LogAttempts
    BY DEF Batch
  <2>2. b.tries < LogAttempts => b.tries + 1 \in 1..LogAttempts
    BY <1>2, <2>1
  <2>3. CASE b.tries < LogAttempts
    BY <2>2, <2>3 DEF Retried, Batch, HasLog
  <2>. QED BY <1>3, <2>3 DEF Retried
<1>. QED BY <1>3, <1>4, <1>5, <1>6

Work == [Replicas -> [Workers -> Batch]]

\* A step of one worker leaves the others where they are.
LEMMA OneWorkerMoves ==
  ASSUME work \in Work, NEW r \in Replicas, NEW w \in Workers,
         NEW x \in Batch, GoesOnWith(r, w, x)
  PROVE  /\ work' \in Work /\ work'[r][w] = x
         /\ \A s \in Replicas, v \in Workers :
              s # r \/ v # w => work'[s][v] = work[s][v]
BY DEF GoesOnWith, Work

\* The moves of a backfill.
LEMMA ReplayMoves ==
  ASSUME NEW b \in Replay
  PROVE  /\ AfterChunk(b) \in Replay /\ AfterRejection(b) \in Replay
         /\ AfterChunk(b).pc \in {"done", "fetch"}
         /\ AfterRejection(b).pc \in {"done", "fetch"}
         /\ ChunkEnd(b) \in Int
<1>1. /\ MaxBlock \in Nat /\ ChunkSize \in Nat \ {0}
      /\ ChunkAttempts \in Nat \ {0}
  BY IndexerAssumption
<1>2. /\ b.from \in Nat /\ b.upto \in Blocks /\ b.upto \in Nat
      /\ b.attempt \in 1..ChunkAttempts
  BY <1>1 DEF Replay, Blocks
<1>3. ChunkEnd(b) \in Nat
  BY <1>1, <1>2 DEF ChunkEnd, Lower
<1>4. ChunkEnd(b) + 1 \in Nat /\ 1 \in 1..ChunkAttempts
  BY <1>1, <1>3
<1>5. AfterChunk(b) \in Replay /\ AfterChunk(b).pc \in {"done", "fetch"}
  BY <1>4 DEF AfterChunk, Replay
<1>6. AfterRejection(b) \in Replay /\ AfterRejection(b).pc \in {"done", "fetch"}
  <2>1. b.attempt < ChunkAttempts => b.attempt + 1 \in 1..ChunkAttempts
    BY <1>1, <1>2
  <2>. QED BY <2>1 DEF AfterRejection, Replay
<1>. QED BY <1>3, <1>5, <1>6

-----------------------------------------------------------------------------
(* Types *)

TypeInv ==
    /\ TypeOK
    /\ \A r \in Replicas, w \in Workers : HasLog(work[r][w])

LEMMA InitTyped == Init => TypeInv
<1>. SUFFICES ASSUME Init PROVE TypeInv
  OBVIOUS
<1>1. /\ MaxBlock \in Nat /\ InitHead \in 0..MaxBlock
      /\ InitCheckpoints \subseteq 0..InitHead \union {NoBlock}
      /\ MaxFaults \in Nat /\ 1 \in 1..LogAttempts /\ 1 \in 1..ChunkAttempts
  BY IndexerAssumption
<1>2. LockTypeOK
  BY LeadershipAssumption DEF Init, LockInit, LockTypeOK, Phases
<1>3. head \in Blocks /\ checkpoint \in MaybeBlock /\ baseline \in MaybeBlock
  BY <1>1 DEF Init, Blocks, MaybeBlock
<1>4. /\ claimed \subseteq Logs /\ applied \subseteq Logs
      /\ rows \in [Logs -> Nat] /\ charged \in [Logs -> Nat]
      /\ agentRow \in BOOLEAN
  BY DEF Init, LogsIn
<1>5. Idle \in Batch /\ HasLog(Idle) /\ NoReplay \in Replay
  BY <1>1 DEF Idle, Batch, HasLog, Looping, Handling, NoReplay, Replay, Blocks,
              MaybeBlock
<1>6. /\ cursor \in [Replicas -> MaybeBlock]
      /\ backfill \in [Replicas -> Replay]
      /\ work \in [Replicas -> [Workers -> Batch]]
      /\ \A r \in Replicas, w \in Workers : work[r][w] = Idle
  BY <1>5 DEF Init, MaybeBlock
<1>. QED BY <1>1, <1>2, <1>3, <1>4, <1>5, <1>6 DEF Init, TypeInv, TypeOK

\* The parts of the state a step of a worker, a backfill or the lock changes.
DbTyped ==
    /\ head \in Blocks /\ checkpoint \in MaybeBlock
    /\ claimed \subseteq Logs /\ applied \subseteq Logs
    /\ orphaned \subseteq Logs /\ gaveUp \subseteq Logs
    /\ rows \in [Logs -> Nat] /\ charged \in [Logs -> Nat]
    /\ agentRow \in BOOLEAN
    /\ cursor \in [Replicas -> MaybeBlock]
    /\ baseline \in MaybeBlock
    /\ faults \in 0..MaxFaults
ReplayTyped == backfill \in [Replicas -> Replay]
WorkTyped ==
    work \in Work /\ \A r \in Replicas, w \in Workers : HasLog(work[r][w])

LEMMA TypeParts ==
  /\ TypeInv <=> LockTypeOK /\ DbTyped /\ ReplayTyped /\ WorkTyped
  /\ TypeInv' <=> LockTypeOK' /\ DbTyped' /\ ReplayTyped' /\ WorkTyped'
BY DEF TypeInv, TypeOK, DbTyped, ReplayTyped, WorkTyped, Work

LEMMA RefusalsCounted ==
  ASSUME faults \in 0..MaxFaults, NEW site, Refused(site)
  PROVE  faults' \in 0..MaxFaults
BY IndexerAssumption DEF Refused

LEMMA WorkStaysTyped ==
  ASSUME WorkTyped, NEW r \in Replicas, NEW w \in Workers, NEW x \in Batch,
         HasLog(x), GoesOnWith(r, w, x)
  PROVE  WorkTyped'
<1>1. /\ work' \in Work /\ work'[r][w] = x
      /\ \A s \in Replicas, v \in Workers :
           s # r \/ v # w => work'[s][v] = work[s][v]
  BY OneWorkerMoves DEF WorkTyped
<1>. QED BY <1>1 DEF WorkTyped, HasLog

LEMMA IdleTyped == Idle \in Batch /\ HasLog(Idle)
BY IndexerAssumption DEF Idle, Batch, HasLog, Looping, Handling, MaybeBlock

\* A batch starts with the logs of its range.
LEMMA LoadedTyped ==
  ASSUME NEW from, NEW to, LogsIn(from, to) # {}
  PROVE  Loaded(LogsIn(from, to)) \in Batch /\ HasLog(Loaded(LogsIn(from, to)))
BY IdleTyped DEF Loaded, LogsIn, Batch, HasLog, Idle

\* What a process had in hand are events.
LEMMA InHandAreLogs ==
  ASSUME WorkTyped, NEW r \in Replicas
  PROVE  InHand(r) \subseteq Logs
<1>1. \A w \in Workers : work[r][w] \in Batch /\ HasLog(work[r][w])
  BY DEF WorkTyped, Work
<1>. QED BY <1>1, CurrentIsALog DEF InHand, HasLog, Looping, Handling

LEMMA ProcessEndTyped ==
  ASSUME TypeInv, NEW r \in Replicas, ProcessEnds(r), faults' \in 0..MaxFaults
  PROVE  TypeInv'
<1>0. LockTypeOK /\ DbTyped /\ ReplayTyped /\ WorkTyped
  BY TypeParts
<1>1. LockTypeOK'
  BY <1>0, LeadershipAssumption DEF ProcessEnds, Die, LockTypeOK, Phases
<1>2. DbTyped'
  BY <1>0, InHandAreLogs DEF ProcessEnds, DbTyped, dbVars, MaybeBlock
<1>3. ReplayTyped'
  <2>1. NoReplay \in Replay
    BY IndexerAssumption DEF NoReplay, Replay, Blocks
  <2>. QED BY <1>0, <2>1 DEF ProcessEnds, ReplayTyped
<1>4. WorkTyped'
  <2>1. [w \in Workers |-> Idle] \in [Workers -> Batch]
    BY IdleTyped
  <2>2. work' \in Work
    BY <1>0, <2>1 DEF ProcessEnds, WorkTyped, Work
  <2>3. ASSUME NEW s \in Replicas, NEW w \in Workers
        PROVE  work'[s][w] \in {Idle, work[s][w]}
    BY <1>0 DEF ProcessEnds, WorkTyped, Work
  <2>. QED BY <1>0, <2>2, <2>3, IdleTyped DEF WorkTyped, HasLog
<1>. QED BY <1>1, <1>2, <1>3, <1>4, TypeParts

LEMMA BatchStepTyped ==
  ASSUME TypeInv, NEW r \in Replicas, NEW w \in Workers, BatchStep(r, w)
  PROVE  TypeInv'
<1>. DEFINE b == work[r][w]
            l == Current(b)
<1>0. LockTypeOK /\ DbTyped /\ ReplayTyped /\ WorkTyped
  BY TypeParts
<1>1. b \in Batch /\ HasLog(b)
  BY <1>0 DEF WorkTyped, Work
<1>2. b.pc \in Looping =>
        /\ l \in Logs /\ b.todo # {}
        /\ \A x \in {Onward(b), Caught(b), Retried(b), Processed(b)} :
             x \in Batch /\ HasLog(x)
  BY <1>1, CurrentIsALog, BatchMoves DEF HasLog
<1>3. ASSUME b.pc \in Handling, NEW p \in Handling
      PROVE  [b EXCEPT !.pc = p] \in Batch /\ HasLog([b EXCEPT !.pc = p])
  BY <1>1, <1>2, <1>3 DEF Batch, HasLog, Handling, Looping
<1>a. ASSUME faults' \in 0..MaxFaults, b.pc \in Looping, AttemptFails(r, w)
      PROVE  TypeInv'
  <2>1. WorkTyped'
    BY <1>a, <1>0, <1>2, WorkStaysTyped DEF AttemptFails
  <2>2. DbTyped' /\ LockTypeOK' /\ ReplayTyped'
    BY <1>a, <1>0, <1>2
       DEF AttemptFails, DbTyped, dbVars, LockTypeOK, lockVars, ReplayTyped
  <2>. QED BY <2>1, <2>2, TypeParts
<1>b. HandlerRefused(r, w) /\ b.pc \in Looping => TypeInv'
  BY <1>a, <1>0, RefusalsCounted DEF HandlerRefused, DbTyped
<1>4. CASE ClaimLog(r, w)
  <2>0. b.pc = "claim" /\ b.pc \in Looping
    BY <1>4 DEF ClaimLog, Looping
  <2>1. \E x \in Batch : HasLog(x) /\ GoesOnWith(r, w, x)
    <3>1. [b EXCEPT !.pc = "row"] \in Batch /\ HasLog([b EXCEPT !.pc = "row"])
      BY <1>1, <1>2, <2>0 DEF Batch, HasLog
    <3>. QED BY <1>4, <3>1, <2>0, <1>2 DEF ClaimLog
  <2>2. WorkTyped'
    BY <2>1, <1>0, WorkStaysTyped
  <2>3. faults' \in 0..MaxFaults
    BY <1>4, <1>0, RefusalsCounted DEF ClaimLog, DbTyped
  <2>4. DbTyped' /\ LockTypeOK' /\ ReplayTyped'
    BY <1>4, <1>0, <1>2, <2>0, <2>3
       DEF ClaimLog, DbTyped, LockTypeOK, lockVars, ReplayTyped
  <2>. QED BY <2>2, <2>4, TypeParts
<1>5. CASE WriteRow(r, w)
  <2>0. b.pc = "row" /\ b.pc \in Handling /\ b.pc \in Looping
    BY <1>5 DEF WriteRow, Handling, Looping
  <2>1. CASE HandlerRefused(r, w)
    BY <2>0, <2>1, <1>b
  <2>2. CASE AttemptFails(r, w) /\ UNCHANGED faults
    BY <2>0, <2>2, <1>a, <1>0 DEF DbTyped
  <2>3. CASE rows' = [rows EXCEPT ![l] = @ + 1]
             /\ GoesOnWith(r, w, [b EXCEPT !.pc = "spend"])
             /\ UNCHANGED <<lockVars, head, checkpoint, claimed, charged,
                             agentRow, cursor, backfill, seenVars, faults>>
    <3>1. WorkTyped'
      BY <2>0, <2>3, <1>0, <1>3, WorkStaysTyped DEF Handling
    <3>2. DbTyped' /\ LockTypeOK' /\ ReplayTyped'
      BY <2>0, <2>3, <1>0, <1>2
         DEF DbTyped, seenVars, LockTypeOK, lockVars, ReplayTyped
    <3>. QED BY <3>1, <3>2, TypeParts
  <2>. QED BY <1>5, <2>1, <2>2, <2>3 DEF WriteRow
<1>6. CASE CountSpend(r, w)
  <2>0. b.pc = "spend" /\ b.pc \in Handling /\ b.pc \in Looping
    BY <1>6 DEF CountSpend, Handling, Looping
  <2>1. CASE HandlerRefused(r, w)
    BY <2>0, <2>1, <1>b
  <2>2. CASE charged' = [charged EXCEPT ![l] = @ + 1]
             /\ GoesOnWith(r, w, [b EXCEPT !.pc = "resolve"])
             /\ UNCHANGED <<lockVars, head, checkpoint, claimed, rows,
                             agentRow, cursor, backfill, seenVars, faults>>
    <3>1. WorkTyped'
      BY <2>0, <2>2, <1>0, <1>3, WorkStaysTyped DEF Handling
    <3>2. DbTyped' /\ LockTypeOK' /\ ReplayTyped'
      BY <2>0, <2>2, <1>0, <1>2
         DEF DbTyped, seenVars, LockTypeOK, lockVars, ReplayTyped
    <3>. QED BY <3>1, <3>2, TypeParts
  <2>. QED BY <1>6, <2>1, <2>2 DEF CountSpend
<1>7. CASE ResolveRequest(r, w)
  <2>0. b.pc = "resolve" /\ b.pc \in Handling /\ b.pc \in Looping
    BY <1>7 DEF ResolveRequest, Handling, Looping
  <2>1. CASE HandlerRefused(r, w)
    BY <2>0, <2>1, <1>b
  <2>2. CASE applied' = applied \union {l}
             /\ GoesOnWith(r, w, Processed(b))
             /\ UNCHANGED <<lockVars, head, dbVars, cursor, backfill,
                             orphaned, gaveUp, baseline, faults>>
    <3>1. WorkTyped'
      BY <2>0, <2>2, <1>0, <1>2, WorkStaysTyped
    <3>2. DbTyped' /\ LockTypeOK' /\ ReplayTyped'
      BY <2>0, <2>2, <1>0, <1>2
         DEF DbTyped, dbVars, LockTypeOK, lockVars, ReplayTyped
    <3>. QED BY <3>1, <3>2, TypeParts
  <2>. QED BY <1>7, <2>1, <2>2 DEF ResolveRequest
<1>8. CASE ReleaseClaim(r, w)
  <2>0. b.pc \in Looping
    BY <1>8 DEF ReleaseClaim, Handling, Looping
  <2>1. WorkTyped'
    BY <2>0, <1>8, <1>0, <1>2, WorkStaysTyped DEF ReleaseClaim
  <2>2. faults' \in 0..MaxFaults
    BY <1>8, <1>0, RefusalsCounted DEF ReleaseClaim, DbTyped
  <2>3. DbTyped' /\ LockTypeOK' /\ ReplayTyped'
    BY <2>0, <2>2, <1>8, <1>0, <1>2
       DEF ReleaseClaim, DbTyped, LockTypeOK, lockVars, ReplayTyped
  <2>. QED BY <2>1, <2>3, TypeParts
<1>9. CASE WriteCheckpoint(r, w)
  <2>1. WorkTyped'
    BY <1>9, <1>0, IdleTyped, WorkStaysTyped DEF WriteCheckpoint
  <2>2. b.reached \in MaybeBlock
    BY <1>1 DEF Batch
  <2>3. DbTyped' /\ LockTypeOK'
    BY <1>9, <1>0, <2>2 DEF WriteCheckpoint, DbTyped, LockTypeOK, lockVars
  <2>4. ReplayTyped'
    BY <1>9, <1>0, ReplayMoves DEF WriteCheckpoint, ReplaysWith, ReplayTyped
  <2>. QED BY <2>1, <2>3, <2>4, TypeParts
<1>10. CASE CheckpointRefused(r, w)
  <2>1. faults' \in 0..MaxFaults
    BY <1>10, <1>0, RefusalsCounted DEF CheckpointRefused, DbTyped
  <2>2. CASE GoesOnWith(r, w, Idle)
             /\ ReplaysWith(r, AfterRejection(backfill[r]))
             /\ UNCHANGED <<lockVars, head, dbVars, cursor, seenVars>>
    <3>1. WorkTyped'
      BY <2>2, <1>0, IdleTyped, WorkStaysTyped
    <3>2. ReplayTyped'
      BY <2>2, <1>0, ReplayMoves DEF ReplaysWith, ReplayTyped
    <3>3. DbTyped' /\ LockTypeOK'
      BY <2>1, <2>2, <1>0
         DEF DbTyped, dbVars, seenVars, LockTypeOK, lockVars
    <3>. QED BY <3>1, <3>2, <3>3, TypeParts
  <2>3. CASE ProcessEnds(r)
    BY <2>1, <2>3, ProcessEndTyped
  <2>. QED BY <1>10, <2>2, <2>3 DEF CheckpointRefused
<1>. QED BY <1>4, <1>5, <1>6, <1>7, <1>8, <1>9, <1>10 DEF BatchStep

LEMMA ReplayStepTyped ==
  ASSUME TypeInv, NEW r \in Replicas, ReplayStep(r)
  PROVE  TypeInv'
<1>. DEFINE b == backfill[r]
<1>0. LockTypeOK /\ DbTyped /\ ReplayTyped /\ WorkTyped /\ b \in Replay
  BY TypeParts DEF ReplayTyped
<1>1. MaxBlock \in Nat /\ head \in Nat
      /\ (checkpoint # NoBlock => checkpoint + 1 \in Nat)
  BY <1>0, IndexerAssumption DEF DbTyped, Blocks, MaybeBlock, NoBlock
<1>2. ASSUME NEW x \in Replay, ReplaysWith(r, x)
      PROVE  ReplayTyped'
  BY <1>0, <1>2 DEF ReplaysWith, ReplayTyped
<1>3. StartFails(r) => LockTypeOK' /\ ReplayTyped'
  <2>1. [b EXCEPT !.pc = "failed"] \in Replay
    BY <1>0 DEF Replay
  <2>. QED BY <2>1, <1>2, <1>0
           DEF StartFails, LeadershipFails, LockTypeOK, Phases
<1>4. \A site : Refused(site) => faults' \in 0..MaxFaults
  BY <1>0, RefusalsCounted DEF DbTyped
<1>5. UNCHANGED work => WorkTyped'
  BY <1>0 DEF WorkTyped
<1>6. UNCHANGED lockVars => LockTypeOK'
  BY <1>0 DEF LockTypeOK, lockVars
<1>7. CASE FindCheckpoint(r)
  <2>1. DbTyped'
    BY <1>7, <1>0, <1>4 DEF FindCheckpoint, DbTyped, dbVars, seenVars
  <2>2. [b EXCEPT !.pc = "baseline"] \in Replay
    BY <1>0 DEF Replay
  <2>3. checkpoint # NoBlock =>
          [b EXCEPT !.pc = "head", !.from = checkpoint + 1] \in Replay
    BY <1>0, <1>1 DEF Replay
  <2>4. LockTypeOK' /\ ReplayTyped'
    BY <1>7, <1>2, <1>3, <1>6, <2>2, <2>3 DEF FindCheckpoint
  <2>. QED BY <1>7, <1>5, <2>1, <2>4, TypeParts DEF FindCheckpoint
<1>8. CASE ReadBaseline(r)
  <2>1. DbTyped'
    BY <1>8, <1>0, <1>4 DEF ReadBaseline, DbTyped, dbVars, seenVars
  <2>2. [b EXCEPT !.pc = "create", !.upto = head] \in Replay
    BY <1>0 DEF Replay, DbTyped
  <2>3. LockTypeOK' /\ ReplayTyped'
    BY <1>8, <1>2, <1>3, <1>6, <2>2 DEF ReadBaseline
  <2>. QED BY <1>8, <1>5, <2>1, <2>3, TypeParts DEF ReadBaseline
<1>9. CASE CreateCheckpoint(r)
  <2>1. DbTyped'
    <3>1. b.upto \in MaybeBlock
      BY <1>0 DEF Replay, MaybeBlock
    <3>. QED BY <1>9, <3>1, <1>0, <1>4 DEF CreateCheckpoint, DbTyped
  <2>2. [b EXCEPT !.pc = "done"] \in Replay
    BY <1>0 DEF Replay
  <2>3. LockTypeOK' /\ ReplayTyped'
    BY <1>9, <1>2, <1>3, <1>6, <2>2 DEF CreateCheckpoint
  <2>. QED BY <1>9, <1>5, <2>1, <2>3, TypeParts DEF CreateCheckpoint
<1>10. CASE ReadHead(r)
  <2>1. DbTyped'
    BY <1>10, <1>0, <1>4 DEF ReadHead, DbTyped, dbVars, seenVars
  <2>2. /\ [b EXCEPT !.upto = head,
                     !.pc = IF b.from > head THEN "done" ELSE "fetch"] \in Replay
        /\ [b EXCEPT !.pc = "done"] \in Replay
    BY <1>0 DEF Replay, DbTyped
  <2>3. LockTypeOK' /\ ReplayTyped'
    BY <1>10, <1>2, <1>6, <2>2 DEF ReadHead
  <2>. QED BY <1>10, <1>5, <2>1, <2>3, TypeParts DEF ReadHead
<1>11. CASE FetchChunk(r)
  <2>1. DbTyped'
    BY <1>11, <1>0, <1>4 DEF FetchChunk, DbTyped, dbVars, seenVars
  <2>2. [b EXCEPT !.pc = "running"] \in Replay
    BY <1>0 DEF Replay
  <2>3. LockTypeOK' /\ ReplayTyped'
    BY <1>11, <1>0, <1>2, <1>6, <2>2, ReplayMoves DEF FetchChunk
  <2>4. WorkTyped'
    BY <1>11, <1>0, <1>5, LoadedTyped, WorkStaysTyped
       DEF FetchChunk, Workers
  <2>. QED BY <1>11, <2>1, <2>3, <2>4, TypeParts DEF FetchChunk
<1>. QED BY <1>7, <1>8, <1>9, <1>10, <1>11 DEF ReplayStep

LEMMA LockStepTyped ==
  ASSUME TypeInv, NEW r \in Replicas,
         \/ LeaderStep(r) \/ PollStep(r)
         \/ Crash(r) \/ Restart(r) \/ LockConnectionDies(r)
  PROVE  TypeInv'
<1>0. LockTypeOK /\ DbTyped /\ ReplayTyped /\ WorkTyped
  BY TypeParts
<1>1. ASSUME UNCHANGED indexerVars, LockTypeOK'
      PROVE  TypeInv'
  BY <1>0, <1>1, TypeParts
     DEF indexerVars, dbVars, seenVars, DbTyped, ReplayTyped, WorkTyped
<1>2. CASE StartWatching(r)
  <2>1. LockTypeOK'
    BY <1>0, <1>2 DEF StartWatching, Acquire, LockTypeOK, Phases
  <2>2. [NoReplay EXCEPT !.pc = "find"] \in Replay
    BY IndexerAssumption DEF NoReplay, Replay, Blocks
  <2>3. ReplayTyped'
    BY <1>0, <1>2, <2>2 DEF StartWatching, ReplaysWith, ReplayTyped
  <2>4. DbTyped' /\ WorkTyped'
    BY <1>0, <1>2 DEF StartWatching, DbTyped, WorkTyped, dbVars, seenVars
  <2>. QED BY <2>1, <2>3, <2>4, TypeParts
<1>3. CASE StartSweeper(r)
  <2>1. LockTypeOK'
    BY <1>0, <1>3 DEF StartSweeper, LeadershipRuns, LockTypeOK, Phases
  <2>. QED BY <1>1, <1>3, <2>1 DEF StartSweeper
<1>4. CASE Subscribe(r)
  <2>1. head \in MaybeBlock
    BY <1>0 DEF DbTyped, MaybeBlock
  <2>2. DbTyped'
    BY <1>0, <1>4, <2>1 DEF Subscribe, DbTyped, dbVars, seenVars
  <2>3. LockTypeOK' /\ ReplayTyped' /\ WorkTyped'
    BY <1>0, <1>4 DEF Subscribe, LockTypeOK, lockVars, ReplayTyped, WorkTyped
  <2>. QED BY <2>2, <2>3, TypeParts
<1>5. ASSUME NEW s \in Slots, Poll(r, s)
      PROVE  TypeInv'
  <2>1. head \in MaybeBlock /\ s \in Workers
    BY <1>0 DEF DbTyped, MaybeBlock, Workers
  <2>2. DbTyped'
    BY <1>0, <1>5, <2>1 DEF Poll, DbTyped, dbVars, seenVars
  <2>3. LockTypeOK' /\ ReplayTyped'
    BY <1>0, <1>5 DEF Poll, LockTypeOK, lockVars, ReplayTyped
  <2>4. WorkTyped'
    <3>1. CASE LogsIn(cursor[r] + 1, head) = {}
      BY <1>0, <1>5, <3>1 DEF Poll, WorkTyped
    <3>2. CASE LogsIn(cursor[r] + 1, head) # {}
      BY <1>0, <1>5, <3>2, <2>1, LoadedTyped, WorkStaysTyped DEF Poll
    <3>. QED BY <3>1, <3>2
  <2>. QED BY <2>2, <2>3, <2>4, TypeParts
<1>6. CASE Crash(r)
  BY <1>0, <1>6, ProcessEndTyped DEF Crash, DbTyped
<1>7. CASE Restart(r)
  <2>1. LockTypeOK'
    BY <1>0, <1>7 DEF Restart, Boot, LockTypeOK, Phases
  <2>. QED BY <1>1, <1>7, <2>1 DEF Restart
<1>8. CASE LockConnectionDies(r)
  <2>1. LockTypeOK'
    BY <1>0, <1>8, LeadershipAssumption
       DEF LockConnectionDies, LoseLock, LockTypeOK
  <2>. QED BY <1>1, <1>8, <2>1 DEF LockConnectionDies
<1>. QED BY <1>2, <1>3, <1>4, <1>5, <1>6, <1>7, <1>8 DEF LeaderStep, PollStep

LEMMA ChainStepTyped == TypeInv /\ (Mine \/ IndexPolicySet) => TypeInv'
<1>. SUFFICES ASSUME TypeInv, Mine \/ IndexPolicySet PROVE TypeInv'
  OBVIOUS
<1>0. LockTypeOK /\ DbTyped /\ ReplayTyped /\ WorkTyped
  BY TypeParts
<1>1. DbTyped'
  <2>1. MaxBlock \in Nat /\ head \in 0..MaxBlock
    BY <1>0, IndexerAssumption DEF DbTyped, Blocks
  <2>2. CASE Mine
    <3>1. head' \in Blocks
      BY <2>1, <2>2 DEF Mine, Blocks
    <3>. QED BY <1>0, <2>2, <3>1 DEF Mine, DbTyped, dbVars, seenVars
  <2>3. CASE IndexPolicySet
    BY <1>0, <2>3 DEF IndexPolicySet, DbTyped, seenVars
  <2>. QED BY <2>2, <2>3
<1>2. LockTypeOK' /\ ReplayTyped' /\ WorkTyped'
  BY <1>0 DEF Mine, IndexPolicySet, LockTypeOK, lockVars, ReplayTyped, WorkTyped
<1>. QED BY <1>1, <1>2, TypeParts

LEMMA TypeStep == TypeInv /\ [Next]_vars => TypeInv'
<1>1. TypeInv /\ UNCHANGED vars => TypeInv'
  BY DEF TypeInv, TypeOK, LockTypeOK, vars, lockVars, indexerVars, dbVars,
         seenVars
<1>. QED BY <1>1, ChainStepTyped, LockStepTyped, ReplayStepTyped, BatchStepTyped
         DEF Next

LEMMA TypesAlways == Spec => []TypeInv
BY InitTyped, TypeStep, PTL DEF Spec

\* Every variable has its type: no batch holds an event the chain does not
\* carry, no worker counts an attempt past LOG_RETRY_ATTEMPTS and no chunk one
\* past its own limit (processLogWithRetry, backfill).
THEOREM TypeCorrect == Spec => []TypeOK
<1>1. TypeInv => TypeOK
  BY DEF TypeInv
<1>. QED BY <1>1, TypesAlways, PTL

-----------------------------------------------------------------------------
(* What a step does to the workers and to the books *)

\* A backfill's worker is busy only while its chunk loop waits for it.
ReplayInv ==
    \A r \in Replicas :
        work[r][Backfill].pc # "idle" => backfill[r].pc = "running"

Inv == TypeInv /\ ReplayInv

books == <<claimed, rows, charged, applied, orphaned>>

\* A worker without a batch gets one.
Begins(r, w) ==
    /\ work[r][w].pc = "idle"
    /\ \E logs \in SUBSET Logs :
         logs # {} /\ GoesOnWith(r, w, Loaded(logs))
    /\ UNCHANGED books

\* A worker is through with its batch.
Ends(r, w) ==
    /\ work[r][w].pc = "mark"
    /\ GoesOnWith(r, w, Idle)
    /\ UNCHANGED books

\* A worker goes on in the loop without touching the books.
LetsGo(r, w) ==
    LET b == work[r][w]
    IN  /\ b.pc = "claim"
        /\ \/ GoesOnWith(r, w, Onward(b)) /\ ~InsertsMarker(Current(b))
           \/ GoesOnWith(r, w, Caught(b)) /\ "claim" \in FaultSites
        /\ UNCHANGED books

Fails(r, w) ==
    /\ work[r][w].pc \in {"row", "spend", "resolve"}
    /\ work[r][w].pc = "row" \/ "write" \in FaultSites
    /\ GoesOnWith(r, w, Retried(work[r][w]))
    /\ UNCHANGED books

Takes(r, w) ==
    LET b == work[r][w]
        l == Current(b)
    IN  /\ b.pc = "claim"
        /\ l \notin claimed
        /\ claimed' = claimed \union {l}
        /\ GoesOnWith(r, w, [b EXCEPT !.pc = "row"])
        /\ UNCHANGED <<rows, charged, applied, orphaned>>

Enters(r, w) ==
    LET b == work[r][w]
    IN  /\ b.pc = "row"
        /\ rows' = [rows EXCEPT ![Current(b)] = @ + 1]
        /\ GoesOnWith(r, w, [b EXCEPT !.pc = "spend"])
        /\ UNCHANGED <<claimed, charged, applied, orphaned>>

Charges(r, w) ==
    LET b == work[r][w]
    IN  /\ b.pc = "spend"
        /\ charged' = [charged EXCEPT ![Current(b)] = @ + 1]
        /\ GoesOnWith(r, w, [b EXCEPT !.pc = "resolve"])
        /\ UNCHANGED <<claimed, rows, applied, orphaned>>

Finishes(r, w) ==
    LET b == work[r][w]
    IN  /\ b.pc = "resolve"
        /\ applied' = applied \union {Current(b)}
        /\ GoesOnWith(r, w, Processed(b))
        /\ UNCHANGED <<claimed, rows, charged, orphaned>>

Releases(r, w) ==
    LET b == work[r][w]
    IN  /\ b.pc = "release"
        /\ GoesOnWith(r, w, Onward(b))
        /\ \/ claimed' = claimed \ {Current(b)} /\ orphaned' = orphaned
           \/ orphaned' = orphaned \union {Current(b)} /\ claimed' = claimed
        /\ UNCHANGED <<rows, charged, applied>>

Stops(r) ==
    /\ work' = [work EXCEPT ![r] = [w \in Workers |-> Idle]]
    /\ orphaned' = orphaned \union InHand(r)
    /\ UNCHANGED <<claimed, rows, charged, applied>>

Moves(r, w) ==
    \/ Begins(r, w) \/ Ends(r, w) \/ LetsGo(r, w) \/ Fails(r, w)
    \/ Takes(r, w) \/ Enters(r, w) \/ Charges(r, w) \/ Finishes(r, w)
    \/ Releases(r, w)

\* Every step moves one worker, ends a process, or leaves workers and books be.
LEMMA StepKinds ==
  ASSUME Inv, [Next]_vars
  PROVE  \/ \E r \in Replicas, w \in Workers : Moves(r, w)
         \/ \E r \in Replicas : Stops(r)
         \/ UNCHANGED <<work, books>>
<1>1. CASE Mine \/ IndexPolicySet \/ UNCHANGED vars
  BY <1>1 DEF Mine, IndexPolicySet, vars, indexerVars, dbVars, seenVars, books
<1>2. ASSUME NEW r \in Replicas,
             LeaderStep(r) \/ Restart(r) \/ LockConnectionDies(r) \/ Subscribe(r)
      PROVE  UNCHANGED <<work, books>>
  BY <1>2 DEF LeaderStep, StartWatching, StartSweeper, Restart,
     LockConnectionDies, Subscribe, indexerVars, dbVars, seenVars, books
<1>3. ASSUME NEW r \in Replicas, Crash(r)
      PROVE  Stops(r)
  BY <1>3 DEF Crash, ProcessEnds, Stops, dbVars
<1>4. ASSUME NEW r \in Replicas, NEW s \in Slots, Poll(r, s)
      PROVE  UNCHANGED <<work, books>> \/ Begins(r, s)
  BY <1>4 DEF Poll, Begins, Idle, LogsIn, dbVars, seenVars, books
<1>5. ASSUME NEW r \in Replicas, ReplayStep(r)
      PROVE  UNCHANGED <<work, books>> \/ Begins(r, Backfill)
  <2>1. CASE FetchChunk(r)
    <3>1. work[r][Backfill].pc = "idle"
      BY <2>1 DEF FetchChunk, Inv, ReplayInv
    <3>. QED BY <2>1, <3>1
             DEF FetchChunk, Begins, LogsIn, dbVars, seenVars, books
  <2>. QED BY <1>5, <2>1
           DEF ReplayStep, FindCheckpoint, ReadBaseline, CreateCheckpoint,
               ReadHead, dbVars, seenVars, books
<1>6. ASSUME NEW r \in Replicas, NEW w \in Workers, BatchStep(r, w)
      PROVE  Moves(r, w) \/ Stops(r)
  <2>1. CASE ClaimLog(r, w)
    BY <2>1 DEF ClaimLog, InsertsMarker, Refused, Takes, LetsGo, Moves, books
  <2>2. CASE WriteRow(r, w)
    BY <2>2 DEF WriteRow, HandlerRefused, AttemptFails, Refused, Fails, Enters,
                Moves, dbVars, seenVars, books
  <2>3. CASE CountSpend(r, w)
    BY <2>3 DEF CountSpend, HandlerRefused, AttemptFails, Refused, Fails,
                Charges, Moves, dbVars, seenVars, books
  <2>4. CASE ResolveRequest(r, w)
    BY <2>4 DEF ResolveRequest, HandlerRefused, AttemptFails, Refused, Fails,
                Finishes, Moves, dbVars, books
  <2>5. CASE ReleaseClaim(r, w)
    BY <2>5 DEF ReleaseClaim, Releases, Moves
  <2>6. CASE WriteCheckpoint(r, w)
    BY <2>6 DEF WriteCheckpoint, Ends, Moves, books
  <2>7. CASE CheckpointRefused(r, w)
    BY <2>7 DEF CheckpointRefused, ProcessEnds, Stops, Ends, Moves, dbVars,
                seenVars, books
  <2>. QED BY <1>6, <2>1, <2>2, <2>3, <2>4, <2>5, <2>6, <2>7 DEF BatchStep
<1>. QED BY <1>1, <1>2, <1>3, <1>4, <1>5, <1>6 DEF Next, PollStep, Moves,
            Workers

\* Whatever a worker goes on with, the others stay where they are.
LEMMA OthersStay ==
  ASSUME TypeInv, NEW r \in Replicas, NEW w \in Workers, NEW x,
         GoesOnWith(r, w, x)
  PROVE  /\ work'[r][w] = x
         /\ \A s \in Replicas, v \in Workers :
              s # r \/ v # w => work'[s][v] = work[s][v]
BY DEF TypeInv, TypeOK, GoesOnWith

LEMMA BackfillIsAWorker == Backfill \in Workers /\ Backfill \notin Slots
BY IndexerAssumption DEF Workers

LEMMA ReplayStepKeeps ==
  ASSUME Inv, [Next]_vars
  PROVE  ReplayInv'
<1>0. /\ TypeInv /\ ReplayInv /\ Backfill \in Workers
      /\ backfill \in [Replicas -> Replay] /\ work \in [Replicas -> [Workers -> Batch]]
  BY BackfillIsAWorker DEF Inv, TypeInv, TypeOK
<1>1. ASSUME UNCHANGED work,
             \A r \in Replicas :
               backfill'[r] = backfill[r] \/ backfill[r].pc # "running"
      PROVE  ReplayInv'
  BY <1>0, <1>1 DEF ReplayInv
<1>2. ASSUME UNCHANGED <<work, backfill>>
      PROVE  ReplayInv'
  BY <1>0, <1>2 DEF ReplayInv
<1>3. CASE Mine \/ IndexPolicySet \/ UNCHANGED vars
  BY <1>2, <1>3 DEF Mine, IndexPolicySet, vars, indexerVars
<1>4. ASSUME NEW r \in Replicas,
             StartSweeper(r) \/ Restart(r) \/ LockConnectionDies(r) \/ Subscribe(r)
      PROVE  ReplayInv'
  BY <1>2, <1>4 DEF StartSweeper, Restart, LockConnectionDies, Subscribe,
                    indexerVars
<1>5. ASSUME NEW r \in Replicas, NEW x, ReplaysWith(r, x), UNCHANGED work,
             backfill[r].pc # "running"
      PROVE  ReplayInv'
  BY <1>0, <1>1, <1>5 DEF ReplaysWith
<1>6. ASSUME NEW r \in Replicas, StartWatching(r)
      PROVE  ReplayInv'
  BY <1>5, <1>6 DEF StartWatching
<1>7. ASSUME NEW r \in Replicas, ProcessEnds(r)
      PROVE  ReplayInv'
  <2>1. ASSUME NEW s \in Replicas
        PROVE  \/ work'[s][Backfill] = Idle
               \/ work'[s] = work[s] /\ backfill'[s] = backfill[s]
    BY <1>0, <1>7 DEF ProcessEnds
  <2>. QED BY <1>0, <2>1 DEF ReplayInv, Idle
<1>8. ASSUME NEW r \in Replicas, NEW s \in Slots, Poll(r, s)
      PROVE  ReplayInv'
  <2>1. s \in Workers /\ s # Backfill
    BY BackfillIsAWorker DEF Workers
  <2>2. \A q \in Replicas : work'[q][Backfill] = work[q][Backfill]
    BY <1>0, <1>8, <2>1, OthersStay DEF Poll
  <2>. QED BY <1>0, <1>8, <2>2 DEF Poll, ReplayInv
<1>9. ASSUME NEW r \in Replicas, ReplayStep(r)
      PROVE  ReplayInv'
  <2>1. CASE FetchChunk(r)
    <3>1. CASE UNCHANGED work
      BY <1>5, <2>1, <3>1 DEF FetchChunk
    <3>2. CASE ReplaysWith(r, [backfill[r] EXCEPT !.pc = "running"])
               /\ GoesOnWith(r, Backfill,
                    Loaded(LogsIn(backfill[r].from, ChunkEnd(backfill[r]))))
      <4>1. backfill'[r].pc = "running"
        BY <1>0, <3>2 DEF ReplaysWith, Replay
      <4>2. \A q \in Replicas : q # r =>
              work'[q][Backfill] = work[q][Backfill] /\ backfill'[q] = backfill[q]
        BY <1>0, <3>2, OthersStay DEF ReplaysWith
      <4>. QED BY <1>0, <4>1, <4>2 DEF ReplayInv
    <3>. QED BY <2>1, <3>1, <3>2 DEF FetchChunk
  <2>2. CASE FindCheckpoint(r)
    BY <1>5, <2>2 DEF FindCheckpoint, StartFails
  <2>3. CASE ReadBaseline(r)
    BY <1>5, <2>3 DEF ReadBaseline, StartFails
  <2>4. CASE CreateCheckpoint(r)
    BY <1>5, <2>4 DEF CreateCheckpoint, StartFails
  <2>5. CASE ReadHead(r)
    BY <1>5, <2>5 DEF ReadHead
  <2>. QED BY <1>9, <2>1, <2>2, <2>3, <2>4, <2>5 DEF ReplayStep
<1>10. ASSUME NEW r \in Replicas, NEW w \in Workers, BatchStep(r, w)
       PROVE  ReplayInv'
  <2>1. ASSUME NEW x, GoesOnWith(r, w, x), UNCHANGED backfill,
               work[r][w].pc # "idle"
        PROVE  ReplayInv'
    BY <1>0, <2>1, OthersStay DEF ReplayInv
  <2>2. ASSUME NEW x, ReplaysWith(r, x), w # Backfill => x = backfill[r],
               GoesOnWith(r, w, Idle)
        PROVE  ReplayInv'
    <3>1. \A q \in Replicas : q # r => backfill'[q] = backfill[q]
      BY <1>0, <2>2 DEF ReplaysWith
    <3>2. w # Backfill => UNCHANGED backfill
      BY <1>0, <2>2 DEF ReplaysWith
    <3>3. work'[r][w] = Idle
          /\ \A q \in Replicas, v \in Workers :
               q # r \/ v # w => work'[q][v] = work[q][v]
      BY <1>0, <2>2, OthersStay
    <3>. QED BY <1>0, <3>1, <3>2, <3>3 DEF ReplayInv, Idle
  <2>3. CASE ClaimLog(r, w)
    BY <2>1, <2>3 DEF ClaimLog
  <2>4. CASE WriteRow(r, w)
    BY <2>1, <2>4 DEF WriteRow, HandlerRefused, AttemptFails
  <2>5. CASE CountSpend(r, w)
    BY <2>1, <2>5 DEF CountSpend, HandlerRefused, AttemptFails
  <2>6. CASE ResolveRequest(r, w)
    BY <2>1, <2>6 DEF ResolveRequest, HandlerRefused, AttemptFails
  <2>7. CASE ReleaseClaim(r, w)
    BY <2>1, <2>7 DEF ReleaseClaim
  <2>8. CASE WriteCheckpoint(r, w)
    BY <2>2, <2>8 DEF WriteCheckpoint
  <2>9. CASE CheckpointRefused(r, w)
    BY <2>2, <2>9, <1>7 DEF CheckpointRefused
  <2>. QED BY <1>10, <2>3, <2>4, <2>5, <2>6, <2>7, <2>8, <2>9 DEF BatchStep
<1>. QED BY <1>3, <1>4, <1>6, <1>7, <1>8, <1>9, <1>10
         DEF Next, PollStep, LeaderStep, Crash

LEMMA InvAlways == Spec => []Inv
<1>1. Init => ReplayInv
  BY BackfillIsAWorker DEF Init, ReplayInv, Idle
<1>2. Inv /\ [Next]_vars => Inv'
  BY TypeStep, ReplayStepKeeps DEF Inv
<1>. QED BY <1>1, <1>2, InitTyped, PTL DEF Spec, Inv

-----------------------------------------------------------------------------
(* Every claim is accounted for *)

Hands(r, w) == work[r][w].pc \in Handling

LEMMA HandledIs ==
  /\ \A l : l \in BeingHandled <=>
       \E r \in Replicas, w \in Workers : Hands(r, w) /\ l = Current(work[r][w])
  /\ \A l : l \in BeingHandled' <=>
       \E r \in Replicas, w \in Workers :
          Hands(r, w)' /\ l = Current(work'[r][w])
  /\ \A r \in Replicas : \A l : l \in InHand(r) <=>
       \E w \in Workers : Hands(r, w) /\ l = Current(work[r][w])
BY DEF BeingHandled, InHand, Hands, Handling, Current

\* A batch that only moves to another statement keeps its log.
LEMMA SameLog ==
  ASSUME NEW b \in Batch, NEW c, c.todo = b.todo
  PROVE  Current(c) = Current(b)
BY DEF Current

\* What a worker lets go of is all that leaves the hands.
LEMMA HandsKeep ==
  ASSUME TypeInv, NEW r \in Replicas, NEW w \in Workers, NEW x,
         GoesOnWith(r, w, x)
  PROVE  /\ \A l \in BeingHandled :
              l \in BeingHandled'
              \/ (Hands(r, w) /\ l = Current(work[r][w]))
         /\ x.pc \in Handling => Current(x) \in BeingHandled'
<1>1. /\ work'[r][w] = x
      /\ \A s \in Replicas, v \in Workers :
           s # r \/ v # w => work'[s][v] = work[s][v]
  BY OthersStay
<1>. QED BY <1>1, HandledIs DEF Hands

LEMMA ClaimsStep ==
  ASSUME Inv, ClaimsAreAccountedFor, [Next]_vars
  PROVE  ClaimsAreAccountedFor'
<1>0. TypeInv /\ work \in [Replicas -> [Workers -> Batch]]
  BY DEF Inv, TypeInv, TypeOK
<1>1. ASSUME NEW r \in Replicas, NEW w \in Workers, Moves(r, w)
      PROVE  ClaimsAreAccountedFor'
  <2>. DEFINE b == work[r][w]
  <2>0. b \in Batch /\ HasLog(b)
    BY <1>0 DEF TypeInv
  <2>1. ASSUME NEW x, GoesOnWith(r, w, x), ~Hands(r, w),
               \A l \in claimed' \ claimed : l \in BeingHandled',
               applied \subseteq applied', orphaned \subseteq orphaned'
        PROVE  ClaimsAreAccountedFor'
    BY <1>0, <2>1, HandsKeep DEF ClaimsAreAccountedFor
  <2>2. ASSUME NEW x, GoesOnWith(r, w, x), x.pc \in Handling, x.todo = b.todo,
               UNCHANGED <<claimed, applied, orphaned>>
        PROVE  ClaimsAreAccountedFor'
    <3>1. Current(x) = Current(b)
      BY <2>0, <2>2, SameLog
    <3>. QED BY <1>0, <2>2, <3>1, HandsKeep DEF ClaimsAreAccountedFor
  <2>3. CASE Begins(r, w) \/ Ends(r, w) \/ LetsGo(r, w)
    BY <2>1, <2>3 DEF Begins, Ends, LetsGo, Hands, Handling, books
  <2>4. CASE Fails(r, w)
    <3>1. b.todo # {}
      BY <2>0, <2>4 DEF Fails, HasLog, Looping, Handling
    <3>2. Retried(b).pc \in Handling /\ Retried(b).todo = b.todo
      BY <2>0, <3>1, BatchMoves DEF Handling
    <3>. QED BY <2>2, <2>4, <3>2 DEF Fails, books
  <2>5. CASE Takes(r, w)
    <3>. DEFINE x == [b EXCEPT !.pc = "row"]
    <3>1. x.pc \in Handling /\ x.todo = b.todo
      BY <2>0 DEF Batch, Handling
    <3>2. Current(b) \in BeingHandled'
      <4>1. GoesOnWith(r, w, x)
        BY <2>5 DEF Takes
      <4>2. Current(x) = Current(b)
        BY <2>0, <3>1, SameLog
      <4>. QED BY <1>0, <3>1, <4>1, <4>2, HandsKeep
    <3>. QED BY <2>1, <2>5, <3>2 DEF Takes, Hands, Handling
  <2>6. CASE Enters(r, w) \/ Charges(r, w)
    <3>1. \A p \in Handling : [b EXCEPT !.pc = p].pc \in Handling
                              /\ [b EXCEPT !.pc = p].todo = b.todo
      BY <2>0 DEF Batch
    <3>. QED BY <2>2, <2>6, <3>1 DEF Enters, Charges, Handling
  <2>7. CASE Finishes(r, w)
    BY <1>0, <2>7, HandsKeep DEF Finishes, ClaimsAreAccountedFor
  <2>8. CASE Releases(r, w)
    BY <1>0, <2>8, HandsKeep DEF Releases, ClaimsAreAccountedFor
  <2>. QED BY <1>1, <2>3, <2>4, <2>5, <2>6, <2>7, <2>8 DEF Moves
<1>2. ASSUME NEW r \in Replicas, Stops(r)
      PROVE  ClaimsAreAccountedFor'
  <2>1. \A s \in Replicas : s # r => work'[s] = work[s]
    BY <1>0, <1>2 DEF Stops
  <2>2. \A l \in BeingHandled : l \in InHand(r) \/ l \in BeingHandled'
    BY <2>1, HandledIs DEF Hands
  <2>. QED BY <1>2, <2>2 DEF Stops, ClaimsAreAccountedFor
<1>3. CASE UNCHANGED <<work, books>>
  BY <1>3, HandledIs DEF books, ClaimsAreAccountedFor, Hands
<1>. QED BY <1>1, <1>2, <1>3, StepKinds

\* No event is skippable but one that was applied, is being handled, or was
\* left behind by a death or a refused release: the claim that
\* processLogWithRetry inserts is released on every other path (runner.ts).
THEOREM ClaimsCorrect == Spec => []ClaimsAreAccountedFor
<1>1. Init => ClaimsAreAccountedFor
  BY DEF Init, ClaimsAreAccountedFor
<1>. QED BY <1>1, InvAlways, ClaimsStep, PTL DEF Spec

-----------------------------------------------------------------------------
(* No spend without its audit row *)

\* The workers whose row of the event is written and whose count is not.
AboutToCharge(l) ==
    {p \in Replicas \X Workers :
        /\ work[p[1]][p[2]].pc = "spend"
        /\ Current(work[p[1]][p[2]]) = l}

\* Each of them will count the spend once more, so the rows must be ahead of
\* the charges by as many.
BooksInv ==
    /\ \A l \in Logs :
         /\ IsFiniteSet(AboutToCharge(l))
         /\ charged[l] + Cardinality(AboutToCharge(l)) <= rows[l]
    /\ \A r \in Replicas, w \in Workers :
         work[r][w].pc \in {"spend", "resolve"} => rows[Current(work[r][w])] >= 1
    /\ \A l \in applied : rows[l] >= 1

LEMMA ChargersMove ==
  ASSUME TypeInv, NEW r \in Replicas, NEW w \in Workers, NEW x,
         GoesOnWith(r, w, x), NEW l, IsFiniteSet(AboutToCharge(l))
  PROVE  /\ IsFiniteSet(AboutToCharge(l)')
         /\ Cardinality(AboutToCharge(l)) \in Nat
         /\ Cardinality(AboutToCharge(l)') \in Nat
         /\ x.pc = "spend" /\ Current(x) = l =>
              Cardinality(AboutToCharge(l)') <= Cardinality(AboutToCharge(l)) + 1
         /\ ~(x.pc = "spend" /\ Current(x) = l) =>
              Cardinality(AboutToCharge(l)') <= Cardinality(AboutToCharge(l))
         /\ x.pc # "spend" /\ work[r][w].pc = "spend" /\ Current(work[r][w]) = l =>
              Cardinality(AboutToCharge(l)') = Cardinality(AboutToCharge(l)) - 1
<1>. DEFINE A == AboutToCharge(l)
            B == AboutToCharge(l)'
            p == <<r, w>>
<1>1. /\ work'[r][w] = x
      /\ \A s \in Replicas, v \in Workers :
           s # r \/ v # w => work'[s][v] = work[s][v]
  BY OthersStay
<1>2. B \subseteq A \union {p}
  <2>. SUFFICES ASSUME NEW q \in B, q # p PROVE q \in A
    OBVIOUS
  <2>1. q \in Replicas \X Workers /\ (q[1] # r \/ q[2] # w)
    BY DEF AboutToCharge
  <2>2. work'[q[1]][q[2]] = work[q[1]][q[2]]
    BY <1>1, <2>1
  <2>. QED BY <2>2 DEF AboutToCharge
<1>3. A \subseteq B \union {p}
  <2>. SUFFICES ASSUME NEW q \in A, q # p PROVE q \in B
    OBVIOUS
  <2>1. q \in Replicas \X Workers /\ (q[1] # r \/ q[2] # w)
    BY DEF AboutToCharge
  <2>2. work'[q[1]][q[2]] = work[q[1]][q[2]]
    BY <1>1, <2>1
  <2>. QED BY <2>2 DEF AboutToCharge
<1>4. p \in B <=> x.pc = "spend" /\ Current(x) = l
  BY <1>1 DEF AboutToCharge
<1>5. p \in A <=> work[r][w].pc = "spend" /\ Current(work[r][w]) = l
  BY DEF AboutToCharge
<1>6. /\ IsFiniteSet(A \union {p}) /\ Cardinality(A) \in Nat
      /\ Cardinality(A \union {p}) <= Cardinality(A) + 1
  <2>1. /\ IsFiniteSet(A \union {p})
        /\ Cardinality(A \union {p}) =
             IF p \in A THEN Cardinality(A) ELSE Cardinality(A) + 1
    BY FS_AddElement
  <2>. QED BY <2>1, FS_CardinalityType
<1>7. /\ IsFiniteSet(B) /\ Cardinality(B) \in Nat
      /\ Cardinality(B) <= Cardinality(A \union {p})
  BY <1>2, <1>6, FS_Subset, FS_CardinalityType
<1>8. p \notin B => Cardinality(B) <= Cardinality(A)
  BY <1>2, FS_Subset
<1>9. p \in A => Cardinality(B) <= Cardinality(A)
  <2>1. p \in A => B \subseteq A
    BY <1>2
  <2>. QED BY <2>1, FS_Subset
<1>10. p \in A /\ p \notin B => Cardinality(B) = Cardinality(A) - 1
  <2>1. p \in A /\ p \notin B => B = A \ {p}
    BY <1>2, <1>3
  <2>. QED BY <2>1, FS_RemoveElement
<1>11. p \in B => Cardinality(B) <= Cardinality(A) + 1
  BY <1>6, <1>7, FS_CardinalityType
<1>. QED BY <1>4, <1>5, <1>6, <1>7, <1>8, <1>10, <1>11

LEMMA BooksStep ==
  ASSUME Inv, BooksInv, [Next]_vars
  PROVE  BooksInv'
<1>0. /\ TypeInv /\ work \in [Replicas -> [Workers -> Batch]]
      /\ rows \in [Logs -> Nat] /\ charged \in [Logs -> Nat]
      /\ \A l \in Logs : IsFiniteSet(AboutToCharge(l))
                       /\ Cardinality(AboutToCharge(l)) \in Nat
  BY FS_CardinalityType DEF Inv, TypeInv, TypeOK, BooksInv
<1>1. ASSUME NEW r \in Replicas, NEW w \in Workers, Moves(r, w)
      PROVE  BooksInv'
  <2>. DEFINE b == work[r][w]
              l == Current(b)
  <2>0. b \in Batch /\ HasLog(b)
    BY <1>0 DEF TypeInv
  <2>a. b.pc \in Looping => /\ l \in Logs /\ b.todo # {}
                            /\ Onward(b).pc \in {"claim", "mark"}
                            /\ Processed(b).pc \in {"claim", "mark"}
                            /\ Caught(b).pc = "release"
                            /\ Retried(b).pc \in {"row", "release"}
    BY <2>0, CurrentIsALog, BatchMoves DEF HasLog
  <2>b. ASSUME NEW x, GoesOnWith(r, w, x)
        PROVE  /\ work'[r][w] = x
               /\ \A s \in Replicas, v \in Workers :
                    s # r \/ v # w => work'[s][v] = work[s][v]
    BY <1>0, <2>b, OthersStay
  \* A worker that neither starts nor finishes counting.
  <2>1. ASSUME NEW x, GoesOnWith(r, w, x), x.pc \notin {"spend", "resolve"},
               UNCHANGED <<rows, charged>>,
               \A m \in applied' : m \in applied \/ rows[m] >= 1
        PROVE  BooksInv'
    <3>1. ASSUME NEW m \in Logs
          PROVE  /\ IsFiniteSet(AboutToCharge(m)')
                 /\ charged'[m] + Cardinality(AboutToCharge(m)') <= rows'[m]
      <4>1. /\ IsFiniteSet(AboutToCharge(m)') /\ Cardinality(AboutToCharge(m)') \in Nat
            /\ Cardinality(AboutToCharge(m)') <= Cardinality(AboutToCharge(m))
        BY <1>0, <2>1, ChargersMove
      <4>. QED BY <1>0, <2>1, <4>1 DEF BooksInv
    <3>2. \A s \in Replicas, v \in Workers :
            work'[s][v].pc \in {"spend", "resolve"} => work'[s][v] = work[s][v]
      BY <2>1, <2>b
    <3>3. ASSUME NEW s \in Replicas, NEW v \in Workers,
                 work'[s][v].pc \in {"spend", "resolve"}
          PROVE  rows'[Current(work'[s][v])] >= 1
      BY <2>1, <3>2, <3>3 DEF BooksInv
    <3>. QED BY <2>1, <3>1, <3>3 DEF BooksInv
  <2>2. CASE Begins(r, w) \/ Ends(r, w) \/ LetsGo(r, w) \/ Fails(r, w)
    BY <2>1, <2>2, <2>a
       DEF Begins, Ends, LetsGo, Fails, Loaded, Idle, Looping, Handling, books
  <2>3. CASE Takes(r, w)
    BY <2>0, <2>1, <2>3 DEF Takes, Batch
  <2>4. CASE Releases(r, w)
    BY <2>1, <2>4, <2>a DEF Releases, Looping, Handling
  <2>5. CASE Finishes(r, w)
    BY <2>1, <2>5, <2>a DEF Finishes, Looping, Handling, BooksInv
  <2>6. CASE Enters(r, w)
    <3>. DEFINE x == [b EXCEPT !.pc = "spend"]
    <3>0. l \in Logs /\ x.pc = "spend" /\ Current(x) = l /\ GoesOnWith(r, w, x)
      BY <2>0, <2>6, <2>a, SameLog DEF Enters, Looping, Handling, Batch
    <3>1. ASSUME NEW m \in Logs
          PROVE  /\ IsFiniteSet(AboutToCharge(m)')
                 /\ charged'[m] + Cardinality(AboutToCharge(m)') <= rows'[m]
      <4>. DEFINE A == Cardinality(AboutToCharge(m))
                  B == Cardinality(AboutToCharge(m)')
      <4>1. /\ IsFiniteSet(AboutToCharge(m)') /\ B \in Nat /\ A \in Nat
            /\ B <= IF m = l THEN A + 1 ELSE A
        BY <1>0, <3>0, ChargersMove
      <4>2. /\ charged' = charged
            /\ rows'[m] = IF m = l THEN rows[m] + 1 ELSE rows[m]
        BY <1>0, <2>6, <3>0 DEF Enters
      <4>3. charged[m] + A <= rows[m] /\ charged[m] \in Nat /\ rows[m] \in Nat
        BY <1>0 DEF BooksInv
      <4>. HIDE DEF A, B
      <4>. QED BY <4>1, <4>2, <4>3 DEF B
    <3>2. \A m \in Logs : rows'[m] >= rows[m] /\ rows'[l] >= 1
      BY <1>0, <2>6, <3>0 DEF Enters
    <3>3. ASSUME NEW s \in Replicas, NEW v \in Workers,
                 work'[s][v].pc \in {"spend", "resolve"}
          PROVE  rows'[Current(work'[s][v])] >= 1
      <4>1. CASE work'[s][v] = x
        BY <3>0, <3>2, <4>1
      <4>2. CASE work'[s][v] = work[s][v]
        <5>1. work[s][v] \in Batch /\ HasLog(work[s][v])
          BY <1>0 DEF TypeInv
        <5>2. Current(work[s][v]) \in Logs
          BY <3>3, <4>2, <5>1, CurrentIsALog DEF HasLog, Looping, Handling
        <5>3. rows[Current(work[s][v])] >= 1
          BY <3>3, <4>2 DEF BooksInv
        <5>4. rows'[Current(work[s][v])] \in Nat
              /\ rows[Current(work[s][v])] \in Nat
          BY <1>0, <2>6, <5>2, <3>0 DEF Enters
        <5>. QED BY <3>2, <4>2, <5>2, <5>3, <5>4
      <4>. QED BY <2>b, <3>0, <4>1, <4>2
    <3>4. \A m \in applied : m \in Logs /\ rows[m] \in Nat /\ rows'[m] \in Nat
      BY <1>0, <2>6, <3>0 DEF Enters, TypeInv, TypeOK
    <3>5. \A m \in applied' : rows'[m] >= 1
      BY <2>6, <3>2, <3>4 DEF Enters, BooksInv
    <3>. QED BY <3>1, <3>3, <3>5 DEF BooksInv
  <2>7. CASE Charges(r, w)
    <3>. DEFINE x == [b EXCEPT !.pc = "resolve"]
    <3>0. /\ l \in Logs /\ x.pc = "resolve" /\ Current(x) = l
          /\ GoesOnWith(r, w, x) /\ b.pc = "spend"
      BY <2>0, <2>7, <2>a, SameLog DEF Charges, Looping, Handling, Batch
    <3>1. ASSUME NEW m \in Logs
          PROVE  /\ IsFiniteSet(AboutToCharge(m)')
                 /\ charged'[m] + Cardinality(AboutToCharge(m)') <= rows'[m]
      <4>. DEFINE A == Cardinality(AboutToCharge(m))
                  B == Cardinality(AboutToCharge(m)')
      <4>1. /\ IsFiniteSet(AboutToCharge(m)') /\ B \in Nat /\ A \in Nat
            /\ m = l => B = A - 1
            /\ m # l => B <= A
        <5>1. x.pc # "spend"
          BY <3>0
        <5>2. b.pc = "spend" /\ (m = l => Current(b) = m)
          BY <3>0
        <5>3. GoesOnWith(r, w, x) /\ IsFiniteSet(AboutToCharge(m))
          BY <1>0, <3>0
        <5>. HIDE DEF x
        <5>. QED BY <1>0, <5>1, <5>2, <5>3, ChargersMove
      <4>2. /\ rows' = rows
            /\ charged'[m] = IF m = l THEN charged[m] + 1 ELSE charged[m]
        BY <1>0, <2>7, <3>0 DEF Charges
      <4>3. charged[m] + A <= rows[m] /\ charged[m] \in Nat /\ rows[m] \in Nat
        BY <1>0 DEF BooksInv
      <4>. HIDE DEF A, B
      <4>. QED BY <4>1, <4>2, <4>3 DEF B
    <3>2. rows[l] >= 1
      BY <3>0 DEF BooksInv
    <3>3. ASSUME NEW s \in Replicas, NEW v \in Workers,
                 work'[s][v].pc \in {"spend", "resolve"}
          PROVE  rows'[Current(work'[s][v])] >= 1
      BY <2>7, <2>b, <3>0, <3>2, <3>3 DEF BooksInv, Charges
    <3>. QED BY <2>7, <3>1, <3>3 DEF BooksInv, Charges
  <2>. QED BY <1>1, <2>2, <2>3, <2>4, <2>5, <2>6, <2>7 DEF Moves
<1>2. ASSUME NEW r \in Replicas, Stops(r)
      PROVE  BooksInv'
  <2>1. ASSUME NEW s \in Replicas, NEW v \in Workers
        PROVE  work'[s][v] = Idle \/ work'[s][v] = work[s][v]
    BY <1>0, <1>2 DEF Stops
  <2>2. ASSUME NEW m \in Logs
        PROVE  /\ IsFiniteSet(AboutToCharge(m)')
               /\ charged'[m] + Cardinality(AboutToCharge(m)') <= rows'[m]
    <3>1. AboutToCharge(m)' \subseteq AboutToCharge(m)
      BY <2>1 DEF AboutToCharge, Idle
    <3>2. /\ IsFiniteSet(AboutToCharge(m)') /\ Cardinality(AboutToCharge(m)') \in Nat
          /\ Cardinality(AboutToCharge(m)') <= Cardinality(AboutToCharge(m))
      BY <1>0, <3>1, FS_Subset, FS_CardinalityType
    <3>. QED BY <1>0, <1>2, <3>2 DEF BooksInv, Stops
  <2>3. ASSUME NEW s \in Replicas, NEW v \in Workers,
               work'[s][v].pc \in {"spend", "resolve"}
        PROVE  rows'[Current(work'[s][v])] >= 1
    <3>1. work'[s][v] = work[s][v]
      BY <2>1, <2>3 DEF Idle
    <3>. QED BY <1>2, <2>3, <3>1 DEF BooksInv, Stops
  <2>. QED BY <1>2, <2>2, <2>3 DEF BooksInv, Stops
<1>3. CASE UNCHANGED <<work, books>>
  <2>1. \A m : AboutToCharge(m)' = AboutToCharge(m)
    BY <1>3 DEF AboutToCharge, Current
  <2>. QED BY <1>3, <2>1 DEF books, BooksInv, Current
<1>. QED BY <1>1, <1>2, <1>3, StepKinds

\* The spend of an event is never counted without its audit row, and an event
\* that was applied has one, however often processLogWithRetry starts the
\* handler over and whatever the database refuses.
THEOREM SpendCorrect == Spec => []SpendHasAuditRow
<1>1. Init => BooksInv
  <2>. SUFFICES ASSUME Init PROVE BooksInv
    OBVIOUS
  <2>1. \A l \in Logs : AboutToCharge(l) = {}
    BY DEF Init, AboutToCharge, Idle
  <2>2. \A l \in Logs : rows[l] \in Nat /\ charged[l] = rows[l]
                       /\ (l \in applied => rows[l] = 1)
    BY DEF Init
  <2>3. applied \subseteq Logs
    BY DEF Init, LogsIn
  <2>4. \A r \in Replicas, w \in Workers : work[r][w] = Idle
    BY DEF Init
  <2>5. ASSUME NEW l \in Logs
        PROVE  /\ IsFiniteSet(AboutToCharge(l))
               /\ charged[l] + Cardinality(AboutToCharge(l)) <= rows[l]
    <3>1. IsFiniteSet(AboutToCharge(l)) /\ Cardinality(AboutToCharge(l)) = 0
      BY <2>1, FS_EmptySet
    <3>. QED BY <2>2, <3>1
  <2>. QED BY <2>2, <2>3, <2>4, <2>5 DEF BooksInv, Idle
<1>2. Inv /\ BooksInv => SpendHasAuditRow
  <2>. SUFFICES ASSUME Inv, BooksInv PROVE SpendHasAuditRow
    OBVIOUS
  <2>1. ASSUME NEW l \in Logs
        PROVE  charged[l] <= rows[l]
    <3>1. /\ charged[l] \in Nat /\ rows[l] \in Nat
          /\ Cardinality(AboutToCharge(l)) \in Nat
          /\ charged[l] + Cardinality(AboutToCharge(l)) <= rows[l]
      BY FS_CardinalityType DEF Inv, TypeInv, TypeOK, BooksInv
    <3>. QED BY <3>1
  <2>. QED BY <2>1 DEF BooksInv, SpendHasAuditRow
<1>. QED BY <1>1, <1>2, InvAlways, BooksStep, PTL DEF Spec

-----------------------------------------------------------------------------
(* Two processes watch only after a lost lock *)

Watching == {r \in Replicas : backfill[r].pc # "off"}

\* The processes that watch without the lock have each lost it.
WatchInv ==
    /\ IsFiniteSet(Watching)
    /\ Cardinality(Watching \ {holder}) <= losses

\* A finite set has at most one element more than without one.
LEMMA WithoutOne ==
  ASSUME NEW S, IsFiniteSet(S), NEW x
  PROVE  /\ Cardinality(S) \in Nat /\ Cardinality(S \ {x}) \in Nat
         /\ Cardinality(S) <= Cardinality(S \ {x}) + 1
<1>1. Cardinality(S) \in Nat
  BY FS_CardinalityType
<1>2. IsFiniteSet(S \ {x})
  BY FS_RemoveElement
<1>3. Cardinality(S \ {x}) \in Nat
  BY <1>2, FS_CardinalityType
<1>4. Cardinality(S \ {x}) = IF x \in S THEN Cardinality(S) - 1 ELSE Cardinality(S)
  BY FS_RemoveElement
<1>. QED BY <1>1, <1>3, <1>4

LEMMA WatchersMove ==
  ASSUME Inv, [Next]_vars
  PROVE  \/ Watching' = Watching /\ UNCHANGED <<holder, losses>>
         \/ \E r \in Replicas :
              \/ /\ Watching' = Watching \union {r}
                 /\ r \notin Watching /\ holder = NoReplica
                 /\ holder' = r /\ losses' = losses
              \/ /\ Watching' = Watching \ {r} /\ losses' = losses
                 /\ holder' = IF holder = r THEN NoReplica ELSE holder
              \/ /\ Watching' = Watching /\ holder = r
                 /\ holder' = NoReplica /\ losses' = losses + 1
<1>0. /\ backfill \in [Replicas -> Replay] /\ ReplayInv
      /\ \A r \in Replicas : backfill[r] \in Replay
  BY DEF Inv, TypeInv, TypeOK
<1>1. ASSUME NEW r \in Replicas, NEW x \in Replay, ReplaysWith(r, x),
             x.pc # "off", backfill[r].pc # "off"
      PROVE  Watching' = Watching
  BY <1>0, <1>1 DEF ReplaysWith, Watching
<1>2. UNCHANGED backfill => Watching' = Watching
  BY DEF Watching
<1>3. CASE Mine \/ IndexPolicySet \/ UNCHANGED vars
  BY <1>2, <1>3 DEF Mine, IndexPolicySet, vars, indexerVars, lockVars
<1>4. ASSUME NEW r \in Replicas,
             StartSweeper(r) \/ PollStep(r) \/ Restart(r)
      PROVE  Watching' = Watching /\ UNCHANGED <<holder, losses>>
  BY <1>2, <1>4 DEF StartSweeper, LeadershipRuns, PollStep, Subscribe, Poll,
                    Restart, Boot, indexerVars, lockVars
<1>5. ASSUME NEW r \in Replicas, StartWatching(r)
      PROVE  /\ Watching' = Watching \union {r}
             /\ r \notin Watching /\ holder = NoReplica
             /\ holder' = r /\ losses' = losses
  BY <1>0, <1>5 DEF StartWatching, Acquire, LockIsFree, ReplaysWith, NoReplay,
                    Watching
<1>6. ASSUME NEW r \in Replicas, LockConnectionDies(r)
      PROVE  /\ Watching' = Watching /\ holder = r
             /\ holder' = NoReplica /\ losses' = losses + 1
  BY <1>2, <1>6 DEF LockConnectionDies, LoseLock, indexerVars
<1>7. ASSUME NEW r \in Replicas, ProcessEnds(r)
      PROVE  /\ Watching' = Watching \ {r} /\ losses' = losses
             /\ holder' = IF holder = r THEN NoReplica ELSE holder
  BY <1>0, <1>7 DEF ProcessEnds, Die, NoReplay, Watching
<1>8. ASSUME NEW r \in Replicas, ReplayStep(r)
      PROVE  Watching' = Watching /\ UNCHANGED <<holder, losses>>
  <2>1. \A p \in {"baseline", "running", "done", "failed"} :
          /\ [backfill[r] EXCEPT !.pc = p] \in Replay
          /\ [backfill[r] EXCEPT !.pc = p].pc # "off"
    BY <1>0 DEF Replay
  <2>b. \A n \in Nat :
          /\ [backfill[r] EXCEPT !.pc = "head", !.from = n] \in Replay
          /\ [backfill[r] EXCEPT !.pc = "head", !.from = n].pc # "off"
    BY <1>0 DEF Replay
  <2>c. \A u \in Blocks, p \in {"create", "done", "fetch"} :
          /\ [backfill[r] EXCEPT !.upto = u, !.pc = p] \in Replay
          /\ [backfill[r] EXCEPT !.upto = u, !.pc = p].pc # "off"
          /\ [backfill[r] EXCEPT !.pc = p, !.upto = u] \in Replay
          /\ [backfill[r] EXCEPT !.pc = p, !.upto = u].pc # "off"
    BY <1>0 DEF Replay
  <2>2. head \in Blocks /\ (checkpoint # NoBlock => checkpoint + 1 \in Nat)
    BY IndexerAssumption
       DEF Inv, TypeInv, TypeOK, MaybeBlock, Blocks, NoBlock
  <2>a. ASSUME StartFails(r), backfill[r].pc # "off"
        PROVE  Watching' = Watching /\ UNCHANGED <<holder, losses>>
    BY <1>1, <2>1, <2>a DEF StartFails, LeadershipFails
  <2>3. CASE FindCheckpoint(r)
    BY <1>1, <2>a, <2>1, <2>b, <2>2, <2>3 DEF FindCheckpoint, lockVars
  <2>4. CASE ReadBaseline(r)
    BY <1>1, <2>a, <2>c, <2>2, <2>4 DEF ReadBaseline, lockVars
  <2>5. CASE CreateCheckpoint(r)
    <3>1. CASE StartFails(r)
      BY <2>a, <2>5, <3>1 DEF CreateCheckpoint
    <3>2. CASE ReplaysWith(r, [backfill[r] EXCEPT !.pc = "done"])
               /\ UNCHANGED lockVars
      <4>1. backfill[r].pc # "off"
        BY <2>5 DEF CreateCheckpoint
      <4>. QED BY <1>1, <2>1, <3>2, <4>1 DEF lockVars
    <3>. QED BY <2>5, <3>1, <3>2 DEF CreateCheckpoint, lockVars
  <2>6. CASE ReadHead(r)
    BY <1>1, <2>1, <2>c, <2>2, <2>6 DEF ReadHead, lockVars
  <2>7. CASE FetchChunk(r)
    <3>1. UNCHANGED <<holder, losses>> /\ backfill[r].pc # "off"
      BY <2>7 DEF FetchChunk, lockVars
    <3>2. \E x \in Replay : x.pc # "off" /\ ReplaysWith(r, x)
      BY <1>0, <2>1, <2>7, ReplayMoves DEF FetchChunk
    <3>. QED BY <1>1, <3>1, <3>2
  <2>. QED BY <1>8, <2>3, <2>4, <2>5, <2>6, <2>7 DEF ReplayStep
<1>9. ASSUME NEW r \in Replicas, NEW w \in Workers, BatchStep(r, w)
      PROVE  \/ Watching' = Watching /\ UNCHANGED <<holder, losses>>
             \/ ProcessEnds(r)
  <2>1. ClaimLog(r, w) \/ ReleaseClaim(r, w) =>
          UNCHANGED <<holder, losses, backfill>>
    BY DEF ClaimLog, ReleaseClaim, lockVars
  <2>2. WriteRow(r, w) => UNCHANGED <<holder, losses, backfill>>
    BY DEF WriteRow, HandlerRefused, AttemptFails, lockVars
  <2>3. CountSpend(r, w) => UNCHANGED <<holder, losses, backfill>>
    BY DEF CountSpend, HandlerRefused, AttemptFails, lockVars
  <2>4. ResolveRequest(r, w) => UNCHANGED <<holder, losses, backfill>>
    BY DEF ResolveRequest, HandlerRefused, AttemptFails, lockVars
  <2>5. ASSUME w = Backfill, work[r][w].pc = "mark"
        PROVE  backfill[r].pc # "off"
    BY <1>0, <2>5 DEF ReplayInv
  <2>6. CASE WriteCheckpoint(r, w)
    <3>1. CASE w = Backfill
      BY <1>0, <1>1, <2>5, <2>6, <3>1, ReplayMoves DEF WriteCheckpoint, lockVars
    <3>2. CASE w # Backfill
      BY <1>0, <1>2, <2>6, <3>2 DEF WriteCheckpoint, ReplaysWith, lockVars
    <3>. QED BY <3>1, <3>2
  <2>7. CASE CheckpointRefused(r, w)
    BY <1>0, <1>1, <2>5, <2>7, ReplayMoves DEF CheckpointRefused, lockVars
  <2>. QED BY <1>2, <1>9, <2>1, <2>2, <2>3, <2>4, <2>6, <2>7 DEF BatchStep
<1>. QED BY <1>3, <1>4, <1>5, <1>6, <1>7, <1>8, <1>9
         DEF Next, LeaderStep, Crash

LEMMA WatchStep ==
  ASSUME Inv, WatchInv, [Next]_vars
  PROVE  WatchInv'
<1>0. /\ losses \in Nat /\ holder \in Replicas \union {NoReplica}
      /\ NoReplica \notin Watching /\ IsFiniteSet(Watching)
  BY LeadershipAssumption DEF Inv, TypeInv, TypeOK, LockTypeOK, Watching,
     WatchInv
<1>1. /\ IsFiniteSet(Watching \ {holder})
      /\ Cardinality(Watching \ {holder}) \in Nat
  BY <1>0, FS_RemoveElement, FS_CardinalityType
<1>2. CASE Watching' = Watching /\ UNCHANGED <<holder, losses>>
  BY <1>2 DEF WatchInv
<1>3. ASSUME NEW r \in Replicas, Watching' = Watching \union {r},
             r \notin Watching, holder = NoReplica, holder' = r,
             losses' = losses
      PROVE  WatchInv'
  <2>1. Watching' \ {holder'} = Watching \ {holder}
    BY <1>0, <1>3
  <2>2. IsFiniteSet(Watching')
    BY <1>0, <1>3, FS_AddElement
  <2>. QED BY <1>3, <2>1, <2>2 DEF WatchInv
<1>4. ASSUME NEW r \in Replicas, Watching' = Watching \ {r},
             losses' = losses,
             holder' = IF holder = r THEN NoReplica ELSE holder
      PROVE  WatchInv'
  <2>1. Watching' \ {holder'} \subseteq Watching \ {holder}
    BY <1>0, <1>4
  <2>2. /\ Cardinality(Watching' \ {holder'}) \in Nat
        /\ Cardinality(Watching' \ {holder'}) <= Cardinality(Watching \ {holder})
    BY <1>1, <2>1, FS_Subset, FS_CardinalityType
  <2>3. IsFiniteSet(Watching')
    BY <1>0, <1>4, FS_RemoveElement
  <2>. QED BY <1>0, <1>1, <1>4, <2>2, <2>3 DEF WatchInv
<1>5. ASSUME NEW r \in Replicas, Watching' = Watching, holder = r,
             holder' = NoReplica, losses' = losses + 1
      PROVE  WatchInv'
  <2>1. Watching' \ {holder'} = Watching
    BY <1>0, <1>5
  <2>2. /\ Cardinality(Watching) \in Nat
        /\ Cardinality(Watching \ {holder}) \in Nat
        /\ Cardinality(Watching) <= Cardinality(Watching \ {holder}) + 1
    BY <1>0, WithoutOne
  <2>. QED BY <1>0, <1>1, <1>5, <2>1, <2>2 DEF WatchInv
<1>. QED BY <1>2, <1>3, <1>4, <1>5, WatchersMove

\* At most one process more runs watchers than lock connections have died:
\* pg_try_advisory_lock refuses while a session holds the lock, and a process
\* whose connection dies goes on watching (leader.ts).
THEOREM WatchersCorrect == Spec => []OnlyLockLossDuplicatesWatchers
<1>1. Init => WatchInv
  <2>. SUFFICES ASSUME Init PROVE WatchInv
    OBVIOUS
  <2>1. Watching = {} /\ losses = 0
    BY DEF Init, LockInit, Watching, NoReplay
  <2>2. Watching \ {holder} = {}
    BY <2>1
  <2>. QED BY <2>1, <2>2, FS_EmptySet DEF WatchInv
<1>2. Inv /\ WatchInv => OnlyLockLossDuplicatesWatchers
  <2>. SUFFICES ASSUME Inv, WatchInv PROVE Cardinality(Watching) <= 1 + losses
    BY DEF OnlyLockLossDuplicatesWatchers, Watching
  <2>1. losses \in Nat
    BY LeadershipAssumption DEF Inv, TypeInv, TypeOK, LockTypeOK
  <2>2. IsFiniteSet(Watching)
    BY DEF WatchInv
  <2>3. /\ Cardinality(Watching) \in Nat
        /\ Cardinality(Watching \ {holder}) \in Nat
        /\ Cardinality(Watching) <= Cardinality(Watching \ {holder}) + 1
    BY <2>2, WithoutOne
  <2>. QED BY <2>1, <2>3 DEF WatchInv
<1>. QED BY <1>1, <1>2, InvAlways, WatchStep, PTL DEF Spec

-----------------------------------------------------------------------------
(* The ledger *)

\* No statement of the handler is refused, nor a claim's insert: the release of
\* a claim, the checkpoint and every read still may be.
HandlerNeverRefused == FaultSites \subseteq AllSites \ {"write", "claim"}

\* How far the books of an event are when its worker is at a statement.
BookedAsFar(pc, row, charge) ==
    /\ row = IF pc \in {"spend", "resolve"} THEN 1 ELSE 0
    /\ charge = IF pc = "resolve" THEN 1 ELSE 0

\* An event is in one worker's hands, claimed, unfinished, and booked as far as
\* its worker has come; one nobody claimed has not been booked at all.
LedgerInv ==
    /\ \A r \in Replicas, w \in Workers :
         Hands(r, w) =>
            /\ Current(work[r][w]) \in claimed \ (applied \union orphaned)
            /\ BookedAsFar(work[r][w].pc, rows[Current(work[r][w])],
                           charged[Current(work[r][w])])
    /\ \A r, s \in Replicas, w, v \in Workers :
         Hands(r, w) /\ Hands(s, v) /\ Current(work[r][w]) = Current(work[s][v])
            => r = s /\ w = v
    /\ \A l \in Logs \ claimed : rows[l] = 0 /\ charged[l] = 0
    /\ applied \subseteq claimed /\ orphaned \subseteq claimed

fate == [l \in Logs |-> FateOf(l)]

LEMMA InitLedger == Init => LedgerInv /\ Ledger!LedgerInit
<1>. SUFFICES ASSUME Init PROVE LedgerInv /\ Ledger!LedgerInit
  OBVIOUS
<1>1. \A r \in Replicas, w \in Workers : ~Hands(r, w)
  BY DEF Init, Hands, Idle, Handling
<1>2. /\ applied = claimed /\ orphaned = {} /\ claimed \subseteq Logs
      /\ rows = [l \in Logs |-> IF l \in claimed THEN 1 ELSE 0]
      /\ charged = rows
  BY DEF Init, LogsIn
<1>3. LedgerInv
  BY <1>1, <1>2 DEF LedgerInv
<1>4. \A l \in Logs : FateOf(l) = IF l \in claimed THEN "applied" ELSE "untaken"
  BY <1>2 DEF FateOf
<1>5. fate \in [Logs -> {"untaken", "applied"}]
      /\ rows = [l \in Logs |-> IF fate[l] = "applied" THEN 1 ELSE 0]
  BY <1>2, <1>4 DEF fate
<1>. QED BY <1>2, <1>3, <1>5 DEF Ledger!LedgerInit, fate

\* Only the books of the event a worker holds, or takes, may change.
OthersUntouched(l) ==
    /\ \A m \in Logs \ {l} :
         /\ (m \in claimed' <=> m \in claimed)
         /\ (m \in applied' <=> m \in applied)
         /\ (m \in orphaned' <=> m \in orphaned)
         /\ rows'[m] = rows[m] /\ charged'[m] = charged[m]
    /\ applied' \subseteq claimed' /\ orphaned' \subseteq claimed'
    /\ l \in Logs \ claimed' => rows'[l] = 0 /\ charged'[l] = 0

\* A worker that lets go of its event, or has none.
LEMMA HandOpens ==
  ASSUME Inv, LedgerInv, NEW r \in Replicas, NEW w \in Workers, NEW x,
         GoesOnWith(r, w, x), x.pc \notin Handling,
         NEW l, OthersUntouched(l),
         (Hands(r, w) /\ l = Current(work[r][w])) \/ UNCHANGED books
  PROVE  LedgerInv'
<1>0. TypeInv /\ claimed \subseteq Logs
  BY DEF Inv, TypeInv, TypeOK
<1>1. /\ work'[r][w] = x
      /\ \A s \in Replicas, v \in Workers :
           s # r \/ v # w => work'[s][v] = work[s][v]
  BY <1>0, OthersStay
<1>2. ASSUME NEW s \in Replicas, NEW v \in Workers, Hands(s, v)'
      PROVE  /\ Hands(s, v) /\ work'[s][v] = work[s][v]
             /\ Current(work[s][v]) \in claimed \ (applied \union orphaned)
             /\ (Current(work[s][v]) # l \/ UNCHANGED books)
             /\ BookedAsFar(work[s][v].pc, rows[Current(work[s][v])],
                            charged[Current(work[s][v])])
  BY <1>1, <1>2 DEF Hands, LedgerInv
<1>3. ASSUME NEW s \in Replicas, NEW v \in Workers, Hands(s, v)'
      PROVE  /\ Current(work'[s][v]) \in claimed' \ (applied' \union orphaned')
             /\ BookedAsFar(work'[s][v].pc, rows'[Current(work'[s][v])],
                            charged'[Current(work'[s][v])])
  BY <1>0, <1>2, <1>3 DEF OthersUntouched, books
<1>4. ASSUME NEW s \in Replicas, NEW v \in Workers, Hands(s, v)',
             NEW q \in Replicas, NEW u \in Workers, Hands(q, u)',
             Current(work'[s][v]) = Current(work'[q][u])
      PROVE  s = q /\ v = u
  BY <1>2, <1>4 DEF LedgerInv
<1>5. \A m \in Logs \ claimed' : rows'[m] = 0 /\ charged'[m] = 0
  BY DEF OthersUntouched, LedgerInv
<1>. QED BY <1>3, <1>4, <1>5 DEF LedgerInv, OthersUntouched

\* A worker that goes on with its event, or takes one.
LEMMA HandHolds ==
  ASSUME Inv, LedgerInv, NEW r \in Replicas, NEW w \in Workers, NEW x,
         GoesOnWith(r, w, x),
         NEW l, OthersUntouched(l), Current(x) = l,
         (Hands(r, w) /\ l = Current(work[r][w])) \/ l \notin claimed,
         l \in claimed' \ (applied' \union orphaned'),
         BookedAsFar(x.pc, rows'[l], charged'[l])
  PROVE  LedgerInv'
<1>0. TypeInv /\ claimed \subseteq Logs
  BY DEF Inv, TypeInv, TypeOK
<1>1. /\ work'[r][w] = x
      /\ \A s \in Replicas, v \in Workers :
           s # r \/ v # w => work'[s][v] = work[s][v]
  BY <1>0, OthersStay
<1>2. ASSUME NEW s \in Replicas, NEW v \in Workers, s # r \/ v # w, Hands(s, v)'
      PROVE  /\ Hands(s, v) /\ work'[s][v] = work[s][v]
             /\ Current(work[s][v]) \in claimed \ (applied \union orphaned)
             /\ Current(work[s][v]) # l
             /\ BookedAsFar(work[s][v].pc, rows[Current(work[s][v])],
                            charged[Current(work[s][v])])
  BY <1>1, <1>2 DEF Hands, LedgerInv
<1>3. ASSUME NEW s \in Replicas, NEW v \in Workers, Hands(s, v)'
      PROVE  /\ Current(work'[s][v]) \in claimed' \ (applied' \union orphaned')
             /\ BookedAsFar(work'[s][v].pc, rows'[Current(work'[s][v])],
                            charged'[Current(work'[s][v])])
  <2>1. CASE s = r /\ v = w
    BY <1>1, <2>1
  <2>2. CASE s # r \/ v # w
    BY <1>0, <1>2, <1>3, <2>2 DEF OthersUntouched
  <2>. QED BY <2>1, <2>2
<1>4. ASSUME NEW s \in Replicas, NEW v \in Workers, Hands(s, v)',
             NEW q \in Replicas, NEW u \in Workers, Hands(q, u)',
             Current(work'[s][v]) = Current(work'[q][u])
      PROVE  s = q /\ v = u
  <2>1. CASE s = r /\ v = w
    BY <1>1, <1>2, <1>4, <2>1
  <2>2. CASE q = r /\ u = w
    BY <1>1, <1>2, <1>4, <2>2
  <2>3. CASE ~(s = r /\ v = w) /\ ~(q = r /\ u = w)
    BY <1>2, <1>4, <2>3 DEF LedgerInv
  <2>. QED BY <2>1, <2>2, <2>3
<1>5. \A m \in Logs \ claimed' : rows'[m] = 0 /\ charged'[m] = 0
  BY DEF OthersUntouched, LedgerInv
<1>. QED BY <1>3, <1>4, <1>5 DEF LedgerInv, OthersUntouched

\* The fates of all events but one are what they were.
LEMMA OneFate ==
  ASSUME NEW l \in Logs, OthersUntouched(l)
  PROVE  fate' = [fate EXCEPT ![l] = FateOf(l)']
<1>1. \A m \in Logs \ {l} : FateOf(m)' = FateOf(m)
  BY DEF FateOf, OthersUntouched
<1>. QED BY <1>1 DEF fate

LEMMA BooksRest == UNCHANGED books => UNCHANGED <<fate, rows, charged>>
BY DEF books, fate, FateOf

LEMMA LedgerStep ==
  ASSUME HandlerNeverRefused, Inv, LedgerInv, [Next]_vars
  PROVE  LedgerInv' /\ [Ledger!LedgerNext]_<<fate, rows, charged>>
<1>0. /\ TypeInv /\ work \in [Replicas -> [Workers -> Batch]]
      /\ rows \in [Logs -> Nat] /\ charged \in [Logs -> Nat]
      /\ claimed \subseteq Logs /\ fate \in [Logs -> Ledger!Fates]
  BY DEF Inv, TypeInv, TypeOK, fate, FateOf, Ledger!Fates
<1>a. "claim" \notin FaultSites /\ "write" \notin FaultSites
  BY DEF HandlerNeverRefused
<1>1. ASSUME NEW r \in Replicas, NEW w \in Workers, Moves(r, w)
      PROVE  LedgerInv' /\ [Ledger!LedgerNext]_<<fate, rows, charged>>
  <2>. DEFINE b == work[r][w]
  <2>l. PICK l : l = Current(b)
    OBVIOUS
  <2>0. b \in Batch /\ HasLog(b)
    BY <1>0 DEF TypeInv
  <2>a. b.pc \in Looping =>
          /\ l \in Logs /\ b.todo # {}
          /\ Onward(b).pc \in {"claim", "mark"}
          /\ Processed(b).pc \in {"claim", "mark"}
          /\ Retried(b).pc \in {"row", "release"} /\ Retried(b).todo = b.todo
    BY <2>l, <2>0, CurrentIsALog, BatchMoves DEF HasLog
  <2>b. Hands(r, w) => /\ l \in claimed \ (applied \union orphaned)
                       /\ BookedAsFar(b.pc, rows[l], charged[l])
    BY <2>l DEF LedgerInv
  <2>c. \A p \in Looping : /\ Current([b EXCEPT !.pc = p]) = l
                           /\ [b EXCEPT !.pc = p].pc = p
    BY <2>l, <2>0, SameLog DEF Batch
  <2>1. CASE Begins(r, w) \/ Ends(r, w) \/ LetsGo(r, w)
    <3>1. ~Hands(r, w) /\ UNCHANGED books
      BY <2>1 DEF Begins, Ends, LetsGo, Hands, Handling
    <3>2. \E x : GoesOnWith(r, w, x) /\ x.pc \notin Handling
      <4>1. CASE Begins(r, w) \/ Ends(r, w)
        <5>1. Idle.pc \notin Handling /\ \A logs : Loaded(logs).pc \notin Handling
          BY DEF Loaded, Idle, Handling
        <5>. QED BY <4>1, <5>1 DEF Begins, Ends
      <4>2. CASE LetsGo(r, w)
        BY <1>a, <2>a, <4>2 DEF LetsGo, Handling, Looping
      <4>. QED BY <2>1, <4>1, <4>2
    <3>3. OthersUntouched(l)
      BY <3>1 DEF OthersUntouched, books, LedgerInv
    <3>4. LedgerInv'
      BY <3>1, <3>2, <3>3, HandOpens
    <3>. QED BY <3>1, <3>4, BooksRest
  <2>2. CASE Fails(r, w)
    <3>1. b.pc = "row" /\ Hands(r, w) /\ UNCHANGED books
      BY <1>a, <2>2 DEF Fails, Hands, Handling
    <3>2. /\ GoesOnWith(r, w, Retried(b)) /\ Current(Retried(b)) = l
          /\ Retried(b).pc \in {"row", "release"}
      BY <2>l, <2>0, <2>2, <2>a, <3>1, SameLog DEF Fails, Looping, Handling
    <3>3. /\ BookedAsFar(Retried(b).pc, rows[l], charged[l])
          /\ BookedAsFar(Retried(b).pc, rows'[l], charged'[l])
      BY <2>b, <3>1, <3>2 DEF BookedAsFar, books
    <3>4. OthersUntouched(l) /\ l \in claimed' \ (applied' \union orphaned')
      BY <2>b, <3>1 DEF OthersUntouched, books, LedgerInv
    <3>5. LedgerInv'
      BY <2>l, <3>1, <3>2, <3>3, <3>4, HandHolds
    <3>. QED BY <3>1, <3>5, BooksRest
  <2>3. CASE Takes(r, w)
    <3>x. PICK x : x = [b EXCEPT !.pc = "row"]
      OBVIOUS
    <3>1. /\ ~Hands(r, w) /\ l \in Logs /\ l \notin claimed
          /\ claimed' = claimed \union {l} /\ GoesOnWith(r, w, x)
          /\ UNCHANGED <<rows, charged, applied, orphaned>>
      BY <3>x, <2>3, <2>l, <2>a DEF Takes, Hands, Handling, Looping
    <3>2. Current(x) = l /\ x.pc = "row"
      BY <2>c, <3>x DEF Looping, Handling
    <3>3. rows[l] = 0 /\ charged[l] = 0
      BY <3>1 DEF LedgerInv
    <3>u. /\ OthersUntouched(l) /\ l \in claimed' \ (applied' \union orphaned')
          /\ BookedAsFar(x.pc, rows'[l], charged'[l])
      BY <3>1, <3>2, <3>3 DEF OthersUntouched, BookedAsFar, LedgerInv
    <3>4. LedgerInv'
      BY <3>1, <3>2, <3>u, HandHolds
    <3>5. FateOf(l) = "untaken" /\ FateOf(l)' = "working"
      BY <3>1 DEF FateOf, LedgerInv
    <3>6. fate' = [fate EXCEPT ![l] = "working"]
      BY <3>1, <3>u, <3>5, OneFate
    <3>7. Ledger!Take(l)
      BY <3>1, <3>5, <3>6 DEF Ledger!Take, fate
    <3>. QED BY <3>1, <3>4, <3>7 DEF Ledger!LedgerNext
  <2>4. CASE Enters(r, w)
    <3>x. PICK x : x = [b EXCEPT !.pc = "spend"]
      OBVIOUS
    <3>1. /\ Hands(r, w) /\ l \in Logs /\ b.pc = "row"
          /\ rows' = [rows EXCEPT ![l] = @ + 1] /\ GoesOnWith(r, w, x)
          /\ UNCHANGED <<claimed, charged, applied, orphaned>>
      BY <3>x, <2>4, <2>l, <2>a DEF Enters, Hands, Handling, Looping
    <3>2. Current(x) = l /\ x.pc = "spend"
      BY <2>c, <3>x DEF Looping, Handling
    <3>b. rows[l] = 0 /\ charged[l] = 0
      BY <2>b, <3>1 DEF BookedAsFar
    <3>3. rows[l] = 0 /\ charged[l] = 0 /\ rows' = [rows EXCEPT ![l] = 1]
      BY <1>0, <3>1, <3>b
    <3>4. rows'[l] = 1 /\ \A m \in Logs : m # l => rows'[m] = rows[m]
      BY <1>0, <3>1, <3>3
    <3>u. /\ OthersUntouched(l) /\ l \in claimed' \ (applied' \union orphaned')
          /\ BookedAsFar(x.pc, rows'[l], charged'[l])
      BY <2>b, <3>1, <3>2, <3>3, <3>4 DEF OthersUntouched, BookedAsFar,
         LedgerInv
    <3>5. LedgerInv'
      BY <2>l, <3>1, <3>2, <3>u, HandHolds
    <3>6. FateOf(l) = "working" /\ fate' = fate
      BY <2>b, <3>1 DEF FateOf, fate
    <3>7. Ledger!Enter(l)
      BY <3>1, <3>3, <3>6 DEF Ledger!Enter, fate
    <3>. QED BY <3>1, <3>5, <3>7 DEF Ledger!LedgerNext
  <2>5. CASE Charges(r, w)
    <3>x. PICK x : x = [b EXCEPT !.pc = "resolve"]
      OBVIOUS
    <3>1. /\ Hands(r, w) /\ l \in Logs /\ b.pc = "spend"
          /\ charged' = [charged EXCEPT ![l] = @ + 1] /\ GoesOnWith(r, w, x)
          /\ UNCHANGED <<claimed, rows, applied, orphaned>>
      BY <3>x, <2>5, <2>l, <2>a DEF Charges, Hands, Handling, Looping
    <3>2. Current(x) = l /\ x.pc = "resolve"
      BY <2>c, <3>x DEF Looping, Handling
    <3>b. rows[l] = 1 /\ charged[l] = 0
      BY <2>b, <3>1 DEF BookedAsFar
    <3>3. rows[l] = 1 /\ charged[l] = 0 /\ charged' = [charged EXCEPT ![l] = 1]
      BY <1>0, <3>1, <3>b
    <3>4. charged'[l] = 1 /\ \A m \in Logs : m # l => charged'[m] = charged[m]
      BY <1>0, <3>1, <3>3
    <3>u. /\ OthersUntouched(l) /\ l \in claimed' \ (applied' \union orphaned')
          /\ BookedAsFar(x.pc, rows'[l], charged'[l])
      BY <2>b, <3>1, <3>2, <3>3, <3>4 DEF OthersUntouched, BookedAsFar,
         LedgerInv
    <3>5. LedgerInv'
      BY <2>l, <3>1, <3>2, <3>u, HandHolds
    <3>6. FateOf(l) = "working" /\ fate' = fate
      BY <2>b, <3>1 DEF FateOf, fate
    <3>7. Ledger!Charge(l)
      BY <3>1, <3>3, <3>6 DEF Ledger!Charge, fate
    <3>. QED BY <3>1, <3>5, <3>7 DEF Ledger!LedgerNext
  <2>6. CASE Finishes(r, w)
    <3>1. /\ Hands(r, w) /\ l \in Logs /\ b.pc = "resolve"
          /\ applied' = applied \union {l} /\ GoesOnWith(r, w, Processed(b))
          /\ UNCHANGED <<claimed, rows, charged, orphaned>>
          /\ Processed(b).pc \notin Handling
      BY <2>6, <2>l, <2>a DEF Finishes, Hands, Handling, Looping
    <3>2. rows[l] = 1 /\ charged[l] = 1
      BY <2>b, <3>1 DEF BookedAsFar
    <3>u. OthersUntouched(l)
      BY <2>b, <3>1 DEF OthersUntouched, LedgerInv
    <3>3. LedgerInv'
      BY <2>l, <3>1, <3>u, HandOpens
    <3>4. FateOf(l) = "working" /\ FateOf(l)' = "applied"
      BY <2>b, <3>1 DEF FateOf
    <3>5. fate' = [fate EXCEPT ![l] = "applied"]
      BY <3>1, <3>u, <3>4, OneFate
    <3>6. Ledger!Finish(l)
      BY <3>1, <3>2, <3>4, <3>5 DEF Ledger!Finish, fate
    <3>. QED BY <3>1, <3>3, <3>6 DEF Ledger!LedgerNext
  <2>7. CASE Releases(r, w)
    <3>1. /\ Hands(r, w) /\ l \in Logs /\ b.pc = "release"
          /\ GoesOnWith(r, w, Onward(b)) /\ Onward(b).pc \notin Handling
          /\ UNCHANGED <<rows, charged, applied>>
      BY <2>7, <2>l, <2>a DEF Releases, Hands, Handling, Looping
    <3>2. rows[l] = 0 /\ charged[l] = 0 /\ FateOf(l) = "working"
      BY <2>b, <3>1 DEF BookedAsFar, FateOf
    <3>3. CASE claimed' = claimed \ {l} /\ orphaned' = orphaned
      <4>u. OthersUntouched(l)
        BY <2>b, <3>1, <3>2, <3>3 DEF OthersUntouched, LedgerInv
      <4>1. LedgerInv'
        BY <2>l, <3>1, <4>u, HandOpens
      <4>2. FateOf(l)' = "untaken"
        BY <2>b, <3>1, <3>3 DEF FateOf
      <4>3. fate' = [fate EXCEPT ![l] = "untaken"]
        BY <3>1, <4>u, <4>2, OneFate
      <4>4. Ledger!PutBack(l)
        BY <3>1, <3>2, <4>3 DEF Ledger!PutBack, fate
      <4>. QED BY <3>1, <4>1, <4>4 DEF Ledger!LedgerNext
    <3>4. CASE orphaned' = orphaned \union {l} /\ claimed' = claimed
      <4>u. OthersUntouched(l)
        BY <2>b, <3>1, <3>4 DEF OthersUntouched, LedgerInv
      <4>1. LedgerInv'
        BY <2>l, <3>1, <4>u, HandOpens
      <4>2. FateOf(l)' = "abandoned"
        BY <2>b, <3>1, <3>4 DEF FateOf
      <4>3. fate' = [fate EXCEPT ![l] = "abandoned"]
        BY <3>1, <4>u, <4>2, OneFate
      <4>4. Ledger!Abandon({l})
        BY <3>1, <3>2, <4>3 DEF Ledger!Abandon, fate
      <4>. QED BY <3>1, <4>1, <4>4 DEF Ledger!LedgerNext
    <3>. QED BY <2>l, <2>7, <3>3, <3>4 DEF Releases
  <2>. QED BY <1>1, <2>1, <2>2, <2>3, <2>4, <2>5, <2>6, <2>7 DEF Moves
<1>2. ASSUME NEW r \in Replicas, Stops(r)
      PROVE  LedgerInv' /\ [Ledger!LedgerNext]_<<fate, rows, charged>>
  <2>1. /\ \A w \in Workers : ~Hands(r, w)'
        /\ \A s \in Replicas, w \in Workers :
             s # r => work'[s][w] = work[s][w]
    BY <1>0, <1>2 DEF Stops, Hands, Idle, Handling
  <2>2. \A l \in InHand(r) : l \in claimed \ (applied \union orphaned)
    BY HandledIs DEF LedgerInv
  <2>3. ASSUME NEW s \in Replicas, NEW w \in Workers, Hands(s, w)'
        PROVE  /\ Hands(s, w) /\ work'[s][w] = work[s][w] /\ s # r
               /\ Current(work[s][w]) \in claimed \ (applied \union orphaned)
               /\ Current(work[s][w]) \notin InHand(r)
               /\ BookedAsFar(work[s][w].pc, rows[Current(work[s][w])],
                              charged[Current(work[s][w])])
    BY <2>1, <2>3, HandledIs DEF Hands, LedgerInv
  <2>4. ASSUME NEW s \in Replicas, NEW w \in Workers, Hands(s, w)'
        PROVE  /\ Current(work'[s][w]) \in claimed' \ (applied' \union orphaned')
               /\ BookedAsFar(work'[s][w].pc, rows'[Current(work'[s][w])],
                              charged'[Current(work'[s][w])])
    BY <1>2, <2>3, <2>4 DEF Stops
  <2>5. ASSUME NEW s \in Replicas, NEW v \in Workers, Hands(s, v)',
               NEW q \in Replicas, NEW u \in Workers, Hands(q, u)',
               Current(work'[s][v]) = Current(work'[q][u])
        PROVE  s = q /\ v = u
    BY <2>3, <2>5 DEF LedgerInv
  <2>6. LedgerInv'
    <3>1. orphaned' \subseteq claimed'
      BY <1>2, <2>2 DEF Stops, LedgerInv
    <3>. QED BY <1>2, <2>4, <2>5, <3>1 DEF Stops, LedgerInv
  <2>7. Ledger!Abandon(InHand(r)) /\ InHand(r) \subseteq Logs
    <3>1. \A l \in InHand(r) : l \in Logs /\ FateOf(l) = "working"
      BY <1>0, <2>2 DEF FateOf
    <3>2. \A l \in Logs :
            FateOf(l)' = IF l \in InHand(r) THEN "abandoned" ELSE FateOf(l)
      BY <1>2, <2>2 DEF Stops, FateOf
    <3>. QED BY <1>2, <3>1, <3>2 DEF Stops, Ledger!Abandon
  <2>. QED BY <2>6, <2>7 DEF Ledger!LedgerNext
<1>3. CASE UNCHANGED <<work, books>>
  <2>1. LedgerInv'
    BY <1>3 DEF LedgerInv, Hands, books
  <2>. QED BY <1>3, <2>1, BooksRest
<1>. QED BY <1>1, <1>2, <1>3, StepKinds

\* The indexer implements the ledger while no statement of a handler is
\* refused: two leaders, overlapping batches, crashes, refused releases and
\* checkpoints never take, book or apply an event twice.
THEOREM LedgerImplemented ==
  ASSUME HandlerNeverRefused
  PROVE  Spec => ImplementsEventLedger
<1>1. Inv /\ LedgerInv /\ [Next]_vars => LedgerInv'
  BY LedgerStep
<1>2. Inv /\ LedgerInv /\ [Next]_vars => [Ledger!LedgerNext]_(Ledger!ledgerVars)
  BY LedgerStep DEF Ledger!ledgerVars, fate
<1>. QED BY <1>1, <1>2, InitLedger, InvAlways, PTL
         DEF Spec, ImplementsEventLedger, Ledger!LedgerSpec
=============================================================================
