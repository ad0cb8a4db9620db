-------------------------- MODULE IndexerProperties --------------------------
(***************************************************************************)
(* What must hold of the event indexer, and the abstract EventLedger it    *)
(* implements while the database refuses nothing.                          *)
(***************************************************************************)
EXTENDS Indexer

-----------------------------------------------------------------------------
(* Invariants *)

BeingHandled == UNION {InHand(r) : r \in Replicas}

\* A marker in processed_logs stands for an event whose effects ran, are
\* running, or are the documented residue: their process died, or the release
\* of the claim was itself refused.  Nothing else may make an event skippable.
ClaimsAreAccountedFor ==
    \A l \in claimed : l \in applied \union orphaned \union BeingHandled

\* A spend is never counted without its audit row, however often handlers are
\* retried, and while the agent has a row no applied event lacks either.
SpendHasAuditRow ==
    \A l \in Logs :
        /\ charged[l] <= rows[l]
        /\ l \in applied => rows[l] >= 1

\* Two processes run watchers only after a lock connection died under one.
OnlyLockLossDuplicatesWatchers ==
    Cardinality({r \in Replicas : backfill[r].pc # "off"}) <= 1 + losses

-----------------------------------------------------------------------------
(* Liveness *)

\* Once a live subscription is behind an event, or a backfill has read a
\* checkpoint that is, the event ends up applied, whichever worker of whichever
\* replica wins it.  Only a death of the process, a death with the event in
\* hand, or every attempt of its handler failing for want of the agent's row
\* may end the matter otherwise.
InSight(r, l) ==
    /\ BlockOf[l] <= head
    /\ \/ cursor[r] # NoBlock /\ cursor[r] < BlockOf[l]
       \/ backfill[r].pc = "head" /\ backfill[r].from <= BlockOf[l]

EveryEventInSightIsIndexed ==
    \A r \in Replicas, l \in Logs :
        InSight(r, l) ~> \/ l \in applied \union orphaned \union gaveUp
                         \/ phase[r] = "down"

\* The lock never stays free: a leader that died is replaced.
LeaderIsReplaced == LockIsFree ~> ~LockIsFree

-----------------------------------------------------------------------------
(* Refinement *)

FateOf(l) ==
    CASE l \in applied -> "applied"
      [] l \in orphaned \ applied -> "abandoned"
      [] l \in claimed \ (applied \union orphaned) -> "working"
      [] OTHER -> "untaken"

Ledger == INSTANCE EventLedger WITH
    Events <- Logs,
    fate <- [l \in Logs |-> FateOf(l)]

\* Overlapping batches, two leaders and crashes never apply an event twice or
\* hand it to two workers.
ImplementsEventLedger == Ledger!LedgerSpec

-----------------------------------------------------------------------------
(* What the documentation says *)

\* schema.prisma, IndexerCheckpoint: "On boot the watcher backfills from
\* lastBlock + 1, so a restart can never silently skip events": every event it
\* leaves behind has its marker.
BootSkipsNothing ==
    [][\A r \in Replicas :
        (backfill[r].pc = "find" /\ backfill'[r].pc = "head") =>
            LogsIn(baseline + 1, checkpoint) \subseteq claimed]_vars
=============================================================================
