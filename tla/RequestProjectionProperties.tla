--------------------- MODULE RequestProjectionProperties ---------------------
(***************************************************************************)
(* What the queue's rows and the audit trail may say of a request.         *)
(***************************************************************************)
EXTENDS RequestProjection

\* A row is swept only after its request's window on chain has passed, whoever
\* inserted the row, whenever, and whether or not its expiry was ever stamped.
SweptOnlyAfterWindow ==
    \A r \in Requests :
        closedBy[r] = "expiry" => escalatedAt[r] + TTL <= now

\* Overlapping sweeps, retries and a late decision write at most one expiry,
\* and only for a row the sweep itself closed.
ExpiryRecordedOnce ==
    \A r \in Requests :
        /\ trail[r].expired <= 1
        /\ trail[r].expired = 1 => closedBy[r] = "expiry"

\* A request that is still open on chain does not leave the queue without an
\* audit row, written or about to be, unless the sweep that closed it failed
\* between its two writes.
NothingVanishesUnexplained ==
    \A r \in Requests :
        row[r].status = "resolved" /\ fate[r] = "pending" =>
            \/ trail[r].expired = 1
            \/ r \in unexplained
            \/ \E s \in Sweeps : sweep[s].pc = "explain" /\ sweep[s].at = r

\* No order of watchers, route and sweeper puts a closed request back into the
\* queue, or takes its row away.
ClosedRowsStayClosed ==
    [][\A r \in Requests :
           /\ row[r].status = "resolved" => row'[r].status = "resolved"
           /\ row[r].status = "open" => row'[r].status # "absent"]_vars

\* Every row leaves the queue in the end, those inserted after their decision
\* was handled too: the sweeper is the only one that can still close them.
EveryRowIsClosed ==
    \A r \in Requests :
        (Known(r) /\ row[r].createdAt + TTL <= MaxTime)
            ~> row[r].status = "resolved"
=============================================================================
