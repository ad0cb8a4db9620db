----------------------- MODULE RequestProjectionProofs -----------------------
(***************************************************************************)
(* Proofs about the queue's rows, for every set of requests and of         *)
(* overlapping sweeps, every window and every number of faults.            *)
(***************************************************************************)
EXTENDS RequestProjectionProperties, TLAPS

\* A row more keeps a trail a trail.
LEMMA TrailGrows ==
    ASSUME TypeOK, NEW r \in Requests
    PROVE  /\ [trail EXCEPT ![r].escalated = @ + 1] \in [Requests -> Trail]
           /\ [trail EXCEPT ![r].approved = @ + 1] \in [Requests -> Trail]
           /\ [trail EXCEPT ![r].charged = @ + 1] \in [Requests -> Trail]
           /\ [trail EXCEPT ![r].expired = @ + 1] \in [Requests -> Trail]
  <1>1. trail \in [Requests -> Trail] /\ trail[r] \in Trail
    BY DEF TypeOK
  <1>2. [trail EXCEPT ![r].escalated = @ + 1] \in [Requests -> Trail]
    BY <1>1 DEF Trail
  <1>3. [trail EXCEPT ![r].approved = @ + 1] \in [Requests -> Trail]
    BY <1>1 DEF Trail
  <1>4. [trail EXCEPT ![r].charged = @ + 1] \in [Requests -> Trail]
    BY <1>1 DEF Trail
  <1>5. [trail EXCEPT ![r].expired = @ + 1] \in [Requests -> Trail]
    BY <1>1 DEF Trail
  <1>6. QED
    BY <1>2, <1>3, <1>4, <1>5

\* What the upsert, the stamp and the resolution leave is a row, or none.
LEMMA RowsKeepShape ==
    ASSUME TypeOK, NEW r \in Requests
    PROVE  Inserted(r) \in Row /\ Stamped(r) \in Row /\ Closed(r) \in Row
  <1>1. row[r] \in Row /\ now \in Times
    BY DEF TypeOK
  <1>2. Inserted(r) \in Row
    BY <1>1 DEF Inserted, Known, NoRow, Row
  <1>3. Stamped(r) \in Row
    <2>1. escalatedAt[r] + TTL \in Nat
      BY ProjectionAssumption DEF TypeOK, Times
    <2>2. QED
      BY <1>1, <2>1 DEF Stamped, Known, NoRow, Row
  <1>4. Closed(r) \in Row
    <2>1. CASE row[r] = NoRow
      BY <1>1, <2>1 DEF Closed, Known, NoRow
    <2>2. CASE row[r] # NoRow
      BY <1>1, <2>2 DEF Closed, Row
    <2>3. QED
      BY <2>1, <2>2
  <1>5. QED
    BY <1>2, <1>3, <1>4

\* Every reachable state is well typed: a row is absent or complete.
THEOREM TypeCorrect == Spec => []TypeOK
  <1>1. Init => TypeOK
    BY ProjectionAssumption
    DEF Init, TypeOK, Times, NoRow, Row, NoTrail, Trail, NoSweep, Sweep
  <1>2. TypeOK /\ [Next]_vars => TypeOK'
    <2> SUFFICES ASSUME TypeOK, [Next]_vars PROVE TypeOK'
      OBVIOUS
    <2> USE ProjectionAssumption DEF TypeOK
    <2>1. CASE TimePasses
      BY <2>1 DEF TimePasses, Times, chainVars, dbVars, seenVars
    <2>2. CASE InsertAgent
      BY <2>2 DEF InsertAgent, chainVars, seenVars
    <2>3. ASSUME NEW r \in Requests, ChainStep(r) PROVE TypeOK'
      <3>1. \A events : Emits(r, events) =>
                handler' \in [Requests -> [Events ->
                    Statements \union {"unsent", "done", "lost"}]]
        BY DEF Emits, First, Statements
      <3>2. CASE Escalate(r)
        BY <3>1, <3>2 DEF Escalate, dbVars, seenVars
      <3>3. CASE Approve(r)
        BY <3>1, <3>3 DEF Approve, dbVars, seenVars
      <3>4. CASE Reject(r)
        BY <3>1, <3>4 DEF Reject, dbVars, seenVars
      <3>5. QED
        BY <2>3, <3>2, <3>3, <3>4 DEF ChainStep
    <2>4. ASSUME NEW r \in Requests, WatcherStep(r) \/ RouteInserts(r)
          PROVE  TypeOK'
      <3>1. Inserted(r) \in Row /\ Stamped(r) \in Row /\ Closed(r) \in Row
        BY RowsKeepShape
      <3>2. \A e \in Events, pc \in {"insert", "charge", "close", "done"} :
                Proceeds(r, e, pc) =>
                    handler' \in [Requests -> [Events ->
                        Statements \union {"unsent", "done", "lost"}]]
        BY DEF Proceeds, Statements
      <3>3. /\ [trail EXCEPT ![r].escalated = @ + 1] \in [Requests -> Trail]
            /\ [trail EXCEPT ![r].approved = @ + 1] \in [Requests -> Trail]
            /\ [trail EXCEPT ![r].charged = @ + 1] \in [Requests -> Trail]
        BY TrailGrows
      <3>4. CASE EnterEscalation(r)
        BY <3>2, <3>3, <3>4 DEF EnterEscalation, Events, chainVars, seenVars
      <3>5. CASE InsertRequest(r)
        BY <3>1, <3>2, <3>5 DEF InsertRequest, Events, chainVars, seenVars
      <3>6. CASE EnterPayment(r)
        BY <3>2, <3>3, <3>6 DEF EnterPayment, Events, chainVars, seenVars
      <3>7. CASE ChargePayment(r)
        BY <3>2, <3>3, <3>7 DEF ChargePayment, Events, chainVars, seenVars
      <3>8. CASE StampExpiry(r)
        BY <3>1, <3>2, <3>8 DEF StampExpiry, Events, chainVars, seenVars
      <3>9. ASSUME NEW e \in Events, CloseRequest(r, e) PROVE TypeOK'
        BY <3>1, <3>2, <3>9 DEF CloseRequest, ClosingBy, chainVars
      <3>10. CASE RouteInserts(r)
        BY <3>1, <3>10 DEF RouteInserts, chainVars, seenVars
      <3>11. QED
        BY <2>4, <3>4, <3>5, <3>6, <3>7, <3>8, <3>9, <3>10 DEF WatcherStep
    <2>5. ASSUME NEW r \in Requests, NEW e \in Events,
                 HandlerFails(r, e) \/ EntryRejected(r, e)
          PROVE  TypeOK'
      <3>1. First[e] \in Statements
        BY DEF First, Statements
      <3>2. \A pc \in {First[e], "lost"} :
                Proceeds(r, e, pc) =>
                    handler' \in [Requests -> [Events ->
                        Statements \union {"unsent", "done", "lost"}]]
        BY <3>1 DEF Proceeds
      <3>3. CASE HandlerFails(r, e)
        BY <3>2, <3>3 DEF HandlerFails, Fault, chainVars, dbVars
      <3>4. CASE EntryRejected(r, e)
        BY <3>2, <3>4 DEF EntryRejected, chainVars, dbVars, seenVars
      <3>5. QED
        BY <2>5, <3>3, <3>4
    <2>6. ASSUME NEW s \in Sweeps, SweepStep(s) PROVE TypeOK'
      <3>1. CASE FindOverdue(s)
        BY <3>1 DEF FindOverdue, NoSweep, Sweep, chainVars, dbVars, seenVars
      <3>2. \A r \in Requests : After(s, r) \in Sweep
        BY DEF After, NoSweep, Sweep
      <3>3. CASE ExplainExpiry(s)
        <4>1. sweep[s].pc = "explain" => After(s, sweep[s].at) \in Sweep
          BY DEF After, NoSweep, Sweep
        <4>2. [trail EXCEPT ![sweep[s].at].expired = @ + 1] \in [Requests -> Trail]
          BY TrailGrows DEF Sweep
        <4>3. QED
          BY <3>3, <4>1, <4>2 DEF ExplainExpiry, chainVars, seenVars
      <3>4. CASE SweepEnds(s)
        <4>1. sweep' \in [Sweeps -> Sweep]
          BY <3>4 DEF SweepEnds, NoSweep, Sweep
        <4>2. unexplained' \subseteq Requests
          BY <3>4 DEF SweepEnds, Sweep
        <4>3. QED
          BY <3>4, <4>1, <4>2 DEF SweepEnds, Fault, chainVars, dbVars
      <3>5. ASSUME NEW r \in Requests, ClaimOverdue(s, r) PROVE TypeOK'
        <4>1. Closed(r) \in Row
          BY RowsKeepShape
        <4>2. sweep[s].pc = "claim" => Claimed(s, r) \in Sweep
          BY DEF Claimed, Sweep
        <4>3. sweep' \in [Sweeps -> Sweep]
          BY <3>2, <3>5, <4>2 DEF ClaimOverdue
        <4>4. row' \in [Requests -> Row]
          BY <3>5, <4>1 DEF ClaimOverdue
        <4>5. closedBy' \in [Requests -> {"nobody", "decision", "expiry"}]
          BY <3>5 DEF ClaimOverdue, ClosingBy
        <4>6. QED
          BY <3>5, <4>3, <4>4, <4>5 DEF ClaimOverdue, chainVars
      <3>6. QED
        BY <2>6, <3>1, <3>3, <3>4, <3>5 DEF SweepStep
    <2>7. CASE UNCHANGED vars
      BY <2>7 DEF vars, chainVars, dbVars, seenVars
    <2>8. QED
      BY <2>1, <2>2, <2>3, <2>4, <2>5, <2>6, <2>7 DEF Next
  <1>3. QED
    BY <1>1, <1>2, PTL DEF Spec

-----------------------------------------------------------------------------
(* The window *)

\* Nothing is known of a request before it is escalated; a row is not older
\* than its request, and a stamp is the end of the window.
RowsFollowChain ==
    \A r \in Requests :
        /\ fate[r] = "unsent" => /\ row[r] = NoRow /\ closedBy[r] = "nobody"
                                /\ \A e \in Events : handler[r][e] = "unsent"
        /\ fate[r] # "unsent" => escalatedAt[r] <= now
        /\ Known(r) => escalatedAt[r] <= row[r].createdAt
        /\ row[r].expiresAt # NoTime => row[r].expiresAt = escalatedAt[r] + TTL

\* What a sweep has in hand was past its window when it was found.
CandidatesAreOverdue ==
    \A s \in Sweeps : \A r \in sweep[s].todo :
        fate[r] # "unsent" /\ escalatedAt[r] + TTL <= now

WindowInv ==
    TypeOK /\ RowsFollowChain /\ CandidatesAreOverdue /\ SweptOnlyAfterWindow

\* The chain's steps keep what the rows and the sweeps assume of a request.
LEMMA ChainKeepsWindow ==
    ASSUME WindowInv, TypeOK', NEW r \in Requests, ChainStep(r)
    PROVE  WindowInv'
  <1> USE ProjectionAssumption
      DEF WindowInv, TypeOK, dbVars, seenVars, Times, Known, NoRow, NoTime
  <1>1. CASE Escalate(r)
    <2>1. RowsFollowChain'
      <3> SUFFICES ASSUME NEW q \in Requests
                   PROVE  RowsFollowChain!(q)'
        BY DEF RowsFollowChain
      <3>1. CASE q = r
        BY <1>1, <3>1 DEF Escalate, RowsFollowChain
      <3>2. CASE q # r
        BY <1>1, <3>2 DEF Escalate, Emits, RowsFollowChain
      <3>3. QED
        BY <3>1, <3>2
    <2>2. CandidatesAreOverdue' /\ SweptOnlyAfterWindow'
      <3>1. /\ \A q \in Requests \ {r} : /\ escalatedAt'[q] = escalatedAt[q]
                                          /\ fate'[q] = fate[q]
            /\ closedBy' = closedBy /\ closedBy[r] = "nobody"
            /\ sweep' = sweep /\ \A s \in Sweeps : r \notin sweep[s].todo
            /\ now' = now
        BY <1>1 DEF Escalate, RowsFollowChain, CandidatesAreOverdue
      <3>2. \A s \in Sweeps : sweep[s].todo \subseteq Requests
        BY DEF Sweep
      <3>3. QED
        BY <3>1, <3>2 DEF CandidatesAreOverdue, SweptOnlyAfterWindow
    <2>3. QED
      BY <2>1, <2>2
  <1>2. CASE Approve(r) \/ Reject(r)
    <2>1. /\ now' = now /\ row' = row /\ sweep' = sweep
          /\ escalatedAt' = escalatedAt /\ closedBy' = closedBy
          /\ \A q \in Requests : fate[q] # "unsent" <=> fate'[q] # "unsent"
          /\ \A q \in Requests \ {r} : handler'[q] = handler[q]
          /\ fate[r] # "unsent"
      BY <1>2 DEF Approve, Reject, Emits
    <2>2. RowsFollowChain'
      BY <2>1 DEF RowsFollowChain
    <2>3. CandidatesAreOverdue' /\ SweptOnlyAfterWindow'
      BY <2>1 DEF CandidatesAreOverdue, SweptOnlyAfterWindow, Sweep
    <2>4. QED
      BY <2>2, <2>3
  <1>3. QED
    BY <1>1, <1>2 DEF ChainStep

\* Neither do the watchers and the route, in whatever order they come.
LEMMA WatchersKeepWindow ==
    ASSUME WindowInv, TypeOK', NEW r \in Requests,
           WatcherStep(r) \/ RouteInserts(r)
    PROVE  WindowInv'
  <1> USE ProjectionAssumption DEF WindowInv, TypeOK, Times
  <1>1. /\ now' = now /\ fate' = fate /\ escalatedAt' = escalatedAt
        /\ sweep' = sweep
        /\ \E e \in Events : handler[r][e] # "unsent" \/ fate[r] # "unsent"
        /\ \A q \in Requests \ {r} : handler'[q] = handler[q] /\ row'[q] = row[q]
        /\ \/ row'[r] = row[r] \/ row'[r] = Inserted(r)
           \/ row'[r] = Stamped(r) \/ row'[r] = Closed(r)
        /\ \A q \in Requests :
             closedBy'[q] = "expiry" => closedBy[q] = "expiry"
        /\ \A q \in Requests \ {r} : closedBy'[q] = closedBy[q]
    <2>1. CASE EnterEscalation(r)
      BY <2>1 DEF EnterEscalation, Proceeds, Events, chainVars, seenVars
    <2>2. CASE InsertRequest(r)
      BY <2>2 DEF InsertRequest, Proceeds, Events, chainVars, seenVars
    <2>3. CASE EnterPayment(r)
      BY <2>3 DEF EnterPayment, Proceeds, Events, chainVars, seenVars
    <2>4. CASE ChargePayment(r)
      BY <2>4 DEF ChargePayment, Proceeds, Events, chainVars, seenVars
    <2>5. CASE StampExpiry(r)
      BY <2>5 DEF StampExpiry, Proceeds, Events, chainVars, seenVars
    <2>6. ASSUME NEW e \in Events, CloseRequest(r, e) PROVE <1>1
      BY <2>6 DEF CloseRequest, ClosingBy, Proceeds, chainVars
    <2>7. CASE RouteInserts(r)
      BY <2>7 DEF RouteInserts, Events, chainVars, seenVars
    <2>8. QED
      BY <2>1, <2>2, <2>3, <2>4, <2>5, <2>6, <2>7 DEF WatcherStep
  <1>2. fate[r] # "unsent"
    BY <1>1 DEF RowsFollowChain
  <1>3. /\ Known(r)' => escalatedAt[r] <= row'[r].createdAt
        /\ row'[r].expiresAt # NoTime => row'[r].expiresAt = escalatedAt[r] + TTL
    <2>1. /\ escalatedAt[r] <= now
          /\ Known(r) => escalatedAt[r] <= row[r].createdAt
          /\ row[r].expiresAt # NoTime => row[r].expiresAt = escalatedAt[r] + TTL
      BY <1>2 DEF RowsFollowChain
    <2>2. CASE row'[r] = row[r]
      BY <2>1, <2>2 DEF Known
    <2>3. CASE row'[r] = Inserted(r)
      BY <2>1, <2>3 DEF Inserted, Known
    <2>4. CASE row'[r] = Stamped(r)
      BY <2>1, <2>4 DEF Stamped, Known, Row, NoRow
    <2>5. CASE row'[r] = Closed(r)
      BY <2>1, <2>5 DEF Closed, Known, Row, NoRow
    <2>6. QED
      BY <1>1, <2>2, <2>3, <2>4, <2>5
  <1>4. RowsFollowChain'
    <2>1. ASSUME NEW q \in Requests \ {r} PROVE RowsFollowChain!(q)'
      BY <1>1 DEF RowsFollowChain, Known
    <2>2. RowsFollowChain!(r)'
      BY <1>1, <1>2, <1>3 DEF RowsFollowChain
    <2>3. QED
      BY <2>1, <2>2 DEF RowsFollowChain
  <1>5. CandidatesAreOverdue' /\ SweptOnlyAfterWindow'
    BY <1>1 DEF CandidatesAreOverdue, SweptOnlyAfterWindow, Sweep
  <1> HIDE DEF TypeOK
  <1>6. QED
    BY <1>4, <1>5

\* A sweep takes only what it found overdue, and time does not go back.
LEMMA SweepsKeepWindow ==
    ASSUME WindowInv, TypeOK', NEW s \in Sweeps, SweepStep(s)
    PROVE  WindowInv'
  <1> USE ProjectionAssumption DEF WindowInv, TypeOK, Times
  <1>1. CASE FindOverdue(s)
    <2>1. \A r \in Requests :
            IsOverdue(r) => fate[r] # "unsent" /\ escalatedAt[r] + TTL <= now
      <3> SUFFICES ASSUME NEW r \in Requests, IsOverdue(r)
                   PROVE  fate[r] # "unsent" /\ escalatedAt[r] + TTL <= now
        OBVIOUS
      <3>1. row[r].status = "open" /\ row[r] # NoRow
        BY DEF IsOverdue, NoRow
      <3>2. fate[r] # "unsent" /\ escalatedAt[r] <= row[r].createdAt
        BY <3>1 DEF RowsFollowChain, Known
      <3>3. row[r].createdAt \in Nat
        BY <3>1 DEF Row
      <3>4. QED
        BY <3>2, <3>3 DEF IsOverdue, RowsFollowChain
    <2>2. CandidatesAreOverdue'
      BY <1>1, <2>1
      DEF FindOverdue, CandidatesAreOverdue, NoSweep, chainVars
    <2>3. RowsFollowChain' /\ SweptOnlyAfterWindow'
      BY <1>1 DEF FindOverdue, RowsFollowChain, SweptOnlyAfterWindow, Known,
                  chainVars, dbVars, seenVars
    <2>4. QED
      BY <2>2, <2>3
  <1>2. ASSUME NEW r \in Requests, ClaimOverdue(s, r) PROVE WindowInv'
    <2>1. /\ now' = now /\ fate' = fate /\ escalatedAt' = escalatedAt
          /\ handler' = handler
          /\ r \in sweep[s].todo
          /\ \A t \in Sweeps : sweep'[t].todo \subseteq sweep[t].todo
          /\ \A q \in Requests \ {r} : row'[q] = row[q] /\ closedBy'[q] = closedBy[q]
          /\ row'[r] = row[r] \/ row'[r] = Closed(r)
      <3>1. /\ After(s, r).todo \subseteq sweep[s].todo
            /\ sweep[s].pc = "claim" => Claimed(s, r).todo = sweep[s].todo
        BY DEF After, Claimed, NoSweep, Sweep
      <3>2. /\ \A t \in Sweeps \ {s} : sweep'[t] = sweep[t]
            /\ sweep'[s] = After(s, r) \/ sweep'[s] = Claimed(s, r)
            /\ sweep[s].pc = "claim"
        BY <1>2 DEF ClaimOverdue
      <3>3. /\ now' = now /\ fate' = fate /\ escalatedAt' = escalatedAt
            /\ handler' = handler
            /\ r \in sweep[s].todo
        BY <1>2 DEF ClaimOverdue, IsNext, chainVars
      <3>4. /\ \A q \in Requests \ {r} : /\ row'[q] = row[q]
                                          /\ closedBy'[q] = closedBy[q]
            /\ row'[r] = row[r] \/ row'[r] = Closed(r)
        BY <1>2 DEF ClaimOverdue, ClosingBy
      <3>5. QED
        BY <3>1, <3>2, <3>3, <3>4
    <2>2. fate[r] # "unsent" /\ escalatedAt[r] + TTL <= now
      BY <2>1 DEF CandidatesAreOverdue
    <2>3. RowsFollowChain'
      BY <2>1, <2>2 DEF RowsFollowChain, Closed, Known, Row, NoRow
    <2>4. CandidatesAreOverdue' /\ SweptOnlyAfterWindow'
      BY <2>1, <2>2 DEF CandidatesAreOverdue, SweptOnlyAfterWindow
    <2>5. QED
      BY <2>3, <2>4
  <1>3. CASE ExplainExpiry(s) \/ SweepEnds(s)
    <2>1. /\ now' = now /\ fate' = fate /\ escalatedAt' = escalatedAt
          /\ handler' = handler /\ row' = row /\ closedBy' = closedBy
          /\ \A t \in Sweeps : sweep'[t].todo \subseteq sweep[t].todo
      <3>1. /\ \A r \in Requests : After(s, r).todo \subseteq sweep[s].todo
            /\ NoSweep.todo \subseteq sweep[s].todo
        BY DEF After, NoSweep, Sweep
      <3>2. sweep[s].pc = "explain" => sweep[s].at \in Requests
        BY DEF Sweep
      <3>3. CASE ExplainExpiry(s)
        BY <3>1, <3>2, <3>3 DEF ExplainExpiry, chainVars, seenVars
      <3>4. CASE SweepEnds(s)
        BY <3>1, <3>4 DEF SweepEnds, chainVars, dbVars
      <3>5. QED
        BY <1>3, <3>3, <3>4
    <2>2. RowsFollowChain' /\ CandidatesAreOverdue' /\ SweptOnlyAfterWindow'
      BY <2>1
      DEF RowsFollowChain, CandidatesAreOverdue, SweptOnlyAfterWindow, Known
    <2>3. QED
      BY <2>2
  <1>4. QED
    BY <1>1, <1>2, <1>3 DEF SweepStep

\* A row is swept only after its request's window on chain has passed.
THEOREM WindowCorrect == Spec => []SweptOnlyAfterWindow
  <1>1. Init /\ TypeOK => WindowInv
    BY DEF Init, WindowInv, RowsFollowChain, CandidatesAreOverdue,
           SweptOnlyAfterWindow, Known, NoRow, NoSweep
  <1>2. WindowInv /\ TypeOK' /\ [Next]_vars => WindowInv'
    <2> SUFFICES ASSUME WindowInv, TypeOK', [Next]_vars PROVE WindowInv'
      OBVIOUS
    <2>1. CASE TimePasses
      <3> USE ProjectionAssumption DEF WindowInv, TypeOK, Times
      <3>1. /\ now' = now + 1 /\ fate' = fate /\ escalatedAt' = escalatedAt
            /\ row' = row /\ handler' = handler /\ sweep' = sweep
            /\ closedBy' = closedBy
        BY <2>1 DEF TimePasses, chainVars, dbVars, seenVars
      <3>2. RowsFollowChain'
        BY <3>1 DEF RowsFollowChain, Known
      <3>3. CandidatesAreOverdue'
        BY <3>1 DEF CandidatesAreOverdue, Sweep
      <3>4. SweptOnlyAfterWindow'
        BY <3>1 DEF SweptOnlyAfterWindow
      <3>5. QED
        BY <3>2, <3>3, <3>4
    <2>2. CASE UNCHANGED <<now, chainVars, row, sweep, closedBy>>
               /\ \A r \in Requests : fate[r] = "unsent" => handler'[r] = handler[r]
      BY <2>2 DEF WindowInv, RowsFollowChain, CandidatesAreOverdue, Known,
          SweptOnlyAfterWindow, chainVars
    <2>3. CASE InsertAgent \/ UNCHANGED vars
      BY <2>2, <2>3 DEF InsertAgent, vars, chainVars, dbVars, seenVars
    <2>4. ASSUME NEW r \in Requests, NEW e \in Events,
                 HandlerFails(r, e) \/ EntryRejected(r, e)
          PROVE  WindowInv'
      BY <2>2, <2>4 DEF HandlerFails, EntryRejected, Proceeds, Statements,
          WindowInv, TypeOK, RowsFollowChain, dbVars, seenVars
    <2>5. QED
      BY <2>1, <2>3, <2>4, ChainKeepsWindow, WatchersKeepWindow,
         SweepsKeepWindow DEF Next
  <1>3. WindowInv => SweptOnlyAfterWindow
    BY DEF WindowInv
  <1>4. QED
    BY <1>1, <1>2, <1>3, TypeCorrect, PTL DEF Spec

-----------------------------------------------------------------------------
(* The audit trail *)

\* A sweep about to write an expiry has closed the row itself, no other sweep
\* is about to write it, and nobody has.
SweepsOwnTheirRows ==
    /\ \A s \in Sweeps : sweep[s].pc = "explain" =>
           /\ closedBy[sweep[s].at] = "expiry"
           /\ trail[sweep[s].at].expired = 0
    /\ \A s, t \in Sweeps :
           /\ sweep[s].pc = "explain" /\ sweep[t].pc = "explain"
           /\ sweep[s].at = sweep[t].at
           => s = t

StatusTellsWho ==
    \A r \in Requests : row[r].status = "resolved" <=> closedBy[r] # "nobody"

\* Only a decision on chain has decision handlers, and closes a row for good.
DecisionsAreReal ==
    \A r \in Requests :
        /\ closedBy[r] = "decision" => fate[r] \in {"approved", "rejected"}
        /\ \A e \in {"paid", "approved", "rejected"} :
             handler[r][e] # "unsent" => fate[r] \in {"approved", "rejected"}

ExpiriesAreExplained ==
    \A r \in Requests : closedBy[r] = "expiry" =>
        \/ trail[r].expired = 1
        \/ r \in unexplained
        \/ \E s \in Sweeps : sweep[s].pc = "explain" /\ sweep[s].at = r

TrailInv ==
    /\ TypeOK /\ SweepsOwnTheirRows /\ StatusTellsWho /\ DecisionsAreReal
    /\ ExpiriesAreExplained /\ ExpiryRecordedOnce

\* A step that closes no row and leaves the sweeps alone keeps the trail.
LEMMA OtherStepsKeepTrail ==
    ASSUME TrailInv, TypeOK', sweep' = sweep, unexplained' = unexplained,
           closedBy' = closedBy,
           \A r \in Requests : /\ row'[r].status = "resolved" <=>
                                  row[r].status = "resolved"
                               /\ trail'[r].expired = trail[r].expired,
           DecisionsAreReal'
    PROVE  TrailInv'
  <1>1. \A s \in Sweeps : sweep[s].pc = "explain" => sweep[s].at \in Requests
    BY DEF TrailInv, TypeOK, Sweep
  <1>2. SweepsOwnTheirRows'
    BY <1>1 DEF TrailInv, SweepsOwnTheirRows
  <1>3. StatusTellsWho' /\ ExpiriesAreExplained' /\ ExpiryRecordedOnce'
    BY DEF TrailInv, StatusTellsWho, ExpiriesAreExplained, ExpiryRecordedOnce
  <1>4. QED
    BY <1>2, <1>3 DEF TrailInv

\* The chain, the watchers and the route.
LEMMA WatchersKeepTrail ==
    ASSUME TrailInv, TypeOK', NEW r \in Requests,
           ChainStep(r) \/ WatcherStep(r) \/ RouteInserts(r)
    PROVE  TrailInv'
  <1> USE DEF TrailInv, TypeOK
  <1>1. CASE ChainStep(r)
    <2>1. /\ sweep' = sweep /\ unexplained' = unexplained
          /\ closedBy' = closedBy /\ row' = row /\ trail' = trail
      BY <1>1 DEF ChainStep, Escalate, Approve, Reject, dbVars, seenVars
    <2>2. DecisionsAreReal'
      BY <1>1, <2>1 DEF ChainStep, Escalate, Approve, Reject, Emits,
                        DecisionsAreReal, Events, First
    <2>3. QED
      BY <2>1, <2>2, OtherStepsKeepTrail
  <1>2. ASSUME NEW e \in Events, CloseRequest(r, e) PROVE TrailInv'
    <2>1. /\ fate' = fate /\ trail' = trail /\ sweep' = sweep
          /\ unexplained' = unexplained /\ fate[r] \in {"approved", "rejected"}
          /\ \A q \in Requests \ {r} : /\ row'[q] = row[q]
                                       /\ closedBy'[q] = closedBy[q]
          /\ row'[r] = Closed(r)
          /\ closedBy'[r] = IF row[r].status = "open" THEN "decision"
                            ELSE closedBy[r]
      BY <1>2 DEF CloseRequest, ClosingBy, DecisionsAreReal, chainVars
    <2>2. DecisionsAreReal'
      <3>1. \A q \in Requests, f \in Events :
                handler'[q][f] # "unsent" => handler[q][f] # "unsent"
        BY <1>2 DEF CloseRequest, Proceeds
      <3>2. QED
        BY <2>1, <3>1 DEF DecisionsAreReal, Events
    <2>3. row[r].status # "absent" <=> row'[r].status = "resolved"
      BY <2>1 DEF Closed, Known, Row, NoRow
    <2>4. StatusTellsWho'
      <3>1. row[r].status \in {"absent", "open", "resolved"}
        BY DEF Row, NoRow
      <3>2. row'[r].status = "resolved" <=> closedBy'[r] # "nobody"
        BY <2>1, <2>3, <3>1 DEF StatusTellsWho
      <3>3. \A q \in Requests \ {r} :
                row'[q].status = "resolved" <=> closedBy'[q] # "nobody"
        BY <2>1 DEF StatusTellsWho
      <3>4. QED
        BY <3>2, <3>3 DEF StatusTellsWho
    <2>5. closedBy[r] = "expiry" <=> closedBy'[r] = "expiry"
      BY <2>1 DEF StatusTellsWho
    <2>6. SweepsOwnTheirRows'
      <3>1. \A q \in Requests : closedBy[q] = "expiry" => closedBy'[q] = "expiry"
        BY <2>1, <2>5
      <3>2. \A s \in Sweeps : sweep[s].pc = "explain" => sweep[s].at \in Requests
        BY DEF Sweep
      <3>3. QED
        BY <2>1, <3>1, <3>2 DEF SweepsOwnTheirRows
    <2>7. ExpiriesAreExplained' /\ ExpiryRecordedOnce'
      <3>1. \A q \in Requests : closedBy[q] = "expiry" <=> closedBy'[q] = "expiry"
        BY <2>1, <2>5
      <3>2. QED
        BY <2>1, <3>1 DEF ExpiriesAreExplained, ExpiryRecordedOnce
    <2>8. QED
      BY <2>2, <2>4, <2>6, <2>7
  <1>3. CASE \/ EnterEscalation(r) \/ InsertRequest(r) \/ EnterPayment(r)
             \/ ChargePayment(r) \/ StampExpiry(r) \/ RouteInserts(r)
    <2>1. /\ sweep' = sweep /\ unexplained' = unexplained
          /\ closedBy' = closedBy /\ fate' = fate
      BY <1>3 DEF EnterEscalation, InsertRequest, EnterPayment, ChargePayment,
                  StampExpiry, RouteInserts, chainVars, seenVars
    <2>2. \A q \in Requests, e \in Events :
              handler'[q][e] # "unsent" => handler[q][e] # "unsent"
      BY <1>3 DEF EnterEscalation, InsertRequest, EnterPayment, ChargePayment,
                  StampExpiry, RouteInserts, Proceeds, Events
    <2>3. \A q \in Requests : row'[q].status = "resolved" <=>
                              row[q].status = "resolved"
      <3>1. row' = row \/ \E x \in {Inserted(r), Stamped(r)} :
                              row' = [row EXCEPT ![r] = x]
        BY <1>3 DEF EnterEscalation, InsertRequest, EnterPayment,
                    ChargePayment, StampExpiry, RouteInserts
      <3>2. \A x \in {Inserted(r), Stamped(r)} :
                x.status = "resolved" <=> row[r].status = "resolved"
        BY DEF Inserted, Stamped, Known, Row, NoRow
      <3>3. CASE row' = row
        BY <3>3
      <3>4. ASSUME NEW x \in {Inserted(r), Stamped(r)},
                   row' = [row EXCEPT ![r] = x]
            PROVE  <2>3
        <4>1. row'[r] = x /\ \A q \in Requests \ {r} : row'[q] = row[q]
          BY <3>4
        <4>2. QED
          BY <3>2, <4>1
      <3>5. QED
        BY <3>1, <3>3, <3>4
    <2>4. \A q \in Requests : trail'[q].expired = trail[q].expired
      <3>1. CASE EnterEscalation(r)
        BY <3>1 DEF EnterEscalation, Trail
      <3>2. CASE EnterPayment(r)
        BY <3>2 DEF EnterPayment, Trail
      <3>3. CASE ChargePayment(r)
        BY <3>3 DEF ChargePayment, Trail
      <3>4. CASE InsertRequest(r) \/ StampExpiry(r) \/ RouteInserts(r)
        BY <3>4 DEF InsertRequest, StampExpiry, RouteInserts
      <3>5. QED
        BY <1>3, <3>1, <3>2, <3>3, <3>4
    <2>5. DecisionsAreReal'
      BY <2>1, <2>2 DEF DecisionsAreReal, Events
    <2>6. QED
      BY <2>1, <2>3, <2>4, <2>5, OtherStepsKeepTrail
  <1>4. QED
    BY <1>1, <1>2, <1>3 DEF WatcherStep

\* A step of one sweep that leaves it with nothing to explain leaves the other
\* sweeps what they own.
LEMMA OthersKeepTheirRows ==
    ASSUME TypeOK, SweepsOwnTheirRows, NEW s \in Sweeps,
           \A t \in Sweeps \ {s} : sweep'[t] = sweep[t],
           sweep'[s].pc # "explain",
           closedBy' = closedBy,
           \A q \in Requests :
               \/ trail'[q].expired = trail[q].expired
               \/ sweep[s].pc = "explain" /\ sweep[s].at = q
    PROVE  SweepsOwnTheirRows'
  <1>1. \A t \in Sweeps : sweep'[t].pc = "explain" =>
            /\ t # s /\ sweep'[t] = sweep[t] /\ sweep[t].pc = "explain"
            /\ sweep[t].at \in Requests
    BY DEF TypeOK, Sweep
  <1>2. \A t \in Sweeps : sweep'[t].pc = "explain" =>
            trail'[sweep[t].at].expired = trail[sweep[t].at].expired
    BY <1>1 DEF SweepsOwnTheirRows
  <1>3. \A t \in Sweeps : sweep'[t].pc = "explain" =>
            closedBy'[sweep'[t].at] = "expiry" /\ trail'[sweep'[t].at].expired = 0
    BY <1>1, <1>2 DEF SweepsOwnTheirRows
  <1>4. \A t, u \in Sweeps :
            /\ sweep'[t].pc = "explain" /\ sweep'[u].pc = "explain"
            /\ sweep'[t].at = sweep'[u].at
            => t = u
    BY <1>1 DEF SweepsOwnTheirRows
  <1>5. QED
    BY <1>3, <1>4 DEF SweepsOwnTheirRows

\* Expiries are counted in natural numbers.
LEMMA ExpiryCount ==
    ASSUME TypeOK, NEW r \in Requests PROVE trail[r].expired \in Nat
  BY DEF TypeOK, Trail

\* The claim gives a row to one sweep; only that sweep explains it.
LEMMA ClaimsKeepTrail ==
    ASSUME TrailInv, TypeOK', NEW s \in Sweeps, NEW r \in Requests,
           ClaimOverdue(s, r)
    PROVE  TrailInv'
  <1> USE DEF TrailInv, TypeOK
  <1>1. /\ fate' = fate /\ trail' = trail /\ handler' = handler
        /\ unexplained' = unexplained
        /\ \A t \in Sweeps \ {s} : sweep'[t] = sweep[t]
        /\ sweep[s].pc = "claim"
    BY DEF ClaimOverdue, chainVars
  <1>2. \A t \in Sweeps : sweep[t].pc = "explain" => sweep[t].at \in Requests
    BY DEF Sweep
  <1>3. CASE ~Wins(r)
    <2>1. row' = row /\ closedBy' = closedBy /\ sweep'[s] = After(s, r)
      BY <1>3 DEF ClaimOverdue
    <2>2. sweep'[s].pc # "explain"
      BY <2>1 DEF After, NoSweep
    <2>3. SweepsOwnTheirRows' /\ ExpiriesAreExplained'
      <3>1. SweepsOwnTheirRows'
        BY <1>1, <2>1, <2>2, OthersKeepTheirRows
      <3>2. \A t \in Sweeps : sweep[t].pc = "explain" => sweep'[t] = sweep[t]
        BY <1>1
      <3>3. ExpiriesAreExplained'
        BY <1>1, <2>1, <3>2 DEF ExpiriesAreExplained
      <3>4. QED
        BY <3>1, <3>3
    <2>4. StatusTellsWho' /\ DecisionsAreReal' /\ ExpiryRecordedOnce'
      BY <1>1, <2>1 DEF StatusTellsWho, DecisionsAreReal, ExpiryRecordedOnce
    <2>5. QED
      BY <2>3, <2>4
  <1>4. CASE Wins(r)
    <2>1. /\ row' = [row EXCEPT ![r] = Closed(r)]
          /\ closedBy' = [closedBy EXCEPT ![r] = "expiry"]
          /\ sweep'[s] = Claimed(s, r)
      BY <1>4 DEF ClaimOverdue, ClosingBy, Wins
    <2>2. sweep'[s].pc = "explain" /\ sweep'[s].at = r
      BY <1>1, <2>1 DEF Claimed, Sweep
    <2>3. row[r].status = "open" /\ Closed(r).status = "resolved"
      BY <1>4 DEF Wins, Closed, Known, Row, NoRow
    <2>4. closedBy[r] = "nobody" /\ trail[r].expired = 0
      <3>1. closedBy[r] = "nobody"
        BY <2>3 DEF StatusTellsWho
      <3>2. trail[r].expired <= 1 /\ trail[r].expired # 1
        BY <3>1 DEF ExpiryRecordedOnce
      <3>3. trail[r].expired \in Nat
        BY ExpiryCount
      <3>4. \A n \in Nat : n <= 1 /\ n # 1 => n = 0
        OBVIOUS
      <3>5. QED
        BY <3>1, <3>2, <3>3, <3>4
    <2>5. /\ \A q \in Requests \ {r} : row'[q] = row[q] /\ closedBy'[q] = closedBy[q]
          /\ row'[r].status = "resolved" /\ closedBy'[r] = "expiry"
      BY <2>1, <2>3
    <2>6. SweepsOwnTheirRows'
      <3>1. \A t \in Sweeps \ {s} : sweep[t].pc = "explain" => sweep[t].at # r
        BY <2>4 DEF SweepsOwnTheirRows
      <3>2. ASSUME NEW t \in Sweeps, sweep'[t].pc = "explain"
            PROVE  /\ closedBy'[sweep'[t].at] = "expiry"
                   /\ trail[sweep'[t].at].expired = 0
        <4>1. CASE t = s
          BY <1>1, <2>2, <2>4, <2>5, <4>1
        <4>2. CASE t # s
          <5>1. /\ sweep'[t] = sweep[t] /\ sweep[t].at \in Requests \ {r}
                /\ closedBy[sweep[t].at] = "expiry"
                /\ trail[sweep[t].at].expired = 0
            BY <1>1, <1>2, <3>1, <3>2, <4>2 DEF SweepsOwnTheirRows
          <5>2. QED
            BY <1>1, <2>5, <5>1
        <4>3. QED
          BY <4>1, <4>2
      <3>3. QED
        BY <1>1, <2>2, <3>1, <3>2 DEF SweepsOwnTheirRows
    <2>7. StatusTellsWho' /\ DecisionsAreReal'
      <3>1. StatusTellsWho'
        <4>1. \A q \in Requests \ {r} :
                  row'[q].status = "resolved" <=> closedBy'[q] # "nobody"
          BY <2>5 DEF StatusTellsWho
        <4>2. row'[r].status = "resolved" <=> closedBy'[r] # "nobody"
          BY <2>5
        <4>3. QED
          BY <4>1, <4>2 DEF StatusTellsWho
      <3>2. DecisionsAreReal'
        BY <1>1, <2>5 DEF DecisionsAreReal
      <3>3. QED
        BY <3>1, <3>2
    <2>8. ExpiriesAreExplained' /\ ExpiryRecordedOnce'
      <3>1. \A q \in Requests \ {r} : ~(sweep[s].pc = "explain" /\ sweep[s].at = q)
        BY <1>1
      <3>2. ExpiriesAreExplained'
        BY <1>1, <2>2, <2>5, <3>1 DEF ExpiriesAreExplained
      <3>3. ExpiryRecordedOnce'
        BY <1>1, <2>4, <2>5 DEF ExpiryRecordedOnce
      <3>4. QED
        BY <3>2, <3>3
    <2>9. QED
      BY <2>6, <2>7, <2>8
  <1>5. QED
    BY <1>3, <1>4

\* The explanation is written once; a sweep that ends in between leaves a row
\* that counts as unexplained.
LEMMA SweepsKeepTrail ==
    ASSUME TrailInv, TypeOK', NEW s \in Sweeps, SweepStep(s)
    PROVE  TrailInv'
  <1> USE DEF TrailInv, TypeOK
  <1>1. \A t \in Sweeps : sweep[t].pc = "explain" => sweep[t].at \in Requests
    BY DEF Sweep
  <1>2. CASE FindOverdue(s)
    <2>1. /\ fate' = fate /\ trail' = trail /\ handler' = handler /\ row' = row
          /\ unexplained' = unexplained /\ closedBy' = closedBy
          /\ \A t \in Sweeps \ {s} : sweep'[t] = sweep[t]
          /\ sweep[s].pc # "explain" /\ sweep'[s].pc # "explain"
      BY <1>2 DEF FindOverdue, NoSweep, chainVars, dbVars, seenVars
    <2>2. SweepsOwnTheirRows' /\ ExpiriesAreExplained'
      <3>1. SweepsOwnTheirRows'
        BY <2>1, OthersKeepTheirRows
      <3>2. \A t \in Sweeps : sweep[t].pc = "explain" => sweep'[t] = sweep[t]
        BY <2>1
      <3>3. ExpiriesAreExplained'
        BY <2>1, <3>2 DEF ExpiriesAreExplained
      <3>4. QED
        BY <3>1, <3>3
    <2>3. StatusTellsWho' /\ DecisionsAreReal' /\ ExpiryRecordedOnce'
      BY <2>1 DEF StatusTellsWho, DecisionsAreReal, ExpiryRecordedOnce
    <2>4. QED
      BY <2>2, <2>3
  <1>3. CASE ExplainExpiry(s)
    <2> DEFINE r == sweep[s].at
    <2>1. /\ fate' = fate /\ handler' = handler /\ row' = row
          /\ unexplained' = unexplained /\ closedBy' = closedBy
          /\ \A t \in Sweeps \ {s} : sweep'[t] = sweep[t]
          /\ sweep[s].pc = "explain" /\ r \in Requests
          /\ trail' = [trail EXCEPT ![r].expired = @ + 1]
          /\ sweep'[s] = After(s, r)
      BY <1>1, <1>3 DEF ExplainExpiry, chainVars, seenVars
    <2>2. sweep'[s].pc # "explain"
      BY <2>1 DEF After, NoSweep
    <2>3. /\ closedBy[r] = "expiry" /\ trail[r].expired = 0
          /\ trail'[r].expired = 1
          /\ \A q \in Requests \ {r} : trail'[q] = trail[q]
          /\ \A t \in Sweeps \ {s} : sweep[t].pc = "explain" => sweep[t].at # r
      BY <2>1 DEF SweepsOwnTheirRows, Trail
    <2>4. SweepsOwnTheirRows'
      BY <2>1, <2>2, <2>3, OthersKeepTheirRows
    <2>5. ExpiriesAreExplained' /\ ExpiryRecordedOnce'
      <3>1. \A q \in Requests \ {r} : \A t \in Sweeps :
                sweep[t].pc = "explain" /\ sweep[t].at = q =>
                    sweep'[t].pc = "explain" /\ sweep'[t].at = q
        BY <2>1
      <3>2. ExpiriesAreExplained'
        BY <2>1, <2>3, <3>1 DEF ExpiriesAreExplained
      <3>3. ExpiryRecordedOnce'
        BY <2>1, <2>3 DEF ExpiryRecordedOnce
      <3>4. QED
        BY <3>2, <3>3
    <2>6. StatusTellsWho' /\ DecisionsAreReal'
      BY <2>1 DEF StatusTellsWho, DecisionsAreReal
    <2>7. QED
      BY <2>4, <2>5, <2>6
  <1>4. CASE SweepEnds(s)
    <2>1. /\ fate' = fate /\ trail' = trail /\ handler' = handler /\ row' = row
          /\ closedBy' = closedBy
          /\ \A t \in Sweeps \ {s} : sweep'[t] = sweep[t]
          /\ sweep'[s] = NoSweep
          /\ unexplained \subseteq unexplained'
          /\ sweep[s].pc = "explain" => sweep[s].at \in unexplained'
      BY <1>4 DEF SweepEnds, chainVars, dbVars
    <2>2. sweep'[s].pc # "explain"
      BY <2>1 DEF NoSweep
    <2>3. SweepsOwnTheirRows' /\ ExpiriesAreExplained'
      <3>1. SweepsOwnTheirRows'
        BY <2>1, <2>2, OthersKeepTheirRows
      <3>2. \A q \in Requests : \A t \in Sweeps :
                sweep[t].pc = "explain" /\ sweep[t].at = q =>
                    q \in unexplained' \/ sweep'[t] = sweep[t]
        BY <2>1
      <3>3. ExpiriesAreExplained'
        BY <2>1, <3>2 DEF ExpiriesAreExplained
      <3>4. QED
        BY <3>1, <3>3
    <2>4. StatusTellsWho' /\ DecisionsAreReal' /\ ExpiryRecordedOnce'
      BY <2>1 DEF StatusTellsWho, DecisionsAreReal, ExpiryRecordedOnce
    <2>5. QED
      BY <2>3, <2>4
  <1>5. QED
    BY <1>2, <1>3, <1>4, ClaimsKeepTrail DEF SweepStep

\* The invariant from which the trail's properties follow.
LEMMA TrailInvariant == Spec => []TrailInv
  <1>1. Init /\ TypeOK => TrailInv
    BY DEF Init, TrailInv, SweepsOwnTheirRows, StatusTellsWho, NoTrail,
           DecisionsAreReal, ExpiriesAreExplained, ExpiryRecordedOnce, NoRow,
           NoSweep, Events
  <1>2. TrailInv /\ TypeOK' /\ [Next]_vars => TrailInv'
    <2> SUFFICES ASSUME TrailInv, TypeOK', [Next]_vars PROVE TrailInv'
      OBVIOUS
    <2>1. CASE TimePasses \/ InsertAgent \/ UNCHANGED vars
      <3>1. /\ sweep' = sweep /\ unexplained' = unexplained /\ row' = row
            /\ closedBy' = closedBy /\ trail' = trail /\ handler' = handler
            /\ fate' = fate
        BY <2>1 DEF TimePasses, InsertAgent, vars, chainVars, dbVars, seenVars
      <3>2. DecisionsAreReal'
        BY <3>1 DEF TrailInv, DecisionsAreReal
      <3>3. QED
        BY <3>1, <3>2, OtherStepsKeepTrail
    <2>2. ASSUME NEW r \in Requests, NEW e \in Events,
                 HandlerFails(r, e) \/ EntryRejected(r, e)
          PROVE  TrailInv'
      <3>1. /\ sweep' = sweep /\ unexplained' = unexplained /\ row' = row
            /\ closedBy' = closedBy /\ trail' = trail /\ fate' = fate
        BY <2>2 DEF HandlerFails, EntryRejected, chainVars, dbVars, seenVars
      <3>2. \A q \in Requests, f \in Events :
                handler'[q][f] # "unsent" => handler[q][f] # "unsent"
        <4>1. handler[r][e] # "unsent"
          BY <2>2 DEF HandlerFails, EntryRejected, Statements
        <4>2. PICK pc : handler' = [handler EXCEPT ![r][e] = pc]
          BY <2>2 DEF HandlerFails, EntryRejected, Proceeds
        <4>3. handler = [q \in Requests |-> [f \in Events |-> handler[q][f]]]
          BY DEF TrailInv, TypeOK
        <4>4. QED
          BY <4>1, <4>2, <4>3
      <3>3. DecisionsAreReal'
        BY <3>1, <3>2 DEF TrailInv, DecisionsAreReal, Events
      <3>4. QED
        BY <3>1, <3>3, OtherStepsKeepTrail
    <2>3. QED
      BY <2>1, <2>2, WatchersKeepTrail, SweepsKeepTrail DEF Next
  <1>3. QED
    BY <1>1, <1>2, TypeCorrect, PTL DEF Spec

\* However many sweeps overlap, a request gets one expiry at most, from the
\* sweep that closed it.
THEOREM ExpiryCorrect == Spec => []ExpiryRecordedOnce
  <1>1. TrailInv => ExpiryRecordedOnce
    BY DEF TrailInv
  <1>2. QED
    BY <1>1, TrailInvariant, PTL

\* A request open on chain leaves the queue with an audit row, unless a sweep
\* failed between its two writes.
THEOREM VanishingsExplained == Spec => []NothingVanishesUnexplained
  <1>1. TrailInv => NothingVanishesUnexplained
    <2> SUFFICES ASSUME TrailInv, NEW r \in Requests,
                        row[r].status = "resolved", fate[r] = "pending"
                 PROVE  \/ trail[r].expired = 1
                        \/ r \in unexplained
                        \/ \E s \in Sweeps :
                             sweep[s].pc = "explain" /\ sweep[s].at = r
      BY DEF NothingVanishesUnexplained
    <2>1. closedBy[r] \in {"decision", "expiry"} /\ closedBy[r] # "decision"
      BY DEF TrailInv, TypeOK, StatusTellsWho, DecisionsAreReal
    <2>2. QED
      BY <2>1 DEF TrailInv, ExpiriesAreExplained
  <1>2. QED
    BY <1>1, TrailInvariant, PTL

\* No step of any watcher, route or sweep reopens or removes a row.
THEOREM RowsStayClosed == Spec => ClosedRowsStayClosed
  <1> DEFINE Kept(r) ==
        /\ row[r].status = "resolved" => row'[r].status = "resolved"
        /\ row[r].status = "open" => row'[r].status # "absent"
  <1>1. TypeOK /\ [Next]_vars => \A r \in Requests : Kept(r)
    <2> SUFFICES ASSUME TypeOK, [Next]_vars, NEW r \in Requests PROVE Kept(r)
      OBVIOUS
    <2>1. row[r] \in Row /\ row \in [Requests -> Row]
      BY DEF TypeOK
    <2>2. row'[r] \in {row[r], Inserted(r), Stamped(r), Closed(r)}
      <3>1. row' = row \/ \E q \in Requests :
                \E x \in {Inserted(q), Stamped(q), Closed(q)} :
                    row' = [row EXCEPT ![q] = x]
        BY DEF Next, TimePasses, InsertAgent, ChainStep, Escalate, Approve,
           Reject, WatcherStep, EnterEscalation, InsertRequest, EnterPayment,
           ChargePayment, StampExpiry, CloseRequest, RouteInserts,
           HandlerFails, EntryRejected, SweepStep, FindOverdue, ExplainExpiry,
           SweepEnds, ClaimOverdue, vars, dbVars
      <3>2. QED
        BY <2>1, <3>1
    <2>3. QED
      BY <2>1, <2>2 DEF Inserted, Stamped, Closed, Known, Row, NoRow
  <1>2. QED
    BY <1>1, TypeCorrect, PTL DEF Spec, ClosedRowsStayClosed
=============================================================================
