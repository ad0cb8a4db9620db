-------------------- MODULE AgentAdministrationProperties --------------------
(***************************************************************************)
(* What the agent and policy routes promise.                               *)
(***************************************************************************)
EXTENDS AgentAdministration

\* checkPolicy's test of the daily cap, on the state of a block.
Fits(b, a, amount, counted) ==
    LET p == b.of[a]
        spent == IF p.day = b.day THEN p.spent ELSE 0
        reserved == IF p.day = b.day /\ counted THEN p.held ELSE 0
    IN  p.exists /\ spent + reserved + amount <= p.cap

\* A snapshot answers "can this agent still spend X" as the registry would, at
\* the block it names; read after a failed probe it leaves reservations out.
IsTrue(a, s) ==
    s.block # 0 =>
      /\ s.exists = blocks[s.block].of[a].exists
      /\ \A amount \in 1..(s.cap + 1) :
           (amount <= s.left) =
             Fits(blocks[s.block], a, amount, s.abi = "current")

\* Every snapshot read from the registry, cached or served, is of one block: day
\* and policy agree with the registry's own arithmetic at the block it names,
\* however many calls read, change the policy and cross midnight in between.  A
\* single agent's policy is always of the block its call pinned, and so is the
\* list's where no fault has hit the call (policyState.ts:44-49, 187-218).  Not
\* claimed, because README.md:104-105 and policyState.ts:89-90 say it and the
\* code does not keep it: that a list whose read failed is not answered with
\* zeroes (block 0) or what the cache has (policyState.ts:299-319), and that
\* after a failed probe the headroom counts reservations.
SnapshotsAreTrue ==
    /\ \A a \in Agents : IsTrue(a, cache[a])
    /\ \A c \in Calls : \A a \in Agents : IsTrue(a, served[c][a])
    /\ \A c \in Calls :
         /\ code[c] = "200"
         /\ job[c].kind = "show" \/ (job[c].kind = "list" /\ c \notin hit)
         => \A a \in about[c] :
              served[c][a].block = pinned[c] /\ pinned[c] > 0

\* Each change sent to the registry is tied to the administrator who asked for
\* it, unless a fault cut the call short or the watcher wrote the row of a new
\* agent before the route did (policies.ts:50-53, agents.ts:239-265).
ChangesAreSigned ==
    \A c \in submitted :
        \/ c \in operatorActions \union hit \union InFlight
        \/ job[c].kind = "register" /\ row[job[c].agent] = "bare"

\* An agent the route reports as registered keeps its wallet in its row and has
\* its policy on chain or on the way there, and no row with a wallet is without
\* one (agents.ts:162-170).
RegistrationsAreWhole ==
    /\ \A c \in Calls : code[c] = "201" =>
         row[job[c].agent] = "walleted" /\ c \in operatorActions
    /\ \A a \in Agents : row[a] = "walleted" =>
         Now(a).exists \/ \E i \in DOMAIN pool : pool[i].agent = a

\* A cap that is below what the agent has spent today got there because the
\* agent paid after the administrator asked: in the block the route looked at,
\* or for a registration the one in which it began, the agent had spent no more
\* than the cap (policies.ts:78-92).
LoweringIsRaced ==
    \A a \in Agents :
        0 < Now(a).cap /\ Now(a).cap < SpentIn(Latest, a) =>
          \E c \in submitted :
            /\ job[c].kind \in {"set", "register"} /\ job[c].agent = a
            /\ job[c].cap = Now(a).cap
            /\ pinned[c] \in 1..(Height - 1)
            /\ SpentIn(blocks[pinned[c]], a) <= job[c].cap
=============================================================================
