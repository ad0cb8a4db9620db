------------------------- MODULE AgentAdministration -------------------------
(***************************************************************************)
(* How an administrator registers agents and changes their policies, and   *)
(* how their live policies are read back: POST /agents and the GET routes  *)
(* (routes/agents.ts), POST /policies, /policies/allowlist and             *)
(* /policies/apply-pending (routes/policies.ts), the pinned reads with     *)
(* their cache and their probe (chain/policyState.ts), the admin relayer   *)
(* (chain/signing.ts) and the PolicySet watcher, which writes the same     *)
(* rows.  One deployment; every await is a step.  Of a policy only the     *)
(* daily cap is kept, and the chain is the sequence of the blocks in which *)
(* a policy or the day changed.                                            *)
(***************************************************************************)
EXTENDS Integers, Sequences

CONSTANTS
    Agents,             \* addresses, as Circle makes them
    Calls,              \* HTTP requests, each made at most once
    Caps,               \* daily caps submitted; zero is the pause gesture
    MaxBlocks,          \* bound: blocks
    MaxFaults           \* bound: reads, statements, answers lost, restarts

ASSUME AdministrationAssumption ==
    /\ Caps \subseteq Nat /\ 0 \in Caps
    /\ MaxBlocks \in Nat \ {0} /\ MaxFaults \in Nat

VARIABLES
    blocks, ripe,       \* the chain, and the agents whose increase is due
    pool,               \* the admin relayer's transactions, by nonce
    minted,             \* Circle: the wallets made
    row,                \* agents: none, bare (the watcher's), walleted
    operatorActions,    \* operator_actions
    cache, fresh,       \* policyCache, and its entries within the TTL
    support,            \* reservationSupport
    pc, job, about, pinned, abi, served, code,  \* the calls
    submitted, hit, faults      \* observation: what was sent, faults

chainVars == <<blocks, ripe, pool>>
dbVars == <<row, operatorActions>>
memoVars == <<cache, fresh, support>>
readVars == <<about, pinned, abi, served>>
vars == <<chainVars, minted, dbVars, memoVars, pc, job, readVars, code,
          submitted, hit, faults>>

Kinds == {"list", "show", "set", "allow", "apply", "register"}
Steps == {"idle", "rows", "block", "probe", "call", "pending", "mint",
          "submit", "row", "record", "done"}
Codes == {"none", "200", "201", "400", "404", "422", "500", "502", "503"}

NoAgent == "nobody"
Policy == [exists : BOOLEAN, cap : Nat, spent : Nat, held : Nat, day : Nat,
           scheduled : Nat, since : Nat]
Snapshot == [exists : BOOLEAN, cap : Nat, spent : Nat, left : Nat,
             block : Nat, abi : {"legacy", "current", "none"}]
NoPolicy == [exists |-> FALSE, cap |-> 0, spent |-> 0, held |-> 0, day |-> 0,
             scheduled |-> 0, since |-> 0]
Tx == [call : Calls, kind : Kinds, agent : Agents, cap : Nat]
Job == [kind : Kinds, agent : Agents \union {NoAgent}, cap : Nat]

\* The zeroed snapshot stands in for a read that failed, and for no snapshot.
Zeroed == [exists |-> FALSE, cap |-> 0, spent |-> 0, left |-> 0, block |-> 0,
           abi |-> "none"]

TypeOK ==
    /\ blocks \in Seq([day : Nat, of : [Agents -> Policy]]) /\ blocks # <<>>
    /\ ripe \subseteq Agents /\ minted \subseteq Agents
    /\ pool \in Seq(Tx)
    /\ row \in [Agents -> {"none", "bare", "walleted"}]
    /\ operatorActions \subseteq Calls
    /\ cache \in [Agents -> Snapshot] /\ fresh \subseteq Agents
    /\ support \in {"unknown", "legacy", "current"}
    /\ pc \in [Calls -> Steps]
    /\ job \in [Calls -> Job]
    /\ about \in [Calls -> SUBSET Agents]
    /\ pinned \in [Calls -> 0..Len(blocks)]
    /\ abi \in [Calls -> {"unknown", "legacy", "current"}]
    /\ served \in [Calls -> [Agents -> Snapshot]]
    /\ code \in [Calls -> Codes]
    /\ submitted \subseteq Calls /\ hit \subseteq Calls

Unread == [a \in Agents |-> Zeroed]

Init ==
    /\ minted \in SUBSET Agents     \* those registered before
    /\ \E cap \in Caps \ {0} :
         blocks = <<[day |-> 1, of |-> [a \in Agents |->
           IF a \in minted
           THEN [NoPolicy EXCEPT !.exists = TRUE, !.cap = cap] ELSE NoPolicy]]>>
    /\ ripe = {}
    /\ pool = <<>>
    /\ row = [a \in Agents |-> IF a \in minted THEN "walleted" ELSE "none"]
    /\ operatorActions = {}
    /\ cache = Unread
    /\ fresh = {}
    /\ support = "unknown"
    /\ pc = [c \in Calls |-> "idle"]
    /\ job = [c \in Calls |-> [kind |-> "list", agent |-> NoAgent, cap |-> 0]]
    /\ about = [c \in Calls |-> {}]
    /\ pinned = [c \in Calls |-> 0]
    /\ abi = [c \in Calls |-> "unknown"]
    /\ served = [c \in Calls |-> Unread]
    /\ code = [c \in Calls |-> "none"]
    /\ submitted = {}
    /\ hit = {}
    /\ faults = 0

-----------------------------------------------------------------------------
(* PolicyRegistry, as much of it as a read can tell apart *)

Height == Len(blocks)
Latest == blocks[Height]
Now(a) == Latest.of[a]

\* The day-aware figures of an agent in a block.
SpentIn(b, a) == IF b.of[a].day = b.day THEN b.of[a].spent ELSE 0
HeldIn(b, a) == IF b.of[a].day = b.day THEN b.of[a].held ELSE 0

Appends(a, p) ==
    /\ Height < MaxBlocks
    /\ blocks' = Append(blocks, [Latest EXCEPT !.of[a] = p])

\* The rollover at the head of reserve and recordSpend.
Rolled(a) ==
    [Now(a) EXCEPT !.spent = SpentIn(Latest, a), !.held = HeldIn(Latest, a),
                   !.day = Latest.day]

Enforced(p, cap) == [p EXCEPT !.exists = TRUE, !.cap = cap]
Applied(p) == [Enforced(p, p.scheduled) EXCEPT !.scheduled = 0, !.since = 0]
Scheduled(p, cap) ==
    [p EXCEPT !.scheduled = cap, !.since = Latest.day]

\* setPolicy: a raise of an existing cap is scheduled, anything else applied,
\* beside an increase that stays scheduled.
SetCap(p, cap) ==
    IF p.exists /\ cap > p.cap THEN Scheduled(p, cap) ELSE Enforced(p, cap)

IsDue(a) == Now(a).scheduled # 0 /\ a \in ripe

serverFrame == <<minted, dbVars, memoVars, pc, job, readVars, code, submitted,
                 hit, faults>>

\* The relayer's transactions are mined in the order of their nonces.
MineNext ==
    /\ pool # <<>>
    /\ pool' = Tail(pool)
    /\ LET t == Head(pool) IN
         \/ /\ t.kind \in {"set", "register"}
            /\ Appends(t.agent, SetCap(Now(t.agent), t.cap))
            /\ ripe' = IF Now(t.agent).exists /\ t.cap > Now(t.agent).cap
                       THEN ripe \ {t.agent} ELSE ripe
         \/ /\ t.kind = "apply" /\ IsDue(t.agent)
            /\ Appends(t.agent, Applied(Now(t.agent)))
            /\ ripe' = ripe \ {t.agent}
         \/ /\ t.kind = "allow" \/ (t.kind = "apply" /\ ~IsDue(t.agent))
            /\ UNCHANGED <<blocks, ripe>>
    /\ UNCHANGED serverFrame

\* A payment, an escalation's reservation, and its release.
Guard(a) ==
    /\ Now(a).exists
    /\ \/ /\ SpentIn(Latest, a) + 1 <= Now(a).cap
          /\ Appends(a, [Rolled(a) EXCEPT !.spent = @ + 1])
       \/ /\ SpentIn(Latest, a) + HeldIn(Latest, a) + 1 <= Now(a).cap
          /\ Appends(a, [Rolled(a) EXCEPT !.held = @ + 1])
       \/ /\ HeldIn(Latest, a) > 0
          /\ Appends(a, [Now(a) EXCEPT !.held = @ - 1])
    /\ UNCHANGED <<ripe, pool, serverFrame>>

\* Anyone may materialize a scheduled increase once its delay has elapsed.
AnyoneApplies(a) ==
    /\ IsDue(a)
    /\ Appends(a, Applied(Now(a)))
    /\ ripe' = ripe \ {a}
    /\ UNCHANGED <<pool, serverFrame>>

NewDay ==
    /\ Height < MaxBlocks
    /\ blocks' = Append(blocks, [Latest EXCEPT !.day = @ + 1])
    /\ UNCHANGED <<ripe, pool, serverFrame>>

\* CAP_CHANGE_DELAY is a day: midnight has passed.
Ripen(a) ==
    /\ Now(a).scheduled # 0 /\ a \notin ripe
    /\ Latest.day > Now(a).since
    /\ ripe' = ripe \union {a}
    /\ UNCHANGED <<blocks, pool, serverFrame>>

-----------------------------------------------------------------------------
(* The calls *)

Goes(c, to) == pc' = [pc EXCEPT ![c] = to]
Answers(c, status) == Goes(c, "done") /\ code' = [code EXCEPT ![c] = status]
Fault(c) == faults < MaxFaults /\ faults' = faults + 1 /\ hit' = hit \union {c}

FirstStep(j) ==
    CASE j.kind = "list" -> "rows"
      [] j.kind = "show" -> "block"
      [] j.kind = "set" -> IF j.cap = 0 THEN "submit" ELSE "block"
      [] j.kind = "allow" -> "submit"
      [] j.kind = "apply" -> "pending"
      [] OTHER -> "mint"

\* The zero/zero pause gesture is not compared with what was spent.
Post(c, j) ==
    /\ pc[c] = "idle"
    /\ job' = [job EXCEPT ![c] = j]
    /\ about' = [about EXCEPT ![c] = {j.agent} \ {NoAgent}]
    /\ pinned' = [pinned EXCEPT ![c] = Height]
    /\ Goes(c, FirstStep(j))
    /\ UNCHANGED <<chainVars, minted, dbVars, memoVars, abi, served, code,
                   submitted, hit, faults>>

readFrame == <<chainVars, minted, dbVars, job, submitted>>

\* GET /agents and readAgentPolicies find the rows.
FindAgents(c) ==
    /\ pc[c] = "rows"
    /\ about' = [about EXCEPT ![c] = {a \in Agents : row[a] # "none"}]
    /\ Goes(c, "block")
    /\ UNCHANGED <<readFrame, memoVars, pinned, abi, served, code, hit, faults>>

FindAgentsFails(c) ==
    /\ pc[c] \in {"rows", "pending"}
    /\ Fault(c)
    /\ Answers(c, IF pc[c] = "rows" THEN "500" ELSE "404")
    /\ UNCHANGED <<readFrame, memoVars, readVars>>

\* latestBlock pins the read; the probe is made until it is memoized.
ReadBlock(c) ==
    /\ pc[c] = "block"
    /\ pinned' = [pinned EXCEPT ![c] = Height]
    /\ abi' = [abi EXCEPT ![c] = support]
    /\ Goes(c, IF support = "unknown" THEN "probe" ELSE "call")
    /\ UNCHANGED <<readFrame, memoVars, about, served, code, hit, faults>>

\* supportsReservations: the deployed build has them, and a probe that fails
\* is remembered as a build that has not.
Probe(c) ==
    /\ pc[c] = "probe"
    /\ \/ support' = "current" /\ UNCHANGED <<hit, faults>>
       \/ support' = "legacy" /\ Fault(c)
    /\ abi' = [abi EXCEPT ![c] = support']
    /\ Goes(c, "call")
    /\ UNCHANGED <<readFrame, cache, fresh, about, pinned, served, code>>

\* Mutant of Left: what is overspent is taken for negative headroom.
LeftUnfloored(cap, spent, held) == cap - (spent + held)

\* remainingToday
Left(cap, spent, held) == IF cap > spent + held THEN cap - (spent + held) ELSE 0

\* Mutant of ReadsAt: the multicall is not pinned and answers for the newest.
ReadsAtLatest(n) == Height

\* The getters are called later than the header was read, for the same block.
ReadsAt(n) == n

\* The day of the header of block n, beside the policies of the getters.
ReadFrom(n) == [day |-> blocks[n].day, of |-> blocks[ReadsAt(n)].of]

\* toSnapshot, with the number of block n.
ToSnapshot(a, n, build) ==
    LET b == ReadFrom(n)
        held == IF build = "current" THEN HeldIn(b, a) ELSE 0
    IN  IF b.of[a].exists
        THEN [exists |-> TRUE, cap |-> b.of[a].cap, spent |-> SpentIn(b, a),
              left |-> Left(b.of[a].cap, SpentIn(b, a), held), block |-> n,
              abi |-> build]
        ELSE [Zeroed EXCEPT !.block = n, !.abi = build]

Snapshots(c) ==
    [a \in Agents |-> IF a \in about[c] THEN ToSnapshot(a, pinned[c], abi[c])
                      ELSE Zeroed]

\* Mutant of BelowSpent: the comparison with what was spent is dropped.
BelowSpentNever(cap, s) == FALSE

BelowSpent(cap, s) == s.exists /\ cap < s.spent

\* The list fills the cache; POST /policies refuses a cap already overspent.
ReadPolicies(c) ==
    /\ pc[c] = "call"
    /\ served' = [served EXCEPT ![c] = Snapshots(c)]
    /\ \/ /\ job[c].kind \in {"list", "show"}
          /\ Answers(c, "200")
       \/ /\ job[c].kind = "set"
          /\ IF BelowSpent(job[c].cap, Snapshots(c)[job[c].agent])
             THEN Answers(c, "422") ELSE Goes(c, "submit") /\ UNCHANGED code
    /\ IF job[c].kind = "list"
       THEN /\ cache' = [a \in Agents |-> IF a \in about[c]
                           THEN Snapshots(c)[a] ELSE cache[a]]
            /\ fresh' = fresh \union about[c]
       ELSE UNCHANGED <<cache, fresh>>
    /\ UNCHANGED <<readFrame, support, about, pinned, abi, hit, faults>>

\* The list falls back on the cache, then on zeros; the others fail closed.
ReadFails(c) ==
    /\ pc[c] \in {"block", "call"}
    /\ Fault(c)
    /\ IF job[c].kind = "list"
       THEN /\ served' = [served EXCEPT ![c] = [a \in Agents |->
                 IF a \in about[c] \intersect fresh THEN cache[a] ELSE Zeroed]]
            /\ Answers(c, "200")
       ELSE Answers(c, "503") /\ UNCHANGED served
    /\ UNCHANGED <<readFrame, memoVars, about, pinned, abi>>

\* POST /policies/apply-pending reads the schedule; a read that fails answers
\* as no schedule does.
ReadPending(c) ==
    /\ pc[c] = "pending"
    /\ LET a == job[c].agent IN
         \/ Now(a).scheduled = 0 /\ Answers(c, "404")
         \/ Now(a).scheduled # 0 /\ a \notin ripe /\ Answers(c, "400")
         \/ IsDue(a) /\ Goes(c, "submit") /\ UNCHANGED code
    /\ UNCHANGED <<readFrame, memoVars, readVars, hit, faults>>

\* createAgentWallet: each attempt makes a wallet, whose address is new.
MintWallet(c) ==
    /\ pc[c] = "mint"
    /\ \E a \in Agents \ minted :
         /\ minted' = minted \union {a}
         /\ \/ /\ job' = [job EXCEPT ![c].agent = a]
               /\ Goes(c, "submit")
               /\ UNCHANGED <<code, hit, faults>>
            \/ Fault(c) /\ Answers(c, "502") /\ UNCHANGED job
    /\ UNCHANGED <<chainVars, dbVars, memoVars, readVars, submitted>>

\* viem estimates a transaction on the latest block before it is sent.
Estimates(j) == j.kind = "apply" => IsDue(j.agent)

Sends(c) ==
    /\ pool' = Append(pool, [call |-> c, kind |-> job[c].kind,
                             agent |-> job[c].agent, cap |-> job[c].cap])
    /\ submitted' = submitted \union {c}

\* submitAsAdmin
Submit(c) ==
    /\ pc[c] = "submit"
    /\ Estimates(job[c])
    /\ Sends(c)
    /\ Goes(c, IF job[c].kind = "register" THEN "row" ELSE "record")
    /\ UNCHANGED <<blocks, ripe, minted, dbVars, memoVars, job, readVars, code,
                   hit, faults>>

\* Refused, or its answer lost: then the transaction may be in the pool.
SubmitFails(c) ==
    /\ pc[c] = "submit"
    /\ \/ /\ ~Estimates(job[c])
          /\ UNCHANGED <<pool, submitted, hit, faults>>
       \/ /\ Fault(c)
          /\ \/ UNCHANGED <<pool, submitted>>
             \/ Estimates(job[c]) /\ Sends(c)
    /\ Answers(c, IF job[c].kind = "register" THEN "502" ELSE "503")
    /\ UNCHANGED <<blocks, ripe, minted, dbVars, memoVars, job, readVars>>

writeFrame == <<chainVars, minted, job, readVars, submitted>>

\* Mutant of MayCreate: the row the watcher inserted is taken for the route's.
MayCreateAnyway(a) == TRUE

MayCreate(a) == row[a] = "none"

\* agents.address is the key: the route creates the row, with its wallet.
CreateRow(c) ==
    /\ pc[c] = "row"
    /\ LET a == job[c].agent IN
         /\ MayCreate(a)
         /\ row' = [row EXCEPT ![a] = IF @ = "none" THEN "walleted" ELSE @]
    /\ Goes(c, "record")
    /\ UNCHANGED <<writeFrame, operatorActions, memoVars, code, hit, faults>>

\* PolicySet's watcher was first (P2002), or the statement is refused.
CreateRowFails(c) ==
    /\ pc[c] = "row"
    /\ \/ ~MayCreate(job[c].agent) /\ UNCHANGED <<hit, faults>>
       \/ Fault(c)
    /\ Answers(c, "500")
    /\ UNCHANGED <<writeFrame, dbVars, memoVars>>

\* Mutant of Signs: the action is recorded of changes that were mined.
SignsIfMined(c) ==
    IF \E i \in DOMAIN pool : pool[i].call = c THEN {} ELSE {c}

Signs(c) == {c}

\* The operator's action, then evictPolicyCache.
Record(c) ==
    /\ pc[c] = "record"
    /\ operatorActions' = operatorActions \union Signs(c)
    /\ Answers(c, IF job[c].kind = "register" THEN "201" ELSE "200")
    /\ LET gone == IF job[c].kind \in {"set", "apply"} THEN {job[c].agent}
                   ELSE {}
       IN  /\ cache' = [a \in Agents |-> IF a \in gone THEN Zeroed ELSE cache[a]]
           /\ fresh' = fresh \ gone
    /\ UNCHANGED <<writeFrame, row, support, hit, faults>>

RecordFails(c) ==
    /\ pc[c] = "record"
    /\ Fault(c)
    /\ Answers(c, "500")
    /\ UNCHANGED <<writeFrame, dbVars, memoVars>>

-----------------------------------------------------------------------------
(* Beside the calls *)

\* PolicySet's watcher inserts the row of an address it does not find.
WatchPolicySet(a) ==
    /\ Now(a).exists /\ row[a] = "none"
    /\ row' = [row EXCEPT ![a] = "bare"]
    /\ UNCHANGED <<chainVars, minted, operatorActions, memoVars, pc, job,
                   readVars, code, submitted, hit, faults>>

\* CACHE_TTL_MS
CacheExpires(a) ==
    /\ a \in fresh
    /\ fresh' = fresh \ {a}
    /\ UNCHANGED <<chainVars, minted, dbVars, cache, support, pc, job, readVars,
                   code, submitted, hit, faults>>

InFlight == {c \in Calls : pc[c] \notin {"idle", "done"}}

Restart ==
    /\ faults < MaxFaults /\ faults' = faults + 1
    /\ pc' = [c \in Calls |-> IF c \in InFlight THEN "done" ELSE pc[c]]
    /\ hit' = hit \union InFlight
    /\ cache' = Unread
    /\ fresh' = {}
    /\ support' = "unknown"
    /\ UNCHANGED <<chainVars, minted, dbVars, job, readVars, code, submitted>>

Requests ==
    {j \in [kind : Kinds, agent : minted \union {NoAgent}, cap : Caps] :
       /\ (j.agent = NoAgent) = (j.kind \in {"list", "register"})
       /\ j.cap # 0 => j.kind \in {"set", "register"}}

CallStep(c) ==
    \/ \E j \in Requests : Post(c, j)
    \/ FindAgents(c) \/ FindAgentsFails(c) \/ ReadBlock(c) \/ Probe(c)
    \/ ReadPolicies(c) \/ ReadFails(c) \/ ReadPending(c) \/ MintWallet(c)
    \/ Submit(c) \/ SubmitFails(c) \/ CreateRow(c) \/ CreateRowFails(c)
    \/ Record(c) \/ RecordFails(c)

Next ==
    \/ MineNext
    \/ NewDay
    \/ \E a \in Agents :
         Guard(a) \/ AnyoneApplies(a) \/ Ripen(a) \/ WatchPolicySet(a)
         \/ CacheExpires(a)
    \/ \E c \in Calls : CallStep(c)
    \/ Restart

Spec == Init /\ [][Next]_vars
=============================================================================
