---------------------- MODULE AgentAdministrationProofs ----------------------
(***************************************************************************)
(* What the agent and policy routes promise, proved for any number of      *)
(* agents, calls, caps, blocks and faults.                                 *)
(***************************************************************************)
EXTENDS AgentAdministrationProperties, SequenceTheorems, TLAPS

-----------------------------------------------------------------------------
(* The chain *)

Block == [day : Nat, of : [Agents -> Policy]]

\* A block is added at the end: the earlier ones stay what they were.
LEMMA OneMoreBlock ==
  ASSUME blocks \in Seq(Block), NEW x \in Block, blocks' = Append(blocks, x)
  PROVE  /\ blocks' \in Seq(Block) /\ Height \in Nat /\ Height' = Height + 1
         /\ Latest' = x /\ blocks'[Height'] = x
         /\ \A n \in 1..Height : blocks'[n] = blocks[n]
BY DEF Height, Latest

LEMMA LatestTyped ==
  ASSUME blocks \in Seq(Block), blocks # <<>>
  PROVE  /\ Height \in Nat \ {0} /\ Latest \in Block /\ Latest = blocks[Height]
         /\ \A n \in 1..Height : blocks[n] \in Block
         /\ \A a \in Agents : Now(a) = Latest.of[a] /\ Now(a) \in Policy
<1>1. Height \in Nat \ {0} /\ \A n \in 1..Height : blocks[n] \in Block
  BY ElementOfSeq, EmptySeq DEF Height
<1>2. Latest \in Block
  BY <1>1 DEF Latest
<1>. QED BY <1>1, <1>2 DEF Latest, Now, Block

\* The figures of a block are numbers, and zero when the day has passed.
LEMMA FiguresTyped ==
  ASSUME NEW b \in Block, NEW a \in Agents
  PROVE  SpentIn(b, a) \in Nat /\ HeldIn(b, a) \in Nat
BY DEF SpentIn, HeldIn, Block, Policy

\* What a transaction makes of a policy is a policy.
LEMMA PoliciesTyped ==
  ASSUME blocks \in Seq(Block), blocks # <<>>, NEW a \in Agents,
         NEW cap \in Nat
  PROVE  /\ SetCap(Now(a), cap) \in Policy
         /\ Applied(Now(a)) \in Policy
         /\ Rolled(a) \in Policy
         /\ [Rolled(a) EXCEPT !.spent = @ + 1] \in Policy
         /\ [Rolled(a) EXCEPT !.held = @ + 1] \in Policy
         /\ HeldIn(Latest, a) > 0 => [Now(a) EXCEPT !.held = @ - 1] \in Policy
<1>1. Now(a) \in Policy /\ Latest \in Block
  BY LatestTyped
<1>2. SpentIn(Latest, a) \in Nat /\ HeldIn(Latest, a) \in Nat /\ Latest.day \in Nat
  BY <1>1, FiguresTyped DEF Block
<1>3. SetCap(Now(a), cap) \in Policy
  BY <1>1, <1>2 DEF SetCap, Scheduled, Enforced, Policy
<1>4. Applied(Now(a)) \in Policy
  BY <1>1 DEF Applied, Enforced, Policy
<1>5. Rolled(a) \in Policy
  BY <1>1, <1>2 DEF Rolled, Policy
<1>6. /\ [Rolled(a) EXCEPT !.spent = @ + 1] \in Policy
      /\ [Rolled(a) EXCEPT !.held = @ + 1] \in Policy
  BY <1>5 DEF Policy
<1>7. HeldIn(Latest, a) > 0 => [Now(a) EXCEPT !.held = @ - 1] \in Policy
  <2>. SUFFICES ASSUME HeldIn(Latest, a) > 0
                PROVE  [Now(a) EXCEPT !.held = @ - 1] \in Policy
    OBVIOUS
  <2>1. Now(a).held \in Nat /\ Now(a).held > 0
    BY <1>1 DEF HeldIn, Now, Policy
  <2>. QED BY <1>1, <2>1 DEF Policy
<1>. QED BY <1>3, <1>4, <1>5, <1>6, <1>7

\* A new block with one policy changed.
LEMMA AppendsBlock ==
  ASSUME blocks \in Seq(Block), blocks # <<>>, NEW a \in Agents,
         NEW p \in Policy, Appends(a, p)
  PROVE  /\ blocks' \in Seq(Block) /\ blocks' # <<>>
         /\ Height' = Height + 1 /\ Latest'.day = Latest.day
         /\ \A n \in 1..Height : blocks'[n] = blocks[n]
         /\ \A x \in Agents : Now(x)' = IF x = a THEN p ELSE Now(x)
         /\ Latest' \in Block /\ blocks'[Height'] = Latest'
<1>. DEFINE y == [Latest EXCEPT !.of[a] = p]
<1>1. Latest \in Block
  BY LatestTyped
<1>2. y \in Block /\ y.day = Latest.day
      /\ \A x \in Agents : y.of[x] = IF x = a THEN p ELSE Latest.of[x]
  BY <1>1 DEF Block
<1>3. blocks' = Append(blocks, y)
  BY DEF Appends
<1>. HIDE DEF y
<1>4. /\ blocks' \in Seq(Block) /\ Height \in Nat /\ Height' = Height + 1
      /\ Latest' = y /\ blocks'[Height'] = y
      /\ \A n \in 1..Height : blocks'[n] = blocks[n]
  BY <1>2, <1>3, OneMoreBlock
<1>5. blocks' # <<>>
  BY <1>4 DEF Height
<1>6. \A x \in Agents : Now(x)' = y.of[x] /\ Now(x) = Latest.of[x]
  BY <1>4 DEF Now
<1>. QED BY <1>1, <1>2, <1>4, <1>5, <1>6

LEMMA NewDayBlock ==
  ASSUME blocks \in Seq(Block), blocks # <<>>, NewDay
  PROVE  /\ blocks' \in Seq(Block) /\ blocks' # <<>>
         /\ Height' = Height + 1 /\ Latest'.day = Latest.day + 1
         /\ \A n \in 1..Height : blocks'[n] = blocks[n]
         /\ \A x \in Agents : Now(x)' = Now(x)
         /\ Latest' \in Block /\ blocks'[Height'] = Latest'
<1>. DEFINE y == [Latest EXCEPT !.day = @ + 1]
<1>1. Latest \in Block
  BY LatestTyped
<1>2. y \in Block /\ y.day = Latest.day + 1 /\ y.of = Latest.of
  BY <1>1 DEF Block
<1>3. blocks' = Append(blocks, y)
  BY DEF NewDay
<1>. HIDE DEF y
<1>4. /\ blocks' \in Seq(Block) /\ Height \in Nat /\ Height' = Height + 1
      /\ Latest' = y /\ blocks'[Height'] = y
      /\ \A n \in 1..Height : blocks'[n] = blocks[n]
  BY <1>2, <1>3, OneMoreBlock
<1>5. blocks' # <<>>
  BY <1>4 DEF Height
<1>6. \A x \in Agents : Now(x)' = Now(x)
  BY <1>2, <1>4 DEF Now
<1>. QED BY <1>2, <1>4, <1>5, <1>6

-----------------------------------------------------------------------------
(* Types *)

ChainTyped ==
    /\ blocks \in Seq(Block) /\ blocks # <<>>
    /\ ripe \subseteq Agents /\ pool \in Seq(Tx)
MemoTyped ==
    /\ minted \subseteq Agents
    /\ row \in [Agents -> {"none", "bare", "walleted"}]
    /\ operatorActions \subseteq Calls
    /\ cache \in [Agents -> Snapshot] /\ fresh \subseteq Agents
    /\ support \in {"unknown", "legacy", "current"}
CallsTyped ==
    /\ pc \in [Calls -> Steps] /\ job \in [Calls -> Job]
    /\ about \in [Calls -> SUBSET Agents]
    /\ pinned \in [Calls -> 0..Height]
    /\ abi \in [Calls -> {"unknown", "legacy", "current"}]
    /\ served \in [Calls -> [Agents -> Snapshot]]
    /\ code \in [Calls -> Codes]
    /\ submitted \subseteq Calls /\ hit \subseteq Calls

LEMMA TypeParts ==
  /\ TypeOK <=> ChainTyped /\ MemoTyped /\ CallsTyped
  /\ TypeOK' <=> ChainTyped' /\ MemoTyped' /\ CallsTyped'
BY DEF TypeOK, ChainTyped, MemoTyped, CallsTyped, Block, Height

\* Which calls are at which step, and what they have by then.
CallFits(c) ==
    /\ pc[c] = "rows" => job[c].kind = "list"
    /\ pc[c] \in {"block", "probe", "call"} => job[c].kind \in {"list", "show", "set"}
    /\ pc[c] = "pending" => job[c].kind = "apply"
    /\ pc[c] \in {"mint", "row"} => job[c].kind = "register"
    /\ pc[c] \in {"submit", "record"} =>
         job[c].kind \in {"set", "allow", "apply", "register"}
    /\ pc[c] = "call" => abi[c] # "unknown"
    /\ pc[c] # "idle" => pinned[c] \in 1..Height
    /\ code[c] # "none" => pc[c] = "done"
    /\ c \in submitted => pc[c] \in {"row", "record", "done"}

\* Whom they are about.
CallMeans(c) ==
    /\ pc[c] # "idle" /\ job[c].kind \in {"show", "set", "allow", "apply"} =>
         job[c].agent \in minted /\ about[c] = {job[c].agent}
    /\ pc[c] \in {"submit", "row", "record"} \/ c \in submitted =>
         job[c].agent \in minted

Inv ==
    /\ TypeOK
    /\ \A c \in Calls : CallFits(c) /\ CallMeans(c)
    /\ \A i \in DOMAIN pool : pool[i].agent \in minted

LEMMA NoSnapshot == Zeroed \in Snapshot /\ Unread \in [Agents -> Snapshot]
BY DEF Zeroed, Snapshot, Unread

LEMMA InitInv == Init => Inv
<1>. SUFFICES ASSUME Init PROVE Inv
  OBVIOUS
<1>0. minted \subseteq Agents /\ pool = <<>> /\ Caps \subseteq Nat
  BY AdministrationAssumption DEF Init
<1>1. PICK cap \in Caps :
        blocks = <<[day |-> 1, of |-> [a \in Agents |->
           IF a \in minted
           THEN [NoPolicy EXCEPT !.exists = TRUE, !.cap = cap] ELSE NoPolicy]]>>
  BY DEF Init
<1>2. \A a \in Agents :
        (IF a \in minted THEN [NoPolicy EXCEPT !.exists = TRUE, !.cap = cap]
         ELSE NoPolicy) \in Policy
  BY <1>0, <1>1 DEF NoPolicy, Policy
<1>3. blocks \in Seq(Block) /\ Height = 1
  BY <1>1, <1>2 DEF Block, Height
<1>4. ChainTyped
  BY <1>0, <1>3 DEF Init, ChainTyped, Height
<1>5. MemoTyped
  BY <1>0, NoSnapshot DEF Init, MemoTyped
<1>6. CallsTyped
  BY <1>3, NoSnapshot DEF Init, CallsTyped, Steps, Job, Kinds, Codes
<1>7. \A c \in Calls : CallFits(c) /\ CallMeans(c)
  BY DEF Init, CallFits, CallMeans
<1>. QED BY <1>0, <1>4, <1>5, <1>6, <1>7, TypeParts DEF Inv

\* A transaction of the chain's own: the server's side stays, the chain grows.
LEMMA ChainStepInv ==
  ASSUME Inv, ChainTyped', UNCHANGED serverFrame, Height' \in Nat,
         Height <= Height',
         pool' = pool \/ (pool # <<>> /\ pool' = Tail(pool))
  PROVE  Inv'
<1>0. ChainTyped /\ MemoTyped /\ CallsTyped /\ Height \in Nat
  BY TypeParts, LatestTyped DEF Inv, ChainTyped
<1>1. MemoTyped' /\ CallsTyped'
  BY <1>0 DEF MemoTyped, CallsTyped, serverFrame, dbVars, memoVars, readVars
<1>2. \A c \in Calls : CallFits(c)' /\ CallMeans(c)'
  BY <1>0 DEF Inv, CallFits, CallMeans, serverFrame, readVars
<1>3. \A i \in DOMAIN pool' : pool'[i].agent \in minted'
  <2>1. CASE pool' = pool
    BY <2>1 DEF Inv, serverFrame
  <2>2. CASE pool # <<>> /\ pool' = Tail(pool)
    <3>1. \A i \in DOMAIN pool' : i + 1 \in DOMAIN pool /\ pool'[i] = pool[i + 1]
      BY <1>0, <2>2, HeadTailProperties, LenProperties DEF ChainTyped
    <3>. QED BY <3>1 DEF Inv, serverFrame
  <2>. QED BY <2>1, <2>2
<1>. QED BY <1>1, <1>2, <1>3, TypeParts DEF Inv

\* The steps of the chain.
LEMMA ChainActionsInv ==
  ASSUME Inv, \/ MineNext \/ NewDay
              \/ \E a \in Agents : Guard(a) \/ AnyoneApplies(a) \/ Ripen(a)
  PROVE  Inv'
<1>0. ChainTyped /\ blocks \in Seq(Block) /\ blocks # <<>> /\ Height \in Nat
  BY TypeParts, LatestTyped DEF Inv, ChainTyped
<1>1. ASSUME NEW a \in Agents, NEW p \in Policy, Appends(a, p),
             ripe' \subseteq Agents, pool' \in Seq(Tx)
      PROVE  ChainTyped' /\ Height' \in Nat /\ Height <= Height'
  <2>1. blocks' \in Seq(Block) /\ blocks' # <<>> /\ Height' = Height + 1
    BY <1>0, <1>1, AppendsBlock
  <2>. QED BY <1>0, <1>1, <2>1 DEF ChainTyped
<1>2. ASSUME UNCHANGED blocks, ripe' \subseteq Agents, pool' \in Seq(Tx)
      PROVE  ChainTyped' /\ Height' \in Nat /\ Height <= Height'
  BY <1>0, <1>2 DEF ChainTyped, Height
<1>3. CASE MineNext
  <2>. DEFINE t == Head(pool)
  <2>1. /\ pool # <<>> /\ pool' = Tail(pool) /\ pool' \in Seq(Tx) /\ t \in Tx
        /\ UNCHANGED serverFrame
    BY <1>0, <1>3, HeadTailProperties DEF MineNext, ChainTyped
  <2>2. t.agent \in Agents /\ t.cap \in Nat
    BY <2>1 DEF Tx
  <2>3. SetCap(Now(t.agent), t.cap) \in Policy /\ Applied(Now(t.agent)) \in Policy
    BY <1>0, <2>2, PoliciesTyped
  <2>4. ripe' \subseteq Agents
    BY <1>0, <1>3 DEF MineNext, ChainTyped
  <2>5. \/ Appends(t.agent, SetCap(Now(t.agent), t.cap))
        \/ Appends(t.agent, Applied(Now(t.agent)))
        \/ UNCHANGED blocks
    BY <1>3 DEF MineNext
  <2>6. ChainTyped' /\ Height' \in Nat /\ Height <= Height'
    BY <1>1, <1>2, <2>1, <2>2, <2>3, <2>4, <2>5
  <2>. QED BY <2>1, <2>6, ChainStepInv
<1>4. CASE NewDay
  <2>1. blocks' \in Seq(Block) /\ blocks' # <<>> /\ Height' = Height + 1
    BY <1>0, <1>4, NewDayBlock
  <2>2. ChainTyped' /\ Height' \in Nat /\ Height <= Height'
    BY <1>0, <1>4, <2>1 DEF NewDay, ChainTyped
  <2>. QED BY <1>4, <2>2, ChainStepInv DEF NewDay
<1>5. ASSUME NEW a \in Agents, Guard(a) \/ AnyoneApplies(a)
      PROVE  Inv'
  <2>1. /\ Applied(Now(a)) \in Policy
        /\ [Rolled(a) EXCEPT !.spent = @ + 1] \in Policy
        /\ [Rolled(a) EXCEPT !.held = @ + 1] \in Policy
        /\ HeldIn(Latest, a) > 0 => [Now(a) EXCEPT !.held = @ - 1] \in Policy
    BY <1>0, 0 \in Nat, PoliciesTyped
  <2>2. \E p \in Policy : Appends(a, p)
    BY <1>5, <2>1 DEF Guard, AnyoneApplies
  <2>3. /\ UNCHANGED <<pool, serverFrame>> /\ ripe' \subseteq Agents
        /\ pool' \in Seq(Tx)
    BY <1>0, <1>5 DEF Guard, AnyoneApplies, ChainTyped
  <2>. QED BY <1>1, <2>2, <2>3, ChainStepInv
<1>6. ASSUME NEW a \in Agents, Ripen(a)
      PROVE  Inv'
  <2>1. /\ UNCHANGED <<blocks, pool, serverFrame>> /\ ripe' \subseteq Agents
        /\ pool' \in Seq(Tx)
    BY <1>0, <1>6 DEF Ripen, ChainTyped
  <2>. QED BY <1>2, <2>1, ChainStepInv
<1>. QED BY <1>3, <1>4, <1>5, <1>6

\* The watcher, the cache's clock and a restart.
LEMMA BesideInv ==
  ASSUME Inv, \/ Restart
              \/ \E a \in Agents : WatchPolicySet(a) \/ CacheExpires(a)
  PROVE  Inv'
<1>0. ChainTyped /\ MemoTyped /\ CallsTyped
  BY TypeParts DEF Inv
<1>1. CASE \E a \in Agents : WatchPolicySet(a) \/ CacheExpires(a)
  <2>1. /\ UNCHANGED <<chainVars, minted, pc, job, readVars, code, submitted, hit>>
        /\ MemoTyped'
    <3>. DEFINE Keeps ==
           /\ UNCHANGED <<chainVars, minted, pc, job, readVars, code, submitted,
                          hit>>
           /\ MemoTyped'
    <3>1. ASSUME NEW a \in Agents, WatchPolicySet(a) PROVE Keeps
      BY <1>0, <3>1 DEF WatchPolicySet, MemoTyped, memoVars
    <3>2. ASSUME NEW a \in Agents, CacheExpires(a) PROVE Keeps
      BY <1>0, <3>2 DEF CacheExpires, MemoTyped, dbVars
    <3>. QED BY <1>1, <3>1, <3>2
  <2>2. ChainTyped' /\ CallsTyped' /\ Height' = Height
    BY <1>0, <2>1 DEF ChainTyped, CallsTyped, chainVars, readVars, Height
  <2>3. \A c \in Calls : CallFits(c)' /\ CallMeans(c)'
    BY <2>1, <2>2 DEF Inv, CallFits, CallMeans, readVars
  <2>4. \A i \in DOMAIN pool' : pool'[i].agent \in minted'
    BY <2>1 DEF Inv, chainVars
  <2>. QED BY <2>1, <2>2, <2>3, <2>4, TypeParts DEF Inv
<1>2. CASE Restart
  <2>1. MemoTyped'
    BY <1>0, <1>2, NoSnapshot DEF Restart, MemoTyped, dbVars
  <2>2. ChainTyped' /\ CallsTyped' /\ Height' = Height
    BY <1>0, <1>2
       DEF Restart, ChainTyped, CallsTyped, chainVars, readVars, Height,
           InFlight, Steps
  <2>3. \A c \in Calls : (pc'[c] = "done" /\ pc[c] # "idle") \/ pc'[c] = pc[c]
    BY <1>0, <1>2 DEF Restart, InFlight, CallsTyped
  <2>4. ASSUME NEW c \in Calls
        PROVE  CallFits(c)' /\ CallMeans(c)'
    <3>1. /\ CallFits(c) /\ CallMeans(c)
          /\ UNCHANGED <<minted, job, about, pinned, abi, code, submitted>>
      BY <1>2 DEF Restart, Inv, readVars
    <3>2. CASE pc'[c] = pc[c]
      BY <2>2, <3>1, <3>2 DEF CallFits, CallMeans
    <3>3. CASE pc'[c] = "done" /\ pc[c] # "idle"
      BY <2>2, <3>1, <3>3 DEF CallFits, CallMeans
    <3>. QED BY <2>3, <3>2, <3>3
  <2>5. \A i \in DOMAIN pool' : pool'[i].agent \in minted'
    BY <1>2 DEF Restart, Inv, chainVars
  <2>. QED BY <2>1, <2>2, <2>4, <2>5, TypeParts DEF Inv
<1>. QED BY <1>1, <1>2

-----------------------------------------------------------------------------
(* The calls *)

\* What a call's step changes of the calls is its own.
CallsBut(c) ==
    \A d \in Calls \ {c} :
        /\ pc'[d] = pc[d] /\ job'[d] = job[d] /\ about'[d] = about[d]
        /\ pinned'[d] = pinned[d] /\ abi'[d] = abi[d]
        /\ served'[d] = served[d] /\ code'[d] = code[d]
        /\ (d \in submitted' <=> d \in submitted)
        /\ (d \in hit' <=> d \in hit)

LEMMA CallStepInv ==
  ASSUME Inv, NEW c \in Calls, MemoTyped', CallsTyped',
         UNCHANGED <<blocks, ripe>>, minted \subseteq minted',
         pool' = pool \/ (\E t \in Tx : pool' = Append(pool, t) /\ t.agent \in minted),
         CallsBut(c), CallFits(c)', CallMeans(c)'
  PROVE  Inv'
<1>0. ChainTyped /\ MemoTyped /\ CallsTyped
  BY TypeParts DEF Inv
<1>1. ChainTyped' /\ Height' = Height
  BY <1>0 DEF ChainTyped, Height
<1>2. \A d \in Calls : CallFits(d)' /\ CallMeans(d)'
  BY <1>1 DEF Inv, CallsBut, CallFits, CallMeans
<1>3. \A i \in DOMAIN pool' : pool'[i].agent \in minted'
  <2>1. CASE pool' = pool
    BY <2>1 DEF Inv
  <2>2. ASSUME NEW t \in Tx, pool' = Append(pool, t), t.agent \in minted
        PROVE  \A i \in DOMAIN pool' : pool'[i].agent \in minted'
    <3>1. \A i \in DOMAIN pool' : \/ i \in DOMAIN pool /\ pool'[i] = pool[i]
                                 \/ pool'[i] = t
      BY <1>0, <2>2 DEF ChainTyped
    <3>. QED BY <2>2, <3>1 DEF Inv
  <2>. QED BY <2>1, <2>2
<1>. QED BY <1>1, <1>2, <1>3, TypeParts DEF Inv

\* A call that only answers, whatever else it lost on the way.
LEMMA CallEnds ==
  ASSUME Inv, NEW c \in Calls, NEW status \in Codes, Answers(c, status),
         pc[c] # "idle", MemoTyped', UNCHANGED <<minted, job, about, pinned, abi>>,
         served' \in [Calls -> [Agents -> Snapshot]],
         \A d \in Calls \ {c} : served'[d] = served[d],
         submitted' = submitted \/ (submitted' = submitted \union {c}
                                    /\ pc[c] = "submit"),
         hit' = hit \/ hit' = hit \union {c},
         UNCHANGED <<blocks, ripe>>,
         pool' = pool \/ (\E t \in Tx : pool' = Append(pool, t) /\ t.agent \in minted)
  PROVE  Inv'
<1>0. ChainTyped /\ MemoTyped /\ CallsTyped /\ CallFits(c) /\ CallMeans(c)
  BY TypeParts DEF Inv
<1>1. pc'[c] = "done" /\ code'[c] = status
      /\ \A d \in Calls \ {c} : pc'[d] = pc[d] /\ code'[d] = code[d]
  BY <1>0 DEF Answers, Goes, CallsTyped
<1>2. CallsTyped' /\ Height' = Height
  BY <1>0 DEF Answers, Goes, CallsTyped, Steps, Height
<1>3. CallsBut(c)
  BY <1>1 DEF CallsBut
<1>4. CallFits(c)' /\ CallMeans(c)'
  BY <1>0, <1>1, <1>2 DEF CallFits, CallMeans
<1>. QED BY <1>2, <1>3, <1>4, CallStepInv

LEMMA PostInv ==
  ASSUME Inv, NEW c \in Calls, NEW j \in Requests, Post(c, j)
  PROVE  Inv'
<1>0. ChainTyped /\ MemoTyped /\ CallsTyped /\ CallFits(c) /\ Height \in Nat \ {0}
  BY TypeParts, LatestTyped DEF Inv, ChainTyped
<1>1. /\ j \in Job /\ j.kind \in Kinds /\ j.agent \in minted \union {NoAgent}
      /\ (j.kind \in {"show", "set", "allow", "apply"} =>
           j.agent \in minted /\ j.agent # NoAgent)
  BY <1>0, AdministrationAssumption DEF Requests, Job, MemoTyped, Kinds
<1>2. FirstStep(j) \in Steps
  BY DEF FirstStep, Steps
<1>3. MemoTyped' /\ CallsTyped' /\ Height' = Height
  BY <1>0, <1>1, <1>2
     DEF Post, Goes, CallsTyped, MemoTyped, chainVars, dbVars, memoVars, Height
<1>4. CallsBut(c)
  BY <1>0 DEF Post, Goes, CallsBut, CallsTyped
<1>5. /\ pc'[c] = FirstStep(j) /\ job'[c] = j /\ about'[c] = {j.agent} \ {NoAgent}
      /\ pinned'[c] = Height /\ code'[c] = code[c] /\ c \notin submitted'
      /\ code[c] = "none" /\ UNCHANGED minted
  BY <1>0 DEF Post, Goes, CallsTyped, CallFits
<1>6. CallFits(c)' /\ CallMeans(c)'
  BY <1>0, <1>1, <1>3, <1>5 DEF CallFits, CallMeans, FirstStep, Kinds
<1>. QED BY <1>3, <1>4, <1>6, CallStepInv DEF Post, chainVars

\* Steps that read, and change of the calls only c's own place.
LEMMA ReadingInv ==
  ASSUME Inv, NEW c \in Calls,
         \/ FindAgents(c) \/ FindAgentsFails(c) \/ ReadBlock(c) \/ Probe(c)
         \/ ReadPending(c)
  PROVE  Inv'
<1>0. ChainTyped /\ MemoTyped /\ CallsTyped /\ CallFits(c) /\ CallMeans(c)
      /\ Height \in Nat \ {0}
  BY TypeParts, LatestTyped DEF Inv, ChainTyped
<1>1. CASE FindAgents(c)
  <2>1. MemoTyped' /\ CallsTyped' /\ CallsBut(c) /\ Height' = Height
    BY <1>0, <1>1 DEF FindAgents, Goes, CallsTyped, MemoTyped, CallsBut,
         readFrame, chainVars, dbVars, memoVars, Steps, Height
  <2>2. CallFits(c)' /\ CallMeans(c)'
    BY <1>0, <1>1, <2>1 DEF FindAgents, Goes, CallsTyped, CallFits, CallMeans,
         readFrame, chainVars
  <2>. QED BY <1>1, <2>1, <2>2, CallStepInv DEF FindAgents, readFrame, chainVars
<1>2. CASE FindAgentsFails(c)
  <2>1. PICK status \in Codes : Answers(c, status)
    BY <1>2 DEF FindAgentsFails, Codes
  <2>2. MemoTyped'
    BY <1>0, <1>2 DEF FindAgentsFails, MemoTyped, readFrame, dbVars, memoVars
  <2>. QED BY <1>0, <1>2, <2>1, <2>2, CallEnds DEF FindAgentsFails, Fault,
              readFrame, readVars, chainVars, CallsTyped
<1>3. CASE ReadBlock(c)
  <2>1. MemoTyped' /\ CallsTyped' /\ CallsBut(c) /\ Height' = Height
    BY <1>0, <1>3 DEF ReadBlock, Goes, CallsTyped, MemoTyped, CallsBut,
         readFrame, chainVars, dbVars, memoVars, Steps, Height
  <2>2. /\ pc'[c] = IF support = "unknown" THEN "probe" ELSE "call"
        /\ pinned'[c] = Height /\ abi'[c] = support /\ pc[c] = "block"
        /\ UNCHANGED <<job, about, minted, code, submitted>>
    BY <1>0, <1>3 DEF ReadBlock, Goes, CallsTyped, readFrame
  <2>3. CallFits(c)' /\ CallMeans(c)'
    BY <1>0, <2>1, <2>2 DEF CallFits, CallMeans
  <2>. QED BY <1>3, <2>1, <2>3, CallStepInv DEF ReadBlock, readFrame, chainVars
<1>4. CASE Probe(c)
  <2>1. MemoTyped' /\ CallsTyped' /\ CallsBut(c) /\ Height' = Height
    BY <1>0, <1>4 DEF Probe, Fault, Goes, CallsTyped, MemoTyped, CallsBut,
         readFrame, chainVars, dbVars, memoVars, Steps, Height
  <2>2. /\ pc'[c] = "call" /\ abi'[c] # "unknown" /\ pc[c] = "probe"
        /\ UNCHANGED <<job, about, minted, code, submitted, pinned>>
    BY <1>0, <1>4 DEF Probe, Goes, CallsTyped, readFrame
  <2>3. CallFits(c)' /\ CallMeans(c)'
    BY <1>0, <2>1, <2>2 DEF CallFits, CallMeans
  <2>. QED BY <1>4, <2>1, <2>3, CallStepInv DEF Probe, readFrame, chainVars
<1>5. CASE ReadPending(c)
  <2>1. MemoTyped'
    BY <1>0, <1>5 DEF ReadPending, MemoTyped, readFrame, dbVars, memoVars
  <2>2. CASE \E status \in Codes : Answers(c, status)
    BY <1>0, <1>5, <2>1, <2>2, CallEnds
       DEF ReadPending, readFrame, readVars, chainVars, CallsTyped
  <2>3. CASE Goes(c, "submit") /\ UNCHANGED code
    <3>1. CallsTyped' /\ CallsBut(c) /\ Height' = Height
      BY <1>0, <1>5, <2>3 DEF ReadPending, Goes, CallsTyped, CallsBut,
           readFrame, readVars, chainVars, Steps, Height
    <3>2. /\ pc'[c] = "submit" /\ pc[c] = "pending"
          /\ UNCHANGED <<job, about, minted, code, submitted, pinned, abi>>
      BY <1>0, <1>5, <2>3 DEF ReadPending, Goes, CallsTyped, readFrame, readVars
    <3>3. CallFits(c)' /\ CallMeans(c)'
      BY <1>0, <3>1, <3>2 DEF CallFits, CallMeans
    <3>. QED BY <1>5, <2>1, <3>1, <3>3, CallStepInv
             DEF ReadPending, readFrame, chainVars
  <2>. QED BY <1>5, <2>2, <2>3 DEF ReadPending, Codes
<1>. QED BY <1>1, <1>2, <1>3, <1>4, <1>5

\* The header and the policies of a pinned read make up one block.
LEMMA PinnedRead ==
  ASSUME blocks \in Seq(Block), NEW n \in 1..Height
  PROVE  ReadFrom(n) = blocks[n]
<1>1. blocks[n] \in Block
  BY DEF Height
<1>. QED BY <1>1 DEF ReadFrom, ReadsAt, Block

\* A snapshot is one, whatever its block says.
LEMMA SnapshotsTyped ==
  ASSUME blocks \in Seq(Block), blocks # <<>>, NEW c \in Calls,
         pinned[c] \in 1..Height, abi[c] \in {"legacy", "current"}
  PROVE  Snapshots(c) \in [Agents -> Snapshot]
<1>1. blocks[pinned[c]] \in Block
  BY LatestTyped
<1>2. ASSUME NEW a \in Agents
      PROVE  ToSnapshot(a, pinned[c], abi[c]) \in Snapshot
  <2>. DEFINE b == blocks[pinned[c]]
              held == IF abi[c] = "current" THEN HeldIn(b, a) ELSE 0
  <2>1. SpentIn(b, a) \in Nat /\ held \in Nat /\ b.of[a] \in Policy
    BY <1>1, FiguresTyped DEF Block
  <2>4. ReadFrom(pinned[c]) = b
    BY PinnedRead
  <2>2. Left(b.of[a].cap, SpentIn(b, a), held) \in Nat
    <3>. HIDE DEF b, held
    <3>. QED BY <2>1 DEF Left, Policy
  <2>3. pinned[c] \in Nat
    BY LatestTyped
  <2>. QED BY <2>1, <2>2, <2>3, <2>4 DEF ToSnapshot, Snapshot, Policy, Zeroed
<1>. QED BY <1>2, NoSnapshot DEF Snapshots

LEMMA ReadPoliciesInv ==
  ASSUME Inv, NEW c \in Calls, ReadPolicies(c)
  PROVE  Inv'
<1>0. ChainTyped /\ MemoTyped /\ CallsTyped /\ CallFits(c) /\ CallMeans(c)
      /\ Height \in Nat \ {0} /\ pc[c] = "call"
  BY TypeParts, LatestTyped DEF Inv, ChainTyped, ReadPolicies
<1>1. Snapshots(c) \in [Agents -> Snapshot]
  BY <1>0, SnapshotsTyped DEF CallFits, CallsTyped, ChainTyped
<1>2. /\ served' \in [Calls -> [Agents -> Snapshot]]
      /\ \A d \in Calls \ {c} : served'[d] = served[d]
  BY <1>0, <1>1 DEF ReadPolicies, CallsTyped
<1>3. MemoTyped'
  BY <1>0, <1>1 DEF ReadPolicies, MemoTyped, CallsTyped, readFrame, dbVars
<1>4. CASE \E status \in Codes : Answers(c, status)
  BY <1>0, <1>2, <1>3, <1>4, CallEnds
     DEF ReadPolicies, readFrame, chainVars
<1>5. CASE job[c].kind = "set" /\ Goes(c, "submit") /\ UNCHANGED code
  <2>1. CallsTyped' /\ CallsBut(c) /\ Height' = Height
    BY <1>0, <1>2, <1>5 DEF ReadPolicies, Goes, CallsTyped, CallsBut,
         readFrame, chainVars, Steps, Height
  <2>2. /\ pc'[c] = "submit"
        /\ UNCHANGED <<job, about, minted, code, submitted, pinned, abi>>
    BY <1>0, <1>5 DEF ReadPolicies, Goes, CallsTyped, readFrame
  <2>3. CallFits(c)' /\ CallMeans(c)'
    BY <1>0, <1>5, <2>1, <2>2 DEF CallFits, CallMeans
  <2>. QED BY <1>3, <2>1, <2>3, CallStepInv DEF ReadPolicies, readFrame,
              chainVars
<1>. QED BY <1>4, <1>5 DEF ReadPolicies, Codes

LEMMA ReadFailsInv ==
  ASSUME Inv, NEW c \in Calls, ReadFails(c)
  PROVE  Inv'
<1>0. ChainTyped /\ MemoTyped /\ CallsTyped
  BY TypeParts DEF Inv
<1>1. PICK status \in Codes : Answers(c, status)
  BY DEF ReadFails, Codes
<1>2. /\ served' \in [Calls -> [Agents -> Snapshot]]
      /\ \A d \in Calls \ {c} : served'[d] = served[d]
  <2>1. [a \in Agents |-> IF a \in about[c] \intersect fresh THEN cache[a]
                         ELSE Zeroed] \in [Agents -> Snapshot]
    BY <1>0, NoSnapshot DEF MemoTyped
  <2>. QED BY <1>0, <2>1 DEF ReadFails, CallsTyped
<1>3. MemoTyped'
  BY <1>0 DEF ReadFails, MemoTyped, readFrame, dbVars, memoVars
<1>. QED BY <1>1, <1>2, <1>3, CallEnds
         DEF ReadFails, Fault, readFrame, chainVars

\* Steps that make, send and write.
LEMMA MintWalletInv ==
  ASSUME Inv, NEW c \in Calls, MintWallet(c)
  PROVE  Inv'
<1>0. ChainTyped /\ MemoTyped /\ CallsTyped /\ CallFits(c) /\ CallMeans(c)
      /\ Height \in Nat \ {0} /\ pc[c] = "mint"
  BY TypeParts, LatestTyped DEF Inv, ChainTyped, MintWallet
<1>1. PICK a \in Agents \ minted :
        /\ minted' = minted \union {a}
        /\ \/ /\ job' = [job EXCEPT ![c].agent = a]
              /\ Goes(c, "submit")
              /\ UNCHANGED <<code, hit, faults>>
           \/ Fault(c) /\ Answers(c, "502") /\ UNCHANGED job
  BY DEF MintWallet
<1>2. MemoTyped'
  BY <1>0, <1>1 DEF MintWallet, MemoTyped, dbVars, memoVars
<1>3. /\ pc'[c] \in {"submit", "done"} /\ job'[c].kind = "register"
      /\ (pc'[c] = "submit" => job'[c].agent = a /\ code'[c] = code[c])
      /\ c \notin submitted'
      /\ UNCHANGED <<about, pinned, abi, submitted>>
  BY <1>0, <1>1 DEF MintWallet, Goes, Answers, CallsTyped, readVars, CallFits,
     Job
<1>4. CallsTyped' /\ CallsBut(c) /\ Height' = Height
  <2>1. job' \in [Calls -> Job]
    <3>1. job[c] \in Job /\ a \in Agents
      BY <1>0 DEF CallsTyped
    <3>2. [job[c] EXCEPT !.agent = a] \in Job
      BY <3>1 DEF Job
    <3>. QED BY <1>0, <1>1, <3>2 DEF CallsTyped
  <2>2. /\ pc' \in [Calls -> Steps] /\ code' \in [Calls -> Codes]
        /\ hit' \subseteq Calls
    BY <1>0, <1>1 DEF Goes, Answers, Fault, CallsTyped, Steps, Codes
  <2>3. CallsBut(c)
    BY <1>0, <1>1 DEF MintWallet, Goes, Answers, Fault, CallsTyped, CallsBut,
         readVars
  <2>. QED BY <1>0, <2>1, <2>2, <2>3
           DEF MintWallet, CallsTyped, readVars, chainVars, Height
<1>5. CallFits(c)' /\ CallMeans(c)'
  BY <1>0, <1>1, <1>3, <1>4 DEF CallFits, CallMeans
<1>. QED BY <1>1, <1>2, <1>4, <1>5, CallStepInv DEF MintWallet, chainVars

\* What is sent is the call's change, of a wallet there is.
LEMMA SendsTx ==
  ASSUME Inv, NEW c \in Calls, pc[c] = "submit", Sends(c)
  PROVE  \E t \in Tx : /\ pool' = Append(pool, t) /\ t.call = c
                       /\ t.kind = job[c].kind /\ t.agent = job[c].agent
                       /\ t.cap = job[c].cap /\ t.agent \in minted
<1>1. CallsTyped /\ MemoTyped /\ CallMeans(c)
  BY TypeParts DEF Inv
<1>2. job[c] \in Job /\ job[c].agent \in minted
  BY <1>1 DEF CallMeans, CallsTyped
<1>3. [call |-> c, kind |-> job[c].kind, agent |-> job[c].agent,
       cap |-> job[c].cap] \in Tx
  BY <1>1, <1>2 DEF Tx, Job, MemoTyped
<1>. QED BY <1>2, <1>3 DEF Sends

LEMMA SubmitsInv ==
  ASSUME Inv, NEW c \in Calls, Submit(c) \/ SubmitFails(c)
  PROVE  Inv'
<1>0. ChainTyped /\ MemoTyped /\ CallsTyped /\ CallFits(c) /\ CallMeans(c)
      /\ Height \in Nat \ {0} /\ pc[c] = "submit"
  BY TypeParts, LatestTyped DEF Inv, ChainTyped, Submit, SubmitFails
<1>1. MemoTyped'
  BY <1>0 DEF Submit, SubmitFails, MemoTyped, dbVars, memoVars
<1>2. CASE Submit(c)
  <2>1. \E t \in Tx : pool' = Append(pool, t) /\ t.agent \in minted
    BY <1>0, <1>2, SendsTx DEF Submit
  <2>2. CallsTyped' /\ CallsBut(c) /\ Height' = Height
    BY <1>0, <1>2 DEF Submit, Sends, Goes, CallsTyped, CallsBut, readVars,
         Steps, Height
  <2>3. /\ pc'[c] = IF job[c].kind = "register" THEN "row" ELSE "record"
        /\ UNCHANGED <<job, about, minted, code, pinned, abi>>
    BY <1>0, <1>2 DEF Submit, Goes, CallsTyped, readVars
  <2>4. CallFits(c)' /\ CallMeans(c)'
    BY <1>0, <2>2, <2>3 DEF CallFits, CallMeans
  <2>. QED BY <1>1, <1>2, <2>1, <2>2, <2>4, CallStepInv DEF Submit
<1>3. CASE SubmitFails(c)
  <2>1. PICK status \in Codes : Answers(c, status)
    BY <1>3 DEF SubmitFails, Codes
  <2>2. \/ pool' = pool /\ submitted' = submitted
        \/ Sends(c)
    BY <1>3 DEF SubmitFails
  <2>3. /\ pool' = pool \/ (\E t \in Tx : pool' = Append(pool, t) /\ t.agent \in minted)
        /\ submitted' = submitted \/ submitted' = submitted \union {c}
    BY <1>0, <2>2, SendsTx DEF Sends
  <2>4. hit' = hit \/ hit' = hit \union {c}
    BY <1>3 DEF SubmitFails, Fault
  <2>. QED BY <1>0, <1>1, <1>3, <2>1, <2>3, <2>4, CallEnds
           DEF SubmitFails, readVars, CallsTyped
<1>. QED BY <1>2, <1>3

LEMMA WritesInv ==
  ASSUME Inv, NEW c \in Calls,
         CreateRow(c) \/ CreateRowFails(c) \/ Record(c) \/ RecordFails(c)
  PROVE  Inv'
<1>0. ChainTyped /\ MemoTyped /\ CallsTyped /\ CallFits(c) /\ CallMeans(c)
      /\ Height \in Nat \ {0}
  BY TypeParts, LatestTyped DEF Inv, ChainTyped
<1>1. MemoTyped'
  BY <1>0, NoSnapshot
     DEF CreateRow, CreateRowFails, Record, RecordFails, Signs, MemoTyped,
         writeFrame, dbVars, memoVars
<1>2. CASE CreateRow(c)
  <2>1. CallsTyped' /\ CallsBut(c) /\ Height' = Height
    BY <1>0, <1>2 DEF CreateRow, Goes, CallsTyped, CallsBut, writeFrame,
         readVars, chainVars, Steps, Height
  <2>2. /\ pc'[c] = "record" /\ pc[c] = "row"
        /\ UNCHANGED <<job, about, minted, code, pinned, abi, submitted>>
    BY <1>0, <1>2 DEF CreateRow, Goes, CallsTyped, writeFrame, readVars
  <2>3. CallFits(c)' /\ CallMeans(c)'
    BY <1>0, <2>1, <2>2 DEF CallFits, CallMeans
  <2>. QED BY <1>1, <1>2, <2>1, <2>3, CallStepInv
           DEF CreateRow, writeFrame, chainVars
<1>3. CASE CreateRowFails(c) \/ Record(c) \/ RecordFails(c)
  <2>1. PICK status \in Codes : Answers(c, status)
    BY <1>3 DEF CreateRowFails, Record, RecordFails, Codes
  <2>2. /\ hit' = hit \/ hit' = hit \union {c}
        /\ pc[c] # "idle"
        /\ UNCHANGED <<minted, job, about, pinned, abi, served, blocks, ripe,
                       pool, submitted>>
    BY <1>3 DEF CreateRowFails, Record, RecordFails, Fault, writeFrame,
         readVars, chainVars
  <2>. QED BY <1>0, <1>1, <2>1, <2>2, CallEnds DEF CallsTyped
<1>. QED BY <1>2, <1>3

LEMMA NextInv == Inv /\ [Next]_vars => Inv'
<1>. SUFFICES ASSUME Inv, [Next]_vars PROVE Inv'
  OBVIOUS
<1>1. CASE \E c \in Calls : CallStep(c)
  BY <1>1, PostInv, ReadingInv, ReadPoliciesInv, ReadFailsInv, MintWalletInv,
     SubmitsInv, WritesInv DEF CallStep
<1>2. CASE UNCHANGED vars
  BY <1>2 DEF vars, chainVars, dbVars, memoVars, readVars, Inv, TypeOK,
     CallFits, CallMeans, Height
<1>. QED BY <1>1, <1>2, ChainActionsInv, BesideInv DEF Next

\* Types: of the chain the routes read, of the rows and the memory they write,
\* and of every call at every step.
THEOREM TypeCorrect == Spec => []TypeOK
<1>1. Inv => TypeOK
  BY DEF Inv
<1>. QED BY <1>1, InitInv, NextInv, PTL DEF Spec

LEMMA SpecInv == Spec => []Inv
BY InitInv, NextInv, PTL DEF Spec

-----------------------------------------------------------------------------
(* Every change is signed, every registration whole *)

\* An agent whose first policy is on chain or on its way there.
Backed(a) ==
    \/ Now(a).exists
    \/ \E i \in DOMAIN pool :
         pool[i].agent = a /\ pool[i].kind \in {"set", "register"}

\* A registration and its agent: the wallet is the call's own, its row is not
\* made before the transaction is sent, and not by another call.
Registers(c) == job[c].kind = "register"
RowFollows(c) ==
    Registers(c) =>
      /\ pc[c] \in {"submit", "row"} => row[job[c].agent] # "walleted"
      /\ pc[c] = "row" => Backed(job[c].agent)
      /\ pc[c] = "record" => row[job[c].agent] = "walleted"
OwnWallet(c, d) ==
    (/\ Registers(c) /\ Registers(d) /\ c # d
     /\ pc[c] \in {"submit", "row"} /\ pc[d] \in {"submit", "row"})
    => job[c].agent # job[d].agent

\* One call's share of the two properties.
Signed(c) ==
    c \in submitted =>
      \/ c \in operatorActions \union hit \union InFlight
      \/ Registers(c) /\ row[job[c].agent] = "bare"
Whole(c) ==
    code[c] = "201" =>
      /\ row[job[c].agent] = "walleted" /\ c \in operatorActions
      /\ job[c].agent \in Agents

RowsInv ==
    /\ \A c \in Calls : Signed(c) /\ Whole(c) /\ RowFollows(c)
    /\ \A a \in Agents : row[a] = "walleted" => a \in minted /\ Backed(a)
    /\ \A c, d \in Calls : OwnWallet(c, d)

LEMMA RowsHold ==
  ASSUME Inv, RowsInv
  PROVE  ChangesAreSigned /\ RegistrationsAreWhole
<1>1. submitted \subseteq Calls
  BY TypeParts DEF Inv, CallsTyped
<1>2. ChangesAreSigned
  BY <1>1 DEF RowsInv, Signed, Registers, ChangesAreSigned
<1>3. RegistrationsAreWhole
  BY DEF RowsInv, Whole, Backed, RegistrationsAreWhole
<1>. QED BY <1>2, <1>3

\* A call's step is the call's: of the chain it may only fill the pool.
LEMMA CallsAlone ==
  ASSUME Inv, NEW c \in Calls, CallStep(c)
  PROVE  /\ CallsBut(c) /\ UNCHANGED <<blocks, ripe>>
         /\ minted \subseteq minted' /\ submitted \subseteq submitted'
         /\ operatorActions \subseteq operatorActions' /\ hit \subseteq hit'
         /\ pool' = pool \/ (pc[c] = "submit" /\ Sends(c))
<1>. DEFINE Alone ==
       /\ CallsBut(c) /\ UNCHANGED <<blocks, ripe>>
       /\ minted \subseteq minted' /\ submitted \subseteq submitted'
       /\ operatorActions \subseteq operatorActions' /\ hit \subseteq hit'
       /\ pool' = pool \/ (pc[c] = "submit" /\ Sends(c))
<1>0. CallsTyped
  BY TypeParts DEF Inv
<1>1. ASSUME NEW j \in Requests, Post(c, j) PROVE Alone
  BY <1>0, <1>1 DEF Post, Goes, CallsBut, CallsTyped, chainVars, dbVars
<1>2. CASE FindAgents(c) \/ FindAgentsFails(c) \/ ReadBlock(c)
  BY <1>0, <1>2 DEF FindAgents, FindAgentsFails, ReadBlock, Fault, Answers,
     Goes, CallsBut, CallsTyped, readFrame, readVars, chainVars, dbVars
<1>3. CASE Probe(c) \/ ReadPending(c)
  BY <1>0, <1>3 DEF Probe, ReadPending, Fault, Answers, Goes,
     CallsBut, CallsTyped, readFrame, readVars, chainVars, dbVars
<1>4. CASE ReadPolicies(c)
  BY <1>0, <1>4 DEF ReadPolicies, Answers, Goes,
     CallsBut, CallsTyped, readFrame, readVars, chainVars, dbVars
<1>5. CASE ReadFails(c)
  BY <1>0, <1>5 DEF ReadFails, Fault, Answers, Goes,
     CallsBut, CallsTyped, readFrame, readVars, chainVars, dbVars
<1>6. CASE MintWallet(c)
  BY <1>0, <1>6 DEF MintWallet, Fault, Answers, Goes,
     CallsBut, CallsTyped, readVars, chainVars, dbVars
<1>7. CASE Submit(c)
  BY <1>0, <1>7 DEF Submit, Sends, Goes, CallsBut, CallsTyped, readVars, dbVars
<1>8. CASE SubmitFails(c)
  BY <1>0, <1>8 DEF SubmitFails, Sends, Fault, Answers, Goes, CallsBut,
     CallsTyped, readVars, dbVars
<1>9. CASE CreateRow(c) \/ CreateRowFails(c)
  BY <1>0, <1>9 DEF CreateRow, CreateRowFails, Fault, Answers, Goes, CallsBut,
     CallsTyped, writeFrame, readVars, chainVars, dbVars
<1>10. CASE Record(c) \/ RecordFails(c)
  BY <1>0, <1>10 DEF Record, RecordFails, Fault, Answers, Goes, CallsBut,
     CallsTyped, writeFrame, readVars, chainVars, dbVars
<1>. QED BY <1>1, <1>2, <1>3, <1>4, <1>5, <1>6, <1>7, <1>8, <1>9, <1>10
         DEF CallStep

\* A policy once there stays, and one on its way comes.
LEMMA BackedStays ==
  ASSUME Inv, [Next]_vars, NEW a \in Agents, Backed(a)
  PROVE  Backed(a)'
<1>0. blocks \in Seq(Block) /\ blocks # <<>> /\ pool \in Seq(Tx) /\ 0 \in Nat
  BY TypeParts DEF Inv, ChainTyped
<1>1. ASSUME UNCHANGED blocks, pool' = pool \/ \E t : pool' = Append(pool, t)
      PROVE  Backed(a)'
  <2>1. \A i \in DOMAIN pool : i \in DOMAIN pool' /\ pool'[i] = pool[i]
    BY <1>0, <1>1
  <2>2. Now(a)' = Now(a)
    BY <1>1 DEF Now, Latest, Height
  <2>. QED BY <2>1, <2>2 DEF Backed
<1>2. CASE MineNext
  <2>. DEFINE t == Head(pool)
  <2>1. /\ pool # <<>> /\ pool' = Tail(pool) /\ t \in Tx /\ t = pool[1]
        /\ t.agent \in Agents /\ t.cap \in Nat
    <3>1. pool # <<>> /\ pool' = Tail(pool) /\ t \in Tx /\ t = pool[1]
      BY <1>0, <1>2, HeadTailProperties DEF MineNext
    <3>. HIDE DEF t
    <3>. QED BY <3>1 DEF Tx
  <2>2. /\ SetCap(Now(t.agent), t.cap) \in Policy
        /\ SetCap(Now(t.agent), t.cap).exists
        /\ Applied(Now(t.agent)) \in Policy /\ Applied(Now(t.agent)).exists
    <3>1. Now(t.agent) \in Policy
      BY <1>0, <2>1, LatestTyped
    <3>. QED BY <1>0, <2>1, <3>1, PoliciesTyped
             DEF SetCap, Scheduled, Enforced, Applied, Policy
  <2>3. CASE t.agent = a /\ t.kind \in {"set", "register"}
    <3>1. Appends(a, SetCap(Now(a), t.cap))
      BY <1>2, <2>3 DEF MineNext
    <3>2. Now(a)' = SetCap(Now(a), t.cap)
      BY <1>0, <2>2, <2>3, <3>1, AppendsBlock
    <3>. QED BY <2>2, <2>3, <3>2 DEF Backed
  <2>4. CASE ~(t.agent = a /\ t.kind \in {"set", "register"})
    <3>1. CASE Now(a).exists
      <4>1. CASE UNCHANGED blocks
        BY <3>1, <4>1 DEF Backed, Now, Latest, Height
      <4>2. ASSUME NEW p \in Policy, p.exists, Appends(t.agent, p)
            PROVE  Backed(a)'
        BY <1>0, <2>1, <3>1, <4>2, AppendsBlock DEF Backed
      <4>. QED BY <1>2, <2>2, <4>1, <4>2 DEF MineNext
    <3>2. CASE \E i \in DOMAIN pool :
                 pool[i].agent = a /\ pool[i].kind \in {"set", "register"}
      <4>1. PICK i \in DOMAIN pool :
              pool[i].agent = a /\ pool[i].kind \in {"set", "register"}
        BY <3>2
      <4>2. i # 1
        BY <2>1, <2>4, <4>1
      <4>3. i - 1 \in DOMAIN pool' /\ pool'[i - 1] = pool[i]
        BY <1>0, <2>1, <4>1, <4>2, HeadTailProperties, LenProperties
      <4>. QED BY <4>1, <4>3 DEF Backed
    <3>. QED BY <3>1, <3>2 DEF Backed
  <2>. QED BY <2>3, <2>4
<1>3. CASE NewDay
  <2>1. Now(a)' = Now(a) /\ pool' = pool
    BY <1>0, <1>3, NewDayBlock DEF NewDay
  <2>. QED BY <2>1 DEF Backed
<1>4. ASSUME NEW x \in Agents, Guard(x) \/ AnyoneApplies(x)
      PROVE  Backed(a)'
  <2>1. Now(x) \in Policy
    BY <1>0, LatestTyped
  <2>2. \E p \in Policy : Appends(x, p) /\ (Now(x).exists => p.exists)
    BY <1>0, <1>4, <2>1, PoliciesTyped
       DEF Guard, AnyoneApplies, Rolled, Applied, Enforced, Policy
  <2>3. pool' = pool
    BY <1>4 DEF Guard, AnyoneApplies
  <2>. QED BY <1>0, <2>2, <2>3, AppendsBlock DEF Backed
<1>5. ASSUME NEW x \in Agents, Ripen(x) \/ WatchPolicySet(x) \/ CacheExpires(x)
      PROVE  Backed(a)'
  BY <1>1, <1>5 DEF Ripen, WatchPolicySet, CacheExpires, chainVars
<1>6. CASE Restart \/ UNCHANGED vars
  BY <1>1, <1>6 DEF Restart, vars, chainVars
<1>7. ASSUME NEW c \in Calls, CallStep(c)
      PROVE  Backed(a)'
  BY <1>1, <1>7, CallsAlone DEF Sends
<1>. QED BY <1>2, <1>3, <1>4, <1>5, <1>6, <1>7 DEF Next

\* A call's step that leaves the rows alone: what it owes is its own share.
LEMMA RowsStep ==
  ASSUME Inv, RowsInv, NEW c \in Calls, CallStep(c), UNCHANGED row,
         Signed(c)', Whole(c)', RowFollows(c)',
         \A d \in Calls : OwnWallet(c, d)'
  PROVE  RowsInv'
<1>1. /\ CallsBut(c) /\ minted \subseteq minted' /\ hit \subseteq hit'
      /\ submitted \subseteq submitted' /\ operatorActions \subseteq operatorActions'
  BY CallsAlone
<1>2. \A a \in Agents : Backed(a) => Backed(a)'
  BY BackedStays DEF Next
<1>3. \A d \in Calls : InFlight' = {x \in Calls : pc'[x] \notin {"idle", "done"}}
  BY DEF InFlight
<1>4. ASSUME NEW d \in Calls \ {c}
      PROVE  Signed(d)' /\ Whole(d)' /\ RowFollows(d)'
  <2>1. /\ pc'[d] = pc[d] /\ job'[d] = job[d] /\ code'[d] = code[d]
        /\ (d \in submitted' <=> d \in submitted)
    BY <1>1 DEF CallsBut
  <2>2. Signed(d) /\ Whole(d) /\ RowFollows(d) /\ CallMeans(d)
    BY DEF RowsInv, Inv
  <2>3. job[d].agent \in minted => job[d].agent \in Agents
    BY TypeParts DEF Inv, MemoTyped
  <2>. QED BY <1>1, <1>2, <2>1, <2>2, <2>3
           DEF Signed, Whole, RowFollows, Registers, InFlight, CallMeans
<1>5. ASSUME NEW d \in Calls, NEW e \in Calls
      PROVE  OwnWallet(d, e)'
  <2>1. CASE d = c
    BY <2>1
  <2>2. CASE e = c
    <3>1. OwnWallet(c, d)'
      OBVIOUS
    <3>. QED BY <2>2, <3>1 DEF OwnWallet
  <2>3. CASE d # c /\ e # c
    BY <1>1, <2>3 DEF RowsInv, OwnWallet, Registers, CallsBut
  <2>. QED BY <2>1, <2>2, <2>3
<1>6. \A a \in Agents : row'[a] = "walleted" => a \in minted' /\ Backed(a)'
  BY <1>1, <1>2 DEF RowsInv
<1>. QED BY <1>4, <1>5, <1>6 DEF RowsInv

\* Calls that do not register only owe their action.
LEMMA OthersRows ==
  ASSUME Inv, RowsInv, NEW c \in Calls, CallStep(c), UNCHANGED row,
         job'[c].kind # "register", code'[c] # "201", Signed(c)'
  PROVE  RowsInv'
<1>1. Whole(c)' /\ RowFollows(c)' /\ \A d \in Calls : OwnWallet(c, d)'
  BY DEF Whole, RowFollows, OwnWallet, Registers
<1>. QED BY <1>1, RowsStep

LEMMA RowsCallInv ==
  ASSUME Inv, RowsInv, NEW c \in Calls, CallStep(c)
  PROVE  RowsInv'
<1>0. /\ CallsTyped /\ MemoTyped /\ ChainTyped /\ CallFits(c) /\ CallMeans(c)
      /\ CallsTyped' /\ CallFits(c)'
      /\ Signed(c) /\ Whole(c) /\ RowFollows(c)
      /\ \A d \in Calls : CallMeans(d)
  <2>1. Inv'
    BY NextInv DEF Next
  <2>. QED BY <2>1, TypeParts DEF Inv, RowsInv
<1>1. ASSUME NEW j \in Requests, Post(c, j)
      PROVE  RowsInv'
  <2>1. /\ pc'[c] = FirstStep(j) /\ job'[c] = j /\ code'[c] = "none"
        /\ c \notin submitted' /\ UNCHANGED row
    BY <1>0, <1>1 DEF Post, Goes, CallsTyped, CallFits, dbVars
  <2>2. j.kind = "register" => pc'[c] = "mint"
    BY <2>1 DEF FirstStep
  <2>3. Signed(c)' /\ Whole(c)' /\ RowFollows(c)' /\ \A d \in Calls : OwnWallet(c, d)'
    BY <2>1, <2>2 DEF Signed, Whole, RowFollows, OwnWallet, Registers
  <2>. QED BY <2>1, <2>3, RowsStep
<1>2. CASE \/ FindAgents(c) \/ FindAgentsFails(c) \/ ReadBlock(c) \/ Probe(c)
           \/ ReadPolicies(c) \/ ReadFails(c) \/ ReadPending(c)
  <2>1. /\ pc[c] \in {"rows", "block", "probe", "call", "pending"}
        /\ UNCHANGED <<row, job, submitted>>
    BY <1>2 DEF FindAgents, FindAgentsFails, ReadBlock, Probe, ReadPolicies,
       ReadFails, ReadPending, readFrame, dbVars
  <2>2. code'[c] # "201"
    <3>1. CASE code' = code
      BY <1>0, <2>1, <3>1 DEF CallFits
    <3>2. CASE \E status \in {"200", "404", "400", "422", "500", "503"} :
                 Answers(c, status)
      BY <1>0, <3>2 DEF Answers, CallsTyped
    <3>. QED BY <1>2, <3>1, <3>2
             DEF FindAgents, FindAgentsFails, ReadBlock, Probe, ReadPolicies,
                 ReadFails, ReadPending
  <2>3. c \notin submitted' /\ job'[c].kind # "register"
    BY <1>0, <2>1 DEF CallFits
  <2>. QED BY <2>1, <2>2, <2>3, OthersRows DEF Signed
<1>3. CASE MintWallet(c)
  <2>1. PICK a \in Agents \ minted :
          /\ minted' = minted \union {a}
          /\ \/ /\ job' = [job EXCEPT ![c].agent = a]
                /\ Goes(c, "submit")
                /\ UNCHANGED <<code, hit, faults>>
             \/ Fault(c) /\ Answers(c, "502") /\ UNCHANGED job
    BY <1>3 DEF MintWallet
  <2>2. /\ pc[c] = "mint" /\ UNCHANGED <<row, submitted>>
        /\ c \notin submitted' /\ code'[c] # "201"
    BY <1>0, <1>3, <2>1 DEF MintWallet, dbVars, CallFits, Answers, CallsTyped
  <2>3. /\ pc'[c] \in {"submit", "done"}
        /\ pc'[c] = "submit" => job'[c].agent = a
    BY <1>0, <2>1 DEF Goes, Answers, CallsTyped, Job
  <2>4. row'[a] # "walleted"
    BY <2>1, <2>2 DEF RowsInv
  <2>5. Signed(c)' /\ Whole(c)' /\ RowFollows(c)'
    BY <2>2, <2>3, <2>4 DEF Signed, Whole, RowFollows, Registers
  <2>6. \A d \in Calls : OwnWallet(c, d)'
    <3>1. \A d \in Calls \ {c} : pc'[d] = pc[d] /\ job'[d] = job[d]
      BY CallsAlone DEF CallsBut
    <3>2. \A d \in Calls : pc[d] \in {"submit", "row"} => job[d].agent # a
      BY <1>0, <2>1 DEF CallMeans
    <3>. QED BY <2>3, <3>1, <3>2 DEF OwnWallet
  <2>. QED BY <2>2, <2>5, <2>6, RowsStep
<1>4. CASE Submit(c)
  <2>1. /\ pc[c] = "submit" /\ UNCHANGED <<row, job, code>>
        /\ pc'[c] = IF Registers(c) THEN "row" ELSE "record"
    BY <1>0, <1>4 DEF Submit, Goes, CallsTyped, dbVars, Registers
  <2>2. Signed(c)' /\ Whole(c)'
    BY <1>0, <2>1 DEF Signed, InFlight, Whole, CallFits
  <2>3. Registers(c) => Backed(job[c].agent)'
    <3>. SUFFICES ASSUME Registers(c) PROVE Backed(job[c].agent)'
      OBVIOUS
    <3>1. PICK t \in Tx : /\ pool' = Append(pool, t)
                          /\ t.kind = job[c].kind /\ t.agent = job[c].agent
      BY <1>4, <2>1, SendsTx DEF Submit
    <3>2. \E i \in DOMAIN pool' : pool'[i] = t
      BY <1>0, <3>1 DEF ChainTyped
    <3>. QED BY <2>1, <3>1, <3>2 DEF Backed, Registers
  <2>4. RowFollows(c)'
    BY <1>0, <2>1, <2>3 DEF RowFollows, Registers, Backed
  <2>5. \A d \in Calls : OwnWallet(c, d)'
    <3>1. \A d \in Calls \ {c} : pc'[d] = pc[d]
      BY CallsAlone DEF CallsBut
    <3>. QED BY <2>1, <3>1 DEF OwnWallet, RowsInv, Registers
  <2>. QED BY <2>1, <2>2, <2>4, <2>5, RowsStep
<1>5. CASE SubmitFails(c) \/ RecordFails(c)
  <2>1. /\ UNCHANGED row /\ pc'[c] = "done" /\ code'[c] # "201"
        /\ c \in submitted' => c \in hit'
    BY <1>0, <1>5 DEF SubmitFails, RecordFails, Answers, Goes, Fault,
       CallsTyped, dbVars, CallFits
  <2>2. Signed(c)' /\ Whole(c)' /\ RowFollows(c)' /\ \A d \in Calls : OwnWallet(c, d)'
    BY <2>1 DEF Signed, Whole, RowFollows, OwnWallet
  <2>. QED BY <2>1, <2>2, RowsStep
<1>6. CASE CreateRowFails(c)
  <2>1. /\ UNCHANGED <<row, job>> /\ pc[c] = "row"
        /\ pc'[c] = "done" /\ code'[c] # "201"
        /\ c \in hit' \/ row[job[c].agent] # "none"
    BY <1>0, <1>6 DEF CreateRowFails, MayCreate, Answers, Goes, Fault,
       CallsTyped, dbVars, writeFrame
  <2>2. Registers(c) /\ job[c].agent \in Agents
    BY <1>0, <2>1 DEF CallFits, CallMeans, Registers, MemoTyped
  <2>3. c \in hit' \/ row[job[c].agent] = "bare"
    BY <1>0, <2>1, <2>2 DEF RowFollows, MemoTyped
  <2>4. Signed(c)' /\ Whole(c)' /\ RowFollows(c)' /\ \A d \in Calls : OwnWallet(c, d)'
    BY <2>1, <2>2, <2>3 DEF Signed, Whole, RowFollows, OwnWallet, Registers
  <2>. QED BY <2>1, <2>4, RowsStep
<1>7. CASE Record(c)
  <2>1. /\ UNCHANGED <<row, job>> /\ pc[c] = "record" /\ pc'[c] = "done"
        /\ c \in operatorActions' /\ (code'[c] = "201" => Registers(c))
    BY <1>0, <1>7 DEF Record, Signs, Answers, Goes, CallsTyped, writeFrame,
       Registers
  <2>2. Signed(c)' /\ Whole(c)' /\ RowFollows(c)' /\ \A d \in Calls : OwnWallet(c, d)'
    BY <1>0, <2>1
       DEF Signed, Whole, RowFollows, OwnWallet, Registers, CallMeans, MemoTyped
  <2>. QED BY <2>1, <2>2, RowsStep
<1>8. CASE CreateRow(c)
  <2>. DEFINE a == job[c].agent
  <2>1. /\ pc[c] = "row" /\ pc'[c] = "record" /\ row[a] = "none"
        /\ UNCHANGED <<job, code, submitted, hit, operatorActions, minted>>
    BY <1>0, <1>8 DEF CreateRow, MayCreate, Goes, CallsTyped, writeFrame
  <2>2. Registers(c) /\ a \in minted /\ a \in Agents
    BY <1>0, <2>1 DEF CallFits, CallMeans, Registers, MemoTyped
  <2>3. /\ row'[a] = "walleted"
        /\ \A x \in Agents \ {a} : row'[x] = row[x]
    BY <1>0, <1>8, <2>2 DEF CreateRow, MayCreate, MemoTyped
  <2>4. \A x \in Agents : Backed(x) => Backed(x)'
    BY BackedStays DEF Next
  <2>5. \A d \in Calls \ {c} : pc'[d] = pc[d]
    BY CallsAlone DEF CallsBut
  <2>6. \A x \in Agents : row'[x] = "walleted" => x \in minted' /\ Backed(x)'
    BY <1>0, <2>1, <2>2, <2>3, <2>4 DEF RowsInv, RowFollows
  <2>7. \A d, e \in Calls : OwnWallet(d, e)'
    BY <2>1, <2>5 DEF RowsInv, OwnWallet, Registers
  <2>8. ASSUME NEW d \in Calls
        PROVE  Signed(d)' /\ Whole(d)' /\ RowFollows(d)'
    <3>1. CASE d = c
      BY <1>0, <2>1, <2>3, <3>1 DEF Signed, InFlight, Whole, RowFollows,
         CallFits
    <3>2. CASE d # c
      <4>1. /\ Signed(d) /\ Whole(d) /\ RowFollows(d) /\ OwnWallet(c, d)
            /\ pc'[d] = pc[d]
        BY <2>5, <3>2 DEF RowsInv
      <4>2. row[job[d].agent] \in {"walleted", "bare"} =>
              row'[job[d].agent] = row[job[d].agent]
        <5>1. CASE job[d].agent \in Agents
          BY <2>1, <2>3, <5>1
        <5>2. CASE job[d].agent \notin Agents
          BY <1>0, <1>8, <2>2, <5>2 DEF CreateRow, MemoTyped
        <5>. QED BY <5>1, <5>2
      <4>3. Signed(d)' /\ Whole(d)'
        BY <2>1, <4>1, <4>2 DEF Signed, Whole, InFlight, Registers
      <4>4. pc[d] \in {"submit", "row"} /\ Registers(d) => job[d].agent # a
        BY <2>1, <2>2, <3>2, <4>1 DEF OwnWallet
      <4>5. pc[d] \in {"submit", "row", "record"} => job[d].agent \in Agents
        BY <1>0 DEF CallMeans, MemoTyped
      <4>6. RowFollows(d)'
        BY <2>1, <2>3, <2>4, <4>1, <4>2, <4>4, <4>5 DEF RowFollows, Registers
      <4>. QED BY <4>3, <4>6
    <3>. QED BY <3>1, <3>2
  <2>. QED BY <2>6, <2>7, <2>8 DEF RowsInv
<1>. QED BY <1>1, <1>2, <1>3, <1>4, <1>5, <1>6, <1>7, <1>8 DEF CallStep

LEMMA RowsNext == Inv /\ RowsInv /\ [Next]_vars => RowsInv'
<1>. SUFFICES ASSUME Inv, RowsInv, [Next]_vars PROVE RowsInv'
  OBVIOUS
<1>0. /\ CallsTyped /\ MemoTyped /\ \A d \in Calls : CallMeans(d)
  BY TypeParts DEF Inv
<1>1. \A a \in Agents : Backed(a) => Backed(a)'
  BY BackedStays
<1>2. ASSUME UNCHANGED <<minted, operatorActions, job, code, submitted>>,
             hit \subseteq hit',
             \A a \in Agents : row'[a] = row[a]
                               \/ (row[a] = "none" /\ row'[a] = "bare"),
             \/ UNCHANGED pc
             \/ /\ \A d \in Calls : pc'[d] = pc[d] \/ pc'[d] = "done"
                /\ InFlight \subseteq hit'
      PROVE  RowsInv'
  <2>1. \A a \in Agents : row'[a] = "walleted" => a \in minted' /\ Backed(a)'
    BY <1>1, <1>2 DEF RowsInv
  <2>2. \A d, e \in Calls : OwnWallet(d, e)'
    BY <1>2 DEF RowsInv, OwnWallet, Registers
  <2>3. ASSUME NEW d \in Calls
        PROVE  Signed(d)' /\ Whole(d)' /\ RowFollows(d)'
    <3>1. Signed(d) /\ Whole(d) /\ RowFollows(d) /\ CallFits(d) /\ CallMeans(d)
      BY DEF RowsInv, Inv
    <3>2. /\ d \in submitted => job[d].agent \in Agents
          /\ pc[d] \in {"submit", "row", "record"} => job[d].agent \in Agents
      BY <1>0, <3>1 DEF CallMeans, MemoTyped
    <3>3. code[d] = "201" => job[d].agent \in Agents
      BY <3>1 DEF Whole
    <3>4. Signed(d)'
      BY <1>2, <3>1, <3>2 DEF Signed, Registers, InFlight
    <3>5. Whole(d)'
      BY <1>2, <3>1, <3>3 DEF Whole
    <3>6. RowFollows(d)'
      BY <1>1, <1>2, <3>1, <3>2 DEF RowFollows, Registers
    <3>. QED BY <3>4, <3>5, <3>6
  <2>. QED BY <2>1, <2>2, <2>3 DEF RowsInv
<1>3. CASE \/ MineNext \/ NewDay
           \/ \E a \in Agents : Guard(a) \/ AnyoneApplies(a) \/ Ripen(a)
  BY <1>2, <1>3 DEF MineNext, NewDay, Guard, AnyoneApplies, Ripen, serverFrame,
     dbVars
<1>4. ASSUME NEW a \in Agents, WatchPolicySet(a) \/ CacheExpires(a)
      PROVE  RowsInv'
  BY <1>0, <1>2, <1>4 DEF WatchPolicySet, CacheExpires, dbVars, MemoTyped
<1>5. CASE Restart
  <2>1. /\ \A d \in Calls : pc'[d] = pc[d] \/ pc'[d] = "done"
        /\ InFlight \subseteq hit' /\ hit \subseteq hit'
    BY <1>5 DEF Restart
  <2>. QED BY <1>2, <1>5, <2>1 DEF Restart, dbVars
<1>6. CASE UNCHANGED vars
  BY <1>2, <1>6 DEF vars, dbVars
<1>. QED BY <1>3, <1>4, <1>5, <1>6, RowsCallInv DEF Next

LEMMA RowsInit == Init => RowsInv
<1>. SUFFICES ASSUME Init PROVE RowsInv
  OBVIOUS
<1>1. /\ pc = [c \in Calls |-> "idle"] /\ code = [c \in Calls |-> "none"]
      /\ submitted = {} /\ minted \subseteq Agents
      /\ row = [a \in Agents |-> IF a \in minted THEN "walleted" ELSE "none"]
  BY DEF Init
<1>2. \A c \in Calls : Signed(c) /\ Whole(c) /\ RowFollows(c)
  BY <1>1 DEF Signed, Whole, RowFollows
<1>3. \A c, d \in Calls : OwnWallet(c, d)
  BY <1>1 DEF OwnWallet
<1>4. \A a \in minted : Now(a).exists
  <2>1. PICK cap \in Caps :
          blocks = <<[day |-> 1, of |-> [a \in Agents |->
             IF a \in minted
             THEN [NoPolicy EXCEPT !.exists = TRUE, !.cap = cap] ELSE NoPolicy]]>>
    BY DEF Init
  <2>2. \A a \in minted : Now(a) = [NoPolicy EXCEPT !.exists = TRUE, !.cap = cap]
    BY <1>1, <2>1 DEF Now, Latest, Height
  <2>. QED BY <2>2 DEF NoPolicy
<1>. QED BY <1>1, <1>2, <1>3, <1>4 DEF RowsInv, Backed

\* Each change sent to the registry is tied to the administrator who asked for
\* it, unless a fault cut the call short or the watcher was first with the row:
\* for any number of calls and faults, and in every order of their steps.
THEOREM ChangesSigned == Spec => []ChangesAreSigned
<1>1. Inv /\ RowsInv => ChangesAreSigned
  BY RowsHold
<1>. QED BY <1>1, InitInv, NextInv, RowsInit, RowsNext, PTL DEF Spec

\* A registration that was answered has its wallet and its action, and a wallet
\* in a row its policy: because two calls never have one wallet, and the row is
\* made after the transaction is sent.
THEOREM RegistrationsWhole == Spec => []RegistrationsAreWhole
<1>1. Inv /\ RowsInv => RegistrationsAreWhole
  BY RowsHold
<1>. QED BY <1>1, InitInv, NextInv, RowsInit, RowsNext, PTL DEF Spec

-----------------------------------------------------------------------------
(* Snapshots are true of their blocks *)

\* What a snapshot names has been, and it says of it what the registry would.
Told(a, s) == s.block \in 0..Height /\ IsTrue(a, s)

\* An answer about one agent, or untouched by a fault, is of the pinned block.
Answered(c) ==
    (/\ code[c] = "200"
     /\ job[c].kind = "show" \/ (job[c].kind = "list" /\ c \notin hit))
    => \A a \in about[c] : served[c][a].block = pinned[c] /\ pinned[c] > 0

SnapshotsInv ==
    /\ \A a \in Agents : Told(a, cache[a])
    /\ \A c \in Calls : Answered(c) /\ \A a \in Agents : Told(a, served[c][a])

\* The chain keeps its blocks.
LEMMA History ==
  ASSUME Inv, [Next]_vars
  PROVE  /\ Height \in Nat \ {0} /\ Height' \in Nat /\ Height <= Height'
         /\ \A n \in 1..Height : blocks'[n] = blocks[n]
<1>0. blocks \in Seq(Block) /\ blocks # <<>> /\ pool \in Seq(Tx)
      /\ Height \in Nat \ {0} /\ 0 \in Nat
  BY TypeParts, LatestTyped DEF Inv, ChainTyped
<1>1. CASE UNCHANGED blocks
  BY <1>0, <1>1 DEF Height
<1>2. ASSUME NEW a \in Agents, NEW q \in Policy, Appends(a, q)
      PROVE  /\ Height' \in Nat /\ Height <= Height'
             /\ \A n \in 1..Height : blocks'[n] = blocks[n]
  BY <1>0, <1>2, AppendsBlock
<1>3. CASE NewDay
  BY <1>0, <1>3, NewDayBlock
<1>4. CASE MineNext
  <2>1. PICK t \in Tx : t = Head(pool)
    BY <1>0, <1>4, HeadTailProperties DEF MineNext
  <2>2. t.agent \in Agents /\ t.cap \in Nat
    BY DEF Tx
  <2>3. SetCap(Now(t.agent), t.cap) \in Policy /\ Applied(Now(t.agent)) \in Policy
    BY <1>0, <2>2, PoliciesTyped
  <2>. QED BY <1>0, <1>1, <1>2, <1>4, <2>1, <2>2, <2>3 DEF MineNext
<1>5. ASSUME NEW a \in Agents, Guard(a) \/ AnyoneApplies(a)
      PROVE  \E q \in Policy : Appends(a, q)
  BY <1>0, <1>5, PoliciesTyped DEF Guard, AnyoneApplies
<1>6. CASE \E a \in Agents : Ripen(a) \/ WatchPolicySet(a) \/ CacheExpires(a)
  BY <1>1, <1>6 DEF Ripen, WatchPolicySet, CacheExpires, chainVars
<1>7. CASE Restart \/ UNCHANGED vars \/ \E c \in Calls : CallStep(c)
  BY <1>1, <1>7, CallsAlone DEF Restart, vars, chainVars
<1>. QED BY <1>0, <1>2, <1>3, <1>4, <1>5, <1>6, <1>7 DEF Next

LEMMA ToldStays ==
  ASSUME Inv, [Next]_vars, NEW a \in Agents, NEW s, Told(a, s)
  PROVE  Told(a, s)'
<1>1. /\ Height \in Nat /\ Height' \in Nat /\ Height <= Height'
      /\ \A n \in 1..Height : blocks'[n] = blocks[n]
  BY History
<1>2. s.block \in 0..Height' /\ (s.block # 0 => blocks'[s.block] = blocks[s.block])
  BY <1>1 DEF Told
<1>. QED BY <1>2 DEF Told, IsTrue, Fits

\* Headroom as the read computes it, amount by amount, against the test the
\* registry makes of a payment.
LEMMA LeftFits ==
  ASSUME NEW cap \in Nat, NEW spent \in Nat, NEW held \in Nat,
         NEW amount \in Nat \ {0}
  PROVE  amount <= Left(cap, spent, held) <=> spent + held + amount <= cap
BY DEF Left

LEMMA ToldNew ==
  ASSUME Inv, NEW a \in Agents, NEW n \in 1..Height,
         NEW build \in {"legacy", "current"}
  PROVE  Told(a, ToSnapshot(a, n, build)) /\ ToSnapshot(a, n, build).block = n
<1>1. blocks[n] \in Block /\ n \in Nat \ {0} /\ n \in 0..Height
  BY TypeParts, LatestTyped DEF Inv, ChainTyped
<1>2. PICK b \in Block : b = blocks[n] /\ b = ReadFrom(n)
  BY <1>1, TypeParts, PinnedRead DEF Inv, ChainTyped
<1>3. PICK s : s = ToSnapshot(a, n, build)
  OBVIOUS
<1>4. PICK held : held = IF build = "current" THEN HeldIn(b, a) ELSE 0
  OBVIOUS
<1>5. SpentIn(b, a) \in Nat /\ held \in Nat /\ b.of[a].cap \in Nat
      /\ b.of[a].exists \in BOOLEAN
  BY <1>4, FiguresTyped DEF Block, Policy
<1>6. CASE b.of[a].exists
  <2>1. s = [exists |-> TRUE, cap |-> b.of[a].cap, spent |-> SpentIn(b, a),
             left |-> Left(b.of[a].cap, SpentIn(b, a), held), block |-> n,
             abi |-> build]
    BY <1>2, <1>3, <1>4, <1>6 DEF ToSnapshot
  <2>2. ASSUME NEW amount \in 1..(s.cap + 1)
        PROVE  (amount <= s.left) = Fits(b, a, amount, s.abi = "current")
    <3>1. amount \in Nat \ {0}
      BY <1>5, <2>1
    <3>2. Fits(b, a, amount, s.abi = "current")
            <=> SpentIn(b, a) + held + amount <= b.of[a].cap
      BY <1>4, <1>6, <2>1 DEF Fits, SpentIn, HeldIn
    <3>3. amount <= s.left <=> SpentIn(b, a) + held + amount <= b.of[a].cap
      BY <1>5, <2>1, <3>1, LeftFits
    <3>4. CASE amount <= s.left
      <4>1. (amount <= s.left) = TRUE
        BY <3>4
      <4>2. Fits(b, a, amount, s.abi = "current") = TRUE
        BY <3>2, <3>3, <3>4 DEF Fits
      <4>. QED BY <4>1, <4>2, Zenon
    <3>5. CASE ~(amount <= s.left)
      <4>1. (amount <= s.left) = FALSE
        BY <3>5
      <4>2. Fits(b, a, amount, s.abi = "current") = FALSE
        BY <3>2, <3>3, <3>5 DEF Fits
      <4>. QED BY <4>1, <4>2, Zenon
    <3>. QED BY <3>4, <3>5
  <2>3. s.block = n /\ s.exists = b.of[a].exists
    BY <1>5, <1>6, <2>1
  <2>4. IsTrue(a, s)
    BY <1>2, <2>2, <2>3 DEF IsTrue
  <2>. QED BY <1>1, <1>3, <2>3, <2>4 DEF Told
<1>7. CASE ~b.of[a].exists
  <2>1. s = [Zeroed EXCEPT !.block = n, !.abi = build]
    BY <1>2, <1>3, <1>7 DEF ToSnapshot
  <2>2. s.exists = FALSE /\ s.cap = 0 /\ s.left = 0 /\ s.block = n
    BY <2>1 DEF Zeroed
  <2>3. \A amount \in 1..(s.cap + 1) :
          (amount <= s.left) = Fits(b, a, amount, s.abi = "current")
    BY <1>7, <2>2 DEF Fits
  <2>. QED BY <1>1, <1>2, <1>3, <1>5, <1>7, <2>2, <2>3 DEF Told, IsTrue
<1>. QED BY <1>6, <1>7

LEMMA ToldNothing ==
  ASSUME Inv, NEW a \in Agents
  PROVE  Told(a, Zeroed) /\ Told(a, Unread[a])
<1>1. Height \in Nat
  BY TypeParts, LatestTyped DEF Inv, ChainTyped
<1>. QED BY <1>1 DEF Told, IsTrue, Zeroed, Unread

LEMMA SnapshotsInit == Init => SnapshotsInv
<1>. SUFFICES ASSUME Init PROVE SnapshotsInv
  OBVIOUS
<1>1. Inv
  BY InitInv
<1>2. /\ cache = Unread /\ served = [c \in Calls |-> Unread]
      /\ code = [c \in Calls |-> "none"]
  BY DEF Init
<1>. QED BY <1>1, <1>2, ToldNothing DEF SnapshotsInv, Answered

\* A step that leaves what was read, or forgets it for the zeros that stand for nothing.
LEMMA SnapshotsStay ==
  ASSUME Inv, SnapshotsInv, [Next]_vars,
         \A a \in Agents : cache'[a] = cache[a] \/ cache'[a] = Zeroed,
         UNCHANGED served, \A c \in Calls : Answered(c)'
  PROVE  SnapshotsInv'
<1>1. ASSUME NEW a \in Agents, NEW s, Told(a, s)
      PROVE  Told(a, s)'
  BY <1>1, ToldStays
<1>2. \A a \in Agents : Told(a, Zeroed)'
  BY <1>1, ToldNothing
<1>3. ASSUME NEW a \in Agents PROVE Told(a, cache[a])'
  <2>1. PICK s : s = cache[a]
    OBVIOUS
  <2>2. PICK z : z = cache'[a]
    OBVIOUS
  <2>3. Told(a, s)'
    BY <1>1, <2>1 DEF SnapshotsInv
  <2>4. z = s \/ z = Zeroed
    BY <2>1, <2>2
  <2>5. Told(a, z)'
    BY <1>2, <2>3, <2>4
  <2>. QED BY <2>2, <2>5
<1>4. ASSUME NEW c \in Calls, NEW a \in Agents PROVE Told(a, served[c][a])'
  <2>1. PICK s : s = served[c][a]
    OBVIOUS
  <2>2. Told(a, s)'
    BY <1>1, <2>1 DEF SnapshotsInv
  <2>. QED BY <2>1, <2>2
<1>. QED BY <1>3, <1>4 DEF SnapshotsInv

\* The calls that answer a read.
LEMMA ReadsAreTold ==
  ASSUME Inv, SnapshotsInv, NEW c \in Calls, ReadPolicies(c) \/ ReadFails(c)
  PROVE  SnapshotsInv'
<1>0. /\ CallsTyped /\ MemoTyped /\ CallFits(c) /\ [Next]_vars
      /\ pinned[c] \in 1..Height
  BY TypeParts DEF Inv, CallFits, ReadPolicies, ReadFails, Next, CallStep
<1>1. ASSUME NEW a \in Agents, NEW s, Told(a, s)
      PROVE  Told(a, s)'
  BY <1>0, <1>1, ToldStays
<1>2. ASSUME NEW d \in Calls \ {c}
      PROVE  Answered(d)' /\ served'[d] = served[d]
  <2>1. CallsBut(c)
    BY CallsAlone DEF CallStep
  <2>2. Answered(d)
    BY DEF SnapshotsInv
  <2>. QED BY <2>1, <2>2 DEF CallsBut, Answered
<1>3. \A a \in Agents : Told(a, served'[c][a]) /\ Told(a, cache'[a])
  <2>1. CASE ReadPolicies(c)
    <3>1. abi[c] \in {"legacy", "current"}
      BY <1>0, <2>1 DEF ReadPolicies, CallFits, CallsTyped
    <3>2. \A a \in Agents : Told(a, Snapshots(c)[a])
      BY <1>0, <3>1, ToldNew, ToldNothing DEF Snapshots
    <3>3. served'[c] = Snapshots(c)
      BY <1>0, <2>1 DEF ReadPolicies, CallsTyped
    <3>4. \A a \in Agents : cache'[a] = cache[a] \/ cache'[a] = Snapshots(c)[a]
      BY <2>1 DEF ReadPolicies
    <3>. QED BY <3>2, <3>3, <3>4 DEF SnapshotsInv
  <2>2. CASE ReadFails(c)
    <3>1. \A a \in Agents : served'[c][a] \in {served[c][a], cache[a], Zeroed}
      BY <1>0, <2>2 DEF ReadFails, CallsTyped
    <3>2. cache' = cache
      BY <2>2 DEF ReadFails, memoVars
    <3>. QED BY <3>1, <3>2, ToldNothing DEF SnapshotsInv
  <2>. QED BY <2>1, <2>2
<1>4. Answered(c)'
  <2>1. CASE ReadPolicies(c)
    <3>1. abi[c] \in {"legacy", "current"} /\ pinned[c] > 0
      BY <1>0, <2>1, History DEF ReadPolicies, CallFits, CallsTyped
    <3>2. served'[c] = Snapshots(c) /\ UNCHANGED <<about, pinned>>
      BY <1>0, <2>1 DEF ReadPolicies, CallsTyped
    <3>3. \A a \in Agents : a \in about[c] => Snapshots(c)[a].block = pinned[c]
      BY <1>0, <3>1, ToldNew DEF Snapshots
    <3>4. about[c] \subseteq Agents
      BY <1>0 DEF CallsTyped
    <3>. QED BY <3>1, <3>2, <3>3, <3>4 DEF Answered
  <2>2. CASE ReadFails(c)
    <3>1. c \in hit'
      BY <2>2 DEF ReadFails, Fault
    <3>2. job' = job /\ (job[c].kind # "list" => code'[c] = "503")
      BY <1>0, <2>2 DEF ReadFails, Answers, Goes, readFrame, CallsTyped
    <3>. QED BY <3>1, <3>2 DEF Answered
  <2>. QED BY <2>1, <2>2
<1>5. ASSUME NEW a \in Agents PROVE Told(a, cache[a])'
  <2>1. PICK z : z = cache'[a]
    OBVIOUS
  <2>2. Told(a, z)'
    BY <1>1, <1>3, <2>1
  <2>. QED BY <2>1, <2>2
<1>6. ASSUME NEW d \in Calls, NEW a \in Agents PROVE Told(a, served[d][a])'
  <2>1. PICK z : z = served'[d][a]
    OBVIOUS
  <2>2. Told(a, z)
    BY <1>2, <1>3, <2>1 DEF SnapshotsInv
  <2>3. Told(a, z)'
    BY <1>1, <2>2
  <2>. QED BY <2>1, <2>3
<1>. QED BY <1>2, <1>4, <1>5, <1>6 DEF SnapshotsInv

LEMMA SnapshotsNext == Inv /\ SnapshotsInv /\ [Next]_vars => SnapshotsInv'
<1>. SUFFICES ASSUME Inv, SnapshotsInv, [Next]_vars PROVE SnapshotsInv'
  OBVIOUS
<1>0. CallsTyped /\ MemoTyped
  BY TypeParts DEF Inv
<1>1. ASSUME UNCHANGED <<job, about, served, pinned, code>>, hit \subseteq hit',
             \A a \in Agents : cache'[a] = cache[a] \/ cache'[a] = Zeroed
      PROVE  SnapshotsInv'
  BY <1>1, SnapshotsStay DEF SnapshotsInv, Answered
<1>2. CASE \/ MineNext \/ NewDay
           \/ \E a \in Agents : Guard(a) \/ AnyoneApplies(a) \/ Ripen(a)
  BY <1>1, <1>2 DEF MineNext, NewDay, Guard, AnyoneApplies, Ripen, serverFrame,
     readVars, memoVars
<1>3. CASE \E a \in Agents : WatchPolicySet(a) \/ CacheExpires(a)
  BY <1>1, <1>3 DEF WatchPolicySet, CacheExpires, readVars, memoVars
<1>4. CASE Restart
  BY <1>1, <1>4 DEF Restart, readVars, Unread
<1>5. CASE UNCHANGED vars
  BY <1>1, <1>5 DEF vars, readVars, memoVars
<1>6. ASSUME NEW c \in Calls, CallStep(c), ~ReadPolicies(c), ~ReadFails(c)
      PROVE  SnapshotsInv'
  <2>1. /\ UNCHANGED served
        /\ \A a \in Agents : cache'[a] = cache[a] \/ cache'[a] = Zeroed
    BY <1>6 DEF CallStep, Post, FindAgents, FindAgentsFails, ReadBlock, Probe,
       ReadPending, MintWallet, Submit, SubmitFails, CreateRow, CreateRowFails,
       Record, RecordFails, memoVars, readVars, writeFrame
  <2>2. ASSUME NEW d \in Calls \ {c} PROVE Answered(d)'
    <3>1. Answered(d)
      BY DEF SnapshotsInv
    <3>. QED BY <1>6, <3>1, CallsAlone DEF CallsBut, Answered
  <2>3. Answered(c)'
    <3>1. CallFits(c) /\ CallFits(c)' /\ CallsTyped'
      BY NextInv, TypeParts DEF Inv
    <3>2. CASE Record(c)
      BY <1>0, <3>1, <3>2 DEF Record, CallFits, Answered, writeFrame
    <3>3. CASE \E j \in Requests : Post(c, j)
      BY <1>0, <3>1, <3>3 DEF Post, CallFits, Answered
    <3>4. CASE FindAgents(c) \/ ReadBlock(c) \/ Probe(c)
      BY <1>0, <3>1, <3>4 DEF FindAgents, ReadBlock, Probe, CallFits, Answered
    <3>5. CASE FindAgentsFails(c) \/ SubmitFails(c) \/ CreateRowFails(c)
               \/ RecordFails(c) \/ ReadPending(c)
      <4>1. UNCHANGED code \/ code'[c] # "200"
        BY <1>0, <3>5 DEF FindAgentsFails, SubmitFails, CreateRowFails,
           RecordFails, ReadPending, Answers, CallsTyped
      <4>2. pc[c] # "done"
        BY <3>5 DEF FindAgentsFails, SubmitFails, CreateRowFails,
           RecordFails, ReadPending
      <4>. QED BY <3>1, <4>1, <4>2 DEF CallFits, Answered
    <3>6. CASE MintWallet(c)
      <4>1. UNCHANGED code \/ code'[c] # "200"
        BY <1>0, <3>6 DEF MintWallet, Answers, CallsTyped
      <4>. QED BY <3>1, <3>6, <4>1 DEF MintWallet, CallFits, Answered
    <3>7. CASE Submit(c) \/ CreateRow(c)
      BY <3>1, <3>7 DEF Submit, CreateRow, CallFits, Answered
    <3>. QED BY <1>6, <3>2, <3>3, <3>4, <3>5, <3>6, <3>7 DEF CallStep
  <2>. QED BY <2>1, <2>2, <2>3, SnapshotsStay
<1>. QED BY <1>2, <1>3, <1>4, <1>5, <1>6, ReadsAreTold DEF Next

\* What the dashboard is told of a policy is what the registry would say at the
\* block it names, whatever changes, faults and calls there are, and an answer
\* no fault has touched is of the block its call pinned.
THEOREM SnapshotsTrue == Spec => []SnapshotsAreTrue
<1>1. Inv /\ SnapshotsInv => SnapshotsAreTrue
  BY DEF SnapshotsInv, Told, Answered, SnapshotsAreTrue
<1>. QED BY <1>1, InitInv, NextInv, SnapshotsInit, SnapshotsNext, PTL DEF Spec

-----------------------------------------------------------------------------
(* A cap below the day's spend *)

\* Of an agent nobody has registered there is nothing in any block.
NothingBefore ==
    \A n \in 1..Height : \A a \in Agents :
        a \notin minted \/ ~blocks[n].of[a].exists => blocks[n].of[a] = NoPolicy

\* An increase that waits is above the cap in force, and from the day after it
\* was scheduled not below the day's spend.
WaitsAbove(a) ==
    /\ Now(a).day <= Latest.day
    /\ Now(a).scheduled # 0 =>
         /\ Now(a).cap < Now(a).scheduled
         /\ Latest.day > Now(a).since => SpentIn(Latest, a) <= Now(a).scheduled
         /\ a \in ripe => Latest.day > Now(a).since

\* The route looked at a block in which the agent had not spent more.
Looked(c) ==
    (/\ pc[c] = "submit" \/ c \in submitted
     /\ job[c].kind \in {"set", "register"} /\ job[c].cap > 0)
    => /\ pinned[c] \in 1..Height
       /\ SpentIn(blocks[pinned[c]], job[c].agent) <= job[c].cap

IsOfItsCall(t) ==
    /\ t.call \in submitted /\ t.kind = job[t.call].kind
    /\ t.agent = job[t.call].agent /\ t.cap = job[t.call].cap
PoolFits == \A i \in DOMAIN pool : IsOfItsCall(pool[i])

\* One agent's share of the property.
Asked(c, a, cap) ==
    /\ c \in submitted /\ job[c].kind \in {"set", "register"}
    /\ job[c].agent = a /\ job[c].cap = cap
    /\ pinned[c] \in 1..(Height - 1)
    /\ SpentIn(blocks[pinned[c]], a) <= cap
Raced(a) ==
    0 < Now(a).cap /\ Now(a).cap < SpentIn(Latest, a) =>
      \E c \in Calls : Asked(c, a, Now(a).cap)

CapsInv ==
    /\ NothingBefore
    /\ \A a \in Agents : WaitsAbove(a) /\ Raced(a)
    /\ \A c \in Calls : Looked(c)
    /\ PoolFits

\* What was sent does not change, nor do the blocks it was asked of.
LEMMA SubmittedKeeps ==
  ASSUME Inv, [Next]_vars, NEW c \in submitted
  PROVE  /\ c \in Calls /\ c \in submitted'
         /\ job'[c] = job[c] /\ pinned'[c] = pinned[c]
<1>0. CallsTyped /\ c \in Calls /\ CallFits(c)
  BY TypeParts DEF Inv, CallsTyped
<1>1. CASE UNCHANGED <<job, pinned>> /\ submitted \subseteq submitted'
  BY <1>0, <1>1
<1>2. CASE \/ MineNext \/ NewDay \/ Restart \/ UNCHANGED vars
           \/ \E a \in Agents : \/ Guard(a) \/ AnyoneApplies(a) \/ Ripen(a)
                                \/ WatchPolicySet(a) \/ CacheExpires(a)
  BY <1>1, <1>2 DEF MineNext, NewDay, Guard, AnyoneApplies, Ripen, serverFrame,
     readVars, WatchPolicySet, CacheExpires, Restart, vars
<1>3. ASSUME NEW d \in Calls, CallStep(d)
      PROVE  /\ c \in submitted' /\ job'[c] = job[c] /\ pinned'[c] = pinned[c]
  <2>1. CASE c # d
    BY <1>0, <1>3, <2>1, CallsAlone DEF CallsBut
  <2>2. CASE c = d
    <3>1. pc[d] \in {"row", "record", "done"}
      BY <1>0, <2>2 DEF CallFits
    <3>2. CreateRow(d) \/ CreateRowFails(d) \/ Record(d) \/ RecordFails(d)
      BY <1>3, <3>1 DEF CallStep, Post, FindAgents, FindAgentsFails, ReadBlock,
         Probe, ReadPolicies, ReadFails, ReadPending, MintWallet, Submit,
         SubmitFails
    <3>. QED BY <1>1, <3>2 DEF CreateRow, CreateRowFails, Record, RecordFails,
             writeFrame, readVars
  <2>. QED BY <2>1, <2>2
<1>. QED BY <1>0, <1>2, <1>3 DEF Next

\* While the cap and the day's spend stay, so does the race behind them.
LEMMA RacedStays ==
  ASSUME Inv, [Next]_vars, NEW a \in Agents, Raced(a),
         Now(a)'.cap = Now(a).cap, SpentIn(Latest, a)' = SpentIn(Latest, a)
  PROVE  Raced(a)'
<1>. SUFFICES ASSUME 0 < Now(a)'.cap /\ Now(a)'.cap < SpentIn(Latest, a)'
              PROVE  \E c \in Calls : Asked(c, a, Now(a).cap)'
  BY DEF Raced
<1>1. PICK c \in Calls : Asked(c, a, Now(a).cap)
  BY DEF Raced
<1>2. /\ c \in submitted' /\ job'[c] = job[c] /\ pinned'[c] = pinned[c]
  BY <1>1, SubmittedKeeps DEF Asked
<1>3. pinned[c] \in 1..(Height' - 1) /\ blocks'[pinned[c]] = blocks[pinned[c]]
  BY <1>1, History DEF Asked
<1>4. PICK cap : cap = Now(a).cap
  OBVIOUS
<1>5. Asked(c, a, cap)'
  BY <1>1, <1>2, <1>3, <1>4 DEF Asked, SpentIn
<1>. QED BY <1>4, <1>5

\* The day's spend in a block with one policy changed.
LEMMA AppendsFigures ==
  ASSUME Inv, NEW a \in Agents, NEW p \in Policy, Appends(a, p)
  PROVE  /\ Latest'.day = Latest.day /\ Latest.day \in Nat
         /\ \A x \in Agents : Now(x)' = IF x = a THEN p ELSE Now(x)
         /\ \A x \in Agents : SpentIn(Latest, x)' =
              IF x = a THEN IF p.day = Latest.day THEN p.spent ELSE 0
              ELSE SpentIn(Latest, x)
<1>1. blocks \in Seq(Block) /\ blocks # <<>>
  BY TypeParts DEF Inv, ChainTyped
<1>2. /\ Latest'.day = Latest.day
      /\ \A x \in Agents : Now(x)' = IF x = a THEN p ELSE Now(x)
  BY <1>1, AppendsBlock
<1>3. Latest.day \in Nat
  BY <1>1, LatestTyped DEF Block
<1>. QED BY <1>2, <1>3 DEF SpentIn, Now

\* Of the agents a block is not about, nothing changes.
LEMMA OthersStay ==
  ASSUME Inv, [Next]_vars, NEW x \in Agents, WaitsAbove(x), Raced(x),
         Now(x)' = Now(x), SpentIn(Latest, x)' = SpentIn(Latest, x),
         Latest'.day = Latest.day, x \in ripe' => x \in ripe
  PROVE  WaitsAbove(x)' /\ Raced(x)'
<1>1. Raced(x)'
  BY RacedStays
<1>. QED BY <1>1 DEF WaitsAbove

\* A payment or a reservation keeps to the cap.
LEMMA GuardKeeps ==
  ASSUME Inv, CapsInv, NEW a \in Agents, Guard(a)
  PROVE  /\ \A x \in Agents : WaitsAbove(x)' /\ Raced(x)'
         /\ \E p \in Policy : Appends(a, p) /\ p.exists /\ a \in minted
<1>0. /\ blocks \in Seq(Block) /\ blocks # <<>> /\ 0 \in Nat /\ [Next]_vars
      /\ Now(a) \in Policy /\ Latest \in Block /\ Height \in Nat \ {0}
      /\ ripe' = ripe /\ Now(a).exists
  BY TypeParts, LatestTyped DEF Inv, ChainTyped, Guard, Next
<1>1. /\ SpentIn(Latest, a) \in Nat /\ HeldIn(Latest, a) \in Nat
      /\ Latest.day \in Nat
  BY <1>0, FiguresTyped DEF Block
<1>2. a \in minted
  <2>1. Now(a) = blocks[Height].of[a]
    BY DEF Now, Latest
  <2>. QED BY <1>0, <2>1 DEF CapsInv, NothingBefore, NoPolicy
<1>3. PICK p \in Policy :
        /\ Appends(a, p) /\ p.exists /\ p.cap = Now(a).cap
        /\ p.scheduled = Now(a).scheduled /\ p.since = Now(a).since
        /\ \/ /\ p.day = Latest.day
              /\ p.spent = SpentIn(Latest, a) \/ p.spent <= Now(a).cap
           \/ p.day = Now(a).day /\ p.spent = Now(a).spent
  <2>1. CASE /\ SpentIn(Latest, a) + 1 <= Now(a).cap
             /\ Appends(a, [Rolled(a) EXCEPT !.spent = @ + 1])
    <3>1. PICK q \in Policy : q = [Rolled(a) EXCEPT !.spent = @ + 1]
      BY <1>0, PoliciesTyped
    <3>2. /\ q.exists = Now(a).exists /\ q.cap = Now(a).cap
          /\ q.scheduled = Now(a).scheduled /\ q.since = Now(a).since
          /\ q.day = Latest.day /\ q.spent = SpentIn(Latest, a) + 1
      BY <1>0, <3>1 DEF Rolled, Policy
    <3>. QED BY <1>0, <2>1, <3>1, <3>2
  <2>2. CASE Appends(a, [Rolled(a) EXCEPT !.held = @ + 1])
    <3>1. PICK q \in Policy : q = [Rolled(a) EXCEPT !.held = @ + 1]
      BY <1>0, PoliciesTyped
    <3>2. /\ q.exists = Now(a).exists /\ q.cap = Now(a).cap
          /\ q.scheduled = Now(a).scheduled /\ q.since = Now(a).since
          /\ q.day = Latest.day /\ q.spent = SpentIn(Latest, a)
      BY <1>0, <3>1 DEF Rolled, Policy
    <3>. QED BY <1>0, <2>2, <3>1, <3>2
  <2>3. CASE /\ HeldIn(Latest, a) > 0
             /\ Appends(a, [Now(a) EXCEPT !.held = @ - 1])
    <3>1. PICK q \in Policy : q = [Now(a) EXCEPT !.held = @ - 1]
      BY <1>0, <2>3, PoliciesTyped
    <3>2. /\ q.exists = Now(a).exists /\ q.cap = Now(a).cap
          /\ q.scheduled = Now(a).scheduled /\ q.since = Now(a).since
          /\ q.day = Now(a).day /\ q.spent = Now(a).spent
      BY <1>0, <3>1 DEF Policy
    <3>. QED BY <1>0, <2>3, <3>1, <3>2
  <2>. QED BY <2>1, <2>2, <2>3 DEF Guard
<1>4. /\ Latest'.day = Latest.day
      /\ \A x \in Agents : Now(x)' = IF x = a THEN p ELSE Now(x)
      /\ \A x \in Agents : SpentIn(Latest, x)' =
           IF x = a THEN IF p.day = Latest.day THEN p.spent ELSE 0
           ELSE SpentIn(Latest, x)
  BY <1>3, AppendsFigures
<1>5. /\ SpentIn(Latest, a)' = SpentIn(Latest, a) \/ SpentIn(Latest, a)' <= Now(a).cap
      /\ SpentIn(Latest, a)' \in Nat
  <2>1. SpentIn(Latest, a) = IF Now(a).day = Latest.day THEN Now(a).spent ELSE 0
    BY DEF SpentIn, Now
  <2>. QED BY <1>0, <1>1, <1>3, <1>4, <2>1 DEF Policy
<1>6. WaitsAbove(a) /\ Raced(a)
  BY DEF CapsInv
<1>7. WaitsAbove(a)'
  BY <1>0, <1>1, <1>3, <1>4, <1>5, <1>6 DEF WaitsAbove, Policy
<1>8. Raced(a)'
  <2>1. CASE SpentIn(Latest, a)' = SpentIn(Latest, a)
    BY <1>0, <1>3, <1>4, <1>6, <2>1, RacedStays
  <2>2. CASE SpentIn(Latest, a)' <= Now(a).cap
    BY <1>0, <1>3, <1>4, <1>5, <2>2 DEF Raced, Policy
  <2>. QED BY <1>5, <2>1, <2>2
<1>9. \A x \in Agents \ {a} : WaitsAbove(x)' /\ Raced(x)'
  BY <1>0, <1>4, OthersStay DEF CapsInv
<1>. QED BY <1>2, <1>3, <1>7, <1>8, <1>9

\* An increase that is applied was not below the day's spend.
LEMMA AppliedKeeps ==
  ASSUME Inv, CapsInv, [Next]_vars, NEW a \in Agents, IsDue(a),
         Appends(a, Applied(Now(a))), ripe' = ripe \ {a}
  PROVE  /\ \A x \in Agents : WaitsAbove(x)' /\ Raced(x)'
         /\ \E p \in Policy : Appends(a, p) /\ p.exists /\ a \in minted
<1>0. /\ blocks \in Seq(Block) /\ blocks # <<>> /\ 0 \in Nat
      /\ Now(a) \in Policy /\ Latest \in Block /\ Height \in Nat \ {0}
  BY TypeParts, LatestTyped DEF Inv, ChainTyped
<1>1. /\ SpentIn(Latest, a) \in Nat /\ Latest.day \in Nat
  BY <1>0, FiguresTyped DEF Block
<1>2. a \in minted
  <2>1. Now(a) = blocks[Height].of[a]
    BY DEF Now, Latest
  <2>. QED BY <1>0, <2>1 DEF CapsInv, NothingBefore, NoPolicy, IsDue
<1>3. PICK p \in Policy : p = Applied(Now(a))
  BY <1>0, PoliciesTyped
<1>4. /\ p.exists /\ p.cap = Now(a).scheduled /\ p.scheduled = 0
      /\ p.day = Now(a).day /\ p.spent = Now(a).spent
  BY <1>0, <1>3 DEF Applied, Enforced, Policy
<1>5. /\ Latest'.day = Latest.day
      /\ \A x \in Agents : Now(x)' = IF x = a THEN p ELSE Now(x)
      /\ \A x \in Agents : SpentIn(Latest, x)' =
           IF x = a THEN IF p.day = Latest.day THEN p.spent ELSE 0
           ELSE SpentIn(Latest, x)
  BY <1>3, AppendsFigures
<1>6. SpentIn(Latest, a)' = SpentIn(Latest, a)
  BY <1>4, <1>5 DEF SpentIn, Now
<1>7. WaitsAbove(a) /\ SpentIn(Latest, a) <= Now(a).scheduled
  BY DEF CapsInv, WaitsAbove, IsDue
<1>8. WaitsAbove(a)' /\ Raced(a)'
  BY <1>0, <1>1, <1>4, <1>5, <1>6, <1>7 DEF WaitsAbove, Raced, Policy
<1>9. \A x \in Agents \ {a} : WaitsAbove(x)' /\ Raced(x)'
  BY <1>0, <1>5, OthersStay DEF CapsInv
<1>. QED BY <1>2, <1>3, <1>4, <1>8, <1>9

\* A cap that is set is one the call looked at first, or only scheduled.
LEMMA SetKeeps ==
  ASSUME Inv, CapsInv, [Next]_vars, NEW t \in Tx, pool # <<>>, t = Head(pool),
         t.kind \in {"set", "register"}, NEW a \in Agents, t.agent = a,
         Appends(a, SetCap(Now(a), t.cap)),
         ripe' = IF Now(a).exists /\ t.cap > Now(a).cap
                 THEN ripe \ {a} ELSE ripe
  PROVE  /\ \A x \in Agents : WaitsAbove(x)' /\ Raced(x)'
         /\ \E p \in Policy : Appends(a, p) /\ p.exists /\ a \in minted
<1>0. /\ blocks \in Seq(Block) /\ blocks # <<>> /\ a \in Agents /\ t.cap \in Nat
      /\ Now(a) \in Policy /\ Latest \in Block /\ Height \in Nat \ {0}
      /\ pool \in Seq(Tx)
  BY TypeParts, LatestTyped DEF Inv, ChainTyped, Tx
<1>1. /\ SpentIn(Latest, a) \in Nat /\ Latest.day \in Nat
  BY <1>0, FiguresTyped DEF Block
<1>2. a \in minted /\ IsOfItsCall(t)
  <2>1. 1 \in DOMAIN pool /\ t = pool[1]
    BY <1>0
  <2>. QED BY <2>1 DEF Inv, CapsInv, PoolFits
<1>3. PICK p \in Policy : p = SetCap(Now(a), t.cap)
  BY <1>0, PoliciesTyped
<1>4. p.exists /\ p.day = Now(a).day /\ p.spent = Now(a).spent
  BY <1>0, <1>3 DEF SetCap, Scheduled, Enforced, Policy
<1>5. /\ Latest'.day = Latest.day
      /\ \A x \in Agents : Now(x)' = IF x = a THEN p ELSE Now(x)
      /\ \A x \in Agents : SpentIn(Latest, x)' =
           IF x = a THEN IF p.day = Latest.day THEN p.spent ELSE 0
           ELSE SpentIn(Latest, x)
  BY <1>0, <1>3, AppendsFigures
<1>6. SpentIn(Latest, a)' = SpentIn(Latest, a)
  BY <1>0, <1>4, <1>5 DEF SpentIn, Now
<1>7. WaitsAbove(a) /\ Raced(a)
  BY <1>0 DEF CapsInv
<1>8. \A x \in Agents \ {a} : WaitsAbove(x)' /\ Raced(x)'
  BY <1>0, <1>5, OthersStay DEF CapsInv
<1>9. CASE Now(a).exists /\ t.cap > Now(a).cap
  <2>1. /\ p.cap = Now(a).cap /\ p.scheduled = t.cap /\ p.since = Latest.day
    BY <1>0, <1>3, <1>9 DEF SetCap, Scheduled, Policy
  <2>2. WaitsAbove(a)'
    BY <1>0, <1>1, <1>4, <1>5, <1>7, <1>9, <2>1 DEF WaitsAbove, Policy
  <2>3. Now(a)'.cap = Now(a).cap
    BY <1>0, <1>5, <2>1
  <2>4. Raced(a)'
    BY <1>0, <1>6, <1>7, <2>3, RacedStays
  <2>. QED BY <1>2, <1>3, <1>4, <1>8, <2>2, <2>4
<1>10. CASE ~(Now(a).exists /\ t.cap > Now(a).cap)
  <2>1. /\ p.cap = t.cap /\ p.scheduled = Now(a).scheduled
        /\ p.since = Now(a).since
    BY <1>0, <1>3, <1>10 DEF SetCap, Enforced, Policy
  <2>2. ~Now(a).exists => Now(a).scheduled = 0
    <3>1. Now(a) = blocks[Height].of[a]
      BY DEF Now, Latest
    <3>. QED BY <1>0, <3>1 DEF CapsInv, NothingBefore, NoPolicy
  <2>3. WaitsAbove(a)'
    BY <1>0, <1>1, <1>4, <1>5, <1>6, <1>7, <1>10, <2>1, <2>2 DEF WaitsAbove,
       Policy
  <2>4. Raced(a)'
    <3>1. CASE t.cap = 0
      BY <1>0, <1>5, <2>1, <3>1 DEF Raced
    <3>2. CASE t.cap > 0
      <4>1. /\ t.call \in Calls /\ Looked(t.call) /\ t.call \in submitted
            /\ job[t.call].kind \in {"set", "register"} /\ job[t.call].cap > 0
            /\ job[t.call].agent = a /\ job[t.call].cap = t.cap
        BY <1>2, <3>2 DEF CapsInv, IsOfItsCall, Tx
      <4>2. /\ pinned[t.call] \in 1..Height
            /\ SpentIn(blocks[pinned[t.call]], a) <= t.cap
        BY <4>1 DEF Looked
      <4>3. Height' = Height + 1
            /\ blocks'[pinned[t.call]] = blocks[pinned[t.call]]
        BY <1>0, <1>3, <4>2, AppendsBlock
      <4>4. /\ t.call \in submitted' /\ job'[t.call] = job[t.call]
            /\ pinned'[t.call] = pinned[t.call]
        BY <4>1, SubmittedKeeps
      <4>5. Asked(t.call, a, t.cap)'
        BY <1>0, <4>1, <4>2, <4>3, <4>4 DEF Asked, SpentIn
      <4>6. Now(a)'.cap = t.cap
        BY <1>0, <1>5, <2>1
      <4>7. Asked(t.call, a, Now(a).cap)'
        BY <4>5, <4>6 DEF Asked
      <4>. QED BY <4>1, <4>7 DEF Raced
    <3>. QED BY <1>0, <3>1, <3>2
  <2>. QED BY <1>2, <1>3, <1>4, <1>8, <2>3, <2>4
<1>. QED BY <1>9, <1>10

\* At midnight the day's spend is gone.
LEMMA NewDayKeeps ==
  ASSUME Inv, CapsInv, NewDay
  PROVE  \A x \in Agents : WaitsAbove(x)' /\ Raced(x)'
<1>0. blocks \in Seq(Block) /\ blocks # <<>> /\ Latest \in Block
      /\ Latest.day \in Nat
  BY TypeParts, LatestTyped DEF Inv, ChainTyped, Block
<1>1. /\ Latest'.day = Latest.day + 1 /\ \A x \in Agents : Now(x)' = Now(x)
      /\ ripe' = ripe
  BY <1>0, NewDayBlock DEF NewDay
<1>2. ASSUME NEW x \in Agents PROVE WaitsAbove(x)' /\ Raced(x)'
  <2>1. Now(x) \in Policy /\ WaitsAbove(x)
    BY <1>0, LatestTyped DEF CapsInv
  <2>2. SpentIn(Latest, x)' = 0
    <3>1. SpentIn(Latest, x)' =
            IF Now(x)'.day = Latest'.day THEN Now(x)'.spent ELSE 0
      BY DEF SpentIn, Now
    <3>. QED BY <1>0, <1>1, <2>1, <3>1 DEF WaitsAbove, Policy
  <2>. QED BY <1>0, <1>1, <2>1, <2>2 DEF WaitsAbove, Raced, Policy
<1>. QED BY <1>2

\* Whether the agents' caps keep to what was asked, step by step.
LEMMA AgentsKeep ==
  ASSUME Inv, CapsInv, [Next]_vars
  PROVE  \A x \in Agents : WaitsAbove(x)' /\ Raced(x)'
<1>0. blocks \in Seq(Block) /\ blocks # <<>> /\ pool \in Seq(Tx)
  BY TypeParts DEF Inv, ChainTyped
<1>1. CASE UNCHANGED blocks /\ \A x \in Agents :
             x \in ripe' => x \in ripe \/ Latest.day > Now(x).since
  <2>1. Latest' = Latest /\ \A x \in Agents : Now(x)' = Now(x)
    BY <1>1 DEF Latest, Height, Now
  <2>2. ASSUME NEW x \in Agents PROVE WaitsAbove(x)' /\ Raced(x)'
    <3>1. WaitsAbove(x) /\ Raced(x)
      BY DEF CapsInv
    <3>2. SpentIn(Latest, x)' = SpentIn(Latest, x)
      BY <2>1 DEF SpentIn
    <3>3. Raced(x)'
      BY <2>1, <3>1, <3>2, RacedStays
    <3>. QED BY <1>1, <2>1, <3>1, <3>2, <3>3 DEF WaitsAbove
  <2>. QED BY <2>2
<1>2. CASE MineNext
  <2>1. PICK t \in Tx : t = Head(pool) /\ t.agent \in Agents
    <3>1. pool # <<>> /\ Head(pool) \in Tx
      BY <1>0, <1>2, HeadTailProperties DEF MineNext
    <3>2. \A t \in Tx : t.agent \in Agents
      BY DEF Tx
    <3>. QED BY <3>1, <3>2
  <2>2. CASE /\ t.kind \in {"set", "register"}
             /\ Appends(t.agent, SetCap(Now(t.agent), t.cap))
             /\ ripe' = IF Now(t.agent).exists /\ t.cap > Now(t.agent).cap
                        THEN ripe \ {t.agent} ELSE ripe
    <3>1. PICK a \in Agents : a = t.agent
      BY <2>1
    <3>2. pool # <<>>
      BY <1>2 DEF MineNext
    <3>. QED BY <2>1, <2>2, <3>1, <3>2, SetKeeps
  <2>3. CASE /\ IsDue(t.agent) /\ Appends(t.agent, Applied(Now(t.agent)))
             /\ ripe' = ripe \ {t.agent}
    BY <2>1, <2>3, AppliedKeeps
  <2>4. CASE UNCHANGED <<blocks, ripe>>
    BY <1>1, <2>4
  <2>. QED BY <1>2, <2>1, <2>2, <2>3, <2>4 DEF MineNext
<1>3. ASSUME NEW a \in Agents, Guard(a) \/ AnyoneApplies(a)
      PROVE  \A x \in Agents : WaitsAbove(x)' /\ Raced(x)'
  BY <1>3, GuardKeeps, AppliedKeeps DEF AnyoneApplies
<1>4. ASSUME NEW a \in Agents, Ripen(a) \/ WatchPolicySet(a) \/ CacheExpires(a)
      PROVE  \A x \in Agents : WaitsAbove(x)' /\ Raced(x)'
  BY <1>1, <1>4 DEF Ripen, WatchPolicySet, CacheExpires, chainVars
<1>5. CASE Restart \/ UNCHANGED vars \/ \E c \in Calls : CallStep(c)
  BY <1>1, <1>5, CallsAlone DEF Restart, vars, chainVars
<1>. QED BY <1>2, <1>3, <1>4, <1>5, NewDayKeeps DEF Next

\* The chain has nothing of an agent before its first policy.
LEMMA NothingStays ==
  ASSUME Inv, CapsInv, [Next]_vars
  PROVE  NothingBefore'
<1>0. /\ blocks \in Seq(Block) /\ blocks # <<>> /\ pool \in Seq(Tx)
      /\ Height \in Nat \ {0} /\ NothingBefore
      /\ \A x \in Agents : Now(x) = blocks[Height].of[x]
  BY TypeParts, LatestTyped DEF Inv, ChainTyped, CapsInv, Now, Latest
<1>1. minted \subseteq minted'
  BY CallsAlone
     DEF Next, MineNext, NewDay, Guard, AnyoneApplies, Ripen, serverFrame,
         WatchPolicySet, CacheExpires, Restart, vars
<1>2. CASE UNCHANGED blocks
  BY <1>0, <1>1, <1>2 DEF NothingBefore, Height
<1>3. ASSUME NEW a \in Agents, NEW p \in Policy, Appends(a, p), p.exists,
             a \in minted
      PROVE  NothingBefore'
  <2>1. /\ Height' = Height + 1 /\ blocks'[Height'] = Latest'
        /\ \A n \in 1..Height : blocks'[n] = blocks[n]
        /\ \A x \in Agents : Latest'.of[x] = IF x = a THEN p ELSE Now(x)
    BY <1>0, <1>3, AppendsBlock DEF Now
  <2>2. ASSUME NEW n \in 1..Height', NEW x \in Agents,
               x \notin minted' \/ ~blocks'[n].of[x].exists
        PROVE  blocks'[n].of[x] = NoPolicy
    <3>1. CASE n \in 1..Height
      BY <1>0, <1>1, <2>1, <2>2, <3>1 DEF NothingBefore
    <3>2. CASE n = Height'
      <4>1. x # a
        BY <1>1, <1>3, <2>1, <2>2, <3>2
      <4>2. blocks'[n].of[x] = blocks[Height].of[x]
        BY <1>0, <2>1, <3>2, <4>1
      <4>. QED BY <1>0, <1>1, <2>2, <4>2 DEF NothingBefore
    <3>. QED BY <1>0, <2>1, <3>1, <3>2
  <2>. QED BY <2>2 DEF NothingBefore
<1>4. CASE NewDay
  <2>1. /\ Height' = Height + 1 /\ blocks'[Height'] = Latest'
        /\ \A n \in 1..Height : blocks'[n] = blocks[n]
        /\ \A x \in Agents : Latest'.of[x] = Now(x)
    BY <1>0, <1>4, NewDayBlock DEF Now
  <2>2. ASSUME NEW n \in 1..Height', NEW x \in Agents,
               x \notin minted' \/ ~blocks'[n].of[x].exists
        PROVE  blocks'[n].of[x] = NoPolicy
    <3>1. CASE n \in 1..Height
      BY <1>0, <1>1, <2>1, <2>2, <3>1 DEF NothingBefore
    <3>2. CASE n = Height'
      <4>. blocks'[n].of[x] = blocks[Height].of[x]
        BY <1>0, <2>1, <3>2
      <4>. QED BY <1>0, <1>1, <2>2 DEF NothingBefore
    <3>. QED BY <1>0, <2>1, <3>1, <3>2
  <2>. QED BY <2>2 DEF NothingBefore
<1>5. CASE MineNext
  <2>1. PICK t \in Tx : t = Head(pool) /\ t.agent \in Agents
    <3>1. pool # <<>> /\ Head(pool) \in Tx
      BY <1>0, <1>5, HeadTailProperties DEF MineNext
    <3>2. \A t \in Tx : t.agent \in Agents
      BY DEF Tx
    <3>. QED BY <3>1, <3>2
  <2>2. CASE /\ t.kind \in {"set", "register"}
             /\ Appends(t.agent, SetCap(Now(t.agent), t.cap))
             /\ ripe' = IF Now(t.agent).exists /\ t.cap > Now(t.agent).cap
                        THEN ripe \ {t.agent} ELSE ripe
    <3>1. PICK a \in Agents : a = t.agent
      BY <2>1
    <3>2. pool # <<>>
      BY <1>5 DEF MineNext
    <3>3. \E p \in Policy : Appends(a, p) /\ p.exists /\ a \in minted
      BY <2>1, <2>2, <3>1, <3>2, SetKeeps
    <3>. QED BY <1>3, <3>3
  <2>3. CASE /\ IsDue(t.agent) /\ Appends(t.agent, Applied(Now(t.agent)))
             /\ ripe' = ripe \ {t.agent}
    BY <1>3, <2>1, <2>3, AppliedKeeps
  <2>. QED BY <1>2, <1>5, <2>1, <2>2, <2>3 DEF MineNext
<1>6. ASSUME NEW a \in Agents, Guard(a) \/ AnyoneApplies(a)
      PROVE  NothingBefore'
  <2>1. \E p \in Policy : Appends(a, p) /\ p.exists /\ a \in minted
    BY <1>6, GuardKeeps, AppliedKeeps DEF AnyoneApplies
  <2>. QED BY <1>3, <2>1
<1>7. ASSUME NEW a \in Agents, Ripen(a) \/ WatchPolicySet(a) \/ CacheExpires(a)
      PROVE  NothingBefore'
  BY <1>2, <1>7 DEF Ripen, WatchPolicySet, CacheExpires, chainVars
<1>8. CASE Restart \/ UNCHANGED vars \/ \E c \in Calls : CallStep(c)
  BY <1>2, <1>8, CallsAlone DEF Restart, vars, chainVars
<1>. QED BY <1>4, <1>5, <1>6, <1>7, <1>8 DEF Next

\* What is in the pool is what a call sent.
LEMMA PoolStays ==
  ASSUME Inv, CapsInv, [Next]_vars
  PROVE  PoolFits'
<1>0. pool \in Seq(Tx) /\ PoolFits
  BY TypeParts DEF Inv, ChainTyped, CapsInv
<1>1. ASSUME NEW t, IsOfItsCall(t)
      PROVE  IsOfItsCall(t)'
  BY <1>1, SubmittedKeeps DEF IsOfItsCall
<1>2. ASSUME NEW t,
             \A i \in DOMAIN pool' :
                \/ \E j \in DOMAIN pool : pool'[i] = pool[j]
                \/ pool'[i] = t /\ IsOfItsCall(t)'
      PROVE  PoolFits'
  <2>1. ASSUME NEW i \in DOMAIN pool'
        PROVE  IsOfItsCall(pool[i])'
    <3>1. PICK u : u = pool'[i]
      OBVIOUS
    <3>2. IsOfItsCall(u)'
      BY <1>0, <1>1, <1>2, <3>1 DEF PoolFits
    <3>. QED BY <3>1, <3>2
  <2>. QED BY <2>1 DEF PoolFits
<1>3. CASE pool' = pool
  BY <1>2, <1>3
<1>4. CASE MineNext
  <2>1. pool # <<>> /\ pool' = Tail(pool)
    BY <1>4 DEF MineNext
  <2>2. \A i \in DOMAIN pool' : i + 1 \in DOMAIN pool /\ pool'[i] = pool[i + 1]
    BY <1>0, <2>1, HeadTailProperties, LenProperties
  <2>. QED BY <1>2, <2>2
<1>5. ASSUME NEW c \in Calls, CallStep(c), pc[c] = "submit", Sends(c)
      PROVE  PoolFits'
  <2>1. PICK t \in Tx : /\ pool' = Append(pool, t) /\ t.call = c
                        /\ t.kind = job[c].kind /\ t.agent = job[c].agent
                        /\ t.cap = job[c].cap
    BY <1>5, SendsTx
  <2>2. c \in submitted' /\ UNCHANGED job
    BY <1>5 DEF Sends, CallStep, Post, FindAgents, FindAgentsFails, ReadBlock,
       Probe, ReadPolicies, ReadFails, ReadPending, MintWallet, Submit,
       SubmitFails, CreateRow, CreateRowFails, Record, RecordFails
  <2>3. IsOfItsCall(t)'
    BY <2>1, <2>2 DEF IsOfItsCall
  <2>4. \A i \in DOMAIN pool' : \/ i \in DOMAIN pool /\ pool'[i] = pool[i]
                               \/ pool'[i] = t
    BY <1>0, <2>1
  <2>. QED BY <1>2, <2>3, <2>4
<1>6. CASE \/ NewDay \/ Restart \/ UNCHANGED vars
           \/ \E a \in Agents : \/ Guard(a) \/ AnyoneApplies(a) \/ Ripen(a)
                                \/ WatchPolicySet(a) \/ CacheExpires(a)
  BY <1>3, <1>6 DEF NewDay, Guard, AnyoneApplies, Ripen, WatchPolicySet,
     CacheExpires, Restart, vars, chainVars
<1>7. CASE \E c \in Calls : CallStep(c)
  BY <1>3, <1>5, <1>7, CallsAlone
<1>. QED BY <1>4, <1>6, <1>7 DEF Next

\* Nobody sends a cap below what the agent had spent when the route looked.
LEMMA LookedStays ==
  ASSUME Inv, CapsInv, [Next]_vars, NEW c \in Calls
  PROVE  Looked(c)'
<1>0. /\ CallsTyped /\ MemoTyped /\ CallFits(c) /\ Looked(c)
      /\ blocks \in Seq(Block) /\ blocks # <<>> /\ NothingBefore
  BY TypeParts DEF Inv, ChainTyped, CapsInv
<1>1. ASSUME NEW j \in Job, NEW n \in 1..Height, job'[c] = j, pinned'[c] = n,
             j.kind \in {"set", "register"} =>
               SpentIn(blocks[n], j.agent) <= j.cap
      PROVE  Looked(c)'
  <2>1. n \in 1..Height' /\ blocks'[n] = blocks[n]
    BY History
  <2>. QED BY <1>1, <2>1 DEF Looked, SpentIn
<1>2. CASE /\ job'[c] = job[c] /\ pinned'[c] = pinned[c]
           /\ pc[c] = "submit" \/ c \in submitted
  <2>1. CASE job[c].kind \in {"set", "register"} /\ job[c].cap > 0
    BY <1>0, <1>1, <1>2, <2>1 DEF Looked, CallsTyped
  <2>2. CASE ~(job[c].kind \in {"set", "register"} /\ job[c].cap > 0)
    BY <1>2, <2>2 DEF Looked
  <2>. QED BY <2>1, <2>2
<1>3. CASE pc'[c] # "submit" /\ c \notin submitted'
  BY <1>3 DEF Looked
<1>4. ASSUME UNCHANGED <<job, pinned, submitted>>,
             UNCHANGED pc \/ pc'[c] = pc[c] \/ pc'[c] = "done"
      PROVE  Looked(c)'
  BY <1>2, <1>3, <1>4
<1>5. CASE \/ MineNext \/ NewDay \/ UNCHANGED vars
           \/ \E a \in Agents : \/ Guard(a) \/ AnyoneApplies(a) \/ Ripen(a)
                                \/ WatchPolicySet(a) \/ CacheExpires(a)
  BY <1>4, <1>5 DEF MineNext, NewDay, Guard, AnyoneApplies, Ripen, serverFrame,
     WatchPolicySet, CacheExpires, vars, readVars
<1>6. CASE Restart
  BY <1>4, <1>6 DEF Restart, readVars
<1>7. ASSUME NEW d \in Calls \ {c}, CallStep(d)
      PROVE  Looked(c)'
  <2>1. /\ job'[c] = job[c] /\ pinned'[c] = pinned[c] /\ pc'[c] = pc[c]
        /\ (c \in submitted' <=> c \in submitted)
    BY <1>7, CallsAlone DEF CallsBut
  <2>. QED BY <1>2, <1>3, <2>1
<1>8. CASE CallStep(c)
  <2>1. ASSUME NEW j \in Requests, Post(c, j) PROVE Looked(c)'
    <3>1. /\ job'[c] = j /\ pc'[c] = FirstStep(j) /\ c \notin submitted'
      BY <1>0, <2>1 DEF Post, Goes, CallsTyped, CallFits
    <3>2. pc'[c] = "submit" => j.kind \notin {"set", "register"} \/ j.cap = 0
      BY <3>1 DEF FirstStep
    <3>. QED BY <3>1, <3>2 DEF Looked
  <2>2. CASE ReadPolicies(c)
    <3>1. /\ UNCHANGED <<job, pinned, submitted>> /\ pinned[c] \in 1..Height
          /\ job[c] \in Job /\ pc[c] = "call" /\ c \notin submitted
      BY <1>0, <2>2 DEF ReadPolicies, readFrame, CallFits, CallsTyped
    <3>2. CASE job[c].kind = "set" /\ ~BelowSpent(job[c].cap, Snapshots(c)[job[c].agent])
      <4>1. PICK a \in Agents : a = job[c].agent /\ about[c] = {a}
        BY <1>0, <3>1, <3>2 DEF Inv, CallMeans, MemoTyped
      <4>2. PICK b \in Block : b = blocks[pinned[c]] /\ b = ReadFrom(pinned[c])
        BY <1>0, <3>1, LatestTyped, PinnedRead
      <4>3. Snapshots(c)[a] = ToSnapshot(a, pinned[c], abi[c])
        BY <4>1 DEF Snapshots
      <4>4. SpentIn(b, a) \in Nat /\ job[c].cap \in Nat
        BY <3>1, <4>2, FiguresTyped DEF Job
      <4>5. CASE b.of[a].exists
        <5>1. /\ Snapshots(c)[a].exists
              /\ Snapshots(c)[a].spent = SpentIn(b, a)
          BY <4>2, <4>3, <4>5 DEF ToSnapshot
        <5>2. SpentIn(b, a) <= job[c].cap
          BY <3>2, <4>1, <4>4, <5>1 DEF BelowSpent
        <5>. QED BY <1>1, <3>1, <4>1, <4>2, <5>2
      <4>6. CASE ~b.of[a].exists
        <5>1. b.of[a] = NoPolicy
          BY <1>0, <3>1, <4>2, <4>6 DEF NothingBefore
        <5>2. SpentIn(b, a) = 0
          BY <5>1 DEF SpentIn, NoPolicy
        <5>3. SpentIn(b, a) <= job[c].cap
          BY <4>4, <5>2
        <5>. QED BY <1>1, <3>1, <4>1, <4>2, <5>3
      <4>. QED BY <4>5, <4>6
    <3>3. CASE \E status \in Codes : Answers(c, status)
      BY <1>0, <1>3, <3>1, <3>3 DEF Answers, Goes, CallsTyped
    <3>. QED BY <2>2, <3>2, <3>3 DEF ReadPolicies, Codes
  <2>3. CASE MintWallet(c)
    <3>1. PICK a \in Agents \ minted :
            \/ job' = [job EXCEPT ![c].agent = a]
            \/ Answers(c, "502")
      BY <2>3 DEF MintWallet
    <3>2. /\ UNCHANGED <<pinned, submitted>> /\ pinned[c] \in 1..Height
          /\ c \notin submitted /\ job[c] \in Job
      BY <1>0, <2>3 DEF MintWallet, readVars, CallFits, CallsTyped
    <3>3. CASE job' = [job EXCEPT ![c].agent = a]
      <4>1. PICK j \in Job : j = job'[c] /\ j.agent = a /\ j.cap \in Nat
        <5>1. [job[c] EXCEPT !.agent = a] \in Job
          BY <3>1, <3>2 DEF Job
        <5>2. [job[c] EXCEPT !.agent = a].agent = a
              /\ [job[c] EXCEPT !.agent = a].cap \in Nat
          BY <3>2 DEF Job
        <5>. QED BY <1>0, <3>3, <5>1, <5>2 DEF CallsTyped
      <4>2. blocks[pinned[c]].of[a] = NoPolicy
        BY <1>0, <3>1, <3>2 DEF NothingBefore
      <4>3. SpentIn(blocks[pinned[c]], a) = 0
        BY <4>2 DEF SpentIn, NoPolicy
      <4>4. SpentIn(blocks[pinned[c]], j.agent) <= j.cap
        BY <4>1, <4>3
      <4>. QED BY <1>1, <3>2, <4>1, <4>4
    <3>4. CASE Answers(c, "502")
      BY <1>0, <1>3, <3>2, <3>4 DEF Answers, Goes, CallsTyped
    <3>. QED BY <3>1, <3>3, <3>4
  <2>4. CASE ReadPending(c)
    <3>1. /\ UNCHANGED <<job, submitted>> /\ job[c].kind = "apply"
      BY <1>0, <2>4 DEF ReadPending, readFrame, CallFits
    <3>. QED BY <3>1 DEF Looked
  <2>5. CASE FindAgents(c) \/ FindAgentsFails(c) \/ ReadBlock(c) \/ Probe(c)
             \/ ReadFails(c)
    <3>1. /\ UNCHANGED submitted /\ pc[c] \in {"rows", "pending", "block", "probe", "call"}
          /\ pc'[c] \in {"block", "done", "probe", "call"}
      BY <1>0, <2>5 DEF FindAgents, FindAgentsFails, ReadBlock, Probe,
         ReadFails, readFrame, Answers, Goes, CallsTyped
    <3>. QED BY <1>0, <1>3, <3>1 DEF CallFits
  <2>6. CASE \/ Submit(c) \/ SubmitFails(c) \/ CreateRow(c) \/ CreateRowFails(c)
             \/ Record(c) \/ RecordFails(c)
    <3>1. /\ UNCHANGED <<job, pinned>>
          /\ pc[c] = "submit" \/ submitted' = submitted
          /\ pc'[c] # "submit"
      BY <1>0, <2>6 DEF Submit, SubmitFails, CreateRow, CreateRowFails, Record,
         RecordFails, writeFrame, readVars, Answers, Goes, CallsTyped
    <3>. QED BY <1>2, <1>3, <3>1
  <2>. QED BY <1>8, <2>1, <2>2, <2>3, <2>4, <2>5, <2>6 DEF CallStep
<1>. QED BY <1>5, <1>6, <1>7, <1>8 DEF Next

LEMMA CapsNext == Inv /\ CapsInv /\ [Next]_vars => CapsInv'
BY AgentsKeep, NothingStays, PoolStays, LookedStays DEF CapsInv

LEMMA CapsInit == Init => CapsInv
<1>. SUFFICES ASSUME Init PROVE CapsInv
  OBVIOUS
<1>0. PICK cap \in Caps : blocks = <<[day |-> 1, of |-> [a \in Agents |->
        IF a \in minted THEN [NoPolicy EXCEPT !.exists = TRUE, !.cap = cap]
                        ELSE NoPolicy]]>>
  BY DEF Init
<1>1. PICK y :
        /\ blocks = <<y>>
        /\ y = [day |-> 1, of |-> [a \in Agents |->
             IF a \in minted
             THEN [NoPolicy EXCEPT !.exists = TRUE, !.cap = cap] ELSE NoPolicy]]
  BY <1>0
<1>2. /\ Height = 1 /\ Latest = y /\ blocks[1] = y
      /\ \A a \in Agents : Now(a) = y.of[a]
  BY <1>1 DEF Height, Latest, Now
<1>3. Latest.day = 1 /\ \A a \in Agents :
        /\ Now(a).day = 0 /\ Now(a).scheduled = 0
        /\ Now(a).exists => a \in minted
        /\ a \in minted => Now(a).exists
        /\ a \notin minted => Now(a) = NoPolicy
  <2>1. Latest.day = 1
    BY <1>1, <1>2
  <2>2. ASSUME NEW a \in Agents
        PROVE  Now(a) = IF a \in minted
                        THEN [NoPolicy EXCEPT !.exists = TRUE, !.cap = cap]
                        ELSE NoPolicy
    BY <1>1, <1>2
  <2>3. PICK first : first = [NoPolicy EXCEPT !.exists = TRUE, !.cap = cap]
    OBVIOUS
  <2>4. first.day = 0 /\ first.scheduled = 0 /\ first.exists = TRUE
    BY <2>3 DEF NoPolicy
  <2>5. NoPolicy.day = 0 /\ NoPolicy.scheduled = 0 /\ NoPolicy.exists = FALSE
    BY DEF NoPolicy
  <2>. QED BY <2>1, <2>2, <2>3, <2>4, <2>5
<1>4. NothingBefore
  <2>1. \A n \in 1..Height : n = 1
    BY <1>2
  <2>. QED BY <1>2, <1>3, <2>1 DEF NothingBefore
<1>5. \A a \in Agents : SpentIn(Latest, a) = 0
  <2>1. ASSUME NEW a \in Agents PROVE SpentIn(Latest, a) = 0
    <3>1. Latest.of[a].day = 0 /\ Latest.day = 1
      BY <1>3 DEF Now
    <3>2. Latest.of[a].day # Latest.day
      BY <3>1
    <3>. QED BY <3>2 DEF SpentIn
  <2>. QED BY <2>1
<1>6. ASSUME NEW a \in Agents PROVE WaitsAbove(a) /\ Raced(a)
  <2>1. Now(a).cap \in Nat
    BY InitInv, LatestTyped, TypeParts DEF Inv, ChainTyped, Policy
  <2>2. Now(a).day = 0 /\ Now(a).scheduled = 0 /\ Latest.day = 1
    BY <1>3
  <2>3. WaitsAbove(a)
    BY <2>2 DEF WaitsAbove
  <2>4. ~(0 < Now(a).cap /\ Now(a).cap < SpentIn(Latest, a))
    BY <1>5, <2>1
  <2>. QED BY <2>3, <2>4 DEF Raced
<1>7. (\A c \in Calls : Looked(c)) /\ PoolFits
  BY DEF Init, Looked, PoolFits
<1>. QED BY <1>4, <1>6, <1>7 DEF CapsInv

\* A cap below what the agent has spent today is one that was not below it in
\* the block the route looked at, or for a registration began in: for any number
\* of agents, calls, caps and days, with increases scheduled and applied between.
THEOREM LoweringRaced == Spec => []LoweringIsRaced
<1>1. Inv /\ CapsInv => LoweringIsRaced
  BY DEF CapsInv, Raced, Asked, LoweringIsRaced
<1>. QED BY <1>1, InitInv, NextInv, CapsInit, CapsNext, PTL DEF Spec
=============================================================================
