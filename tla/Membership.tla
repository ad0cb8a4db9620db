----------------------------- MODULE Membership -----------------------------
(***************************************************************************)
(* One organisation's members and the approvers its SpendGuard knows: the  *)
(* role, removal and heal routes (routes/auth/members.ts), the grant step  *)
(* they share (chain/approverSync.ts), invitations (auth/invites.ts,       *)
(* routes/auth/invites.ts), Clerk's webhooks (routes/webhooks.ts) and the  *)
(* embedded wallets (auth/wallet.ts).  Every await is a step; users are    *)
(* the targets of the calls, whose callers are owners or administrators.   *)
(***************************************************************************)
EXTENDS Integers, Sequences

CONSTANTS
    Users,
    Calls,              \* calls of the member routes, each made at most once
    Claims,             \* logins that claim invitations, or accept one
    Provisions,         \* requests that find no wallet and ask Circle for one
    Roles,              \* the roles tried
    MaxWallets,         \* bound: wallets Circle creates for a user
    MaxOutside,         \* bound: webhooks, invitations, other organisations
    MaxFaults           \* bound: statements refused, answers lost, restarts

Wallets == Users \X (1..MaxWallets)
NoWallet == <<>>
NoUser == "nobody"
NoRole == "none"

ASSUME MembershipAssumption ==
    /\ Roles \subseteq {"owner", "admin", "approver", "viewer"}
    /\ NoUser \notin Users
    /\ MaxWallets \in Nat \ {0} /\ {MaxOutside, MaxFaults} \subseteq Nat

VARIABLES
    member, rowId,          \* memberships: role, and the row's identity
    wallet, minted,         \* users.wallet, and the wallets Circle has made
    invite,                 \* invitations
    operatorActions,        \* operator_actions, as <<call, user>>
    approvers, pool,        \* SpendGuard.approvers, the admin's transactions
    pc, job, seen, tasks,   \* the calls
    claim, provision,       \* the logins and the wallet requests
    cooling,                \* users in the wallet cooldown
    submitted, disturbed, doubtful, admitted, hit,  \* observation
    outside, faults

dbVars == <<member, rowId, wallet, invite, operatorActions>>
chainVars == <<approvers, pool, submitted>>
callVars == <<pc, job, seen, tasks>>
loginVars == <<claim, provision, cooling, minted>>
inviteSeen == <<doubtful, admitted>>
seenVars == <<disturbed, hit>>
boundVars == <<outside, faults>>
vars == <<dbVars, chainVars, callVars, loginVars, inviteSeen, seenVars,
          boundVars>>

\* owner, admin and approver hold an on-chain grant.
ExpectsOnChainApproval(role) == role \in {"owner", "admin", "approver"}

\* Whose wallet holds another grant than the role here expects.
OutOfStep ==
    {u \in Users : wallet[u] # NoWallet
        /\ (wallet[u] \in approvers) # ExpectsOnChainApproval(member[u])}

Kinds == {"role", "remove", "heal"}
Steps == {"idle", "target", "wallet", "list", "compare", "submit", "write",
          "record", "done"}
Job == [kind : Kinds, user : Users \union {NoUser},
        role : Roles \union {NoRole}, owner : BOOLEAN]
NoJob == [kind |-> "heal", user |-> NoUser, role |-> NoRole, owner |-> FALSE]
Task == [user : Users, wallet : Wallets, allowed : BOOLEAN]
Row == [user : Users, role : Roles, id : Nat,
        wallet : Wallets \union {NoWallet}]
NoInvite == [state |-> "none", role |-> NoRole, id |-> 0]
Idle == [pc |-> "idle", user |-> NoUser, got |-> NoInvite]
Waiting == [pc |-> "idle", user |-> NoUser, got |-> NoWallet]

TypeOK ==
    /\ member \in [Users -> Roles \union {NoRole}]
    /\ rowId \in [Users -> Nat]
    /\ wallet \in [Users -> Wallets \union {NoWallet}]
    /\ minted \in [Users -> 0..MaxWallets]
    /\ \A u \in Users :
         /\ invite[u].state \in {"none", "pending", "accepted"}
         /\ invite[u].role \in Roles \union {NoRole}
    /\ operatorActions \subseteq Calls \X Users
    /\ approvers \subseteq Wallets
    /\ pool \in Seq([wallet : Wallets, allowed : BOOLEAN])
    /\ pc \in [Calls -> Steps]
    /\ job \in [Calls -> Job]
    /\ \A a \in Calls : seen[a] \subseteq Row /\ tasks[a] \subseteq Task
    /\ \A k \in Claims :
         claim[k].pc \in {"idle", "check", "create", "upsert", "mark"}
    /\ \A p \in Provisions : provision[p].pc \in {"idle", "create", "write"}
    /\ cooling \subseteq Users
    /\ disturbed \subseteq Users /\ doubtful \subseteq Users

\* The founder of an organisation is its owner without a grant, contracts of its
\* own start with no approver, and the grants of another organisation on the
\* same SpendGuard are there already.
Init ==
    /\ member \in [Users -> Roles \union {NoRole}]
    /\ rowId = [u \in Users |-> 0]
    /\ minted \in [Users -> {0, 1}]
    /\ wallet = [u \in Users |-> IF minted[u] = 0 THEN NoWallet ELSE <<u, 1>>]
    /\ invite \in [Users -> {NoInvite} \union
         {[state |-> "pending", role |-> r, id |-> 1] :
            r \in Roles \ {"owner"}}]
    /\ \A u \in Users : member[u] # NoRole => invite[u] = NoInvite
    /\ operatorActions = {}
    /\ approvers \in SUBSET {w \in Wallets : wallet[w[1]] = w}
    /\ pool = <<>>
    /\ pc = [a \in Calls |-> "idle"]
    /\ job = [a \in Calls |-> NoJob]
    /\ seen = [a \in Calls |-> {}]
    /\ tasks = [a \in Calls |-> {}]
    /\ claim = [k \in Claims |-> Idle]
    /\ provision = [p \in Provisions |-> Waiting]
    /\ cooling = {}
    /\ submitted = {}
    /\ disturbed = OutOfStep
    /\ doubtful = {}
    /\ admitted = [u \in Users |-> 0]
    /\ hit = {}
    /\ outside = 0
    /\ faults = 0

Fault == faults < MaxFaults /\ faults' = faults + 1
Outside == outside < MaxOutside /\ outside' = outside + 1

-----------------------------------------------------------------------------
(* The chain and the transactions of the admin relayer *)

\* submitAsAdmin: one queue per chain, so setApprover calls keep their order.
Submits(a, t) ==
    /\ pool' = Append(pool, [wallet |-> t.wallet, allowed |-> t.allowed])
    /\ submitted' = submitted \union {<<a, t.user>>}
    /\ UNCHANGED approvers

MineNext ==
    /\ pool # <<>>
    /\ LET t == Head(pool) IN
         approvers' = IF t.allowed THEN approvers \union {t.wallet}
                      ELSE approvers \ {t.wallet}
    /\ pool' = Tail(pool)
    /\ UNCHANGED <<submitted, dbVars, callVars, loginVars, inviteSeen, seenVars,
                   boundVars>>

IsPending(w) == \E i \in DOMAIN pool : pool[i].wallet = w

-----------------------------------------------------------------------------
(* The member routes *)

Concerns(j) == IF j.kind = "heal" THEN Users ELSE {j.user}
InFlight == {a \in Calls : pc[a] \notin {"idle", "done"}}
Busy(u) == \E a \in InFlight : u \in Concerns(job[a])

Goes(a, to) == pc' = [pc EXCEPT ![a] = to]
Disturbs(us) == disturbed' = disturbed \union us
TaskUsers(a) == {t.user : t \in tasks[a]}

callFrame == <<loginVars, inviteSeen>>

\* Two calls about one user at once read what the other is about to change.
Post(a, j) ==
    /\ pc[a] = "idle"
    /\ job' = [job EXCEPT ![a] = j]
    /\ Goes(a, IF j.kind = "heal" THEN "list" ELSE "target")
    /\ Disturbs({u \in Concerns(j) : Busy(u)})
    /\ UNCHANGED <<dbVars, chainVars, seen, tasks, callFrame, hit, boundVars>>

\* Only owners promote to owner, and only owners remove owners.
MayProceed(j, role) ==
    /\ role # NoRole
    /\ j.kind = "role" => j.role # role /\ (j.role = "owner" => j.owner)
    /\ j.kind = "remove" => (role = "owner" => j.owner)

ReadTarget(a) ==
    /\ pc[a] = "target"
    /\ LET u == job[a].user IN
         IF MayProceed(job[a], member[u])
         THEN /\ seen' = [seen EXCEPT ![a] =
                   {[user |-> u, role |-> member[u], id |-> rowId[u],
                     wallet |-> NoWallet]}]
              /\ Goes(a, "wallet")
         ELSE Goes(a, "done") /\ UNCHANGED seen
    /\ UNCHANGED <<dbVars, chainVars, job, tasks, callFrame, disturbed, hit,
                   boundVars>>

WantsGrant(j) == j.kind = "role" /\ ExpectsOnChainApproval(j.role)

\* Mutant of Crosses: only the way out of the signing roles is seen.
CrossesDownOnly(role, j) == ExpectsOnChainApproval(role) /\ ~WantsGrant(j)

Crosses(role, j) == ExpectsOnChainApproval(role) # WantsGrant(j)

\* The target's wallet decides whether there is anything to submit; without
\* one the row is written and the grant is left to a later heal.
ReadWallet(a) ==
    /\ pc[a] = "wallet"
    /\ \E row \in seen[a] :
         LET w == wallet[row.user]
             due == {t \in {[user |-> row.user, wallet |-> w,
                             allowed |-> WantsGrant(job[a])]} :
                      w # NoWallet /\ Crosses(row.role, job[a])}
         IN /\ tasks' = [tasks EXCEPT ![a] = due]
            /\ Goes(a, IF due = {} THEN "write" ELSE "submit")
    /\ UNCHANGED <<dbVars, chainVars, job, seen, callFrame, disturbed, hit,
                   boundVars>>

\* getApproverSyncStatus: the members first, then their grants in one multicall.
ListMembers(a) ==
    /\ pc[a] = "list"
    /\ seen' = [seen EXCEPT ![a] =
         {[user |-> u, role |-> member[u], id |-> rowId[u],
           wallet |-> wallet[u]] : u \in {v \in Users : member[v] # NoRole}}]
    /\ Goes(a, "compare")
    /\ UNCHANGED <<dbVars, chainVars, job, tasks, callFrame, disturbed, hit,
                   boundVars>>

\* A member without a wallet is skipped.
OutOfSync(rows) ==
    {row \in rows : row.wallet # NoWallet
        /\ (row.wallet \in approvers) # ExpectsOnChainApproval(row.role)}

\* A heal accounts for a member when what it listed is still so, nothing
\* pending may change the grant it read, and no other call is under way.
Accounts(a, row) ==
    /\ row.wallet # NoWallet /\ row.wallet = wallet[row.user]
    /\ row.role = member[row.user]
    /\ ~IsPending(row.wallet)
    /\ \A b \in InFlight \ {a} : row.user \notin Concerns(job[b])

Compare(a) ==
    /\ pc[a] = "compare"
    /\ LET drifted == OutOfSync(seen[a]) IN
         /\ tasks' = [tasks EXCEPT ![a] =
              {[user |-> row.user, wallet |-> row.wallet,
                allowed |-> ExpectsOnChainApproval(row.role)] : row \in drifted}]
         /\ Goes(a, IF drifted = {} THEN "done" ELSE "submit")
    /\ disturbed' = disturbed \
         {row.user : row \in {r \in seen[a] : Accounts(a, r)}}
    /\ UNCHANGED <<dbVars, chainVars, job, seen, callFrame, hit, boundVars>>

\* A read that fails is answered before anything was sent.
ReadFails(a) ==
    /\ pc[a] \in {"target", "wallet", "list", "compare"}
    /\ Fault
    /\ Goes(a, "done")
    /\ UNCHANGED <<dbVars, chainVars, job, seen, tasks, callFrame, disturbed, hit,
                   outside>>

\* setOnChainApprover comes before the row changes.
Submit(a) ==
    /\ pc[a] = "submit"
    /\ \E t \in tasks[a] :
         /\ Submits(a, t)
         /\ tasks' = [tasks EXCEPT ![a] = @ \ {t}]
         /\ job' = [job EXCEPT ![a].user = t.user]
    /\ Goes(a, IF job[a].kind = "heal" THEN "record" ELSE "write")
    /\ UNCHANGED <<dbVars, seen, callFrame, disturbed, hit, boundVars>>

\* Refused, it ends the call with a 503 and the row is untouched: no drift.  A
\* heal leaves the rest of its list, and what it has not repaired.
SubmitRefused(a) ==
    /\ pc[a] = "submit"
    /\ Fault
    /\ Goes(a, "done")
    /\ Disturbs(IF job[a].kind = "heal" THEN TaskUsers(a) ELSE {})
    /\ UNCHANGED <<dbVars, chainVars, job, seen, tasks, callFrame, hit, outside>>

\* The answer is lost and the transaction lives on.
SubmitUnanswered(a) ==
    /\ pc[a] = "submit"
    /\ Fault
    /\ \E t \in tasks[a] : Submits(a, t)
    /\ Goes(a, "done")
    /\ Disturbs(TaskUsers(a))
    /\ hit' = hit \union {a}
    /\ UNCHANGED <<dbVars, job, seen, tasks, callFrame, outside>>

HasSubmitted(a) == <<a, job[a].user>> \in submitted

\* Mutant of AfterWrite: the route answers without the operator's action.
AfterWriteUnsigned(a) == "done"

AfterWrite(a) == IF HasSubmitted(a) THEN "record" ELSE "done"

\* The row is updated or deleted by the id read before.
WriteRow(a) ==
    /\ pc[a] = "write"
    /\ \E row \in seen[a] :
         /\ member[row.user] # NoRole /\ rowId[row.user] = row.id
         /\ member' = [member EXCEPT ![row.user] =
              IF job[a].kind = "role" THEN job[a].role ELSE NoRole]
    /\ Goes(a, AfterWrite(a))
    /\ UNCHANGED <<rowId, wallet, invite, operatorActions, chainVars, job, seen,
                   tasks, callFrame, disturbed, hit, boundVars>>

\* The row is gone, or the statement is refused, after the grant was sent.
WriteFails(a) ==
    /\ pc[a] = "write"
    /\ \/ Fault
       \/ /\ \E row \in seen[a] :
              member[row.user] = NoRole \/ rowId[row.user] # row.id
          /\ UNCHANGED faults
    /\ Goes(a, "done")
    /\ Disturbs(IF HasSubmitted(a) THEN {job[a].user} ELSE {})
    /\ hit' = hit \union {a}
    /\ UNCHANGED <<dbVars, chainVars, job, seen, tasks, callFrame, outside>>

\* recordOperatorAction; a heal goes on with its list.
Record(a) ==
    /\ pc[a] = "record"
    /\ operatorActions' = operatorActions \union {<<a, job[a].user>>}
    /\ Goes(a, IF tasks[a] = {} THEN "done" ELSE "submit")
    /\ UNCHANGED <<member, rowId, wallet, invite, chainVars, job, seen, tasks,
                   callFrame, disturbed, hit, boundVars>>

RecordFails(a) ==
    /\ pc[a] = "record"
    /\ Fault
    /\ Goes(a, "done")
    /\ Disturbs(TaskUsers(a))
    /\ hit' = hit \union {a}
    /\ UNCHANGED <<dbVars, chainVars, job, seen, tasks, callFrame, outside>>

-----------------------------------------------------------------------------
(* Memberships that change without the member routes *)

\* An upsert or a delete that knows nothing of the chain.
SetsRole(u, role) ==
    /\ member' = [member EXCEPT ![u] = role]
    /\ rowId' = [rowId EXCEPT ![u] = IF member[u] = NoRole THEN @ + 1 ELSE @]
    /\ Disturbs({x \in {u} : ExpectsOnChainApproval(member[u])
                               # ExpectsOnChainApproval(role)})

\* Another organisation the user belongs to, on the same SpendGuard: all share
\* it on testnet, and on mainnet those without contracts of their own.
OtherOrganizationSubmits(u, allowed) ==
    /\ Outside
    /\ wallet[u] # NoWallet
    /\ pool' = Append(pool, [wallet |-> wallet[u], allowed |-> allowed])
    /\ Disturbs({x \in {u} :
         Busy(u) \/ allowed # ExpectsOnChainApproval(member[u])})
    /\ UNCHANGED <<dbVars, approvers, submitted, callVars, loginVars, inviteSeen,
                   hit, faults>>

webhookFrame == <<wallet, operatorActions, chainVars, callVars, loginVars,
                  hit, faults>>

\* organizationMembership.created, updated and deleted.
MembershipWebhook(u, role) ==
    /\ Outside
    /\ role # member[u]
    /\ SetsRole(u, role)
    /\ UNCHANGED <<webhookFrame, invite, inviteSeen>>

\* An invitation refreshes the one that is still pending.  The look for it and
\* the write are taken as one step: a user has one invitation at a time.
Invite(u, role) ==
    /\ Outside
    /\ member[u] = NoRole /\ role # "owner"
    /\ \/ /\ invite[u].state = "pending"
          /\ invite' = [invite EXCEPT ![u].role = role]
          /\ UNCHANGED inviteSeen
       \/ /\ invite[u].state # "pending"
          /\ invite' = [invite EXCEPT ![u] =
               [state |-> "pending", role |-> role, id |-> @.id + 1]]
          /\ admitted' = [admitted EXCEPT ![u] = 0]
          /\ doubtful' = doubtful \ {u}
    /\ UNCHANGED <<webhookFrame, member, rowId, disturbed>>

RevokeInvite(u) ==
    /\ Outside
    /\ invite[u].state = "pending"
    /\ invite' = [invite EXCEPT ![u].state = "none"]
    /\ UNCHANGED <<webhookFrame, member, rowId, disturbed, inviteSeen>>

-----------------------------------------------------------------------------
(* Logins that claim an invitation (claimPendingInvites), and its acceptance *)

claimFrame == <<wallet, operatorActions, chainVars, callVars, provision,
                cooling, minted, hit, outside>>

ClaimGoes(k, to) == claim' = [claim EXCEPT ![k].pc = to]

\* Mutant of IsLive: accepted invitations are found again.
IsLiveOrAccepted(u) == invite[u].state \in {"pending", "accepted"}

IsLive(u) == invite[u].state = "pending"

\* Two claims at once work on the invitation both have read.
FindInvite(k, u) ==
    /\ claim[k].pc = "idle"
    /\ IsLive(u)
    /\ \E to \in {"check", "upsert"} :
         claim' = [claim EXCEPT ![k] =
           [pc |-> to, user |-> u, got |-> invite[u]]]
    /\ doubtful' = doubtful \union
         {x \in {u} : \E j \in Claims :
            claim[j].pc # "idle" /\ claim[j].user = u}
    /\ UNCHANGED <<claimFrame, member, rowId, invite, admitted, disturbed,
                   faults>>

CheckMember(k) ==
    /\ claim[k].pc = "check"
    /\ ClaimGoes(k, IF member[claim[k].user] = NoRole THEN "create" ELSE "mark")
    /\ UNCHANGED <<claimFrame, member, rowId, invite, inviteSeen, disturbed,
                   faults>>

Admits(k) ==
    LET u == claim[k].user IN
    /\ SetsRole(u, claim[k].got.role)
    /\ admitted' = [admitted EXCEPT ![u] =
         IF claim[k].got.id = invite[u].id THEN @ + 1 ELSE @]

\* A claim creates the row and ends on a conflict; an acceptance upserts it.
JoinOrganization(k) ==
    /\ claim[k].pc \in {"create", "upsert"}
    /\ \/ /\ member[claim[k].user] = NoRole
          /\ Admits(k)
          /\ ClaimGoes(k, "mark")
       \/ /\ member[claim[k].user] # NoRole
          /\ ClaimGoes(k, IF claim[k].pc = "create" THEN "idle" ELSE "mark")
          /\ UNCHANGED <<member, rowId, admitted, disturbed>>
    /\ UNCHANGED <<claimFrame, invite, doubtful, faults>>

MarkAccepted(k) ==
    /\ claim[k].pc = "mark"
    /\ LET u == claim[k].user IN
         invite' = IF invite[u].id = claim[k].got.id /\ invite[u].state # "none"
                   THEN [invite EXCEPT ![u].state = "accepted"] ELSE invite
    /\ claim' = [claim EXCEPT ![k] = Idle]
    /\ UNCHANGED <<claimFrame, member, rowId, inviteSeen, disturbed, faults>>

ClaimFails(k) ==
    /\ claim[k].pc # "idle"
    /\ Fault
    /\ claim' = [claim EXCEPT ![k] = Idle]
    /\ doubtful' = doubtful \union {claim[k].user}
    /\ UNCHANGED <<claimFrame, member, rowId, invite, admitted, disturbed>>

-----------------------------------------------------------------------------
(* Embedded wallets (ensureUserWallet) *)

walletFrame == <<member, rowId, invite, operatorActions, chainVars, callVars,
                 claim, inviteSeen, hit, outside>>

FindNoWallet(p, u) ==
    /\ provision[p].pc = "idle"
    /\ wallet[u] = NoWallet /\ u \notin cooling
    /\ provision' = [provision EXCEPT ![p] =
         [pc |-> "create", user |-> u, got |-> NoWallet]]
    /\ UNCHANGED <<walletFrame, wallet, minted, cooling, disturbed, faults>>

\* Each attempt has an idempotency key of its own: Circle makes a new wallet.
Creates(u) ==
    /\ minted[u] < MaxWallets
    /\ minted' = [minted EXCEPT ![u] = @ + 1]

CircleCreates(p) ==
    /\ provision[p].pc = "create"
    /\ LET u == provision[p].user IN
         /\ Creates(u)
         /\ provision' = [provision EXCEPT ![p].pc = "write",
                                            ![p].got = <<u, minted[u] + 1>>]
    /\ UNCHANGED <<walletFrame, wallet, cooling, disturbed, faults>>

\* users is updated by id: no unique constraint stands between two wallets of
\* one user, and the later one replaces the earlier.
RecordWallet(p) ==
    /\ provision[p].pc = "write"
    /\ LET u == provision[p].user IN
         /\ wallet' = [wallet EXCEPT ![u] = provision[p].got]
         /\ Disturbs({x \in {u} : ExpectsOnChainApproval(member[u]) \/ Busy(u)})
    /\ provision' = [provision EXCEPT ![p] = Waiting]
    /\ UNCHANGED <<walletFrame, minted, cooling, faults>>

\* Circle refuses, or its answer or the update is lost: the user cools down.
ProvisionFails(p) ==
    /\ provision[p].pc # "idle"
    /\ Fault
    /\ \/ UNCHANGED minted
       \/ provision[p].pc = "create" /\ Creates(provision[p].user)
    /\ cooling' = cooling \union {provision[p].user}
    /\ provision' = [provision EXCEPT ![p] = Waiting]
    /\ UNCHANGED <<walletFrame, wallet, disturbed>>

\* The cooldown runs out, or the user asks again (clearCooldown).
CooldownEnds(u) ==
    /\ u \in cooling
    /\ cooling' = cooling \ {u}
    /\ UNCHANGED <<walletFrame, wallet, minted, provision, disturbed, faults>>

-----------------------------------------------------------------------------
\* The process dies: what its calls had sent and not written stays that way.
Restart ==
    /\ Fault
    /\ pc' = [a \in Calls |-> IF a \in InFlight THEN "done" ELSE pc[a]]
    /\ hit' = hit \union InFlight
    /\ Disturbs({job[a].user : a \in {b \in InFlight :
                     pc[b] = "write" /\ HasSubmitted(b)}}
                \union UNION {TaskUsers(a) :
                     a \in {b \in InFlight : job[b].kind = "heal"}})
    /\ doubtful' = doubtful \union
         ({claim[k].user : k \in Claims} \ {NoUser})
    /\ claim' = [k \in Claims |-> Idle]
    /\ provision' = [p \in Provisions |-> Waiting]
    /\ cooling' = {}
    /\ UNCHANGED <<dbVars, chainVars, job, seen, tasks, minted, admitted,
                   outside>>

CallStep(a) ==
    \/ \E j \in Job :
         /\ (j.kind = "heal") = (j.user = NoUser)
         /\ (j.kind = "role") = (j.role # NoRole)
         /\ j.kind = "heal" => j.owner
         /\ Post(a, j)
    \/ ReadTarget(a) \/ ReadWallet(a) \/ ListMembers(a) \/ Compare(a)
    \/ ReadFails(a) \/ Submit(a) \/ SubmitRefused(a) \/ SubmitUnanswered(a)
    \/ WriteRow(a) \/ WriteFails(a) \/ Record(a) \/ RecordFails(a)

ClaimStep(k) ==
    \/ \E u \in Users : FindInvite(k, u)
    \/ CheckMember(k) \/ JoinOrganization(k) \/ MarkAccepted(k) \/ ClaimFails(k)

ProvisionStep(p) ==
    \/ \E u \in Users : FindNoWallet(p, u)
    \/ CircleCreates(p) \/ RecordWallet(p) \/ ProvisionFails(p)

Next ==
    \/ MineNext
    \/ \E a \in Calls : CallStep(a)
    \/ \E u \in Users :
         \/ \E role \in Roles \union {NoRole} : MembershipWebhook(u, role)
         \/ \E role \in Roles : Invite(u, role)
         \/ RevokeInvite(u)
         \/ \E allowed \in BOOLEAN : OtherOrganizationSubmits(u, allowed)
         \/ CooldownEnds(u)
    \/ \E k \in Claims : ClaimStep(k)
    \/ \E p \in Provisions : ProvisionStep(p)
    \/ Restart

Spec == Init /\ [][Next]_vars
=============================================================================
