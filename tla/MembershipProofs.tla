-------------------------- MODULE MembershipProofs --------------------------
(***************************************************************************)
(* What the member routes and the invitations promise, and what keeps the  *)
(* roles and the grants on chain together, holds for any number of users,  *)
(* calls, logins and wallets.                                              *)
(***************************************************************************)
EXTENDS MembershipProperties, SequenceTheorems, TLAPS

-----------------------------------------------------------------------------
(* Grants and the people who asked for them *)

Early == {"idle", "target", "wallet", "list", "compare"}

\* The part of the type invariant the argument needs.
CallsTyped ==
    /\ pc \in [Calls -> Steps]
    /\ job \in [Calls -> Job]
    /\ seen = [a \in Calls |-> seen[a]]
    /\ tasks = [a \in Calls |-> tasks[a]]
    /\ \A a \in Calls :
         /\ pc[a] = "target" => job[a].user \in Users
         /\ \A row \in seen[a] : row.user \in Users
         /\ \A t \in tasks[a] : t.user \in Users
    /\ \A s \in submitted : s[1] \in Calls

\* A call that has not reached its first submission has sent nothing; between
\* two submissions all it sent is recorded; before its record only the last
\* one is not; at its end the rest is recorded or a fault cut it short.
Tied(a) ==
    \A s \in submitted : s[1] = a =>
        /\ pc[a] \notin Early
        /\ pc[a] = "submit" => s \in operatorActions
        /\ pc[a] \in {"write", "record"} =>
             s \in operatorActions \/ s = <<a, job[a].user>>
        /\ pc[a] = "done" => s \in operatorActions \/ a \in hit

GrantsTied == CallsTyped /\ \A a \in Calls : Tied(a)

grantVars == <<pc, job, seen, tasks, submitted, operatorActions, hit>>

LEMMA InitTied == Init => GrantsTied
  BY DEF Init, GrantsTied, CallsTyped, Tied, Steps, Job, NoJob, Kinds, NoRole

\* A step that leaves the calls alone keeps what they owe.
LEMMA FrameTied ==
  ASSUME GrantsTied, UNCHANGED grantVars
  PROVE  GrantsTied'
  BY DEF GrantsTied, CallsTyped, Tied, grantVars

\* The calls that do not move owe what they owed: a step of call a adds only
\* its own transactions, and takes nothing away.
LEMMA OthersTied ==
  ASSUME GrantsTied, NEW a \in Calls, CallsTyped', Tied(a)',
         \A b \in Calls : b # a => pc'[b] = pc[b] /\ job'[b] = job[b],
         \A s \in submitted' : s \in submitted \/ s[1] = a,
         operatorActions \subseteq operatorActions', hit \subseteq hit'
  PROVE  GrantsTied'
<1>1. SUFFICES ASSUME NEW b \in Calls, b # a PROVE Tied(b)'
  BY DEF GrantsTied
<1>2. Tied(b)
  BY DEF GrantsTied
<1>. QED BY <1>1, <1>2 DEF Tied

LEMMA CallStepTied ==
  ASSUME GrantsTied, NEW a \in Calls, CallStep(a)
  PROVE  GrantsTied'
<1>. USE DEF callFrame, chainVars, dbVars, boundVars, Goes
<1>0. CallsTyped /\ Tied(a)
  BY DEF GrantsTied
<1>. DEFINE Others == \A b \in Calls : b # a => pc'[b] = pc[b]
                                                /\ job'[b] = job[b]
<1>1. ASSUME NEW j \in Job, (j.kind = "heal") = (j.user = NoUser), Post(a, j)
      PROVE  GrantsTied'
  <2>1. CallsTyped'
    BY <1>1, <1>0 DEF Post, CallsTyped, Job, Kinds, Steps
  <2>2. Tied(a)'
    BY <1>1, <1>0 DEF Post, Tied, CallsTyped, Early
  <2>3. Others
    BY <1>1, <1>0 DEF Post, CallsTyped
  <2>. QED BY <2>1, <2>2, <2>3, <1>1, OthersTied DEF Post
<1>2. CASE ReadTarget(a)
  <2>1. CallsTyped'
    BY <1>2, <1>0 DEF ReadTarget, CallsTyped, Steps
  <2>2. Tied(a)' /\ Others
    BY <1>2, <1>0 DEF ReadTarget, Tied, CallsTyped, Early
  <2>. QED BY <2>1, <2>2, <1>2, OthersTied DEF ReadTarget
<1>3. CASE ReadWallet(a)
  <2>1. PICK row \in seen[a] :
          \E due \in SUBSET {[user |-> row.user, wallet |-> wallet[row.user],
                              allowed |-> WantsGrant(job[a])]} :
            /\ tasks' = [tasks EXCEPT ![a] = due]
            /\ pc' = [pc EXCEPT ![a] = IF due = {} THEN "write" ELSE "submit"]
    BY <1>3 DEF ReadWallet
  <2>2. CallsTyped'
    BY <2>1, <1>3, <1>0 DEF ReadWallet, CallsTyped, Steps
  <2>3. Tied(a)' /\ Others
    BY <1>3, <1>0 DEF ReadWallet, Tied, CallsTyped, Early
  <2>. QED BY <2>2, <2>3, <1>3, OthersTied DEF ReadWallet
<1>4. CASE ListMembers(a)
  <2>0. /\ seen' = [b \in Calls |-> seen'[b]]
        /\ \A b \in Calls : \A row \in seen'[b] : row.user \in Users
    <3>. DEFINE rows == {[user |-> u, role |-> member[u], id |-> rowId[u],
                          wallet |-> wallet[u]] :
                           u \in {v \in Users : member[v] # NoRole}}
    <3>1. seen' = [seen EXCEPT ![a] = rows]
      BY <1>4 DEF ListMembers
    <3>2. \A row \in rows : row.user \in Users
      OBVIOUS
    <3>. HIDE DEF rows
    <3>. QED BY <3>1, <3>2, <1>0 DEF CallsTyped
  <2>1. CallsTyped'
    BY <2>0, <1>4, <1>0 DEF ListMembers, CallsTyped, Steps
  <2>2. Tied(a)' /\ Others
    BY <1>4, <1>0 DEF ListMembers, Tied, CallsTyped, Early
  <2>. QED BY <2>1, <2>2, <1>4, OthersTied DEF ListMembers
<1>5. CASE Compare(a)
  <2>0. /\ tasks' = [b \in Calls |-> tasks'[b]]
        /\ \A b \in Calls : \A t \in tasks'[b] : t.user \in Users
    <3>. DEFINE due == {[user |-> row.user, wallet |-> row.wallet,
                         allowed |-> ExpectsOnChainApproval(row.role)] :
                          row \in OutOfSync(seen[a])}
    <3>1. tasks' = [tasks EXCEPT ![a] = due]
      BY <1>5 DEF Compare
    <3>2. \A row \in OutOfSync(seen[a]) : row.user \in Users
      BY <1>0 DEF OutOfSync, CallsTyped
    <3>3. \A t \in due : t.user \in Users
      BY <3>2
    <3>. HIDE DEF due
    <3>. QED BY <3>1, <3>3, <1>0 DEF CallsTyped
  <2>1. CallsTyped'
    BY <2>0, <1>5, <1>0 DEF Compare, CallsTyped, Steps
  <2>2. Tied(a)' /\ Others
    BY <1>5, <1>0 DEF Compare, Tied, CallsTyped, Early
  <2>. QED BY <2>1, <2>2, <1>5, OthersTied DEF Compare
<1>6. CASE ReadFails(a)
  <2>1. CallsTyped'
    BY <1>6, <1>0 DEF ReadFails, CallsTyped, Steps
  <2>2. Tied(a)' /\ Others
    BY <1>6, <1>0 DEF ReadFails, Tied, CallsTyped, Early
  <2>. QED BY <2>1, <2>2, <1>6, OthersTied DEF ReadFails
<1>7. CASE Submit(a)
  <2>1. PICK t \in tasks[a] :
          /\ submitted' = submitted \union {<<a, t.user>>}
          /\ tasks' = [tasks EXCEPT ![a] = @ \ {t}]
          /\ job' = [job EXCEPT ![a].user = t.user]
    BY <1>7 DEF Submit, Submits
  <2>2. t.user \in Users
    BY <1>0 DEF CallsTyped
  <2>3. job' \in [Calls -> Job] /\ job'[a].user = t.user
    BY <2>1, <2>2, <1>0 DEF CallsTyped, Job
  <2>7. \A b \in Calls : pc'[b] # "target" \/ b # a
    BY <1>7, <1>0 DEF Submit, CallsTyped
  <2>8. /\ tasks' = [b \in Calls |-> tasks'[b]]
        /\ \A b \in Calls : \A x \in tasks'[b] : x.user \in Users
    BY <2>1, <1>0 DEF CallsTyped
  <2>9. \A s \in submitted' : s[1] \in Calls
    BY <2>1, <1>0 DEF CallsTyped
  <2>10. \A b \in Calls : pc'[b] = "target" => job'[b].user \in Users
    BY <2>1, <2>7, <1>7, <1>0 DEF Submit, CallsTyped
  <2>4. CallsTyped'
    BY <2>3, <2>8, <2>9, <2>10, <1>7, <1>0 DEF Submit, CallsTyped, Steps
  <2>5. Tied(a)'
    BY <2>1, <2>3, <1>7, <1>0 DEF Submit, Tied, CallsTyped, Early
  <2>6. Others
    BY <2>1, <1>7, <1>0 DEF Submit, CallsTyped
  <2>. QED BY <2>1, <2>4, <2>5, <2>6, <1>7, OthersTied DEF Submit
<1>8. CASE SubmitRefused(a)
  <2>1. CallsTyped'
    BY <1>8, <1>0 DEF SubmitRefused, CallsTyped, Steps
  <2>2. Tied(a)' /\ Others
    BY <1>8, <1>0 DEF SubmitRefused, Tied, CallsTyped, Early
  <2>. QED BY <2>1, <2>2, <1>8, OthersTied DEF SubmitRefused
<1>9. CASE SubmitUnanswered(a)
  <2>1. PICK t \in tasks[a] : submitted' = submitted \union {<<a, t.user>>}
    BY <1>9 DEF SubmitUnanswered, Submits
  <2>2. CallsTyped'
    BY <2>1, <1>9, <1>0 DEF SubmitUnanswered, CallsTyped, Steps
  <2>3. Tied(a)' /\ Others
    BY <2>1, <1>9, <1>0 DEF SubmitUnanswered, Tied, CallsTyped, Early
  <2>. QED BY <2>1, <2>2, <2>3, <1>9, OthersTied DEF SubmitUnanswered
<1>10. CASE WriteRow(a)
  <2>1. CallsTyped'
    BY <1>10, <1>0 DEF WriteRow, AfterWrite, CallsTyped, Steps
  <2>2. Tied(a)' /\ Others
    BY <1>10, <1>0 DEF WriteRow, AfterWrite, HasSubmitted, Tied, CallsTyped,
       Early
  <2>. QED BY <2>1, <2>2, <1>10, OthersTied DEF WriteRow
<1>11. CASE WriteFails(a)
  <2>1. CallsTyped'
    BY <1>11, <1>0 DEF WriteFails, CallsTyped, Steps
  <2>2. Tied(a)' /\ Others
    BY <1>11, <1>0 DEF WriteFails, Tied, CallsTyped, Early
  <2>. QED BY <2>1, <2>2, <1>11, OthersTied DEF WriteFails
<1>12. CASE Record(a)
  <2>1. CallsTyped'
    BY <1>12, <1>0 DEF Record, CallsTyped, Steps
  <2>2. Tied(a)' /\ Others
    BY <1>12, <1>0 DEF Record, Tied, CallsTyped, Early
  <2>. QED BY <2>1, <2>2, <1>12, OthersTied DEF Record
<1>13. CASE RecordFails(a)
  <2>1. CallsTyped'
    BY <1>13, <1>0 DEF RecordFails, CallsTyped, Steps
  <2>2. Tied(a)' /\ Others
    BY <1>13, <1>0 DEF RecordFails, Tied, CallsTyped, Early
  <2>. QED BY <2>1, <2>2, <1>13, OthersTied DEF RecordFails
<1>. QED BY <1>1, <1>2, <1>3, <1>4, <1>5, <1>6, <1>7, <1>8, <1>9, <1>10,
             <1>11, <1>12, <1>13 DEF CallStep

\* A process that dies is a fault of every call it was serving.
LEMMA RestartTied ==
  ASSUME GrantsTied, Restart
  PROVE  GrantsTied'
<1>1. CallsTyped'
  BY DEF GrantsTied, CallsTyped, Restart, InFlight, Steps, dbVars, chainVars
<1>2. ASSUME NEW a \in Calls PROVE Tied(a)'
  BY <1>2 DEF GrantsTied, CallsTyped, Tied, Restart, InFlight, Early, dbVars,
     chainVars
<1>. QED BY <1>1, <1>2 DEF GrantsTied

LEMMA StepTied ==
  ASSUME GrantsTied, [Next]_vars
  PROVE  GrantsTied'
<1>. USE DEF webhookFrame, claimFrame, walletFrame, chainVars, callVars, dbVars,
         seenVars, grantVars
<1>1. CASE MineNext
  BY <1>1, FrameTied DEF MineNext
<1>2. ASSUME NEW u \in Users, NEW role \in Roles \union {NoRole},
             MembershipWebhook(u, role) \/ Invite(u, role)
      PROVE  GrantsTied'
  BY <1>2, FrameTied DEF MembershipWebhook, Invite
<1>3. ASSUME NEW u \in Users, RevokeInvite(u) \/ CooldownEnds(u)
      PROVE  GrantsTied'
  BY <1>3, FrameTied DEF RevokeInvite, CooldownEnds
<1>4. ASSUME NEW k \in Claims, ClaimStep(k) PROVE GrantsTied'
  BY <1>4, FrameTied DEF ClaimStep, FindInvite, CheckMember, JoinOrganization,
     MarkAccepted, ClaimFails
<1>5. ASSUME NEW p \in Provisions, ProvisionStep(p) PROVE GrantsTied'
  BY <1>5, FrameTied DEF ProvisionStep, FindNoWallet, CircleCreates,
     RecordWallet, ProvisionFails
<1>6. CASE UNCHANGED vars
  BY <1>6, FrameTied DEF vars
<1>7. ASSUME NEW u \in Users, NEW allowed \in BOOLEAN,
             OtherOrganizationSubmits(u, allowed)
      PROVE  GrantsTied'
  BY <1>7, FrameTied DEF OtherOrganizationSubmits
<1>. QED BY <1>1, <1>2, <1>3, <1>4, <1>5, <1>6, <1>7, CallStepTied, RestartTied
         DEF Next

\* Each grant or revocation sent is tied to the person who asked for it, unless
\* a fault or a vanished row cut the call short (members.ts:10-13).
THEOREM GrantsSigned == Spec => []GrantsAreSigned
<1>1. ASSUME GrantsTied PROVE GrantsAreSigned
  BY <1>1 DEF GrantsTied, CallsTyped, Tied, GrantsAreSigned, InFlight, Steps,
     Early
<1>. QED BY <1>1, InitTied, StepTied, PTL DEF Spec

-----------------------------------------------------------------------------
(* Invitations *)

Invitation == [state : {"none", "pending", "accepted"},
               role : Roles \union {NoRole}, id : Nat]
Claiming == [pc : {"idle", "check", "create", "upsert", "mark"},
             user : Users \union {NoUser}, got : Invitation]

InvitesTyped ==
    /\ invite \in [Users -> Invitation]
    /\ claim \in [Claims -> Claiming]
    /\ admitted \in [Users -> Nat]
    /\ doubtful \subseteq Users
    /\ \A k \in Claims : claim[k].pc # "idle" =>
         claim[k].user \in Users /\ claim[k].got.id <= invite[claim[k].user].id

\* Claim k is at work on the invitation its user has now.
Works(k, u) ==
    /\ claim[k].pc # "idle" /\ claim[k].user = u
    /\ claim[k].got.id = invite[u].id

\* Outside doubt, one claim at a time works on an invitation, it has not
\* admitted before it comes to admit, and an invitation that has admitted is
\* no longer pending or about to be marked.
AdmitsOnce(u) ==
    u \notin doubtful =>
        /\ admitted[u] <= 1
        /\ \A k, j \in Claims : Works(k, u) /\ Works(j, u) => k = j
        /\ \A k \in Claims :
             Works(k, u) /\ claim[k].pc # "mark" => admitted[u] = 0
        /\ admitted[u] = 0 \/ invite[u].state # "pending"
           \/ \E k \in Claims : Works(k, u)

InvitesOnce == InvitesTyped /\ \A u \in Users : AdmitsOnce(u)

inviteVars == <<invite, claim, admitted, doubtful>>

LEMMA InitOnce == Init => InvitesOnce
<1>1. ASSUME Init PROVE InvitesTyped
  BY <1>1 DEF Init, InvitesTyped, Invitation, Claiming, Idle, NoInvite
<1>2. ASSUME Init, NEW u \in Users PROVE AdmitsOnce(u)
  BY <1>2 DEF Init, AdmitsOnce, Works, Idle
<1>. QED BY <1>1, <1>2 DEF InvitesOnce

\* A step that leaves invitations and claims alone changes nothing here.
LEMMA FrameOnce ==
  ASSUME InvitesOnce, UNCHANGED inviteVars
  PROVE  InvitesOnce'
  BY DEF InvitesOnce, InvitesTyped, AdmitsOnce, Works, inviteVars

\* A new invitation starts afresh: what is still under way works on an older
\* one; one that is refreshed or revoked keeps its identity.
LEMMA InvitationOnce ==
  ASSUME InvitesOnce, NEW u \in Users, NEW role \in Roles \union {NoRole},
         Invite(u, role) \/ RevokeInvite(u)
  PROVE  InvitesOnce'
<1>. USE DEF webhookFrame, loginVars, inviteSeen
<1>1. InvitesTyped /\ \A x \in Users : AdmitsOnce(x)
  BY DEF InvitesOnce
<1>2. claim' = claim
  BY DEF Invite, RevokeInvite
<1>3. \A x \in Users : x # u =>
        /\ invite'[x] = invite[x] /\ admitted'[x] = admitted[x]
        /\ (x \in doubtful' <=> x \in doubtful)
  BY <1>1 DEF Invite, RevokeInvite, InvitesTyped
<1>4. CASE invite[u].state # "pending" /\ Invite(u, role)
  <2>1. /\ invite'[u].id = invite[u].id + 1 /\ admitted'[u] = 0
        /\ invite' \in [Users -> Invitation]
        /\ admitted' \in [Users -> Nat] /\ doubtful' \subseteq Users
    BY <1>4, <1>1 DEF Invite, InvitesTyped, Invitation
  <2>2. InvitesTyped'
    BY <1>1, <1>2, <1>3, <2>1 DEF InvitesTyped, Claiming, Invitation
  <2>3. \A k \in Claims : ~Works(k, u)'
    BY <1>1, <1>2, <2>1 DEF Works, InvitesTyped, Claiming, Invitation
  <2>4. AdmitsOnce(u)'
    BY <2>1, <2>3 DEF AdmitsOnce
  <2>5. ASSUME NEW x \in Users, x # u PROVE AdmitsOnce(x)'
    BY <1>1, <1>2, <1>3, <2>5 DEF AdmitsOnce, Works
  <2>. QED BY <2>2, <2>4, <2>5 DEF InvitesOnce
<1>5. CASE ~(invite[u].state # "pending" /\ Invite(u, role))
  <2>1. /\ invite'[u].id = invite[u].id /\ admitted' = admitted
        /\ doubtful' = doubtful /\ invite' \in [Users -> Invitation]
        /\ invite[u].state = "pending"
    BY <1>5, <1>1 DEF Invite, RevokeInvite, InvitesTyped, Invitation
  <2>2. InvitesTyped'
    BY <1>1, <1>2, <1>3, <2>1 DEF InvitesTyped
  <2>3. AdmitsOnce(u)'
    BY <1>1, <1>2, <2>1 DEF AdmitsOnce, Works
  <2>4. ASSUME NEW x \in Users, x # u PROVE AdmitsOnce(x)'
    BY <1>1, <1>2, <1>3, <2>4 DEF AdmitsOnce, Works
  <2>. QED BY <2>2, <2>3, <2>4 DEF InvitesOnce
<1>. QED BY <1>4, <1>5

LEMMA ClaimStepOnce ==
  ASSUME InvitesOnce, NEW k \in Claims, ClaimStep(k)
  PROVE  InvitesOnce'
<1>. USE DEF claimFrame, inviteSeen, ClaimGoes
<1>1. InvitesTyped /\ \A x \in Users : AdmitsOnce(x)
  BY DEF InvitesOnce
<1>2. ASSUME NEW u \in Users, FindInvite(k, u) PROVE InvitesOnce'
  <2>1. PICK to \in {"check", "upsert"} :
          claim' = [claim EXCEPT ![k] =
            [pc |-> to, user |-> u, got |-> invite[u]]]
    BY <1>2 DEF FindInvite
  <2>2. /\ invite' = invite /\ admitted' = admitted
        /\ claim[k].pc = "idle" /\ invite[u].state = "pending"
        /\ doubtful \subseteq doubtful' /\ doubtful' \subseteq doubtful \union {u}
        /\ u \notin doubtful' => \A j \in Claims : ~Works(j, u)
    BY <1>2 DEF FindInvite, IsLive, Works
  <2>3. InvitesTyped'
    BY <1>1, <2>1, <2>2 DEF InvitesTyped, Claiming, Invitation
  <2>4. \A j \in Claims, x \in Users :
          j # k \/ x # u => (Works(j, x)' => Works(j, x))
    BY <1>1, <2>1, <2>2 DEF Works, InvitesTyped
  <2>5. \A j \in Claims : j # k => claim'[j] = claim[j]
    BY <1>1, <2>1 DEF InvitesTyped
  <2>6. AdmitsOnce(u)'
    BY <1>1, <2>2, <2>4, <2>5 DEF AdmitsOnce
  <2>7. ASSUME NEW x \in Users, x # u PROVE AdmitsOnce(x)'
    <3>1. \A j \in Claims : Works(j, x) <=> Works(j, x)'
      BY <1>1, <2>1, <2>2, <2>7 DEF Works, InvitesTyped
    <3>2. ~Works(k, x)
      BY <2>2 DEF Works
    <3>. QED BY <1>1, <2>2, <2>5, <3>1, <3>2, <2>7 DEF AdmitsOnce
  <2>. QED BY <2>3, <2>6, <2>7 DEF InvitesOnce
<1>3. CASE CheckMember(k)
  <2>1. PICK to \in {"create", "mark"} :
          claim' = [claim EXCEPT ![k].pc = to]
    BY <1>3 DEF CheckMember
  <2>2. /\ invite' = invite /\ admitted' = admitted /\ doubtful' = doubtful
        /\ claim[k].pc = "check"
    BY <1>3 DEF CheckMember
  <2>3. InvitesTyped'
    BY <1>1, <2>1, <2>2 DEF InvitesTyped, Claiming
  <2>4. \A j \in Claims, x \in Users : Works(j, x)' <=> Works(j, x)
    BY <1>1, <2>1, <2>2 DEF Works, InvitesTyped, Claiming
  <2>5. \A j \in Claims : j # k => claim'[j] = claim[j]
    BY <1>1, <2>1 DEF InvitesTyped
  <2>6. ASSUME NEW x \in Users PROVE AdmitsOnce(x)'
    BY <1>1, <2>2, <2>4, <2>5 DEF AdmitsOnce
  <2>. QED BY <2>3, <2>6 DEF InvitesOnce
<1>4. CASE JoinOrganization(k)
  <2>. PICK u \in Users : u = claim[k].user
    BY <1>1, <1>4 DEF JoinOrganization, InvitesTyped
  <2>0. /\ u \in Users /\ invite' = invite /\ doubtful' = doubtful
        /\ claim[k].pc \in {"create", "upsert"}
    BY <1>1, <1>4 DEF JoinOrganization, InvitesTyped
  <2>1. \A j \in Claims : j # k => claim'[j] = claim[j]
    BY <1>1, <1>4 DEF JoinOrganization, InvitesTyped
  <2>2. CASE member[u] = NoRole
    <3>1. /\ claim' = [claim EXCEPT ![k].pc = "mark"]
          /\ admitted' = [admitted EXCEPT ![u] =
               IF claim[k].got.id = invite[u].id THEN @ + 1 ELSE @]
      BY <1>4, <2>2 DEF JoinOrganization, Admits
    <3>2. InvitesTyped'
      BY <1>1, <2>0, <3>1 DEF InvitesTyped, Claiming
    <3>3. \A j \in Claims, x \in Users : Works(j, x)' <=> Works(j, x)
      BY <1>1, <2>0, <3>1 DEF Works, InvitesTyped, Claiming
    <3>4. Works(k, u) <=> claim[k].got.id = invite[u].id
      BY <2>0 DEF Works
    <3>5. admitted'[u] = IF Works(k, u) THEN admitted[u] + 1 ELSE admitted[u]
      BY <1>1, <2>0, <3>1, <3>4 DEF InvitesTyped
    <3>6. claim'[k].pc = "mark"
      BY <1>1, <3>1 DEF InvitesTyped, Claiming
    <3>7. admitted[u] \in Nat
      BY <1>1, <2>0 DEF InvitesTyped
    <3>8. AdmitsOnce(u)'
      <4>1. AdmitsOnce(u) /\ claim[k].pc # "mark" /\ doubtful' = doubtful
            /\ invite'[u] = invite[u]
        BY <1>1, <2>0
      <4>2. CASE Works(k, u)
        BY <2>1, <3>3, <3>5, <3>6, <3>7, <4>1, <4>2, <2>0 DEF AdmitsOnce
      <4>3. CASE ~Works(k, u)
        BY <2>1, <3>3, <3>5, <3>6, <3>7, <4>1, <4>3, <2>0 DEF AdmitsOnce
      <4>. QED BY <4>2, <4>3
    <3>9. ASSUME NEW x \in Users, x # u PROVE AdmitsOnce(x)'
      <4>1. admitted'[x] = admitted[x]
        BY <1>1, <3>1, <3>9 DEF InvitesTyped
      <4>2. AdmitsOnce(x) /\ doubtful' = doubtful /\ invite'[x] = invite[x]
        BY <1>1, <2>0
      <4>3. ~Works(k, x)
        BY <3>9 DEF Works
      <4>. QED BY <2>1, <3>3, <4>1, <4>2, <4>3, <3>9 DEF AdmitsOnce
    <3>. QED BY <3>2, <3>8, <3>9 DEF InvitesOnce
  <2>3. CASE member[u] # NoRole
    <3>1. PICK to \in {"idle", "mark"} : claim' = [claim EXCEPT ![k].pc = to]
      BY <1>4, <2>3 DEF JoinOrganization
    <3>2. admitted' = admitted
      BY <1>4, <2>3 DEF JoinOrganization
    <3>3. InvitesTyped'
      BY <1>1, <2>0, <3>1, <3>2 DEF InvitesTyped, Claiming
    <3>4. \A j \in Claims, x \in Users :
            /\ Works(j, x)' => Works(j, x)
            /\ j # k => (Works(j, x) => Works(j, x)')
      BY <1>1, <2>0, <3>1 DEF Works, InvitesTyped, Claiming
    <3>5. ASSUME NEW x \in Users PROVE AdmitsOnce(x)'
      BY <1>1, <2>0, <2>1, <3>2, <3>4 DEF AdmitsOnce
    <3>. QED BY <3>3, <3>5 DEF InvitesOnce
  <2>. QED BY <2>2, <2>3
<1>5. CASE MarkAccepted(k)
  <2>. DEFINE u == claim[k].user
  <2>1. /\ claim' = [claim EXCEPT ![k] = Idle]
        /\ invite' = IF invite[u].id = claim[k].got.id
                         /\ invite[u].state # "none"
                     THEN [invite EXCEPT ![u].state = "accepted"] ELSE invite
        /\ admitted' = admitted /\ doubtful' = doubtful
        /\ claim[k].pc = "mark" /\ u \in Users
    BY <1>1, <1>5 DEF MarkAccepted, InvitesTyped
  <2>2. /\ invite' \in [Users -> Invitation]
        /\ \A x \in Users :
             /\ invite'[x].id = invite[x].id
             /\ x # u => invite'[x] = invite[x]
             /\ invite[x].state # "pending" => invite'[x].state # "pending"
    BY <1>1, <2>1 DEF InvitesTyped, Invitation
  <2>3. InvitesTyped'
    BY <1>1, <2>1, <2>2 DEF InvitesTyped, Claiming, Idle, NoInvite, Invitation
  <2>4. \A j \in Claims : j # k => claim'[j] = claim[j]
    BY <1>1, <2>1 DEF InvitesTyped
  <2>5. \A j \in Claims, x \in Users :
          /\ Works(j, x)' => Works(j, x)
          /\ j # k => (Works(j, x) => Works(j, x)')
    BY <1>1, <2>1, <2>2 DEF Works, InvitesTyped, Idle
  <2>6. Works(k, u) => invite'[u].state # "pending"
    BY <1>1, <2>1 DEF Works, InvitesTyped, Invitation
  <2>7. \A x \in Users : Works(k, x) => x = u
    BY DEF Works
  <2>8. ~\E x \in Users : Works(k, x)'
    BY <1>1, <2>1 DEF Works, InvitesTyped, Idle
  <2>9. ASSUME NEW x \in Users PROVE AdmitsOnce(x)'
    BY <1>1, <2>1, <2>2, <2>4, <2>5, <2>6, <2>7, <2>8 DEF AdmitsOnce
  <2>. QED BY <2>3, <2>9 DEF InvitesOnce
<1>6. CASE ClaimFails(k)
  <2>. DEFINE u == claim[k].user
  <2>1. /\ claim' = [claim EXCEPT ![k] = Idle]
        /\ doubtful' = doubtful \union {u} /\ u \in Users
        /\ invite' = invite /\ admitted' = admitted
    BY <1>1, <1>6 DEF ClaimFails, InvitesTyped
  <2>2. InvitesTyped'
    BY <1>1, <2>1 DEF InvitesTyped, Claiming, Idle, NoInvite, Invitation
  <2>3. \A j \in Claims : j # k => claim'[j] = claim[j]
    BY <1>1, <2>1 DEF InvitesTyped
  <2>4. \A j \in Claims, x \in Users : x # u => (Works(j, x)' <=> Works(j, x))
    BY <1>1, <2>1 DEF Works, InvitesTyped, Idle
  <2>5. \A x \in Users : x # u => ~Works(k, x)
    BY DEF Works
  <2>6. ASSUME NEW x \in Users PROVE AdmitsOnce(x)'
    BY <1>1, <2>1, <2>3, <2>4, <2>5 DEF AdmitsOnce
  <2>. QED BY <2>2, <2>6 DEF InvitesOnce
<1>. QED BY <1>2, <1>3, <1>4, <1>5, <1>6 DEF ClaimStep

\* After a restart no claim is at work, and what was under way is in doubt.
LEMMA RestartOnce ==
  ASSUME InvitesOnce, Restart
  PROVE  InvitesOnce'
<1>1. InvitesTyped /\ \A x \in Users : AdmitsOnce(x)
  BY DEF InvitesOnce
<1>2. /\ claim' = [k \in Claims |-> Idle] /\ invite' = invite
      /\ admitted' = admitted
      /\ doubtful' = doubtful \union
           ({claim[k].user : k \in Claims} \ {NoUser})
  BY DEF Restart, dbVars
<1>3. doubtful' \subseteq Users
  BY <1>1, <1>2 DEF InvitesTyped, Claiming
<1>4. InvitesTyped'
  BY <1>1, <1>2, <1>3 DEF InvitesTyped, Claiming, Idle, NoInvite, Invitation
<1>5. \A k \in Claims, x \in Users : ~Works(k, x)'
  BY <1>2 DEF Works, Idle
<1>6. ASSUME NEW x \in Users, x \notin doubtful' PROVE \A k \in Claims : ~Works(k, x)
  BY <1>2, <1>6, MembershipAssumption DEF Works
<1>7. ASSUME NEW x \in Users PROVE AdmitsOnce(x)'
  BY <1>1, <1>2, <1>5, <1>6 DEF AdmitsOnce
<1>. QED BY <1>4, <1>7 DEF InvitesOnce

LEMMA StepOnce ==
  ASSUME InvitesOnce, [Next]_vars
  PROVE  InvitesOnce'
<1>. USE DEF webhookFrame, walletFrame, callFrame, chainVars, callVars, dbVars,
         loginVars, inviteSeen, inviteVars
<1>1. CASE MineNext
  BY <1>1, FrameOnce DEF MineNext
<1>2. ASSUME NEW u \in Users, NEW role \in Roles \union {NoRole},
             MembershipWebhook(u, role)
      PROVE  InvitesOnce'
  BY <1>2, FrameOnce DEF MembershipWebhook
<1>3. ASSUME NEW u \in Users, CooldownEnds(u) PROVE InvitesOnce'
  BY <1>3, FrameOnce DEF CooldownEnds
<1>4. ASSUME NEW u \in Users, NEW role \in Roles,
             Invite(u, role)
      PROVE  InvitesOnce'
  BY <1>4, InvitationOnce
<1>5. ASSUME NEW u \in Users, RevokeInvite(u) PROVE InvitesOnce'
  BY <1>5, InvitationOnce
<1>6. ASSUME NEW a \in Calls, CallStep(a) PROVE InvitesOnce'
  BY <1>6, FrameOnce DEF CallStep, Post, ReadTarget, ReadWallet, ListMembers,
     Compare, ReadFails, Submit, SubmitRefused, SubmitUnanswered, WriteRow,
     WriteFails, Record, RecordFails
<1>7. ASSUME NEW p \in Provisions, ProvisionStep(p) PROVE InvitesOnce'
  BY <1>7, FrameOnce DEF ProvisionStep, FindNoWallet, CircleCreates,
     RecordWallet, ProvisionFails
<1>8. CASE UNCHANGED vars
  BY <1>8, FrameOnce DEF vars
<1>9. ASSUME NEW u \in Users, NEW allowed \in BOOLEAN,
             OtherOrganizationSubmits(u, allowed)
      PROVE  InvitesOnce'
  BY <1>9, FrameOnce DEF OtherOrganizationSubmits
<1>. QED BY <1>1, <1>2, <1>3, <1>4, <1>5, <1>6, <1>7, <1>8, <1>9,
         ClaimStepOnce, RestartOnce DEF Next

\* An invitation admits once, whoever removes the member in between, unless two
\* claims ran at once or a mark was lost (auth/invites.ts:40-43).
THEOREM InvitesAdmitOnce == Spec => []InviteAdmitsOnce
<1>1. ASSUME InvitesOnce PROVE InviteAdmitsOnce
  BY <1>1 DEF InvitesOnce, InvitesTyped, AdmitsOnce, InviteAdmitsOnce
<1>. QED BY <1>1, InitOnce, StepOnce, PTL DEF Spec

-----------------------------------------------------------------------------
(* The grants a wallet will have *)

Entry == [wallet : Wallets, allowed : BOOLEAN]
Of(u) == {u} \X (1..MaxWallets)
MayBe(u) == Of(u) \union {NoWallet}

\* The grant wallet w has once every transaction of the pool is mined: what the
\* last one about it says.
Will(w) ==
    \/ ~IsPending(w) /\ w \in approvers
    \/ \E i \in DOMAIN pool :
         /\ pool[i].wallet = w /\ pool[i].allowed
         /\ \A j \in DOMAIN pool : j > i => pool[j].wallet # w

\* Mining takes the oldest transaction, which changes nothing of it.
LEMMA MiningKeepsWill ==
  ASSUME pool \in Seq(Entry), MineNext, NEW w
  PROVE  /\ pool' \in Seq(Entry)
         /\ IsPending(w)' => IsPending(w)
         /\ w \in approvers' => w \in approvers \/ IsPending(w)
         /\ Will(w)' <=> Will(w)
<1>1. /\ pool # <<>> /\ pool' = Tail(pool)
      /\ approvers' = IF Head(pool).allowed
                      THEN approvers \union {Head(pool).wallet}
                      ELSE approvers \ {Head(pool).wallet}
  BY DEF MineNext
<1>. DEFINE n == Len(pool)
<1>2. /\ n \in Nat \ {0} /\ DOMAIN pool = 1..n /\ Head(pool) = pool[1]
      /\ pool' \in Seq(Entry) /\ DOMAIN pool' = 1..(n - 1)
      /\ \A i \in 1..(n - 1) : pool'[i] = pool[i + 1]
  <2>1. n \in Nat \ {0} /\ DOMAIN pool = 1..n /\ Head(pool) = pool[1]
    BY <1>1, EmptySeq
  <2>2. pool' \in Seq(Entry) /\ Len(pool') = n - 1
    BY <1>1, HeadTailProperties
  <2>3. DOMAIN pool' = 1..(n - 1)
    BY <2>2
  <2>4. \A i \in 1..(n - 1) : pool'[i] = pool[i + 1]
    BY <1>1, <2>2, HeadTailProperties
  <2>. QED BY <2>1, <2>2, <2>3, <2>4
<1>3. pool[1].allowed \in BOOLEAN
  <2>1. Head(pool) \in Entry
    BY <1>1, HeadTailProperties
  <2>. QED BY <2>1, <1>2 DEF Entry
<1>. HIDE DEF n
<1>4. IsPending(w) <=> \E i \in 1..n : pool[i].wallet = w
  BY <1>2 DEF IsPending
<1>5. IsPending(w)' <=> \E i \in 1..(n - 1) : pool[i + 1].wallet = w
  BY <1>2 DEF IsPending
<1>6. IsPending(w) <=> pool[1].wallet = w \/ IsPending(w)'
  <2>1. ASSUME IsPending(w) PROVE pool[1].wallet = w \/ IsPending(w)'
    <3>1. PICK i \in 1..n : pool[i].wallet = w
      BY <2>1, <1>4
    <3>2. i = 1 \/ (i - 1 \in 1..(n - 1) /\ (i - 1) + 1 = i)
      BY <1>2
    <3>. QED BY <3>1, <3>2, <1>5
  <2>2. ASSUME pool[1].wallet = w \/ IsPending(w)' PROVE IsPending(w)
    BY <2>2, <1>2, <1>4, <1>5
  <2>. QED BY <2>1, <2>2
<1>7. Will(w) <=> \/ ~IsPending(w) /\ w \in approvers
                  \/ \E i \in 1..n : /\ pool[i].wallet = w /\ pool[i].allowed
                                     /\ \A j \in 1..n : j > i => pool[j].wallet # w
  BY <1>2 DEF Will
<1>8. Will(w)' <=>
        \/ ~IsPending(w)' /\ w \in approvers'
        \/ \E i \in 1..(n - 1) :
             /\ pool[i + 1].wallet = w /\ pool[i + 1].allowed
             /\ \A j \in 1..(n - 1) : j > i => pool[j + 1].wallet # w
  <2>1. Will(w)' <=>
          \/ ~IsPending(w)' /\ w \in approvers'
          \/ \E i \in 1..(n - 1) :
               /\ pool'[i].wallet = w /\ pool'[i].allowed
               /\ \A j \in 1..(n - 1) : j > i => pool'[j].wallet # w
    BY <1>2, Zenon DEF Will
  <2>2. \A i \in 1..(n - 1) :
          (\A j \in 1..(n - 1) : j > i => pool'[j].wallet # w)
          <=> (\A j \in 1..(n - 1) : j > i => pool[j + 1].wallet # w)
    BY <1>2
  <2>. QED BY <1>2, <2>1, <2>2
<1>9. CASE IsPending(w)'
  <2>1. IsPending(w)
    BY <1>6, <1>9
  <2>2. PICK k \in 1..(n - 1) : pool[k + 1].wallet = w
    BY <1>5, <1>9
  <2>3. ASSUME Will(w) PROVE Will(w)'
    <3>1. PICK i \in 1..n : /\ pool[i].wallet = w /\ pool[i].allowed
                            /\ \A j \in 1..n : j > i => pool[j].wallet # w
      BY <1>7, <2>1, <2>3
    <3>2. i # 1
      BY <3>1, <2>2, <1>2
    <3>3. i - 1 \in 1..(n - 1) /\ (i - 1) + 1 = i
      BY <3>2, <1>2
    <3>4. \A j \in 1..(n - 1) : j > i - 1 => pool[j + 1].wallet # w
      BY <3>1, <1>2
    <3>. QED BY <3>1, <3>3, <3>4, <1>8
  <2>4. ASSUME Will(w)' PROVE Will(w)
    <3>1. PICK i \in 1..(n - 1) :
            /\ pool[i + 1].wallet = w /\ pool[i + 1].allowed
            /\ \A j \in 1..(n - 1) : j > i => pool[j + 1].wallet # w
      BY <1>8, <1>9, <2>4
    <3>2. \A j \in 1..n : j > i + 1 => pool[j].wallet # w
      <4>1. ASSUME NEW j \in 1..n, j > i + 1 PROVE pool[j].wallet # w
        <5>1. j - 1 \in 1..(n - 1) /\ j - 1 > i /\ (j - 1) + 1 = j
          BY <4>1, <1>2
        <5>. QED BY <5>1, <3>1
      <4>. QED BY <4>1
    <3>3. i + 1 \in 1..n
      BY <1>2
    <3>4. \E m \in 1..n : /\ pool[m].wallet = w /\ pool[m].allowed
                          /\ \A j \in 1..n : j > m => pool[j].wallet # w
      BY <3>1, <3>2, <3>3
    <3>. QED BY <3>4, <1>7
  <2>5. w \in approvers' => w \in approvers \/ IsPending(w)
    BY <2>1
  <2>. QED BY <2>1, <2>3, <2>4, <2>5, <1>2
<1>10. CASE ~IsPending(w)' /\ pool[1].wallet = w
  <2>1. IsPending(w) /\ \A i \in 1..n : i # 1 => pool[i].wallet # w
    <3>1. ASSUME NEW i \in 1..n, i # 1 PROVE pool[i].wallet # w
      <4>1. i - 1 \in 1..(n - 1) /\ (i - 1) + 1 = i
        BY <3>1, <1>2
      <4>. QED BY <4>1, <1>5, <1>10
    <3>. QED BY <3>1, <1>6, <1>10
  <2>2. Will(w) <=> pool[1].allowed
    BY <2>1, <1>7, <1>2, <1>10
  <2>3. Will(w)' <=> w \in approvers'
    BY <1>8, <1>5, <1>10
  <2>4. w \in approvers' <=> pool[1].allowed
    BY <1>1, <1>2, <1>3, <1>10
  <2>. QED BY <2>1, <2>2, <2>3, <2>4, <1>2
<1>11. CASE ~IsPending(w)' /\ pool[1].wallet # w
  <2>1. w \in approvers' <=> w \in approvers
    BY <1>1, <1>2, <1>11
  <2>2. ~IsPending(w)
    BY <1>6, <1>11
  <2>. QED BY <2>1, <2>2, <1>4, <1>5, <1>7, <1>8, <1>2, <1>11
<1>. QED BY <1>9, <1>10, <1>11

\* A submission decides its own wallet's grant and no other.
LEMMA SubmittingSetsWill ==
  ASSUME pool \in Seq(Entry), NEW e \in Entry, pool' = Append(pool, e),
         approvers' = approvers, NEW w
  PROVE  /\ pool' \in Seq(Entry)
         /\ IsPending(w)' <=> IsPending(w) \/ w = e.wallet
         /\ Will(w)' <=> IF w = e.wallet THEN e.allowed ELSE Will(w)
<1>. DEFINE n == Len(pool)
<1>1. /\ n \in Nat /\ DOMAIN pool = 1..n /\ DOMAIN pool' = 1..(n + 1)
      /\ pool' \in Seq(Entry) /\ pool'[n + 1] = e
      /\ \A i \in 1..n : pool'[i] = pool[i] /\ i # n + 1
  OBVIOUS
<1>. HIDE DEF n
<1>2. 1..(n + 1) = 1..n \union {n + 1} /\ \A i \in 1..n : n + 1 > i
  BY <1>1
<1>3. IsPending(w)' <=> IsPending(w) \/ w = e.wallet
  BY <1>1, <1>2 DEF IsPending
<1>4. Will(w) <=> \/ ~IsPending(w) /\ w \in approvers
                  \/ \E i \in 1..n : /\ pool[i].wallet = w /\ pool[i].allowed
                                     /\ \A j \in 1..n : j > i => pool[j].wallet # w
  BY <1>1 DEF Will
<1>5. Will(w)' <=> \/ ~IsPending(w)' /\ w \in approvers
                   \/ \E i \in 1..(n + 1) :
                        /\ pool'[i].wallet = w /\ pool'[i].allowed
                        /\ \A j \in 1..(n + 1) : j > i => pool'[j].wallet # w
  BY <1>1 DEF Will
<1>6. CASE w = e.wallet
  <2>1. IsPending(w)' /\ n + 1 \in 1..(n + 1)
    BY <1>3, <1>2, <1>6
  <2>2. ASSUME Will(w)' PROVE e.allowed
    <3>1. PICK i \in 1..(n + 1) :
            /\ pool'[i].wallet = w /\ pool'[i].allowed
            /\ \A j \in 1..(n + 1) : j > i => pool'[j].wallet # w
      BY <2>2, <2>1, <1>5
    <3>2. i = n + 1
      BY <3>1, <2>1, <1>1, <1>2, <1>6
    <3>. QED BY <3>1, <3>2, <1>1
  <2>3. ASSUME e.allowed PROVE Will(w)'
    <3>1. \A j \in 1..(n + 1) : ~(j > n + 1)
      BY <1>1
    <3>. QED BY <3>1, <2>3, <2>1, <1>1, <1>5, <1>6
  <2>4. e.allowed \in BOOLEAN
    BY DEF Entry
  <2>. QED BY <2>2, <2>3, <2>4, <1>1, <1>3, <1>6
<1>7. CASE w # e.wallet
  <2>1. (\E i \in 1..(n + 1) :
           /\ pool'[i].wallet = w /\ pool'[i].allowed
           /\ \A j \in 1..(n + 1) : j > i => pool'[j].wallet # w)
        <=> (\E i \in 1..n : /\ pool[i].wallet = w /\ pool[i].allowed
                             /\ \A j \in 1..n : j > i => pool[j].wallet # w)
    BY <1>1, <1>2, <1>7
  <2>. QED BY <2>1, <1>1, <1>3, <1>4, <1>5, <1>7
<1>. QED BY <1>6, <1>7

-----------------------------------------------------------------------------
(* What the calls and the wallet requests hold *)

IsHeal(a) == job[a].kind = "heal"

Provisioning == [pc : {"idle", "create", "write"}, user : Users \union {NoUser},
                 got : Wallets \union {NoWallet}]

\* What a call has read and means to send fits where it is: a wallet is its
\* user's, a route works on its one target and a heal lists a user once.
Fits(a) ==
    /\ pc[a] \in {"list", "compare"} => IsHeal(a)
    /\ pc[a] \in {"target", "wallet", "write"} => ~IsHeal(a)
    /\ \A row \in seen[a] : row.wallet \in MayBe(row.user)
    /\ \A row, other \in seen[a] : row.user = other.user => row = other
    /\ \A t \in tasks[a] : t.wallet \in Of(t.user) /\ t.allowed \in BOOLEAN
    /\ ~IsHeal(a) =>
         /\ pc[a] \notin {"idle", "done"} => job[a].user \in Users
         /\ pc[a] \in {"wallet", "submit", "write"} =>
              \A row \in seen[a] : row.user = job[a].user
         /\ pc[a] = "submit" =>
              \A t, s \in tasks[a] : t.user = job[a].user /\ t = s
         /\ pc[a] \in {"write", "record"} => tasks[a] = {}

Shaped ==
    /\ pool \in Seq(Entry)
    /\ member = [u \in Users |-> member[u]]
    /\ wallet = [u \in Users |-> wallet[u]]
    /\ \A u \in Users : wallet[u] \in MayBe(u)
    /\ minted \in [Users -> 0..MaxWallets]
    /\ provision \in [Provisions -> Provisioning]
    /\ \A p \in Provisions :
         /\ provision[p].pc # "idle" => provision[p].user \in Users
         /\ provision[p].pc = "write" =>
              provision[p].got \in Of(provision[p].user)
    /\ \A a \in Calls : Fits(a)

LEMMA WalletsOf ==
  ASSUME NEW u \in Users, NEW w \in Of(u)
  PROVE  w \in Wallets /\ w[1] = u /\ w # NoWallet /\ w[2] \in 1..MaxWallets
         /\ w = <<u, w[2]>>
<1>1. PICK n \in 1..MaxWallets : w = <<u, n>>
  BY DEF Of
<1>2. <<u, n>> # <<>>
  OBVIOUS
<1>. QED BY <1>1, <1>2 DEF Wallets, NoWallet

LEMMA InitShaped == Init => Shaped
<1>. SUFFICES ASSUME Init PROVE Shaped
  OBVIOUS
<1>1. \A a \in Calls : Fits(a)
  BY DEF Init, Fits, IsHeal, NoJob
<1>2. pool \in Seq(Entry) /\ member = [u \in Users |-> member[u]]
      /\ minted \in [Users -> 0..MaxWallets]
  BY MembershipAssumption DEF Init
<1>3. wallet = [u \in Users |-> wallet[u]] /\ \A u \in Users : wallet[u] \in MayBe(u)
  BY MembershipAssumption DEF Init, MayBe, Of
<1>4. provision \in [Provisions -> Provisioning]
      /\ \A p \in Provisions : provision[p].pc = "idle"
  BY DEF Init, Waiting, Provisioning
<1>. QED BY <1>1, <1>2, <1>3, <1>4 DEF Shaped

\* A call's step moves that call alone, and no wallet.
LEMMA OthersStand ==
  ASSUME CallsTyped, NEW a \in Calls, CallStep(a)
  PROVE  /\ \A b \in Calls : b # a =>
              /\ pc'[b] = pc[b] /\ job'[b] = job[b]
              /\ seen'[b] = seen[b] /\ tasks'[b] = tasks[b]
         /\ UNCHANGED <<wallet, minted, provision>>
<1>. USE DEF callFrame, chainVars, dbVars, loginVars, Goes, CallsTyped
<1>. DEFINE Others == \A b \in Calls : b # a =>
                        /\ pc'[b] = pc[b] /\ job'[b] = job[b]
                        /\ seen'[b] = seen[b] /\ tasks'[b] = tasks[b]
<1>1. ASSUME NEW j \in Job, Post(a, j)
      PROVE  Others /\ UNCHANGED <<wallet, minted, provision>>
  BY <1>1 DEF Post
<1>2. ASSUME ReadTarget(a) \/ ReadWallet(a)
      PROVE  Others /\ UNCHANGED <<wallet, minted, provision>>
  BY <1>2 DEF ReadTarget, ReadWallet
<1>3. CASE ListMembers(a)
  BY <1>3 DEF ListMembers
<1>4. CASE Compare(a)
  BY <1>4 DEF Compare
<1>5. CASE ReadFails(a)
  BY <1>5 DEF ReadFails
<1>6. CASE Submit(a)
  BY <1>6 DEF Submit
<1>7. CASE SubmitRefused(a)
  BY <1>7 DEF SubmitRefused
<1>8. CASE SubmitUnanswered(a)
  BY <1>8 DEF SubmitUnanswered
<1>9. CASE WriteRow(a)
  BY <1>9 DEF WriteRow
<1>10. ASSUME WriteFails(a) \/ Record(a) \/ RecordFails(a)
       PROVE  Others /\ UNCHANGED <<wallet, minted, provision>>
  BY <1>10 DEF WriteFails, Record, RecordFails
<1>. QED BY <1>1, <1>2, <1>3, <1>4, <1>5, <1>6, <1>7, <1>8, <1>9, <1>10
         DEF CallStep

LEMMA CallStepShaped ==
  ASSUME GrantsTied, Shaped, NEW a \in Calls, CallStep(a)
  PROVE  Shaped'
<1>. USE DEF callFrame, chainVars, dbVars, loginVars, Goes
<1>0. CallsTyped /\ Fits(a) /\ pool \in Seq(Entry)
      /\ member = [u \in Users |-> member[u]]
      /\ \A u \in Users : wallet[u] \in MayBe(u)
  BY DEF GrantsTied, Shaped
<1>. DEFINE Rest == pool' \in Seq(Entry) /\ member' = [u \in Users |-> member'[u]]
<1>1. SUFFICES Fits(a)' /\ Rest
  <2>1. ASSUME NEW b \in Calls, b # a PROVE Fits(b)'
    <3>1. /\ pc'[b] = pc[b] /\ job'[b] = job[b]
          /\ seen'[b] = seen[b] /\ tasks'[b] = tasks[b]
      BY <2>1, <1>0, OthersStand
    <3>2. Fits(b)
      BY DEF Shaped
    <3>. QED BY <3>1, <3>2 DEF Fits, IsHeal
  <2>2. UNCHANGED <<wallet, minted, provision>>
    BY <1>0, OthersStand
  <2>. QED BY <2>1, <2>2 DEF Shaped
<1>2. ASSUME NEW j \in Job, (j.kind = "heal") = (j.user = NoUser), Post(a, j)
      PROVE  Fits(a)' /\ Rest
  <2>1. /\ pc'[a] = (IF j.kind = "heal" THEN "list" ELSE "target")
        /\ job'[a] = j /\ seen' = seen /\ tasks' = tasks
    BY <1>2, <1>0 DEF Post, CallsTyped
  <2>2. j.kind # "heal" => j.user \in Users
    BY <1>2 DEF Job
  <2>3. Rest
    BY <1>2, <1>0 DEF Post
  <2>. QED BY <2>1, <2>2, <2>3, <1>0 DEF Fits, IsHeal
<1>3. CASE ReadTarget(a)
  <2>. DEFINE u == job[a].user
              row == [user |-> u, role |-> member[u], id |-> rowId[u],
                      wallet |-> NoWallet]
  <2>1. /\ \/ pc'[a] = "wallet" /\ seen'[a] = {row}
           \/ pc'[a] = "done" /\ seen' = seen
        /\ job' = job /\ tasks' = tasks /\ pc[a] = "target"
    BY <1>3, <1>0 DEF ReadTarget, CallsTyped
  <2>2. Rest
    BY <1>3, <1>0 DEF ReadTarget
  <2>3. row.user = u /\ row.wallet \in MayBe(u)
    BY DEF MayBe
  <2>. HIDE DEF row
  <2>. QED BY <2>1, <2>2, <2>3, <1>0 DEF Fits, IsHeal
<1>4. CASE ReadWallet(a)
  <2>1. PICK row \in seen[a] :
          LET due == {t \in {[user |-> row.user, wallet |-> wallet[row.user],
                              allowed |-> WantsGrant(job[a])]} :
                        wallet[row.user] # NoWallet /\ Crosses(row.role, job[a])}
          IN tasks' = [tasks EXCEPT ![a] = due]
             /\ pc' = [pc EXCEPT ![a] = IF due = {} THEN "write" ELSE "submit"]
    BY <1>4 DEF ReadWallet
  <2>. DEFINE t0 == [user |-> row.user, wallet |-> wallet[row.user],
                     allowed |-> WantsGrant(job[a])]
  <2>2. /\ \A t \in tasks'[a] : t = t0 /\ wallet[row.user] # NoWallet
        /\ \/ pc'[a] = "write" /\ tasks'[a] = {}
           \/ pc'[a] = "submit"
    BY <2>1, <1>0 DEF CallsTyped
  <2>3. t0.user = row.user /\ t0.wallet = wallet[row.user] /\ t0.allowed \in BOOLEAN
    BY DEF WantsGrant
  <2>4. row.user = job[a].user /\ row.user \in Users
        /\ wallet[row.user] \in MayBe(row.user)
        /\ pc[a] = "wallet" /\ seen' = seen /\ job' = job /\ Rest
    BY <1>4, <1>0 DEF ReadWallet, Fits, CallsTyped
  <2>. HIDE DEF t0
  <2>5. \A t \in tasks'[a] : /\ t = t0 /\ t.user = row.user /\ t.allowed \in BOOLEAN
                             /\ t.wallet \in Of(row.user)
    BY <2>2, <2>3, <2>4 DEF MayBe
  <2>. QED BY <2>2, <2>4, <2>5, <1>0 DEF Fits, IsHeal
<1>5. CASE ListMembers(a)
  <2>. DEFINE Read(u) == [user |-> u, role |-> member[u], id |-> rowId[u],
                          wallet |-> wallet[u]]
              rows == {Read(u) : u \in {v \in Users : member[v] # NoRole}}
  <2>1. /\ seen'[a] = rows /\ pc'[a] = "compare" /\ pc[a] = "list"
        /\ job' = job /\ tasks' = tasks /\ Rest
    BY <1>5, <1>0 DEF ListMembers, CallsTyped
  <2>2. \A row \in rows : \E u \in Users : row = Read(u) /\ row.user = u
                                            /\ row.wallet = wallet[u]
    OBVIOUS
  <2>. HIDE DEF rows, Read
  <2>3. \A row \in rows : row.wallet \in MayBe(row.user)
    BY <2>2, <1>0
  <2>4. \A row, other \in rows : row.user = other.user => row = other
    BY <2>2
  <2>. QED BY <2>1, <2>3, <2>4, <1>0 DEF Fits, IsHeal
<1>6. CASE Compare(a)
  <2>. DEFINE Due(row) == [user |-> row.user, wallet |-> row.wallet,
                           allowed |-> ExpectsOnChainApproval(row.role)]
              due == {Due(row) : row \in OutOfSync(seen[a])}
  <2>1. /\ tasks'[a] = due /\ pc[a] = "compare" /\ pc'[a] \in {"submit", "done"}
        /\ job' = job /\ seen' = seen /\ Rest
    BY <1>6, <1>0 DEF Compare, CallsTyped
  <2>2. \A row \in OutOfSync(seen[a]) : row \in seen[a] /\ row.wallet # NoWallet
    BY DEF OutOfSync
  <2>3. \A t \in due : \E row \in OutOfSync(seen[a]) :
          /\ t.user = row.user /\ t.wallet = row.wallet
          /\ t.allowed = ExpectsOnChainApproval(row.role)
    OBVIOUS
  <2>4. \A role : ExpectsOnChainApproval(role) \in BOOLEAN
    BY DEF ExpectsOnChainApproval
  <2>. HIDE DEF due
  <2>. QED BY <2>1, <2>2, <2>3, <2>4, <1>0 DEF Fits, IsHeal, MayBe
<1>7. CASE Submit(a)
  <2>1. PICK t \in tasks[a] :
          /\ pool' = Append(pool, [wallet |-> t.wallet, allowed |-> t.allowed])
          /\ tasks' = [tasks EXCEPT ![a] = @ \ {t}]
          /\ job' = [job EXCEPT ![a].user = t.user]
    BY <1>7 DEF Submit, Submits
  <2>2. /\ tasks'[a] = tasks[a] \ {t} /\ job'[a].kind = job[a].kind
        /\ job'[a].user = t.user /\ t.user \in Users /\ seen' = seen
        /\ pc'[a] = (IF IsHeal(a) THEN "record" ELSE "write")
        /\ pc[a] = "submit" /\ member' = member
    BY <2>1, <1>7, <1>0 DEF Submit, CallsTyped, IsHeal, Job
  <2>3. [wallet |-> t.wallet, allowed |-> t.allowed] \in Entry
    BY <2>2, <1>0, WalletsOf DEF Fits, Entry
  <2>4. Rest
    BY <2>1, <2>2, <2>3, <1>0, AppendProperties
  <2>. QED BY <2>2, <2>4, <1>0 DEF Fits, IsHeal
<1>8. CASE SubmitUnanswered(a)
  <2>1. PICK t \in tasks[a] :
          pool' = Append(pool, [wallet |-> t.wallet, allowed |-> t.allowed])
    BY <1>8 DEF SubmitUnanswered, Submits
  <2>2. /\ t.user \in Users /\ pc'[a] = "done" /\ member' = member
        /\ job' = job /\ seen' = seen /\ tasks' = tasks
    BY <1>8, <1>0 DEF SubmitUnanswered, CallsTyped
  <2>3. [wallet |-> t.wallet, allowed |-> t.allowed] \in Entry
    BY <2>2, <1>0, WalletsOf DEF Fits, Entry
  <2>4. Rest
    BY <2>1, <2>2, <2>3, <1>0, AppendProperties
  <2>. QED BY <2>2, <2>4, <1>0 DEF Fits, IsHeal
<1>9. CASE ReadFails(a) \/ SubmitRefused(a) \/ WriteFails(a) \/ RecordFails(a)
  <2>1. /\ pc'[a] = "done" /\ job' = job /\ seen' = seen /\ tasks' = tasks
        /\ Rest
    BY <1>9, <1>0 DEF ReadFails, SubmitRefused, WriteFails, RecordFails,
       CallsTyped
  <2>. QED BY <2>1, <1>0 DEF Fits, IsHeal
<1>10. CASE WriteRow(a)
  <2>1. /\ pc[a] = "write" /\ pc'[a] \in {"record", "done"}
        /\ job' = job /\ seen' = seen /\ tasks' = tasks /\ pool' = pool
    BY <1>10, <1>0 DEF WriteRow, AfterWrite, CallsTyped
  <2>2. Rest
    BY <1>10, <2>1, <1>0 DEF WriteRow
  <2>. QED BY <2>1, <2>2, <1>0 DEF Fits, IsHeal
<1>11. CASE Record(a)
  <2>1. /\ pc[a] = "record" /\ pc'[a] = (IF tasks[a] = {} THEN "done" ELSE "submit")
        /\ job' = job /\ seen' = seen /\ tasks' = tasks /\ Rest
    BY <1>11, <1>0 DEF Record, CallsTyped
  <2>. QED BY <2>1, <1>0 DEF Fits, IsHeal
<1>. QED BY <1>2, <1>3, <1>4, <1>5, <1>6, <1>7, <1>8, <1>9, <1>10, <1>11
         DEF CallStep

\* Fits speaks of the calls alone.
LEMMA FrameShaped ==
  ASSUME Shaped, UNCHANGED <<pool, wallet, minted, provision, callVars>>,
         member' = [u \in Users |-> member'[u]]
  PROVE  Shaped'
<1>1. ASSUME NEW a \in Calls PROVE Fits(a)'
  BY DEF Shaped, Fits, IsHeal, callVars
<1>. QED BY <1>1 DEF Shaped

LEMMA ProvisionStepShaped ==
  ASSUME Shaped, NEW p \in Provisions, ProvisionStep(p)
  PROVE  Shaped'
<1>. USE DEF walletFrame, chainVars
<1>1. UNCHANGED <<pool, member, callVars>>
  BY DEF ProvisionStep, FindNoWallet, CircleCreates, RecordWallet,
     ProvisionFails
<1>2. ASSUME NEW a \in Calls PROVE Fits(a)'
  BY <1>1 DEF Shaped, Fits, IsHeal, callVars
<1>3. /\ wallet' = [u \in Users |-> wallet'[u]]
      /\ \A u \in Users : wallet'[u] \in MayBe(u)
      /\ minted' \in [Users -> 0..MaxWallets]
      /\ provision' \in [Provisions -> Provisioning]
      /\ \A q \in Provisions :
           /\ provision'[q].pc # "idle" => provision'[q].user \in Users
           /\ provision'[q].pc = "write" =>
                provision'[q].got \in Of(provision'[q].user)
  <2>1. ASSUME NEW u \in Users, FindNoWallet(p, u) PROVE <1>3!:
    BY <2>1 DEF FindNoWallet, Shaped, Provisioning
  <2>2. CASE CircleCreates(p)
    <3>. PICK u \in Users : u = provision[p].user
      BY <2>2 DEF CircleCreates, Shaped
    <3>1. /\ minted[u] \in 0..MaxWallets /\ minted[u] < MaxWallets
          /\ minted' = [minted EXCEPT ![u] = @ + 1] /\ wallet' = wallet
          /\ provision' = [provision EXCEPT ![p].pc = "write",
                                            ![p].got = <<u, minted[u] + 1>>]
      BY <2>2 DEF CircleCreates, Creates, Shaped
    <3>2. <<u, minted[u] + 1>> \in Of(u)
      BY <3>1, MembershipAssumption DEF Of
    <3>3. <<u, minted[u] + 1>> \in Wallets
      BY <3>2, WalletsOf
    <3>4. minted' \in [Users -> 0..MaxWallets]
      BY <3>1, MembershipAssumption DEF Shaped
    <3>5. provision' \in [Provisions -> Provisioning]
      <4>. DEFINE made == [provision[p] EXCEPT !.pc = "write",
                                               !.got = <<u, minted[u] + 1>>]
      <4>1. provision[p] \in Provisioning
        BY DEF Shaped
      <4>2. made \in Provisioning
        BY <3>3, <4>1 DEF Provisioning
      <4>3. provision' = [provision EXCEPT ![p] = made]
        BY <3>1, <4>1 DEF Shaped, Provisioning
      <4>. HIDE DEF made
      <4>. QED BY <4>2, <4>3 DEF Shaped
    <3>6. ASSUME NEW q \in Provisions
          PROVE  /\ provision'[q].pc # "idle" => provision'[q].user \in Users
                 /\ provision'[q].pc = "write" =>
                      provision'[q].got \in Of(provision'[q].user)
      <4>1. CASE q # p
        BY <3>1, <4>1 DEF Shaped
      <4>2. CASE q = p
        BY <3>1, <3>2, <4>2 DEF Shaped, Provisioning
      <4>. QED BY <4>1, <4>2
    <3>. QED BY <3>1, <3>4, <3>5, <3>6 DEF Shaped
  <2>3. CASE RecordWallet(p)
    <3>. PICK u \in Users : u = provision[p].user
      BY <2>3 DEF RecordWallet, Shaped
    <3>1. /\ wallet' = [wallet EXCEPT ![u] = provision[p].got]
          /\ provision' = [provision EXCEPT ![p] = Waiting]
          /\ minted' = minted /\ provision[p].got \in Of(u)
      BY <2>3 DEF RecordWallet, Shaped
    <3>2. Waiting \in Provisioning /\ Waiting.pc = "idle"
      BY DEF Waiting, Provisioning
    <3>. QED BY <3>1, <3>2 DEF Shaped, MayBe
  <2>4. CASE ProvisionFails(p)
    <3>. PICK u \in Users : u = provision[p].user
      BY <2>4 DEF ProvisionFails, Shaped
    <3>1. /\ wallet' = wallet /\ provision' = [provision EXCEPT ![p] = Waiting]
          /\ \/ minted' = minted
             \/ /\ minted[u] < MaxWallets
                /\ minted' = [minted EXCEPT ![u] = @ + 1]
      BY <2>4 DEF ProvisionFails, Creates
    <3>2. Waiting \in Provisioning /\ Waiting.pc = "idle"
      BY DEF Waiting, Provisioning
    <3>3. minted' \in [Users -> 0..MaxWallets]
      <4>1. minted \in [Users -> 0..MaxWallets] /\ MaxWallets \in Nat
        BY MembershipAssumption DEF Shaped
      <4>2. minted[u] < MaxWallets => minted[u] + 1 \in 0..MaxWallets
        BY <4>1
      <4>. QED BY <3>1, <4>1, <4>2
    <3>4. provision' \in [Provisions -> Provisioning]
      BY <3>1, <3>2 DEF Shaped
    <3>5. ASSUME NEW q \in Provisions, provision'[q].pc # "idle"
          PROVE  provision'[q] = provision[q]
      BY <3>1, <3>2, <3>5 DEF Shaped
    <3>. QED BY <3>1, <3>3, <3>4, <3>5 DEF Shaped
  <2>. QED BY <2>1, <2>2, <2>3, <2>4 DEF ProvisionStep
<1>. QED BY <1>1, <1>2, <1>3 DEF Shaped

LEMMA StepShaped ==
  ASSUME GrantsTied, Shaped, [Next]_vars
  PROVE  Shaped'
<1>. USE DEF webhookFrame, claimFrame, walletFrame, chainVars, callVars, dbVars,
         loginVars
<1>0. member = [u \in Users |-> member[u]]
  BY DEF Shaped
<1>1. CASE MineNext
  <2>1. UNCHANGED <<wallet, minted, provision, callVars, member>>
    BY <1>1 DEF MineNext
  <2>2. pool' \in Seq(Entry)
    BY <1>1, MiningKeepsWill DEF Shaped
  <2>3. ASSUME NEW a \in Calls PROVE Fits(a)'
    BY <2>1 DEF Shaped, Fits, IsHeal
  <2>. QED BY <2>1, <2>2, <2>3 DEF Shaped
<1>2. ASSUME NEW u \in Users, NEW role \in Roles \union {NoRole},
             MembershipWebhook(u, role) \/ Invite(u, role)
      PROVE  Shaped'
  BY <1>2, <1>0, FrameShaped DEF MembershipWebhook, Invite, SetsRole
<1>3. ASSUME NEW u \in Users, RevokeInvite(u) \/ CooldownEnds(u)
      PROVE  Shaped'
  BY <1>3, <1>0, FrameShaped DEF RevokeInvite, CooldownEnds
<1>4. ASSUME NEW k \in Claims, ClaimStep(k) PROVE Shaped'
  <2>1. UNCHANGED <<pool, wallet, minted, provision, callVars>>
        /\ member' = [u \in Users |-> member'[u]]
    BY <1>4, <1>0 DEF ClaimStep, FindInvite, CheckMember, JoinOrganization,
       Admits, SetsRole, MarkAccepted, ClaimFails
  <2>. QED BY <2>1, FrameShaped
<1>5. CASE UNCHANGED vars
  BY <1>5, <1>0, FrameShaped DEF vars
<1>6. CASE Restart
  <2>1. UNCHANGED <<pool, member, wallet, minted, job, seen, tasks>>
        /\ provision' = [p \in Provisions |-> Waiting]
    BY <1>6 DEF Restart
  <2>2. \A a \in Calls : pc'[a] = pc[a] \/ pc'[a] = "done"
    BY <1>6 DEF Restart, GrantsTied, CallsTyped
  <2>3. ASSUME NEW a \in Calls PROVE Fits(a)'
    <3>1. /\ job'[a] = job[a] /\ seen'[a] = seen[a] /\ tasks'[a] = tasks[a]
          /\ wallet' = wallet /\ (pc'[a] = pc[a] \/ pc'[a] = "done")
      BY <2>1, <2>2
    <3>2. Fits(a) /\ (IsHeal(a)' <=> IsHeal(a))
      BY <3>1 DEF Shaped, IsHeal
    <3>3. CASE pc'[a] = pc[a]
      BY <3>1, <3>2, <3>3 DEF Fits, MayBe
    <3>4. CASE pc'[a] = "done"
      BY <3>1, <3>2, <3>4 DEF Fits, MayBe
    <3>. QED BY <3>1, <3>3, <3>4
  <2>4. Waiting \in Provisioning /\ Waiting.pc = "idle"
    BY DEF Waiting, Provisioning
  <2>5. /\ provision' \in [Provisions -> Provisioning]
        /\ \A p \in Provisions : provision'[p].pc = "idle"
    BY <2>1, <2>4
  <2>6. /\ pool' \in Seq(Entry) /\ minted' \in [Users -> 0..MaxWallets]
        /\ member' = [u \in Users |-> member'[u]]
        /\ wallet' = [u \in Users |-> wallet'[u]]
        /\ \A u \in Users : wallet'[u] \in MayBe(u)
    BY <2>1, <1>0 DEF Shaped
  <2>. QED BY <2>1, <2>3, <2>5, <2>6 DEF Shaped, MayBe
<1>7. ASSUME NEW u \in Users, NEW allowed \in BOOLEAN,
             OtherOrganizationSubmits(u, allowed)
      PROVE  Shaped'
  <2>1. UNCHANGED <<wallet, minted, provision, callVars, member>>
    BY <1>7 DEF OtherOrganizationSubmits
  <2>2. pool' \in Seq(Entry)
    <3>1. [wallet |-> wallet[u], allowed |-> allowed] \in Entry
      BY <1>7, WalletsOf DEF OtherOrganizationSubmits, Shaped, MayBe, Entry
    <3>. QED BY <1>7, <3>1 DEF OtherOrganizationSubmits, Shaped
  <2>3. ASSUME NEW a \in Calls PROVE Fits(a)'
    BY <2>1 DEF Shaped, Fits, IsHeal
  <2>. QED BY <2>1, <2>2, <2>3 DEF Shaped
<1>. QED BY <1>1, <1>2, <1>3, <1>4, <1>5, <1>6, <1>7, CallStepShaped,
         ProvisionStepShaped DEF Next

-----------------------------------------------------------------------------
(* Wallets Circle has made and no row names yet *)

Untouched(w) ==
    /\ w \notin approvers /\ ~IsPending(w)
    /\ \A u \in Users : wallet[u] # w
    /\ \A a \in Calls :
         /\ \A row \in seen[a] : row.wallet # w
         /\ \A t \in tasks[a] : t.wallet # w

Holds(p, w) == provision[p].pc = "write" /\ provision[p].got = w

\* A wallet yet to be made, and one in the hands of a request, is unknown to
\* the chain and to every call; no two requests hold the same.
Fresh ==
    /\ \A w \in Wallets : w[2] > minted[w[1]] => Untouched(w)
    /\ \A p \in Provisions, w \in Wallets : Holds(p, w) =>
         /\ w[2] <= minted[w[1]]
         /\ Untouched(w)
         /\ \A q \in Provisions : Holds(q, w) => q = p

LEMMA WalletParts ==
  ASSUME NEW w \in Wallets
  PROVE  /\ w[1] \in Users /\ w[2] \in 1..MaxWallets /\ w[2] \in Nat
         /\ w = <<w[1], w[2]>> /\ w \in Of(w[1]) /\ w # NoWallet
<1>1. PICK u \in Users, n \in 1..MaxWallets : w = <<u, n>>
  BY DEF Wallets
<1>2. <<u, n>> # <<>>
  OBVIOUS
<1>3. n \in Nat
  BY MembershipAssumption
<1>. QED BY <1>1, <1>2, <1>3 DEF Of, NoWallet

LEMMA InitFresh == Init => Fresh
<1>. SUFFICES ASSUME Init PROVE Fresh
  OBVIOUS
<1>1. ASSUME NEW w \in Wallets, w[2] > minted[w[1]]
      PROVE  Untouched(w)
  <2>1. w[1] \in Users /\ w[2] \in Nat /\ w = <<w[1], w[2]>> /\ w # NoWallet
    BY WalletParts
  <2>2. minted[w[1]] \in {0, 1}
    BY <2>1 DEF Init
  <2>3. \A v \in Users : wallet[v] # w
    BY <2>1, <2>2, <1>1 DEF Init
  <2>4. w \notin approvers
    BY <2>1, <2>3 DEF Init
  <2>5. ~IsPending(w)
    BY DEF Init, IsPending
  <2>. QED BY <2>3, <2>4, <2>5 DEF Untouched, Init
<1>2. \A p \in Provisions : provision[p].pc = "idle"
  BY DEF Init, Waiting
<1>. QED BY <1>1, <1>2 DEF Fresh, Holds

\* A call deals only with the wallets that rows name.
LEMMA CallStepUntouched ==
  ASSUME GrantsTied, Shaped, NEW a \in Calls, CallStep(a),
         NEW w \in Wallets, Untouched(w)
  PROVE  Untouched(w)'
<1>. USE DEF callFrame, chainVars, dbVars, loginVars, Goes
<1>0. CallsTyped /\ Fits(a) /\ pool \in Seq(Entry) /\ w # NoWallet
  BY WalletParts DEF GrantsTied, Shaped
<1>. DEFINE Chain == w \notin approvers' /\ ~IsPending(w)'
            Rows == \A row \in seen'[a] : row.wallet # w
            Sends == \A t \in tasks'[a] : t.wallet # w
<1>1. SUFFICES Chain /\ Rows /\ Sends
  <2>1. wallet' = wallet
    BY <1>0, OthersStand
  <2>2. ASSUME NEW b \in Calls
        PROVE  /\ \A row \in seen'[b] : row.wallet # w
               /\ \A t \in tasks'[b] : t.wallet # w
    <3>1. CASE b # a
      <4>1. seen'[b] = seen[b] /\ tasks'[b] = tasks[b]
        BY <3>1, <1>0, OthersStand
      <4>. QED BY <4>1 DEF Untouched
    <3>2. CASE b = a
      BY <3>2
    <3>. QED BY <3>1, <3>2
  <2>. QED BY <2>1, <2>2 DEF Untouched
<1>2. UNCHANGED <<pool, approvers>> => Chain
  BY DEF Untouched, IsPending
<1>3. seen' = seen => Rows
  BY DEF Untouched
<1>4. tasks'[a] \subseteq tasks[a] => Sends
  BY DEF Untouched
<1>5. \A u \in Users : wallet[u] # w
  BY DEF Untouched
<1>6. ASSUME NEW j \in Job, Post(a, j) PROVE Chain /\ Rows /\ Sends
  BY <1>6, <1>2, <1>3, <1>4 DEF Post
<1>7. CASE ReadTarget(a)
  <2>1. UNCHANGED <<pool, approvers, tasks>>
    BY <1>7 DEF ReadTarget
  <2>2. seen' = seen \/ \A row \in seen'[a] : row.wallet = NoWallet
    BY <1>7, <1>0 DEF ReadTarget, CallsTyped
  <2>. QED BY <2>1, <2>2, <1>0, <1>2, <1>3, <1>4
<1>8. CASE ReadWallet(a)
  <2>1. UNCHANGED <<pool, approvers, seen>>
    BY <1>8 DEF ReadWallet
  <2>2. PICK row \in seen[a] :
          \E due \in SUBSET {[user |-> row.user, wallet |-> wallet[row.user],
                              allowed |-> WantsGrant(job[a])]} :
            tasks' = [tasks EXCEPT ![a] = due]
    BY <1>8 DEF ReadWallet
  <2>3. \A t \in tasks'[a] : t.wallet = wallet[row.user]
    BY <2>2, <1>0 DEF CallsTyped
  <2>4. row.user \in Users
    BY <1>0 DEF CallsTyped
  <2>. QED BY <2>1, <2>3, <2>4, <1>2, <1>3, <1>5
<1>9. CASE ListMembers(a)
  <2>1. UNCHANGED <<pool, approvers, tasks>>
    BY <1>9 DEF ListMembers
  <2>2. \A row \in seen'[a] : \E u \in Users : row.wallet = wallet[u]
    BY <1>9, <1>0 DEF ListMembers, CallsTyped
  <2>. QED BY <2>1, <2>2, <1>2, <1>4, <1>5
<1>10. CASE Compare(a)
  <2>1. UNCHANGED <<pool, approvers, seen>>
    BY <1>10 DEF Compare
  <2>2. \A t \in tasks'[a] : \E row \in OutOfSync(seen[a]) : t.wallet = row.wallet
    BY <1>10, <1>0 DEF Compare, CallsTyped
  <2>3. \A t \in tasks'[a] : \E row \in seen[a] : t.wallet = row.wallet
    BY <2>2 DEF OutOfSync
  <2>4. Sends
    BY <2>3 DEF Untouched
  <2>. QED BY <2>1, <2>4, <1>2, <1>3
<1>11. CASE Submit(a) \/ SubmitUnanswered(a)
  <2>1. PICK t \in tasks[a] :
          /\ pool' = Append(pool, [wallet |-> t.wallet, allowed |-> t.allowed])
          /\ approvers' = approvers /\ seen' = seen
          /\ tasks' = [tasks EXCEPT ![a] = @ \ {t}] \/ tasks' = tasks
    BY <1>11 DEF Submit, SubmitUnanswered, Submits
  <2>2. [wallet |-> t.wallet, allowed |-> t.allowed] \in Entry /\ t.wallet # w
    BY <1>0, WalletsOf DEF Fits, Entry, CallsTyped, Untouched
  <2>3. Chain
    BY <2>1, <2>2, <1>0, SubmittingSetsWill DEF Untouched
  <2>4. tasks'[a] \subseteq tasks[a]
    BY <2>1, <1>0 DEF CallsTyped
  <2>. QED BY <2>1, <2>3, <2>4, <1>3, <1>4
<1>12. CASE ReadFails(a) \/ SubmitRefused(a) \/ WriteFails(a) \/ RecordFails(a)
            \/ WriteRow(a) \/ Record(a)
  BY <1>12, <1>2, <1>3, <1>4 DEF ReadFails, SubmitRefused, WriteFails,
     RecordFails, WriteRow, Record
<1>. QED BY <1>6, <1>7, <1>8, <1>9, <1>10, <1>11, <1>12 DEF CallStep

\* Steps that give no wallet away and keep every unknown one unknown.
LEMMA FrameFresh ==
  ASSUME Shaped, Fresh, UNCHANGED <<minted, provision>>,
         \A w \in Wallets : Untouched(w) => Untouched(w)'
  PROVE  Fresh'
  BY DEF Fresh, Holds

LEMMA ProvisionStepFresh ==
  ASSUME Shaped, Fresh, NEW p \in Provisions, ProvisionStep(p)
  PROVE  Fresh'
<1>. USE DEF walletFrame, chainVars, callVars
<1>0. UNCHANGED <<pool, approvers, callVars>>
  BY DEF ProvisionStep, FindNoWallet, CircleCreates, RecordWallet,
     ProvisionFails
<1>1. wallet' = wallet => \A w : Untouched(w) => Untouched(w)'
  BY <1>0 DEF Untouched, IsPending
<1>2. /\ \A u \in Users : minted[u] \in Nat
      /\ \A w \in Wallets : w[1] \in Users /\ w[2] \in Nat
  BY WalletParts, MembershipAssumption DEF Shaped
<1>3. ASSUME wallet' = wallet, \A w : ~Holds(p, w)',
             minted' = minted \/ \E u \in Users :
               minted' = [minted EXCEPT ![u] = @ + 1],
             \A q \in Provisions : q # p => provision'[q] = provision[q]
      PROVE  Fresh'
  <2>1. \A u \in Users : minted'[u] \in Nat /\ minted[u] <= minted'[u]
    BY <1>2, <1>3 DEF Shaped
  <2>2. \A q \in Provisions : \A w : Holds(q, w)' => Holds(q, w)
    BY <1>3 DEF Holds
  <2>3. \A w \in Wallets :
          /\ w[2] > minted'[w[1]] => w[2] > minted[w[1]]
          /\ w[2] <= minted[w[1]] => w[2] <= minted'[w[1]]
    BY <2>1, <1>2
  <2>4. \A w : Untouched(w) => Untouched(w)'
    BY <1>1, <1>3
  <2>5. \A w \in Wallets : w[2] > minted'[w[1]] => Untouched(w)'
    BY <2>3, <2>4 DEF Fresh
  <2>6. ASSUME NEW q \in Provisions, NEW w \in Wallets, Holds(q, w)'
        PROVE  /\ w[2] <= minted'[w[1]]
               /\ Untouched(w)'
               /\ \A r \in Provisions : Holds(r, w)' => r = q
    <3>1. Holds(q, w)
      BY <2>2, <2>6
    <3>. QED BY <3>1, <2>2, <2>3, <2>4 DEF Fresh
  <2>. QED BY <2>5, <2>6 DEF Fresh
<1>4. ASSUME NEW u \in Users, FindNoWallet(p, u) PROVE Fresh'
  BY <1>4, <1>3 DEF FindNoWallet, Shaped, Holds
<1>5. CASE ProvisionFails(p)
  <2>1. provision[p].user \in Users
    BY <1>5 DEF ProvisionFails, Shaped
  <2>. QED BY <1>5, <2>1, <1>3 DEF ProvisionFails, Creates, Shaped, Waiting,
              Holds
<1>6. CASE CircleCreates(p)
  <2>. PICK u \in Users : u = provision[p].user
    BY <1>6 DEF CircleCreates, Shaped
  <2>. PICK made : made = <<u, minted[u] + 1>>
    OBVIOUS
  <2>1. /\ minted[u] + 1 \in 1..MaxWallets
        /\ minted' = [minted EXCEPT ![u] = @ + 1] /\ wallet' = wallet
        /\ provision' = [provision EXCEPT ![p].pc = "write",
                                          ![p].got = made]
    BY <1>6, <1>2, MembershipAssumption DEF CircleCreates, Creates, Shaped
  <2>2. /\ \A w : Holds(p, w)' => w = made
        /\ \A q \in Provisions : \A w : q # p => (Holds(q, w)' <=> Holds(q, w))
    BY <2>1 DEF Shaped, Provisioning, Holds
  <2>3. /\ minted'[u] = minted[u] + 1
        /\ \A v \in Users : v # u => minted'[v] = minted[v]
    BY <2>1 DEF Shaped
  <2>4. \A w \in Wallets :
          /\ w[2] > minted'[w[1]] => w[2] > minted[w[1]]
          /\ w[2] <= minted[w[1]] => w[2] <= minted'[w[1]] /\ w # made
    BY <2>3, <1>2
  <2>5. made \in Wallets => /\ made[2] <= minted'[made[1]]
                            /\ made[2] > minted[made[1]]
    BY <2>1, <2>3, <1>2
  <2>6. \A w \in Wallets : w[2] > minted'[w[1]] => Untouched(w)'
    BY <2>1, <2>4, <1>1 DEF Fresh
  <2>7. ASSUME NEW q \in Provisions, NEW w \in Wallets, Holds(q, w)'
        PROVE  /\ w[2] <= minted'[w[1]]
               /\ Untouched(w)'
               /\ \A r \in Provisions : Holds(r, w)' => r = q
    <3>1. CASE q = p
      <4>1. w = made
        BY <3>1, <2>7, <2>2
      <4>2. Untouched(w)' /\ w[2] <= minted'[w[1]]
        BY <4>1, <2>5, <2>1, <1>1 DEF Fresh
      <4>3. \A r \in Provisions : r # p => ~Holds(r, w)'
        BY <4>1, <2>2, <2>4 DEF Fresh
      <4>. QED BY <4>2, <4>3, <3>1
    <3>2. CASE q # p
      <4>1. Holds(q, w)
        BY <3>2, <2>7, <2>2
      <4>2. w[2] <= minted[w[1]] /\ Untouched(w)
            /\ \A r \in Provisions : Holds(r, w) => r = q
        BY <4>1 DEF Fresh
      <4>3. w # made
        BY <4>2, <2>4
      <4>. QED BY <4>2, <4>3, <2>1, <2>2, <2>4, <1>1
    <3>. QED BY <3>1, <3>2
  <2>. QED BY <2>6, <2>7 DEF Fresh
<1>7. CASE RecordWallet(p)
  <2>. PICK u \in Users : u = provision[p].user
    BY <1>7 DEF RecordWallet, Shaped
  <2>. PICK new : new = provision[p].got
    OBVIOUS
  <2>1. /\ wallet' = [wallet EXCEPT ![u] = new] /\ minted' = minted
        /\ provision' = [provision EXCEPT ![p] = Waiting]
        /\ Holds(p, new) /\ new \in Of(u)
    BY <1>7 DEF RecordWallet, Holds, Shaped
  <2>2. \A x : x # new /\ Untouched(x) => Untouched(x)'
    BY <2>1, <1>0 DEF Untouched, IsPending, Shaped
  <2>3. /\ \A w : ~Holds(p, w)'
        /\ \A q \in Provisions : \A w : Holds(q, w)' => Holds(q, w)
    BY <2>1 DEF Shaped, Waiting, Holds
  <2>4. new \in Wallets
    BY <2>1, WalletsOf
  <2>5. ~(new[2] > minted[new[1]]) /\ \A q \in Provisions : ~Holds(q, new)'
    BY <2>1, <2>3, <2>4, <1>2 DEF Fresh
  <2>. QED BY <2>1, <2>2, <2>3, <2>5 DEF Fresh
<1>. QED BY <1>4, <1>5, <1>6, <1>7 DEF ProvisionStep

LEMMA StepFresh ==
  ASSUME GrantsTied, Shaped, Fresh, [Next]_vars
  PROVE  Fresh'
<1>. USE DEF webhookFrame, claimFrame, chainVars, callVars, dbVars, loginVars
<1>0. UNCHANGED <<approvers, pool, wallet, callVars>>
      => \A w : Untouched(w) => Untouched(w)'
  BY DEF Untouched, IsPending
<1>1. CASE MineNext
  <2>1. UNCHANGED <<wallet, minted, provision, callVars>>
    BY <1>1 DEF MineNext
  <2>2. ASSUME NEW w, Untouched(w) PROVE Untouched(w)'
    <3>1. w \notin approvers' /\ ~IsPending(w)'
      BY <1>1, <2>2, MiningKeepsWill DEF Shaped, Untouched
    <3>. QED BY <3>1, <2>1, <2>2 DEF Untouched
  <2>. QED BY <2>1, <2>2, FrameFresh
<1>2. ASSUME NEW u \in Users, NEW role \in Roles \union {NoRole},
             MembershipWebhook(u, role) \/ Invite(u, role)
      PROVE  Fresh'
  BY <1>2, <1>0, FrameFresh DEF MembershipWebhook, Invite
<1>3. ASSUME NEW u \in Users, RevokeInvite(u) PROVE Fresh'
  BY <1>3, <1>0, FrameFresh DEF RevokeInvite
<1>4. ASSUME NEW u \in Users, CooldownEnds(u) PROVE Fresh'
  BY <1>4, <1>0, FrameFresh DEF CooldownEnds, walletFrame
<1>5. ASSUME NEW k \in Claims, ClaimStep(k) PROVE Fresh'
  BY <1>5, <1>0, FrameFresh DEF ClaimStep, FindInvite, CheckMember,
     JoinOrganization, MarkAccepted, ClaimFails
<1>6. CASE UNCHANGED vars
  BY <1>6, <1>0, FrameFresh DEF vars
<1>7. ASSUME NEW a \in Calls, CallStep(a) PROVE Fresh'
  <2>1. UNCHANGED <<minted, provision>>
    BY <1>7, OthersStand DEF GrantsTied
  <2>. QED BY <2>1, <1>7, CallStepUntouched, FrameFresh
<1>8. CASE Restart
  <2>1. UNCHANGED <<approvers, pool, wallet, job, seen, tasks, minted>>
        /\ \A p \in Provisions : provision'[p].pc = "idle"
    BY <1>8 DEF Restart, Waiting
  <2>2. \A w : Untouched(w) => Untouched(w)'
    BY <2>1 DEF Untouched, IsPending
  <2>. QED BY <2>1, <2>2 DEF Fresh, Holds
<1>9. ASSUME NEW u \in Users, NEW allowed \in BOOLEAN,
             OtherOrganizationSubmits(u, allowed)
      PROVE  Fresh'
  <2>1. /\ UNCHANGED <<approvers, wallet, minted, provision, callVars>>
        /\ wallet[u] # NoWallet
        /\ pool' = Append(pool, [wallet |-> wallet[u], allowed |-> allowed])
    BY <1>9 DEF OtherOrganizationSubmits
  <2>2. [wallet |-> wallet[u], allowed |-> allowed] \in Entry
    BY <2>1, WalletsOf DEF Shaped, MayBe, Entry
  <2>3. pool \in Seq(Entry)
    BY DEF Shaped
  <2>4. ASSUME NEW w, Untouched(w) PROVE Untouched(w)'
    <3>1. w # wallet[u] /\ ~IsPending(w)
      BY <2>4 DEF Untouched
    <3>2. ~IsPending(w)'
      BY <2>1, <2>2, <2>3, <3>1, SubmittingSetsWill
    <3>. QED BY <2>1, <2>4, <3>2 DEF Untouched
  <2>. QED BY <2>1, <2>4, FrameFresh
<1>. QED BY <1>1, <1>2, <1>3, <1>4, <1>5, <1>6, <1>7, <1>8, <1>9,
         ProvisionStepFresh DEF Next

-----------------------------------------------------------------------------
(* The two sources of truth *)

Expected(u) == ExpectsOnChainApproval(member[u])

\* The wallet the user has now will hold a grant.
Granted(u) == \E w \in Wallets : w = wallet[u] /\ Will(w)

Agrees(u) == Granted(u) <=> Expected(u)

Serves(a, u) == a \in InFlight /\ u \in Concerns(job[a])

\* A user nothing has disturbed is served by one call at most.
Sole(u) ==
    u \notin disturbed =>
      \A a, b \in Calls : Serves(a, u) /\ Serves(b, u) => a = b

Heals(a, u) ==
    IsHeal(a) /\ pc[a] \in {"submit", "record"} /\ u \in TaskUsers(a)

\* What the call that serves u alone knows of him is still so, and it is about
\* to send, or has sent and is about to write, whatever does not agree.
Owes(a, u) ==
    /\ Agrees(u) \/ pc[a] = "write" \/ Heals(a, u)
    /\ \A row \in seen[a] : row.user = u =>
         /\ pc[a] \in {"wallet", "compare"} =>
              (ExpectsOnChainApproval(row.role) <=> Expected(u))
         /\ pc[a] = "compare" => row.wallet = wallet[u]
    /\ pc[a] \in {"submit", "record"} =>
         \A t \in tasks[a] : t.user = u =>
           /\ t.wallet = wallet[u]
           /\ IsHeal(a) => (t.allowed <=> Expected(u))
           /\ ~IsHeal(a) => (t.allowed <=> WantsGrant(job[a]))
    /\ pc[a] = "write" =>
         /\ Granted(u) <=> WantsGrant(job[a])
         /\ HasSubmitted(a) \/ Agrees(u)

Settled(u) ==
    u \notin disturbed /\ wallet[u] # NoWallet =>
      /\ Busy(u) \/ Agrees(u)
      /\ \A a \in Calls : Serves(a, u) => Owes(a, u)

SourcesAgree == \A u \in Users : Sole(u) /\ Settled(u)

LEMMA InitAgree == Init => SourcesAgree
<1>. SUFFICES ASSUME Init, NEW u \in Users PROVE Sole(u) /\ Settled(u)
  BY DEF SourcesAgree
<1>1. \A a \in Calls : ~Serves(a, u)
  BY DEF Init, Serves, InFlight
<1>2. ASSUME wallet[u] # NoWallet, u \notin disturbed PROVE Agrees(u)
  <2>1. wallet[u] = <<u, 1>> /\ wallet[u] \in Wallets
    BY <1>2, MembershipAssumption DEF Init, Wallets
  <2>2. \A w : Will(w) <=> w \in approvers
    BY DEF Init, Will, IsPending
  <2>3. wallet[u] \in approvers <=> ExpectsOnChainApproval(member[u])
    BY <1>2 DEF Init, OutOfStep, ExpectsOnChainApproval
  <2>. QED BY <2>1, <2>2, <2>3 DEF Agrees, Granted, Expected
<1>. QED BY <1>1, <1>2 DEF Sole, Settled

LEMMA GrantedSame ==
  ASSUME NEW u \in Users, wallet'[u] = wallet[u],
         \A w \in Wallets : w = wallet[u] => (Will(w)' <=> Will(w))
  PROVE  Granted(u)' <=> Granted(u)
  BY DEF Granted

\* A step that does not move what concerns u leaves him settled.
LEMMA BystanderSettled ==
  ASSUME NEW u \in Users, Sole(u), Settled(u), wallet'[u] = wallet[u],
         u \notin disturbed' => u \notin disturbed,
         Granted(u)' <=> Granted(u), Expected(u)' <=> Expected(u),
         submitted \subseteq submitted',
         \A a \in Calls : Serves(a, u)' <=> Serves(a, u),
         \A a \in Calls : Serves(a, u) =>
           /\ pc'[a] = pc[a] /\ job'[a] = job[a]
           /\ seen'[a] = seen[a] /\ tasks'[a] = tasks[a]
  PROVE  Sole(u)' /\ Settled(u)'
<1>1. Sole(u)'
  BY DEF Sole
<1>2. SUFFICES ASSUME u \notin disturbed', wallet'[u] # NoWallet
               PROVE  Settled(u)'
  BY <1>1 DEF Settled
<1>3. Busy(u)' \/ Agrees(u)'
  BY <1>2 DEF Settled, Busy, Serves, Agrees, InFlight
<1>4. ASSUME NEW a \in Calls, Serves(a, u)' PROVE Owes(a, u)'
  BY <1>2, <1>4 DEF Settled, Owes, Agrees, Heals, IsHeal, TaskUsers,
     HasSubmitted
<1>. QED BY <1>3, <1>4 DEF Settled

\* The call that serves u alone settles him, or still owes it.
LEMMA ServedSettled ==
  ASSUME NEW u \in Users, NEW a \in Calls,
         u \notin disturbed' => \A b \in Calls : Serves(b, u)' => b = a,
         u \notin disturbed' /\ wallet'[u] # NoWallet =>
           /\ ~Serves(a, u)' => Agrees(u)'
           /\ Serves(a, u)' => Owes(a, u)'
  PROVE  Sole(u)' /\ Settled(u)'
<1>1. ASSUME Serves(a, u)' PROVE Busy(u)'
  BY <1>1 DEF Serves, Busy, InFlight
<1>. QED BY <1>1 DEF Sole, Settled

LEMMA ChainSame ==
  ASSUME UNCHANGED <<pool, approvers>>
  PROVE  \A w : Will(w)' <=> Will(w)
  BY DEF Will, IsPending

\* Whom a call's step does not serve, it leaves settled.
LEMMA CallBystander ==
  ASSUME GrantsTied, Shaped, SourcesAgree, NEW a \in Calls, CallStep(a),
         NEW u \in Users, ~Serves(a, u), ~Serves(a, u)',
         u \notin disturbed' => u \notin disturbed,
         member'[u] = member[u], submitted \subseteq submitted',
         \A w \in Of(u) : Will(w)' <=> Will(w)
  PROVE  Sole(u)' /\ Settled(u)'
<1>1. /\ \A b \in Calls : b # a =>
           /\ pc'[b] = pc[b] /\ job'[b] = job[b]
           /\ seen'[b] = seen[b] /\ tasks'[b] = tasks[b]
      /\ wallet' = wallet
  BY OthersStand DEF GrantsTied
<1>2. Granted(u)' <=> Granted(u)
  <2>1. \A w \in Wallets : w = wallet[u] => w \in Of(u)
    BY WalletParts DEF Shaped, MayBe
  <2>. QED BY <1>1, <2>1, GrantedSame
<1>3. \A b \in Calls : Serves(b, u)' <=> Serves(b, u)
  BY <1>1 DEF Serves, InFlight, Concerns
<1>4. Expected(u)' <=> Expected(u)
  BY DEF Expected
<1>5. \A b \in Calls : Serves(b, u) =>
        /\ pc'[b] = pc[b] /\ job'[b] = job[b]
        /\ seen'[b] = seen[b] /\ tasks'[b] = tasks[b]
  BY <1>1
<1>6. Sole(u) /\ Settled(u) /\ wallet'[u] = wallet[u]
  BY <1>1 DEF SourcesAgree
<1>. QED BY <1>2, <1>3, <1>4, <1>5, <1>6, BystanderSettled

\* Whom it serves, it leaves in the state the lemma's last assumption asks for.
LEMMA CallServed ==
  ASSUME GrantsTied, SourcesAgree, NEW a \in Calls, CallStep(a),
         NEW u \in Users, Serves(a, u), u \notin disturbed' => u \notin disturbed,
         u \notin disturbed' /\ wallet[u] # NoWallet =>
           /\ ~Serves(a, u)' => Agrees(u)'
           /\ Serves(a, u)' => Owes(a, u)'
  PROVE  Sole(u)' /\ Settled(u)'
<1>1. /\ \A b \in Calls : b # a => pc'[b] = pc[b] /\ job'[b] = job[b]
      /\ wallet' = wallet
  BY OthersStand DEF GrantsTied
<1>2. \A b \in Calls : b # a => (Serves(b, u)' <=> Serves(b, u))
  BY <1>1 DEF Serves, InFlight, Concerns
<1>3. u \notin disturbed' => \A b \in Calls : Serves(b, u)' => b = a
  BY <1>2 DEF SourcesAgree, Sole
<1>. QED BY <1>1, <1>3, ServedSettled

LEMMA PostAgree ==
  ASSUME GrantsTied, Shaped, SourcesAgree, NEW a \in Calls, CallStep(a),
         NEW j \in Job, (j.kind = "heal") = (j.user = NoUser), Post(a, j),
         NEW u \in Users
  PROVE  Sole(u)' /\ Settled(u)'
<1>. USE DEF callFrame, chainVars, dbVars, loginVars, Goes, Disturbs
<1>0. CallsTyped
  BY DEF GrantsTied
<1>1. /\ pc[a] = "idle" /\ pc'[a] \in {"list", "target"} /\ job'[a] = j
      /\ UNCHANGED <<member, wallet, submitted, seen, tasks, pool, approvers>>
      /\ disturbed' = disturbed \union {v \in Concerns(j) : Busy(v)}
  BY <1>0 DEF Post, CallsTyped
<1>2. \A w : Will(w)' <=> Will(w)
  BY <1>1, ChainSame
<1>3. ~Serves(a, u) /\ (Serves(a, u)' <=> u \in Concerns(j))
  BY <1>1 DEF Serves, InFlight, Concerns
<1>4. CASE u \notin Concerns(j)
  BY <1>1, <1>2, <1>3, <1>4, CallBystander
<1>5. CASE u \in Concerns(j)
  <2>1. u \notin disturbed' => u \notin disturbed /\ ~Busy(u)
    BY <1>1, <1>5
  <2>2. \A b \in Calls : b # a => pc'[b] = pc[b] /\ job'[b] = job[b]
    BY <1>0, OthersStand
  <2>3. u \notin disturbed' => \A b \in Calls : Serves(b, u)' => b = a
    BY <2>1, <2>2 DEF Serves, Busy, InFlight, Concerns
  <2>4. (Granted(u)' <=> Granted(u)) /\ (Expected(u)' <=> Expected(u))
    BY <1>1, <1>2, GrantedSame DEF Expected
  <2>5. u \notin disturbed' /\ wallet'[u] # NoWallet => Agrees(u)'
    BY <1>1, <2>1, <2>4 DEF SourcesAgree, Settled, Agrees
  <2>6. Agrees(u)' => Owes(a, u)'
    BY <1>1 DEF Owes
  <2>. QED BY <1>3, <1>5, <2>3, <2>5, <2>6, ServedSettled
<1>. QED BY <1>4, <1>5

\* What the call serving u knows, at each place it can be.
LEMMA OwesWhile ==
  ASSUME SourcesAgree, NEW a \in Calls, NEW u \in Users, Serves(a, u),
         u \notin disturbed, wallet[u] # NoWallet
  PROVE  Owes(a, u)
  BY DEF SourcesAgree, Settled

LEMMA ReadAgree ==
  ASSUME GrantsTied, Shaped, SourcesAgree, NEW a \in Calls, CallStep(a),
         ReadTarget(a) \/ ReadWallet(a) \/ ListMembers(a) \/ ReadFails(a),
         NEW u \in Users
  PROVE  Sole(u)' /\ Settled(u)'
<1>. USE DEF callFrame, chainVars, dbVars, loginVars, Goes
<1>0. CallsTyped /\ Fits(a)
  BY DEF GrantsTied, Shaped
<1>1. /\ pc[a] \in {"target", "wallet", "list", "compare"}
      /\ pc'[a] \in {"wallet", "submit", "write", "compare", "done"}
      /\ UNCHANGED <<member, wallet, submitted, job, pool, approvers, disturbed>>
  BY <1>0 DEF ReadTarget, ReadWallet, ListMembers, ReadFails, CallsTyped
<1>2. \A w : Will(w)' <=> Will(w)
  BY <1>1, ChainSame
<1>3. /\ Serves(a, u) <=> u \in Concerns(job[a])
      /\ Serves(a, u)' => Serves(a, u)
  BY <1>1 DEF Serves, InFlight, Concerns
<1>4. CASE ~Serves(a, u)
  BY <1>1, <1>2, <1>3, <1>4, CallBystander
<1>5. CASE Serves(a, u)
  <2>. SUFFICES ASSUME u \notin disturbed, wallet[u] # NoWallet
                PROVE  Agrees(u)' /\ Owes(a, u)'
    BY <1>1, <1>5, CallServed
  <2>1. Owes(a, u)
    BY <1>5, OwesWhile
  <2>2. (Granted(u)' <=> Granted(u)) /\ (Expected(u)' <=> Expected(u))
    BY <1>1, <1>2, GrantedSame DEF Expected
  <2>3. Agrees(u)
    BY <1>1, <2>1 DEF Owes, Heals
  <2>4. Agrees(u)'
    BY <2>2, <2>3 DEF Agrees
  <2>5. CASE pc'[a] = "done"
    BY <2>4, <2>5 DEF Owes
  <2>6. CASE ReadTarget(a) /\ pc'[a] # "done"
    <3>1. /\ pc'[a] = "wallet"
          /\ \A row \in seen'[a] : row.role = member[job[a].user]
                                   /\ row.user = job[a].user
      BY <2>6, <1>0 DEF ReadTarget, CallsTyped
    <3>. QED BY <3>1, <2>4, <1>1 DEF Owes, Expected
  <2>7. CASE ReadWallet(a)
    <3>1. PICK row \in seen[a] :
            LET due == {t \in {[user |-> row.user, wallet |-> wallet[row.user],
                                allowed |-> WantsGrant(job[a])]} :
                          wallet[row.user] # NoWallet /\ Crosses(row.role, job[a])}
            IN tasks' = [tasks EXCEPT ![a] = due]
               /\ pc' = [pc EXCEPT ![a] = IF due = {} THEN "write" ELSE "submit"]
      BY <2>7 DEF ReadWallet
    <3>2. /\ pc[a] = "wallet" /\ ~IsHeal(a) /\ row.user = u /\ seen' = seen
          /\ ~IsHeal(a)'
      BY <2>7, <1>0, <1>1, <1>3, <1>5 DEF ReadWallet, Fits, Concerns, IsHeal
    <3>3. ExpectsOnChainApproval(row.role) <=> Expected(u)
      BY <2>1, <3>2 DEF Owes
    <3>4. \A t \in tasks'[a] : t.wallet = wallet[u] /\ t.allowed = WantsGrant(job[a])
      BY <3>1, <3>2, <1>0 DEF CallsTyped
    <3>5. \/ pc'[a] = "submit"
          \/ pc'[a] = "write" /\ ~Crosses(row.role, job[a])
      BY <3>1, <3>2, <1>0 DEF CallsTyped
    <3>6. pc'[a] = "write" => (Granted(u)' <=> WantsGrant(job[a]))
      BY <3>3, <3>5, <2>2, <2>3 DEF Crosses, Agrees, ExpectsOnChainApproval,
         WantsGrant, Expected
    <3>. QED BY <3>2, <3>4, <3>5, <3>6, <2>4, <1>1 DEF Owes, WantsGrant
  <2>8. CASE ListMembers(a)
    <3>1. /\ pc'[a] = "compare"
          /\ \A row \in seen'[a] : row.role = member[row.user]
                                   /\ row.wallet = wallet[row.user]
      BY <2>8, <1>0 DEF ListMembers, CallsTyped
    <3>. QED BY <3>1, <2>4, <1>1 DEF Owes, Expected
  <2>9. ReadFails(a) => pc'[a] = "done"
    BY <1>0 DEF ReadFails, CallsTyped
  <2>. QED BY <2>4, <2>5, <2>6, <2>7, <2>8, <2>9
<1>. QED BY <1>4, <1>5

\* A heal's comparison sends for every member it lists out of step, and what it
\* accounts for was neither pending nor in another call's hands.
LEMMA CompareAgree ==
  ASSUME GrantsTied, Shaped, SourcesAgree, NEW a \in Calls, CallStep(a),
         Compare(a), NEW u \in Users
  PROVE  Sole(u)' /\ Settled(u)'
<1>. USE DEF callFrame, chainVars, dbVars, loginVars, Goes
<1>0. CallsTyped /\ Fits(a)
  BY DEF GrantsTied, Shaped
<1>. DEFINE Due(row) == [user |-> row.user, wallet |-> row.wallet,
                         allowed |-> ExpectsOnChainApproval(row.role)]
            due == {Due(row) : row \in OutOfSync(seen[a])}
<1>1. /\ pc[a] = "compare" /\ tasks'[a] = due
      /\ pc'[a] = (IF OutOfSync(seen[a]) = {} THEN "done" ELSE "submit")
      /\ disturbed' = disturbed \
           {row.user : row \in {r \in seen[a] : Accounts(a, r)}}
      /\ UNCHANGED <<member, wallet, submitted, job, seen, pool, approvers>>
  BY <1>0 DEF Compare, CallsTyped
<1>2. \A w : Will(w)' <=> Will(w)
  BY <1>1, ChainSame
<1>3. /\ IsHeal(a) /\ IsHeal(a)' /\ Serves(a, u)
      /\ Serves(a, u)' <=> pc'[a] # "done"
  BY <1>0, <1>1 DEF Serves, InFlight, Concerns, Fits, IsHeal
<1>4. (Granted(u)' <=> Granted(u)) /\ (Expected(u)' <=> Expected(u))
  BY <1>1, <1>2, GrantedSame DEF Expected
<1>5. /\ \A t \in due : \E row \in OutOfSync(seen[a]) :
           /\ t.user = row.user /\ t.wallet = row.wallet
           /\ t.allowed = ExpectsOnChainApproval(row.role)
      /\ \A row \in OutOfSync(seen[a]) : \E t \in due : t.user = row.user
  <2>1. \A row \in OutOfSync(seen[a]) : Due(row) \in due /\ Due(row).user = row.user
    OBVIOUS
  <2>2. \A t \in due : \E row \in OutOfSync(seen[a]) : t = Due(row)
    OBVIOUS
  <2>3. \A row : /\ Due(row).user = row.user /\ Due(row).wallet = row.wallet
                 /\ Due(row).allowed = ExpectsOnChainApproval(row.role)
    OBVIOUS
  <2>. HIDE DEF due, Due
  <2>. QED BY <2>1, <2>2, <2>3
<1>. HIDE DEF due, Due
<1>6. OutOfSync(seen[a]) = {} => pc'[a] = "done"
  BY <1>1
\* What is listed as it is, and either agrees or is sent for.
<1>7. ASSUME wallet[u] # NoWallet,
             Agrees(u) \/ \E row \in OutOfSync(seen[a]) : row.user = u,
             \A row \in seen[a] : row.user = u =>
               /\ row.wallet = wallet[u]
               /\ ExpectsOnChainApproval(row.role) <=> Expected(u)
      PROVE  /\ ~Serves(a, u)' => Agrees(u)'
             /\ Serves(a, u)' => Owes(a, u)'
  <2>1. Agrees(u)' <=> Agrees(u)
    BY <1>4 DEF Agrees
  <2>2. (\E row \in OutOfSync(seen[a]) : row.user = u) => u \in TaskUsers(a)'
    BY <1>1, <1>5 DEF TaskUsers
  <2>3. ~Serves(a, u)' => Agrees(u)'
    BY <1>1, <1>3, <1>7, <2>1
  <2>4. pc'[a] = "submit" => Agrees(u)' \/ Heals(a, u)'
    BY <1>3, <1>7, <2>1, <2>2 DEF Heals
  <2>5. \A t \in tasks'[a] : t.user = u =>
          t.wallet = wallet[u] /\ (t.allowed <=> Expected(u))
    BY <1>1, <1>5, <1>7 DEF OutOfSync
  <2>6. Serves(a, u)' => pc'[a] = "submit"
    BY <1>1, <1>3
  <2>. QED BY <2>3, <2>4, <2>5, <2>6, <1>1, <1>3, <1>4 DEF Owes
<1>8. CASE u \in disturbed /\ u \notin disturbed'
  <2>1. PICK row \in seen[a] : row.user = u /\ Accounts(a, row)
    BY <1>1, <1>8
  <2>2. /\ wallet[u] # NoWallet /\ row.wallet = wallet[u] /\ row.role = member[u]
        /\ ~IsPending(wallet[u])
        /\ \A b \in InFlight \ {a} : u \notin Concerns(job[b])
    BY <2>1 DEF Accounts
  <2>3. \A other \in seen[a] : other.user = u => other = row
    BY <2>1, <1>0 DEF Fits
  <2>4. \A other \in seen[a] : other.user = u =>
          /\ other.wallet = wallet[u]
          /\ ExpectsOnChainApproval(other.role) <=> Expected(u)
    BY <2>2, <2>3 DEF Expected
  <2>5. wallet[u] \in Wallets
    BY <2>2, WalletsOf DEF Shaped, MayBe
  <2>6. Granted(u) <=> wallet[u] \in approvers
    <3>1. PICK w \in Wallets : w = wallet[u]
      BY <2>5
    <3>2. Will(w) <=> w \in approvers
      BY <2>2, <3>1 DEF Will, IsPending
    <3>. QED BY <3>1, <3>2 DEF Granted
  <2>7. Agrees(u) \/ row \in OutOfSync(seen[a])
    BY <2>1, <2>2, <2>6 DEF Agrees, Expected, OutOfSync, ExpectsOnChainApproval
  <2>8. \A b \in Calls : Serves(b, u)' => b = a
    <3>1. ASSUME NEW b \in Calls, b # a, Serves(b, u)' PROVE Serves(b, u)
      BY <3>1, <1>0, OthersStand DEF Serves, InFlight, Concerns
    <3>. QED BY <3>1, <2>2 DEF Serves
  <2>9. /\ ~Serves(a, u)' => Agrees(u)'
        /\ Serves(a, u)' => Owes(a, u)'
    BY <2>1, <2>2, <2>4, <2>7, <1>7
  <2>. QED BY <2>8, <2>9, ServedSettled
<1>9. CASE u \notin disturbed' => u \notin disturbed
  <2>. SUFFICES ASSUME u \notin disturbed, wallet[u] # NoWallet
                PROVE  /\ ~Serves(a, u)' => Agrees(u)'
                       /\ Serves(a, u)' => Owes(a, u)'
    BY <1>3, <1>9, CallServed
  <2>1. Owes(a, u)
    BY <1>3, OwesWhile
  <2>2. Agrees(u)
    BY <2>1, <1>1 DEF Owes, Heals
  <2>3. \A row \in seen[a] : row.user = u =>
          /\ row.wallet = wallet[u]
          /\ ExpectsOnChainApproval(row.role) <=> Expected(u)
    BY <2>1, <1>1 DEF Owes
  <2>. QED BY <2>2, <2>3, <1>7
<1>. QED BY <1>8, <1>9

\* What is sent about one user leaves the grants of the others as they were.
LEMMA SendsOne ==
  ASSUME GrantsTied, Shaped, NEW a \in Calls, NEW t \in tasks[a],
         pool' = Append(pool, [wallet |-> t.wallet, allowed |-> t.allowed]),
         approvers' = approvers
  PROVE  /\ t.user \in Users /\ t.wallet \in Wallets
         /\ \A u \in Users : \A w \in Of(u) : u # t.user => (Will(w)' <=> Will(w))
         /\ \A w : w = t.wallet => (Will(w)' <=> t.allowed)
<1>1. t.user \in Users /\ t.wallet \in Of(t.user) /\ t.allowed \in BOOLEAN
      /\ pool \in Seq(Entry)
  BY DEF GrantsTied, CallsTyped, Shaped, Fits
<1>. DEFINE e == [wallet |-> t.wallet, allowed |-> t.allowed]
<1>2. t.wallet \in Wallets /\ t.wallet[1] = t.user
  BY <1>1, WalletsOf
<1>3. e \in Entry /\ e.wallet = t.wallet /\ e.allowed = t.allowed
  BY <1>1, <1>2 DEF Entry
<1>4. \A w : Will(w)' <=> IF w = t.wallet THEN t.allowed ELSE Will(w)
  <2>. HIDE DEF e
  <2>1. pool' = Append(pool, e)
    BY DEF e
  <2>. QED BY <2>1, <1>1, <1>3, SubmittingSetsWill
<1>5. \A u \in Users : \A w \in Of(u) : u # t.user => w # t.wallet
  BY <1>2, WalletsOf
<1>. QED BY <1>1, <1>2, <1>4, <1>5

LEMMA SubmitAgree ==
  ASSUME GrantsTied, Shaped, SourcesAgree, NEW a \in Calls, CallStep(a),
         Submit(a), NEW u \in Users
  PROVE  Sole(u)' /\ Settled(u)'
<1>. USE DEF callFrame, chainVars, dbVars, loginVars, Goes
<1>0. CallsTyped /\ Fits(a)
  BY DEF GrantsTied, Shaped
<1>1. PICK t \in tasks[a] :
        /\ pool' = Append(pool, [wallet |-> t.wallet, allowed |-> t.allowed])
        /\ submitted' = submitted \union {<<a, t.user>>}
        /\ tasks' = [tasks EXCEPT ![a] = @ \ {t}]
        /\ job' = [job EXCEPT ![a].user = t.user]
  BY DEF Submit, Submits
<1>2. /\ pc[a] = "submit" /\ pc'[a] = (IF IsHeal(a) THEN "record" ELSE "write")
      /\ UNCHANGED <<member, wallet, seen, approvers, disturbed>>
      /\ tasks'[a] = tasks[a] \ {t}
      /\ job'[a].user = t.user /\ job'[a].kind = job[a].kind
      /\ job'[a].role = job[a].role
  BY <1>0, <1>1 DEF Submit, Submits, CallsTyped, IsHeal, Job
<1>3. /\ t.user \in Users /\ t.wallet \in Wallets
      /\ \A v \in Users : \A w \in Of(v) : v # t.user => (Will(w)' <=> Will(w))
      /\ \A w : w = t.wallet => (Will(w)' <=> t.allowed)
  BY <1>1, <1>2, SendsOne
<1>4. /\ IsHeal(a) <=> IsHeal(a)'
      /\ Serves(a, u) <=> IsHeal(a) \/ u = t.user
      /\ Serves(a, u)' <=> IsHeal(a) \/ u = t.user
  BY <1>0, <1>2 DEF Serves, InFlight, Concerns, IsHeal, Fits
<1>5. Expected(u)' <=> Expected(u)
  BY <1>2 DEF Expected
<1>6. CASE ~Serves(a, u)
  <2>1. u # t.user /\ ~Serves(a, u)'
    BY <1>4, <1>6
  <2>2. \A w \in Of(u) : Will(w)' <=> Will(w)
    BY <2>1, <1>3
  <2>3. submitted \subseteq submitted'
    BY <1>1
  <2>. QED BY <2>1, <2>2, <2>3, <1>2, <1>6, CallBystander
<1>7. CASE Serves(a, u)
  <2>. SUFFICES ASSUME u \notin disturbed, wallet[u] # NoWallet
                PROVE  Owes(a, u)'
    BY <1>2, <1>4, <1>7, CallServed
  <2>1. Owes(a, u)
    BY <1>7, OwesWhile
  <2>2. CASE u = t.user
    <3>1. t.wallet = wallet[u]
      BY <2>1, <2>2, <1>2 DEF Owes
    <3>2. Granted(u)' <=> t.allowed
      BY <3>1, <1>2, <1>3 DEF Granted
    <3>3. CASE IsHeal(a)
      <4>1. t.allowed <=> Expected(u)
        BY <2>1, <2>2, <3>3, <1>2 DEF Owes
      <4>2. Agrees(u)'
        BY <3>2, <4>1, <1>5 DEF Agrees
      <4>. QED BY <4>2, <2>1, <3>3, <1>2, <1>4, <1>5 DEF Owes
    <3>4. CASE ~IsHeal(a)
      <4>1. t.allowed <=> WantsGrant(job[a])
        BY <2>1, <2>2, <3>4, <1>2 DEF Owes
      <4>2. WantsGrant(job[a])' <=> WantsGrant(job[a])
        BY <1>2 DEF WantsGrant
      <4>3. HasSubmitted(a)'
        BY <1>1, <1>2 DEF HasSubmitted
      <4>4. pc'[a] = "write"
        BY <1>2, <3>4
      <4>. QED BY <3>2, <4>1, <4>2, <4>3, <4>4 DEF Owes
    <3>. QED BY <3>3, <3>4
  <2>3. CASE u # t.user
    <3>1. IsHeal(a) /\ IsHeal(a)' /\ pc'[a] = "record"
      BY <1>2, <1>4, <1>7, <2>3
    <3>2. \A w \in Wallets : w = wallet[u] => w \in Of(u)
      BY WalletParts DEF Shaped, MayBe
    <3>3. Granted(u)' <=> Granted(u)
      BY <3>2, <2>3, <1>2, <1>3, GrantedSame
    <3>4. u \in TaskUsers(a) => u \in TaskUsers(a)'
      BY <2>3, <1>2 DEF TaskUsers
    <3>5. Agrees(u)' \/ Heals(a, u)'
      BY <2>1, <3>1, <3>3, <3>4, <1>2, <1>5 DEF Owes, Heals, Agrees
    <3>6. \A x \in tasks'[a] : x.user = u =>
            x.wallet = wallet[u] /\ (x.allowed <=> Expected(u))
      BY <2>1, <3>1, <1>2 DEF Owes
    <3>. QED BY <3>1, <3>5, <3>6, <1>2, <1>5 DEF Owes
  <2>. QED BY <2>2, <2>3
<1>. QED BY <1>6, <1>7

\* A submission that is refused or not answered ends the call.
LEMMA SubmitLostAgree ==
  ASSUME GrantsTied, Shaped, SourcesAgree, NEW a \in Calls, CallStep(a),
         SubmitRefused(a) \/ SubmitUnanswered(a) \/ RecordFails(a),
         NEW u \in Users
  PROVE  Sole(u)' /\ Settled(u)'
<1>. USE DEF callFrame, chainVars, dbVars, loginVars, Goes, Disturbs
<1>0. CallsTyped /\ Fits(a)
  BY DEF GrantsTied, Shaped
<1>1. /\ pc[a] \in {"submit", "record"} /\ pc'[a] = "done"
      /\ UNCHANGED <<member, wallet, seen, job, tasks, approvers>>
      /\ submitted \subseteq submitted'
      /\ disturbed \subseteq disturbed'
      /\ IsHeal(a) => TaskUsers(a) \subseteq disturbed'
  BY <1>0 DEF SubmitRefused, SubmitUnanswered, RecordFails, Submits, CallsTyped,
     IsHeal
<1>2. \/ pool' = pool
      \/ /\ TaskUsers(a) \subseteq disturbed'
         /\ \E t \in tasks[a] :
              pool' = Append(pool, [wallet |-> t.wallet, allowed |-> t.allowed])
  BY DEF SubmitRefused, SubmitUnanswered, RecordFails, Submits
<1>3. \/ \A w \in Of(u) : Will(w)' <=> Will(w)
      \/ u \in disturbed' /\ u \in TaskUsers(a)
  <2>1. CASE pool' = pool
    BY <2>1, <1>1, ChainSame
  <2>2. CASE pool' # pool
    <3>1. PICK t \in tasks[a] :
            pool' = Append(pool, [wallet |-> t.wallet, allowed |-> t.allowed])
      BY <2>2, <1>2
    <3>2. \A v \in Users : \A w \in Of(v) : v # t.user => (Will(w)' <=> Will(w))
      BY <3>1, <1>1, SendsOne
    <3>3. t.user \in TaskUsers(a)
      BY DEF TaskUsers
    <3>. QED BY <3>2, <3>3, <2>2, <1>2
  <2>. QED BY <2>1, <2>2
<1>4. ~Serves(a, u)'
  BY <1>1 DEF Serves, InFlight
<1>5. CASE ~Serves(a, u)
  <2>1. u \in TaskUsers(a) => IsHeal(a) \/ pc[a] = "record" \/ u = job[a].user
    BY <1>0, <1>1 DEF TaskUsers, Fits
  <2>2. u \notin TaskUsers(a)
    BY <2>1, <1>0, <1>1, <1>5 DEF Serves, InFlight, Concerns, Fits, IsHeal,
       TaskUsers
  <2>3. \A w \in Of(u) : Will(w)' <=> Will(w)
    BY <2>2, <1>3
  <2>4. u \notin disturbed' => u \notin disturbed
    BY <1>1
  <2>. QED BY <2>3, <2>4, <1>1, <1>4, <1>5, CallBystander
<1>6. CASE Serves(a, u)
  <2>0. u \notin disturbed' => u \notin disturbed
    BY <1>1
  <2>. SUFFICES ASSUME u \notin disturbed', wallet[u] # NoWallet
                PROVE  Agrees(u)'
    BY <2>0, <1>4, <1>6, CallServed
  <2>1. Owes(a, u)
    BY <2>0, <1>6, OwesWhile
  <2>2. Agrees(u)
    BY <2>1, <1>1 DEF Owes, Heals
  <2>3. \A w \in Wallets : w = wallet[u] => w \in Of(u)
    BY WalletParts DEF Shaped, MayBe
  <2>4. Granted(u)' <=> Granted(u)
    BY <2>3, <1>1, <1>3, GrantedSame
  <2>5. Expected(u)' <=> Expected(u)
    BY <1>1 DEF Expected
  <2>. QED BY <2>2, <2>4, <2>5 DEF Agrees
<1>. QED BY <1>5, <1>6

\* The row follows the grant, or the grant's call says it could not.
LEMMA WriteAgree ==
  ASSUME GrantsTied, Shaped, SourcesAgree, NEW a \in Calls, CallStep(a),
         WriteRow(a) \/ WriteFails(a) \/ Record(a), NEW u \in Users
  PROVE  Sole(u)' /\ Settled(u)'
<1>. USE DEF callFrame, chainVars, dbVars, loginVars, Goes, Disturbs
<1>0. CallsTyped /\ Fits(a) /\ member = [v \in Users |-> member[v]]
  BY DEF GrantsTied, Shaped
<1>1. /\ pc[a] \in {"write", "record"} /\ pc'[a] \in {"record", "submit", "done"}
      /\ UNCHANGED <<wallet, seen, job, tasks, pool, approvers, submitted>>
      /\ disturbed \subseteq disturbed'
  BY <1>0 DEF WriteRow, AfterWrite, WriteFails, Record, CallsTyped
<1>2. \A w : Will(w)' <=> Will(w)
  BY <1>1, ChainSame
<1>3. /\ Serves(a, u) <=> u \in Concerns(job[a])
      /\ Serves(a, u)' => Serves(a, u)
      /\ u \notin disturbed' => u \notin disturbed
      /\ IsHeal(a)' <=> IsHeal(a)
  BY <1>1 DEF Serves, InFlight, Concerns, IsHeal
<1>4. CASE ~Serves(a, u)
  <2>1. member'[u] = member[u]
    <3>1. CASE WriteRow(a)
      <4>1. PICK row \in seen[a] :
              member' = [member EXCEPT ![row.user] =
                IF job[a].kind = "role" THEN job[a].role ELSE NoRole]
        BY <3>1 DEF WriteRow
      <4>2. row.user = job[a].user /\ u # job[a].user
        BY <3>1, <1>0, <1>3, <1>4 DEF WriteRow, Fits, Concerns, IsHeal
      <4>. QED BY <4>1, <4>2, <1>0
    <3>2. CASE ~WriteRow(a)
      BY <3>2 DEF WriteFails, Record
    <3>. QED BY <3>1, <3>2
  <2>. QED BY <2>1, <1>1, <1>2, <1>3, <1>4, CallBystander
<1>5. CASE Serves(a, u)
  <2>. SUFFICES ASSUME u \notin disturbed', wallet[u] # NoWallet
                PROVE  /\ ~Serves(a, u)' => Agrees(u)'
                       /\ Serves(a, u)' => Owes(a, u)'
    BY <1>3, <1>5, CallServed
  <2>1. Owes(a, u)
    BY <1>3, <1>5, OwesWhile
  <2>2. Granted(u)' <=> Granted(u)
    BY <1>1, <1>2, GrantedSame
  <2>3. CASE WriteRow(a)
    <3>1. PICK row \in seen[a] :
            member' = [member EXCEPT ![row.user] =
              IF job[a].kind = "role" THEN job[a].role ELSE NoRole]
      BY <2>3 DEF WriteRow
    <3>2. /\ pc[a] = "write" /\ ~IsHeal(a) /\ row.user = u /\ tasks[a] = {}
          /\ pc'[a] \in {"record", "done"}
      BY <2>3, <1>0, <1>3, <1>5 DEF WriteRow, AfterWrite, Fits, Concerns,
         IsHeal, CallsTyped
    <3>3. member'[u] = IF job[a].kind = "role" THEN job[a].role ELSE NoRole
      BY <3>1, <3>2, <1>0
    <3>4. Expected(u)' <=> WantsGrant(job[a])
      BY <3>3 DEF Expected, WantsGrant, ExpectsOnChainApproval, NoRole
    <3>5. Agrees(u)'
      BY <2>1, <2>2, <3>2, <3>4 DEF Agrees, Owes
    <3>. QED BY <3>2, <3>5, <1>1 DEF Owes
  <2>4. CASE WriteFails(a)
    <3>1. /\ pc[a] = "write" /\ ~IsHeal(a) /\ u = job[a].user
          /\ pc'[a] = "done" /\ member' = member
          /\ ~HasSubmitted(a)
      BY <2>4, <1>0, <1>3, <1>5 DEF WriteFails, Fits, Concerns, IsHeal,
         CallsTyped
    <3>2. Agrees(u) /\ (Expected(u)' <=> Expected(u))
      BY <2>1, <3>1 DEF Owes, Expected
    <3>3. Agrees(u)' /\ ~Serves(a, u)'
      BY <2>2, <3>1, <3>2 DEF Agrees, Serves, InFlight
    <3>. QED BY <3>3
  <2>5. CASE Record(a)
    <3>1. /\ pc[a] = "record" /\ member' = member
          /\ pc'[a] = (IF tasks[a] = {} THEN "done" ELSE "submit")
      BY <2>5, <1>0 DEF Record, CallsTyped
    <3>2. Expected(u)' <=> Expected(u)
      BY <3>1 DEF Expected
    <3>3. CASE tasks[a] = {}
      <4>1. Agrees(u)
        BY <2>1, <3>1, <3>3 DEF Owes, Heals, TaskUsers
      <4>2. Agrees(u)' /\ ~Serves(a, u)'
        BY <2>2, <3>1, <3>2, <3>3, <4>1 DEF Agrees, Serves, InFlight
      <4>. QED BY <4>2
    <3>4. CASE tasks[a] # {}
      <4>1. IsHeal(a) /\ IsHeal(a)' /\ pc'[a] = "submit"
        BY <3>1, <3>4, <1>0, <1>3 DEF Fits
      <4>2. Agrees(u)' \/ Heals(a, u)'
        BY <2>1, <2>2, <3>1, <3>2, <4>1, <1>1 DEF Agrees, Owes, Heals, TaskUsers
      <4>3. Owes(a, u)'
        BY <2>1, <3>1, <3>2, <4>1, <4>2, <1>1 DEF Owes
      <4>4. Serves(a, u)'
        BY <4>1, <1>1, <1>5 DEF Serves, InFlight
      <4>. QED BY <4>3, <4>4
    <3>. QED BY <3>3, <3>4
  <2>. QED BY <2>3, <2>4, <2>5
<1>. QED BY <1>4, <1>5

\* Steps of nobody's call: they keep who is served, and disturb whose role they
\* move across the line.
LEMMA OutsideAgree ==
  ASSUME SourcesAgree, UNCHANGED <<callVars, wallet, submitted>>,
         \A w : Will(w)' <=> Will(w), NEW u \in Users,
         u \notin disturbed' =>
           u \notin disturbed /\ (Expected(u)' <=> Expected(u))
  PROVE  Sole(u)' /\ Settled(u)'
<1>1. \A a \in Calls : Serves(a, u)' <=> Serves(a, u)
  BY DEF Serves, InFlight, Concerns, callVars
<1>2. Granted(u)' <=> Granted(u)
  BY GrantedSame
<1>3. CASE u \in disturbed'
  BY <1>3 DEF Sole, Settled
<1>4. CASE u \notin disturbed'
  BY <1>1, <1>2, <1>4, BystanderSettled DEF SourcesAgree, callVars
<1>. QED BY <1>3, <1>4

\* Another organisation's transaction: it concerns the wallet its user has, and
\* disturbs him unless it says what his role here expects.
LEMMA OthersAgree ==
  ASSUME Shaped, SourcesAgree, NEW x \in Users, NEW allowed \in BOOLEAN,
         OtherOrganizationSubmits(x, allowed), NEW u \in Users
  PROVE  Sole(u)' /\ Settled(u)'
<1>. DEFINE e == [wallet |-> wallet[x], allowed |-> allowed]
<1>1. /\ wallet[x] # NoWallet /\ pool' = Append(pool, e)
      /\ disturbed' = disturbed \union {y \in {x} :
           Busy(x) \/ allowed # ExpectsOnChainApproval(member[x])}
      /\ UNCHANGED <<callVars, member, wallet, approvers, submitted>>
  BY DEF OtherOrganizationSubmits, Disturbs, dbVars
<1>2. wallet[x] \in Of(x) /\ e \in Entry
  BY <1>1, WalletsOf DEF Shaped, MayBe, Entry
<1>. HIDE DEF e
<1>3. pool \in Seq(Entry)
  BY DEF Shaped
<1>4. \A w : Will(w)' <=> IF w = e.wallet THEN e.allowed ELSE Will(w)
  BY <1>1, <1>2, <1>3, SubmittingSetsWill
<1>5. Expected(u)' <=> Expected(u)
  BY <1>1 DEF Expected
<1>6. \A a \in Calls : Serves(a, u)' <=> Serves(a, u)
  BY <1>1 DEF Serves, InFlight, Concerns, callVars
<1>7. CASE u # x
  <2>1. wallet[u] # e.wallet
    BY <1>1, <1>2, <1>7, WalletsOf DEF Shaped, MayBe, e
  <2>2. Granted(u)' <=> Granted(u)
    BY <1>1, <1>4, <2>1, GrantedSame
  <2>3. u \notin disturbed' => u \notin disturbed
    BY <1>1
  <2>. QED BY <1>1, <1>5, <1>6, <2>2, <2>3, BystanderSettled
           DEF SourcesAgree, callVars
<1>8. CASE u = x
  <2>. SUFFICES ASSUME u \notin disturbed' PROVE Sole(u)' /\ Settled(u)'
    BY DEF Sole, Settled
  <2>1. ~Busy(u) /\ allowed = ExpectsOnChainApproval(member[u])
    BY <1>1, <1>8
  <2>2. \A a \in Calls : ~Serves(a, u)'
    BY <1>6, <2>1 DEF Serves, Busy
  <2>3. Granted(u)' <=> allowed
    BY <1>1, <1>2, <1>4, <1>8, WalletsOf DEF Granted, e
  <2>4. Agrees(u)'
    BY <1>5, <2>1, <2>3 DEF Agrees, Expected
  <2>. QED BY <2>2, <2>4 DEF Sole, Settled
<1>. QED BY <1>7, <1>8

LEMMA RoleAgree ==
  ASSUME Shaped, SourcesAgree, NEW x, NEW role, SetsRole(x, role),
         UNCHANGED <<callVars, chainVars, wallet>>, NEW u \in Users
  PROVE  Sole(u)' /\ Settled(u)'
<1>1. member = [v \in Users |-> member[v]]
  BY DEF Shaped
<1>2. /\ member' = [member EXCEPT ![x] = role]
      /\ disturbed \subseteq disturbed'
      /\ x \in disturbed' \/ (ExpectsOnChainApproval(member[x])
                                <=> ExpectsOnChainApproval(role))
  BY DEF SetsRole, Disturbs, ExpectsOnChainApproval
<1>3. u \in disturbed' \/ (Expected(u)' <=> Expected(u))
  BY <1>1, <1>2 DEF Expected
<1>4. \A w : Will(w)' <=> Will(w)
  BY ChainSame DEF chainVars
<1>. QED BY <1>2, <1>3, <1>4, OutsideAgree DEF chainVars

\* The wallet a request records is new, and has no grant.
LEMMA RecordWalletAgree ==
  ASSUME Shaped, Fresh, SourcesAgree, NEW p \in Provisions, RecordWallet(p),
         NEW u \in Users
  PROVE  Sole(u)' /\ Settled(u)'
<1>. USE DEF walletFrame
<1>. PICK x \in Users : x = provision[p].user
  BY DEF RecordWallet, Shaped
<1>. PICK new : new = provision[p].got
  OBVIOUS
<1>1. /\ wallet' = [wallet EXCEPT ![x] = new]
      /\ disturbed' = disturbed \union
           {y \in {x} : ExpectsOnChainApproval(member[x]) \/ Busy(x)}
      /\ UNCHANGED <<callVars, chainVars, member>>
      /\ new \in Wallets /\ Holds(p, new)
  BY WalletsOf DEF RecordWallet, Disturbs, Shaped, Holds
<1>2. \A w : Will(w)' <=> Will(w)
  BY <1>1, ChainSame DEF chainVars
<1>3. Expected(u)' <=> Expected(u)
  BY <1>1 DEF Expected
<1>4. CASE u # x
  <2>1. /\ wallet'[u] = wallet[u] /\ submitted' = submitted
        /\ u \notin disturbed' => u \notin disturbed
    BY <1>1, <1>4 DEF Shaped, chainVars
  <2>2. Granted(u)' <=> Granted(u)
    BY <2>1, <1>2, GrantedSame
  <2>3. \A a \in Calls : Serves(a, u)' <=> Serves(a, u)
    BY <1>1 DEF Serves, InFlight, Concerns, callVars
  <2>. QED BY <2>1, <2>2, <2>3, <1>1, <1>3, BystanderSettled
           DEF SourcesAgree, callVars
<1>5. CASE u = x
  <2>. SUFFICES ASSUME u \notin disturbed' PROVE Sole(u)' /\ Settled(u)'
    BY DEF Sole, Settled
  <2>1. ~Busy(u) /\ ~Expected(u)
    BY <1>1, <1>5 DEF Expected
  <2>2. \A a \in Calls : ~Serves(a, u)'
    BY <1>1, <2>1 DEF Serves, Busy, InFlight, Concerns, callVars
  <2>3. wallet'[u] = new
    BY <1>1, <1>5 DEF Shaped
  <2>4. ~Will(new)
    BY <1>1 DEF Fresh, Untouched, Will, IsPending
  <2>5. ~Granted(u)'
    BY <2>3, <2>4, <1>2 DEF Granted
  <2>6. Agrees(u)'
    BY <2>1, <2>5, <1>3 DEF Agrees
  <2>. QED BY <2>2, <2>6 DEF Sole, Settled
<1>. QED BY <1>4, <1>5

\* What a call had sent and not written when the process died is in doubt.
LEMMA RestartAgree ==
  ASSUME GrantsTied, Shaped, SourcesAgree, Restart, NEW u \in Users
  PROVE  Sole(u)' /\ Settled(u)'
<1>1. /\ UNCHANGED <<member, wallet, job, seen, tasks, submitted, pool, approvers>>
      /\ pc' = [a \in Calls |-> IF a \in InFlight THEN "done" ELSE pc[a]]
      /\ disturbed \subseteq disturbed'
      /\ \A a \in InFlight :
           /\ pc[a] = "write" /\ HasSubmitted(a) => job[a].user \in disturbed'
           /\ IsHeal(a) => TaskUsers(a) \subseteq disturbed'
  BY DEF Restart, Disturbs, dbVars, chainVars, IsHeal
<1>2. \A a \in Calls : ~Serves(a, u)'
  BY <1>1 DEF Serves, InFlight
<1>3. SUFFICES ASSUME u \notin disturbed', wallet[u] # NoWallet
               PROVE  Agrees(u)'
  BY <1>1, <1>2 DEF Sole, Settled
<1>4. Agrees(u)
  <2>1. CASE ~Busy(u)
    BY <2>1, <1>1, <1>3 DEF SourcesAgree, Settled
  <2>2. CASE Busy(u)
    <3>1. PICK a \in Calls : Serves(a, u)
      BY <2>2 DEF Busy, Serves, InFlight
    <3>2. Owes(a, u) /\ Fits(a)
      BY <3>1, <1>1, <1>3, OwesWhile DEF Shaped
    <3>3. ~Heals(a, u)
      BY <3>1, <1>1, <1>3 DEF Heals, Serves
    <3>4. pc[a] = "write" => ~HasSubmitted(a)
      BY <3>1, <3>2, <1>1, <1>3 DEF Serves, Fits, IsHeal, Concerns
    <3>. QED BY <3>2, <3>3, <3>4 DEF Owes
  <2>. QED BY <2>1, <2>2
<1>5. Granted(u)' <=> Granted(u)
  BY <1>1, ChainSame, GrantedSame
<1>. QED BY <1>1, <1>4, <1>5 DEF Agrees, Expected

DriftInv == GrantsTied /\ Shaped /\ Fresh /\ SourcesAgree

LEMMA StepDrift ==
  ASSUME DriftInv, [Next]_vars
  PROVE  DriftInv'
<1>. USE DEF webhookFrame, claimFrame, walletFrame, chainVars, dbVars, loginVars
<1>1. GrantsTied /\ Shaped /\ Fresh /\ SourcesAgree
  BY DEF DriftInv
<1>2. SUFFICES ASSUME NEW u \in Users PROVE Sole(u)' /\ Settled(u)'
  BY <1>1, StepTied, StepShaped, StepFresh DEF DriftInv, SourcesAgree
<1>. DEFINE Goal == Sole(u)' /\ Settled(u)'
<1>3. UNCHANGED <<callVars, chainVars, wallet, member, disturbed>> => Goal
  BY <1>1, ChainSame, OutsideAgree DEF Expected
<1>4. CASE MineNext
  <2>1. \A w : Will(w)' <=> Will(w)
    BY <1>1, <1>4, MiningKeepsWill DEF Shaped
  <2>. QED BY <1>1, <1>4, <2>1, OutsideAgree DEF MineNext, seenVars, Expected
<1>5. ASSUME NEW x \in Users, NEW role \in Roles \union {NoRole},
             MembershipWebhook(x, role)
      PROVE  Goal
  BY <1>1, <1>5, RoleAgree DEF MembershipWebhook
<1>6. ASSUME NEW x \in Users, NEW role \in Roles, Invite(x, role) PROVE Goal
  BY <1>3, <1>6 DEF Invite
<1>7. ASSUME NEW x \in Users, RevokeInvite(x) PROVE Goal
  BY <1>3, <1>7 DEF RevokeInvite
<1>8. ASSUME NEW x \in Users, CooldownEnds(x) PROVE Goal
  BY <1>3, <1>8 DEF CooldownEnds
<1>9. ASSUME NEW k \in Claims, ClaimStep(k) PROVE Goal
  <2>1. CASE JoinOrganization(k)
    <3>1. UNCHANGED <<callVars, chainVars, wallet>>
      BY <2>1 DEF JoinOrganization
    <3>2. (\E x, role : SetsRole(x, role)) \/ UNCHANGED <<member, disturbed>>
      BY <2>1 DEF JoinOrganization, Admits
    <3>. QED BY <1>1, <1>3, <3>1, <3>2, RoleAgree
  <2>2. CASE ~JoinOrganization(k)
    BY <1>3, <1>9, <2>2 DEF ClaimStep, FindInvite, CheckMember, MarkAccepted,
       ClaimFails
  <2>. QED BY <2>1, <2>2
<1>10. ASSUME NEW p \in Provisions, ProvisionStep(p) PROVE Goal
  BY <1>1, <1>3, <1>10, RecordWalletAgree DEF ProvisionStep, FindNoWallet,
     CircleCreates, ProvisionFails
<1>11. ASSUME NEW a \in Calls, CallStep(a) PROVE Goal
  BY <1>1, <1>11, PostAgree, ReadAgree, CompareAgree, SubmitAgree,
     SubmitLostAgree, WriteAgree DEF CallStep
<1>12. CASE Restart
  BY <1>1, <1>12, RestartAgree
<1>13. CASE UNCHANGED vars
  BY <1>3, <1>13 DEF vars, seenVars
<1>14. ASSUME NEW x \in Users, NEW allowed \in BOOLEAN,
              OtherOrganizationSubmits(x, allowed)
       PROVE  Goal
  BY <1>1, <1>14, OthersAgree
<1>. QED BY <1>4, <1>5, <1>6, <1>7, <1>8, <1>9, <1>10, <1>11, <1>12, <1>13,
         <1>14 DEF Next

\* A member's wallet holds the grant his role expects once no call is under way
\* and nothing is pending, unless something the property names has disturbed him
\* (approverSync.ts:16-23, members.ts:80-89, 193-199).
THEOREM DriftExplained == Spec => []DriftIsExplained
<1>1. Init => DriftInv
  BY InitTied, InitShaped, InitFresh, InitAgree DEF DriftInv
<1>2. ASSUME DriftInv PROVE DriftIsExplained
  <2>1. SUFFICES ASSUME NEW u \in Users, wallet[u] # NoWallet, ~Busy(u),
                        ~IsPending(wallet[u]), u \notin disturbed
                 PROVE  (wallet[u] \in approvers)
                          = ExpectsOnChainApproval(member[u])
    BY DEF DriftIsExplained
  <2>2. Agrees(u)
    BY <1>2, <2>1 DEF DriftInv, SourcesAgree, Settled
  <2>3. PICK w \in Wallets : w = wallet[u]
    BY <1>2, <2>1, WalletsOf DEF DriftInv, Shaped, MayBe
  <2>4. Will(w) <=> w \in approvers
    BY <2>1, <2>3 DEF Will, IsPending
  <2>. QED BY <2>2, <2>3, <2>4 DEF Agrees, Granted, Expected,
           ExpectsOnChainApproval
<1>. QED BY <1>1, <1>2, StepDrift, PTL DEF Spec
=============================================================================
