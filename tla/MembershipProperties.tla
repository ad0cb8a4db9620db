------------------------- MODULE MembershipProperties -------------------------
(***************************************************************************)
(* What the member routes, the invitations and the wallets promise.        *)
(***************************************************************************)
EXTENDS Membership

\* The two sources of truth agree: when no call is under way and nothing is
\* pending, a member's wallet holds the grant his role expects.  What may part
\* them is that they never agreed (the founder of an organisation has no grant,
\* contracts of its own start with none), a second call about the same user,
\* another organisation on the same SpendGuard, a webhook or an invitation, a
\* wallet that came later, or a transaction whose row could not be written; a
\* refused submission does not, and a heal brings them together again
\* (approverSync.ts:16-23, members.ts:80-89, 193-199).
DriftIsExplained ==
    \A u \in Users :
        wallet[u] # NoWallet /\ ~Busy(u) /\ ~IsPending(wallet[u])
        /\ u \notin disturbed
        => (wallet[u] \in approvers) = ExpectsOnChainApproval(member[u])

\* Each grant or revocation sent is tied to the person who asked for it, unless
\* a fault, or a row that vanished, cut the call short (members.ts:10-13).
GrantsAreSigned ==
    \A s \in submitted :
        s \in operatorActions \/ s[1] \in hit \/ s[1] \in InFlight

\* An invitation admits once, however often the user logs in and whoever
\* removes him in between, unless two claims ran at once or its mark was lost
\* (invites.ts:40-43).
InviteAdmitsOnce ==
    \A u \in Users : admitted[u] > 1 => u \in doubtful
=============================================================================
