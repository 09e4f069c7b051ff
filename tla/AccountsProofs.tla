--------------------------- MODULE AccountsProofs ---------------------------
(***************************************************************************)
(* What TLAPS proves of Accounts for any addresses, Telegram users,        *)
(* requests, onboardings and invitations: an account has one tenant, an    *)
(* invitation lets one account in, an onboarding is used once and its      *)
(* digest goes to who claimed it.                                          *)
(***************************************************************************)
EXTENDS Accounts, FiniteSetTheorems, TLAPS

-----------------------------------------------------------------------------
(* The inductive invariant *)

PendingRow == [state: {"free", "live", "consumed", "expired"}, job: BOOLEAN,
               result: {none, "usable", "unusable"}, reviewed: BOOLEAN,
               email: Mail \cup {none}, claimed: Telegrams \cup {none}]
RequestRow == [op: {"idle", "hook", "attach", "attached", "mark", "complete", "build", "chat", "queue"},
               user: AccountIds \cup {none}, invitation: Invitations \cup {none},
               pending: Pendings \cup {none}, chat: Telegrams \cup {none},
               existing: SUBSET Tenants]

Completing == {"complete", "build", "chat", "queue"}
Holding == {"attached", "build"}

\* What a request is in the middle of fits what is stored: what it has read under
\* the lock still holds, its row is still there, its invitation is its own and
\* its chat is the one that claimed the row.
Fits(q) ==
    /\ q.op # "idle" => q.user \in users
    /\ q.op \in Completing => q.pending \in Pendings /\ q.invitation = none
    /\ q.op = "build" => Live(q.pending)
    /\ q.op = "mark" => q.invitation \in Invitations
    /\ q.op \in {"attach", "attached", "mark"} /\ q.invitation # none => q.user = Addressee[q.invitation]
    /\ q.op \in Holding => q.existing = {m.tenant : m \in Memberships(q.user)}
    /\ q.op # "idle" /\ q.chat # none =>
         /\ q.pending \in Pendings /\ pending[q.pending].claimed = q.chat
         /\ telegramOf[q.user] = q.chat
    /\ q.op = "chat" =>
         /\ q.chat # none /\ pending[q.pending].state = "consumed"
         /\ \A f \in profiles : f.pending = q.pending =>
                \E m \in memberships : m.tenant = f.tenant /\ m.user = q.user

\* The lock is held by one request.
OneHolder == \A r, s \in Requests : request[r].op \in Holding /\ request[s].op \in Holding => r = s

\* One membership of an account, by its own invitation.
OneEach ==
    /\ \A m, n \in memberships : m.user = n.user => m = n
    /\ \A m \in memberships : m.invitation # none => m.user = Addressee[m.invitation]

\* What has been built from is used up, and a row not begun is empty.
UsedUp ==
    /\ BuiltOnce
    /\ \A p \in emptied : pending[p].state = "consumed"
    /\ \A f \in profiles : pending[f.pending].state = "consumed"
    /\ \A p \in Pendings : pending[p].state = "free" => pending[p].claimed = none

\* The account a Telegram user founded is that user's, and nobody who is not
\* there has a Telegram user.
Bound ==
    /\ \A t \in Telegrams : t \in users => telegramOf[t] = t
    /\ \A u \in AccountIds : u \notin users => telegramOf[u] = none

AccountsInv ==
    /\ AccountsTypeOK /\ OneHolder /\ OneEach /\ UsedUp /\ Bound /\ ChatOfClaimer
    /\ \A r \in Requests : Fits(request[r])

-----------------------------------------------------------------------------
(* Lemmas *)

LEMMA RestTyped ==
    ASSUME AccountsAssumption
    PROVE  /\ NoPending \in PendingRow /\ NoRequest \in RequestRow
           /\ NoRequest.op = "idle" /\ NoPending.state = "free" /\ NoPending.claimed = none
           /\ none \notin AccountIds /\ none \notin Pendings /\ none \notin Invitations
           /\ none \notin Telegrams /\ none \notin Mail
  BY DEF AccountsAssumption, NoPending, PendingRow, NoRequest, RequestRow, AccountIds

LEMMA InitInv == ASSUME AccountsAssumption, AccountsInit PROVE AccountsInv
<1>1. AccountsTypeOK
  <2>1. pending \in [Pendings -> PendingRow] /\ request \in [Requests -> RequestRow]
    BY RestTyped DEF AccountsInit
  <2>2. /\ users \subseteq AccountIds /\ telegramOf \in [AccountIds -> Telegrams \cup {none}]
        /\ founded \in [AccountIds -> 0 .. MaxTenants]
        /\ invitation \in [Invitations -> {"none", "open", "accepted", "revoked", "expired"}]
        /\ built \in [Pendings -> Nat]
    BY DEF AccountsInit, AccountsAssumption
  <2> QED  BY <2>1, <2>2 DEF AccountsInit, AccountsTypeOK, PendingRow, RequestRow
<1>2. \A r \in Requests : request[r] = NoRequest  BY DEF AccountsInit
<1>3. \A r \in Requests : Fits(request[r])
  BY <1>2, RestTyped DEF Fits, Completing, Holding
<1>4. OneHolder  BY <1>2, RestTyped DEF OneHolder, Holding
<1>5. UsedUp  BY RestTyped DEF AccountsInit, UsedUp, BuiltOnce
<1>6. OneEach /\ Bound /\ ChatOfClaimer  BY DEF AccountsInit, OneEach, Bound, ChatOfClaimer
<1> QED  BY <1>1, <1>3, <1>4, <1>5, <1>6 DEF AccountsInv

-----------------------------------------------------------------------------
(* The onboarding rows and the invitations *)

\* A row is written that nobody holds: it stays used or unused, and claimed by
\* whoever claimed it.
LEMMA RowWritten ==
    ASSUME AccountsAssumption, AccountsInv, NEW p \in Pendings, NEW row \in PendingRow, Free(p),
           pending' = [pending EXCEPT ![p] = row], mailed' \subseteq Mail,
           UNCHANGED <<people, invitation, profiles, request, past>>,
           (row.state = "consumed") = (pending[p].state = "consumed"),
           row.state = "free" => row.claimed = none,
           pending[p].claimed # none => row.claimed = pending[p].claimed
    PROVE  AccountsInv'
<1>1. pending'[p] = row /\ \A q \in Pendings \ {p} : pending'[q] = pending[q]
  BY DEF AccountsInv, AccountsTypeOK
<1>2. AccountsTypeOK'
  <2>1. pending' \in [Pendings -> PendingRow]  BY DEF AccountsInv, AccountsTypeOK, PendingRow
  <2> QED  BY <2>1 DEF AccountsInv, AccountsTypeOK, PendingRow, people, past
<1>3. OneHolder' /\ OneEach' /\ Bound'
  BY DEF AccountsInv, OneHolder, OneEach, Bound, people
<1>4. UsedUp'
  <2>1. \A f \in profiles : f.pending \in Pendings  BY DEF AccountsInv, AccountsTypeOK
  <2>2. emptied \subseteq Pendings  BY DEF AccountsInv, AccountsTypeOK
  <2> QED  BY <1>1, <2>1, <2>2 DEF AccountsInv, UsedUp, BuiltOnce, past
<1>5. \A q \in Pendings : pending[q].claimed # none => pending'[q].claimed = pending[q].claimed
  BY <1>1
<1>6. ChatOfClaimer'
  <2>1. \A f \in profiles : f.pending \in Pendings  BY DEF AccountsInv, AccountsTypeOK
  <2> QED  BY <1>5, <2>1 DEF AccountsInv, ChatOfClaimer, people
<1>7. \A r \in Requests : Fits(request[r])'
  <2>1. SUFFICES ASSUME NEW r \in Requests PROVE Fits(request[r])'  OBVIOUS
  <2>2. Fits(request[r]) /\ request'[r] = request[r]  BY DEF AccountsInv
  <2>3. request[r].op = "build" => request[r].pending \in Pendings \ {p}
    BY <2>2 DEF Free, Fits, Completing
  <2>4. \A u : Memberships(u)' = Memberships(u)  BY DEF Memberships, people
  <2> QED  BY <2>2, <2>3, <2>4, <1>1, <1>5 DEF Fits, Live, people
<1> QED  BY <1>2, <1>3, <1>4, <1>6, <1>7 DEF AccountsInv

LEMMA RowsInv ==
    ASSUME AccountsAssumption, AccountsInv, NEW p \in Pendings,
           \/ \E t \in Telegrams \cup {none}, queued \in BOOLEAN : startDiscovery(p, t, queued)
           \/ \E result \in {"usable", "unusable"} : updatePendingDiscoveryResult(p, result)
           \/ DiscoveryEnds(p) \/ savePendingReview(p) \/ PendingExpires(p)
           \/ \E m \in Mail, channel \in {"email", "telegram"} : updatePendingChannel(p, m, channel)
           \/ \E t \in Telegrams : claimPendingForTelegram(p, t)
    PROVE  AccountsInv'
<1>0. pending[p] \in PendingRow /\ mailed \subseteq Mail
  BY DEF AccountsInv, AccountsTypeOK, PendingRow
<1>1. CASE \E t \in Telegrams \cup {none}, queued \in BOOLEAN : startDiscovery(p, t, queued)
  <2>1. PICK t \in Telegrams \cup {none}, queued \in BOOLEAN,
             found \in findCachedDiscovery \cup {none} :
            /\ pending[p].state = "free"
            /\ Write(p, [NoPending EXCEPT !.state = "live", !.claimed = t, !.result = found,
                                          !.job = (found = none /\ queued)])
    BY <1>1 DEF startDiscovery
  <2>2. found \in {none, "usable", "unusable"}
    BY DEF findCachedDiscovery, AccountsInv, AccountsTypeOK
  <2>3. PICK row \in PendingRow : row = [NoPending EXCEPT !.state = "live", !.claimed = t, !.result = found,
                                                          !.job = (found = none /\ queued)]
    <3>1. (found = none /\ queued) \in BOOLEAN  OBVIOUS
    <3> QED  BY <2>2, <3>1, RestTyped DEF PendingRow
  <2>4. row.state = "live"  BY <2>3, RestTyped DEF PendingRow
  <2>5. pending[p].claimed = none  BY <2>1 DEF AccountsInv, UsedUp
  <2> QED  BY <1>0, <2>1, <2>3, <2>4, <2>5, RowWritten DEF Write
<1>2. CASE \E result \in {"usable", "unusable"} : updatePendingDiscoveryResult(p, result)
  <2>1. PICK result \in {"usable", "unusable"} : updatePendingDiscoveryResult(p, result)  BY <1>2
  <2>2. PICK row \in PendingRow : row = [pending[p] EXCEPT !.job = FALSE, !.result = result]
    BY <1>0 DEF PendingRow
  <2>3. row.state = pending[p].state /\ row.claimed = pending[p].claimed  BY <1>0, <2>2 DEF PendingRow
  <2> QED  BY <1>0, <2>1, <2>2, <2>3, RowWritten
           DEF updatePendingDiscoveryResult, Write, AccountsInv, UsedUp
<1>3. CASE DiscoveryEnds(p)
  <2>1. PICK row \in PendingRow : row = [pending[p] EXCEPT !.job = FALSE]  BY <1>0 DEF PendingRow
  <2>2. row.state = pending[p].state /\ row.claimed = pending[p].claimed  BY <1>0, <2>1 DEF PendingRow
  <2> QED  BY <1>0, <1>3, <2>1, <2>2, RowWritten DEF DiscoveryEnds, Write, AccountsInv, UsedUp
<1>4. CASE savePendingReview(p)
  <2>1. PICK row \in PendingRow : row = [pending[p] EXCEPT !.reviewed = TRUE]  BY <1>0 DEF PendingRow
  <2>2. row.state = pending[p].state /\ row.claimed = pending[p].claimed  BY <1>0, <2>1 DEF PendingRow
  <2> QED  BY <1>0, <1>4, <2>1, <2>2, RowWritten DEF savePendingReview, Write, AccountsInv, UsedUp
<1>5. CASE PendingExpires(p)
  <2>1. PICK row \in PendingRow : row = [pending[p] EXCEPT !.state = "expired"]  BY <1>0 DEF PendingRow
  <2>2. row.state = "expired" /\ row.claimed = pending[p].claimed  BY <1>0, <2>1 DEF PendingRow
  <2>3. pending[p].state = "live"  BY <1>5 DEF PendingExpires, Live
  <2> QED  BY <1>0, <1>5, <2>1, <2>2, <2>3, RowWritten DEF PendingExpires, Write
<1>6. CASE \E m \in Mail, channel \in {"email", "telegram"} : updatePendingChannel(p, m, channel)
  <2>1. PICK m \in Mail, channel \in {"email", "telegram"} : updatePendingChannel(p, m, channel)  BY <1>6
  <2>2. PICK row \in PendingRow : row = [pending[p] EXCEPT !.email = m]  BY <1>0 DEF PendingRow
  <2>3. row.state = pending[p].state /\ row.claimed = pending[p].claimed  BY <1>0, <2>2 DEF PendingRow
  <2>4. pending' = [pending EXCEPT ![p] = row] /\ mailed' \subseteq Mail
    BY <1>0, <2>1, <2>2 DEF updatePendingChannel, AccountsInv, AccountsTypeOK
  <2> QED  BY <2>1, <2>3, <2>4, RowWritten DEF updatePendingChannel, AccountsInv, UsedUp
<1>7. CASE \E t \in Telegrams : claimPendingForTelegram(p, t)
  <2>1. PICK t \in Telegrams : claimPendingForTelegram(p, t)  BY <1>7
  <2>2. PICK row \in PendingRow : row = [pending[p] EXCEPT !.claimed = t]  BY <1>0 DEF PendingRow
  <2>3. row.state = pending[p].state /\ row.claimed = t  BY <1>0, <2>2 DEF PendingRow
  <2>4. pending[p].state = "live" /\ pending[p].claimed \in {none, t}
    BY <2>1 DEF claimPendingForTelegram, Live, MayClaim
  <2> QED  BY <1>0, <2>1, <2>2, <2>3, <2>4, RowWritten DEF claimPendingForTelegram, Write
<1> QED  BY <1>1, <1>2, <1>3, <1>4, <1>5, <1>6, <1>7

LEMMA InvitationsInv ==
    ASSUME AccountsAssumption, AccountsInv, NEW i \in Invitations,
           createInvitation(i) \/ revokeInvitation(i) \/ InvitationExpires(i)
    PROVE  AccountsInv'
<1>1. PICK to \in {"open", "revoked", "expired"} :
          /\ invitation' = [invitation EXCEPT ![i] = to]
          /\ UNCHANGED <<people, pending, mailed, profiles, request, past>>
  BY DEF createInvitation, revokeInvitation, InvitationExpires, Invite
<1>2. AccountsTypeOK'  BY <1>1 DEF AccountsInv, AccountsTypeOK, people, past
<1>3. \A r \in Requests : Fits(request[r])'
  BY <1>1 DEF AccountsInv, Fits, Live, Memberships, people
<1> QED  BY <1>1, <1>2, <1>3 DEF AccountsInv, OneHolder, OneEach, UsedUp, BuiltOnce, Bound, ChatOfClaimer,
                                 people, past

-----------------------------------------------------------------------------
(* Requests that read, wait, end, or only write to an invitation *)

LEMMA RequestMoves ==
    ASSUME AccountsAssumption, AccountsInv, NEW r \in Requests, NEW q \in RequestRow,
           request' = [request EXCEPT ![r] = q], Fits(q),
           q.op \in Holding => request[r].op \in Holding \/ LockFree,
           invitation' \in [Invitations -> {"none", "open", "accepted", "revoked", "expired"}],
           UNCHANGED <<people, pending, mailed, profiles, past>>
    PROVE  AccountsInv'
<1>1. request'[r] = q /\ \A s \in Requests \ {r} : request'[s] = request[s]
  BY DEF AccountsInv, AccountsTypeOK
<1>2. AccountsTypeOK'
  <2>1. request' \in [Requests -> RequestRow]  BY DEF AccountsInv, AccountsTypeOK, RequestRow
  <2> QED  BY <2>1 DEF AccountsInv, AccountsTypeOK, RequestRow, people, past
<1>3. OneHolder'
  BY <1>1 DEF AccountsInv, OneHolder, LockFree, Holding
<1>4. \A s \in Requests : Fits(request'[s])  BY <1>1 DEF AccountsInv
<1>5. \A s \in Requests : Fits(request[s])'
  BY <1>4 DEF Fits, Live, Memberships, people
<1> QED  BY <1>2, <1>3, <1>5 DEF AccountsInv, OneEach, UsedUp, BuiltOnce, Bound, ChatOfClaimer, people, past

LEMMA RequestTyped ==
    ASSUME AccountsInv, NEW r \in Requests
    PROVE  request[r] \in RequestRow /\ Fits(request[r])
  BY DEF AccountsInv, AccountsTypeOK, RequestRow

\* Requests that come to rest.
LEMMA RestsInv ==
    ASSUME AccountsAssumption, AccountsInv, NEW r \in Requests,
           NothingToComplete(r) \/ queueFirstRun(r) \/ RequestDies(r)
    PROVE  AccountsInv'
<1>1. request' = [request EXCEPT ![r] = NoRequest]
      /\ UNCHANGED <<people, invitation, pending, mailed, profiles, past>>
  BY DEF NothingToComplete, queueFirstRun, RequestDies, Step
<1>2. Fits(NoRequest) /\ NoRequest.op \notin Holding  BY RestTyped DEF Fits, Completing, Holding
<1> QED  BY <1>1, <1>2, RestTyped, RequestMoves DEF AccountsInv, AccountsTypeOK

LEMMA HookInv ==
    ASSUME AccountsAssumption, AccountsInv, NEW r \in Requests, Hook(r)
    PROVE  AccountsInv'
<1>1. request[r] \in RequestRow /\ Fits(request[r]) /\ request[r].op = "hook"
  BY RequestTyped DEF Hook
<1>2. PICK i \in Invitations \cup {none} :
          i = IF findInvitationFor(request[r].invitation, request[r].user) THEN request[r].invitation ELSE none
  BY <1>1 DEF RequestRow
<1>3. PICK q \in RequestRow : q = [request[r] EXCEPT !.op = "attach", !.invitation = i]
  BY <1>1, <1>2 DEF RequestRow
<1>4. /\ q.op = "attach" /\ q.user = request[r].user /\ q.invitation = i
      /\ q.pending = request[r].pending /\ q.chat = request[r].chat
  BY <1>1, <1>3 DEF RequestRow
<1>5. i # none => q.user = Addressee[i]  BY <1>2, <1>4 DEF findInvitationFor
<1>6. Fits(q)  BY <1>1, <1>4, <1>5 DEF Fits, Completing, Holding
<1>7. request' = [request EXCEPT ![r] = q]
      /\ UNCHANGED <<people, invitation, pending, mailed, profiles, past>>
  BY <1>2, <1>3 DEF Hook, Step
<1> QED  BY <1>4, <1>6, <1>7, RequestMoves DEF AccountsInv, AccountsTypeOK, Holding

LEMMA resolveMembershipInv ==
    ASSUME AccountsAssumption, AccountsInv, NEW r \in Requests, NEW u \in AccountIds, resolveMembership(r, u)
    PROVE  AccountsInv'
<1>1. PICK q \in RequestRow : q = [NoRequest EXCEPT !.op = "attach", !.user = u]
  BY RestTyped DEF RequestRow
<1>2. q.op = "attach" /\ q.user = u /\ q.invitation = none /\ q.chat = none
  BY <1>1 DEF NoRequest
<1>3. Fits(q)  BY <1>2 DEF Fits, Completing, Holding, resolveMembership
<1>4. request' = [request EXCEPT ![r] = q]
      /\ UNCHANGED <<people, invitation, pending, mailed, profiles, past>>
  BY <1>1 DEF resolveMembership, Step
<1> QED  BY <1>2, <1>3, <1>4, RequestMoves DEF AccountsInv, AccountsTypeOK, Holding

LEMMA openMagicLinkInv ==
    ASSUME AccountsAssumption, AccountsInv, NEW r \in Requests, NEW m \in Mail, NEW p \in Pendings,
           openMagicLink(r, m, p)
    PROVE  AccountsInv'
<1>1. PICK q \in RequestRow : q = [NoRequest EXCEPT !.op = "complete", !.user = m, !.pending = p]
  BY RestTyped DEF RequestRow, AccountIds
<1>2. q.op = "complete" /\ q.user = m /\ q.pending = p /\ q.invitation = none /\ q.chat = none
  BY <1>1 DEF NoRequest
<1>3. Fits(q)  BY <1>2 DEF Fits, Completing, Holding, openMagicLink
<1>4. request' = [request EXCEPT ![r] = q]
      /\ UNCHANGED <<people, invitation, pending, mailed, profiles, past>>
  BY <1>1 DEF openMagicLink, Step
<1> QED  BY <1>2, <1>3, <1>4, RequestMoves DEF AccountsInv, AccountsTypeOK, Holding

\* The lock is taken, and the membership read under it.
LEMMA LocksInv ==
    ASSUME AccountsAssumption, AccountsInv, NEW r \in Requests, Look(r) \/ BeginComplete(r)
    PROVE  AccountsInv'
<1>1. request[r] \in RequestRow /\ Fits(request[r])  BY RequestTyped
<1>2. PICK op \in Holding :
          /\ \/ op = "attached" /\ request[r].op = "attach"
             \/ op = "build" /\ request[r].op = "complete" /\ Live(request[r].pending)
          /\ request' = [request EXCEPT ![r] = [request[r] EXCEPT
                 !.op = op, !.existing = {m.tenant : m \in Memberships(request[r].user)}]]
          /\ LockFree
  BY DEF Look, BeginComplete, Usable, Step, Holding
<1>3. {m.tenant : m \in Memberships(request[r].user)} \subseteq Tenants
  BY DEF Memberships, AccountsInv, AccountsTypeOK
<1>4. PICK q \in RequestRow : q = [request[r] EXCEPT
          !.op = op, !.existing = {m.tenant : m \in Memberships(request[r].user)}]
  <2>1. op \in {"attached", "build"}  BY DEF Holding
  <2> HIDE DEF Memberships
  <2> QED  BY <1>1, <1>3, <2>1 DEF RequestRow
<1>5. /\ q.op = op /\ q.user = request[r].user /\ q.invitation = request[r].invitation
      /\ q.pending = request[r].pending /\ q.chat = request[r].chat
      /\ q.existing = {m.tenant : m \in Memberships(q.user)}
  BY <1>1, <1>4 DEF RequestRow
<1>6. Fits(q)  BY <1>1, <1>2, <1>5 DEF Fits, Completing, Holding
<1>7. request' = [request EXCEPT ![r] = q]
      /\ UNCHANGED <<people, invitation, pending, mailed, profiles, past>>
  BY <1>2, <1>4 DEF Look, BeginComplete
<1> QED  BY <1>2, <1>6, <1>7, RequestMoves DEF AccountsInv, AccountsTypeOK

LEMMA markInvitationAcceptedInv ==
    ASSUME AccountsAssumption, AccountsInv, NEW r \in Requests, markInvitationAccepted(r)
    PROVE  AccountsInv'
<1>1. request[r] \in RequestRow /\ Fits(request[r]) /\ request[r].op = "mark"
  BY RequestTyped DEF markInvitationAccepted
<1>2. /\ invitation' \in [Invitations -> {"none", "open", "accepted", "revoked", "expired"}]
      /\ UNCHANGED <<people, pending, mailed, profiles, past>>
  BY DEF markInvitationAccepted, AccountsInv, AccountsTypeOK
<1>3. CASE request[r].pending = none
  <2>1. request' = [request EXCEPT ![r] = NoRequest]  BY <1>3 DEF markInvitationAccepted, Step
  <2>2. Fits(NoRequest) /\ NoRequest.op \notin Holding  BY RestTyped DEF Fits, Completing, Holding
  <2> QED  BY <1>2, <2>1, <2>2, RestTyped, RequestMoves
<1>4. CASE request[r].pending # none
  <2>1. PICK q \in RequestRow : q = [request[r] EXCEPT !.op = "complete", !.invitation = none]
    BY <1>1 DEF RequestRow
  <2>2. /\ q.op = "complete" /\ q.user = request[r].user /\ q.invitation = none
        /\ q.pending = request[r].pending /\ q.chat = request[r].chat
    BY <1>1, <2>1 DEF RequestRow
  <2>3. q.pending \in Pendings  BY <1>1, <1>4, <2>2 DEF RequestRow
  <2>4. Fits(q) /\ q.op \notin Holding  BY <1>1, <2>2, <2>3 DEF Fits, Completing, Holding
  <2>5. request' = [request EXCEPT ![r] = q]  BY <1>4, <2>1 DEF markInvitationAccepted, Step
  <2> QED  BY <1>2, <2>4, <2>5, RequestMoves
<1> QED  BY <1>3, <1>4

-----------------------------------------------------------------------------
(* Accounts come and are bound *)

LEMMA signUpInv ==
    ASSUME AccountsAssumption, AccountsInv, NEW r \in Requests, NEW m \in Mail,
           NEW i \in Invitations \cup {none}, NEW byLink \in BOOLEAN, signUp(r, m, i, byLink)
    PROVE  AccountsInv'
<1>1. PICK p \in Pendings \cup {none} :
          request' = [request EXCEPT ![r] = [NoRequest EXCEPT
                          !.op = "hook", !.user = m, !.invitation = i, !.pending = p]]
  BY DEF signUp, Step
<1>2. PICK q \in RequestRow : q = [NoRequest EXCEPT !.op = "hook", !.user = m, !.invitation = i, !.pending = p]
  BY RestTyped DEF RequestRow, AccountIds
<1>3. q.op = "hook" /\ q.user = m /\ q.chat = none  BY <1>2 DEF NoRequest
<1>4. request'[r] = q /\ \A s \in Requests \ {r} : request'[s] = request[s]
  BY <1>1, <1>2 DEF AccountsInv, AccountsTypeOK
<1>5. /\ m \in AccountIds /\ m \notin Telegrams /\ telegramOf[m] = none /\ m \notin users
      /\ users' = users \cup {m} /\ UNCHANGED <<telegramOf, memberships, founded>>
  BY DEF signUp, AccountIds, AccountsAssumption, AccountsInv, Bound
<1>6. UNCHANGED <<invitation, pending, mailed, profiles, past>>  BY DEF signUp
<1>7. AccountsTypeOK'
  <2>1. request' \in [Requests -> RequestRow]
    BY <1>1, <1>2 DEF AccountsInv, AccountsTypeOK, RequestRow
  <2>2. \A v, w \in users' : telegramOf'[v] = telegramOf'[w] => telegramOf'[v] = none \/ v = w
    BY <1>5 DEF AccountsInv, AccountsTypeOK
  <2>3. memberships' \subseteq [user: users', tenant: Tenants, role: {"owner", "member"},
                               invitation: Invitations \cup {none}]
    BY <1>5 DEF AccountsInv, AccountsTypeOK
  <2> QED  BY <1>5, <1>6, <2>1, <2>2, <2>3 DEF AccountsInv, AccountsTypeOK, RequestRow, past
<1>8. OneHolder'  BY <1>3, <1>4 DEF AccountsInv, OneHolder, Holding
<1>9. \A s \in Requests : Fits(request[s])'
  <2>1. SUFFICES ASSUME NEW s \in Requests PROVE Fits(request[s])'  OBVIOUS
  <2>2. \A w : Memberships(w)' = Memberships(w)  BY <1>5 DEF Memberships
  <2>3. CASE s = r  BY <1>3, <1>4, <1>5, <2>3 DEF Fits, Completing, Holding
  <2>4. CASE s # r
    <3>1. Fits(request[s]) /\ request'[s] = request[s]  BY <1>4, <2>4 DEF AccountsInv
    <3> QED  BY <3>1, <1>5, <1>6, <2>2 DEF Fits, Live
  <2> QED  BY <2>3, <2>4
<1>10. Bound'  BY <1>5 DEF AccountsInv, Bound
<1>11. OneEach' /\ UsedUp' /\ ChatOfClaimer'
  BY <1>5, <1>6 DEF AccountsInv, OneEach, UsedUp, BuiltOnce, ChatOfClaimer, past
<1> QED  BY <1>7, <1>8, <1>9, <1>10, <1>11 DEF AccountsInv

\* A Telegram user nobody has is given to an account that had none.
LEMMA TelegramBound ==
    ASSUME AccountsAssumption, AccountsInv, NEW u \in AccountIds, NEW t \in Telegrams,
           \A v \in users : telegramOf[v] # t, telegramOf[u] = none,
           u \in Telegrams => u = t,
           users' = users \cup {u}, telegramOf' = [telegramOf EXCEPT ![u] = t],
           UNCHANGED <<memberships, founded, invitation, pending, mailed, profiles, past>>,
           request' \in [Requests -> RequestRow]
    PROVE  /\ AccountsTypeOK' /\ OneEach' /\ UsedUp' /\ Bound' /\ ChatOfClaimer'
           /\ \A s \in Requests : request'[s] = request[s] => Fits(request[s])'
<1>1. telegramOf'[u] = t /\ \A w \in AccountIds \ {u} : telegramOf'[w] = telegramOf[w]
  BY DEF AccountsInv, AccountsTypeOK
<1>2. users \subseteq AccountIds /\ t # none
  BY RestTyped DEF AccountsInv, AccountsTypeOK
<1>3. AccountsTypeOK'
  <2>1. users' \subseteq AccountIds /\ telegramOf' \in [AccountIds -> Telegrams \cup {none}]
    BY DEF AccountsInv, AccountsTypeOK
  <2>2. \A v, w \in users' : telegramOf'[v] = telegramOf'[w] => telegramOf'[v] = none \/ v = w
    BY <1>1, <1>2 DEF AccountsInv, AccountsTypeOK
  <2>3. memberships' \subseteq [user: users', tenant: Tenants, role: {"owner", "member"},
                               invitation: Invitations \cup {none}]
    BY DEF AccountsInv, AccountsTypeOK
  <2> QED  BY <2>1, <2>2, <2>3 DEF AccountsInv, AccountsTypeOK, RequestRow, past
<1>4. OneEach' /\ UsedUp'
  BY DEF AccountsInv, OneEach, UsedUp, BuiltOnce, past
<1>5. Bound'  BY <1>1, <1>2 DEF AccountsInv, Bound
<1>6. \A m \in memberships : m.user \in AccountIds  BY <1>2 DEF AccountsInv, AccountsTypeOK
<1>7. ChatOfClaimer'
  <2>1. SUFFICES ASSUME NEW f \in profiles, f.chat # none
                 PROVE  /\ pending[f.pending].claimed = f.chat
                        /\ \E m \in memberships : m.tenant = f.tenant /\ telegramOf'[m.user] = f.chat
    BY DEF ChatOfClaimer
  <2>2. PICK m \in memberships : m.tenant = f.tenant /\ telegramOf[m.user] = f.chat
    BY <2>1 DEF AccountsInv, ChatOfClaimer
  <2>3. telegramOf'[m.user] = f.chat  BY <1>1, <1>6, <2>1, <2>2
  <2> QED  BY <2>1, <2>2, <2>3 DEF AccountsInv, ChatOfClaimer
<1>8. \A s \in Requests : request'[s] = request[s] => Fits(request[s])'
  <2>1. SUFFICES ASSUME NEW s \in Requests, request'[s] = request[s] PROVE Fits(request[s])'  OBVIOUS
  <2>2. Fits(request[s]) /\ request[s] \in RequestRow  BY RequestTyped
  <2>3. \A w : Memberships(w)' = Memberships(w)  BY DEF Memberships
  <2>4. request[s].op # "idle" => request[s].user \in AccountIds  BY <1>2, <2>2 DEF Fits
  <2>5. request[s].op # "idle" /\ request[s].chat # none => telegramOf'[request[s].user] = request[s].chat
    BY <1>1, <2>2, <2>4 DEF Fits
  <2> QED  BY <2>1, <2>2, <2>3, <2>5 DEF Fits, Live
<1> QED  BY <1>3, <1>4, <1>5, <1>7, <1>8

LEMMA linkOwnerTelegramInv ==
    ASSUME AccountsAssumption, AccountsInv, NEW u \in AccountIds, NEW t \in Telegrams, linkOwnerTelegram(u, t)
    PROVE  AccountsInv'
<1>1. u \in users
  BY DEF linkOwnerTelegram, Memberships, AccountsInv, AccountsTypeOK
<1>2. u \in Telegrams => u = t
  BY <1>1, RestTyped DEF linkOwnerTelegram, AccountsInv, Bound
<1>3. users' = users \cup {u}  BY <1>1 DEF linkOwnerTelegram
<1>4. request' = request /\ request' \in [Requests -> RequestRow]
  BY DEF linkOwnerTelegram, AccountsInv, AccountsTypeOK, RequestRow
<1>5. /\ \A v \in users : telegramOf[v] # t
      /\ telegramOf[u] = none /\ telegramOf' = [telegramOf EXCEPT ![u] = t]
      /\ UNCHANGED <<memberships, founded, invitation, pending, mailed, profiles, past>>
  BY DEF linkOwnerTelegram
<1>6. /\ AccountsTypeOK' /\ OneEach' /\ UsedUp' /\ Bound' /\ ChatOfClaimer'
      /\ \A s \in Requests : request'[s] = request[s] => Fits(request[s])'
  BY <1>2, <1>3, <1>4, <1>5, TelegramBound
<1>7. OneHolder'  BY <1>4 DEF AccountsInv, OneHolder
<1> QED  BY <1>4, <1>6, <1>7 DEF AccountsInv

\* The account of a Telegram user is found unchanged, or founded under that user.
LEMMA confirmSignupInv ==
    ASSUME AccountsAssumption, AccountsInv, NEW r \in Requests, NEW t \in Telegrams, NEW p \in Pendings,
           NEW u \in AccountIds, confirmSignup(r, t, p, u)
    PROVE  AccountsInv'
<1>1. PICK q \in RequestRow :
          q = [NoRequest EXCEPT !.op = "complete", !.user = u, !.pending = p, !.chat = t]
  BY RestTyped DEF RequestRow
<1>2. q.op = "complete" /\ q.user = u /\ q.pending = p /\ q.invitation = none /\ q.chat = t
  BY <1>1 DEF NoRequest
<1>3. request' = [request EXCEPT ![r] = q]  BY <1>1 DEF confirmSignup, Step
<1>4. request'[r] = q /\ \A s \in Requests \ {r} : request'[s] = request[s]
  BY <1>3 DEF AccountsInv, AccountsTypeOK
<1>5. request' \in [Requests -> RequestRow]
  BY <1>3 DEF AccountsInv, AccountsTypeOK, RequestRow
<1>6. OneHolder'  BY <1>2, <1>4 DEF AccountsInv, OneHolder, Holding
<1>7. /\ users' = users \cup {u} /\ telegramOf' = [telegramOf EXCEPT ![u] = t]
      /\ UNCHANGED <<memberships, founded, invitation, pending, mailed, profiles, past>>
      /\ pending[p].claimed = t
  BY DEF confirmSignup
<1>8. Fits(q)'  BY <1>2, <1>7 DEF Fits, Completing, Holding, AccountsInv, AccountsTypeOK
<1>9. CASE \E v \in users : telegramOf[v] = t
  <2>1. u \in users /\ telegramOf[u] = t  BY <1>9 DEF confirmSignup, Holder
  <2>2. users' = users /\ telegramOf' = telegramOf
    BY <1>7, <2>1 DEF AccountsInv, AccountsTypeOK
  <2>3. AccountsTypeOK'
    BY <1>5, <1>7, <2>2 DEF AccountsInv, AccountsTypeOK, RequestRow, past
  <2>4. \A s \in Requests \ {r} : Fits(request[s])'
    BY <1>4, <1>7, <2>2 DEF AccountsInv, Fits, Live, Memberships
  <2>5. \A s \in Requests : Fits(request[s])'  BY <1>4, <1>8, <2>4
  <2> QED  BY <1>6, <1>7, <2>2, <2>3, <2>5
           DEF AccountsInv, OneEach, UsedUp, BuiltOnce, Bound, ChatOfClaimer, past
<1>10. CASE \A v \in users : telegramOf[v] # t
  <2>1. u = t  BY <1>10 DEF confirmSignup, Holder
  <2>2. u \notin users  BY <1>10, <2>1 DEF AccountsInv, Bound
  <2>3. telegramOf[u] = none  BY <2>2 DEF AccountsInv, Bound
  <2>4. /\ AccountsTypeOK' /\ OneEach' /\ UsedUp' /\ Bound' /\ ChatOfClaimer'
        /\ \A s \in Requests : request'[s] = request[s] => Fits(request[s])'
    BY <1>5, <1>7, <1>10, <2>1, <2>3, TelegramBound
  <2>5. \A s \in Requests : Fits(request[s])'  BY <1>4, <1>8, <2>4
  <2> QED  BY <1>6, <2>4, <2>5 DEF AccountsInv
<1> QED  BY <1>9, <1>10

-----------------------------------------------------------------------------
(* Memberships *)

\* Under the lock, an account with a membership keeps it and one without gets one.
LEMMA JoinsOnce ==
    ASSUME AccountsAssumption, AccountsInv, NEW r \in Requests, NEW tenant \in Tenants,
           request[r].op \in Holding, Joins(r, tenant), users' = users
    PROVE  /\ founded' \in [AccountIds -> 0 .. MaxTenants]
           /\ memberships' \subseteq [user: users', tenant: Tenants, role: {"owner", "member"},
                                     invitation: Invitations \cup {none}]
           /\ OneEach'
           /\ memberships \subseteq memberships'
           /\ \A m \in memberships' : m.user # request[r].user => m \in memberships
           /\ \E m \in memberships' : m.user = request[r].user /\ m.tenant = tenant
<1> DEFINE u == request[r].user
           i == request[r].invitation
<1>1. request[r] \in RequestRow /\ Fits(request[r])  BY RequestTyped
<1>2. u \in users /\ u \in AccountIds
  BY <1>1 DEF Fits, Holding, AccountsInv, AccountsTypeOK
<1>3. i \in Invitations \cup {none} /\ (i # none => u = Addressee[i])
  BY <1>1 DEF RequestRow, Fits, Holding, Completing
<1>4. request[r].existing = {m.tenant : m \in Memberships(u)}  BY <1>1 DEF Fits
<1>5. /\ memberships \subseteq [user: users, tenant: Tenants, role: {"owner", "member"},
                               invitation: Invitations \cup {none}]
      /\ founded \in [AccountIds -> 0 .. MaxTenants] /\ MaxTenants \in Nat
  BY DEF AccountsInv, AccountsTypeOK, AccountsAssumption
<1>6. CASE request[r].existing # {}
  <2>1. memberships' = memberships /\ founded' = founded /\ tenant \in request[r].existing
    BY <1>6 DEF Joins
  <2>2. \E m \in memberships : m.user = u /\ m.tenant = tenant
    BY <1>4, <2>1 DEF Memberships
  <2> QED  BY <1>5, <2>1, <2>2 DEF AccountsInv, OneEach
<1>7. CASE request[r].existing = {}
  <2>1. \A m \in memberships : m.user # u  BY <1>4, <1>7 DEF Memberships
  <2>2. PICK m \in [user: users, tenant: Tenants, role: {"owner", "member"},
                    invitation: Invitations \cup {none}] :
            /\ m.user = u /\ m.tenant = tenant /\ m.invitation = i
            /\ memberships' = memberships \cup {m}
    <3>1. memberships' = memberships \cup {[user |-> u, tenant |-> tenant, invitation |-> i,
                                            role |-> IF i # none THEN "member" ELSE "owner"]}
      BY <1>7 DEF Joins
    <3> QED  BY <1>2, <1>3, <3>1
  <2>3. founded' \in [AccountIds -> 0 .. MaxTenants]
    <3>1. CASE i # none  BY <1>5, <1>7, <3>1 DEF Joins
    <3>2. CASE i = none
      <4>1. founded[u] < MaxTenants /\ founded' = [founded EXCEPT ![u] = @ + 1]
        BY <1>7, <3>2 DEF Joins
      <4>2. founded[u] + 1 \in 0 .. MaxTenants  BY <1>2, <1>5, <4>1
      <4> QED  BY <1>2, <1>5, <4>1, <4>2
    <3> QED  BY <3>1, <3>2
  <2>4. OneEach'
    BY <1>3, <2>1, <2>2 DEF AccountsInv, OneEach
  <2> QED  BY <1>5, <2>2, <2>3, <2>4
<1> QED  BY <1>6, <1>7

LEMMA AttachInv ==
    ASSUME AccountsAssumption, AccountsInv, NEW r \in Requests, Attach(r)
    PROVE  AccountsInv'
<1>1. request[r] \in RequestRow /\ Fits(request[r]) /\ request[r].op = "attached" /\ "attached" \in Holding
  BY RequestTyped DEF Attach, Holding
<1>2. UNCHANGED <<users, telegramOf, invitation, pending, mailed, profiles, past>>  BY DEF Attach
<1>3. PICK tenant \in Tenants : Joins(r, tenant)  BY DEF Attach
<1>4. /\ founded' \in [AccountIds -> 0 .. MaxTenants]
      /\ memberships' \subseteq [user: users', tenant: Tenants, role: {"owner", "member"},
                                invitation: Invitations \cup {none}]
      /\ OneEach' /\ memberships \subseteq memberships'
  BY <1>1, <1>2, <1>3, JoinsOnce
<1>5. PICK q \in RequestRow :
          /\ \/ q.op = "mark" /\ request[r].invitation # none
             \/ q.op = "complete" /\ request[r].invitation = none /\ request[r].pending # none
             \/ q.op = "idle"
          /\ q.user = request[r].user /\ q.invitation = request[r].invitation
          /\ q.pending = request[r].pending /\ q.chat = request[r].chat
          /\ request' = [request EXCEPT ![r] = q]
  <2>1. request' = [request EXCEPT ![r] = [request[r] EXCEPT !.existing = {},
           !.op = IF request[r].invitation # none THEN "mark"
                  ELSE IF request[r].pending # none THEN "complete" ELSE "idle"]]
    BY DEF Attach, Step
  <2>2. PICK q \in RequestRow : q = [request[r] EXCEPT !.existing = {},
           !.op = IF request[r].invitation # none THEN "mark"
                  ELSE IF request[r].pending # none THEN "complete" ELSE "idle"]
    BY <1>1 DEF RequestRow
  <2>3. /\ q.op = IF request[r].invitation # none THEN "mark"
                  ELSE IF request[r].pending # none THEN "complete" ELSE "idle"
        /\ q.user = request[r].user /\ q.invitation = request[r].invitation
        /\ q.pending = request[r].pending /\ q.chat = request[r].chat
    BY <1>1, <2>2 DEF RequestRow
  <2> QED  BY <2>1, <2>2, <2>3
<1>6. request'[r] = q /\ \A s \in Requests \ {r} : request'[s] = request[s]
  BY <1>5 DEF AccountsInv, AccountsTypeOK
<1>7. AccountsTypeOK'
  <2>1. request' \in [Requests -> RequestRow]  BY <1>5 DEF AccountsInv, AccountsTypeOK, RequestRow
  <2> QED  BY <1>2, <1>4, <2>1 DEF AccountsInv, AccountsTypeOK, RequestRow, past
<1>8. OneHolder'  BY <1>5, <1>6 DEF AccountsInv, OneHolder, Holding
<1>9. \A s \in Requests : Fits(request[s])'
  <2>1. SUFFICES ASSUME NEW s \in Requests PROVE Fits(request[s])'  OBVIOUS
  <2>2. CASE s = r
    <3>1. q.op = "mark" => q.invitation \in Invitations  BY <1>5 DEF RequestRow
    <3>2. q.op \in Completing => q.pending \in Pendings /\ q.invitation = none
      BY <1>5 DEF RequestRow, Completing
    <3> QED  BY <1>1, <1>2, <1>5, <1>6, <2>2, <3>1, <3>2 DEF Fits, Completing, Holding
  <2>3. CASE s # r
    <3>1. Fits(request[s]) /\ request'[s] = request[s]  BY <1>6, <2>3 DEF AccountsInv
    <3>2. request[s].op \notin Holding  BY <1>1, <2>3 DEF AccountsInv, OneHolder
    <3> QED  BY <3>1, <3>2, <1>2, <1>4 DEF Fits, Live, Holding
  <2> QED  BY <2>2, <2>3
<1>10. ChatOfClaimer'  BY <1>2, <1>4 DEF AccountsInv, ChatOfClaimer
<1>11. UsedUp' /\ Bound'  BY <1>2 DEF AccountsInv, UsedUp, BuiltOnce, Bound, past
<1> QED  BY <1>4, <1>7, <1>8, <1>9, <1>10, <1>11 DEF AccountsInv

LEMMA completePendingOnboardingInv ==
    ASSUME AccountsAssumption, AccountsInv, NEW r \in Requests, completePendingOnboarding(r)
    PROVE  AccountsInv'
<1> DEFINE p == request[r].pending
<1>1. request[r] \in RequestRow /\ Fits(request[r]) /\ request[r].op = "build" /\ "build" \in Holding
  BY RequestTyped DEF completePendingOnboarding, Holding
<1>2. p \in Pendings /\ pending[p].state = "live" /\ request[r].invitation = none
  BY <1>1 DEF Fits, Completing, Live
<1>3. UNCHANGED <<users, telegramOf, invitation, mailed, emptied>>  BY DEF completePendingOnboarding
<1>4. PICK tenant \in Tenants :
          /\ Joins(r, tenant)
          /\ profiles' = profiles \cup {[pending |-> p, tenant |-> tenant, chat |-> none]}
  BY DEF completePendingOnboarding
<1>5. /\ founded' \in [AccountIds -> 0 .. MaxTenants]
      /\ memberships' \subseteq [user: users', tenant: Tenants, role: {"owner", "member"},
                                invitation: Invitations \cup {none}]
      /\ OneEach' /\ memberships \subseteq memberships'
      /\ \E m \in memberships' : m.user = request[r].user /\ m.tenant = tenant
  BY <1>1, <1>3, <1>4, JoinsOnce
<1>6. PICK q \in RequestRow :
          /\ \/ q.op = "chat" /\ request[r].chat # none
             \/ q.op = "queue"
          /\ q.user = request[r].user /\ q.invitation = request[r].invitation
          /\ q.pending = request[r].pending /\ q.chat = request[r].chat
          /\ request' = [request EXCEPT ![r] = q]
  <2>1. request' = [request EXCEPT ![r] = [request[r] EXCEPT
            !.op = IF request[r].chat # none THEN "chat" ELSE "queue", !.existing = {}]]
    BY DEF completePendingOnboarding, Step
  <2>2. PICK q \in RequestRow : q = [request[r] EXCEPT
            !.op = IF request[r].chat # none THEN "chat" ELSE "queue", !.existing = {}]
    BY <1>1 DEF RequestRow
  <2>3. /\ q.op = IF request[r].chat # none THEN "chat" ELSE "queue"
        /\ q.user = request[r].user /\ q.invitation = request[r].invitation
        /\ q.pending = request[r].pending /\ q.chat = request[r].chat
    BY <1>1, <2>2 DEF RequestRow
  <2> QED  BY <2>1, <2>2, <2>3
<1>7. request'[r] = q /\ \A s \in Requests \ {r} : request'[s] = request[s]
  BY <1>6 DEF AccountsInv, AccountsTypeOK
<1>8. PICK row \in PendingRow :
          /\ row.state = "consumed" /\ row.claimed = pending[p].claimed
          /\ pending' = [pending EXCEPT ![p] = row]
  <2>1. pending[p] \in PendingRow  BY <1>2 DEF AccountsInv, AccountsTypeOK, PendingRow
  <2>2. PICK row \in PendingRow : row = [pending[p] EXCEPT !.state = "consumed"]  BY <2>1 DEF PendingRow
  <2>3. row.state = "consumed" /\ row.claimed = pending[p].claimed  BY <2>1, <2>2 DEF PendingRow
  <2>4. pending' = [pending EXCEPT ![p].state = "consumed"]  BY DEF completePendingOnboarding
  <2>5. pending' = [pending EXCEPT ![p] = row]
    BY <1>2, <2>2, <2>4 DEF AccountsInv, AccountsTypeOK
  <2> QED  BY <2>3, <2>5
<1>9. pending'[p] = row /\ \A s \in Pendings \ {p} : pending'[s] = pending[s]
  BY <1>2, <1>8 DEF AccountsInv, AccountsTypeOK
<1>10. \A s \in Pendings : pending'[s].claimed = pending[s].claimed  BY <1>8, <1>9
<1>11. built'[p] = built[p] + 1 /\ (\A s \in Pendings \ {p} : built'[s] = built[s])
       /\ built' \in [Pendings -> Nat]
  BY <1>2 DEF completePendingOnboarding, AccountsInv, AccountsTypeOK
<1>12. AccountsTypeOK'
  <2>1. request' \in [Requests -> RequestRow]  BY <1>6 DEF AccountsInv, AccountsTypeOK, RequestRow
  <2>2. pending' \in [Pendings -> PendingRow]  BY <1>8 DEF AccountsInv, AccountsTypeOK, PendingRow
  <2>3. profiles' \subseteq [pending: Pendings, tenant: Tenants, chat: Telegrams \cup {none}]
    BY <1>2, <1>4 DEF AccountsInv, AccountsTypeOK
  <2> QED  BY <1>3, <1>5, <1>11, <2>1, <2>2, <2>3 DEF AccountsInv, AccountsTypeOK, RequestRow, PendingRow
<1>13. OneHolder'  BY <1>6, <1>7 DEF AccountsInv, OneHolder, Holding
<1>14. UsedUp'
  <2>1. built[p] = 0 /\ p \notin emptied
    BY <1>2 DEF AccountsInv, UsedUp, BuiltOnce
  <2>2. BuiltOnce'
    BY <1>3, <1>8, <1>9, <1>11, <2>1 DEF AccountsInv, UsedUp, BuiltOnce
  <2>3. \A s \in emptied' : pending'[s].state = "consumed"
    BY <1>3, <1>8, <1>9 DEF AccountsInv, AccountsTypeOK, UsedUp
  <2>4. \A f \in profiles' : pending'[f.pending].state = "consumed"
    BY <1>4, <1>8, <1>9 DEF AccountsInv, AccountsTypeOK, UsedUp
  <2>5. \A s \in Pendings : pending'[s].state = "free" => pending'[s].claimed = none
    BY <1>8, <1>9 DEF AccountsInv, UsedUp
  <2> QED  BY <2>2, <2>3, <2>4, <2>5 DEF UsedUp
<1>15. \A s \in Requests : Fits(request[s])'
  <2>1. SUFFICES ASSUME NEW s \in Requests PROVE Fits(request[s])'  OBVIOUS
  <2>2. CASE s = r
    <3>1. \A f \in profiles' : f.pending = p => f.tenant = tenant
      BY <1>2, <1>4 DEF AccountsInv, UsedUp
    <3>2. q.op = "chat" => q.chat # none /\ pending'[q.pending].state = "consumed"
      BY <1>6, <1>8, <1>9
    <3>3. q.op \in Completing /\ q.op \notin Holding /\ q.op \notin {"build", "mark", "attach", "attached", "idle"}
      BY <1>6 DEF Completing, Holding
    <3>4. q.user \in users' /\ q.pending \in Pendings /\ q.invitation = none
      BY <1>1, <1>2, <1>3, <1>6 DEF Fits
    <3>5. q.chat # none => pending'[q.pending].claimed = q.chat /\ telegramOf'[q.user] = q.chat
      BY <1>1, <1>2, <1>3, <1>6, <1>10 DEF Fits
    <3>6. \A f \in profiles' : f.pending = q.pending => \E m \in memberships' : m.tenant = f.tenant /\ m.user = q.user
      BY <1>5, <1>6, <3>1
    <3> QED  BY <1>7, <2>2, <3>2, <3>3, <3>4, <3>5, <3>6 DEF Fits
  <2>3. CASE s # r
    <3>1. Fits(request[s]) /\ request'[s] = request[s] /\ request[s] \in RequestRow
      BY <1>7, <2>3, RequestTyped
    <3>2. request[s].op \notin Holding  BY <1>1, <2>3 DEF AccountsInv, OneHolder
    <3>3. request[s].op = "chat" => request[s].pending \in Pendings \ {p}
      BY <1>2, <3>1 DEF Fits, Completing
    <3>4. request[s].op = "chat" =>
              /\ pending'[request[s].pending].state = "consumed"
              /\ \A f \in profiles' : f.pending = request[s].pending =>
                     \E m \in memberships' : m.tenant = f.tenant /\ m.user = request[s].user
      BY <1>4, <1>5, <1>9, <3>1, <3>3 DEF Fits
    <3>5. request[s].op # "idle" /\ request[s].chat # none =>
              /\ request[s].pending \in Pendings /\ pending'[request[s].pending].claimed = request[s].chat
              /\ telegramOf'[request[s].user] = request[s].chat
      BY <1>3, <1>10, <3>1 DEF Fits
    <3>6. request[s].op # "build"  BY <3>2 DEF Holding
    <3> QED  BY <3>1, <3>2, <3>4, <3>5, <3>6, <1>3 DEF Fits
  <2> QED  BY <2>2, <2>3
<1>16. ChatOfClaimer'
  <2>1. \A f \in profiles : f.pending \in Pendings  BY DEF AccountsInv, AccountsTypeOK
  <2>2. \A f \in profiles' : f.chat # none => f \in profiles  BY <1>4
  <2> QED  BY <1>3, <1>5, <1>10, <2>1, <2>2 DEF AccountsInv, ChatOfClaimer
<1>17. Bound'  BY <1>3 DEF AccountsInv, Bound
<1> QED  BY <1>5, <1>12, <1>13, <1>14, <1>15, <1>16, <1>17 DEF AccountsInv

LEMMA CompleteEmptyInv ==
    ASSUME AccountsAssumption, AccountsInv, NEW r \in Requests, CompleteEmpty(r)
    PROVE  AccountsInv'
<1> DEFINE p == request[r].pending
<1>1. request[r] \in RequestRow /\ Fits(request[r]) /\ request[r].op = "build"
  BY RequestTyped DEF CompleteEmpty
<1>2. p \in Pendings /\ pending[p].state = "live"  BY <1>1 DEF Fits, Completing, Live
<1>3. /\ request' = [request EXCEPT ![r] = NoRequest] /\ emptied' = emptied \cup {p}
      /\ UNCHANGED <<people, invitation, mailed, profiles, built>>
  BY DEF CompleteEmpty, Step
<1>4. request'[r] = NoRequest /\ \A s \in Requests \ {r} : request'[s] = request[s]
  BY <1>3 DEF AccountsInv, AccountsTypeOK
<1>5. PICK row \in PendingRow :
          /\ row.state = "consumed" /\ row.claimed = pending[p].claimed
          /\ pending' = [pending EXCEPT ![p] = row]
  <2>1. pending[p] \in PendingRow  BY <1>2 DEF AccountsInv, AccountsTypeOK, PendingRow
  <2>2. PICK row \in PendingRow : row = [pending[p] EXCEPT !.state = "consumed"]  BY <2>1 DEF PendingRow
  <2>3. row.state = "consumed" /\ row.claimed = pending[p].claimed  BY <2>1, <2>2 DEF PendingRow
  <2>4. pending' = [pending EXCEPT ![p].state = "consumed"]  BY DEF CompleteEmpty
  <2>5. pending' = [pending EXCEPT ![p] = row]
    BY <1>2, <2>2, <2>4 DEF AccountsInv, AccountsTypeOK
  <2> QED  BY <2>3, <2>5
<1>6. pending'[p] = row /\ \A s \in Pendings \ {p} : pending'[s] = pending[s]
  BY <1>2, <1>5 DEF AccountsInv, AccountsTypeOK
<1>7. \A s \in Pendings : pending'[s].claimed = pending[s].claimed
                        /\ (pending[s].state = "consumed" => pending'[s].state = "consumed")
  BY <1>5, <1>6
<1>8. AccountsTypeOK'
  <2>1. request' \in [Requests -> RequestRow]
    BY <1>3, RestTyped DEF AccountsInv, AccountsTypeOK, RequestRow
  <2>2. pending' \in [Pendings -> PendingRow]  BY <1>5 DEF AccountsInv, AccountsTypeOK, PendingRow
  <2> QED  BY <1>2, <1>3, <2>1, <2>2 DEF AccountsInv, AccountsTypeOK, RequestRow, PendingRow, people
<1>9. OneHolder'  BY <1>4, RestTyped DEF AccountsInv, OneHolder, Holding
<1>10. UsedUp'
  <2>1. built[p] = 0  BY <1>2 DEF AccountsInv, UsedUp, BuiltOnce
  <2>2. BuiltOnce'
    BY <1>3, <1>5, <1>6, <2>1 DEF AccountsInv, UsedUp, BuiltOnce
  <2>3. \A s \in emptied' : pending'[s].state = "consumed"
    BY <1>3, <1>5, <1>6, <1>7 DEF AccountsInv, AccountsTypeOK, UsedUp
  <2>4. \A f \in profiles' : pending'[f.pending].state = "consumed"
    BY <1>3, <1>7 DEF AccountsInv, AccountsTypeOK, UsedUp
  <2>5. \A s \in Pendings : pending'[s].state = "free" => pending'[s].claimed = none
    BY <1>5, <1>6 DEF AccountsInv, UsedUp
  <2> QED  BY <2>2, <2>3, <2>4, <2>5 DEF UsedUp
<1>11. \A s \in Requests : Fits(request[s])'
  <2>1. SUFFICES ASSUME NEW s \in Requests PROVE Fits(request[s])'  OBVIOUS
  <2>2. CASE s = r  BY <1>4, <2>2, RestTyped DEF Fits, Completing, Holding
  <2>3. CASE s # r
    <3>1. Fits(request[s]) /\ request'[s] = request[s] /\ request[s] \in RequestRow
      BY <1>4, <2>3, RequestTyped
    <3>2. request[s].op \notin Holding  BY <1>1, <2>3 DEF AccountsInv, OneHolder, Holding
    <3>3. \A w : Memberships(w)' = Memberships(w)  BY <1>3 DEF Memberships, people
    <3> QED  BY <3>1, <3>2, <3>3, <1>3, <1>7 DEF Fits, Holding, Completing, people
  <2> QED  BY <2>2, <2>3
<1>12. ChatOfClaimer'
  <2>1. \A f \in profiles : f.pending \in Pendings  BY DEF AccountsInv, AccountsTypeOK
  <2> QED  BY <1>3, <1>7, <2>1 DEF AccountsInv, ChatOfClaimer, people
<1>13. OneEach' /\ Bound'  BY <1>3 DEF AccountsInv, OneEach, Bound, people
<1> QED  BY <1>8, <1>9, <1>10, <1>11, <1>12, <1>13 DEF AccountsInv

LEMMA setDeliveryChatInv ==
    ASSUME AccountsAssumption, AccountsInv, NEW r \in Requests, setDeliveryChat(r)
    PROVE  AccountsInv'
<1> DEFINE p == request[r].pending
           t == request[r].chat
<1>1. request[r] \in RequestRow /\ Fits(request[r]) /\ request[r].op = "chat"
  BY RequestTyped DEF setDeliveryChat
<1>2. /\ p \in Pendings /\ request[r].invitation = none /\ request[r].user \in users
      /\ t \in Telegrams /\ pending[p].claimed = t /\ telegramOf[request[r].user] = t
      /\ \A f \in profiles : f.pending = p => \E m \in memberships : m.tenant = f.tenant /\ m.user = request[r].user
  BY <1>1, RestTyped DEF Fits, Completing, RequestRow
<1>3. UNCHANGED <<people, invitation, pending, mailed, past>>  BY DEF setDeliveryChat
<1>4. profiles \subseteq [pending: Pendings, tenant: Tenants, chat: Telegrams \cup {none}]
  BY DEF AccountsInv, AccountsTypeOK
<1>5. \A g \in profiles' :
          /\ g \in [pending: Pendings, tenant: Tenants, chat: Telegrams \cup {none}]
          /\ \E f \in profiles : g.pending = f.pending /\ g.tenant = f.tenant
                              /\ (IF f.pending = p THEN g.chat = t ELSE g = f)
  <2>1. SUFFICES ASSUME NEW g \in profiles'
                 PROVE  /\ g \in [pending: Pendings, tenant: Tenants, chat: Telegrams \cup {none}]
                        /\ \E f \in profiles : g.pending = f.pending /\ g.tenant = f.tenant
                                            /\ (IF f.pending = p THEN g.chat = t ELSE g = f)
    OBVIOUS
  <2>2. PICK f \in profiles : g = IF f.pending = p THEN [f EXCEPT !.chat = t] ELSE f
    BY DEF setDeliveryChat
  <2>3. f \in [pending: Pendings, tenant: Tenants, chat: Telegrams \cup {none}]  BY <1>4
  <2>4. /\ g \in [pending: Pendings, tenant: Tenants, chat: Telegrams \cup {none}]
        /\ g.pending = f.pending /\ g.tenant = f.tenant
        /\ (IF f.pending = p THEN g.chat = t ELSE g = f)
    BY <1>2, <2>2, <2>3
  <2> QED  BY <2>4
<1>6. PICK q \in RequestRow :
          /\ q.op = "queue" /\ q.user = request[r].user /\ q.invitation = none
          /\ q.pending = p /\ q.chat = t /\ request' = [request EXCEPT ![r] = q]
  <2>1. PICK q \in RequestRow : q = [request[r] EXCEPT !.op = "queue"]  BY <1>1 DEF RequestRow
  <2>2. /\ q.op = "queue" /\ q.user = request[r].user /\ q.invitation = none
        /\ q.pending = p /\ q.chat = t
    BY <1>1, <1>2, <2>1 DEF RequestRow
  <2> QED  BY <2>1, <2>2 DEF setDeliveryChat, Step
<1>7. request'[r] = q /\ \A s \in Requests \ {r} : request'[s] = request[s]
  BY <1>6 DEF AccountsInv, AccountsTypeOK
<1>8. AccountsTypeOK'
  <2>1. request' \in [Requests -> RequestRow]  BY <1>6 DEF AccountsInv, AccountsTypeOK, RequestRow
  <2>2. profiles' \subseteq [pending: Pendings, tenant: Tenants, chat: Telegrams \cup {none}]
    BY <1>5
  <2> QED  BY <1>3, <2>1, <2>2 DEF AccountsInv, AccountsTypeOK, RequestRow, people, past
<1>9. OneHolder'  BY <1>6, <1>7 DEF AccountsInv, OneHolder, Holding
<1>10. UsedUp'
  <2>1. \A g \in profiles' : pending[g.pending].state = "consumed"
    BY <1>5 DEF AccountsInv, UsedUp
  <2> QED  BY <1>3, <2>1 DEF AccountsInv, UsedUp, BuiltOnce, past
<1>11. \A s \in Requests : Fits(request[s])'
  <2>1. SUFFICES ASSUME NEW s \in Requests PROVE Fits(request[s])'  OBVIOUS
  <2>2. \A w : Memberships(w)' = Memberships(w)  BY <1>3 DEF Memberships, people
  <2>3. CASE s = r  BY <1>2, <1>3, <1>6, <1>7, <2>3 DEF Fits, Completing, Holding, people
  <2>4. CASE s # r
    <3>1. Fits(request[s]) /\ request'[s] = request[s]  BY <1>7, <2>4, RequestTyped
    <3>2. request[s].op = "chat" =>
              \A g \in profiles' : g.pending = request[s].pending =>
                  \E m \in memberships : m.tenant = g.tenant /\ m.user = request[s].user
      BY <1>5, <3>1 DEF Fits
    <3> QED  BY <3>1, <3>2, <1>3, <2>2 DEF Fits, Live, people
  <2> QED  BY <2>3, <2>4
<1>12. ChatOfClaimer'
  <2>1. SUFFICES ASSUME NEW g \in profiles', g.chat # none
                 PROVE  /\ pending[g.pending].claimed = g.chat
                        /\ \E m \in memberships : m.tenant = g.tenant /\ telegramOf[m.user] = g.chat
    BY <1>3 DEF ChatOfClaimer, people
  <2>2. PICK f \in profiles : /\ g.pending = f.pending /\ g.tenant = f.tenant
                              /\ (IF f.pending = p THEN g.chat = t ELSE g = f)
    BY <1>5
  <2>3. CASE f.pending = p  BY <1>2, <2>2, <2>3
  <2>4. CASE f.pending # p  BY <2>1, <2>2, <2>4 DEF AccountsInv, ChatOfClaimer
  <2> QED  BY <2>3, <2>4
<1>13. OneEach' /\ Bound'  BY <1>3 DEF AccountsInv, OneEach, Bound, people
<1> QED  BY <1>8, <1>9, <1>10, <1>11, <1>12, <1>13 DEF AccountsInv

\* What is left when a tenant is erased still belongs together: whoever stays
\* keeps a membership, and no request of those who go is left.
LEMMA eraseTenantInv ==
    ASSUME AccountsAssumption, AccountsInv, NEW tenant \in Tenants, eraseTenant(tenant)
    PROVE  AccountsInv'
<1>1. PICK gone : gone = {m.user : m \in {x \in memberships : x.tenant = tenant}}  OBVIOUS
<1>2. /\ memberships' = {m \in memberships : m.tenant # tenant}
      /\ users' = users \ {u \in gone : \A m \in Memberships(u) : m.tenant = tenant}
      /\ telegramOf' = [u \in AccountIds |-> IF u \in users' THEN telegramOf[u] ELSE none]
      /\ profiles' = {f \in profiles : f.tenant # tenant}
      /\ request' = [r \in Requests |-> IF request[r].user \in gone THEN NoRequest ELSE request[r]]
      /\ UNCHANGED <<founded, invitation, pending, mailed, built, emptied>>
      /\ LockFree
  BY <1>1 DEF eraseTenant
<1>3. users \subseteq AccountIds /\ users' \subseteq users  BY <1>2 DEF AccountsInv, AccountsTypeOK
<1>4. /\ \A u \in users' : telegramOf'[u] = telegramOf[u]
      /\ \A u \in AccountIds \ users' : telegramOf'[u] = none
      /\ telegramOf' \in [AccountIds -> Telegrams \cup {none}]
  BY <1>2, <1>3 DEF AccountsInv, AccountsTypeOK
<1>5. memberships \subseteq [user: users, tenant: Tenants, role: {"owner", "member"},
                            invitation: Invitations \cup {none}]
  BY DEF AccountsInv, AccountsTypeOK
<1>6. \A m \in memberships' : m \in memberships /\ m.tenant # tenant /\ m.user \in users'
  BY <1>2, <1>5 DEF Memberships
<1>7. \A r \in Requests : request'[r] = NoRequest \/ (request'[r] = request[r] /\ request[r].user \notin gone)
  <2>1. request' = [r \in Requests |-> IF request[r].user \in gone THEN NoRequest ELSE request[r]]  BY <1>2
  <2>2. SUFFICES ASSUME NEW r \in Requests
                 PROVE  request'[r] = NoRequest \/ (request'[r] = request[r] /\ request[r].user \notin gone)
    OBVIOUS
  <2>3. request'[r] = IF request[r].user \in gone THEN NoRequest ELSE request[r]  BY <2>1
  <2> QED  BY <2>3
<1>8. AccountsTypeOK'
  <2>1. request' \in [Requests -> RequestRow]
    BY <1>2, RestTyped DEF AccountsInv, AccountsTypeOK, RequestRow
  <2>2. \A u, v \in users' : telegramOf'[u] = telegramOf'[v] => telegramOf'[u] = none \/ u = v
    BY <1>3, <1>4 DEF AccountsInv, AccountsTypeOK
  <2>3. memberships' \subseteq [user: users', tenant: Tenants, role: {"owner", "member"},
                               invitation: Invitations \cup {none}]
    BY <1>5, <1>6
  <2> QED  BY <1>2, <1>3, <1>4, <2>1, <2>2, <2>3 DEF AccountsInv, AccountsTypeOK, RequestRow
<1>9. \A r \in Requests : request'[r].op \notin Holding
  BY <1>2, <1>7, RestTyped DEF LockFree, Holding
<1>10. OneHolder'  BY <1>9 DEF OneHolder
<1>11. OneEach'  BY <1>6 DEF AccountsInv, OneEach
<1>12. UsedUp'  BY <1>2 DEF AccountsInv, UsedUp, BuiltOnce
<1>13. Bound'  BY <1>3, <1>4 DEF AccountsInv, Bound, AccountIds
<1>14. ChatOfClaimer'
  <2>1. SUFFICES ASSUME NEW f \in profiles', f.chat # none
                 PROVE  /\ pending[f.pending].claimed = f.chat
                        /\ \E m \in memberships' : m.tenant = f.tenant /\ telegramOf'[m.user] = f.chat
    BY <1>2 DEF ChatOfClaimer
  <2>2. f \in profiles /\ f.tenant # tenant  BY <1>2
  <2>3. PICK m \in memberships : m.tenant = f.tenant /\ telegramOf[m.user] = f.chat
    BY <2>1, <2>2 DEF AccountsInv, ChatOfClaimer
  <2>4. m \in memberships'  BY <1>2, <2>2, <2>3
  <2>5. telegramOf'[m.user] = f.chat  BY <1>4, <1>6, <2>3, <2>4
  <2> QED  BY <2>1, <2>2, <2>3, <2>4, <2>5 DEF AccountsInv, ChatOfClaimer
<1>15. \A r \in Requests : Fits(request[r])'
  <2>1. SUFFICES ASSUME NEW r \in Requests PROVE Fits(request[r])'  OBVIOUS
  <2>2. CASE request'[r] = NoRequest  BY <2>2, RestTyped DEF Fits, Completing, Holding
  <2>3. CASE request'[r] = request[r] /\ request[r].user \notin gone
    <3>1. Fits(request[r]) /\ request[r].op \notin Holding
      BY <1>9, <2>3, RequestTyped
    <3>2. request[r].op # "idle" => request[r].user \in users'  BY <1>2, <2>3, <3>1 DEF Fits
    <3>3. \A m \in memberships : m.user = request[r].user => m \in memberships'
      BY <1>1, <1>2, <2>3
    <3>4. request[r].op = "chat" =>
              \A f \in profiles' : f.pending = request[r].pending =>
                  \E m \in memberships' : m.tenant = f.tenant /\ m.user = request[r].user
      BY <1>2, <3>1, <3>3 DEF Fits
    <3>5. request[r].op # "idle" /\ request[r].chat # none =>
              telegramOf'[request[r].user] = request[r].chat
      BY <1>4, <3>1, <3>2 DEF Fits
    <3> QED  BY <1>2, <2>3, <3>1, <3>2, <3>4, <3>5 DEF Fits, Live, Holding
  <2> QED  BY <1>7, <2>2, <2>3
<1> QED  BY <1>8, <1>10, <1>11, <1>12, <1>13, <1>14, <1>15 DEF AccountsInv

-----------------------------------------------------------------------------
(* Every step keeps the invariant *)

LEMMA StutterInv ==
    ASSUME AccountsInv, UNCHANGED accountsVars
    PROVE  AccountsInv'
<1>1. /\ UNCHANGED <<users, telegramOf, memberships, founded, invitation, pending, mailed, profiles>>
      /\ UNCHANGED <<request, built, emptied>>
  BY DEF accountsVars, people, past
<1>2. AccountsTypeOK'  BY <1>1 DEF AccountsInv, AccountsTypeOK
<1>3. \A r \in Requests : Fits(request[r])'  BY <1>1 DEF AccountsInv, Fits, Live, Memberships
<1> QED  BY <1>1, <1>2, <1>3
         DEF AccountsInv, OneHolder, OneEach, UsedUp, BuiltOnce, Bound, ChatOfClaimer

LEMMA NextInv ==
    ASSUME AccountsAssumption, AccountsInv, AccountsNext
    PROVE  AccountsInv'
<1>1. CASE \E p \in Pendings :
           \/ \E t \in Telegrams \cup {none}, queued \in BOOLEAN : startDiscovery(p, t, queued)
           \/ \E result \in {"usable", "unusable"} : updatePendingDiscoveryResult(p, result)
           \/ DiscoveryEnds(p) \/ savePendingReview(p) \/ PendingExpires(p)
           \/ \E m \in Mail, channel \in {"email", "telegram"} : updatePendingChannel(p, m, channel)
           \/ \E t \in Telegrams : claimPendingForTelegram(p, t)
  BY <1>1, RowsInv
<1>2. CASE \E i \in Invitations : createInvitation(i) \/ revokeInvitation(i) \/ InvitationExpires(i)
  BY <1>2, InvitationsInv
<1>3. CASE \E u \in AccountIds, t \in Telegrams : linkOwnerTelegram(u, t)
  BY <1>3, linkOwnerTelegramInv
<1>4. CASE \E tenant \in Tenants : eraseTenant(tenant)
  BY <1>4, eraseTenantInv
<1>5. ASSUME NEW r \in Requests,
             \/ \E m \in Mail, i \in Invitations \cup {none}, byLink \in BOOLEAN : signUp(r, m, i, byLink)
             \/ \E m \in Mail, p \in Pendings : openMagicLink(r, m, p)
             \/ \E t \in Telegrams, p \in Pendings, u \in AccountIds : confirmSignup(r, t, p, u)
             \/ \E u \in AccountIds : resolveMembership(r, u)
             \/ Hook(r) \/ Look(r) \/ Attach(r) \/ markInvitationAccepted(r)
             \/ BeginComplete(r) \/ NothingToComplete(r) \/ completePendingOnboarding(r) \/ CompleteEmpty(r)
             \/ setDeliveryChat(r) \/ queueFirstRun(r) \/ RequestDies(r)
      PROVE  AccountsInv'
  BY <1>5, signUpInv, openMagicLinkInv, confirmSignupInv, resolveMembershipInv, HookInv, LocksInv, AttachInv,
     markInvitationAcceptedInv, RestsInv, completePendingOnboardingInv, CompleteEmptyInv, setDeliveryChatInv
<1> QED  BY <1>1, <1>2, <1>3, <1>4, <1>5 DEF AccountsNext

LEMMA InvHolds == ASSUME AccountsAssumption PROVE AccountsSpec => []AccountsInv
<1>1. AccountsInit => AccountsInv  BY InitInv
<1>2. AccountsInv /\ [AccountsNext]_accountsVars => AccountsInv'  BY NextInv, StutterInv
<1> QED  BY <1>1, <1>2, PTL DEF AccountsSpec

-----------------------------------------------------------------------------
(* Theorems *)

\* A set with no two members that differ has at most one.
LEMMA AtMostOne ==
    ASSUME NEW S, \A a, b \in S : a = b
    PROVE  Cardinality(S) <= 1
<1>1. CASE S = {}  BY <1>1, FS_EmptySet
<1>2. CASE S # {}
  <2>1. PICK a : a \in S  BY <1>2
  <2>2. S = {a}  BY <2>1
  <2> QED  BY <2>2, FS_Singleton
<1> QED  BY <1>1, <1>2

\* Accounts, rows and requests keep their types; the Telegram user of an account
\* is its alone (the unique index of user.telegram_user_id).
THEOREM AccountsTypes == ASSUME AccountsAssumption PROVE AccountsSpec => []AccountsTypeOK
  BY InvHolds, PTL DEF AccountsInv

\* However sign-ups, page loads, completions and deaths of requests fall, no
\* account belongs to two tenants (membership.ts:33).
THEOREM OneTenantEach == ASSUME AccountsAssumption PROVE AccountsSpec => []OneTenant
<1>1. ASSUME AccountsInv PROVE OneTenant
  <2>1. SUFFICES ASSUME NEW u \in users PROVE Cardinality(Memberships(u)) <= 1  BY DEF OneTenant
  <2>2. \A a, b \in Memberships(u) : a = b  BY <1>1 DEF AccountsInv, OneEach, Memberships
  <2> HIDE DEF Memberships
  <2> QED  BY <2>2, AtMostOne
<1> QED  BY <1>1, InvHolds, PTL

\* An invitation never lets two accounts in, even one that was never marked
\* used (invitations.ts:183, auth.ts:307).
THEOREM InvitationsUsedOnce == ASSUME AccountsAssumption PROVE AccountsSpec => []InvitationOnce
<1>1. ASSUME AccountsInv PROVE InvitationOnce
  <2>1. SUFFICES ASSUME NEW i \in Invitations
                 PROVE  Cardinality({m \in memberships : m.invitation = i}) <= 1
    BY DEF InvitationOnce
  <2>2. PICK S : S = {m \in memberships : m.invitation = i}  OBVIOUS
  <2>3. i # none  BY DEF AccountsAssumption
  <2>4. \A a, b \in S : a = b  BY <1>1, <2>2, <2>3 DEF AccountsInv, OneEach
  <2> QED  BY <2>2, <2>4, AtMostOne
<1> QED  BY <1>1, InvHolds, PTL

\* A pending onboarding builds one profile and is then used up, whichever
\* channels, clicks and deaths lead there (complete.ts:7).
THEOREM OnboardingsBuiltOnce == ASSUME AccountsAssumption PROVE AccountsSpec => []BuiltOnce
  BY InvHolds, PTL DEF AccountsInv, UsedUp

\* The chat of a new profile is that of the Telegram user who claimed its
\* onboarding, and who belongs to its tenant (telegram.ts:136).
THEOREM ChatsOfClaimers == ASSUME AccountsAssumption PROVE AccountsSpec => []ChatOfClaimer
  BY InvHolds, PTL DEF AccountsInv

=============================================================================
