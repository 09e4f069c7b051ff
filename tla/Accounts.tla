------------------------------ MODULE Accounts ------------------------------
(***************************************************************************)
(* From a visitor to an account with a business and a first profile: the   *)
(* pending onboarding and its discovery (packages/domain/src/onboarding),  *)
(* the magic link and the Telegram bot that complete it, sign-up with or   *)
(* without an invitation, and the membership a page load repairs           *)
(* (packages/domain/src/tenancy, apps/web/src/lib/auth.ts, session.ts).    *)
(*                                                                         *)
(* A request is one handler at work: requests run side by side, and any of *)
(* them may die between two writes.  A transaction is visible only once it *)
(* commits, and attaching an account takes a lock all requests share.      *)
(***************************************************************************)
EXTENDS Integers, FiniteSets

CONSTANTS
    Mail, Telegrams,     \* e-mail addresses and Telegram users, each good for one account
    Requests, Pendings, Invitations,
    Addressee,           \* the address each invitation names
    Host,                \* the tenant that invites, there from the start
    RegistrationOpen,
    MaxProfiles,         \* profiles the plan of a new tenant allows
    MaxTenants,          \* bound on the tenants an account founds in turn
    none

AccountIds == Mail \cup Telegrams
Tenants == (AccountIds \X (1 .. MaxTenants)) \cup {Host}

ASSUME AccountsAssumption ==
    /\ Mail \cap Telegrams = {} /\ none \notin AccountIds \cup Pendings \cup Invitations
    /\ Addressee \in [Invitations -> Mail] /\ RegistrationOpen \in BOOLEAN
    /\ MaxProfiles \in Nat \ {0} /\ MaxTenants \in Nat
    /\ Host \notin AccountIds \X (1 .. MaxTenants)

VARIABLES
    users,        \* accounts there are
    telegramOf,   \* user.telegram_user_id
    memberships,  \* rows; "invitation" is history: what the account came with
    founded,      \* tenants each account has founded
    invitation,   \* state of each invitation
    pending,      \* pending_onboardings
    mailed,       \* addresses a magic link was sent to
    profiles,     \* profiles built, with the chat their digest goes to
    request,      \* what each request is in the middle of
    built,        \* history: profiles built from each pending
    emptied       \* history: pendings used up with nothing to build from

people == <<users, telegramOf, memberships, founded>>
past == <<built, emptied>>
accountsVars == <<people, invitation, pending, mailed, profiles, request, past>>

NoPending == [state |-> "free", job |-> FALSE, result |-> none, reviewed |-> FALSE,
              email |-> none, claimed |-> none]
NoRequest == [op |-> "idle", user |-> none, invitation |-> none, pending |-> none,
              chat |-> none, existing |-> {}]

AccountsTypeOK ==
    /\ users \subseteq AccountIds /\ telegramOf \in [AccountIds -> Telegrams \cup {none}]
    /\ \A u, v \in users : telegramOf[u] = telegramOf[v] => telegramOf[u] = none \/ u = v
    /\ memberships \subseteq [user: users, tenant: Tenants, role: {"owner", "member"},
                              invitation: Invitations \cup {none}]
    /\ founded \in [AccountIds -> 0 .. MaxTenants]
    /\ invitation \in [Invitations -> {"none", "open", "accepted", "revoked", "expired"}]
    /\ pending \in [Pendings -> [state: {"free", "live", "consumed", "expired"}, job: BOOLEAN,
                                 result: {none, "usable", "unusable"}, reviewed: BOOLEAN,
                                 email: Mail \cup {none}, claimed: Telegrams \cup {none}]]
    /\ mailed \subseteq Mail
    /\ profiles \subseteq [pending: Pendings, tenant: Tenants, chat: Telegrams \cup {none}]
    /\ request \in [Requests -> [op: {"idle", "hook", "attach", "attached", "mark", "complete", "build",
                                      "chat", "queue"},
                                 user: AccountIds \cup {none}, invitation: Invitations \cup {none},
                                 pending: Pendings \cup {none}, chat: Telegrams \cup {none},
                                 existing: SUBSET Tenants]]
    /\ built \in [Pendings -> Nat] /\ emptied \subseteq Pendings

AccountsInit ==
    /\ users = {} /\ telegramOf = [u \in AccountIds |-> none]
    /\ memberships = {} /\ founded = [u \in AccountIds |-> 0]
    /\ invitation = [i \in Invitations |-> "none"]
    /\ pending = [p \in Pendings |-> NoPending]
    /\ mailed = {} /\ profiles = {}
    /\ request = [r \in Requests |-> NoRequest]
    /\ built = [p \in Pendings |-> 0] /\ emptied = {}

-----------------------------------------------------------------------------
(* The pending onboarding *)

Live(p) == pending[p].state = "live"

\* The row is in nobody's transaction: writes to it wait for that one to end.
Free(p) == \A r \in Requests : request[r].op = "build" => request[r].pending # p

Write(p, row) ==
    /\ Free(p) /\ pending' = [pending EXCEPT ![p] = row]
    /\ UNCHANGED <<people, invitation, mailed, profiles, request, past>>

\* A reading of the same site that nobody has used yet is taken over.
findCachedDiscovery == {pending[q].result : q \in {x \in Pendings : Live(x)}} \ {none}

\* The site's start page, or a message to the bot; then the job is queued,
\* unless the process dies first.
startDiscovery(p, t, queued) ==
    /\ pending[p].state = "free"
    /\ t # none => ~\E q \in Pendings : Live(q) /\ pending[q].claimed = t /\ pending[q].result = none
    /\ \E found \in findCachedDiscovery \cup {none} :
           Write(p, [NoPending EXCEPT !.state = "live", !.claimed = t, !.result = found,
                                      !.job = (found = none /\ queued)])

updatePendingDiscoveryResult(p, result) ==
    /\ pending[p].job
    /\ Write(p, [pending[p] EXCEPT !.job = FALSE, !.result = result])

\* The site could not be read, or the worker died: the queue does not run the
\* job again.
DiscoveryEnds(p) == pending[p].job /\ Write(p, [pending[p] EXCEPT !.job = FALSE])

savePendingReview(p) ==
    /\ Live(p) /\ pending[p].result # none
    /\ Write(p, [pending[p] EXCEPT !.reviewed = TRUE])

\* The address is kept whichever channel was chosen; the link is sent for one.
updatePendingChannel(p, m, channel) ==
    /\ Live(p) /\ pending[p].result # none /\ Free(p)
    /\ pending' = [pending EXCEPT ![p].email = m]
    /\ mailed' = IF channel = "email" THEN mailed \cup {m} ELSE mailed
    /\ UNCHANGED <<people, invitation, profiles, request, past>>

\* Past a day the row is found no more, and maintenance deletes it.
PendingExpires(p) == Live(p) /\ Write(p, [pending[p] EXCEPT !.state = "expired"])

-----------------------------------------------------------------------------
(* Invitations *)

Invite(i, from, to) ==
    /\ invitation[i] \in from /\ invitation' = [invitation EXCEPT ![i] = to]
    /\ UNCHANGED <<people, pending, mailed, profiles, request, past>>

createInvitation(i) == Invite(i, {"none"}, "open")
revokeInvitation(i) == Invite(i, {"open", "revoked", "expired"}, "revoked")
InvitationExpires(i) == Invite(i, {"open"}, "expired")

\* The link and the address have to match.
findInvitationFor(i, m) ==
    /\ i # none /\ invitation[i] = "open"
    /\ m = Addressee[i]

-----------------------------------------------------------------------------
(* Accounts and their tenants *)

Step(r, row) == request' = [request EXCEPT ![r] = row]

Memberships(u) == {m \in memberships : m.user = u}

\* A new account by password or by a magic link that finds none; the second
\* goes on to complete the onboarding of its address.
signUp(r, m, i, byLink) ==
    /\ request[r].op = "idle" /\ m \notin users
    /\ IF byLink THEN m \in mailed ELSE RegistrationOpen \/ findInvitationFor(i, m)
    /\ users' = users \cup {m}
    /\ \E p \in {q \in Pendings : byLink /\ Live(q) /\ pending[q].email = m} \cup {none} :
           Step(r, [NoRequest EXCEPT !.op = "hook", !.user = m, !.invitation = i, !.pending = p])
    /\ UNCHANGED <<telegramOf, memberships, founded, invitation, pending, mailed, profiles, past>>

\* The hook after the account's creation looks whether its invitation still stands.
Hook(r) ==
    LET i == request[r].invitation
        found == IF findInvitationFor(i, request[r].user) THEN i ELSE none
    IN  /\ request[r].op = "hook"
        /\ Step(r, [request[r] EXCEPT !.op = "attach", !.invitation = found])
        /\ UNCHANGED <<people, invitation, pending, mailed, profiles, past>>

\* A page load of an account that has no membership.
resolveMembership(r, u) ==
    /\ request[r].op = "idle" /\ u \in users /\ Memberships(u) = {}
    /\ Step(r, [NoRequest EXCEPT !.op = "attach", !.user = u])
    /\ UNCHANGED <<people, invitation, pending, mailed, profiles, past>>

\* Mutant: the membership is read with no lock taken.
NoLock == TRUE

\* pg_advisory_xact_lock: nobody else is between its read and its commit.
LockFree == \A r \in Requests : request[r].op \notin {"attached", "build"}

\* attachUserToInstance reads the membership under the lock ...
Look(r) ==
    /\ request[r].op = "attach" /\ LockFree
    /\ Step(r, [request[r] EXCEPT !.op = "attached",
                                  !.existing = {m.tenant : m \in Memberships(request[r].user)}])
    /\ UNCHANGED <<people, invitation, pending, mailed, profiles, past>>

\* ... and joins the inviting tenant or founds one, when it found none.
Joins(r, tenant) ==
    LET u == request[r].user
        i == request[r].invitation
    IN  IF request[r].existing # {}
        THEN tenant \in request[r].existing /\ UNCHANGED <<memberships, founded>>
        ELSE /\ IF i # none
                THEN tenant = Host /\ UNCHANGED founded
                ELSE /\ founded[u] < MaxTenants /\ tenant = <<u, founded[u] + 1>>
                     /\ founded' = [founded EXCEPT ![u] = @ + 1]
             /\ memberships' = memberships \cup {[user |-> u, tenant |-> tenant, invitation |-> i,
                                                  role |-> IF i # none THEN "member" ELSE "owner"]}

Attach(r) ==
    /\ request[r].op = "attached"
    /\ \E tenant \in Tenants : Joins(r, tenant)
    /\ Step(r, [request[r] EXCEPT !.existing = {},
           !.op = IF request[r].invitation # none THEN "mark"
                  ELSE IF request[r].pending # none THEN "complete" ELSE "idle"])
    /\ UNCHANGED <<users, telegramOf, invitation, pending, mailed, profiles, past>>

markInvitationAccepted(r) ==
    LET i == request[r].invitation
    IN  /\ request[r].op = "mark"
        /\ invitation' = [invitation EXCEPT ![i] = "accepted"]
        /\ Step(r, IF request[r].pending = none THEN NoRequest
                   ELSE [request[r] EXCEPT !.op = "complete", !.invitation = none])
        /\ UNCHANGED <<people, pending, mailed, profiles, past>>

-----------------------------------------------------------------------------
(* Completing an onboarding *)

\* A magic link of an account that is there already.
openMagicLink(r, m, p) ==
    /\ request[r].op = "idle" /\ m \in users \cap mailed
    /\ Live(p) /\ pending[p].email = m
    /\ Step(r, [NoRequest EXCEPT !.op = "complete", !.user = m, !.pending = p])
    /\ UNCHANGED <<people, invitation, pending, mailed, profiles, past>>

\* Mutant: the last Telegram user to open the link has it.
LastComer(p, t) == TRUE

\* The first Telegram user to open the link; nobody else after that.
MayClaim(p, t) == pending[p].claimed \in {none, t}

claimPendingForTelegram(p, t) ==
    /\ Live(p) /\ pending[p].email # none /\ MayClaim(p, t)
    /\ Write(p, [pending[p] EXCEPT !.claimed = t])

\* Mutant: made, whatever account the Telegram user is bound to.
NewHolder(t, u) == u = t

\* The account of a Telegram user: found, or made.
Holder(t, u) == IF \E v \in users : telegramOf[v] = t THEN u \in users /\ telegramOf[u] = t ELSE u = t

\* "Go" under the listing, or right after the claim: only the claimer confirms.
confirmSignup(r, t, p, u) ==
    /\ request[r].op = "idle" /\ pending[p].claimed = t /\ pending[p].result # none
    /\ Holder(t, u)
    /\ users' = users \cup {u} /\ telegramOf' = [telegramOf EXCEPT ![u] = t]
    /\ Step(r, [NoRequest EXCEPT !.op = "complete", !.user = u, !.pending = p, !.chat = t])
    /\ UNCHANGED <<memberships, founded, invitation, pending, mailed, profiles, past>>

\* A chat was bound by code: its Telegram user is the owner's from now on.
linkOwnerTelegram(u, t) ==
    /\ ~\E v \in users : telegramOf[v] = t
    /\ telegramOf[u] = none /\ \E m \in Memberships(u) : m.role = "owner"
    /\ telegramOf' = [telegramOf EXCEPT ![u] = t]
    /\ UNCHANGED <<users, memberships, founded, invitation, pending, mailed, profiles, request, past>>

\* Mutant: a pending that was used is used again.
StillThere(p) == pending[p].state \in {"live", "consumed"}

Usable(p) == Live(p)

\* The transaction takes the row, then the lock, and reads the membership ...
BeginComplete(r) ==
    LET p == request[r].pending
    IN  /\ request[r].op = "complete" /\ LockFree /\ Usable(p)
        /\ Step(r, [request[r] EXCEPT !.op = "build",
                                      !.existing = {m.tenant : m \in Memberships(request[r].user)}])
        /\ UNCHANGED <<people, invitation, pending, mailed, profiles, past>>

\* ... or finds the row gone or used.
NothingToComplete(r) ==
    /\ request[r].op = "complete" /\ ~Usable(request[r].pending) /\ Free(request[r].pending)
    /\ Step(r, NoRequest)
    /\ UNCHANGED <<people, invitation, pending, mailed, profiles, past>>

profileInputFromPending(p) == pending[p].reviewed \/ pending[p].result = "usable"

\* Tenant, profile and used row are committed together; past the plan's
\* profiles all of it is rolled back.
completePendingOnboarding(r) ==
    LET p == request[r].pending
    IN  /\ request[r].op = "build" /\ profileInputFromPending(p)
        /\ \E tenant \in Tenants :
               /\ Joins(r, tenant)
               /\ Cardinality({f \in profiles : f.tenant = tenant}) < MaxProfiles
               /\ profiles' = profiles \cup {[pending |-> p, tenant |-> tenant, chat |-> none]}
        /\ pending' = [pending EXCEPT ![p].state = "consumed"]
        /\ built' = [built EXCEPT ![p] = @ + 1]
        /\ Step(r, [request[r] EXCEPT !.op = IF request[r].chat # none THEN "chat" ELSE "queue",
                                      !.existing = {}])
        /\ UNCHANGED <<users, telegramOf, invitation, mailed, emptied>>

\* With nothing to build from the row is used up all the same.
CompleteEmpty(r) ==
    LET p == request[r].pending
    IN  /\ request[r].op = "build" /\ ~profileInputFromPending(p)
        /\ pending' = [pending EXCEPT ![p].state = "consumed"]
        /\ emptied' = emptied \cup {p}
        /\ Step(r, NoRequest)
        /\ UNCHANGED <<people, invitation, mailed, profiles, built>>

\* Telegram only, and a write of its own.
setDeliveryChat(r) ==
    /\ request[r].op = "chat"
    /\ profiles' = {IF f.pending = request[r].pending THEN [f EXCEPT !.chat = request[r].chat] ELSE f :
                       f \in profiles}
    /\ Step(r, [request[r] EXCEPT !.op = "queue"])
    /\ UNCHANGED <<people, invitation, pending, mailed, past>>

queueFirstRun(r) ==
    /\ request[r].op = "queue" /\ Step(r, NoRequest)
    /\ UNCHANGED <<people, invitation, pending, mailed, profiles, past>>

\* An error, which the hook swallows, a plan's limit, or the end of the
\* process: the open transaction is rolled back and nothing more happens.
RequestDies(r) ==
    /\ request[r].op # "idle" /\ Step(r, NoRequest)
    /\ UNCHANGED <<people, invitation, pending, mailed, profiles, past>>

\* The tenant's rows go with it, and the accounts that belonged to it alone;
\* what a request has yet to write for them is refused.
eraseTenant(tenant) ==
    LET gone == {m.user : m \in {x \in memberships : x.tenant = tenant}}
    IN  /\ gone # {} /\ tenant # Host /\ LockFree
        /\ memberships' = {m \in memberships : m.tenant # tenant}
        /\ users' = users \ {u \in gone : \A m \in Memberships(u) : m.tenant = tenant}
        /\ telegramOf' = [u \in AccountIds |-> IF u \in users' THEN telegramOf[u] ELSE none]
        /\ profiles' = {f \in profiles : f.tenant # tenant}
        /\ request' = [r \in Requests |-> IF request[r].user \in gone THEN NoRequest ELSE request[r]]
        /\ UNCHANGED <<founded, invitation, pending, mailed, built, emptied>>

-----------------------------------------------------------------------------
AccountsNext ==
    \/ \E p \in Pendings :
           \/ \E t \in Telegrams \cup {none}, queued \in BOOLEAN : startDiscovery(p, t, queued)
           \/ \E result \in {"usable", "unusable"} : updatePendingDiscoveryResult(p, result)
           \/ DiscoveryEnds(p) \/ savePendingReview(p) \/ PendingExpires(p)
           \/ \E m \in Mail, channel \in {"email", "telegram"} : updatePendingChannel(p, m, channel)
           \/ \E t \in Telegrams : claimPendingForTelegram(p, t)
    \/ \E i \in Invitations : createInvitation(i) \/ revokeInvitation(i) \/ InvitationExpires(i)
    \/ \E u \in AccountIds, t \in Telegrams : linkOwnerTelegram(u, t)
    \/ \E tenant \in Tenants : eraseTenant(tenant)
    \/ \E r \in Requests :
           \/ \E m \in Mail, i \in Invitations \cup {none}, byLink \in BOOLEAN : signUp(r, m, i, byLink)
           \/ \E m \in Mail, p \in Pendings : openMagicLink(r, m, p)
           \/ \E t \in Telegrams, p \in Pendings, u \in AccountIds : confirmSignup(r, t, p, u)
           \/ \E u \in AccountIds : resolveMembership(r, u)
           \/ Hook(r) \/ Look(r) \/ Attach(r) \/ markInvitationAccepted(r)
           \/ BeginComplete(r) \/ NothingToComplete(r) \/ completePendingOnboarding(r) \/ CompleteEmpty(r)
           \/ setDeliveryChat(r) \/ queueFirstRun(r) \/ RequestDies(r)

AccountsSpec == AccountsInit /\ [][AccountsNext]_accountsVars

-----------------------------------------------------------------------------
(* Properties *)

\* An account has one tenant, though the sign-up hook, page loads and the
\* completion of an onboarding may all be giving it one at once (membership.ts:33).
OneTenant == \A u \in users : Cardinality(Memberships(u)) <= 1

\* An invitation lets one account in, also when marking it used never happens
\* and its link is opened again (invitations.ts:183, auth.ts:307).
InvitationOnce ==
    \A i \in Invitations : Cardinality({m \in memberships : m.invitation = i}) <= 1

\* A pending onboarding is used exactly when its one profile was built, or when
\* there was nothing to build from: second clicks, both channels at once, plan
\* limits and deaths on the way change nothing (complete.ts:7).
BuiltOnce ==
    \A p \in Pendings :
        built[p] = IF pending[p].state = "consumed" /\ p \notin emptied THEN 1 ELSE 0

\* A digest goes to the chat of the Telegram user who claimed the onboarding, and
\* that profile is in the tenant of that user's account (telegram.ts:136).
ChatOfClaimer ==
    \A f \in profiles : f.chat # none =>
        /\ pending[f.pending].claimed = f.chat
        /\ \E m \in memberships : m.tenant = f.tenant /\ telegramOf[m.user] = f.chat

=============================================================================
