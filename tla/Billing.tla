------------------------------- MODULE Billing -------------------------------
(***************************************************************************)
(* Paid plans of Mifluent: orders, payment notifications, refunds, the     *)
(* free month for inviting a friend, and the daily job that gives every    *)
(* tenant the plan its paid time covers (packages/domain/src/billing).     *)
(*                                                                         *)
(* The tables are variables: a transaction of the code is a handler that   *)
(* reads (its snapshot is its entry of inflight) and later commits, so     *)
(* that two transactions interleave the way READ COMMITTED lets them.  A   *)
(* tick of now is a day; MonthDays compresses the calendar.                *)
(***************************************************************************)
EXTENDS Naturals, FiniteSets

CONSTANTS
    Tenants,           \* accounts
    NoTenant,
    Orders,            \* ids of payment_orders in the order uuidv7 makes them; bounds the orders ever made
    NoOrder,
    Handlers,          \* requests and CLI runs that may be in progress at once
    BuyPlans,          \* plans offered in this instance
    GrantPlans,        \* plans the owner grants by hand
    HandPlans,         \* plans the owner sets through the webhook
    Terms,             \* months an order may be for
    Codes, NoCode,     \* promo codes
    MaxUses,           \* promo_codes.max_uses
    EarlySeats,        \* EARLY_SEATS
    MonthDays,         \* length of a month
    RefundDays,        \* REFUND_WINDOW_DAYS
    MaxReferralMonths, \* MAX_REFERRAL_MONTHS
    PartnerTenants,    \* tenants whose acquired code belongs to a partner
    PartnerMonths,     \* partners.months
    Referrer,          \* the inviter recorded at sign-up, or NoTenant
    TrialEndsAt,       \* tenants.trial_ends_at
    TargetLimit,       \* maxTargets of each plan
    MaxTime,           \* bound on now
    MaxCrashes,        \* bound on requests that die before they commit
    MaxJobCrashes      \* bound on restarts of the worker during the daily job

PaidPlans == {"starter", "pro", "team"}
PlanNames == PaidPlans \cup {"free"}
Statuses == {"none", "created", "paid", "failed", "refund_requested", "refunded"}
MoneyProviders == {"yookassa", "manual"}
Providers == MoneyProviders \cup {"referral"}

ASSUME BillingAssumption ==
    /\ Orders \subseteq Nat
    /\ NoTenant \notin Tenants /\ NoOrder \notin Orders /\ NoCode \notin Codes
    /\ BuyPlans \subseteq PaidPlans /\ GrantPlans \subseteq PaidPlans
    /\ HandPlans \subseteq PlanNames
    /\ Terms \subseteq Nat \ {0} /\ MonthDays \in Nat \ {0} /\ RefundDays \in Nat
    /\ MaxUses \in Nat /\ EarlySeats \in Nat /\ MaxReferralMonths \in Nat
    /\ PartnerTenants \subseteq Tenants /\ PartnerMonths \in Nat
    /\ Referrer \in [Tenants -> Tenants \cup {NoTenant}]
    /\ \A t \in Tenants : Referrer[t] # t
    /\ TrialEndsAt \in [Tenants -> Nat]
    /\ TargetLimit \in [PlanNames -> Nat]
    /\ MaxTime \in Nat /\ MaxCrashes \in Nat /\ MaxJobCrashes \in Nat

\* SELECT count(*) in the code ranges over a finite table.
ASSUME FiniteTables == IsFiniteSet(Tenants) /\ IsFiniteSet(Orders)

VARIABLES
    now,        \* the day
    order,      \* payment_orders
    payment,    \* what the provider says of each order's payment
    events,     \* billing_events: the orders whose final notification is recorded
    plan,       \* tenants.plan
    watch,      \* watch targets of each tenant, active and paused
    rewarded,   \* referrals in status "rewarded", by the friend that signed up
    used,       \* promo_codes.used
    earned,     \* partner_earnings, by order
    inflight,   \* the request each handler is in the middle of
    stage,      \* where the daily job stands
    left,       \* tenants the daily job listed and has not visited
    seen,       \* tenants.plan as the daily job listed it
    visiting,   \* the tenant settleTenantPlan is working on
    settling,   \* the plan it read for that tenant
    touched,    \* history: tenants whose orders or plan changed since the job listed them
    crashes, jobCrashes

tables == <<order, payment, events, plan, watch, rewarded, used, earned>>
jobVars == <<stage, left, seen, visiting, settling, jobCrashes>>
vars == <<now, tables, inflight, jobVars, touched, crashes>>

OrderRow == [tenant: Tenants \cup {NoTenant}, plan: PaidPlans, months: Nat, early: BOOLEAN,
             code: Codes \cup {NoCode}, provider: Providers, status: Statuses,
             paidAt: Nat, start: Nat, end: Nat]
Unused == [tenant |-> NoTenant, plan |-> "pro", months |-> 0, early |-> FALSE, code |-> NoCode,
           provider |-> "yookassa", status |-> "none", paidAt |-> 0, start |-> 0, end |-> 0]
Request == [op: {"idle", "apply", "reward", "refund", "confirm"}, order: Orders \cup {NoOrder},
            start: Nat, plan: PlanNames, give: BOOLEAN, giveStart: Nat, lift: BOOLEAN]
Idle == [op |-> "idle", order |-> NoOrder, start |-> 0, plan |-> "free",
         give |-> FALSE, giveStart |-> 0, lift |-> FALSE]

TypeOK ==
    /\ now \in Nat
    /\ order \in [Orders -> OrderRow]
    /\ payment \in [Orders -> {"open", "succeeded", "short", "canceled"}]
    /\ events \subseteq Orders /\ earned \subseteq Orders
    /\ plan \in [Tenants -> PlanNames]
    /\ watch \in [Tenants -> [active: Nat, paused: Nat]]
    /\ rewarded \subseteq Tenants
    /\ used \in [Codes -> Nat]
    /\ inflight \in [Handlers -> Request]
    /\ \A h \in Handlers : inflight[h].op # "idle" => inflight[h].order \in Orders
    /\ stage \in {"due", "expire", "settle", "write", "pause", "trials", "done"}
    /\ left \subseteq Tenants /\ touched \subseteq Tenants
    /\ seen \in [Tenants -> PlanNames]
    /\ visiting \in Tenants \cup {NoTenant} /\ settling \in PlanNames
    /\ stage \in {"settle", "write", "pause"} => visiting \in Tenants
    /\ crashes \in Nat /\ jobCrashes \in Nat

-----------------------------------------------------------------------------
(* Queries *)

OrdersOf(t) == {o \in Orders : order[o].status # "none" /\ order[o].tenant = t}
PaidOrdersOf(t) == {o \in OrdersOf(t) : order[o].status = "paid"}

addMonths(day, months) == day + months * MonthDays

\* The ends of the paid time a tenant still has.
EndsAhead(t) == {order[o].end : o \in {p \in PaidOrdersOf(t) : order[p].end > now}}

\* Mutant: paid time always starts at the payment.
PaidUntilNow(t, day) == day = now

\* day is where new paid time starts: the latest of those ends, or now when there is none.
PaidUntil(t, day) ==
    \/ EndsAhead(t) = {} /\ day = now
    \/ day \in EndsAhead(t) /\ \A e \in EndsAhead(t) : e <= day

\* The plan of the latest payment that covers now; several when two share a paidAt.
PlansCovering(t, excluded) ==
    LET covering == {o \in PaidOrdersOf(t) \ excluded : order[o].start <= now /\ now < order[o].end}
        latest == {o \in covering : \A p \in covering : order[p].paidAt <= order[o].paidAt}
    IN  IF covering = {} THEN {"free"} ELSE {order[o].plan : o \in latest}

EffectivePlan(t) ==
    IF plan[t] # "free" THEN plan[t] ELSE IF TrialEndsAt[t] > now THEN "pro" ELSE "free"

\* Mutant: one target too many stays active.
PauseExcessButOne(w) ==
    IF w.active <= TargetLimit["free"] + 1 THEN w
    ELSE [active |-> TargetLimit["free"] + 1, paused |-> w.paused + (w.active - TargetLimit["free"] - 1)]

\* Targets past the limit of Free are paused, never deleted.
PauseExcess(w) ==
    IF w.active <= TargetLimit["free"] THEN w
    ELSE [active |-> TargetLimit["free"], paused |-> w.paused + (w.active - TargetLimit["free"])]

EarlySeatsTaken ==
    Cardinality({o \in Orders : order[o].early /\ order[o].status \in {"paid", "refund_requested"}})

EarlyEligible(t) ==
    \/ \E o \in PaidOrdersOf(t) : order[o].early
    \/ EarlySeatsTaken < EarlySeats

\* Slots left for an order, keeping one for every reward still to be given (a bound).
FreeSlots == {o \in Orders : order[o].status = "none"}
NextIds == {o \in FreeSlots : \A p \in FreeSlots : o <= p}
RoomForOrder ==
    Cardinality({t \in Tenants \ rewarded : Referrer[t] # NoTenant}) < Cardinality(FreeSlots)

InFlight(o) == \E h \in Handlers : inflight[h].op \in {"apply", "reward"} /\ inflight[h].order = o

\* The history of changes the day's job may not have seen.
Touch(S) == touched' = IF stage = "due" THEN {} ELSE touched \cup S

\* The payment transaction has updated tenants: the row stays locked until it ends.
RowLocked(t) ==
    \E h \in Handlers : inflight[h].op = "reward" /\ order[inflight[h].order].tenant = t

-----------------------------------------------------------------------------
(* Checkout and the provider *)

Init ==
    /\ now = 0
    /\ order = [o \in Orders |-> Unused]
    /\ payment = [o \in Orders |-> "open"]
    /\ events = {} /\ rewarded = {} /\ earned = {}
    /\ plan = [t \in Tenants |-> "free"]
    /\ watch = [t \in Tenants |-> [active |-> 0, paused |-> 0]]
    /\ used = [c \in Codes |-> 0]
    /\ inflight = [h \in Handlers |-> Idle]
    /\ stage = "due" /\ left = {} /\ visiting = NoTenant /\ settling = "free"
    /\ seen = [t \in Tenants |-> "free"]
    /\ touched = {} /\ crashes = 0 /\ jobCrashes = 0

\* An order at today's price: the early price for Pro when it is offered, and
\* a promo code only while it has uses left.
Checkout(t, p, m, c) ==
    /\ RoomForOrder
    /\ c # NoCode => used[c] < MaxUses
    /\ \E o \in NextIds :
         order' = [order EXCEPT ![o] =
             [Unused EXCEPT !.tenant = t, !.plan = p, !.months = m, !.code = c,
                            !.early = (p = "pro" /\ EarlyEligible(t)), !.status = "created"]]
    /\ UNCHANGED <<now, payment, events, plan, watch, rewarded, used, earned, inflight, jobVars,
                   touched, crashes>>

\* The provider's side: a payment reaches one final status, once.
ProviderDecides(o) ==
    /\ order[o].status = "created" /\ order[o].provider = "yookassa" /\ payment[o] = "open"
    /\ \E s \in {"succeeded", "short", "canceled"} : payment' = [payment EXCEPT ![o] = s]
    /\ UNCHANGED <<now, order, events, plan, watch, rewarded, used, earned, inflight, jobVars,
                   touched, crashes>>

-----------------------------------------------------------------------------
(* applyPaymentNotification *)

\* A notification that does not buy anything commits in one step: the event is
\* recorded, a canceled payment fails the order, a wrong amount leaves it alone.
RefuseNotification(o) ==
    /\ payment[o] \in {"short", "canceled"}
    /\ o \notin events /\ order[o].status = "created"
    /\ events' = events \cup {o}
    /\ order' = IF payment[o] = "canceled" THEN [order EXCEPT ![o].status = "failed"] ELSE order
    /\ UNCHANGED <<now, payment, plan, watch, rewarded, used, earned, inflight, jobVars,
                   touched, crashes>>

\* Mutant: nothing makes a second delivery wait for the first.
BeginApplyTwice(h, o) ==
    /\ inflight[h].op = "idle"
    /\ payment[o] = "succeeded" /\ order[o].provider = "yookassa"
    /\ order[o].status = "created" /\ o \notin events
    /\ \E day \in {now} \cup EndsAhead(order[o].tenant) :
         /\ PaidUntil(order[o].tenant, day)
         /\ inflight' = [inflight EXCEPT ![h] =
                [Idle EXCEPT !.op = "apply", !.order = o, !.start = day]]
    /\ UNCHANGED <<now, tables, jobVars, touched, crashes>>

\* The transaction opens: the order is read, the event key is new (a second
\* delivery waits on the unique index and then finds it), and the start of the
\* new paid time is read.  A redelivery of a recorded event changes nothing.
BeginApply(h, o) ==
    /\ inflight[h].op = "idle"
    /\ payment[o] = "succeeded" /\ order[o].provider = "yookassa"
    /\ order[o].status = "created" /\ o \notin events /\ ~InFlight(o)
    /\ \E day \in {now} \cup EndsAhead(order[o].tenant) :
         /\ PaidUntil(order[o].tenant, day)
         /\ inflight' = [inflight EXCEPT ![h] =
                [Idle EXCEPT !.op = "apply", !.order = o, !.start = day]]
    /\ UNCHANGED <<now, tables, jobVars, touched, crashes>>

\* grantManualPayment: insert the order, then run the same transaction on it.
GrantManual(h, t, p, m, e) ==
    /\ inflight[h].op = "idle" /\ RoomForOrder
    /\ \E o \in NextIds, day \in {now} \cup EndsAhead(t) :
         /\ PaidUntil(t, day)
         /\ order' = [order EXCEPT ![o] =
                [Unused EXCEPT !.tenant = t, !.plan = p, !.months = m, !.early = e,
                               !.provider = "manual", !.status = "created"]]
         /\ payment' = [payment EXCEPT ![o] = "succeeded"]
         /\ inflight' = [inflight EXCEPT ![h] =
                [Idle EXCEPT !.op = "apply", !.order = o, !.start = day]]
    /\ UNCHANGED <<now, events, plan, watch, rewarded, used, earned, jobVars, touched, crashes>>

ReferralOrdersOf(t) == {o \in OrdersOf(t) : order[o].provider = "referral"}

\* The payer has a referral in status "signed_up".
HasReferral(t) == Referrer[t] # NoTenant /\ t \notin rewarded

\* Mutant: an inviter on Free is given its own plan.
RewardPlanOwn(t) == plan[t]

\* The plan of a free month for an inviter that has no paid time ahead.
RewardPlan(t) == IF plan[t] = "free" THEN "starter" ELSE plan[t]

\* rewardReferrer reads: the inviter's free months so far, its plan and the end
\* of its paid time; an inviter found on Free with no trial ahead is lifted at
\* once.  The payer's tenant row is locked from here on.
ReadReward(h) ==
    LET payer == order[inflight[h].order].tenant
        inviter == Referrer[payer]
    IN
    /\ inflight[h].op = "apply" /\ ~RowLocked(payer)
    /\ IF HasReferral(payer) /\ Cardinality(ReferralOrdersOf(inviter)) < MaxReferralMonths
       THEN \/ \E o \in PaidOrdersOf(inviter) :
                 /\ order[o].end > now /\ PaidUntil(inviter, order[o].end)
                 /\ inflight' = [inflight EXCEPT ![h].op = "reward", ![h].give = TRUE,
                        ![h].giveStart = order[o].end, ![h].plan = order[o].plan, ![h].lift = FALSE]
            \/ /\ EndsAhead(inviter) = {}
               /\ inflight' = [inflight EXCEPT ![h].op = "reward", ![h].give = TRUE,
                      ![h].giveStart = IF TrialEndsAt[inviter] > now THEN TrialEndsAt[inviter] ELSE now,
                      ![h].plan = RewardPlan(inviter),
                      ![h].lift = (plan[inviter] = "free" /\ TrialEndsAt[inviter] <= now)]
       ELSE inflight' = [inflight EXCEPT ![h].op = "reward"]
    /\ UNCHANGED <<now, tables, jobVars, touched, crashes>>

PaidRow(row, start) ==
    [row EXCEPT !.status = "paid", !.paidAt = now, !.start = start,
                !.end = addMonths(start, row.months)]
RewardRow(t, p, start) ==
    [Unused EXCEPT !.tenant = t, !.plan = p, !.months = 1, !.provider = "referral",
                   !.status = "paid", !.paidAt = now, !.start = start, !.end = addMonths(start, 1)]

\* recordPartnerEarning: the payer came through a partner's code and is inside
\* the partner's months, counted from its first paid order that is not a reward.
Earns(o) ==
    LET t == order[o].tenant
        paidBefore == {p \in PaidOrdersOf(t) : order[p].provider # "referral"}
        paidDays == {now} \cup {order[p].paidAt : p \in paidBefore}
    IN  /\ t \in PartnerTenants
        /\ \A day \in paidDays : now < addMonths(day, PartnerMonths)

\* The transaction commits: every write of it becomes visible at once.
CommitApply(h) ==
    LET req == inflight[h]
        o == req.order
        payer == order[o].tenant
        inviter == Referrer[payer]
        paid == [order EXCEPT ![o] = PaidRow(@, req.start)]
        planPaid == [plan EXCEPT ![payer] = order[o].plan]
    IN
    /\ req.op = "reward" /\ (req.lift => ~RowLocked(inviter))
    /\ events' = events \cup {o}
    /\ used' = IF order[o].code = NoCode THEN used ELSE [used EXCEPT ![order[o].code] = @ + 1]
    /\ rewarded' = IF HasReferral(payer) THEN rewarded \cup {payer} ELSE rewarded
    /\ earned' = IF Earns(o) THEN earned \cup {o} ELSE earned
    /\ IF req.give
       THEN /\ \E r \in NextIds : order' = [paid EXCEPT ![r] = RewardRow(inviter, req.plan, req.giveStart)]
            /\ plan' = IF req.lift THEN [planPaid EXCEPT ![inviter] = req.plan] ELSE planPaid
            /\ Touch({payer, inviter})
       ELSE order' = paid /\ plan' = planPaid /\ Touch({payer})
    /\ inflight' = [inflight EXCEPT ![h] = Idle]
    /\ UNCHANGED <<now, payment, watch, jobVars, crashes>>

-----------------------------------------------------------------------------
(* Refunds *)

\* requestRefund reads the latest money payment inside the refund window ...
BeginRefund(h, t) ==
    LET inWindow == {o \in PaidOrdersOf(t) : /\ order[o].provider \in MoneyProviders
                                             /\ order[o].paidAt + RefundDays > now}
    IN
    /\ inflight[h].op = "idle"
    /\ \E o \in inWindow :
         /\ \A p \in inWindow : order[p].paidAt <= order[o].paidAt
         /\ inflight' = [inflight EXCEPT ![h] = [Idle EXCEPT !.op = "refund", !.order = o]]
    /\ UNCHANGED <<now, tables, jobVars, touched, crashes>>

\* ... and then updates it by id, outside any transaction.
WriteRefund(h) ==
    LET o == inflight[h].order
    IN
    /\ inflight[h].op = "refund"
    /\ order' = [order EXCEPT ![o].status = "refund_requested"]
    /\ Touch({order[o].tenant})
    /\ inflight' = [inflight EXCEPT ![h] = Idle]
    /\ UNCHANGED <<now, payment, events, plan, watch, rewarded, used, earned, jobVars, crashes>>

\* confirmRefund: the order ends now and the plan is what other paid time covers.
BeginConfirm(h, o) ==
    /\ inflight[h].op = "idle" /\ order[o].status = "refund_requested"
    /\ \E p \in PlansCovering(order[o].tenant, {o}) :
         inflight' = [inflight EXCEPT ![h] = [Idle EXCEPT !.op = "confirm", !.order = o, !.plan = p]]
    /\ UNCHANGED <<now, tables, jobVars, touched, crashes>>

CommitConfirm(h) ==
    LET o == inflight[h].order
        t == order[o].tenant
    IN
    /\ inflight[h].op = "confirm" /\ ~RowLocked(t)
    /\ order' = [order EXCEPT ![o].status = "refunded", ![o].end = now]
    /\ plan' = [plan EXCEPT ![t] = inflight[h].plan]
    /\ watch' = IF inflight[h].plan = "free" THEN [watch EXCEPT ![t] = PauseExcess(@)] ELSE watch
    /\ Touch({t})
    /\ inflight' = [inflight EXCEPT ![h] = Idle]
    /\ UNCHANGED <<now, payment, events, rewarded, used, earned, jobVars, crashes>>

\* Mutant: the event is recorded outside the transaction and survives it.
CrashKeepsEvent(h) ==
    /\ crashes < MaxCrashes /\ inflight[h].op # "idle"
    /\ inflight' = [inflight EXCEPT ![h] = Idle]
    /\ events' = IF inflight[h].op \in {"apply", "reward"} THEN events \cup {inflight[h].order} ELSE events
    /\ crashes' = crashes + 1
    /\ UNCHANGED <<now, order, payment, plan, watch, rewarded, used, earned, jobVars, touched>>

\* Mutant: the referral is marked outside the payment transaction and survives it.
CrashKeepsReward(h) ==
    /\ crashes < MaxCrashes /\ inflight[h].op # "idle"
    /\ inflight' = [inflight EXCEPT ![h] = Idle]
    /\ rewarded' = rewarded \cup {order[o].tenant : o \in {p \in Orders : /\ inflight[h].op = "reward"
                                                                        /\ inflight[h].order = p}}
    /\ crashes' = crashes + 1
    /\ UNCHANGED <<now, order, payment, events, plan, watch, used, earned, jobVars, touched>>

\* A request dies before its last write: what it did is rolled back.
Crash(h) ==
    /\ crashes < MaxCrashes /\ inflight[h].op # "idle"
    /\ inflight' = [inflight EXCEPT ![h] = Idle]
    /\ crashes' = crashes + 1
    /\ UNCHANGED <<now, tables, jobVars, touched>>

-----------------------------------------------------------------------------
(* The daily job: expirePaidPlans, then closeEndedTrials *)

\* expirePaidPlans lists the tenants that have ever paid, with their plans.
JobList ==
    /\ stage = "due"
    /\ left' = {t \in Tenants : \E o \in OrdersOf(t) : order[o].status \in {"paid", "refunded"}}
    /\ seen' = plan /\ stage' = "expire"
    /\ UNCHANGED <<now, tables, inflight, visiting, settling, touched, crashes, jobCrashes>>

\* Mutant: a tenant without paid time today is skipped too.
JobVisitPaid(t) ==
    /\ stage = "expire" /\ t \in left
    /\ left' = left \ {t}
    /\ \E p \in PlansCovering(t, {}) :
         IF p \in {"free", seen[t]} THEN UNCHANGED <<stage, visiting>>
         ELSE stage' = "settle" /\ visiting' = t
    /\ UNCHANGED <<now, tables, inflight, seen, settling, touched, crashes, jobCrashes>>

\* A tenant whose listed plan is the one its paid time covers is skipped.
JobVisit(t) ==
    /\ stage = "expire" /\ t \in left
    /\ left' = left \ {t}
    /\ \E p \in PlansCovering(t, {}) :
         IF p = seen[t] THEN UNCHANGED <<stage, visiting>>
         ELSE stage' = "settle" /\ visiting' = t
    /\ UNCHANGED <<now, tables, inflight, seen, settling, touched, crashes, jobCrashes>>

\* settleTenantPlan, outside a transaction: the covering plan is read again, ...
JobSettle ==
    /\ stage = "settle"
    /\ settling' \in PlansCovering(visiting, {})
    /\ stage' = "write"
    /\ UNCHANGED <<now, tables, inflight, left, seen, visiting, touched, crashes, jobCrashes>>

\* ... the tenant's plan is written ...
JobWrite ==
    /\ stage = "write" /\ ~RowLocked(visiting)
    /\ plan' = [plan EXCEPT ![visiting] = settling]
    /\ stage' = IF settling = "free" THEN "pause" ELSE "expire"
    /\ UNCHANGED <<now, order, payment, events, watch, rewarded, used, earned, inflight, left, seen,
                   visiting, settling, touched, crashes, jobCrashes>>

\* ... and then, for Free, the excess targets are paused.
JobPause ==
    /\ stage = "pause"
    /\ watch' = [watch EXCEPT ![visiting] = PauseExcess(@)]
    /\ stage' = "expire"
    /\ UNCHANGED <<now, order, payment, events, plan, rewarded, used, earned, inflight, left, seen,
                   visiting, settling, touched, crashes, jobCrashes>>

\* closeEndedTrials lists the tenants on Free whose trial ended since yesterday, ...
JobListTrials ==
    /\ stage = "expire" /\ left = {}
    /\ left' = {t \in Tenants : plan[t] = "free" /\ TrialEndsAt[t] <= now /\ TrialEndsAt[t] + 1 > now}
    /\ stage' = "trials" /\ visiting' = NoTenant /\ settling' = "free"
    /\ seen' = [t \in Tenants |-> "free"]
    /\ UNCHANGED <<now, tables, inflight, touched, crashes, jobCrashes>>

\* ... and pauses the excess targets of each.
JobCloseTrial(t) ==
    /\ stage = "trials" /\ t \in left
    /\ left' = left \ {t}
    /\ watch' = [watch EXCEPT ![t] = PauseExcess(@)]
    /\ UNCHANGED <<now, order, payment, events, plan, rewarded, used, earned, inflight, stage, seen,
                   visiting, settling, touched, crashes, jobCrashes>>

JobFinish ==
    /\ stage = "trials" /\ left = {}
    /\ stage' = "done"
    /\ UNCHANGED <<now, tables, inflight, left, seen, visiting, settling, touched, crashes, jobCrashes>>

\* The worker restarts in the middle of the job; the queue runs it again.
JobCrash ==
    /\ jobCrashes < MaxJobCrashes /\ stage \in {"expire", "settle", "write", "pause", "trials"}
    /\ stage' = "due" /\ left' = {} /\ visiting' = NoTenant /\ settling' = "free"
    /\ seen' = [t \in Tenants |-> "free"]
    /\ jobCrashes' = jobCrashes + 1 /\ touched' = {}
    /\ UNCHANGED <<now, tables, inflight, crashes>>

-----------------------------------------------------------------------------
(* What else touches these rows, and the calendar *)

\* The webhook that stands in for the owner: a plan set by hand.
SetTenantPlan(t, p) ==
    /\ ~RowLocked(t)
    /\ plan' = [plan EXCEPT ![t] = p]
    /\ Touch({t})
    /\ UNCHANGED <<now, order, payment, events, watch, rewarded, used, earned, inflight, jobVars,
                   crashes>>

\* A target is added within the plan; paused ones count against it.
AddTarget(t) ==
    /\ watch[t].active + watch[t].paused < TargetLimit[EffectivePlan(t)]
    /\ watch' = [watch EXCEPT ![t].active = @ + 1]
    /\ UNCHANGED <<now, order, payment, events, plan, rewarded, used, earned, inflight, jobVars,
                   touched, crashes>>

\* A day passes.  Requests are much shorter than a day, and the job of the day has run.
Tick ==
    /\ now < MaxTime /\ stage = "done" /\ \A h \in Handlers : inflight[h].op = "idle"
    /\ now' = now + 1 /\ stage' = "due" /\ touched' = {}
    /\ UNCHANGED <<tables, inflight, left, seen, visiting, settling, crashes, jobCrashes>>

HandlerStep(h) ==
    \/ \E o \in Orders : BeginApply(h, o) \/ BeginConfirm(h, o)
    \/ \E t \in Tenants, p \in GrantPlans, m \in Terms, e \in BOOLEAN : GrantManual(h, t, p, m, e)
    \/ \E t \in Tenants : BeginRefund(h, t)
    \/ ReadReward(h) \/ CommitApply(h) \/ WriteRefund(h) \/ CommitConfirm(h)
    \/ Crash(h)

JobStep ==
    \/ JobList \/ JobSettle \/ JobWrite \/ JobPause \/ JobListTrials \/ JobFinish
    \/ \E t \in Tenants : JobVisit(t) \/ JobCloseTrial(t)

Next ==
    \/ \E t \in Tenants, p \in BuyPlans, m \in Terms, c \in Codes \cup {NoCode} : Checkout(t, p, m, c)
    \/ \E o \in Orders : ProviderDecides(o) \/ RefuseNotification(o)
    \/ \E h \in Handlers : HandlerStep(h)
    \/ JobStep \/ JobCrash
    \/ \E t \in Tenants : AddTarget(t) \/ \E p \in HandPlans : SetTenantPlan(t, p)
    \/ Tick

Spec == Init /\ [][Next]_vars

\* The provider repeats a notification until it is answered, an open
\* transaction ends, and the worker carries the daily job through.
Fairness ==
    /\ \A o \in Orders : WF_vars(\E h \in Handlers : BeginApply(h, o))
    /\ \A h \in Handlers : WF_vars(ReadReward(h) \/ CommitApply(h) \/ WriteRefund(h) \/ CommitConfirm(h))
    /\ WF_vars(JobStep)

FairSpec == Spec /\ Fairness

-----------------------------------------------------------------------------
(* Properties *)

EverPaid == {"paid", "refund_requested", "refunded"}

\* Paying early never loses days: the paid periods of a tenant never overlap,
\* and each paid order covers its whole term, none of it before it was paid.
PaidPeriodsDisjoint ==
    /\ \A o \in Orders : order[o].status = "paid" =>
         /\ order[o].paidAt <= order[o].start
         /\ order[o].end = addMonths(order[o].start, order[o].months)
    /\ \A o, p \in Orders :
         (/\ o # p /\ order[o].status = "paid" /\ order[p].status = "paid"
          /\ order[o].tenant = order[p].tenant)
           => order[o].end <= order[p].start \/ order[p].end <= order[o].start

\* A code's use count is the number of orders ever paid with it, however often
\* a notification is delivered and whichever requests die half way.
PromoUsesCounted ==
    \A c \in Codes :
        used[c] = Cardinality({o \in Orders : order[o].code = c /\ order[o].status \in EverPaid})

\* A friend's referral is rewarded exactly when that friend has paid, and no
\* inviter holds more free months than friends that paid.
RewardedIffPaid ==
    /\ \A t \in Tenants : Referrer[t] # NoTenant =>
         (t \in rewarded <=> \E o \in OrdersOf(t) : /\ order[o].provider \in MoneyProviders
                                                    /\ order[o].status \in EverPaid)
    /\ \A r \in Tenants :
         Cardinality(ReferralOrdersOf(r)) <= Cardinality({t \in rewarded : Referrer[t] = r})

\* Once the job of the day is done, a tenant that has ever paid and that nothing
\* else touched has the plan of the paid time that covers the day.
SettledPlan ==
    \A t \in Tenants :
        (/\ stage = "done" /\ t \notin touched
         /\ \E o \in OrdersOf(t) : order[o].status \in {"paid", "refunded"})
          => plan[t] \in PlansCovering(t, {})

\* No tenant left to Free by the day's job watches more than Free allows.
FreeWithinLimit ==
    \A t \in Tenants :
        (stage = "done" /\ t \notin touched /\ EffectivePlan(t) = "free")
          => watch[t].active <= TargetLimit["free"]

\* Money the provider took through the checkout buys what was ordered, even when
\* the request that reports it dies before it commits.
PaymentApplied ==
    \A o \in Orders :
        (order[o].provider = "yookassa" /\ payment[o] = "succeeded") ~> (order[o].status \in EverPaid)

=============================================================================
