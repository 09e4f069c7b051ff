---------------------------- MODULE BillingProofs ----------------------------
(***************************************************************************)
(* What TLAPS proves of Billing for every number of tenants, orders,       *)
(* requests in progress and crashes, and of Checkout for every plan, term, *)
(* price, code and number of requests under way.                           *)
(***************************************************************************)
EXTENDS Billing, Checkout, FiniteSetTheorems, TLAPS, WellFoundedInduction

-----------------------------------------------------------------------------
(* The rows and requests that stand behind the type invariant *)

\* A row in use names a tenant, and a request works on a row in use; a free
\* month about to be given is for a tenant, of a plan that is sold.
RowsOwned ==
    /\ \A o \in Orders : order[o].status # "none" => order[o].tenant \in Tenants
    /\ \A h \in Handlers :
         inflight[h].op # "idle" => order[inflight[h].order].status # "none"
    /\ \A h \in Handlers :
         inflight[h].give => /\ inflight[h].op = "reward" /\ inflight[h].plan \in PaidPlans
                             /\ Referrer[order[inflight[h].order].tenant] \in Tenants

TypeInv == TypeOK /\ RowsOwned

\* Paid time read by paidUntil is a day.
LEMMA PaidUntilDay ==
    ASSUME TypeOK, NEW t \in Tenants, NEW day, PaidUntil(t, day)
    PROVE  day \in Nat
  BY DEF TypeOK, PaidUntil, EndsAhead, PaidOrdersOf, OrdersOf, OrderRow

\* planCoveringNow answers with a plan.
LEMMA PlansCoveringPlans ==
    ASSUME TypeOK, NEW t, NEW S
    PROVE  PlansCovering(t, S) \subseteq PlanNames
  BY DEF TypeOK, PlansCovering, PaidOrdersOf, OrdersOf, OrderRow, PlanNames

\* Pausing keeps the counts of targets natural numbers.
LEMMA PauseExcessCounts ==
    ASSUME BillingAssumption, NEW w \in [active: Nat, paused: Nat]
    PROVE  PauseExcess(w) \in [active: Nat, paused: Nat]
<1>1. TargetLimit["free"] \in Nat  BY DEF BillingAssumption, PlanNames
<1>2. CASE w.active <= TargetLimit["free"]  BY <1>2 DEF PauseExcess
<1>3. CASE ~(w.active <= TargetLimit["free"])
  <2>1. w.active - TargetLimit["free"] \in Nat  BY <1>1, <1>3
  <2> QED  BY <1>1, <1>3, <2>1 DEF PauseExcess
<1> QED  BY <1>2, <1>3

\* What a payment and a reward write is a row of the table.
LEMMA PaidRowType ==
    ASSUME BillingAssumption, now \in Nat, NEW row \in OrderRow, NEW start \in Nat
    PROVE  /\ PaidRow(row, start) \in OrderRow
           /\ PaidRow(row, start).tenant = row.tenant /\ PaidRow(row, start).code = row.code
           /\ PaidRow(row, start).provider = row.provider /\ PaidRow(row, start).status = "paid"
           /\ PaidRow(row, start).start = start /\ PaidRow(row, start).paidAt = now
           /\ PaidRow(row, start).end = addMonths(start, row.months)
           /\ PaidRow(row, start).months = row.months
<1>1. row.months \in Nat /\ MonthDays \in Nat  BY DEF BillingAssumption, OrderRow
<1>2. addMonths(start, row.months) \in Nat  BY <1>1 DEF addMonths
<1> QED  BY <1>2 DEF PaidRow, OrderRow, Statuses

LEMMA RewardRowType ==
    ASSUME BillingAssumption, now \in Nat, NEW t \in Tenants, NEW p \in PaidPlans, NEW start \in Nat
    PROVE  /\ RewardRow(t, p, start) \in OrderRow
           /\ RewardRow(t, p, start).tenant = t /\ RewardRow(t, p, start).code = NoCode
           /\ RewardRow(t, p, start).provider = "referral" /\ RewardRow(t, p, start).status = "paid"
           /\ RewardRow(t, p, start).start = start /\ RewardRow(t, p, start).paidAt = now
           /\ RewardRow(t, p, start).end = addMonths(start, 1)
           /\ RewardRow(t, p, start).months = 1
<1>1. addMonths(start, 1) \in Nat  BY DEF addMonths, BillingAssumption
<1> QED  BY <1>1 DEF RewardRow, Unused, OrderRow, Statuses, Providers

\* Requests that go on, or end, still work on rows in use when no row is taken back.
LEMMA RequestsKept ==
    ASSUME TypeInv,
           \A o \in Orders : order[o].status # "none" =>
               order'[o].status # "none" /\ order'[o].tenant = order[o].tenant,
           \A o \in Orders : order'[o].status # "none" => order'[o].tenant \in Tenants,
           \A h \in Handlers :
               inflight'[h] = inflight[h] \/ (inflight'[h].op = "idle" /\ inflight'[h].give = FALSE)
    PROVE  /\ \A h \in Handlers : inflight'[h].op # "idle" => inflight'[h].order \in Orders
           /\ RowsOwned'
<1>1. \A h \in Handlers : inflight[h].op # "idle" =>
        inflight[h].order \in Orders /\ order[inflight[h].order].status # "none"
  BY DEF TypeInv, TypeOK, RowsOwned
<1>2. \A h \in Handlers : inflight'[h].op # "idle" => inflight'[h] = inflight[h]
  OBVIOUS
<1>3. \A h \in Handlers : inflight'[h].op # "idle" => /\ inflight'[h].order \in Orders
                                                     /\ order'[inflight'[h].order].status # "none"
  BY <1>1, <1>2
<1>4. ASSUME NEW h \in Handlers, inflight'[h].give
      PROVE  /\ inflight'[h].op = "reward" /\ inflight'[h].plan \in PaidPlans
             /\ Referrer[order'[inflight'[h].order].tenant] \in Tenants
  <2>1. inflight'[h] = inflight[h]  BY <1>4
  <2>2. inflight[h].give  BY <1>4, <2>1
  <2>3. /\ inflight[h].op = "reward" /\ inflight[h].plan \in PaidPlans
        /\ Referrer[order[inflight[h].order].tenant] \in Tenants
    BY <2>2 DEF TypeInv, RowsOwned
  <2>4. order'[inflight[h].order].tenant = order[inflight[h].order].tenant
    BY <1>1, <2>3
  <2> QED  BY <2>1, <2>3, <2>4
<1> QED  BY <1>3, <1>4 DEF RowsOwned

LEMMA TypeInit == BillingAssumption /\ Init => TypeInv
  BY DEF BillingAssumption, Init, TypeInv, TypeOK, RowsOwned, OrderRow, Unused, Request, Idle,
         PaidPlans, PlanNames, Statuses, Providers, MoneyProviders

-----------------------------------------------------------------------------
(* One lemma for each action that writes an order or a request *)

LEMMA CheckoutType ==
    ASSUME BillingAssumption, TypeInv, NEW t \in Tenants, NEW p \in BuyPlans, NEW m \in Terms,
           NEW c \in Codes \cup {NoCode}, Checkout(t, p, m, c)
    PROVE  TypeInv'
<1> USE DEF BillingAssumption, TypeInv, TypeOK
<1>1. PICK o \in NextIds :
        order' = [order EXCEPT ![o] =
             [Unused EXCEPT !.tenant = t, !.plan = p, !.months = m, !.code = c,
                            !.early = (p = "pro" /\ EarlyEligible(t)), !.status = "created"]]
  BY DEF Checkout
<1>2. o \in Orders /\ order[o].status = "none"  BY DEF NextIds, FreeSlots
<1>3. p \in PaidPlans /\ m \in Nat  OBVIOUS
<1>4. (p = "pro" /\ EarlyEligible(t)) \in BOOLEAN  OBVIOUS
<1>5. order' \in [Orders -> OrderRow]
  BY <1>1, <1>2, <1>3, <1>4 DEF OrderRow, Unused, Statuses, Providers, MoneyProviders
<1>6. RowsOwned'
  BY <1>1, <1>2 DEF Checkout, RowsOwned, OrderRow, Unused
<1> QED  BY <1>5, <1>6 DEF Checkout, jobVars

LEMMA BeginApplyType ==
    ASSUME BillingAssumption, TypeInv, NEW h \in Handlers, NEW o \in Orders, BeginApply(h, o)
    PROVE  TypeInv'
<1> USE DEF BillingAssumption, TypeInv, TypeOK
<1>1. PICK day \in {now} \cup EndsAhead(order[o].tenant) :
        inflight' = [inflight EXCEPT ![h] = [Idle EXCEPT !.op = "apply", !.order = o, !.start = day]]
  BY DEF BeginApply
<1>2. day \in Nat
  BY <1>1 DEF EndsAhead, PaidOrdersOf, OrdersOf, OrderRow
<1>3. inflight' \in [Handlers -> Request]
  BY <1>1, <1>2 DEF Request, Idle, PlanNames
<1>4. RowsOwned'
  BY <1>1 DEF BeginApply, tables, RowsOwned, Idle, Request
<1>5. \A g \in Handlers : inflight'[g].op # "idle" => inflight'[g].order \in Orders
  BY <1>1 DEF Idle, Request
<1> QED  BY <1>3, <1>4, <1>5 DEF BeginApply, tables, jobVars

LEMMA GrantManualType ==
    ASSUME BillingAssumption, TypeInv, NEW h \in Handlers, NEW t \in Tenants, NEW p \in GrantPlans,
           NEW m \in Terms, NEW e \in BOOLEAN, GrantManual(h, t, p, m, e)
    PROVE  TypeInv'
<1> USE DEF BillingAssumption, TypeInv, TypeOK
<1>1. PICK o \in NextIds, day \in {now} \cup EndsAhead(t) :
        /\ order' = [order EXCEPT ![o] =
               [Unused EXCEPT !.tenant = t, !.plan = p, !.months = m, !.early = e,
                              !.provider = "manual", !.status = "created"]]
        /\ payment' = [payment EXCEPT ![o] = "succeeded"]
        /\ inflight' = [inflight EXCEPT ![h] =
               [Idle EXCEPT !.op = "apply", !.order = o, !.start = day]]
  BY DEF GrantManual
<1>2. day \in Nat
  BY <1>1 DEF EndsAhead, PaidOrdersOf, OrdersOf, OrderRow
<1>3. o \in Orders /\ order[o].status = "none"  BY DEF NextIds, FreeSlots
<1>4. inflight' \in [Handlers -> Request]
  BY <1>1, <1>2, <1>3 DEF Request, Idle, PlanNames
<1>5. p \in PaidPlans /\ m \in Nat  OBVIOUS
<1>6. order' \in [Orders -> OrderRow]
  BY <1>1, <1>3, <1>5 DEF OrderRow, Unused, Statuses, Providers, MoneyProviders
<1>7. RowsOwned'
  <2>1. order'[o].tenant = t /\ order'[o].status = "created"
    BY <1>1, <1>3 DEF Unused
  <2>2. \A q \in Orders \ {o} : order'[q] = order[q]
    BY <1>1
  <2>3. \A g \in Handlers \ {h} : inflight'[g] = inflight[g]
    BY <1>1
  <2>4. inflight'[h].op = "apply" /\ inflight'[h].order = o /\ inflight'[h].give = FALSE
    BY <1>1 DEF Idle
  <2>5. \A g \in Handlers : inflight[g].op # "idle" => inflight[g].order # o
    BY <1>3 DEF RowsOwned
  <2>6. ASSUME NEW g \in Handlers, inflight'[g].op # "idle"
        PROVE  order'[inflight'[g].order].status # "none"
    <3>1. CASE g = h  BY <2>1, <2>4, <3>1
    <3>2. CASE g # h
      <4>1. inflight'[g] = inflight[g] /\ inflight[g].op # "idle"  BY <2>3, <2>6, <3>2
      <4>2. inflight[g].order \in Orders \ {o} /\ order[inflight[g].order].status # "none"
        BY <2>5, <4>1 DEF RowsOwned
      <4> QED  BY <2>2, <4>1, <4>2
    <3> QED  BY <3>1, <3>2
  <2>7. ASSUME NEW g \in Handlers, inflight'[g].give
        PROVE  /\ inflight'[g].op = "reward" /\ inflight'[g].plan \in PaidPlans
               /\ Referrer[order'[inflight'[g].order].tenant] \in Tenants
    <3>1. g # h /\ inflight'[g] = inflight[g]  BY <2>3, <2>4, <2>7
    <3>2. inflight[g].give  BY <2>7, <3>1
    <3>3. inflight[g].op = "reward" /\ inflight[g].order \in Orders /\ inflight[g].order # o
      BY <2>5, <3>2 DEF RowsOwned
    <3> QED  BY <2>2, <3>1, <3>2, <3>3 DEF RowsOwned
  <2>8. \A q \in Orders : order'[q].status # "none" => order'[q].tenant \in Tenants
    BY <2>1, <2>2 DEF RowsOwned
  <2> QED  BY <2>6, <2>7, <2>8 DEF RowsOwned
<1>8. \A g \in Handlers : inflight'[g].op # "idle" => inflight'[g].order \in Orders
  BY <1>1, <1>3 DEF Idle, Request
<1>9. payment' \in [Orders -> {"open", "succeeded", "short", "canceled"}]
  BY <1>1, <1>3
<1> QED  BY <1>4, <1>6, <1>7, <1>8, <1>9 DEF GrantManual, jobVars

LEMMA ReadRewardType ==
    ASSUME BillingAssumption, TypeInv, NEW h \in Handlers, ReadReward(h)
    PROVE  TypeInv'
<1> USE DEF BillingAssumption, TypeInv, TypeOK
<1> DEFINE payer == order[inflight[h].order].tenant
           inviter == Referrer[payer]
<1>1. inflight[h].op = "apply" /\ UNCHANGED <<now, tables, jobVars, touched, crashes>>
  BY DEF ReadReward
<1>2. inflight[h] \in Request /\ inflight[h].order \in Orders /\ payer \in Tenants
  BY <1>1 DEF RowsOwned
<1>3. CASE HasReferral(payer) /\ Cardinality(ReferralOrdersOf(inviter)) < MaxReferralMonths
  <2>1. inviter \in Tenants  BY <1>2, <1>3 DEF HasReferral
  <2>2. \E p \in PaidPlans, day \in Nat, lift \in BOOLEAN :
          inflight' = [inflight EXCEPT ![h].op = "reward", ![h].give = TRUE, ![h].giveStart = day,
                                       ![h].plan = p, ![h].lift = lift]
    <3>1. CASE \E o \in PaidOrdersOf(inviter) :
                 inflight' = [inflight EXCEPT ![h].op = "reward", ![h].give = TRUE,
                                  ![h].giveStart = order[o].end, ![h].plan = order[o].plan,
                                  ![h].lift = FALSE]
      <4>1. PICK o \in PaidOrdersOf(inviter) :
                 inflight' = [inflight EXCEPT ![h].op = "reward", ![h].give = TRUE,
                                  ![h].giveStart = order[o].end, ![h].plan = order[o].plan,
                                  ![h].lift = FALSE]
        BY <3>1
      <4>2. order[o].end \in Nat /\ order[o].plan \in PaidPlans
        BY <4>1 DEF PaidOrdersOf, OrdersOf, OrderRow
      <4> QED  BY <4>1, <4>2
    <3>2. CASE inflight' = [inflight EXCEPT ![h].op = "reward", ![h].give = TRUE,
                 ![h].giveStart = IF TrialEndsAt[inviter] > now THEN TrialEndsAt[inviter] ELSE now,
                 ![h].plan = RewardPlan(inviter),
                 ![h].lift = (plan[inviter] = "free" /\ TrialEndsAt[inviter] <= now)]
      <4>1. RewardPlan(inviter) \in PaidPlans
        BY <2>1 DEF RewardPlan, PlanNames, PaidPlans
      <4>2. (IF TrialEndsAt[inviter] > now THEN TrialEndsAt[inviter] ELSE now) \in Nat
        BY <2>1
      <4> QED  BY <3>2, <4>1, <4>2
    <3> QED  BY <1>3, <3>1, <3>2 DEF ReadReward
  <2>3. PICK p \in PaidPlans, day \in Nat, lift \in BOOLEAN :
          inflight' = [inflight EXCEPT ![h].op = "reward", ![h].give = TRUE, ![h].giveStart = day,
                                       ![h].plan = p, ![h].lift = lift]
    BY <2>2
  <2>4. inflight' \in [Handlers -> Request]
    BY <1>2, <2>3 DEF Request, PlanNames
  <2>5. RowsOwned'
    BY <1>1, <1>2, <2>1, <2>3 DEF RowsOwned, tables, Request
  <2>6. \A g \in Handlers : inflight'[g].op # "idle" => inflight'[g].order \in Orders
    BY <1>2, <2>3 DEF Request
  <2> QED  BY <1>1, <2>4, <2>5, <2>6 DEF tables, jobVars
<1>4. CASE ~(HasReferral(payer) /\ Cardinality(ReferralOrdersOf(inviter)) < MaxReferralMonths)
  <2>1. inflight' = [inflight EXCEPT ![h].op = "reward"]
    BY <1>4 DEF ReadReward
  <2>2. inflight' \in [Handlers -> Request]
    BY <1>2, <2>1 DEF Request
  <2>3. RowsOwned'
    BY <1>1, <1>2, <2>1 DEF RowsOwned, tables, Request
  <2>4. \A g \in Handlers : inflight'[g].op # "idle" => inflight'[g].order \in Orders
    BY <1>2, <2>1 DEF Request
  <2> QED  BY <1>1, <2>2, <2>3, <2>4 DEF tables, jobVars
<1> QED  BY <1>3, <1>4

LEMMA CommitApplyType ==
    ASSUME BillingAssumption, TypeInv, NEW h \in Handlers, CommitApply(h)
    PROVE  TypeInv'
<1> USE DEF BillingAssumption, TypeInv, TypeOK
<1> DEFINE req == inflight[h]
           o == req.order
           payer == order[o].tenant
           inviter == Referrer[payer]
           paid == [order EXCEPT ![o] = PaidRow(@, req.start)]
           planPaid == [plan EXCEPT ![payer] = order[o].plan]
<1>1. /\ req \in Request /\ req.op = "reward" /\ o \in Orders
      /\ order[o] \in OrderRow /\ order[o].status # "none" /\ payer \in Tenants
  BY DEF CommitApply, RowsOwned, OrderRow
<1>2. /\ PaidRow(order[o], req.start) \in OrderRow
      /\ PaidRow(order[o], req.start).tenant = payer /\ PaidRow(order[o], req.start).status = "paid"
  <2>1. req.start \in Nat /\ now \in Nat  BY <1>1 DEF Request
  <2>2. BillingAssumption  OBVIOUS
  <2>3. order[o] \in OrderRow  BY <1>1
  <2> HIDE DEF BillingAssumption, TypeInv, TypeOK, req, o, payer
  <2>4. /\ PaidRow(order[o], req.start) \in OrderRow
        /\ PaidRow(order[o], req.start).tenant = order[o].tenant
        /\ PaidRow(order[o], req.start).status = "paid"
    BY <2>1, <2>2, <2>3, PaidRowType
  <2> QED  BY <2>4 DEF payer
<1>3. paid \in [Orders -> OrderRow] /\ \A p \in Orders : order[p].status # "none" =>
        paid[p].status # "none" /\ paid[p].tenant = order[p].tenant
  BY <1>1, <1>2
<1>4. planPaid \in [Tenants -> PlanNames]
  BY <1>1 DEF OrderRow, PlanNames
<1>5. inflight' \in [Handlers -> Request] /\ inflight' = [inflight EXCEPT ![h] = Idle]
  BY DEF CommitApply, Request, Idle, PlanNames
<1>6. events' \subseteq Orders /\ earned' \subseteq Orders /\ rewarded' \subseteq Tenants
  BY <1>1 DEF CommitApply
<1>7. used' \in [Codes -> Nat]
  <2>1. CASE order[o].code = NoCode  BY <2>1 DEF CommitApply
  <2>2. CASE order[o].code \in Codes
    <3>1. used' = [used EXCEPT ![order[o].code] = @ + 1]  BY <2>2 DEF CommitApply
    <3> QED  BY <3>1, <2>2
  <2> QED  BY <1>1, <2>1, <2>2 DEF OrderRow
<1>8. touched' \subseteq Tenants
  <2>1. CASE req.give
    <3>1. inviter \in Tenants  BY <2>1 DEF RowsOwned
    <3>2. Touch({payer, inviter})  BY <2>1 DEF CommitApply
    <3> QED  BY <1>1, <3>1, <3>2 DEF Touch
  <2>2. CASE ~req.give
    <3>1. Touch({payer})  BY <2>2 DEF CommitApply
    <3> QED  BY <1>1, <3>1 DEF Touch
  <2> QED  BY <2>1, <2>2
<1>9. /\ order' \in [Orders -> OrderRow] /\ plan' \in [Tenants -> PlanNames]
      /\ \A p \in Orders : order[p].status # "none" =>
           order'[p].status # "none" /\ order'[p].tenant = order[p].tenant
      /\ \A p \in Orders : order'[p].status # "none" => order'[p].tenant \in Tenants
  <2>1. CASE ~req.give
    <3>1. order' = paid /\ plan' = planPaid  BY <2>1 DEF CommitApply
    <3>2. paid[o] = PaidRow(order[o], req.start) /\ \A p \in Orders \ {o} : paid[p] = order[p]
      BY <1>1
    <3> QED  BY <1>1, <1>2, <1>3, <1>4, <3>1, <3>2 DEF RowsOwned
  <2>2. CASE req.give
    <3>1. PICK r \in NextIds : order' = [paid EXCEPT ![r] = RewardRow(inviter, req.plan, req.giveStart)]
      BY <2>2 DEF CommitApply
    <3>2. r \in Orders /\ order[r].status = "none"  BY DEF NextIds, FreeSlots
    <3>3. inviter \in Tenants /\ req.plan \in PaidPlans  BY <2>2 DEF RowsOwned
    <3>4. /\ RewardRow(inviter, req.plan, req.giveStart) \in OrderRow
          /\ RewardRow(inviter, req.plan, req.giveStart).tenant = inviter
          /\ RewardRow(inviter, req.plan, req.giveStart).status = "paid"
      BY <1>1, <3>3, RewardRowType DEF Request
    <3>5. plan' = planPaid \/ plan' = [planPaid EXCEPT ![inviter] = req.plan]
      BY <2>2 DEF CommitApply
    <3>6. plan' \in [Tenants -> PlanNames]
      BY <1>4, <3>3, <3>5 DEF PlanNames
    <3>7. paid[r] = order[r]  BY <1>1, <3>2
    <3>8. \A p \in Orders \ {r} : order'[p] = paid[p]  BY <1>3, <3>1
    <3>9. order'[r].tenant = inviter  BY <1>3, <3>1, <3>2, <3>4
    <3>10. order' \in [Orders -> OrderRow]  BY <1>3, <3>1, <3>4
    <3>11. \A p \in Orders \ {r} : order'[p].status # "none" => order'[p].tenant \in Tenants
      <4>1. \A p \in Orders \ {o} : paid[p] = order[p]  BY <1>1
      <4>2. paid[o].tenant = payer  BY <1>1, <1>2
      <4> QED  BY <1>1, <3>8, <4>1, <4>2 DEF RowsOwned
    <3>12. \A p \in Orders : order[p].status # "none" =>
             order'[p].status # "none" /\ order'[p].tenant = order[p].tenant
      BY <1>3, <3>2, <3>8
    <3> QED  BY <3>3, <3>6, <3>9, <3>10, <3>11, <3>12
  <2> QED  BY <2>1, <2>2
<1>10. \A g \in Handlers :
         inflight'[g] = inflight[g] \/ (inflight'[g].op = "idle" /\ inflight'[g].give = FALSE)
  BY <1>5 DEF Idle
<1>11. /\ \A g \in Handlers : inflight'[g].op # "idle" => inflight'[g].order \in Orders
       /\ RowsOwned'
  BY <1>9, <1>10, RequestsKept
<1> QED  BY <1>5, <1>6, <1>7, <1>8, <1>9, <1>11 DEF CommitApply, jobVars

LEMMA BeginRefundType ==
    ASSUME BillingAssumption, TypeInv, NEW h \in Handlers, NEW t \in Tenants, BeginRefund(h, t)
    PROVE  TypeInv'
<1> USE DEF BillingAssumption, TypeInv, TypeOK
<1>1. PICK o \in PaidOrdersOf(t) :
        inflight' = [inflight EXCEPT ![h] = [Idle EXCEPT !.op = "refund", !.order = o]]
  BY DEF BeginRefund
<1>2. o \in Orders /\ order[o].status # "none"  BY DEF PaidOrdersOf, OrdersOf
<1>3. inflight' \in [Handlers -> Request]
  BY <1>1, <1>2 DEF Request, Idle, PlanNames
<1>4. RowsOwned'
  BY <1>1, <1>2 DEF BeginRefund, tables, RowsOwned, Idle, Request
<1>5. \A g \in Handlers : inflight'[g].op # "idle" => inflight'[g].order \in Orders
  BY <1>1, <1>2 DEF Idle, Request
<1> QED  BY <1>3, <1>4, <1>5 DEF BeginRefund, tables, jobVars

LEMMA WriteRefundType ==
    ASSUME BillingAssumption, TypeInv, NEW h \in Handlers, WriteRefund(h)
    PROVE  TypeInv'
<1> USE DEF TypeInv, TypeOK
<1> DEFINE o == inflight[h].order
<1>1. o \in Orders /\ order[o].status # "none" /\ order[o].tenant \in Tenants /\ order[o] \in OrderRow
  BY DEF WriteRefund, RowsOwned
<1>2. order' = [order EXCEPT ![o].status = "refund_requested"]  BY DEF WriteRefund
<1>3. order' \in [Orders -> OrderRow]
  BY <1>1, <1>2 DEF OrderRow, Statuses
<1>4. inflight' \in [Handlers -> Request] /\ inflight' = [inflight EXCEPT ![h] = Idle]
  BY DEF WriteRefund, Request, Idle, PlanNames
<1>5. \A p \in Orders : order[p].status # "none" =>
        order'[p].status # "none" /\ order'[p].tenant = order[p].tenant
  BY <1>1, <1>2 DEF OrderRow
<1>6. \A p \in Orders : order'[p].status # "none" => order'[p].tenant \in Tenants
  BY <1>1, <1>2 DEF OrderRow, RowsOwned
<1>7. /\ \A g \in Handlers : inflight'[g].op # "idle" => inflight'[g].order \in Orders
      /\ RowsOwned'
  <2>1. \A g \in Handlers :
          inflight'[g] = inflight[g] \/ (inflight'[g].op = "idle" /\ inflight'[g].give = FALSE)
    BY <1>4 DEF Idle
  <2> QED  BY <1>5, <1>6, <2>1, RequestsKept
<1>8. touched' \subseteq Tenants  BY <1>1 DEF WriteRefund, Touch
<1> QED  BY <1>3, <1>4, <1>7, <1>8 DEF WriteRefund, jobVars

LEMMA BeginConfirmType ==
    ASSUME BillingAssumption, TypeInv, NEW h \in Handlers, NEW o \in Orders, BeginConfirm(h, o)
    PROVE  TypeInv'
<1> USE DEF BillingAssumption, TypeInv, TypeOK
<1>1. PICK p \in PlansCovering(order[o].tenant, {o}) :
        inflight' = [inflight EXCEPT ![h] = [Idle EXCEPT !.op = "confirm", !.order = o, !.plan = p]]
  BY DEF BeginConfirm
<1>2. p \in PlanNames  BY PlansCoveringPlans
<1>3. inflight' \in [Handlers -> Request]
  BY <1>1, <1>2 DEF Request, Idle
<1>4. RowsOwned'
  BY <1>1 DEF BeginConfirm, tables, RowsOwned, Idle, Request
<1>5. \A g \in Handlers : inflight'[g].op # "idle" => inflight'[g].order \in Orders
  BY <1>1 DEF Idle, Request
<1> QED  BY <1>3, <1>4, <1>5 DEF BeginConfirm, tables, jobVars

LEMMA CommitConfirmType ==
    ASSUME BillingAssumption, TypeInv, NEW h \in Handlers, CommitConfirm(h)
    PROVE  TypeInv'
<1> USE DEF TypeInv, TypeOK
<1> DEFINE o == inflight[h].order
           t == order[o].tenant
<1>1. /\ o \in Orders /\ order[o].status # "none" /\ t \in Tenants /\ order[o] \in OrderRow
      /\ inflight[h].plan \in PlanNames
  BY DEF CommitConfirm, RowsOwned, Request
<1>2. order' = [order EXCEPT ![o].status = "refunded", ![o].end = now]  BY DEF CommitConfirm
<1>3. order' \in [Orders -> OrderRow]
  BY <1>1, <1>2 DEF OrderRow, Statuses
<1>4. inflight' \in [Handlers -> Request] /\ inflight' = [inflight EXCEPT ![h] = Idle]
  BY DEF CommitConfirm, Request, Idle, PlanNames
<1>5. \A p \in Orders : order[p].status # "none" =>
        order'[p].status # "none" /\ order'[p].tenant = order[p].tenant
  BY <1>1, <1>2 DEF OrderRow
<1>6. \A p \in Orders : order'[p].status # "none" => order'[p].tenant \in Tenants
  BY <1>1, <1>2 DEF OrderRow, RowsOwned
<1>7. /\ \A g \in Handlers : inflight'[g].op # "idle" => inflight'[g].order \in Orders
      /\ RowsOwned'
  <2>1. \A g \in Handlers :
          inflight'[g] = inflight[g] \/ (inflight'[g].op = "idle" /\ inflight'[g].give = FALSE)
    BY <1>4 DEF Idle
  <2> QED  BY <1>5, <1>6, <2>1, RequestsKept
<1>8. touched' \subseteq Tenants  BY <1>1 DEF CommitConfirm, Touch
<1>9. plan' \in [Tenants -> PlanNames]  BY <1>1 DEF CommitConfirm
<1>10. watch' \in [Tenants -> [active: Nat, paused: Nat]]
  BY <1>1, PauseExcessCounts DEF CommitConfirm
<1> QED  BY <1>3, <1>4, <1>7, <1>8, <1>9, <1>10 DEF CommitConfirm, jobVars

\* What the day's job, the owner and the calendar change leaves orders and requests alone.
LEMMA PlansAndTargetsType ==
    ASSUME BillingAssumption, TypeInv,
           \/ JobStep \/ JobCrash \/ Tick
           \/ \E t \in Tenants : AddTarget(t) \/ \E p \in HandPlans : SetTenantPlan(t, p)
    PROVE  TypeInv'
<1> USE DEF TypeInv, TypeOK
<1>1. UNCHANGED <<order, payment, events, rewarded, used, earned, inflight, crashes>>
  BY DEF JobStep, JobList, JobVisit, JobSettle, JobWrite, JobPause, JobListTrials, JobCloseTrial, JobFinish,
         JobCrash, AddTarget, SetTenantPlan, Tick, tables, jobVars
<1>2. RowsOwned'
  BY <1>1 DEF RowsOwned
<1>3. CASE JobList \/ JobFinish
  <2>1. left' \subseteq Tenants  BY <1>3 DEF JobList, JobFinish
  <2>2. UNCHANGED <<now, plan, watch, touched, visiting, settling, jobCrashes>>
    BY <1>3 DEF JobList, JobFinish, tables
  <2>3. seen' \in [Tenants -> PlanNames]  BY <1>3 DEF JobList, JobFinish
  <2>4. stage' \in {"expire", "done"}  BY <1>3 DEF JobList, JobFinish
  <2> QED  BY <1>1, <1>2, <2>1, <2>2, <2>3, <2>4
<1>4. ASSUME NEW t \in Tenants, JobVisit(t)  PROVE TypeInv'
  <2>1. left' \subseteq Tenants /\ UNCHANGED <<now, plan, watch, seen, settling, touched, jobCrashes>>
    BY <1>4 DEF JobVisit, tables
  <2>2. (stage' = "expire" /\ visiting' = visiting) \/ (stage' = "settle" /\ visiting' = t)
    BY <1>4 DEF JobVisit
  <2> QED  BY <1>1, <1>2, <2>1, <2>2
<1>5. CASE JobSettle
  <2>1. settling' \in PlanNames  BY <1>5, PlansCoveringPlans DEF JobSettle
  <2> QED  BY <1>1, <1>2, <1>5, <2>1 DEF JobSettle, tables
<1>6. CASE JobWrite
  <2>1. plan' \in [Tenants -> PlanNames]  BY <1>6 DEF JobWrite
  <2> QED  BY <1>1, <1>2, <1>6, <2>1 DEF JobWrite
<1>7. CASE JobPause
  <2>1. watch' \in [Tenants -> [active: Nat, paused: Nat]]
    BY <1>7, PauseExcessCounts DEF JobPause
  <2> QED  BY <1>1, <1>2, <1>7, <2>1 DEF JobPause
<1>8. CASE JobListTrials
  <2>1. left' \subseteq Tenants /\ seen' \in [Tenants -> PlanNames]
    BY <1>8 DEF JobListTrials, PlanNames
  <2> QED  BY <1>1, <1>2, <1>8, <2>1 DEF JobListTrials, tables, PlanNames
<1>9. ASSUME NEW t \in Tenants, JobCloseTrial(t)  PROVE TypeInv'
  <2>1. watch' \in [Tenants -> [active: Nat, paused: Nat]]
    BY <1>9, PauseExcessCounts DEF JobCloseTrial
  <2> QED  BY <1>1, <1>2, <1>9, <2>1 DEF JobCloseTrial
<1>10. CASE JobCrash
  <2>1. seen' \in [Tenants -> PlanNames] /\ jobCrashes' \in Nat
    BY <1>10 DEF JobCrash, PlanNames
  <2> QED  BY <1>1, <1>2, <1>10, <2>1 DEF JobCrash, tables, PlanNames
<1>11. CASE Tick
  <2>1. now' \in Nat /\ UNCHANGED <<plan, watch, left, seen, visiting, settling, jobCrashes>>
    BY <1>11 DEF Tick, tables
  <2> QED  BY <1>1, <1>2, <1>11, <2>1 DEF Tick
<1>12. ASSUME NEW t \in Tenants, AddTarget(t)  PROVE TypeInv'
  <2>1. watch' \in [Tenants -> [active: Nat, paused: Nat]]
    BY <1>12 DEF AddTarget
  <2> QED  BY <1>1, <1>2, <1>12, <2>1 DEF AddTarget, jobVars
<1>13. ASSUME NEW t \in Tenants, NEW p \in HandPlans, SetTenantPlan(t, p)  PROVE TypeInv'
  <2>1. plan' \in [Tenants -> PlanNames]  BY <1>13 DEF SetTenantPlan, BillingAssumption
  <2>2. touched' \subseteq Tenants  BY <1>13 DEF SetTenantPlan, Touch
  <2> QED  BY <1>1, <1>2, <1>13, <2>1, <2>2 DEF SetTenantPlan, jobVars
<1> QED
  BY <1>3, <1>4, <1>5, <1>6, <1>7, <1>8, <1>9, <1>10, <1>11, <1>12, <1>13 DEF JobStep

\* Every step keeps the types and the ownership of rows.
LEMMA TypeStep == BillingAssumption /\ TypeInv /\ [Next]_vars => TypeInv'
<1> SUFFICES ASSUME BillingAssumption, TypeInv, [Next]_vars  PROVE TypeInv'
  OBVIOUS
<1>1. ASSUME NEW t \in Tenants, NEW p \in BuyPlans, NEW m \in Terms, NEW c \in Codes \cup {NoCode},
             Checkout(t, p, m, c)
      PROVE  TypeInv'
  BY <1>1, CheckoutType
<1>2. ASSUME NEW o \in Orders, ProviderDecides(o)  PROVE TypeInv'
  <2>1. payment' \in [Orders -> {"open", "succeeded", "short", "canceled"}]
    BY <1>2 DEF ProviderDecides, TypeInv, TypeOK
  <2> QED  BY <1>2, <2>1 DEF ProviderDecides, TypeInv, TypeOK, RowsOwned, jobVars
<1>3. ASSUME NEW o \in Orders, RefuseNotification(o)  PROVE TypeInv'
  <2>1. \E s \in {order[o].status, "failed"} : order' = [order EXCEPT ![o].status = s]
    <3>1. CASE payment[o] = "canceled"  BY <1>3, <3>1 DEF RefuseNotification
    <3>2. CASE payment[o] # "canceled"
      <4>1. order' = order  BY <1>3, <3>2 DEF RefuseNotification
      <4>2. order = [order EXCEPT ![o].status = order[o].status]
        BY <1>3 DEF TypeInv, TypeOK, OrderRow
      <4> QED  BY <4>1, <4>2
    <3> QED  BY <3>1, <3>2
  <2>2. order' \in [Orders -> OrderRow]
    <3>1. order \in [Orders -> OrderRow] /\ o \in Orders /\ order[o] \in OrderRow
      BY <1>3 DEF TypeInv, TypeOK
    <3>2. PICK s \in {order[o].status, "failed"} : order' = [order EXCEPT ![o].status = s]
      BY <2>1
    <3>3. s \in Statuses  BY <3>1, <3>2 DEF OrderRow, Statuses
    <3>4. [order[o] EXCEPT !.status = s] \in OrderRow  BY <3>1, <3>3 DEF OrderRow
    <3> QED  BY <3>1, <3>2, <3>4
  <2>3. \A p \in Orders : order[p].status # "none" =>
          order'[p].status # "none" /\ order'[p].tenant = order[p].tenant
    BY <1>3, <2>1 DEF TypeInv, TypeOK, OrderRow
  <2>4. \A p \in Orders : order'[p].status # "none" => order'[p].tenant \in Tenants
    BY <1>3, <2>1 DEF RefuseNotification, TypeInv, TypeOK, RowsOwned, OrderRow
  <2>5. inflight' = inflight  BY <1>3 DEF RefuseNotification
  <2>6. RowsOwned'  BY <2>3, <2>4, <2>5, RequestsKept
  <2> QED  BY <1>3, <2>2, <2>6 DEF RefuseNotification, TypeInv, TypeOK, jobVars
<1>4. ASSUME NEW h \in Handlers, Crash(h)  PROVE TypeInv'
  <2>1. inflight' = [inflight EXCEPT ![h] = Idle] /\ order' = order
    BY <1>4 DEF Crash, tables
  <2>2. inflight' \in [Handlers -> Request]
    BY <2>1 DEF TypeInv, TypeOK, Request, Idle, PlanNames
  <2>3. \A g \in Handlers :
          inflight'[g] = inflight[g] \/ (inflight'[g].op = "idle" /\ inflight'[g].give = FALSE)
    BY <2>1 DEF TypeInv, TypeOK, Idle
  <2>4. /\ \A g \in Handlers : inflight'[g].op # "idle" => inflight'[g].order \in Orders
        /\ RowsOwned'
    <3>1. \A p \in Orders : order'[p].status # "none" => order'[p].tenant \in Tenants
      BY <2>1 DEF TypeInv, RowsOwned
    <3> QED  BY <2>1, <2>3, <3>1, RequestsKept
  <2> QED  BY <1>4, <2>2, <2>4 DEF Crash, tables, jobVars, TypeInv, TypeOK
<1>5. ASSUME NEW h \in Handlers, HandlerStep(h)  PROVE TypeInv'
  BY <1>4, <1>5, BeginApplyType, BeginConfirmType, GrantManualType, BeginRefundType, ReadRewardType,
     CommitApplyType, WriteRefundType, CommitConfirmType DEF HandlerStep
<1>6. CASE UNCHANGED vars
  BY <1>6 DEF vars, tables, jobVars, TypeInv, TypeOK, RowsOwned
<1> QED
  BY <1>1, <1>2, <1>3, <1>5, <1>6, PlansAndTargetsType DEF Next

\* Type correctness: every order, plan, target count, request and job state of a
\* behaviour has its type, and the free month an inviter is given is of a plan
\* that is sold (rewardReferrer), for any number of tenants and requests.
THEOREM TypeCorrect == Spec => []TypeOK
<1>1. Spec => []TypeInv
  BY BillingAssumption, TypeInit, TypeStep, PTL DEF Spec
<1>2. TypeInv => TypeOK
  BY DEF TypeInv
<1> QED  BY <1>1, <1>2, PTL

-----------------------------------------------------------------------------
(* A payment is applied once: the uses of a promo code *)

Applying(h) == inflight[h].op \in {"apply", "reward"}
Refunding(h) == inflight[h].op \in {"refund", "confirm"}

\* An order that is being applied is still unpaid, its money has arrived, and
\* no other request applies it; an order being refunded has been paid.
OneApplies ==
    /\ \A h \in Handlers : Applying(h) =>
         order[inflight[h].order].status = "created" /\ payment[inflight[h].order] = "succeeded"
    /\ \A g, h \in Handlers :
         Applying(g) /\ Applying(h) /\ g # h => inflight[g].order # inflight[h].order
    /\ \A h \in Handlers : Refunding(h) => order[inflight[h].order].status \in EverPaid

PaidWith(c) == {o \in Orders : order[o].code = c /\ order[o].status \in EverPaid}

UseInv == TypeInv /\ OneApplies /\ PromoUsesCounted

\* When no order becomes paid or stops being paid, the count stands.
LEMMA UsesKept ==
    ASSUME PromoUsesCounted, used' = used,
           \A o \in Orders : \/ order'[o].code = order[o].code
                                /\ (order'[o].status \in EverPaid <=> order[o].status \in EverPaid)
                             \/ order'[o].status \notin EverPaid /\ order[o].status \notin EverPaid
    PROVE  PromoUsesCounted'
<1> SUFFICES ASSUME NEW c \in Codes  PROVE used[c] = Cardinality(PaidWith(c)')
  BY DEF PromoUsesCounted, PaidWith
<1>1. PaidWith(c)' = PaidWith(c)  BY DEF PaidWith
<1> QED  BY <1>1 DEF PromoUsesCounted, PaidWith

\* Requests that go on, or end, beside writes that leave their orders alone.
LEMMA OneAppliesKept ==
    ASSUME TypeInv, OneApplies,
           \A h \in Handlers : inflight'[h] = inflight[h] \/ inflight'[h].op = "idle",
           \A h \in Handlers : inflight'[h].op \in {"apply", "reward"} =>
               /\ order'[inflight[h].order].status = order[inflight[h].order].status
               /\ payment'[inflight[h].order] = payment[inflight[h].order],
           \A o \in Orders : order[o].status \in EverPaid => order'[o].status \in EverPaid
    PROVE  OneApplies'
<1>1. \A h \in Handlers : inflight'[h].op # "idle" =>
        inflight'[h] = inflight[h] /\ inflight[h].order \in Orders
  BY DEF TypeInv, TypeOK
<1>2. \A h \in Handlers : Applying(h)' => Applying(h) /\ inflight'[h] = inflight[h]
  BY <1>1 DEF Applying
<1>3. \A h \in Handlers : Refunding(h)' => Refunding(h) /\ inflight'[h] = inflight[h]
  BY <1>1 DEF Refunding
<1>4. \A h \in Handlers : Applying(h)' =>
        order'[inflight'[h].order].status = "created" /\ payment'[inflight'[h].order] = "succeeded"
  BY <1>2 DEF OneApplies, Applying
<1>5. \A g, h \in Handlers :
        Applying(g)' /\ Applying(h)' /\ g # h => inflight'[g].order # inflight'[h].order
  BY <1>2 DEF OneApplies
<1>6. \A h \in Handlers : Refunding(h)' => order'[inflight'[h].order].status \in EverPaid
  BY <1>1, <1>3 DEF OneApplies, Refunding
<1> QED  BY <1>4, <1>5, <1>6 DEF OneApplies

\* A request that starts, or moves on, while the others stand still.
LEMMA OneAppliesBegun ==
    ASSUME TypeInv, OneApplies, NEW h \in Handlers,
           \A g \in Handlers \ {h} : inflight'[g] = inflight[g],
           \A g \in Handlers \ {h} : inflight[g].op # "idle" =>
               order'[inflight[g].order].status = order[inflight[g].order].status
               /\ payment'[inflight[g].order] = payment[inflight[g].order],
           Applying(h)' => /\ order'[inflight'[h].order].status = "created"
                           /\ payment'[inflight'[h].order] = "succeeded"
                           /\ \A g \in Handlers \ {h} : Applying(g) => inflight[g].order # inflight'[h].order,
           Refunding(h)' => order'[inflight'[h].order].status \in EverPaid
    PROVE  OneApplies'
<1>1. \A g \in Handlers \ {h} : (Applying(g)' <=> Applying(g)) /\ (Refunding(g)' <=> Refunding(g))
  BY DEF Applying, Refunding
<1>2. \A g \in Handlers : Applying(g) \/ Refunding(g) => inflight[g].op # "idle"
  BY DEF Applying, Refunding
<1>3. \A g \in Handlers : Applying(g)' =>
        order'[inflight'[g].order].status = "created" /\ payment'[inflight'[g].order] = "succeeded"
  BY <1>1, <1>2 DEF OneApplies
<1>4. \A f, g \in Handlers :
        Applying(f)' /\ Applying(g)' /\ f # g => inflight'[f].order # inflight'[g].order
  BY <1>1 DEF OneApplies
<1>5. \A g \in Handlers : Refunding(g)' => order'[inflight'[g].order].status \in EverPaid
  BY <1>1, <1>2 DEF OneApplies
<1> QED  BY <1>3, <1>4, <1>5 DEF OneApplies

LEMMA BeginUses ==
    ASSUME UseInv, NEW h \in Handlers, NEW o \in Orders, BeginApply(h, o) \/ BeginConfirm(h, o)
    PROVE  OneApplies' /\ PromoUsesCounted'
<1> USE DEF UseInv, TypeInv, TypeOK
<1>1. UNCHANGED <<order, payment, used>>  BY DEF BeginApply, BeginConfirm, tables
<1>2. \A g \in Handlers \ {h} : inflight'[g] = inflight[g]  BY DEF BeginApply, BeginConfirm
<1>3. PromoUsesCounted'  BY <1>1, UsesKept
<1>4. CASE BeginApply(h, o)
  <2>1. /\ inflight'[h].op = "apply" /\ inflight'[h].order = o
        /\ order[o].status = "created" /\ payment[o] = "succeeded"
    BY <1>4 DEF BeginApply, Idle
  <2>2. \A g \in Handlers \ {h} : Applying(g) => inflight[g].order # o
    BY <1>4 DEF BeginApply, InFlight, Applying
  <2>3. OneApplies'  BY <1>1, <1>2, <2>1, <2>2, OneAppliesBegun DEF Applying, Refunding
  <2> QED  BY <1>3, <2>3
<1>5. CASE BeginConfirm(h, o)
  <2>1. /\ inflight'[h].op = "confirm" /\ inflight'[h].order = o
        /\ order[o].status = "refund_requested"
    BY <1>5 DEF BeginConfirm, Idle
  <2>2. order'[o].status \in EverPaid  BY <1>1, <2>1 DEF EverPaid
  <2>3. OneApplies'  BY <1>1, <1>2, <2>1, <2>2, OneAppliesBegun DEF Applying, Refunding
  <2> QED  BY <1>3, <2>3
<1> QED  BY <1>4, <1>5

LEMMA GrantUses ==
    ASSUME UseInv, NEW h \in Handlers, NEW t \in Tenants, NEW p \in GrantPlans, NEW m \in Terms,
           NEW e \in BOOLEAN, GrantManual(h, t, p, m, e)
    PROVE  OneApplies' /\ PromoUsesCounted'
<1> USE DEF UseInv, TypeInv, TypeOK
<1>1. PICK o \in NextIds, day \in {now} \cup EndsAhead(t) :
        /\ order' = [order EXCEPT ![o] =
               [Unused EXCEPT !.tenant = t, !.plan = p, !.months = m, !.early = e,
                              !.provider = "manual", !.status = "created"]]
        /\ payment' = [payment EXCEPT ![o] = "succeeded"]
        /\ inflight' = [inflight EXCEPT ![h] =
               [Idle EXCEPT !.op = "apply", !.order = o, !.start = day]]
  BY DEF GrantManual
<1>2. o \in Orders /\ order[o].status = "none"  BY DEF NextIds, FreeSlots
<1>3. order'[o].status = "created" /\ payment'[o] = "succeeded"
  BY <1>1, <1>2 DEF Unused
<1>4. \A q \in Orders \ {o} : order'[q] = order[q] /\ payment'[q] = payment[q]  BY <1>1
<1>5. PromoUsesCounted'
  <2>1. used' = used  BY DEF GrantManual
  <2>2. order[o].status \notin EverPaid /\ order'[o].status \notin EverPaid
    BY <1>2, <1>3 DEF EverPaid
  <2> QED  BY <1>4, <2>1, <2>2, UsesKept
<1>6. \A g \in Handlers \ {h} : inflight'[g] = inflight[g]  BY <1>1
<1>7. \A g \in Handlers : inflight[g].op # "idle" => inflight[g].order \in Orders \ {o}
  BY <1>2 DEF RowsOwned
<1>8. inflight'[h].op = "apply" /\ inflight'[h].order = o  BY <1>1 DEF Idle
<1>9. \A g \in Handlers \ {h} : Applying(g) => inflight[g].order # o
  BY <1>7 DEF Applying
<1>10. \A g \in Handlers \ {h} : inflight[g].op # "idle" =>
         order'[inflight[g].order].status = order[inflight[g].order].status
         /\ payment'[inflight[g].order] = payment[inflight[g].order]
  BY <1>4, <1>7
<1>11. OneApplies'
  BY <1>3, <1>6, <1>8, <1>9, <1>10, OneAppliesBegun DEF Applying, Refunding
<1> QED  BY <1>5, <1>11

LEMMA ReadUses ==
    ASSUME UseInv, NEW h \in Handlers, ReadReward(h) \/ \E t \in Tenants : BeginRefund(h, t)
    PROVE  OneApplies' /\ PromoUsesCounted'
<1> USE DEF UseInv, TypeInv, TypeOK
<1>1. UNCHANGED <<order, payment, used>>  BY DEF ReadReward, BeginRefund, tables
<1>2. \A g \in Handlers \ {h} : inflight'[g] = inflight[g]  BY DEF ReadReward, BeginRefund
<1>3. PromoUsesCounted'  BY <1>1, UsesKept
<1>4. CASE ReadReward(h)
  <2>1. inflight[h] \in Request /\ inflight[h].op = "apply"  BY <1>4 DEF ReadReward
  <2>2. inflight'[h].op = "reward" /\ inflight'[h].order = inflight[h].order
    <3>1. \/ inflight' = [inflight EXCEPT ![h].op = "reward"]
          \/ \E day, p, lift :
                inflight' = [inflight EXCEPT ![h].op = "reward", ![h].give = TRUE,
                                 ![h].giveStart = day, ![h].plan = p, ![h].lift = lift]
      <4> DEFINE inviter == Referrer[order[inflight[h].order].tenant]
      <4>1. \/ inflight' = [inflight EXCEPT ![h].op = "reward"]
            \/ \E o \in PaidOrdersOf(inviter) :
                 inflight' = [inflight EXCEPT ![h].op = "reward", ![h].give = TRUE,
                                  ![h].giveStart = order[o].end, ![h].plan = order[o].plan,
                                  ![h].lift = FALSE]
            \/ inflight' = [inflight EXCEPT ![h].op = "reward", ![h].give = TRUE,
                 ![h].giveStart = IF TrialEndsAt[inviter] > now THEN TrialEndsAt[inviter] ELSE now,
                 ![h].plan = RewardPlan(inviter),
                 ![h].lift = (plan[inviter] = "free" /\ TrialEndsAt[inviter] <= now)]
        BY <1>4 DEF ReadReward
      <4> QED  BY <4>1, Zenon
    <3>2. CASE inflight' = [inflight EXCEPT ![h].op = "reward"]
      BY <2>1, <3>2 DEF Request
    <3>3. ASSUME NEW day, NEW p, NEW lift,
                 inflight' = [inflight EXCEPT ![h].op = "reward", ![h].give = TRUE,
                                  ![h].giveStart = day, ![h].plan = p, ![h].lift = lift]
          PROVE  inflight'[h].op = "reward" /\ inflight'[h].order = inflight[h].order
      BY <2>1, <3>3 DEF Request
    <3> QED  BY <3>1, <3>2, <3>3
  <2>3. Applying(h)  BY <2>1 DEF Applying
  <2>4. /\ order[inflight[h].order].status = "created" /\ payment[inflight[h].order] = "succeeded"
        /\ \A g \in Handlers \ {h} : Applying(g) => inflight[g].order # inflight[h].order
    BY <2>3 DEF OneApplies
  <2>5. OneApplies'  BY <1>1, <1>2, <2>2, <2>4, OneAppliesBegun DEF Applying, Refunding
  <2> QED  BY <1>3, <2>5
<1>5. ASSUME NEW t \in Tenants, BeginRefund(h, t)  PROVE OneApplies'
  <2>1. PICK o \in PaidOrdersOf(t) :
          inflight' = [inflight EXCEPT ![h] = [Idle EXCEPT !.op = "refund", !.order = o]]
    BY <1>5 DEF BeginRefund
  <2>2. order[o].status = "paid"  BY DEF PaidOrdersOf
  <2>3. inflight'[h].op = "refund" /\ inflight'[h].order = o  BY <2>1 DEF Idle
  <2>4. order'[o].status \in EverPaid  BY <1>1, <2>2 DEF EverPaid
  <2> QED  BY <1>1, <1>2, <2>3, <2>4, OneAppliesBegun DEF Applying, Refunding
<1> QED  BY <1>3, <1>4, <1>5

LEMMA CommitUses ==
    ASSUME BillingAssumption, FiniteTables, UseInv, NEW h \in Handlers, CommitApply(h)
    PROVE  OneApplies' /\ PromoUsesCounted'
<1> USE DEF UseInv, TypeInv, TypeOK
<1> DEFINE req == inflight[h]
           o == req.order
           inviter == Referrer[order[o].tenant]
           paid == [order EXCEPT ![o] = PaidRow(@, req.start)]
<1>1. /\ req \in Request /\ req.op = "reward" /\ o \in Orders /\ order[o] \in OrderRow
      /\ order[o].status = "created" /\ req.start \in Nat /\ req.giveStart \in Nat /\ now \in Nat
  <2>1. req.op = "reward" /\ Applying(h)  BY DEF CommitApply, Applying
  <2> QED  BY <2>1 DEF OneApplies, Request
<1>2. paid[o].status = "paid" /\ paid[o].code = order[o].code /\ \A q \in Orders \ {o} : paid[q] = order[q]
  BY <1>1 DEF PaidRow, OrderRow
\* The reward takes a row that no request works on.
<1>3. \E r \in Orders : /\ \A q \in Orders \ {r} : order'[q] = paid[q]
                        /\ \/ order' = paid
                           \/ /\ order[r].status = "none" /\ order'[r].status = "paid"
                              /\ order'[r].code = NoCode
  <2>1. CASE ~req.give  BY <1>1, <2>1 DEF CommitApply
  <2>2. CASE req.give
    <3>1. PICK r \in NextIds : order' = [paid EXCEPT ![r] = RewardRow(inviter, req.plan, req.giveStart)]
      BY <2>2 DEF CommitApply
    <3>2. r \in Orders /\ order[r].status = "none"  BY DEF NextIds, FreeSlots
    <3>3. order'[r] = RewardRow(inviter, req.plan, req.giveStart)  BY <3>1, <3>2
    <3>4. order'[r].status = "paid" /\ order'[r].code = NoCode  BY <3>3 DEF RewardRow, Unused
    <3>5. \A q \in Orders \ {r} : order'[q] = paid[q]  BY <3>1
    <3> QED  BY <3>2, <3>4, <3>5
  <2> QED  BY <2>1, <2>2
<1>4. PICK r \in Orders : /\ \A q \in Orders \ {r} : order'[q] = paid[q]
                         /\ \/ order' = paid
                            \/ /\ order[r].status = "none" /\ order'[r].status = "paid"
                               /\ order'[r].code = NoCode
  BY <1>3
<1>5. /\ order'[o].status = "paid" /\ order'[o].code = order[o].code
      /\ \A q \in Orders \ {o} : order'[q] = order[q]
           \/ (order[q].status = "none" /\ order'[q].code = NoCode)
  BY <1>1, <1>2, <1>4
<1>6. OneApplies'
  <2>1. \A g \in Handlers : inflight'[g] = inflight[g] \/ inflight'[g].op = "idle"
    BY DEF CommitApply, Idle
  <2>2. inflight'[h].op = "idle" /\ payment' = payment  BY DEF CommitApply, Idle
  <2>3. ASSUME NEW g \in Handlers, inflight'[g].op \in {"apply", "reward"}
        PROVE  order'[inflight[g].order].status = order[inflight[g].order].status
    <3>1. g # h /\ inflight'[g] = inflight[g] /\ Applying(g) /\ Applying(h)
      BY <1>1, <2>1, <2>2, <2>3 DEF Applying
    <3>2. inflight[g].order \in Orders \ {o} /\ order[inflight[g].order].status = "created"
      BY <3>1 DEF OneApplies, Applying
    <3> QED  BY <1>5, <3>2
  <2>4. \A q \in Orders : order[q].status \in EverPaid => order'[q].status \in EverPaid
    BY <1>5 DEF EverPaid
  <2> QED  BY <2>1, <2>2, <2>3, <2>4, OneAppliesKept
<1>7. ASSUME NEW c \in Codes  PROVE used'[c] = Cardinality(PaidWith(c)')
  <2>1. IsFiniteSet(PaidWith(c))  BY FS_Subset DEF FiniteTables, PaidWith
  <2>2. used[c] = Cardinality(PaidWith(c))  BY DEF PromoUsesCounted, PaidWith
  <2>3. c # NoCode  BY DEF BillingAssumption
  <2>4. \A q \in Orders \ {o} : q \in PaidWith(c)' <=> q \in PaidWith(c)
    BY <1>5, <2>3 DEF PaidWith, EverPaid
  <2>5. o \notin PaidWith(c)  BY <1>1 DEF PaidWith, EverPaid
  <2>6. CASE order[o].code = c
    <3>1. PaidWith(c)' = PaidWith(c) \cup {o}
      <4>1. o \in PaidWith(c)'  BY <1>1, <1>5, <2>6 DEF PaidWith, EverPaid
      <4> QED  BY <2>4, <4>1 DEF PaidWith
    <3>2. Cardinality(PaidWith(c)') = Cardinality(PaidWith(c)) + 1
      <4> HIDE DEF o, UseInv, TypeInv, TypeOK
      <4>1. Cardinality(PaidWith(c) \cup {o}) = Cardinality(PaidWith(c)) + 1
        BY <2>1, <2>5, FS_AddElement
      <4> QED  BY <3>1, <4>1
    <3>3. used'[c] = used[c] + 1  BY <2>3, <2>6 DEF CommitApply
    <3> QED  BY <2>2, <3>2, <3>3
  <2>7. CASE order[o].code # c
    <3>1. PaidWith(c)' = PaidWith(c)
      <4>1. o \notin PaidWith(c)'  BY <1>5, <2>7 DEF PaidWith
      <4> QED  BY <2>4, <2>5, <4>1 DEF PaidWith
    <3>2. used'[c] = used[c]  BY <2>7 DEF CommitApply
    <3> QED  BY <2>2, <3>1, <3>2
  <2> QED  BY <2>6, <2>7
<1> QED  BY <1>6, <1>7 DEF PromoUsesCounted, PaidWith

LEMMA WriteUses ==
    ASSUME UseInv, NEW h \in Handlers, WriteRefund(h) \/ CommitConfirm(h)
    PROVE  OneApplies' /\ PromoUsesCounted'
<1> USE DEF UseInv, TypeInv, TypeOK
<1> DEFINE o == inflight[h].order
<1>1. o \in Orders /\ order[o].status \in EverPaid /\ inflight[h].op \in {"refund", "confirm"}
  BY DEF WriteRefund, CommitConfirm, OneApplies, Refunding
<1>2. /\ order'[o].status \in EverPaid /\ order'[o].code = order[o].code
      /\ \A q \in Orders \ {o} : order'[q] = order[q]
  BY <1>1 DEF WriteRefund, CommitConfirm, OrderRow, EverPaid
<1>3. /\ used' = used /\ payment' = payment
      /\ \A g \in Handlers : inflight'[g] = inflight[g] \/ inflight'[g].op = "idle"
      /\ inflight'[h].op = "idle"
  BY DEF WriteRefund, CommitConfirm, Idle
<1>4. PromoUsesCounted'
  BY <1>1, <1>2, <1>3, UsesKept
<1>5. ASSUME NEW g \in Handlers, inflight'[g].op \in {"apply", "reward"}
      PROVE  order'[inflight[g].order].status = order[inflight[g].order].status
  <2>1. g # h /\ Applying(g)  BY <1>3, <1>5 DEF Applying
  <2>2. inflight[g].order \in Orders /\ order[inflight[g].order].status = "created"
    BY <2>1 DEF OneApplies, Applying
  <2> QED  BY <1>1, <1>2, <2>2 DEF EverPaid
<1>6. \A q \in Orders : order[q].status \in EverPaid => order'[q].status \in EverPaid
  BY <1>2
<1>7. OneApplies'
  BY <1>3, <1>5, <1>6, OneAppliesKept
<1> QED  BY <1>4, <1>7

\* Steps of the shop, of the provider and of everything but requests.
LEMMA OtherUses ==
    ASSUME UseInv,
           \/ \E t \in Tenants, p \in BuyPlans, m \in Terms, c \in Codes \cup {NoCode} : Checkout(t, p, m, c)
           \/ \E o \in Orders : ProviderDecides(o) \/ RefuseNotification(o)
           \/ \E h \in Handlers : Crash(h)
           \/ JobStep \/ JobCrash \/ Tick
           \/ \E t \in Tenants : AddTarget(t) \/ \E p \in HandPlans : SetTenantPlan(t, p)
           \/ UNCHANGED vars
    PROVE  OneApplies' /\ PromoUsesCounted'
<1> USE DEF UseInv, TypeInv, TypeOK
<1>1. CASE UNCHANGED <<order, payment, used>> /\
           \A h \in Handlers : inflight'[h] = inflight[h] \/ inflight'[h].op = "idle"
  <2>1. PromoUsesCounted'  BY <1>1, UsesKept
  <2>2. OneApplies'  BY <1>1, OneAppliesKept
  <2> QED  BY <2>1, <2>2
<1>2. ASSUME NEW t \in Tenants, NEW p \in BuyPlans, NEW m \in Terms, NEW c \in Codes \cup {NoCode},
             Checkout(t, p, m, c)
      PROVE  OneApplies' /\ PromoUsesCounted'
  <2>1. PICK o \in NextIds : order' = [order EXCEPT ![o] =
             [Unused EXCEPT !.tenant = t, !.plan = p, !.months = m, !.code = c,
                            !.early = (p = "pro" /\ EarlyEligible(t)), !.status = "created"]]
    BY <1>2 DEF Checkout
  <2>2. o \in Orders /\ order[o].status = "none"  BY DEF NextIds, FreeSlots
  <2>3. order'[o].status = "created" /\ \A q \in Orders \ {o} : order'[q] = order[q]
    BY <2>1, <2>2 DEF Unused
  <2>4. UNCHANGED <<payment, used, inflight>>  BY <1>2 DEF Checkout
  <2>5. PromoUsesCounted'
    <3>1. order[o].status \notin EverPaid /\ order'[o].status \notin EverPaid
      BY <2>2, <2>3 DEF EverPaid
    <3> QED  BY <2>3, <2>4, <3>1, UsesKept
  <2>6. \A h \in Handlers : inflight'[h].op \in {"apply", "reward"} =>
          order'[inflight[h].order].status = order[inflight[h].order].status
    BY <2>2, <2>3, <2>4 DEF RowsOwned
  <2>7. \A q \in Orders : order[q].status \in EverPaid => order'[q].status \in EverPaid
    BY <2>2, <2>3 DEF EverPaid
  <2>8. OneApplies'  BY <2>4, <2>6, <2>7, OneAppliesKept
  <2> QED  BY <2>5, <2>8
<1>3. ASSUME NEW o \in Orders, ProviderDecides(o)  PROVE OneApplies' /\ PromoUsesCounted'
  <2>1. /\ UNCHANGED <<order, used, inflight>> /\ payment[o] = "open"
        /\ \A q \in Orders \ {o} : payment'[q] = payment[q]
    BY <1>3 DEF ProviderDecides
  <2>2. PromoUsesCounted'  BY <2>1, UsesKept
  <2>3. \A h \in Handlers : inflight'[h].op \in {"apply", "reward"} =>
          payment'[inflight[h].order] = payment[inflight[h].order]
    BY <2>1 DEF OneApplies, Applying
  <2>4. OneApplies'  BY <2>1, <2>3, OneAppliesKept
  <2> QED  BY <2>2, <2>4
<1>4. ASSUME NEW o \in Orders, RefuseNotification(o)  PROVE OneApplies' /\ PromoUsesCounted'
  <2>1. /\ UNCHANGED <<payment, used, inflight>> /\ payment[o] # "succeeded" /\ order[o].status = "created"
        /\ \A q \in Orders \ {o} : order'[q] = order[q]
    BY <1>4 DEF RefuseNotification
  <2>2. order'[o].status \in {"created", "failed"}
    BY <1>4 DEF RefuseNotification, OrderRow
  <2>3. PromoUsesCounted'
    <3>1. order[o].status \notin EverPaid /\ order'[o].status \notin EverPaid
      BY <2>1, <2>2 DEF EverPaid
    <3> QED  BY <2>1, <3>1, UsesKept
  <2>4. \A h \in Handlers : inflight'[h].op \in {"apply", "reward"} =>
          order'[inflight[h].order].status = order[inflight[h].order].status
    BY <2>1 DEF OneApplies, Applying
  <2>5. \A q \in Orders : order[q].status \in EverPaid => order'[q].status \in EverPaid
    BY <2>1 DEF EverPaid
  <2>6. OneApplies'  BY <2>1, <2>4, <2>5, OneAppliesKept
  <2> QED  BY <2>3, <2>6
<1>5. ASSUME NEW h \in Handlers, Crash(h)  PROVE OneApplies' /\ PromoUsesCounted'
  BY <1>1, <1>5 DEF Crash, tables, Idle
<1>6. CASE \/ JobStep \/ JobCrash \/ Tick \/ UNCHANGED vars
           \/ \E t \in Tenants : AddTarget(t) \/ \E p \in HandPlans : SetTenantPlan(t, p)
  <2>1. UNCHANGED <<order, payment, used, inflight>>
    BY <1>6 DEF JobStep, JobList, JobVisit, JobSettle, JobWrite, JobPause, JobListTrials, JobCloseTrial,
                JobFinish, JobCrash, AddTarget, SetTenantPlan, Tick, vars, tables, jobVars
  <2> QED  BY <1>1, <2>1
<1> QED  BY <1>2, <1>3, <1>4, <1>5, <1>6

LEMMA UseInit == BillingAssumption /\ FiniteTables /\ Init => UseInv
<1> SUFFICES ASSUME BillingAssumption, FiniteTables, Init  PROVE UseInv
  OBVIOUS
<1>1. TypeInv  BY TypeInit
<1>2. OneApplies  BY DEF Init, OneApplies, Applying, Refunding, Idle
<1>3. ASSUME NEW c \in Codes  PROVE used[c] = Cardinality(PaidWith(c))
  <2>1. PaidWith(c) = {}  BY DEF PaidWith, Init, Unused, EverPaid
  <2> QED  BY <2>1, FS_EmptySet DEF Init
<1> QED  BY <1>1, <1>2, <1>3 DEF UseInv, PromoUsesCounted, PaidWith

LEMMA UseStep == BillingAssumption /\ FiniteTables /\ UseInv /\ [Next]_vars => UseInv'
<1> SUFFICES ASSUME BillingAssumption, FiniteTables, UseInv, [Next]_vars  PROVE UseInv'
  OBVIOUS
<1>1. TypeInv'  BY TypeStep DEF UseInv
<1>2. ASSUME NEW h \in Handlers, HandlerStep(h)  PROVE OneApplies' /\ PromoUsesCounted'
  BY <1>2, BeginUses, GrantUses, ReadUses, CommitUses, WriteUses, OtherUses DEF HandlerStep
<1>3. OneApplies' /\ PromoUsesCounted'
  BY <1>2, OtherUses DEF Next
<1> QED  BY <1>1, <1>3 DEF UseInv

\* applyPaymentNotification applies each payment once: however many tenants pay,
\* notifications are delivered, requests overlap and die, the use count of a
\* promo code is the number of orders ever paid with it.
THEOREM UsesCounted == Spec => []PromoUsesCounted
<1>1. Spec => []UseInv
  BY BillingAssumption, FiniteTables, UseInit, UseStep, PTL DEF Spec
<1>2. UseInv => PromoUsesCounted
  BY DEF UseInv
<1> QED  BY <1>1, <1>2, PTL

-----------------------------------------------------------------------------
(* Paying early never loses days, when requests come one at a time *)

OneRequest == \A g, h \in Handlers : g = h

FreshStart(t, day) == now <= day /\ \A o \in PaidOrdersOf(t) : order[o].end <= day
Payer(h) == order[inflight[h].order].tenant

\* The start a payment, or a reward, in progress has read is past every paid
\* period of the tenant it is for.
Fresh ==
    \A h \in Handlers : Applying(h) =>
        /\ FreshStart(Payer(h), inflight[h].start)
        /\ inflight[h].give => FreshStart(Referrer[Payer(h)], inflight[h].giveStart)

PeriodInv == TypeInv /\ Fresh /\ PaidPeriodsDisjoint

\* New paid time starts at or past the end of every paid period.
LEMMA PaidUntilPast ==
    ASSUME TypeOK, NEW t, NEW day, PaidUntil(t, day)
    PROVE  /\ day \in Nat /\ now <= day
           /\ \A o \in PaidOrdersOf(t) : order[o].end <= day
<1>1. now \in Nat /\ \A o \in PaidOrdersOf(t) : order[o].end \in Nat
  BY DEF TypeOK, PaidOrdersOf, OrdersOf, OrderRow
<1>2. \A o \in PaidOrdersOf(t) : order[o].end > now => order[o].end \in EndsAhead(t)
  BY DEF EndsAhead
<1>3. CASE EndsAhead(t) = {} /\ day = now
  BY <1>1, <1>2, <1>3
<1>4. CASE day \in EndsAhead(t) /\ \A e \in EndsAhead(t) : e <= day
  <2>1. day \in Nat /\ day > now  BY <1>1, <1>4 DEF EndsAhead
  <2> QED  BY <1>1, <1>2, <1>4, <2>1
<1> QED  BY <1>3, <1>4 DEF PaidUntil

\* A step that makes no order paid and moves no paid period.
LEMMA PeriodsKept ==
    ASSUME PaidPeriodsDisjoint,
           \A o \in Orders : order'[o].status = "paid" =>
               /\ order[o].status = "paid" /\ order'[o].tenant = order[o].tenant
               /\ order'[o].paidAt = order[o].paidAt /\ order'[o].start = order[o].start
               /\ order'[o].end = order[o].end /\ order'[o].months = order[o].months
    PROVE  PaidPeriodsDisjoint'
  BY DEF PaidPeriodsDisjoint, addMonths

\* The requests in progress stay fresh beside such a step.
LEMMA FreshKept ==
    ASSUME TypeInv, Fresh, now' = now,
           \A o \in Orders : order'[o].status = "paid" =>
               /\ order[o].status = "paid" /\ order'[o].tenant = order[o].tenant
               /\ order'[o].end = order[o].end,
           \A o \in Orders : order[o].status # "none" => order'[o].tenant = order[o].tenant,
           \A h \in Handlers : inflight'[h] = inflight[h] \/ inflight'[h].op \notin {"apply", "reward"}
    PROVE  Fresh'
<1>1. \A t, day : FreshStart(t, day) => FreshStart(t, day)'
  BY DEF FreshStart, PaidOrdersOf, OrdersOf
<1>2. ASSUME NEW h \in Handlers, Applying(h)'
      PROVE  /\ FreshStart(Payer(h), inflight[h].start)'
             /\ inflight'[h].give => FreshStart(Referrer[Payer(h)], inflight[h].giveStart)'
  <2>1. Applying(h) /\ inflight'[h] = inflight[h]  BY <1>2 DEF Applying
  <2>2. inflight[h].order \in Orders /\ order[inflight[h].order].status # "none"
    BY <2>1 DEF Applying, TypeInv, TypeOK, RowsOwned
  <2>3. Payer(h)' = Payer(h)  BY <2>1, <2>2 DEF Payer
  <2>4. FreshStart(Payer(h), inflight[h].start)  BY <2>1 DEF Fresh
  <2>5. inflight[h].give => FreshStart(Referrer[Payer(h)], inflight[h].giveStart)  BY <2>1 DEF Fresh
  <2>6. FreshStart(Payer(h), inflight[h].start)'  BY <1>1, <2>1, <2>3, <2>4 DEF FreshStart
  <2>7. inflight'[h].give => FreshStart(Referrer[Payer(h)], inflight[h].giveStart)'
    BY <1>1, <2>1, <2>3, <2>5 DEF FreshStart
  <2> QED  BY <2>6, <2>7
<1> QED  BY <1>2 DEF Fresh

LEMMA BeginPeriods ==
    ASSUME BillingAssumption, OneRequest, PeriodInv, NEW h \in Handlers,
           \/ \E o \in Orders : BeginApply(h, o) \/ BeginConfirm(h, o)
           \/ \E t \in Tenants : BeginRefund(h, t)
    PROVE  Fresh' /\ PaidPeriodsDisjoint'
<1> USE DEF PeriodInv, TypeInv, TypeOK
<1>1. UNCHANGED <<now, order>>  BY DEF BeginApply, BeginConfirm, BeginRefund, tables
<1>2. PaidPeriodsDisjoint'  BY <1>1, PeriodsKept
<1>3. \A t : PaidOrdersOf(t)' = PaidOrdersOf(t)  BY <1>1 DEF PaidOrdersOf, OrdersOf
<1>4. ASSUME NEW o \in Orders, BeginApply(h, o)  PROVE Fresh'
  <2>1. PICK day : /\ PaidUntil(order[o].tenant, day)
                   /\ inflight' = [inflight EXCEPT ![h] =
                          [Idle EXCEPT !.op = "apply", !.order = o, !.start = day]]
    BY <1>4 DEF BeginApply
  <2>2. FreshStart(order[o].tenant, day)
    BY <2>1, PaidUntilPast DEF FreshStart
  <2>3. inflight'[h].order = o /\ inflight'[h].start = day /\ inflight'[h].give = FALSE
    BY <2>1 DEF Idle
  <2>4. FreshStart(Payer(h), inflight[h].start)'
    BY <1>1, <1>3, <2>2, <2>3 DEF FreshStart, Payer
  <2>5. \A g \in Handlers : g = h  BY DEF OneRequest
  <2> QED  BY <2>3, <2>4, <2>5 DEF Fresh
<1>5. ASSUME inflight'[h].op \in {"refund", "confirm"}  PROVE Fresh'
  BY <1>5 DEF OneRequest, Fresh, Applying
<1>6. ASSUME NEW o \in Orders, BeginConfirm(h, o)  PROVE Fresh'
  <2>1. PICK p : inflight' = [inflight EXCEPT ![h] =
                    [Idle EXCEPT !.op = "confirm", !.order = o, !.plan = p]]
    BY <1>6 DEF BeginConfirm
  <2>2. inflight'[h].op = "confirm"  BY <2>1 DEF Idle
  <2> QED  BY <1>5, <2>2
<1>7. ASSUME NEW t \in Tenants, BeginRefund(h, t)  PROVE Fresh'
  <2>1. PICK o : inflight' = [inflight EXCEPT ![h] = [Idle EXCEPT !.op = "refund", !.order = o]]
    BY <1>7 DEF BeginRefund
  <2>2. inflight'[h].op = "refund"  BY <2>1 DEF Idle
  <2> QED  BY <1>5, <2>2
<1> QED  BY <1>2, <1>4, <1>6, <1>7

LEMMA GrantPeriods ==
    ASSUME BillingAssumption, OneRequest, PeriodInv, NEW h \in Handlers, NEW t \in Tenants,
           NEW p \in GrantPlans, NEW m \in Terms, NEW e \in BOOLEAN, GrantManual(h, t, p, m, e)
    PROVE  Fresh' /\ PaidPeriodsDisjoint'
<1> USE DEF PeriodInv, TypeInv, TypeOK
<1>1. PICK o \in NextIds, day \in {now} \cup EndsAhead(t) :
        /\ PaidUntil(t, day)
        /\ order' = [order EXCEPT ![o] =
               [Unused EXCEPT !.tenant = t, !.plan = p, !.months = m, !.early = e,
                              !.provider = "manual", !.status = "created"]]
        /\ inflight' = [inflight EXCEPT ![h] =
               [Idle EXCEPT !.op = "apply", !.order = o, !.start = day]]
  BY DEF GrantManual
<1>2. o \in Orders /\ order[o].status = "none"  BY DEF NextIds, FreeSlots
<1>3. order'[o].status = "created" /\ order'[o].tenant = t /\ \A q \in Orders \ {o} : order'[q] = order[q]
  BY <1>1, <1>2 DEF Unused
<1>4. PaidPeriodsDisjoint'  BY <1>3, PeriodsKept
<1>5. \A q \in PaidOrdersOf(t)' : q \in PaidOrdersOf(t) /\ order'[q] = order[q]
  <2>1. o \notin PaidOrdersOf(t)'  BY <1>3 DEF PaidOrdersOf
  <2> QED  BY <1>3, <2>1 DEF PaidOrdersOf, OrdersOf
<1>6. FreshStart(t, day)
  BY <1>1, PaidUntilPast DEF FreshStart
<1>7. inflight'[h].order = o /\ inflight'[h].start = day /\ inflight'[h].give = FALSE
  BY <1>1 DEF Idle
<1>8. now' = now  BY DEF GrantManual
<1>9. \A g \in Handlers : g = h  BY DEF OneRequest
<1>10. FreshStart(Payer(h), inflight[h].start)'
  BY <1>3, <1>5, <1>6, <1>7, <1>8 DEF FreshStart, Payer
<1>11. Fresh'
  BY <1>7, <1>9, <1>10 DEF Fresh
<1> QED  BY <1>4, <1>11

LEMMA ReadPeriods ==
    ASSUME BillingAssumption, OneRequest, PeriodInv, NEW h \in Handlers, ReadReward(h)
    PROVE  Fresh' /\ PaidPeriodsDisjoint'
<1> USE DEF PeriodInv, TypeInv, TypeOK
<1> DEFINE payer == order[inflight[h].order].tenant
           inviter == Referrer[payer]
<1>1. UNCHANGED <<now, order>>  BY DEF ReadReward, tables
<1>2. PaidPeriodsDisjoint'  BY <1>1, PeriodsKept
<1>3. \A t : PaidOrdersOf(t)' = PaidOrdersOf(t)  BY <1>1 DEF PaidOrdersOf, OrdersOf
<1>4. inflight[h] \in Request /\ inflight[h].op = "apply" /\ Applying(h) /\ inflight[h].give = FALSE
  BY DEF ReadReward, Applying, RowsOwned, Request
<1>5. FreshStart(payer, inflight[h].start)
  BY <1>4 DEF Fresh, Payer
<1>6. \/ inflight' = [inflight EXCEPT ![h].op = "reward"]
      \/ \E day, p, lift :
            /\ FreshStart(inviter, day)
            /\ inflight' = [inflight EXCEPT ![h].op = "reward", ![h].give = TRUE,
                                ![h].giveStart = day, ![h].plan = p, ![h].lift = lift]
  <2>1. CASE ~(HasReferral(payer) /\ Cardinality(ReferralOrdersOf(inviter)) < MaxReferralMonths)
    BY <2>1 DEF ReadReward
  <2>2. ASSUME NEW o \in PaidOrdersOf(inviter), PaidUntil(inviter, order[o].end),
               inflight' = [inflight EXCEPT ![h].op = "reward", ![h].give = TRUE,
                                ![h].giveStart = order[o].end, ![h].plan = order[o].plan,
                                  ![h].lift = FALSE]
        PROVE  <1>6!2
    <3>1. FreshStart(inviter, order[o].end)  BY <2>2, PaidUntilPast DEF FreshStart
    <3> QED  BY <2>2, <3>1
  <2>3. ASSUME HasReferral(payer), EndsAhead(inviter) = {},
               inflight' = [inflight EXCEPT ![h].op = "reward", ![h].give = TRUE,
                   ![h].giveStart = IF TrialEndsAt[inviter] > now THEN TrialEndsAt[inviter] ELSE now,
                   ![h].plan = RewardPlan(inviter),
                 ![h].lift = (plan[inviter] = "free" /\ TrialEndsAt[inviter] <= now)]
        PROVE  <1>6!2
    <3>1. PaidUntil(inviter, now)  BY <2>3 DEF PaidUntil
    <3>2. now \in Nat /\ \A q \in PaidOrdersOf(inviter) : order[q].end \in Nat /\ order[q].end <= now
      BY <3>1, PaidUntilPast DEF PaidOrdersOf, OrdersOf, OrderRow
    <3>3. inviter \in Tenants /\ TrialEndsAt[inviter] \in Nat
      BY <1>4, <2>3 DEF HasReferral, RowsOwned, BillingAssumption
    <3> DEFINE day == IF TrialEndsAt[inviter] > now THEN TrialEndsAt[inviter] ELSE now
    <3>4. FreshStart(inviter, day)
      BY <3>2, <3>3 DEF FreshStart
    <3> QED  BY <2>3, <3>4
  <2> QED  BY <2>1, <2>2, <2>3 DEF ReadReward
<1>7. ASSUME NEW day, NEW p, NEW lift, FreshStart(inviter, day),
             inflight' = [inflight EXCEPT ![h].op = "reward", ![h].give = TRUE,
                              ![h].giveStart = day, ![h].plan = p, ![h].lift = lift]
      PROVE  /\ inflight'[h].order = inflight[h].order /\ inflight'[h].start = inflight[h].start
             /\ FreshStart(inviter, inflight'[h].giveStart)
  BY <1>4, <1>7 DEF Request
<1>8. /\ inflight'[h].order = inflight[h].order /\ inflight'[h].start = inflight[h].start
      /\ inflight'[h].give => FreshStart(inviter, inflight'[h].giveStart)
  <2>1. CASE inflight' = [inflight EXCEPT ![h].op = "reward"]
    BY <1>4, <2>1 DEF Request
  <2>2. CASE <1>6!2
    <3>1. PICK day, p, lift :
            /\ FreshStart(inviter, day)
            /\ inflight' = [inflight EXCEPT ![h].op = "reward", ![h].give = TRUE,
                                ![h].giveStart = day, ![h].plan = p, ![h].lift = lift]
      BY <2>2
    <3> QED  BY <1>7, <3>1
  <2> QED  BY <1>6, <2>1, <2>2
<1>9. \A t, day : FreshStart(t, day) => FreshStart(t, day)'
  BY <1>1, <1>3 DEF FreshStart
<1>10. Payer(h)' = payer  BY <1>1, <1>8 DEF Payer
<1>11. /\ FreshStart(Payer(h), inflight[h].start)'
       /\ inflight'[h].give => FreshStart(Referrer[Payer(h)], inflight[h].giveStart)'
  BY <1>5, <1>8, <1>9, <1>10 DEF FreshStart
<1>12. \A g \in Handlers : g = h  BY DEF OneRequest
<1>13. Fresh'
  BY <1>11, <1>12 DEF Fresh
<1> QED  BY <1>2, <1>13

\* The payer's period goes after all of the payer's, the inviter's after all of the inviter's.
LEMMA CommitPeriods ==
    ASSUME BillingAssumption, OneRequest, PeriodInv, NEW h \in Handlers, CommitApply(h)
    PROVE  Fresh' /\ PaidPeriodsDisjoint'
<1> USE DEF PeriodInv, TypeInv, TypeOK
<1> DEFINE req == inflight[h]
           o == req.order
           payer == order[o].tenant
           inviter == Referrer[payer]
           paid == [order EXCEPT ![o] = PaidRow(@, req.start)]
<1>1. /\ req \in Request /\ req.op = "reward" /\ o \in Orders /\ order[o] \in OrderRow
      /\ req.start \in Nat /\ req.giveStart \in Nat /\ now \in Nat
      /\ payer \in Tenants /\ Applying(h) /\ MonthDays \in Nat
  BY DEF CommitApply, Applying, RowsOwned, Request, BillingAssumption
<1>2. FreshStart(payer, req.start) /\ (req.give => FreshStart(inviter, req.giveStart))
  BY <1>1 DEF Fresh, Payer
<1>3. /\ paid[o].tenant = payer /\ paid[o].status = "paid" /\ paid[o].paidAt = now
      /\ paid[o].start = req.start /\ paid[o].months = order[o].months
      /\ paid[o].end = addMonths(req.start, order[o].months)
      /\ \A q \in Orders \ {o} : paid[q] = order[q]
  BY <1>1 DEF PaidRow, OrderRow
<1>4. \A q \in Orders : order[q].status = "paid" =>
        /\ order[q].start \in Nat /\ order[q].end \in Nat
        /\ order[q].tenant = payer => order[q].end <= req.start
        /\ req.give /\ order[q].tenant = inviter => order[q].end <= req.giveStart
  BY <1>2 DEF FreshStart, PaidOrdersOf, OrdersOf, OrderRow
<1>5. Fresh'
  <2>1. inflight'[h].op = "idle"  BY DEF CommitApply, Idle
  <2> QED  BY <2>1 DEF Fresh, Applying, OneRequest
<1>6. CASE ~req.give
  <2>1. order' = paid  BY <1>6 DEF CommitApply
  <2>2. \A q \in Orders : order'[q].status = "paid" =>
          order'[q].paidAt <= order'[q].start /\ order'[q].end = addMonths(order'[q].start, order'[q].months)
    BY <1>2, <1>3, <2>1 DEF PaidPeriodsDisjoint, FreshStart
  <2>3. \A p, q \in Orders :
          (/\ p # q /\ order'[p].status = "paid" /\ order'[q].status = "paid"
           /\ order'[p].tenant = order'[q].tenant)
            => order'[p].end <= order'[q].start \/ order'[q].end <= order'[p].start
    <3>1. SUFFICES ASSUME NEW p \in Orders, NEW q \in Orders, p # q,
                          paid[p].status = "paid", paid[q].status = "paid",
                          paid[p].tenant = paid[q].tenant
                   PROVE  paid[p].end <= paid[q].start \/ paid[q].end <= paid[p].start
      BY <2>1
    <3>2. CASE p = o
      <4>1. paid[q] = order[q]  BY <1>3, <3>1, <3>2
      <4> QED  BY <1>3, <1>4, <3>1, <3>2, <4>1
    <3>3. CASE q = o
      <4>1. paid[p] = order[p]  BY <1>3, <3>1, <3>3
      <4> QED  BY <1>3, <1>4, <3>1, <3>3, <4>1
    <3>4. CASE p # o /\ q # o
      <4>1. paid[p] = order[p] /\ paid[q] = order[q]  BY <1>3, <3>4
      <4> QED  BY <3>1, <4>1 DEF PaidPeriodsDisjoint
    <3> QED  BY <3>2, <3>3, <3>4
  <2>4. PaidPeriodsDisjoint'  BY <2>2, <2>3 DEF PaidPeriodsDisjoint, addMonths
  <2> QED  BY <1>5, <2>4
<1>7. CASE req.give
  <2>1. PICK r \in NextIds : order' = [paid EXCEPT ![r] = RewardRow(inviter, req.plan, req.giveStart)]
    BY <1>7 DEF CommitApply
  <2>2. r \in Orders /\ order[r].status = "none" /\ order[o].status # "none"
    BY <1>1 DEF NextIds, FreeSlots, RowsOwned
  <2>3. inviter # payer  BY <1>1, <1>7 DEF RowsOwned, BillingAssumption
  <2>4. /\ order'[r].tenant = inviter /\ order'[r].status = "paid" /\ order'[r].paidAt = now
        /\ order'[r].start = req.giveStart /\ order'[r].months = 1
        /\ order'[r].end = addMonths(req.giveStart, 1)
    BY <2>1, <2>2 DEF RewardRow, Unused
  <2>5. order'[o] = paid[o] /\ \A q \in Orders \ {o, r} : order'[q] = order[q]
    BY <1>1, <1>3, <2>1, <2>2
  <2>6. \A q \in Orders : order'[q].status = "paid" =>
          order'[q].paidAt <= order'[q].start /\ order'[q].end = addMonths(order'[q].start, order'[q].months)
    BY <1>2, <1>3, <1>7, <2>4, <2>5 DEF PaidPeriodsDisjoint, FreshStart
  <2>7. ASSUME NEW p \in Orders, NEW q \in Orders, p # q, order'[p].status = "paid",
               order'[q].status = "paid", order'[p].tenant = order'[q].tenant
        PROVE  order'[p].end <= order'[q].start \/ order'[q].end <= order'[p].start
    <3>1. CASE p \notin {o, r} /\ q \notin {o, r}
      BY <2>5, <2>7, <3>1 DEF PaidPeriodsDisjoint
    <3>2. CASE p = o
      BY <1>3, <1>4, <2>3, <2>4, <2>5, <2>7, <3>2
    <3>3. CASE q = o
      BY <1>3, <1>4, <2>3, <2>4, <2>5, <2>7, <3>3
    <3>4. CASE p = r
      BY <1>3, <1>4, <1>7, <2>3, <2>4, <2>5, <2>7, <3>4
    <3>5. CASE q = r
      BY <1>3, <1>4, <1>7, <2>3, <2>4, <2>5, <2>7, <3>5
    <3> QED  BY <3>1, <3>2, <3>3, <3>4, <3>5
  <2>8. PaidPeriodsDisjoint'  BY <2>6, <2>7 DEF PaidPeriodsDisjoint, addMonths
  <2> QED  BY <1>5, <2>8
<1> QED  BY <1>6, <1>7

\* Every other step makes no order paid.
LEMMA OtherPeriods ==
    ASSUME OneRequest, PeriodInv,
           \/ \E t \in Tenants, p \in BuyPlans, m \in Terms, c \in Codes \cup {NoCode} : Checkout(t, p, m, c)
           \/ \E o \in Orders : ProviderDecides(o) \/ RefuseNotification(o)
           \/ \E h \in Handlers : WriteRefund(h) \/ CommitConfirm(h) \/ Crash(h)
           \/ JobStep \/ JobCrash
           \/ \E t \in Tenants : AddTarget(t) \/ \E p \in HandPlans : SetTenantPlan(t, p)
           \/ UNCHANGED vars
    PROVE  Fresh' /\ PaidPeriodsDisjoint'
<1> USE DEF PeriodInv, TypeInv, TypeOK
<1> DEFINE Kept(o) == /\ order'[o].status = "paid" =>
                           /\ order[o].status = "paid" /\ order'[o].tenant = order[o].tenant
                           /\ order'[o].paidAt = order[o].paidAt /\ order'[o].start = order[o].start
                           /\ order'[o].end = order[o].end /\ order'[o].months = order[o].months
                      /\ order[o].status # "none" => order'[o].tenant = order[o].tenant
<1>1. ASSUME \A o \in Orders : Kept(o), now' = now,
             \A h \in Handlers : inflight'[h] = inflight[h] \/ inflight'[h].op \notin {"apply", "reward"}
      PROVE  Fresh' /\ PaidPeriodsDisjoint'
  BY <1>1, PeriodsKept, FreshKept
<1>2. ASSUME NEW t \in Tenants, NEW p \in BuyPlans, NEW m \in Terms, NEW c \in Codes \cup {NoCode},
             Checkout(t, p, m, c)
      PROVE  Fresh' /\ PaidPeriodsDisjoint'
  <2>1. PICK o \in NextIds : order' = [order EXCEPT ![o] =
             [Unused EXCEPT !.tenant = t, !.plan = p, !.months = m, !.code = c,
                            !.early = (p = "pro" /\ EarlyEligible(t)), !.status = "created"]]
    BY <1>2 DEF Checkout
  <2>2. o \in Orders /\ order[o].status = "none"  BY DEF NextIds, FreeSlots
  <2>3. order'[o].status = "created" /\ \A q \in Orders \ {o} : order'[q] = order[q]
    BY <2>1, <2>2 DEF Unused
  <2>4. \A q \in Orders : Kept(q)  BY <2>2, <2>3
  <2>5. UNCHANGED <<now, inflight>>  BY <1>2 DEF Checkout
  <2> QED  BY <1>1, <2>4, <2>5
<1>3. ASSUME NEW o \in Orders, ProviderDecides(o) \/ RefuseNotification(o)
      PROVE  Fresh' /\ PaidPeriodsDisjoint'
  <2>1. UNCHANGED <<now, inflight>>  BY <1>3 DEF ProviderDecides, RefuseNotification
  <2>2. order' = order \/ order' = [order EXCEPT ![o].status = "failed"]
    BY <1>3 DEF ProviderDecides, RefuseNotification
  <2>3. \A q \in Orders : Kept(q)
    <3>1. CASE order' = order  BY <3>1
    <3>2. CASE order' = [order EXCEPT ![o].status = "failed"]
      <4>1. order'[o].status = "failed" /\ order'[o].tenant = order[o].tenant
            /\ \A q \in Orders \ {o} : order'[q] = order[q]
        BY <1>3, <3>2 DEF OrderRow
      <4> QED  BY <4>1
    <3> QED  BY <2>2, <3>1, <3>2
  <2> QED  BY <1>1, <2>1, <2>3
<1>4. ASSUME NEW h \in Handlers, WriteRefund(h) \/ CommitConfirm(h)
      PROVE  Fresh' /\ PaidPeriodsDisjoint'
  <2> DEFINE o == inflight[h].order
  <2>1. o \in Orders /\ order[o] \in OrderRow
    BY <1>4 DEF WriteRefund, CommitConfirm
  <2>2. order'[o].status \in {"refund_requested", "refunded"} /\ order'[o].tenant = order[o].tenant
    <3>1. CASE WriteRefund(h)  BY <2>1, <3>1 DEF WriteRefund, OrderRow
    <3>2. CASE CommitConfirm(h)  BY <2>1, <3>2 DEF CommitConfirm, OrderRow
    <3> QED  BY <1>4, <3>1, <3>2
  <2>3. \A q \in Orders \ {o} : order'[q] = order[q]
    BY <1>4 DEF WriteRefund, CommitConfirm
  <2>4. \A q \in Orders : Kept(q)  BY <2>2, <2>3
  <2>5. now' = now /\ \A g \in Handlers :
          inflight'[g] = inflight[g] \/ inflight'[g].op \notin {"apply", "reward"}
    <3>1. now' = now /\ inflight' = [inflight EXCEPT ![h] = Idle]
      BY <1>4 DEF WriteRefund, CommitConfirm
    <3>2. Idle.op = "idle"  BY DEF Idle
    <3> QED  BY <1>4, <3>1, <3>2
  <2> QED  BY <1>1, <2>4, <2>5
<1>5. ASSUME NEW h \in Handlers, Crash(h)  PROVE Fresh' /\ PaidPeriodsDisjoint'
  BY <1>1, <1>5 DEF Crash, tables, Idle
<1>6. CASE \/ JobStep \/ JobCrash \/ UNCHANGED vars
           \/ \E t \in Tenants : AddTarget(t) \/ \E p \in HandPlans : SetTenantPlan(t, p)
  <2>1. UNCHANGED <<now, order, inflight>>
    BY <1>6 DEF JobStep, JobList, JobVisit, JobSettle, JobWrite, JobPause, JobListTrials, JobCloseTrial,
                JobFinish, JobCrash, AddTarget, SetTenantPlan, vars, tables, jobVars
  <2> QED  BY <1>1, <2>1
<1> QED  BY <1>2, <1>3, <1>4, <1>5, <1>6

LEMMA TickPeriods ==
    ASSUME PeriodInv, Tick
    PROVE  Fresh' /\ PaidPeriodsDisjoint'
<1>1. order' = order /\ \A h \in Handlers : inflight'[h].op = "idle"
  BY DEF Tick, tables
<1> QED  BY <1>1, PeriodsKept DEF PeriodInv, Fresh, Applying

LEMMA PeriodInit == BillingAssumption /\ Init => PeriodInv
<1> SUFFICES ASSUME BillingAssumption, Init  PROVE PeriodInv
  OBVIOUS
<1>1. TypeInv  BY TypeInit
<1>2. Fresh  BY DEF Init, Fresh, Applying, Idle
<1>3. \A o \in Orders : order[o].status # "paid"  BY DEF Init, Unused
<1>4. PaidPeriodsDisjoint  BY <1>3 DEF PaidPeriodsDisjoint
<1> QED  BY <1>1, <1>2, <1>4 DEF PeriodInv

LEMMA PeriodStep == BillingAssumption /\ OneRequest /\ PeriodInv /\ [Next]_vars => PeriodInv'
<1> SUFFICES ASSUME BillingAssumption, OneRequest, PeriodInv, [Next]_vars  PROVE PeriodInv'
  OBVIOUS
<1>1. TypeInv'  BY TypeStep DEF PeriodInv
<1>2. ASSUME NEW h \in Handlers, HandlerStep(h)  PROVE Fresh' /\ PaidPeriodsDisjoint'
  <2>1. CASE \/ \E o \in Orders : BeginApply(h, o) \/ BeginConfirm(h, o)
             \/ \E t \in Tenants : BeginRefund(h, t)
    BY <2>1, BeginPeriods
  <2>2. CASE \E t \in Tenants, p \in GrantPlans, m \in Terms, e \in BOOLEAN : GrantManual(h, t, p, m, e)
    BY <2>2, GrantPeriods
  <2>3. CASE ReadReward(h)  BY <2>3, ReadPeriods
  <2>4. CASE CommitApply(h)  BY <2>4, CommitPeriods
  <2>5. CASE WriteRefund(h) \/ CommitConfirm(h) \/ Crash(h)  BY <2>5, OtherPeriods
  <2> QED  BY <1>2, <2>1, <2>2, <2>3, <2>4, <2>5 DEF HandlerStep
<1>3. Fresh' /\ PaidPeriodsDisjoint'
  BY <1>2, OtherPeriods, TickPeriods DEF Next
<1> QED  BY <1>1, <1>3 DEF PeriodInv

\* paidUntil and applyPaymentNotification add paid time up: while requests come
\* one at a time, the paid periods of a tenant never overlap, whoever pays, is
\* granted or given time, gets a refund, or dies half way.
THEOREM PaidTimeAddsUp ==
    ASSUME OneRequest
    PROVE  Spec => []PaidPeriodsDisjoint
<1>1. PeriodInv /\ [Next]_vars => PeriodInv'
  BY BillingAssumption, OneRequest, PeriodStep
<1>2. Init => PeriodInv
  BY BillingAssumption, PeriodInit
<1>3. Spec => []PeriodInv
  BY <1>1, <1>2, PTL DEF Spec
<1>4. PeriodInv => PaidPeriodsDisjoint
  BY DEF PeriodInv
<1> QED  BY <1>3, <1>4, PTL

-----------------------------------------------------------------------------
(* Free months are given once, for friends that paid *)

\* A row of the table that a step leaves alone, changes without its owner, its
\* provider or whether it was ever paid, or makes for a payment to come.
RowKept(q) ==
    \/ order'[q] = order[q]
    \/ /\ order[q].status # "none" /\ order'[q].status # "none"
       /\ order'[q].tenant = order[q].tenant /\ order'[q].provider = order[q].provider
       /\ order'[q].status \in EverPaid <=> order[q].status \in EverPaid
    \/ /\ order[q].status = "none" /\ order'[q].status = "created"
       /\ order'[q].provider \in MoneyProviders

\* What is applied is money; the row locks keep two transactions off one payer,
\* so that a referral found not yet rewarded still is when the month is given.
PayersApart ==
    /\ \A h \in Handlers : Applying(h) => order[inflight[h].order].provider \in MoneyProviders
    /\ \A g, h \in Handlers :
         g # h /\ inflight[g].op = "reward" /\ inflight[h].op = "reward" => Payer(g) # Payer(h)
    /\ \A h \in Handlers : inflight[h].give => Payer(h) \notin rewarded

RewardInv == UseInv /\ PayersApart /\ RewardedIffPaid

\* The two halves of RewardedIffPaid, tenant by tenant.
MoneyPaid(t) == {o \in OrdersOf(t) : order[o].provider \in MoneyProviders /\ order[o].status \in EverPaid}
Invited(r) == {t \in rewarded : Referrer[t] = r}

LEMMA RewardedParts ==
    RewardedIffPaid <=>
      /\ \A t \in Tenants : Referrer[t] # NoTenant => (t \in rewarded <=> MoneyPaid(t) # {})
      /\ \A r \in Tenants : Cardinality(ReferralOrdersOf(r)) <= Cardinality(Invited(r))
  BY DEF RewardedIffPaid, MoneyPaid, Invited

LEMMA RewardsKept ==
    ASSUME RewardedIffPaid, rewarded' = rewarded, \A q \in Orders : RowKept(q)
    PROVE  RewardedIffPaid'
<1>1. ASSUME NEW t \in Tenants
      PROVE  MoneyPaid(t)' = MoneyPaid(t) /\ ReferralOrdersOf(t)' = ReferralOrdersOf(t)
  <2>1. ASSUME NEW q \in Orders  PROVE q \in MoneyPaid(t)' <=> q \in MoneyPaid(t)
    <3>1. RowKept(q)  OBVIOUS
    <3> QED  BY <3>1 DEF RowKept, MoneyPaid, OrdersOf, EverPaid
  <2>2. ASSUME NEW q \in Orders  PROVE q \in ReferralOrdersOf(t)' <=> q \in ReferralOrdersOf(t)
    <3>1. RowKept(q)  OBVIOUS
    <3> QED  BY <3>1 DEF RowKept, ReferralOrdersOf, OrdersOf, MoneyProviders
  <2> QED  BY <2>1, <2>2 DEF MoneyPaid, ReferralOrdersOf, OrdersOf
<1>2. \A t \in Tenants : Invited(t)' = Invited(t)  BY DEF Invited
<1>3. /\ \A t \in Tenants : Referrer[t] # NoTenant => (t \in rewarded' <=> MoneyPaid(t)' # {})
      /\ \A r \in Tenants : Cardinality(ReferralOrdersOf(r)') <= Cardinality(Invited(r)')
  BY <1>1, <1>2, RewardedParts
<1> QED  BY <1>3 DEF RewardedIffPaid, MoneyPaid, Invited

LEMMA PayersKept ==
    ASSUME TypeInv, PayersApart, rewarded' = rewarded, \A q \in Orders : RowKept(q),
           \A h \in Handlers : \/ inflight'[h] = inflight[h]
                               \/ ~Applying(h)' /\ inflight'[h].give = FALSE
    PROVE  PayersApart'
<1>1. ASSUME NEW h \in Handlers, Applying(h)' \/ inflight'[h].give
      PROVE  /\ inflight'[h] = inflight[h] /\ Payer(h)' = Payer(h) /\ (Applying(h)' => Applying(h))
             /\ order'[inflight[h].order].provider = order[inflight[h].order].provider
  <2>1. inflight'[h] = inflight[h]  BY <1>1
  <2>2. inflight[h].op # "idle"  BY <1>1, <2>1 DEF Applying, TypeInv, RowsOwned
  <2>3. inflight[h].order \in Orders /\ order[inflight[h].order].status # "none"
    BY <2>2 DEF TypeInv, TypeOK, RowsOwned
  <2>4. /\ order'[inflight[h].order].tenant = order[inflight[h].order].tenant
        /\ order'[inflight[h].order].provider = order[inflight[h].order].provider
    <3>1. RowKept(inflight[h].order)  BY <2>3
    <3> QED  BY <2>3, <3>1 DEF RowKept
  <2> QED  BY <2>1, <2>4 DEF Payer, Applying
<1>2. \A h \in Handlers : inflight'[h].op = "reward" => Applying(h)'
  BY DEF Applying
<1>3. \A h \in Handlers : Applying(h)' => order'[inflight'[h].order].provider \in MoneyProviders
  BY <1>1 DEF PayersApart
<1>4. \A g, h \in Handlers :
        g # h /\ inflight'[g].op = "reward" /\ inflight'[h].op = "reward" => Payer(g)' # Payer(h)'
  BY <1>1, <1>2 DEF PayersApart
<1>5. \A h \in Handlers : inflight'[h].give => Payer(h)' \notin rewarded'
  BY <1>1 DEF PayersApart
<1> QED  BY <1>3, <1>4, <1>5 DEF PayersApart

\* A transaction opens on a payment: its handler has read no reward yet.
LEMMA PayersBegun ==
    ASSUME TypeInv, PayersApart, rewarded' = rewarded, \A q \in Orders : RowKept(q),
           NEW h \in Handlers, \A g \in Handlers \ {h} : inflight'[g] = inflight[g],
           inflight'[h].op = "apply", inflight'[h].give = FALSE,
           order'[inflight'[h].order].provider \in MoneyProviders
    PROVE  PayersApart'
<1>1. ASSUME NEW g \in Handlers \ {h}, Applying(g) \/ inflight[g].give
      PROVE  /\ Payer(g)' = Payer(g)
             /\ order'[inflight[g].order].provider = order[inflight[g].order].provider
  <2>1. inflight[g].op # "idle"  BY <1>1 DEF Applying, TypeInv, RowsOwned
  <2>2. inflight[g].order \in Orders /\ order[inflight[g].order].status # "none"
    BY <2>1 DEF TypeInv, TypeOK, RowsOwned
  <2>3. RowKept(inflight[g].order)  BY <2>2
  <2> QED  BY <2>2, <2>3 DEF RowKept, Payer
<1>2. \A g \in Handlers \ {h} : Applying(g)' <=> Applying(g)  BY DEF Applying
<1>3. \A g \in Handlers : Applying(g)' => order'[inflight'[g].order].provider \in MoneyProviders
  BY <1>1, <1>2 DEF PayersApart
<1>4. ASSUME NEW f \in Handlers, NEW g \in Handlers, f # g,
             inflight'[f].op = "reward", inflight'[g].op = "reward"
      PROVE  Payer(f)' # Payer(g)'
  <2>1. f # h /\ g # h  BY <1>4
  <2>2. inflight[f].op = "reward" /\ inflight[g].op = "reward"  BY <1>4, <2>1
  <2>3. Payer(f) # Payer(g)  BY <1>4, <2>2 DEF PayersApart
  <2> QED  BY <1>1, <2>1, <2>2, <2>3 DEF Applying
<1>5. \A g \in Handlers : inflight'[g].give => Payer(g)' \notin rewarded'
  BY <1>1 DEF PayersApart
<1> QED  BY <1>3, <1>4, <1>5 DEF PayersApart

LEMMA BeginRewards ==
    ASSUME RewardInv, NEW h \in Handlers,
           \/ \E o \in Orders : BeginApply(h, o) \/ BeginConfirm(h, o)
           \/ \E t \in Tenants : BeginRefund(h, t)
    PROVE  PayersApart' /\ RewardedIffPaid'
<1> USE DEF RewardInv, UseInv, TypeInv, TypeOK
<1>1. UNCHANGED <<order, rewarded>> /\ \A g \in Handlers \ {h} : inflight'[g] = inflight[g]
  BY DEF BeginApply, BeginConfirm, BeginRefund, tables
<1>2. \A q \in Orders : RowKept(q)  BY <1>1 DEF RowKept
<1>3. RewardedIffPaid'  BY <1>1, <1>2, RewardsKept
<1>4. ASSUME NEW o \in Orders, BeginApply(h, o)  PROVE PayersApart'
  <2>1. /\ inflight'[h].op = "apply" /\ inflight'[h].give = FALSE /\ inflight'[h].order = o
        /\ order[o].provider = "yookassa"
    BY <1>4 DEF BeginApply, Idle
  <2>2. order'[inflight'[h].order].provider \in MoneyProviders  BY <1>1, <2>1 DEF MoneyProviders
  <2> QED  BY <1>1, <1>2, <2>1, <2>2, PayersBegun
<1>5. ASSUME \/ \E o \in Orders : BeginConfirm(h, o)
             \/ \E t \in Tenants : BeginRefund(h, t)
      PROVE  PayersApart'
  <2>1. inflight'[h].op \in {"confirm", "refund"} /\ inflight'[h].give = FALSE
    BY <1>5 DEF BeginConfirm, BeginRefund, Idle
  <2> QED  BY <1>1, <1>2, <2>1, PayersKept DEF Applying
<1> QED  BY <1>3, <1>4, <1>5

LEMMA GrantRewards ==
    ASSUME RewardInv, NEW h \in Handlers, NEW t \in Tenants, NEW p \in GrantPlans, NEW m \in Terms,
           NEW e \in BOOLEAN, GrantManual(h, t, p, m, e)
    PROVE  PayersApart' /\ RewardedIffPaid'
<1> USE DEF RewardInv, UseInv, TypeInv, TypeOK
<1>1. PICK o \in NextIds, day \in {now} \cup EndsAhead(t) :
        /\ order' = [order EXCEPT ![o] =
               [Unused EXCEPT !.tenant = t, !.plan = p, !.months = m, !.early = e,
                              !.provider = "manual", !.status = "created"]]
        /\ inflight' = [inflight EXCEPT ![h] =
               [Idle EXCEPT !.op = "apply", !.order = o, !.start = day]]
  BY DEF GrantManual
<1>2. o \in Orders /\ order[o].status = "none"  BY DEF NextIds, FreeSlots
<1>3. order'[o].status = "created" /\ order'[o].provider = "manual"
  BY <1>1, <1>2 DEF Unused
<1>4. \A q \in Orders : RowKept(q)
  BY <1>1, <1>2, <1>3 DEF RowKept, MoneyProviders
<1>5. rewarded' = rewarded  BY DEF GrantManual
<1>6. /\ inflight'[h].op = "apply" /\ inflight'[h].give = FALSE /\ inflight'[h].order = o
      /\ \A g \in Handlers \ {h} : inflight'[g] = inflight[g]
  BY <1>1 DEF Idle
<1>7. order'[inflight'[h].order].provider \in MoneyProviders  BY <1>3, <1>6 DEF MoneyProviders
<1>8. PayersApart'  BY <1>4, <1>5, <1>6, <1>7, PayersBegun
<1>9. RewardedIffPaid'  BY <1>4, <1>5, RewardsKept
<1> QED  BY <1>8, <1>9

\* The payer's row is not locked by another payment, and is from here on.
LEMMA ReadRewards ==
    ASSUME RewardInv, NEW h \in Handlers, ReadReward(h)
    PROVE  PayersApart' /\ RewardedIffPaid'
<1> USE DEF RewardInv, UseInv, TypeInv, TypeOK
<1> DEFINE payer == order[inflight[h].order].tenant
           inviter == Referrer[payer]
<1>1. UNCHANGED <<order, rewarded>> /\ \A g \in Handlers \ {h} : inflight'[g] = inflight[g]
  BY DEF ReadReward, tables
<1>2. \A q \in Orders : RowKept(q)  BY <1>1 DEF RowKept
<1>3. RewardedIffPaid'  BY <1>1, <1>2, RewardsKept
<1>4. inflight[h] \in Request /\ inflight[h].op = "apply" /\ inflight[h].give = FALSE /\ Applying(h)
  BY DEF ReadReward, Applying, RowsOwned, Request
<1>5. /\ inflight'[h].order = inflight[h].order
      /\ inflight'[h].give => HasReferral(payer)
  <2>1. CASE inflight' = [inflight EXCEPT ![h].op = "reward"]
    BY <1>4, <2>1 DEF Request
  <2>2. CASE HasReferral(payer) /\ \E day, p, lift :
               inflight' = [inflight EXCEPT ![h].op = "reward", ![h].give = TRUE,
                                ![h].giveStart = day, ![h].plan = p, ![h].lift = lift]
    BY <1>4, <2>2 DEF Request
  <2>3. \/ inflight' = [inflight EXCEPT ![h].op = "reward"]
        \/ /\ HasReferral(payer)
           /\ \/ \E o \in PaidOrdersOf(inviter) :
                   inflight' = [inflight EXCEPT ![h].op = "reward", ![h].give = TRUE,
                                    ![h].giveStart = order[o].end, ![h].plan = order[o].plan,
                                    ![h].lift = FALSE]
              \/ inflight' = [inflight EXCEPT ![h].op = "reward", ![h].give = TRUE,
                   ![h].giveStart = IF TrialEndsAt[inviter] > now THEN TrialEndsAt[inviter] ELSE now,
                   ![h].plan = RewardPlan(inviter),
                   ![h].lift = (plan[inviter] = "free" /\ TrialEndsAt[inviter] <= now)]
    BY DEF ReadReward
  <2>4. CASE inflight' # [inflight EXCEPT ![h].op = "reward"]
    <3>1. HasReferral(payer) /\ \E day, p, lift :
            inflight' = [inflight EXCEPT ![h].op = "reward", ![h].give = TRUE,
                             ![h].giveStart = day, ![h].plan = p, ![h].lift = lift]
      BY <2>3, <2>4, Zenon
    <3> QED  BY <2>2, <3>1
  <2> QED  BY <2>1, <2>4
<1>6. \A g \in Handlers : Payer(g)' = Payer(g)  BY <1>1, <1>5 DEF Payer
<1>7. ASSUME NEW g \in Handlers \ {h}, inflight[g].op = "reward"  PROVE Payer(g) # Payer(h)
  BY <1>7 DEF ReadReward, RowLocked, Payer
<1>8. \A g \in Handlers : Applying(g)' => order'[inflight'[g].order].provider \in MoneyProviders
  BY <1>1, <1>4, <1>5 DEF PayersApart, Applying
<1>9. ASSUME NEW f \in Handlers, NEW g \in Handlers, f # g,
             inflight'[f].op = "reward", inflight'[g].op = "reward"
      PROVE  Payer(f)' # Payer(g)'
  <2>1. CASE f = h  BY <1>1, <1>6, <1>7, <1>9, <2>1
  <2>2. CASE g = h  BY <1>1, <1>6, <1>7, <1>9, <2>2
  <2>3. CASE f # h /\ g # h  BY <1>1, <1>6, <1>9, <2>3 DEF PayersApart
  <2> QED  BY <2>1, <2>2, <2>3
<1>10. \A g \in Handlers : inflight'[g].give => Payer(g)' \notin rewarded'
  <2>1. inflight'[h].give => Payer(h) \notin rewarded
    BY <1>5 DEF HasReferral, Payer
  <2> QED  BY <1>1, <1>6, <2>1 DEF PayersApart
<1>11. PayersApart'  BY <1>8, <1>9, <1>10 DEF PayersApart
<1> QED  BY <1>3, <1>11

\* The friend's referral is marked with the payment, and at most one month is given for it.
LEMMA CommitRewards ==
    ASSUME BillingAssumption, FiniteTables, RewardInv, NEW h \in Handlers, CommitApply(h)
    PROVE  PayersApart' /\ RewardedIffPaid'
<1> USE DEF RewardInv, UseInv, TypeInv, TypeOK
<1> DEFINE req == inflight[h]
           o == req.order
           payer == order[o].tenant
           inviter == Referrer[payer]
           paid == [order EXCEPT ![o] = PaidRow(@, req.start)]
<1>1. /\ req \in Request /\ req.op = "reward" /\ o \in Orders /\ order[o] \in OrderRow
      /\ order[o].status = "created" /\ order[o].provider \in MoneyProviders /\ payer \in Tenants
      /\ req.start \in Nat /\ req.giveStart \in Nat /\ now \in Nat
  <2>1. req.op = "reward" /\ Applying(h)  BY DEF CommitApply, Applying
  <2> QED  BY <2>1 DEF OneApplies, Request, PayersApart, RowsOwned
<1>2. /\ paid[o].status = "paid" /\ paid[o].provider = order[o].provider /\ paid[o].tenant = payer
      /\ \A q \in Orders \ {o} : paid[q] = order[q]
  BY <1>1 DEF PaidRow, OrderRow
<1>3. \A t : t \in rewarded' <=> t \in rewarded \/ (t = payer /\ HasReferral(payer))
  BY DEF CommitApply
<1>4. /\ inflight'[h] = Idle /\ Idle.give = FALSE /\ Idle.op = "idle"
      /\ \A g \in Handlers \ {h} : inflight'[g] = inflight[g]
  BY DEF CommitApply, Idle
<1>5. /\ order'[o].status = "paid" /\ order'[o].provider = order[o].provider /\ order'[o].tenant = payer
      /\ \A q \in Orders \ {o} : order[q].status # "none" => order'[q] = order[q]
      /\ \A t \in Tenants, q \in Orders : q \in MoneyPaid(t)' <=> q \in MoneyPaid(t) \/ (q = o /\ t = payer)
      /\ \A t \in Tenants :
           \/ ReferralOrdersOf(t)' = ReferralOrdersOf(t)
           \/ /\ req.give /\ t = inviter
              /\ \E r \in Orders : /\ r \notin ReferralOrdersOf(t)
                                   /\ ReferralOrdersOf(t)' = ReferralOrdersOf(t) \cup {r}
  <2>1. CASE ~req.give
    <3>1. order' = paid  BY <2>1 DEF CommitApply
    <3>2. /\ order'[o].status = "paid" /\ order'[o].provider = order[o].provider /\ order'[o].tenant = payer
          /\ \A q \in Orders \ {o} : order'[q] = order[q]
      BY <1>2, <3>1
    <3>3. \A t : \A q \in Orders : q \in ReferralOrdersOf(t)' <=> q \in ReferralOrdersOf(t)
      BY <1>1, <3>2 DEF ReferralOrdersOf, OrdersOf, MoneyProviders
    <3>4. ASSUME NEW t  PROVE ReferralOrdersOf(t)' = ReferralOrdersOf(t)
      <4>1. ReferralOrdersOf(t) \subseteq Orders /\ ReferralOrdersOf(t)' \subseteq Orders
        BY DEF ReferralOrdersOf, OrdersOf
      <4>2. \A q \in Orders : q \in ReferralOrdersOf(t)' <=> q \in ReferralOrdersOf(t)
        BY <3>3
      <4> QED  BY <4>1, <4>2, Zenon
    <3>5. \A t \in Tenants, q \in Orders : q \in MoneyPaid(t)' <=> q \in MoneyPaid(t) \/ (q = o /\ t = payer)
      BY <1>1, <3>2 DEF MoneyPaid, OrdersOf, EverPaid
    <3> QED  BY <3>2, <3>4, <3>5
  \* The reward takes a free row for the inviter.
  <2>2. CASE req.give
    <3>1. PICK r \in NextIds : order' = [paid EXCEPT ![r] = RewardRow(inviter, req.plan, req.giveStart)]
      BY <2>2 DEF CommitApply
    <3>2. r \in Orders /\ order[r].status = "none" /\ r # o  BY <1>1 DEF NextIds, FreeSlots
    <3>3. order'[r] = RewardRow(inviter, req.plan, req.giveStart)  BY <3>1, <3>2
    <3>4. order'[r].status = "paid" /\ order'[r].provider = "referral" /\ order'[r].tenant = inviter
      BY <3>3 DEF RewardRow, Unused
    <3>5. order'[o] = paid[o] /\ \A q \in Orders \ {o, r} : order'[q] = order[q]
      BY <1>1, <1>2, <3>1, <3>2
    <3>6. \A t \in Tenants, q \in Orders : q \in MoneyPaid(t)' <=> q \in MoneyPaid(t) \/ (q = o /\ t = payer)
      <4>1. \A t : r \notin MoneyPaid(t) /\ r \notin MoneyPaid(t)'
        BY <3>2, <3>4 DEF MoneyPaid, OrdersOf, MoneyProviders
      <4>2. \A t \in Tenants : o \in MoneyPaid(t)' <=> t = payer
        BY <1>1, <1>2, <3>5 DEF MoneyPaid, OrdersOf, EverPaid
      <4>3. \A t \in Tenants : o \notin MoneyPaid(t)
        BY <1>1 DEF MoneyPaid, EverPaid
      <4>4. \A t \in Tenants, q \in Orders \ {o, r} : q \in MoneyPaid(t)' <=> q \in MoneyPaid(t)
        BY <3>5 DEF MoneyPaid, OrdersOf
      <4> HIDE DEF RewardInv, UseInv, TypeInv, TypeOK, payer, o
      <4> QED  BY <3>2, <4>1, <4>2, <4>3, <4>4
    <3>7. \A t : \A q \in Orders :
            q \in ReferralOrdersOf(t)' <=> q \in ReferralOrdersOf(t) \/ (q = r /\ t = inviter)
      BY <1>1, <1>2, <3>2, <3>4, <3>5 DEF ReferralOrdersOf, OrdersOf, MoneyProviders
    <3>8. \A t : ReferralOrdersOf(t) \subseteq Orders /\ ReferralOrdersOf(t)' \subseteq Orders
      BY DEF ReferralOrdersOf, OrdersOf
    <3>9. \A t \in Tenants :
            \/ ReferralOrdersOf(t)' = ReferralOrdersOf(t)
            \/ t = inviter /\ ReferralOrdersOf(t)' = ReferralOrdersOf(t) \cup {r}
      <4> HIDE DEF RewardInv, UseInv, TypeInv, TypeOK, inviter
      <4> QED  BY <3>2, <3>7, <3>8
    <3>10. \A t : r \notin ReferralOrdersOf(t)  BY <3>2 DEF ReferralOrdersOf, OrdersOf
    <3> QED  BY <1>2, <2>2, <3>2, <3>5, <3>6, <3>9, <3>10
  <2> QED  BY <2>1, <2>2
<1>6. \A t \in Tenants : Referrer[t] # NoTenant => (t \in rewarded' <=> MoneyPaid(t)' # {})
  <2>1. \A t \in Tenants : Referrer[t] # NoTenant => (t \in rewarded <=> MoneyPaid(t) # {})
    BY RewardedParts
  <2>2. \A t : MoneyPaid(t) \subseteq Orders /\ MoneyPaid(t)' \subseteq Orders
    BY DEF MoneyPaid, OrdersOf
  <2>3. \A t \in Tenants : MoneyPaid(t)' # {} <=> MoneyPaid(t) # {} \/ t = payer
    <3> HIDE DEF RewardInv, UseInv, TypeInv, TypeOK, payer, o
    <3> QED  BY <1>1, <1>5, <2>2
  <2> QED  BY <1>3, <2>1, <2>3 DEF HasReferral
<1>7. ASSUME NEW t \in Tenants
      PROVE  Cardinality(ReferralOrdersOf(t)') <= Cardinality(Invited(t)')
  <2>1. IsFiniteSet(Invited(t)) /\ IsFiniteSet(Invited(t)') /\ IsFiniteSet(ReferralOrdersOf(t))
    <3>1. Invited(t) \subseteq Tenants /\ Invited(t)' \subseteq Tenants
      BY <1>1, <1>3 DEF Invited
    <3>2. ReferralOrdersOf(t) \subseteq Orders  BY DEF ReferralOrdersOf, OrdersOf
    <3> QED  BY <3>1, <3>2, FS_Subset DEF FiniteTables
  <2>2. Cardinality(ReferralOrdersOf(t)) <= Cardinality(Invited(t))  BY RewardedParts
  <2>3. Cardinality(ReferralOrdersOf(t)) \in Nat /\ Cardinality(Invited(t)) \in Nat
        /\ Cardinality(Invited(t)') \in Nat
    BY <2>1, FS_CardinalityType
  <2>4. CASE ReferralOrdersOf(t)' = ReferralOrdersOf(t)
    <3>1. Invited(t) \subseteq Invited(t)'  BY <1>3 DEF Invited
    <3>2. Cardinality(Invited(t)) <= Cardinality(Invited(t)')  BY <2>1, <3>1, FS_Subset
    <3> QED  BY <2>2, <2>3, <2>4, <3>2
  <2>5. CASE ReferralOrdersOf(t)' # ReferralOrdersOf(t)
    <3>1. PICK r \in Orders : /\ r \notin ReferralOrdersOf(t)
                              /\ ReferralOrdersOf(t)' = ReferralOrdersOf(t) \cup {r}
      BY <1>5, <2>5
    <3>2. req.give /\ t = inviter  BY <1>5, <2>5
    <3>3. payer \notin rewarded /\ HasReferral(payer)
      BY <1>1, <3>2 DEF PayersApart, Payer, HasReferral, BillingAssumption
    <3>4. Invited(t)' = Invited(t) \cup {payer} /\ payer \notin Invited(t)
      BY <1>3, <3>2, <3>3 DEF Invited
    <3>5. Cardinality(ReferralOrdersOf(t)') = Cardinality(ReferralOrdersOf(t)) + 1
      <4> HIDE DEF RewardInv, UseInv, TypeInv, TypeOK
      <4>1. Cardinality(ReferralOrdersOf(t) \cup {r}) = Cardinality(ReferralOrdersOf(t)) + 1
        BY <2>1, <3>1, FS_AddElement
      <4> QED  BY <3>1, <4>1
    <3>6. Cardinality(Invited(t)') = Cardinality(Invited(t)) + 1
      <4> HIDE DEF RewardInv, UseInv, TypeInv, TypeOK, payer
      <4>1. Cardinality(Invited(t) \cup {payer}) = Cardinality(Invited(t)) + 1
        BY <2>1, <3>4, FS_AddElement
      <4> QED  BY <3>4, <4>1
    <3> QED  BY <2>2, <2>3, <3>5, <3>6
  <2> QED  BY <2>4, <2>5
<1>8. RewardedIffPaid'  BY <1>6, <1>7 DEF RewardedIffPaid, MoneyPaid, Invited
<1>9. ASSUME NEW g \in Handlers, inflight'[g].op \in {"apply", "reward"} \/ inflight'[g].give
      PROVE  /\ g # h /\ inflight'[g] = inflight[g] /\ Applying(g)
             /\ order'[inflight[g].order] = order[inflight[g].order]
  <2>1. g # h /\ inflight'[g] = inflight[g]  BY <1>4, <1>9
  <2>2. Applying(g) /\ Applying(h)  BY <1>1, <1>9, <2>1 DEF RowsOwned, Applying
  <2>3. inflight[g].order \in Orders /\ inflight[g].order # o /\ order[inflight[g].order].status = "created"
    BY <2>1, <2>2 DEF OneApplies, Applying
  <2> QED  BY <1>5, <2>1, <2>2, <2>3
<1>10. \A g \in Handlers : Applying(g)' => order'[inflight'[g].order].provider \in MoneyProviders
  BY <1>9 DEF PayersApart, Applying
<1>11. \A f, g \in Handlers :
         f # g /\ inflight'[f].op = "reward" /\ inflight'[g].op = "reward" => Payer(f)' # Payer(g)'
  BY <1>9 DEF PayersApart, Payer
<1>12. ASSUME NEW g \in Handlers, inflight'[g].give  PROVE Payer(g)' \notin rewarded'
  <2>1. g # h /\ inflight'[g] = inflight[g] /\ Payer(g)' = Payer(g)  BY <1>9, <1>12 DEF Payer
  <2>2. inflight[g].give /\ inflight[g].op = "reward"  BY <1>12, <2>1 DEF RowsOwned
  <2>3. Payer(g) \notin rewarded /\ Payer(g) # payer
    BY <1>1, <2>1, <2>2 DEF PayersApart, Payer
  <2> QED  BY <1>3, <2>1, <2>3
<1>13. PayersApart'  BY <1>10, <1>11, <1>12 DEF PayersApart
<1> QED  BY <1>8, <1>13

LEMMA WriteRewards ==
    ASSUME RewardInv, NEW h \in Handlers, WriteRefund(h) \/ CommitConfirm(h)
    PROVE  PayersApart' /\ RewardedIffPaid'
<1> USE DEF RewardInv, UseInv, TypeInv, TypeOK
<1> DEFINE o == inflight[h].order
<1>1. o \in Orders /\ order[o].status \in EverPaid /\ order[o].status # "none"
  BY DEF WriteRefund, CommitConfirm, OneApplies, Refunding, EverPaid
<1>2. /\ order'[o].status \in EverPaid /\ order'[o].tenant = order[o].tenant
      /\ order'[o].provider = order[o].provider /\ order'[o].status # "none"
      /\ \A q \in Orders \ {o} : order'[q] = order[q]
  BY <1>1 DEF WriteRefund, CommitConfirm, OrderRow, EverPaid
<1>3. \A q \in Orders : RowKept(q)  BY <1>1, <1>2 DEF RowKept
<1>4. rewarded' = rewarded /\ inflight' = [inflight EXCEPT ![h] = Idle]
  BY DEF WriteRefund, CommitConfirm
<1>5. \A g \in Handlers : inflight'[g] = inflight[g] \/ (~Applying(g)' /\ inflight'[g].give = FALSE)
  BY <1>4 DEF Idle, Applying
<1> QED  BY <1>3, <1>4, <1>5, RewardsKept, PayersKept

\* Steps of the shop, of the provider and of everything but requests.
LEMMA OtherRewards ==
    ASSUME RewardInv,
           \/ \E t \in Tenants, p \in BuyPlans, m \in Terms, c \in Codes \cup {NoCode} : Checkout(t, p, m, c)
           \/ \E o \in Orders : ProviderDecides(o) \/ RefuseNotification(o)
           \/ \E h \in Handlers : Crash(h)
           \/ JobStep \/ JobCrash \/ Tick
           \/ \E t \in Tenants : AddTarget(t) \/ \E p \in HandPlans : SetTenantPlan(t, p)
           \/ UNCHANGED vars
    PROVE  PayersApart' /\ RewardedIffPaid'
<1> USE DEF RewardInv, UseInv, TypeInv, TypeOK
<1>1. ASSUME rewarded' = rewarded, \A q \in Orders : RowKept(q),
             \A h \in Handlers : inflight'[h] = inflight[h] \/ (~Applying(h)' /\ inflight'[h].give = FALSE)
      PROVE  PayersApart' /\ RewardedIffPaid'
  BY <1>1, RewardsKept, PayersKept
<1>2. ASSUME NEW t \in Tenants, NEW p \in BuyPlans, NEW m \in Terms, NEW c \in Codes \cup {NoCode},
             Checkout(t, p, m, c)
      PROVE  PayersApart' /\ RewardedIffPaid'
  <2>1. PICK o \in NextIds : order' = [order EXCEPT ![o] =
             [Unused EXCEPT !.tenant = t, !.plan = p, !.months = m, !.code = c,
                            !.early = (p = "pro" /\ EarlyEligible(t)), !.status = "created"]]
    BY <1>2 DEF Checkout
  <2>2. o \in Orders /\ order[o].status = "none"  BY DEF NextIds, FreeSlots
  <2>3. /\ order'[o].status = "created" /\ order'[o].provider = "yookassa"
        /\ \A q \in Orders \ {o} : order'[q] = order[q]
    BY <2>1, <2>2 DEF Unused
  <2>4. \A q \in Orders : RowKept(q)  BY <2>2, <2>3 DEF RowKept, MoneyProviders
  <2>5. UNCHANGED <<rewarded, inflight>>  BY <1>2 DEF Checkout
  <2> QED  BY <1>1, <2>4, <2>5
<1>3. ASSUME NEW o \in Orders, ProviderDecides(o) \/ RefuseNotification(o)
      PROVE  PayersApart' /\ RewardedIffPaid'
  <2>1. UNCHANGED <<rewarded, inflight>>  BY <1>3 DEF ProviderDecides, RefuseNotification
  <2>2. \/ order' = order
        \/ order' = [order EXCEPT ![o].status = "failed"] /\ order[o].status = "created"
    BY <1>3 DEF ProviderDecides, RefuseNotification
  <2>3. CASE order' = order
    <3>1. \A q \in Orders : RowKept(q)  BY <2>3 DEF RowKept
    <3> QED  BY <1>1, <2>1, <3>1
  <2>4. CASE order' = [order EXCEPT ![o].status = "failed"] /\ order[o].status = "created"
    <3>1. /\ order'[o].status = "failed" /\ order'[o].tenant = order[o].tenant
          /\ order'[o].provider = order[o].provider /\ \A q \in Orders \ {o} : order'[q] = order[q]
      BY <2>4 DEF OrderRow
    <3>2. \A q \in Orders : RowKept(q)  BY <2>4, <3>1 DEF RowKept, EverPaid
    <3> QED  BY <1>1, <2>1, <3>2
  <2> QED  BY <2>2, <2>3, <2>4
<1>4. ASSUME NEW h \in Handlers, Crash(h)  PROVE PayersApart' /\ RewardedIffPaid'
  <2>1. UNCHANGED <<order, rewarded>> /\ inflight' = [inflight EXCEPT ![h] = Idle]
    BY <1>4 DEF Crash, tables
  <2>2. \A q \in Orders : RowKept(q)  BY <2>1 DEF RowKept
  <2> QED  BY <1>1, <2>1, <2>2 DEF Idle, Applying
<1>5. CASE \/ JobStep \/ JobCrash \/ Tick \/ UNCHANGED vars
           \/ \E t \in Tenants : AddTarget(t) \/ \E p \in HandPlans : SetTenantPlan(t, p)
  <2>1. UNCHANGED <<order, rewarded, inflight>>
    BY <1>5 DEF JobStep, JobList, JobVisit, JobSettle, JobWrite, JobPause, JobListTrials, JobCloseTrial,
                JobFinish, JobCrash, AddTarget, SetTenantPlan, Tick, vars, tables, jobVars
  <2>2. \A q \in Orders : RowKept(q)  BY <2>1 DEF RowKept
  <2> QED  BY <1>1, <2>1, <2>2
<1> QED  BY <1>2, <1>3, <1>4, <1>5

LEMMA RewardInit == BillingAssumption /\ FiniteTables /\ Init => RewardInv
<1> SUFFICES ASSUME BillingAssumption, FiniteTables, Init  PROVE RewardInv
  OBVIOUS
<1>1. UseInv  BY UseInit
<1>2. PayersApart  BY DEF Init, PayersApart, Applying, Idle
<1>3. \A t : OrdersOf(t) = {}  BY DEF Init, OrdersOf, Unused
<1>4. \A t : MoneyPaid(t) = {} /\ ReferralOrdersOf(t) = {} /\ Invited(t) = {}
  BY <1>3 DEF MoneyPaid, ReferralOrdersOf, Invited, Init
<1>5. rewarded = {}  BY DEF Init
<1>6. Cardinality({}) <= Cardinality({})  BY FS_EmptySet
<1>7. \A t \in Tenants : Cardinality(ReferralOrdersOf(t)) <= Cardinality(Invited(t))
  BY <1>4, <1>6
<1>8. RewardedIffPaid  BY <1>4, <1>5, <1>7, RewardedParts
<1> QED  BY <1>1, <1>2, <1>8 DEF RewardInv

LEMMA RewardStep == BillingAssumption /\ FiniteTables /\ RewardInv /\ [Next]_vars => RewardInv'
<1> SUFFICES ASSUME BillingAssumption, FiniteTables, RewardInv, [Next]_vars  PROVE RewardInv'
  OBVIOUS
<1>1. UseInv'  BY UseStep DEF RewardInv
<1>2. ASSUME NEW h \in Handlers, HandlerStep(h)  PROVE PayersApart' /\ RewardedIffPaid'
  BY <1>2, BeginRewards, GrantRewards, ReadRewards, CommitRewards, WriteRewards, OtherRewards DEF HandlerStep
<1>3. PayersApart' /\ RewardedIffPaid'
  BY <1>2, OtherRewards DEF Next
<1> QED  BY <1>1, <1>3 DEF RewardInv

\* rewardReferrer, with the row locks of the payment transaction: however many
\* friends pay side by side, and requests die, a referral is rewarded exactly
\* when the friend has paid, and an inviter never holds more free months than
\* friends that paid.
THEOREM RewardsEarned == Spec => []RewardedIffPaid
<1>1. Spec => []RewardInv
  BY BillingAssumption, FiniteTables, RewardInit, RewardStep, PTL DEF Spec
<1>2. RewardInv => RewardedIffPaid
  BY DEF RewardInv
<1> QED  BY <1>1, <1>2, PTL

-----------------------------------------------------------------------------
(* The job settles every tenant nothing else touched *)

EverCovered(t) == \E o \in OrdersOf(t) : order[o].status \in {"paid", "refunded"}
Covered(t) == plan[t] \in PlansCovering(t, {})

\* The tenant the job is in the middle of settling.
Unsettled(t) == stage \in {"settle", "write"} /\ t = visiting

\* What the job has read stays true of the tenants nothing else touches: the
\* listed plan of those it has still to visit, the plan it is about to write;
\* and those it is done with have the plan of their paid time.
JobKnows ==
    /\ stage = "due" => touched = {}
    /\ stage \in {"expire", "settle", "write", "pause"} =>
         \A t \in Tenants \ touched :
             /\ t \in left => plan[t] = seen[t]
             /\ t \notin left /\ EverCovered(t) /\ ~Unsettled(t) => Covered(t)
    /\ stage \in {"settle", "write", "pause"} => visiting \notin left
    /\ stage = "write" /\ visiting \notin touched => settling \in PlansCovering(visiting, {})
    /\ stage \in {"trials", "done"} => \A t \in Tenants \ touched : EverCovered(t) => Covered(t)

SettleInv == UseInv /\ JobKnows

\* Orders and plan of a tenant are as they were.
TenantKept(t) ==
    /\ t \notin touched /\ plan'[t] = plan[t] /\ PaidOrdersOf(t)' = PaidOrdersOf(t)
    /\ \A o \in PaidOrdersOf(t) : order'[o] = order[o]
    /\ EverCovered(t)' <=> EverCovered(t)

LEMMA CoveringKept ==
    ASSUME NEW t, now' = now, PaidOrdersOf(t)' = PaidOrdersOf(t),
           \A o \in PaidOrdersOf(t) : order'[o] = order[o]
    PROVE  PlansCovering(t, {})' = PlansCovering(t, {})
<1> DEFINE covering == {o \in PaidOrdersOf(t) \ {} : order[o].start <= now /\ now < order[o].end}
           latest == {o \in covering : \A p \in covering : order[p].paidAt <= order[o].paidAt}
<1>1. covering' = covering  OBVIOUS
<1>2. covering \subseteq PaidOrdersOf(t)  OBVIOUS
<1>3. latest' = latest /\ latest \subseteq covering  BY <1>1, <1>2
<1>4. {order[o].plan : o \in latest}' = {order[o].plan : o \in latest}
  BY <1>2, <1>3
<1>5. PlansCovering(t, {}) = IF covering = {} THEN {"free"} ELSE {order[o].plan : o \in latest}
  BY DEF PlansCovering
<1>6. PlansCovering(t, {})' = (IF covering = {} THEN {"free"} ELSE {order[o].plan : o \in latest})'
  BY DEF PlansCovering
<1> QED  BY <1>1, <1>4, <1>5, <1>6

\* Beside the job, whatever is not written down as touched is as it was.
LEMMA OthersTouch ==
    ASSUME BillingAssumption, UseInv, stage = "due" => touched = {},
           \/ \E t \in Tenants, p \in BuyPlans, m \in Terms, c \in Codes \cup {NoCode} : Checkout(t, p, m, c)
           \/ \E o \in Orders : ProviderDecides(o) \/ RefuseNotification(o)
           \/ \E h \in Handlers : HandlerStep(h)
           \/ \E t \in Tenants : AddTarget(t) \/ \E p \in HandPlans : SetTenantPlan(t, p)
           \/ UNCHANGED vars
    PROVE  /\ UNCHANGED <<now, stage, left, seen, visiting, settling>>
           /\ stage = "due" => touched' = {}
           /\ stage # "due" => \A t \in Tenants \ touched' : TenantKept(t)
<1> USE DEF UseInv, TypeInv, TypeOK
\* Rows that change are no paid rows of the tenant, before or after.
<1>1. ASSUME NEW t \in Tenants, t \notin touched, plan'[t] = plan[t],
             \A q \in Orders :
                 \/ order'[q] = order[q]
                 \/ /\ order[q].status \in {"none", "created"} \/ order[q].tenant # t
                    /\ order'[q].status \in {"created", "failed"} \/ order'[q].tenant # t
      PROVE  TenantKept(t)
  <2>1. \A q \in Orders : q \in PaidOrdersOf(t)' <=> q \in PaidOrdersOf(t)
    BY <1>1 DEF PaidOrdersOf, OrdersOf
  <2>2. PaidOrdersOf(t)' = PaidOrdersOf(t)
    BY <2>1 DEF PaidOrdersOf, OrdersOf
  <2>3. \A q \in PaidOrdersOf(t) : order'[q] = order[q]
    BY <1>1 DEF PaidOrdersOf, OrdersOf
  <2>4. EverCovered(t)' <=> EverCovered(t)
    BY <1>1 DEF EverCovered, OrdersOf
  <2> QED  BY <1>1, <2>2, <2>3, <2>4 DEF TenantKept
<1>2. ASSUME NEW t \in Tenants, NEW p \in BuyPlans, NEW m \in Terms, NEW c \in Codes \cup {NoCode},
             Checkout(t, p, m, c)
      PROVE  \A s \in Tenants \ touched' : TenantKept(s)
  <2>1. PICK o \in NextIds : order' = [order EXCEPT ![o] =
             [Unused EXCEPT !.tenant = t, !.plan = p, !.months = m, !.code = c,
                            !.early = (p = "pro" /\ EarlyEligible(t)), !.status = "created"]]
    BY <1>2 DEF Checkout
  <2>2. o \in Orders /\ order[o].status = "none"  BY DEF NextIds, FreeSlots
  <2>3. order'[o].status = "created" /\ \A q \in Orders \ {o} : order'[q] = order[q]
    BY <2>1, <2>2 DEF Unused
  <2>4. UNCHANGED <<plan, touched>>  BY <1>2 DEF Checkout
  <2> QED  BY <1>1, <2>2, <2>3, <2>4
<1>3. ASSUME NEW o \in Orders, ProviderDecides(o) \/ RefuseNotification(o)
      PROVE  \A s \in Tenants \ touched' : TenantKept(s)
  <2>1. UNCHANGED <<plan, touched>> /\ order[o].status = "created"
    BY <1>3 DEF ProviderDecides, RefuseNotification
  <2>2. order' = order \/ order' = [order EXCEPT ![o].status = "failed"]
    BY <1>3 DEF ProviderDecides, RefuseNotification
  <2>3. \A q \in Orders \ {o} : order'[q] = order[q]  BY <2>2
  <2>4. order'[o] = order[o] \/ order'[o].status = "failed"
    BY <2>2 DEF OrderRow
  <2> QED  BY <1>1, <2>1, <2>3, <2>4
<1>4. ASSUME NEW h \in Handlers, NEW t \in Tenants, NEW p \in GrantPlans, NEW m \in Terms,
             NEW e \in BOOLEAN, GrantManual(h, t, p, m, e)
      PROVE  \A s \in Tenants \ touched' : TenantKept(s)
  <2>1. PICK o \in NextIds :
          order' = [order EXCEPT ![o] =
               [Unused EXCEPT !.tenant = t, !.plan = p, !.months = m, !.early = e,
                              !.provider = "manual", !.status = "created"]]
    BY <1>4 DEF GrantManual
  <2>2. o \in Orders /\ order[o].status = "none"  BY DEF NextIds, FreeSlots
  <2>3. order'[o].status = "created" /\ \A q \in Orders \ {o} : order'[q] = order[q]
    BY <2>1, <2>2 DEF Unused
  <2>4. UNCHANGED <<plan, touched>>  BY <1>4 DEF GrantManual
  <2> QED  BY <1>1, <2>2, <2>3, <2>4
<1>5. ASSUME NEW h \in Handlers, CommitApply(h), stage # "due"
      PROVE  \A s \in Tenants \ touched' : TenantKept(s)
  <2> DEFINE req == inflight[h]
             o == req.order
             payer == order[o].tenant
             inviter == Referrer[payer]
             paid == [order EXCEPT ![o] = PaidRow(@, req.start)]
             planPaid == [plan EXCEPT ![payer] = order[o].plan]
  <2>1. req \in Request /\ req.op = "reward" /\ o \in Orders /\ payer \in Tenants /\ order[o] \in OrderRow
    BY <1>5 DEF CommitApply, RowsOwned
  <2>2. paid[o].tenant = payer /\ \A q \in Orders \ {o} : paid[q] = order[q]
    BY <2>1 DEF PaidRow, OrderRow
  <2>3. CASE ~req.give
    <3>1. order' = paid /\ plan' = planPaid /\ touched' = touched \cup {payer}
      BY <1>5, <2>3 DEF CommitApply, Touch
    <3> QED  BY <1>1, <2>1, <2>2, <3>1
  <2>4. CASE req.give
    <3>1. PICK r \in NextIds : order' = [paid EXCEPT ![r] = RewardRow(inviter, req.plan, req.giveStart)]
      BY <1>5, <2>4 DEF CommitApply
    <3>2. r \in Orders /\ order[r].status = "none"  BY DEF NextIds, FreeSlots
    <3>3. order'[r] = RewardRow(inviter, req.plan, req.giveStart)  BY <3>1, <3>2
    <3>4. order'[r].tenant = inviter  BY <3>3 DEF RewardRow, Unused
    <3>5. \A q \in Orders \ {o, r} : order'[q] = order[q]  BY <2>2, <3>1
    <3>6. o # r  BY <2>1, <3>2 DEF RowsOwned
    <3>7. order'[o] = paid[o]  BY <2>1, <3>1, <3>6
    <3>8. touched' = touched \cup {payer, inviter}
      BY <1>5, <2>4 DEF CommitApply, Touch
    <3>9. plan' = planPaid \/ plan' = [planPaid EXCEPT ![inviter] = req.plan]
      BY <1>5, <2>4 DEF CommitApply
    <3>10. \A s \in Tenants \ {payer, inviter} : plan'[s] = plan[s]  BY <3>9
    <3> QED  BY <1>1, <2>1, <2>2, <3>2, <3>4, <3>5, <3>7, <3>8, <3>10
  <2> QED  BY <2>3, <2>4
<1>6. ASSUME NEW h \in Handlers, WriteRefund(h) \/ CommitConfirm(h), stage # "due"
      PROVE  \A s \in Tenants \ touched' : TenantKept(s)
  <2> DEFINE o == inflight[h].order
  <2>1. o \in Orders /\ order[o] \in OrderRow
    BY <1>6 DEF WriteRefund, CommitConfirm
  <2>2. /\ order'[o].tenant = order[o].tenant /\ \A q \in Orders \ {o} : order'[q] = order[q]
    BY <1>6, <2>1 DEF WriteRefund, CommitConfirm, OrderRow
  <2>3. /\ touched' = touched \cup {order[o].tenant}
        /\ \A s \in Tenants \ {order[o].tenant} : plan'[s] = plan[s]
    BY <1>6 DEF WriteRefund, CommitConfirm, Touch
  <2> QED  BY <1>1, <2>1, <2>2, <2>3
<1>7. ASSUME NEW t \in Tenants, NEW p \in HandPlans, SetTenantPlan(t, p), stage # "due"
      PROVE  \A s \in Tenants \ touched' : TenantKept(s)
  <2>1. order' = order /\ touched' = touched \cup {t} /\ \A s \in Tenants \ {t} : plan'[s] = plan[s]
    BY <1>7 DEF SetTenantPlan, Touch
  <2> QED  BY <1>1, <2>1
<1>8. ASSUME \/ \E h \in Handlers :
                  \/ \E o \in Orders : BeginApply(h, o) \/ BeginConfirm(h, o)
                  \/ \E t \in Tenants : BeginRefund(h, t)
                  \/ ReadReward(h) \/ Crash(h)
             \/ \E t \in Tenants : AddTarget(t)
             \/ UNCHANGED vars
      PROVE  \A s \in Tenants \ touched' : TenantKept(s)
  <2>1. UNCHANGED <<order, plan, touched>>
    BY <1>8 DEF BeginApply, BeginConfirm, BeginRefund, ReadReward, Crash, AddTarget, vars, tables
  <2> QED  BY <1>1, <2>1
<1>9. /\ UNCHANGED <<now, stage, left, seen, visiting, settling>>
      /\ stage = "due" => touched' = {}
  <2> DEFINE Apart == UNCHANGED <<now, stage, left, seen, visiting, settling>>
             Marked == stage = "due" => touched' = {}
  <2>1. ASSUME NEW t \in Tenants, NEW p \in BuyPlans, NEW m \in Terms, NEW c \in Codes \cup {NoCode},
               Checkout(t, p, m, c)
        PROVE  Apart /\ Marked
    BY <2>1 DEF Checkout, jobVars
  <2>2. ASSUME NEW o \in Orders, ProviderDecides(o) \/ RefuseNotification(o)
        PROVE  Apart /\ Marked
    BY <2>2 DEF ProviderDecides, RefuseNotification, jobVars
  <2>3. ASSUME NEW h \in Handlers, NEW o \in Orders, BeginApply(h, o) \/ BeginConfirm(h, o)
        PROVE  Apart /\ Marked
    BY <2>3 DEF BeginApply, BeginConfirm, jobVars
  <2>4. ASSUME NEW h \in Handlers, NEW t \in Tenants, BeginRefund(h, t)
        PROVE  Apart /\ Marked
    BY <2>4 DEF BeginRefund, jobVars
  <2>5. ASSUME NEW h \in Handlers, NEW t \in Tenants, NEW p \in GrantPlans, NEW m \in Terms,
               NEW e \in BOOLEAN, GrantManual(h, t, p, m, e)
        PROVE  Apart /\ Marked
    BY <2>5 DEF GrantManual, jobVars
  <2>6. ASSUME NEW h \in Handlers, ReadReward(h) \/ Crash(h)
        PROVE  Apart /\ Marked
    BY <2>6 DEF ReadReward, Crash, jobVars
  <2>7. ASSUME NEW h \in Handlers, CommitApply(h)
        PROVE  Apart /\ Marked
    BY <2>7 DEF CommitApply, Touch, jobVars
  <2>8. ASSUME NEW h \in Handlers, WriteRefund(h) \/ CommitConfirm(h)
        PROVE  Apart /\ Marked
    BY <2>8 DEF WriteRefund, CommitConfirm, Touch, jobVars
  <2>9. ASSUME NEW t \in Tenants, NEW p \in HandPlans, SetTenantPlan(t, p)
        PROVE  Apart /\ Marked
    BY <2>9 DEF SetTenantPlan, Touch, jobVars
  <2>10. ASSUME UNCHANGED vars PROVE Apart /\ Marked
    BY <2>10 DEF vars, jobVars
  <2>11. ASSUME NEW h \in Handlers, HandlerStep(h)
         PROVE  Apart /\ Marked
    BY <2>11, <2>3, <2>4, <2>5, <2>6, <2>7, <2>8 DEF HandlerStep
  <2>12. ASSUME NEW t \in Tenants, AddTarget(t)
         PROVE  Apart /\ Marked
    BY <2>12 DEF AddTarget, jobVars
  <2> HIDE DEF Apart, Marked
  <2>13. Apart /\ Marked
    <3>1. CASE \E t \in Tenants, p \in BuyPlans, m \in Terms, c \in Codes \cup {NoCode} : Checkout(t, p, m, c)
      BY <3>1, <2>1, Zenon
    <3>2. CASE \E o \in Orders : ProviderDecides(o) \/ RefuseNotification(o)
      BY <3>2, <2>2, Zenon
    <3>3. CASE \E h \in Handlers : HandlerStep(h)
      BY <3>3, <2>11, Zenon
    <3>4. CASE \E t \in Tenants : AddTarget(t) \/ \E p \in HandPlans : SetTenantPlan(t, p)
      BY <3>4, <2>9, <2>12, Zenon
    <3> QED  BY <3>1, <3>2, <3>3, <3>4, <2>10
  <2> QED  BY <2>13 DEF Apart, Marked
<1>11. stage # "due" => \A t \in Tenants \ touched' : TenantKept(t)
  BY <1>2, <1>3, <1>4, <1>5, <1>6, <1>7, <1>8 DEF HandlerStep
<1> QED  BY <1>9, <1>11

LEMMA OthersSettle ==
    ASSUME BillingAssumption, SettleInv,
           \/ \E t \in Tenants, p \in BuyPlans, m \in Terms, c \in Codes \cup {NoCode} : Checkout(t, p, m, c)
           \/ \E o \in Orders : ProviderDecides(o) \/ RefuseNotification(o)
           \/ \E h \in Handlers : HandlerStep(h)
           \/ \E t \in Tenants : AddTarget(t) \/ \E p \in HandPlans : SetTenantPlan(t, p)
           \/ UNCHANGED vars
    PROVE  JobKnows'
<1>1. /\ UNCHANGED <<now, stage, left, seen, visiting, settling>>
      /\ stage = "due" => touched' = {}
      /\ stage # "due" => \A t \in Tenants \ touched' : TenantKept(t)
  BY OthersTouch DEF SettleInv, JobKnows
<1>2. ASSUME stage # "due", NEW t \in Tenants \ touched'
      PROVE  /\ t \notin touched /\ plan'[t] = plan[t] /\ (EverCovered(t)' <=> EverCovered(t))
             /\ PlansCovering(t, {})' = PlansCovering(t, {})
             /\ (Covered(t)' <=> Covered(t)) /\ (Unsettled(t)' <=> Unsettled(t))
  <2>1. TenantKept(t)  BY <1>1, <1>2
  <2>2. PlansCovering(t, {})' = PlansCovering(t, {})
    BY <1>1, <2>1, CoveringKept DEF TenantKept
  <2> QED  BY <1>1, <2>1, <2>2 DEF TenantKept, Covered, Unsettled
<1>3. stage' = "due" => touched' = {}  BY <1>1
<1>4. stage' \in {"expire", "settle", "write", "pause"} =>
         \A t \in Tenants \ touched' :
             /\ t \in left' => plan'[t] = seen'[t]
             /\ t \notin left' /\ EverCovered(t)' /\ ~Unsettled(t)' => Covered(t)'
  BY <1>1, <1>2 DEF SettleInv, JobKnows
<1>5. stage' \in {"settle", "write", "pause"} => visiting' \notin left'
  BY <1>1 DEF SettleInv, JobKnows
<1>6. stage' = "write" /\ visiting' \notin touched' => settling' \in PlansCovering(visiting, {})'
  <2>1. stage = "write" => visiting \in Tenants  BY DEF SettleInv, UseInv, TypeInv, TypeOK
  <2> QED  BY <1>1, <1>2, <2>1 DEF SettleInv, JobKnows
<1>7. stage' \in {"trials", "done"} => \A t \in Tenants \ touched' : EverCovered(t)' => Covered(t)'
  BY <1>1, <1>2 DEF SettleInv, JobKnows
<1> QED  BY <1>3, <1>4, <1>5, <1>6, <1>7 DEF JobKnows

\* The steps of the job itself.
LEMMA JobSettles ==
    ASSUME BillingAssumption, SettleInv, JobStep \/ JobCrash \/ Tick
    PROVE  JobKnows'
<1> USE DEF SettleInv, UseInv, TypeInv, TypeOK
<1>1. CASE JobCrash \/ Tick
  BY <1>1 DEF JobCrash, Tick, JobKnows
<1>2. ASSUME JobStep
      PROVE  UNCHANGED <<now, order, touched>> /\ \A t : PlansCovering(t, {})' = PlansCovering(t, {})
  <2>1. UNCHANGED <<now, order, touched>>
    BY <1>2 DEF JobStep, JobList, JobVisit, JobSettle, JobWrite, JobPause, JobListTrials, JobCloseTrial,
                JobFinish, tables
  <2>2. \A t : PaidOrdersOf(t)' = PaidOrdersOf(t)  BY <2>1 DEF PaidOrdersOf, OrdersOf
  <2> QED  BY <2>1, <2>2, CoveringKept
<1>3. ASSUME JobStep  PROVE \A t : EverCovered(t)' <=> EverCovered(t)
  BY <1>2, <1>3 DEF EverCovered, OrdersOf
<1>4. ASSUME JobStep, plan' = plan  PROVE \A t : Covered(t)' <=> Covered(t)
  BY <1>2, <1>4 DEF Covered
<1>5. CASE JobList
  <2>1. /\ left' = {t \in Tenants : EverCovered(t)} /\ seen' = plan /\ stage' = "expire" /\ plan' = plan
    BY <1>5 DEF JobList, EverCovered, tables
  <2>2. JobStep  BY <1>5 DEF JobStep
  <2> QED  BY <1>3, <2>1, <2>2 DEF JobKnows
<1>6. ASSUME NEW t \in Tenants, JobVisit(t)  PROVE JobKnows'
  <2>1. JobStep /\ plan' = plan /\ seen' = seen /\ stage = "expire" /\ t \in left /\ left' = left \ {t}
    BY <1>6 DEF JobStep, JobVisit, tables
  <2>2. \/ stage' = "expire" /\ seen[t] \in PlansCovering(t, {})
        \/ stage' = "settle" /\ visiting' = t
    BY <1>6 DEF JobVisit
  <2>3. CASE stage' = "expire" /\ seen[t] \in PlansCovering(t, {})
    <3>1. t \notin touched => Covered(t)  BY <2>1, <2>3 DEF JobKnows, Covered
    <3>2. \A s : ~Unsettled(s)  BY <2>1 DEF Unsettled
    <3> QED  BY <1>2, <1>3, <1>4, <2>1, <2>3, <3>1, <3>2 DEF JobKnows
  <2>4. CASE stage' = "settle" /\ visiting' = t
    <3>1. \A s : Unsettled(s)' <=> s = t  BY <2>4 DEF Unsettled
    <3>2. \A s : ~Unsettled(s)  BY <2>1 DEF Unsettled
    <3> QED  BY <1>2, <1>3, <1>4, <2>1, <2>4, <3>1, <3>2 DEF JobKnows
  <2> QED  BY <2>2, <2>3, <2>4
<1>7. CASE JobSettle
  <2>1. /\ JobStep /\ plan' = plan /\ stage = "settle" /\ stage' = "write"
        /\ UNCHANGED <<left, seen, visiting>> /\ settling' \in PlansCovering(visiting, {})
    BY <1>7 DEF JobStep, JobSettle, tables
  <2>2. \A t : Unsettled(t)' <=> Unsettled(t)  BY <2>1 DEF Unsettled
  <2>3. settling' \in PlansCovering(visiting, {})'  BY <1>2, <2>1
  <2> QED  BY <1>2, <1>3, <1>4, <2>1, <2>2, <2>3 DEF JobKnows
<1>8. CASE JobWrite
  <2>1. /\ JobStep /\ stage = "write" /\ stage' \in {"pause", "expire"} /\ UNCHANGED <<left, seen, visiting>>
        /\ visiting \in Tenants /\ visiting \notin left
        /\ plan' = [plan EXCEPT ![visiting] = settling]
    BY <1>8 DEF JobStep, JobWrite, JobKnows
  <2>2. visiting \notin touched => Covered(visiting)'
    BY <1>2, <2>1 DEF JobKnows, Covered
  <2>3. \A t \in Tenants \ {visiting} : plan'[t] = plan[t] /\ (Covered(t)' <=> Covered(t)) /\ ~Unsettled(t)
    BY <1>2, <2>1 DEF Covered, Unsettled
  <2> QED  BY <1>2, <1>3, <2>1, <2>2, <2>3 DEF JobKnows
<1>9. CASE JobPause
  <2>1. /\ JobStep /\ plan' = plan /\ stage = "pause" /\ stage' = "expire" /\ UNCHANGED <<left, seen, visiting>>
    BY <1>9 DEF JobStep, JobPause
  <2>2. \A t : ~Unsettled(t)  BY <2>1 DEF Unsettled
  <2> QED  BY <1>2, <1>3, <1>4, <2>1, <2>2 DEF JobKnows
<1>10. CASE JobListTrials
  <2>1. JobStep /\ plan' = plan /\ stage = "expire" /\ left = {} /\ stage' = "trials"
    BY <1>10 DEF JobStep, JobListTrials, tables
  <2>2. \A t : ~Unsettled(t)  BY <2>1 DEF Unsettled
  <2> QED  BY <1>2, <1>3, <1>4, <2>1, <2>2 DEF JobKnows
<1>11. CASE JobFinish \/ \E t \in Tenants : JobCloseTrial(t)
  <2>1. JobStep /\ plan' = plan /\ stage = "trials" /\ stage' \in {"trials", "done"}
    BY <1>11 DEF JobStep, JobFinish, JobCloseTrial, tables
  <2> QED  BY <1>2, <1>3, <1>4, <2>1 DEF JobKnows
<1> QED  BY <1>1, <1>5, <1>6, <1>7, <1>8, <1>9, <1>10, <1>11 DEF JobStep

LEMMA SettleInit == BillingAssumption /\ FiniteTables /\ Init => SettleInv
  BY UseInit DEF Init, SettleInv, JobKnows

LEMMA SettleStep == BillingAssumption /\ FiniteTables /\ SettleInv /\ [Next]_vars => SettleInv'
<1> SUFFICES ASSUME BillingAssumption, FiniteTables, SettleInv, [Next]_vars  PROVE SettleInv'
  OBVIOUS
<1>1. UseInv'  BY UseStep DEF SettleInv
<1>2. JobKnows'  BY OthersSettle, JobSettles DEF Next
<1> QED  BY <1>1, <1>2 DEF SettleInv

\* expirePaidPlans: however requests, crashes of them and restarts of the job
\* come between its listing, its reading and its writing, once it is done every
\* tenant that has ever paid, and that nothing else touched meanwhile, has the
\* plan its paid time covers.
THEOREM JobSettlesPlans == Spec => []SettledPlan
<1>1. Spec => []SettleInv
  BY BillingAssumption, FiniteTables, SettleInit, SettleStep, PTL DEF Spec
<1>2. SettleInv => SettledPlan
  BY DEF SettleInv, JobKnows, SettledPlan, EverCovered, Covered
<1> QED  BY <1>1, <1>2, PTL

-----------------------------------------------------------------------------
(* No tenant left to Free watches more than Free allows *)

\* The owner's hand, and a worker that restarts between the two writes of
\* settleTenantPlan, do leave a tenant of Free with more: see the README.
NotFreeByHand == "free" \notin HandPlans
JobUninterrupted == MaxJobCrashes = 0

\* Today's job has the tenant's targets still to pause: the trial ended today
\* and is not listed yet, or is listed, or the plan was just written.
ToBePaused(t) ==
    \/ stage \in {"due", "expire", "settle", "write", "pause"} /\ TrialEndsAt[t] = now
    \/ stage = "trials" /\ t \in left
    \/ stage = "pause" /\ visiting = t

FreeKept ==
    \A t \in Tenants : EffectivePlan(t) = "free" =>
        watch[t].active <= TargetLimit["free"] \/ ToBePaused(t)

FreeInv == TypeInv /\ FreeKept

\* The plan in force is Free when no plan is paid and no trial is ahead.
LEMMA FreePlan ==
    ASSUME NEW t
    PROVE  EffectivePlan(t) = "free" <=> plan[t] = "free" /\ ~(TrialEndsAt[t] > now)
  BY DEF EffectivePlan

LEMMA PauseExcessLimits ==
    ASSUME BillingAssumption, NEW w \in [active: Nat, paused: Nat]
    PROVE  PauseExcess(w).active <= TargetLimit["free"]
<1>1. TargetLimit["free"] \in Nat  BY DEF BillingAssumption, PlanNames
<1> QED  BY <1>1 DEF PauseExcess

\* Steps that give no tenant Free, and leave the targets, the job and the day alone.
LEMMA FreeUndisturbed ==
    ASSUME FreeKept, UNCHANGED <<now, watch, stage, left, visiting>>,
           \A t \in Tenants : plan'[t] = plan[t] \/ plan'[t] # "free"
    PROVE  FreeKept'
<1>1. \A t \in Tenants : EffectivePlan(t)' = "free" => EffectivePlan(t) = "free"
  BY DEF EffectivePlan
<1>2. \A t \in Tenants : ToBePaused(t) => ToBePaused(t)'  BY DEF ToBePaused
<1> QED  BY <1>1, <1>2 DEF FreeKept

LEMMA HandlersKeepFree ==
    ASSUME BillingAssumption, FreeInv, NEW h \in Handlers, HandlerStep(h)
    PROVE  FreeKept'
<1> USE DEF FreeInv, TypeInv, TypeOK
<1>1. CASE \/ \E o \in Orders : BeginApply(h, o) \/ BeginConfirm(h, o)
           \/ \E t \in Tenants, p \in GrantPlans, m \in Terms, e \in BOOLEAN : GrantManual(h, t, p, m, e)
           \/ \E t \in Tenants : BeginRefund(h, t)
           \/ ReadReward(h) \/ WriteRefund(h) \/ Crash(h)
  <2>1. UNCHANGED <<now, plan, watch, stage, left, visiting>>
    BY <1>1 DEF BeginApply, BeginConfirm, GrantManual, BeginRefund, ReadReward, WriteRefund, Crash,
                tables, jobVars
  <2> QED  BY <2>1, FreeUndisturbed
<1>2. CASE CommitApply(h)
  <2> DEFINE req == inflight[h]
             payer == order[req.order].tenant
             inviter == Referrer[payer]
             planPaid == [plan EXCEPT ![payer] = order[req.order].plan]
  <2>1. UNCHANGED <<now, watch, stage, left, visiting>>
    BY <1>2 DEF CommitApply, jobVars
  <2>2. order[req.order].plan \in PaidPlans /\ (req.give => req.plan \in PaidPlans)
    BY <1>2 DEF CommitApply, RowsOwned, OrderRow
  <2>3. \/ plan' = planPaid
        \/ req.give /\ plan' = [planPaid EXCEPT ![inviter] = req.plan]
    BY <1>2 DEF CommitApply
  <2>4. \A t \in Tenants : plan'[t] = plan[t] \/ plan'[t] \in PaidPlans
    BY <2>2, <2>3
  <2> QED  BY <2>1, <2>4, FreeUndisturbed DEF PaidPlans
<1>3. CASE CommitConfirm(h)
  <2> DEFINE t == order[inflight[h].order].tenant
             p == inflight[h].plan
  <2>1. /\ UNCHANGED <<now, stage, left, visiting>> /\ plan' = [plan EXCEPT ![t] = p]
        /\ watch' = IF p = "free" THEN [watch EXCEPT ![t] = PauseExcess(@)] ELSE watch
    BY <1>3 DEF CommitConfirm, jobVars
  <2>2. t \in Tenants  BY <1>3 DEF CommitConfirm, RowsOwned
  <2>3. CASE p # "free"
    <3>1. watch' = watch /\ \A s \in Tenants : plan'[s] = plan[s] \/ plan'[s] # "free"
      BY <2>1, <2>3
    <3> QED  BY <2>1, <3>1, FreeUndisturbed
  <2>4. CASE p = "free"
    <3>1. watch' = [watch EXCEPT ![t] = PauseExcess(@)]  BY <2>1, <2>4
    <3>2. watch'[t].active <= TargetLimit["free"]  BY <2>2, <3>1, PauseExcessLimits
    <3>3. \A s \in Tenants \ {t} : /\ watch'[s] = watch[s]
                                   /\ EffectivePlan(s)' = "free" => EffectivePlan(s) = "free"
      BY <2>1, <3>1 DEF EffectivePlan
    <3>4. \A s \in Tenants : ToBePaused(s) => ToBePaused(s)'  BY <2>1 DEF ToBePaused
    <3> QED  BY <3>2, <3>3, <3>4 DEF FreeKept
  <2> QED  BY <2>3, <2>4
<1> QED  BY <1>1, <1>2, <1>3 DEF HandlerStep

LEMMA JobKeepsFree ==
    ASSUME BillingAssumption, FreeInv, JobStep
    PROVE  FreeKept'
<1> USE DEF FreeInv, TypeInv, TypeOK
<1>1. now \in Nat /\ TargetLimit["free"] \in Nat /\ \A t \in Tenants : TrialEndsAt[t] \in Nat
  BY DEF BillingAssumption, PlanNames
<1>2. ASSUME UNCHANGED <<now, plan, watch>>, \A t \in Tenants : ToBePaused(t) => ToBePaused(t)'
      PROVE  FreeKept'
  BY <1>2 DEF FreeKept, EffectivePlan
<1>3. CASE JobList \/ JobSettle \/ \E t \in Tenants : JobVisit(t)
  <2>1. UNCHANGED <<now, plan, watch>> /\ stage \in {"due", "expire", "settle"}
        /\ stage' \in {"due", "expire", "settle", "write", "pause"}
    BY <1>3 DEF JobList, JobSettle, JobVisit, tables
  <2>2. \A t \in Tenants : ToBePaused(t) => ToBePaused(t)'  BY <2>1 DEF ToBePaused
  <2> QED  BY <1>2, <2>1, <2>2
<1>4. CASE JobWrite
  <2>1. /\ UNCHANGED <<now, watch, visiting>> /\ stage = "write" /\ stage' \in {"pause", "expire"}
        /\ plan' = [plan EXCEPT ![visiting] = settling] /\ (settling = "free" => stage' = "pause")
    BY <1>4 DEF JobWrite
  <2>2. \A t \in Tenants : ToBePaused(t) => ToBePaused(t)'  BY <2>1 DEF ToBePaused
  <2>3. \A t \in Tenants \ {visiting} : EffectivePlan(t)' = "free" => EffectivePlan(t) = "free"
    BY <2>1 DEF EffectivePlan
  <2>4. visiting \in Tenants /\ EffectivePlan(visiting)' = "free" => ToBePaused(visiting)'
    BY <2>1 DEF EffectivePlan, ToBePaused
  <2> QED  BY <2>1, <2>2, <2>3, <2>4 DEF FreeKept
<1>5. CASE JobPause
  <2>1. /\ UNCHANGED <<now, plan, visiting>> /\ stage = "pause" /\ stage' = "expire" /\ visiting \in Tenants
        /\ watch' = [watch EXCEPT ![visiting] = PauseExcess(@)]
    BY <1>5 DEF JobPause
  <2>2. watch'[visiting].active <= TargetLimit["free"]  BY <2>1, PauseExcessLimits
  <2>3. \A t \in Tenants \ {visiting} : watch'[t] = watch[t] /\ (ToBePaused(t) => ToBePaused(t)')
    BY <2>1 DEF ToBePaused
  <2>4. \A t \in Tenants : EffectivePlan(t)' = EffectivePlan(t)  BY <2>1 DEF EffectivePlan
  <2> QED  BY <2>2, <2>3, <2>4 DEF FreeKept
<1>6. CASE JobListTrials
  <2>1. /\ UNCHANGED <<now, plan, watch>> /\ stage = "expire" /\ stage' = "trials"
        /\ left' = {t \in Tenants : plan[t] = "free" /\ TrialEndsAt[t] <= now /\ TrialEndsAt[t] + 1 > now}
    BY <1>6 DEF JobListTrials, tables
  <2>2. \A t \in Tenants : ToBePaused(t) /\ plan[t] = "free" => ToBePaused(t)'
    BY <1>1, <2>1 DEF ToBePaused
  <2>3. \A t \in Tenants : EffectivePlan(t)' = "free" => EffectivePlan(t) = "free" /\ plan[t] = "free"
    BY <2>1 DEF EffectivePlan
  <2> QED  BY <2>1, <2>2, <2>3 DEF FreeKept
<1>7. ASSUME NEW t \in Tenants, JobCloseTrial(t)  PROVE FreeKept'
  <2>1. /\ UNCHANGED <<now, plan, stage>> /\ stage = "trials" /\ left' = left \ {t}
        /\ watch' = [watch EXCEPT ![t] = PauseExcess(@)]
    BY <1>7 DEF JobCloseTrial
  <2>2. watch'[t].active <= TargetLimit["free"]  BY <2>1, PauseExcessLimits
  <2>3. \A s \in Tenants \ {t} : watch'[s] = watch[s] /\ (ToBePaused(s) => ToBePaused(s)')
    BY <2>1 DEF ToBePaused
  <2>4. \A s \in Tenants : EffectivePlan(s)' = EffectivePlan(s)  BY <2>1 DEF EffectivePlan
  <2> QED  BY <2>2, <2>3, <2>4 DEF FreeKept
<1>8. CASE JobFinish
  <2>1. UNCHANGED <<now, plan, watch>> /\ stage = "trials" /\ left = {}
    BY <1>8 DEF JobFinish, tables
  <2>2. \A t \in Tenants : ~ToBePaused(t)  BY <2>1 DEF ToBePaused
  <2> QED  BY <1>2, <2>1, <2>2
<1> QED  BY <1>3, <1>4, <1>5, <1>6, <1>7, <1>8 DEF JobStep

LEMMA RestKeepsFree ==
    ASSUME BillingAssumption, NotFreeByHand, JobUninterrupted, FreeInv,
           \/ \E t \in Tenants, p \in BuyPlans, m \in Terms, c \in Codes \cup {NoCode} : Checkout(t, p, m, c)
           \/ \E o \in Orders : ProviderDecides(o) \/ RefuseNotification(o)
           \/ JobCrash \/ Tick
           \/ \E t \in Tenants : AddTarget(t) \/ \E p \in HandPlans : SetTenantPlan(t, p)
           \/ UNCHANGED vars
    PROVE  FreeKept'
<1> USE DEF FreeInv, TypeInv, TypeOK
<1>1. CASE \/ \E t \in Tenants, p \in BuyPlans, m \in Terms, c \in Codes \cup {NoCode} : Checkout(t, p, m, c)
           \/ \E o \in Orders : ProviderDecides(o) \/ RefuseNotification(o)
           \/ UNCHANGED vars
  <2>1. UNCHANGED <<now, plan, watch, stage, left, visiting>>
    BY <1>1 DEF Checkout, ProviderDecides, RefuseNotification, vars, tables, jobVars
  <2> QED  BY <2>1, FreeUndisturbed
<1>2. ASSUME NEW t \in Tenants, NEW p \in HandPlans, SetTenantPlan(t, p)  PROVE FreeKept'
  <2>1. UNCHANGED <<now, watch, stage, left, visiting>> /\ plan' = [plan EXCEPT ![t] = p] /\ p # "free"
    BY <1>2 DEF SetTenantPlan, jobVars, NotFreeByHand
  <2>2. \A s \in Tenants : plan'[s] = plan[s] \/ plan'[s] # "free"  BY <2>1
  <2> QED  BY <2>1, <2>2, FreeUndisturbed
<1>3. ASSUME JobCrash  PROVE FALSE
  BY <1>3 DEF JobCrash, JobUninterrupted
<1>4. ASSUME NEW t \in Tenants, AddTarget(t)  PROVE FreeKept'
  <2>1. /\ UNCHANGED <<now, plan, stage, left, visiting>>
        /\ watch[t].active + watch[t].paused < TargetLimit[EffectivePlan(t)]
        /\ watch' = [watch EXCEPT ![t].active = @ + 1]
    BY <1>4 DEF AddTarget, jobVars
  <2>2. \A s \in Tenants : EffectivePlan(s)' = EffectivePlan(s) /\ (ToBePaused(s) => ToBePaused(s)')
    BY <2>1 DEF EffectivePlan, ToBePaused
  <2>3. EffectivePlan(t) = "free" => watch'[t].active <= TargetLimit["free"]
    <3>1. watch[t] \in [active: Nat, paused: Nat] /\ TargetLimit["free"] \in Nat
      BY DEF BillingAssumption, PlanNames
    <3>2. watch'[t].active = watch[t].active + 1  BY <2>1, <3>1
    <3> QED  BY <2>1, <3>1, <3>2
  <2>4. \A s \in Tenants \ {t} : watch'[s] = watch[s]  BY <2>1
  <2> QED  BY <2>2, <2>3, <2>4 DEF FreeKept
<1>5. CASE Tick
  <2>1. UNCHANGED <<plan, watch>> /\ now' = now + 1 /\ stage = "done" /\ stage' = "due"
    BY <1>5 DEF Tick, tables
  <2>2. \A t \in Tenants : ~ToBePaused(t)  BY <2>1 DEF ToBePaused
  <2>3. ASSUME NEW t \in Tenants, EffectivePlan(t)' = "free"
        PROVE  watch'[t].active <= TargetLimit["free"] \/ ToBePaused(t)'
    <3>1. plan[t] = "free" /\ ~(TrialEndsAt[t] > now + 1)
      BY <2>1, <2>3 DEF EffectivePlan
    <3>2. CASE TrialEndsAt[t] = now + 1  BY <2>1, <3>2 DEF ToBePaused
    <3>3. CASE TrialEndsAt[t] # now + 1
      <4>1. ~(TrialEndsAt[t] > now)  BY <3>1, <3>3 DEF BillingAssumption
      <4>2. watch[t].active <= TargetLimit["free"]  BY <2>2, <3>1, <4>1, FreePlan DEF FreeKept
      <4> QED  BY <2>1, <4>2
    <3> QED  BY <3>2, <3>3
  <2> QED  BY <2>3 DEF FreeKept
<1> QED  BY <1>1, <1>2, <1>3, <1>4, <1>5

LEMMA FreeInit == BillingAssumption /\ Init => FreeInv
<1> SUFFICES ASSUME BillingAssumption, Init  PROVE FreeInv
  OBVIOUS
<1>1. TypeInv  BY TypeInit
<1>2. TargetLimit["free"] \in Nat  BY DEF BillingAssumption, PlanNames
<1>3. \A t \in Tenants : watch[t].active = 0  BY DEF Init
<1> QED  BY <1>1, <1>2, <1>3 DEF FreeInv, FreeKept

LEMMA FreeStep ==
    BillingAssumption /\ NotFreeByHand /\ JobUninterrupted /\ FreeInv /\ [Next]_vars => FreeInv'
<1> SUFFICES ASSUME BillingAssumption, NotFreeByHand, JobUninterrupted, FreeInv, [Next]_vars
             PROVE  FreeInv'
  OBVIOUS
<1>1. TypeInv'  BY TypeStep DEF FreeInv
<1>2. FreeKept'  BY HandlersKeepFree, JobKeepsFree, RestKeepsFree DEF Next
<1> QED  BY <1>1, <1>2 DEF FreeInv

\* maxTargets of Free: while nobody sets Free by hand and the daily job is not
\* restarted half way, a tenant whose paid time and trial are over watches no
\* more than Free allows once the job of the day is done, however payments,
\* refunds, new targets and ends of trials interleave with it.
THEOREM FreeStaysWithinLimit ==
    ASSUME NotFreeByHand, JobUninterrupted
    PROVE  Spec => []FreeWithinLimit
<1>1. FreeInv /\ [Next]_vars => FreeInv'
  BY BillingAssumption, NotFreeByHand, JobUninterrupted, FreeStep
<1>2. Init => FreeInv
  BY BillingAssumption, FreeInit
<1>3. Spec => []FreeInv
  BY <1>1, <1>2, PTL DEF Spec
<1>4. FreeInv => FreeWithinLimit
  BY DEF FreeInv, FreeKept, ToBePaused, FreeWithinLimit
<1> QED  BY <1>3, <1>4, PTL

-----------------------------------------------------------------------------
(* Sequences of requests *)

\* A sequence of what it holds.
Listed(s) == s \in Seq({s[i] : i \in DOMAIN s})

LEMMA ListedIs ==
    ASSUME NEW s, Listed(s)
    PROVE  Len(s) \in Nat /\ DOMAIN s = 1 .. Len(s)
  BY DEF Listed

LEMMA OwnList ==
    ASSUME NEW S, NEW s \in Seq(S)
    PROVE  Listed(s)
<1>1. Len(s) \in Nat /\ DOMAIN s = 1 .. Len(s) /\ s \in [1 .. Len(s) -> S]  OBVIOUS
<1>2. s \in [1 .. Len(s) -> {s[i] : i \in DOMAIN s}]  BY <1>1
<1> QED  BY <1>1, <1>2 DEF Listed

LEMMA SingleList ==
    ASSUME NEW r
    PROVE  Listed(<<r>>) /\ \A i \in DOMAIN <<r>> : <<r>>[i] = r
<1>1. <<r>> \in Seq({r})  OBVIOUS
<1>2. \A i \in DOMAIN <<r>> : <<r>>[i] = r  OBVIOUS
<1> QED  BY <1>1, <1>2, OwnList

LEMMA Appending ==
    ASSUME NEW s, Listed(s), NEW r
    PROVE  /\ Listed(Append(s, r)) /\ DOMAIN Append(s, r) = 1 .. Len(s) + 1
           /\ \A j \in 1 .. Len(s) : Append(s, r)[j] = s[j]
           /\ Append(s, r)[Len(s) + 1] = r
<1>0. PICK t : t = Append(s, r)  OBVIOUS
<1>1. PICK S : S = {s[i] : i \in DOMAIN s}  OBVIOUS
<1>2. s \in Seq(S)  BY <1>1 DEF Listed
<1>3. s \in Seq(S \cup {r}) /\ r \in S \cup {r}  BY <1>2
<1>4. t \in Seq(S \cup {r}) /\ Len(t) = Len(s) + 1  BY <1>0, <1>3
<1>5. Listed(t)  BY <1>4, OwnList
<1>6. (\A j \in 1 .. Len(s) : t[j] = s[j]) /\ t[Len(s) + 1] = r  BY <1>0, <1>3
<1> QED  BY <1>0, <1>4, <1>5, <1>6

\* The same places, other requests.
LEMMA Mapping ==
    ASSUME NEW s, Listed(s), NEW t, DOMAIN t = DOMAIN s, t = [i \in DOMAIN s |-> t[i]]
    PROVE  Listed(t) /\ DOMAIN t = DOMAIN s /\ Len(t) = Len(s)
<1>1. DOMAIN s = 1 .. Len(s) /\ Len(s) \in Nat  BY ListedIs
<1>2. PICK n \in Nat : n = Len(s)  BY <1>1
<1>3. t \in [1 .. n -> {t[i] : i \in DOMAIN t}]  BY <1>1, <1>2
<1>4. t \in Seq({t[i] : i \in DOMAIN t})  BY <1>3
<1>5. Len(t) = n  BY <1>3, <1>4
<1> QED  BY <1>2, <1>4, <1>5 DEF Listed

LEMMA Removing ==
    ASSUME NEW s, Listed(s), NEW i \in DOMAIN s, NEW t, t = RemoveAt(s, i)
    PROVE  /\ Listed(t) /\ DOMAIN t = 1 .. Len(s) - 1
           /\ \A j \in 1 .. Len(s) - 1 : t[j] = s[IF j < i THEN j ELSE j + 1]
<1>1. PICK S : S = {s[j] : j \in DOMAIN s}  OBVIOUS
<1>2. s \in Seq(S)  BY <1>1 DEF Listed
<1>3. PICK n \in Nat : n = Len(s)  BY <1>2
<1>4. i \in 1 .. n  BY <1>2, <1>3
<1>5. /\ SubSeq(s, 1, i - 1) \in Seq(S) /\ Len(SubSeq(s, 1, i - 1)) = i - 1
      /\ \A k \in 1 .. i - 1 : SubSeq(s, 1, i - 1)[k] = s[k]
  BY <1>2, <1>3, <1>4
<1>6. /\ SubSeq(s, i + 1, n) \in Seq(S) /\ Len(SubSeq(s, i + 1, n)) = n - i
      /\ \A k \in 1 .. n - i : SubSeq(s, i + 1, n)[k] = s[i + k]
  BY <1>2, <1>3, <1>4
<1>7. PICK a \in Seq(S) : /\ a = SubSeq(s, 1, i - 1) /\ Len(a) = i - 1
                          /\ \A k \in 1 .. i - 1 : a[k] = s[k]
  BY <1>5
<1>8. PICK b \in Seq(S) : /\ b = SubSeq(s, i + 1, n) /\ Len(b) = n - i
                          /\ \A k \in 1 .. n - i : b[k] = s[i + k]
  BY <1>6
<1>9. ASSUME NEW k \in 1 .. n - 1 PROVE (a \o b)[k] = s[IF k < i THEN k ELSE k + 1]
  <2>1. CASE k < i  BY <1>3, <1>4, <1>7, <1>8, <2>1
  <2>2. CASE ~(k < i)
    <3>0. Len(a) = i - 1 /\ Len(b) = n - i /\ i \in Nat /\ n \in Nat /\ k \in Nat  BY <1>4, <1>7, <1>8
    <3>1. k \in Int /\ k \in 1 .. Len(a) + Len(b) /\ Len(a) < k /\ k - (i - 1) \in 1 .. n - i
      BY <3>0, <1>4, <2>2
    <3>2. (a \o b)[k] = b[k - Len(a)]  BY <3>1
    <3>3. b[k - (i - 1)] = s[i + (k - (i - 1))] /\ i + (k - (i - 1)) = k + 1  BY <1>4, <1>8, <3>1
    <3> QED  BY <1>7, <2>2, <3>2, <3>3
  <2> QED  BY <2>1, <2>2
<1>11. t = a \o b  BY <1>3, <1>7, <1>8 DEF RemoveAt
<1>12. a \o b \in Seq(S) /\ Len(a \o b) = n - 1  BY <1>4, <1>7, <1>8
<1>10. Listed(t)  BY <1>11, <1>12, OwnList
<1>13. DOMAIN t = 1 .. n - 1  BY <1>11, <1>12
<1> QED  BY <1>3, <1>9, <1>10, <1>11, <1>13

-----------------------------------------------------------------------------
(* Checkout: the inductive invariant *)

QuoteShaped(q) ==
    /\ q = [price |-> q.price, refused |-> q.refused, fresh |-> q.fresh]
    /\ q.fresh \in BOOLEAN

Shaped(r) ==
    /\ r = [op |-> r.op, term |-> r.term, code |-> r.code, plan |-> r.plan, stage |-> r.stage, seen |-> r.seen,
            answer |-> r.answer, shown |-> r.shown, sure |-> r.sure]
    /\ QuoteShaped(r.answer) /\ r.sure \in BOOLEAN /\ r.seen \in Nat
    /\ r.op \in {"quote", "buy"} /\ r.stage \in {"sent", "redeem", "answered", "failed"}
    /\ r.stage = "redeem" => r.op = "quote" /\ IsTrial(r.code)

\* An answer that nothing has made old says what the tables say now ...
AnswerSays(r) ==
    r.op = "quote" /\ r.stage = "answered" /\ r.answer.fresh /\ ~IsTrial(r.code)
        => r.answer = quotePlans(r.code, acquired, r.term)

\* ... and so does the price an order is sure of.
OrderSays(r) ==
    r.op = "buy" /\ r.sure => r.shown = quoteFor(r.code, acquired, r.plan, r.term)

QuoteUnderWay(s) == \E i \in DOMAIN s : s[i].op = "quote"

\* The prices asked for last are those of the term chosen.
LastAsked == ~astray =>
    \A i \in DOMAIN sent :
        sent[i].op = "quote" /\ (\A j \in DOMAIN sent : j > i => sent[j].op # "quote") => sent[i].term = months

PageSays ==
    ~astray /\ quotes.fresh /\ ~IsTrial(sentCode) /\ ~QuoteUnderWay(sent)
        => quotes = quotePlans(sentCode, acquired, months)

\* One who redeems alone writes over the end he read.
RedeemsTrue ==
    overtaken \/ \A i \in DOMAIN sent : sent[i].stage = "redeem" => sent[i].seen = trialEnds

CheckoutTyped ==
    /\ Listed(sent) /\ QuoteShaped(quotes) /\ trialEnds \in Nat /\ today \in Nat
    /\ astray \in BOOLEAN /\ overtaken \in BOOLEAN
    /\ \A i \in DOMAIN sent : Shaped(sent[i])

Requested == \A i \in DOMAIN sent : AnswerSays(sent[i]) /\ OrderSays(sent[i])

CheckoutInv == CheckoutTyped /\ Requested /\ LastAsked /\ PageSays /\ RedeemsTrue /\ PaidAsShown

-----------------------------------------------------------------------------
(* Prices are what the tables say *)

LEMMA SamePrices ==
    ASSUME UNCHANGED <<ended, seats, early>>, NEW text, NEW came, NEW term
    PROVE  /\ quotePlans(text, came, term)' = quotePlans(text, came, term)
           /\ \A choice : quoteFor(text, came, choice, term)' = quoteFor(text, came, choice, term)
<1>1. \A t, c, p, n : quoteFor(t, c, p, n)' = quoteFor(t, c, p, n)
  BY DEF quoteFor, quote, usableDiscounts, whyUnusable, discountedPrice
<1>2. \A t, p, n : typedRefused(t, p, n)' = typedRefused(t, p, n)
  BY DEF typedRefused, whyUnusable
<1> QED  BY <1>1, <1>2 DEF quotePlans

\* Prices depend on what was told, and on nothing else but these tables.
LEMMA SameSayings ==
    ASSUME UNCHANGED <<ended, seats, early, acquired>>, NEW r
    PROVE  /\ AnswerSays(r) => AnswerSays(r)'
           /\ OrderSays(r) => OrderSays(r)'
<1>1. quotePlans(r.code, acquired, r.term)' = quotePlans(r.code, acquired, r.term)
  <2>1. PICK came : came = acquired /\ came = acquired'  OBVIOUS
  <2>2. quotePlans(r.code, came, r.term)' = quotePlans(r.code, came, r.term)  BY SamePrices
  <2> QED  BY <2>1, <2>2 DEF quotePlans, typedRefused, quoteFor, usableDiscounts, whyUnusable, quote, discountedPrice
<1>2. quoteFor(r.code, acquired, r.plan, r.term)' = quoteFor(r.code, acquired, r.plan, r.term)
  <2>1. PICK came : came = acquired /\ came = acquired'  OBVIOUS
  <2>2. quoteFor(r.code, came, r.plan, r.term)' = quoteFor(r.code, came, r.plan, r.term)  BY SamePrices
  <2> QED  BY <2>1, <2>2 DEF quoteFor, usableDiscounts, whyUnusable, quote, discountedPrice
<1> QED  BY <1>1, <1>2 DEF AnswerSays, OrderSays, IsTrial

-----------------------------------------------------------------------------
(* What becomes of one request *)

LEMMA QuoteOutdated ==
    ASSUME NEW a, QuoteShaped(a), NEW b, b = [a EXCEPT !.fresh = FALSE]
    PROVE  QuoteShaped(b) /\ b.fresh = FALSE
<1>1. b = [price |-> a.price, refused |-> a.refused, fresh |-> FALSE]  BY DEF QuoteShaped
<1>2. b.price = a.price /\ b.refused = a.refused  BY <1>1
<1>3. b.fresh = FALSE  BY <1>1
<1>4. b.fresh \in BOOLEAN  BY <1>3, Zenon
<1>5. b = [price |-> b.price, refused |-> b.refused, fresh |-> b.fresh]  BY <1>1, <1>2, <1>3
<1> QED  BY <1>3, <1>4, <1>5, Zenon DEF QuoteShaped

\* The request itself stays the same.
SameRequest(r, q) ==
    /\ q.op = r.op /\ q.term = r.term /\ q.code = r.code /\ q.plan = r.plan
    /\ q.sure = r.sure /\ q.shown = r.shown

LEMMA OutdatedRequest ==
    ASSUME NEW r, Shaped(r)
    PROVE  /\ Shaped([r EXCEPT !.answer.fresh = FALSE, !.sure = FALSE])
           /\ ~[r EXCEPT !.answer.fresh = FALSE, !.sure = FALSE].sure
           /\ ~[r EXCEPT !.answer.fresh = FALSE, !.sure = FALSE].answer.fresh
           /\ [r EXCEPT !.answer.fresh = FALSE, !.sure = FALSE].op = r.op
           /\ [r EXCEPT !.answer.fresh = FALSE, !.sure = FALSE].term = r.term
           /\ [r EXCEPT !.answer.fresh = FALSE, !.sure = FALSE].code = r.code
           /\ [r EXCEPT !.answer.fresh = FALSE, !.sure = FALSE].stage = r.stage
           /\ [r EXCEPT !.answer.fresh = FALSE, !.sure = FALSE].seen = r.seen
<1>1. ASSUME NEW b, b = [r.answer EXCEPT !.fresh = FALSE],
             NEW q, q = [r EXCEPT !.answer = b, !.sure = FALSE]
      PROVE  /\ Shaped(q) /\ ~q.sure /\ ~q.answer.fresh
             /\ q.op = r.op /\ q.term = r.term /\ q.code = r.code /\ q.stage = r.stage /\ q.seen = r.seen
  <2>1. q = [op |-> r.op, term |-> r.term, code |-> r.code, plan |-> r.plan, stage |-> r.stage, seen |-> r.seen,
             answer |-> b, shown |-> r.shown, sure |-> FALSE]
    BY <1>1 DEF Shaped
  <2>2. /\ q.op = r.op /\ q.term = r.term /\ q.code = r.code /\ q.plan = r.plan /\ q.stage = r.stage /\ q.seen = r.seen
        /\ q.answer = b /\ q.shown = r.shown
    BY <2>1
  <2>3. ~q.sure /\ q.sure = FALSE  BY <2>1
  <2>4. q.sure \in BOOLEAN  BY <2>3, Zenon
  <2>7. QuoteShaped(r.answer)  BY Zenon DEF Shaped
  <2>8. QuoteShaped(b) /\ b.fresh = FALSE  BY <1>1, <2>7, QuoteOutdated, Zenon
  <2>5. ~q.answer.fresh  BY <2>2, <2>8
  <2>9. QuoteShaped(q.answer)  BY <2>2, <2>8, Zenon
  <2>6. q = [op |-> q.op, term |-> q.term, code |-> q.code, plan |-> q.plan, stage |-> q.stage, seen |-> q.seen,
             answer |-> q.answer, shown |-> q.shown, sure |-> q.sure]
    BY <2>1, <2>2, <2>3
  <2> QED  BY <2>2, <2>3, <2>4, <2>5, <2>6, <2>9 DEF Shaped
<1>2. [r EXCEPT !.answer.fresh = FALSE, !.sure = FALSE]
          = [r EXCEPT !.answer = [r.answer EXCEPT !.fresh = FALSE], !.sure = FALSE]
  OBVIOUS
<1> QED  BY <1>1, <1>2, Zenon

\* A request is answered ...
LEMMA AnsweredOne ==
    ASSUME NEW r, Shaped(r), NEW a, QuoteShaped(a)
    PROVE  /\ Shaped([r EXCEPT !.stage = "answered", !.answer = a]) /\ [r EXCEPT !.stage = "answered", !.answer = a].stage = "answered"
           /\ [r EXCEPT !.stage = "answered", !.answer = a].answer = a
           /\ SameRequest(r, [r EXCEPT !.stage = "answered", !.answer = a])
<1>1. ASSUME NEW q, q = [r EXCEPT !.stage = "answered", !.answer = a]
      PROVE  Shaped(q) /\ q.stage = "answered" /\ q.answer = a /\ SameRequest(r, q)
  <2>0. q = [r EXCEPT !.stage = "answered", !.answer = a]  BY <1>1
  <2>1. q = [op |-> r.op, term |-> r.term, code |-> r.code, plan |-> r.plan, stage |-> "answered", seen |-> r.seen,
             answer |-> a, shown |-> r.shown, sure |-> r.sure]
    BY <2>0 DEF Shaped
  <2>2. /\ q.op = r.op /\ q.term = r.term /\ q.code = r.code /\ q.plan = r.plan /\ q.stage = "answered" /\ q.seen = r.seen
        /\ q.answer = a /\ q.shown = r.shown /\ q.sure = r.sure
    BY <2>1
  <2>3. Shaped(q)  BY <2>1, <2>2 DEF Shaped
  <2> QED  BY <2>2, <2>3 DEF SameRequest
<1> QED  BY <1>1, Zenon

\* ... or goes on without an answer.
MayReach(r, state) ==
    state \in {"redeem", "answered", "failed"} /\ (state = "redeem" => r.op = "quote" /\ IsTrial(r.code))

LEMMA StagedOne ==
    ASSUME NEW r, Shaped(r), NEW state, MayReach(r, state), NEW end \in Nat
    PROVE  /\ Shaped([r EXCEPT !.stage = state, !.seen = end]) /\ [r EXCEPT !.stage = state, !.seen = end].stage = state
           /\ [r EXCEPT !.stage = state, !.seen = end].seen = end
           /\ SameRequest(r, [r EXCEPT !.stage = state, !.seen = end])
<1>1. ASSUME NEW q, q = [r EXCEPT !.stage = state, !.seen = end]
      PROVE  Shaped(q) /\ q.stage = state /\ q.seen = end /\ SameRequest(r, q)
  <2>0. q = [r EXCEPT !.stage = state, !.seen = end]  BY <1>1
  <2>1. q = [op |-> r.op, term |-> r.term, code |-> r.code, plan |-> r.plan, stage |-> state, seen |-> end,
             answer |-> r.answer, shown |-> r.shown, sure |-> r.sure]
    BY <2>0 DEF Shaped
  <2>2. /\ q.op = r.op /\ q.term = r.term /\ q.code = r.code /\ q.plan = r.plan /\ q.stage = state /\ q.seen = end
        /\ q.answer = r.answer /\ q.shown = r.shown /\ q.sure = r.sure
    BY <2>1
  <2>3. Shaped(q)  BY <2>1, <2>2 DEF Shaped, MayReach
  <2> QED  BY <2>2, <2>3 DEF SameRequest
<1> QED  BY <1>1, Zenon

LEMMA StageOnly ==
    ASSUME NEW r, Shaped(r), NEW state
    PROVE  [r EXCEPT !.stage = state] = [r EXCEPT !.stage = state, !.seen = r.seen]
  BY DEF Shaped

LEMMA QuotesShaped ==
    ASSUME NEW text, NEW came, NEW term
    PROVE  QuoteShaped(quotePlans(text, came, term))
  BY DEF quotePlans, QuoteShaped

LEMMA NoQuoteShaped == QuoteShaped(noQuote) /\ ~noQuote.fresh
  BY DEF QuoteShaped, noQuote

LEMMA AskingShaped ==
    ASSUME NEW op \in {"quote", "buy"}, NEW term, NEW text, NEW r, r = Asking(op, term, text)
    PROVE  /\ Shaped(r) /\ r.op = op /\ r.term = term /\ r.code = text /\ r.stage = "sent" /\ ~r.sure /\ ~r.answer.fresh
<1>1. PICK no : no = FALSE  OBVIOUS
<1>2. r = [op |-> op, term |-> term, code |-> text, plan |-> "pro", stage |-> "sent", seen |-> 0,
           answer |-> noQuote, shown |-> 0, sure |-> no]
  BY <1>1 DEF Asking
<1>3. /\ r.op = op /\ r.term = term /\ r.code = text /\ r.plan = "pro" /\ r.stage = "sent" /\ r.seen = 0
      /\ r.answer = noQuote /\ r.shown = 0 /\ r.sure = no
  BY <1>2
<1>4. ~r.sure /\ r.sure \in BOOLEAN  BY <1>1, <1>3
<1> QED  BY <1>2, <1>3, <1>4, NoQuoteShaped DEF Shaped

LEMMA AskingQuote ==
    ASSUME NEW term, NEW text, NEW r, r = Asking("quote", term, text)
    PROVE  /\ Shaped(r) /\ r.op = "quote" /\ r.term = term /\ r.code = text /\ r.stage = "sent"
           /\ ~r.sure /\ ~r.answer.fresh
<1>1. "quote" \in {"quote", "buy"}  OBVIOUS
<1> QED  BY <1>1, AskingShaped

-----------------------------------------------------------------------------
(* What becomes of the requests under way *)

\* Each stays in its place, and asks for the same.
SamePlaces ==
    /\ sent' = [i \in DOMAIN sent |-> sent'[i]]
    /\ \A i \in DOMAIN sent : /\ sent'[i].op = sent[i].op /\ sent'[i].term = sent[i].term
                              /\ Shaped(sent'[i])

LEMMA MapStep ==
    ASSUME CheckoutInv, SamePlaces, months' = months, astray' = astray
    PROVE  /\ Listed(sent)' /\ DOMAIN sent' = DOMAIN sent /\ (\A i \in DOMAIN sent' : Shaped(sent[i])')
           /\ LastAsked' /\ (QuoteUnderWay(sent') => QuoteUnderWay(sent)) /\ (QuoteUnderWay(sent) => QuoteUnderWay(sent'))
<1>1. PICK t : t = sent'  OBVIOUS
<1>2. DOMAIN t = DOMAIN sent /\ t = [i \in DOMAIN sent |-> t[i]]  BY <1>1 DEF SamePlaces
<1>3. Listed(t)  BY <1>2, Mapping DEF CheckoutInv, CheckoutTyped
<1>4. \A i \in DOMAIN sent : t[i].op = sent[i].op /\ t[i].term = sent[i].term /\ Shaped(t[i])
  BY <1>1 DEF SamePlaces
<1>5. LastAsked'  BY <1>1, <1>2, <1>4 DEF CheckoutInv, LastAsked
<1>6. Listed(sent)'  BY <1>1, <1>3 DEF Listed
<1>7. \A i \in DOMAIN sent' : Shaped(sent[i])'  BY <1>1, <1>2, <1>4 DEF Shaped, QuoteShaped, IsTrial
<1> QED  BY <1>1, <1>2, <1>4, <1>5, <1>6, <1>7 DEF QuoteUnderWay

LEMMA AppendStep ==
    ASSUME CheckoutInv, NEW r, Shaped(r), sent' = Append(sent, r), astray' = astray,
           IF r.op = "quote" THEN r.term = months' ELSE months' = months
    PROVE  /\ Listed(sent)' /\ DOMAIN sent' = 1 .. Len(sent) + 1 /\ Len(sent) \in Nat /\ DOMAIN sent = 1 .. Len(sent)
           /\ \A i \in DOMAIN sent : sent'[i] = sent[i]
           /\ sent'[Len(sent) + 1] = r
           /\ \A i \in DOMAIN sent' : Shaped(sent[i])'
           /\ LastAsked'
<1>1. PICK t : t = sent'  OBVIOUS
<1>2. PICK n : n = Len(sent)  OBVIOUS
<1>3. n \in Nat /\ DOMAIN sent = 1 .. n  BY <1>2, ListedIs DEF CheckoutInv, CheckoutTyped
<1>4. Listed(t) /\ DOMAIN t = 1 .. n + 1 /\ (\A j \in 1 .. n : t[j] = sent[j]) /\ t[n + 1] = r
  <2>1. Listed(sent) /\ t = Append(sent, r)  BY <1>1 DEF CheckoutInv, CheckoutTyped
  <2>2. /\ Listed(t) /\ DOMAIN t = 1 .. Len(sent) + 1
        /\ (\A j \in 1 .. Len(sent) : t[j] = sent[j]) /\ t[Len(sent) + 1] = r
    BY <2>1, Appending
  <2> QED  BY <1>2, <2>2
<1>5. \A i \in DOMAIN t : Shaped(t[i])
  <2> SUFFICES ASSUME NEW i \in 1 .. n + 1 PROVE Shaped(t[i])  BY <1>4
  <2>1. CASE i = n + 1  BY <2>1, <1>4
  <2>2. CASE i # n + 1  BY <2>2, <1>3, <1>4 DEF CheckoutInv, CheckoutTyped
  <2> QED  BY <2>1, <2>2
<1>6. LastAsked'
  <2> SUFFICES ASSUME ~astray, NEW i \in DOMAIN t, t[i].op = "quote", \A j \in DOMAIN t : j > i => t[j].op # "quote"
               PROVE  t[i].term = months'
      BY <1>1 DEF LastAsked
  <2>1. CASE i = n + 1  BY <2>1, <1>4
  <2>2. CASE i # n + 1
    <3>1. i \in 1 .. n /\ n + 1 > i /\ n + 1 \in DOMAIN t  BY <2>2, <1>3, <1>4
    <3>2. r.op # "quote"  BY <3>1, <1>4
    <3>3. \A j \in DOMAIN sent : j > i => sent[j].op # "quote"  BY <1>3, <1>4
    <3> QED  BY <3>1, <3>2, <3>3, <1>3, <1>4 DEF CheckoutInv, LastAsked
  <2> QED  BY <2>1, <2>2
<1>7. Listed(sent)'  BY <1>1, <1>4 DEF Listed
<1>8. \A i \in DOMAIN sent' : Shaped(sent[i])'  BY <1>1, <1>5 DEF Shaped, QuoteShaped, IsTrial
<1> QED  BY <1>1, <1>2, <1>3, <1>4, <1>6, <1>7, <1>8

\* A request goes: one that is no quote, or a quote none of those before it waits.
LEMMA RemoveStep ==
    ASSUME CheckoutInv, NEW i \in DOMAIN sent, sent' = Left(i), months' = months,
           astray' \in BOOLEAN, ~astray' => ~astray /\ ~Late(i)
    PROVE  /\ Listed(sent)'
           /\ \A j \in DOMAIN sent' : \E k \in DOMAIN sent : sent'[j] = sent[k]
           /\ \A i_1 \in DOMAIN sent' : Shaped(sent[i_1])'
           /\ \A k \in DOMAIN sent : k # i => \E j \in DOMAIN sent' : sent'[j] = sent[k]
           /\ LastAsked'
<1>1. PICK t : t = sent'  OBVIOUS
<1>2. PICK n : n = Len(sent)  OBVIOUS
<1>3. n \in Nat /\ DOMAIN sent = 1 .. n  BY <1>2, ListedIs DEF CheckoutInv, CheckoutTyped
<1>4. /\ Listed(t) /\ DOMAIN t = 1 .. n - 1
      /\ \A j \in 1 .. n - 1 : t[j] = sent[IF j < i THEN j ELSE j + 1]
  BY <1>1, <1>2, Removing DEF CheckoutInv, CheckoutTyped, Left
<1>5. \A j \in 1 .. n - 1 : (IF j < i THEN j ELSE j + 1) \in DOMAIN sent  BY <1>3
<1>6. \A j \in DOMAIN t : \E k \in DOMAIN sent : t[j] = sent[k]  BY <1>4, <1>5
<1>7. \A k \in DOMAIN sent : k # i => \E j \in DOMAIN t : t[j] = sent[k] /\ k = IF j < i THEN j ELSE j + 1
  <2> SUFFICES ASSUME NEW k \in 1 .. n, k # i PROVE \E j \in 1 .. n - 1 : t[j] = sent[k] /\ k = IF j < i THEN j ELSE j + 1
      BY <1>3, <1>4
  <2>1. i \in 1 .. n  BY <1>3
  <2>2. CASE k < i
    <3>1. k \in 1 .. n - 1  BY <1>3, <2>1, <2>2
    <3> QED  BY <3>1, <2>2, <1>4
  <2>3. CASE k > i
    <3>1. k - 1 \in 1 .. n - 1 /\ ~(k - 1 < i) /\ (k - 1) + 1 = k  BY <1>3, <2>1, <2>3
    <3>2. t[k - 1] = sent[k]  BY <3>1, <1>4
    <3> QED  BY <3>1, <3>2
  <2> QED  BY <2>1, <2>2, <2>3
<1>8. LastAsked'
  <2> SUFFICES ASSUME ~astray', NEW j \in DOMAIN t, t[j].op = "quote", \A k \in DOMAIN t : k > j => t[k].op # "quote"
               PROVE  t[j].term = months
      BY <1>1 DEF LastAsked
  <2>1. PICK m \in DOMAIN sent : m = (IF j < i THEN j ELSE j + 1) /\ t[j] = sent[m]  BY <1>4, <1>5
  <2>2. ASSUME NEW k \in DOMAIN sent, k > m PROVE sent[k].op # "quote"
    <3>1. CASE k # i
      <4>1. PICK l \in DOMAIN t : t[l] = sent[k] /\ k = IF l < i THEN l ELSE l + 1  BY <3>1, <1>7
      <4>2. l > j  BY <1>3, <1>4, <2>1, <2>2, <4>1
      <4> QED  BY <4>1, <4>2
    <3>2. CASE k = i
      <4>1. m \in 1 .. (i - 1)  BY <1>3, <2>2, <3>2
      <4>2. ~Late(i)  OBVIOUS
      <4> QED  BY <2>1, <3>2, <4>1, <4>2 DEF Late
    <3> QED  BY <3>1, <3>2
  <2> QED  BY <2>1, <2>2 DEF CheckoutInv, LastAsked
<1>9. Listed(sent)'  BY <1>1, <1>4 DEF Listed
<1>10. \A j \in DOMAIN t : Shaped(t[j])  BY <1>6 DEF CheckoutInv, CheckoutTyped
<1>11. \A j \in DOMAIN sent' : Shaped(sent[j])'  BY <1>1, <1>10 DEF Shaped, QuoteShaped, IsTrial
<1> QED  BY <1>1, <1>6, <1>7, <1>8, <1>9, <1>11

-----------------------------------------------------------------------------
(* Checkout: one lemma for each action *)

LEMMA CheckoutInitInv == ASSUME CheckoutInit PROVE CheckoutInv
<1>1. PICK r : r = Asking("quote", months, sentCode)  OBVIOUS
<1>2. Shaped(r) /\ r.op = "quote" /\ r.term = months /\ r.stage = "sent" /\ ~r.answer.fresh
  <2> QED  BY <1>1, AskingQuote
<1>3. quotes = noQuote /\ QuoteShaped(quotes) /\ ~quotes.fresh  BY NoQuoteShaped DEF CheckoutInit
<1>4. sent = <<r>>  BY <1>1 DEF CheckoutInit
<1>5. Listed(sent) /\ \A i \in DOMAIN sent : sent[i] = r  BY <1>4, SingleList
<1>7. CheckoutTyped
  <2>1. astray \in BOOLEAN /\ overtaken \in BOOLEAN  BY Zenon DEF CheckoutInit
  <2>2. trialEnds \in 0 .. 1  BY Zenon DEF CheckoutInit
  <2>3. trialEnds \in Nat  BY <2>2
  <2>5. today = 0  BY Zenon DEF CheckoutInit
  <2>4. today \in Nat  BY <2>5
  <2> QED  BY <1>2, <1>3, <1>5, <2>1, <2>3, <2>4 DEF CheckoutTyped
<1>8. Requested  BY <1>2, <1>5 DEF Requested, AnswerSays, OrderSays
<1>9. LastAsked  BY <1>2, <1>5 DEF LastAsked
<1>10. PageSays  BY <1>3 DEF PageSays
<1>11. RedeemsTrue  BY <1>2, <1>5 DEF RedeemsTrue
<1>12. PaidAsShown  BY DEF CheckoutInit, Unordered, PaidAsShown
<1> QED  BY <1>7, <1>8, <1>9, <1>10, <1>11, <1>12 DEF CheckoutInv

LEMMA OutdatedPlaces ==
    ASSUME CheckoutInv, NEW t, t = Outdated(sent)
    PROVE  /\ t = [i \in DOMAIN sent |-> t[i]]
           /\ \A i \in DOMAIN sent :
                  /\ Shaped(t[i]) /\ ~t[i].sure /\ ~t[i].answer.fresh
                  /\ t[i].op = sent[i].op /\ t[i].term = sent[i].term /\ t[i].code = sent[i].code
                  /\ t[i].stage = sent[i].stage /\ t[i].seen = sent[i].seen
<1>1. t = [i \in DOMAIN sent |-> [sent[i] EXCEPT !.answer.fresh = FALSE, !.sure = FALSE]]  BY DEF Outdated
<1>2. ASSUME NEW i \in DOMAIN sent
      PROVE  /\ Shaped(t[i]) /\ ~t[i].sure /\ ~t[i].answer.fresh
             /\ t[i].op = sent[i].op /\ t[i].term = sent[i].term /\ t[i].code = sent[i].code
             /\ t[i].stage = sent[i].stage /\ t[i].seen = sent[i].seen
  <2>1. Shaped(sent[i])  BY DEF CheckoutInv, CheckoutTyped
  <2>2. t[i] = [sent[i] EXCEPT !.answer.fresh = FALSE, !.sure = FALSE]  BY <1>1
  <2> QED  BY <2>1, <2>2, OutdatedRequest, Zenon
<1>3. t = [i \in DOMAIN sent |-> t[i]]  BY <1>1
<1> QED  BY <1>2, <1>3

LEMMA QuotesOutdated ==
    ASSUME CheckoutInv, quotes' = [quotes EXCEPT !.fresh = FALSE]
    PROVE  QuoteShaped(quotes)' /\ ~quotes'.fresh
<1>1. quotes' = [price |-> quotes.price, refused |-> quotes.refused, fresh |-> FALSE]
  BY DEF CheckoutInv, CheckoutTyped, QuoteShaped
<1> QED  BY <1>1 DEF QuoteShaped

\* Something the prices rest on changes.
LEMMA ChangedInv ==
    ASSUME CheckoutInv, Changed, UNCHANGED <<today, trialEnds>> PROVE CheckoutInv'
<1>1. PICK t : t = sent' /\ t = Outdated(sent)  BY DEF Changed
<1>2. /\ t = [i \in DOMAIN sent |-> t[i]]
      /\ \A i \in DOMAIN sent :
             /\ Shaped(t[i]) /\ ~t[i].sure /\ ~t[i].answer.fresh
             /\ t[i].op = sent[i].op /\ t[i].term = sent[i].term /\ t[i].code = sent[i].code
             /\ t[i].stage = sent[i].stage /\ t[i].seen = sent[i].seen
  BY <1>1, OutdatedPlaces
<1>3. SamePlaces  BY <1>1, <1>2 DEF SamePlaces
<1>4. /\ Listed(sent)' /\ DOMAIN sent' = DOMAIN sent /\ (\A i \in DOMAIN sent' : Shaped(sent[i])')
      /\ LastAsked'
  BY <1>3, MapStep DEF Changed
<1>5. QuoteShaped(quotes)' /\ ~quotes'.fresh  BY QuotesOutdated DEF Changed
<1>6. CheckoutTyped'  BY <1>4, <1>5 DEF Changed, CheckoutInv, CheckoutTyped
<1>7. \A i \in DOMAIN sent' : ~sent'[i].sure /\ ~sent'[i].answer.fresh  BY <1>1, <1>2, <1>4
<1>8. Requested'  BY <1>7 DEF Requested, AnswerSays, OrderSays
<1>9. PageSays'  BY <1>5 DEF PageSays
<1>10. RedeemsTrue'  BY <1>1, <1>2, <1>4 DEF Changed, CheckoutInv, RedeemsTrue
<1>11. PaidAsShown'  BY DEF Changed, CheckoutInv, PaidAsShown
<1> QED  BY <1>4, <1>6, <1>8, <1>9, <1>10, <1>11 DEF CheckoutInv

\* What the page shows stays true while the tables and the requests do.
LEMMA PageStays ==
    ASSUME CheckoutInv, UNCHANGED <<ended, seats, early, acquired, months, sentCode, quotes>>,
           ~astray' => ~astray, QuoteUnderWay(sent) => QuoteUnderWay(sent') \/ astray'
    PROVE  PageSays'
<1>1. PICK came : came = acquired /\ came = acquired'  OBVIOUS
<1>2. PICK text : text = sentCode /\ text = sentCode'  OBVIOUS
<1>3. PICK term : term = months /\ term = months'  OBVIOUS
<1>4. quotePlans(text, came, term)' = quotePlans(text, came, term)  BY SamePrices
<1>5. quotePlans(sentCode, acquired, months)' = quotePlans(text, came, term)'
  BY <1>1, <1>2, <1>3 DEF quotePlans, typedRefused, quoteFor, usableDiscounts, whyUnusable, quote, discountedPrice
<1>6. quotePlans(sentCode, acquired, months) = quotePlans(text, came, term)  BY <1>1, <1>2, <1>3
<1>7. QuoteUnderWay(sent)' <=> QuoteUnderWay(sent')  BY DEF QuoteUnderWay
<1> QED  BY <1>4, <1>5, <1>6, <1>7 DEF CheckoutInv, PageSays, IsTrial

-----------------------------------------------------------------------------
(* What is asked and what is answered stays so *)

LEMMA PrimedSayings ==
    ASSUME NEW j, NEW r, r = sent'[j], AnswerSays(r)', OrderSays(r)'
    PROVE  AnswerSays(sent[j])' /\ OrderSays(sent[j])'
<1>1. PICK text : text = r.code /\ text = sent'[j].code  OBVIOUS
<1>2. PICK term : term = r.term /\ term = sent'[j].term  OBVIOUS
<1>3. PICK choice : choice = r.plan /\ choice = sent'[j].plan  OBVIOUS
<1>4. quotePlans(sent[j].code, acquired, sent[j].term)' = quotePlans(text, acquired, term)'
  BY <1>1, <1>2 DEF quotePlans, typedRefused, quoteFor, usableDiscounts, whyUnusable, quote, discountedPrice
<1>5. quotePlans(r.code, acquired, r.term)' = quotePlans(text, acquired, term)'
  BY <1>1, <1>2, Zenon
<1>6. quoteFor(sent[j].code, acquired, sent[j].plan, sent[j].term)' = quoteFor(text, acquired, choice, term)'
  BY <1>1, <1>2, <1>3 DEF quoteFor, usableDiscounts, whyUnusable, quote, discountedPrice
<1>7. quoteFor(r.code, acquired, r.plan, r.term)' = quoteFor(text, acquired, choice, term)'
  BY <1>1, <1>2, <1>3, Zenon
<1>8. AnswerSays(sent[j])'  BY <1>4, <1>5 DEF AnswerSays, IsTrial
<1>9. OrderSays(sent[j])'  BY <1>6, <1>7 DEF OrderSays
<1> QED  BY <1>8, <1>9

LEMMA RequestedKept ==
    ASSUME CheckoutInv, UNCHANGED <<ended, seats, early, acquired>>,
           \A j \in DOMAIN sent' : \/ \E k \in DOMAIN sent : sent'[j] = sent[k]
                                   \/ AnswerSays(sent'[j]) /\ OrderSays(sent'[j])
    PROVE  Requested'
<1> SUFFICES ASSUME NEW j \in DOMAIN sent' PROVE AnswerSays(sent[j])' /\ OrderSays(sent[j])'
    BY DEF Requested
<1>1. PICK r : r = sent'[j]  OBVIOUS
<1>2. AnswerSays(r) /\ OrderSays(r)
  <2>1. CASE \E k \in DOMAIN sent : sent'[j] = sent[k]  BY <1>1, <2>1, Zenon DEF CheckoutInv, Requested
  <2>2. CASE AnswerSays(sent'[j]) /\ OrderSays(sent'[j])  BY <1>1, <2>2, Zenon
  <2> QED  BY <2>1, <2>2
<1>3. AnswerSays(r)' /\ OrderSays(r)'  BY <1>2, SameSayings
<1> QED  BY <1>1, <1>3, PrimedSayings

\* No table and no request changes.
LEMMA StaysInv ==
    ASSUME CheckoutInv, today' \in Nat,
           UNCHANGED <<ended, seats, early, acquired, trialEnds, months, sentCode, quotes, sent, astray, purchase,
                       overtaken>>
    PROVE  CheckoutInv'
<1>1. \A j \in DOMAIN sent' : \E k \in DOMAIN sent : sent'[j] = sent[k]  OBVIOUS
<1>2. Requested'  BY <1>1, RequestedKept
<1>3. QuoteUnderWay(sent) => QuoteUnderWay(sent')  OBVIOUS
<1>4. PageSays'  BY <1>3, PageStays
<1>5. LastAsked'  BY DEF CheckoutInv, LastAsked
<1>6. RedeemsTrue'  BY DEF CheckoutInv, RedeemsTrue
<1>7. PaidAsShown'  BY DEF CheckoutInv, PaidAsShown
<1>8. CheckoutTyped'  BY DEF CheckoutInv, CheckoutTyped, Listed, Shaped, QuoteShaped, IsTrial
<1> QED  BY <1>2, <1>4, <1>5, <1>6, <1>7, <1>8 DEF CheckoutInv

\* One request changes, and asks for the same.
LEMMA OneInv ==
    ASSUME CheckoutInv, NEW i \in DOMAIN sent, NEW q, Shaped(q), q.op = sent[i].op, q.term = sent[i].term,
           sent' = [sent EXCEPT ![i] = q], AnswerSays(q), OrderSays(q),
           q.stage = "redeem" => q.seen = trialEnds, PaidAsShown',
           UNCHANGED <<today, ended, seats, early, acquired, trialEnds, months, sentCode, quotes, astray, overtaken>>
    PROVE  CheckoutInv'
<1>1. DOMAIN sent' = DOMAIN sent /\ \A j \in DOMAIN sent : sent'[j] = IF j = i THEN q ELSE sent[j]  OBVIOUS
<1>2. SamePlaces
  <2>1. sent' = [j \in DOMAIN sent |-> sent'[j]]  OBVIOUS
  <2>2. \A j \in DOMAIN sent : sent'[j].op = sent[j].op /\ sent'[j].term = sent[j].term /\ Shaped(sent'[j])
    BY <1>1 DEF CheckoutInv, CheckoutTyped
  <2> QED  BY <2>1, <2>2 DEF SamePlaces
<1>3. /\ Listed(sent)' /\ DOMAIN sent' = DOMAIN sent /\ (\A j \in DOMAIN sent' : Shaped(sent[j])')
      /\ LastAsked' /\ (QuoteUnderWay(sent) => QuoteUnderWay(sent'))
  BY <1>2, MapStep
<1>4. CheckoutTyped'
  <2>1. QuoteShaped(quotes)'  BY DEF CheckoutInv, CheckoutTyped, QuoteShaped
  <2> QED  BY <1>3, <2>1 DEF CheckoutInv, CheckoutTyped
<1>5. Requested'
  <2>1. \A j \in DOMAIN sent' : \/ \E k \in DOMAIN sent : sent'[j] = sent[k]
                                \/ AnswerSays(sent'[j]) /\ OrderSays(sent'[j])
    <3> SUFFICES ASSUME NEW j \in DOMAIN sent
                 PROVE  \/ \E k \in DOMAIN sent : sent'[j] = sent[k]
                        \/ AnswerSays(sent'[j]) /\ OrderSays(sent'[j])
        BY <1>1
    <3>1. CASE j = i
      <4>1. sent'[j] = q  BY <1>1, <3>1
      <4> QED  BY <4>1, Zenon
    <3>2. CASE j # i  BY <1>1, <3>2
    <3> QED  BY <3>1, <3>2
  <2> QED  BY <2>1, RequestedKept
<1>6. PageSays'  BY <1>3, PageStays
<1>7. RedeemsTrue'  BY <1>1 DEF CheckoutInv, RedeemsTrue
<1> QED  BY <1>3, <1>4, <1>5, <1>6, <1>7 DEF CheckoutInv

\* One more request is made.
LEMMA AskedInv ==
    ASSUME CheckoutInv, NEW r, Shaped(r), r.stage = "sent", OrderSays(r), sent' = Append(sent, r),
           IF r.op = "quote" THEN r.term = months' ELSE months' = months,
           UNCHANGED <<today, ended, seats, early, acquired, trialEnds, sentCode, quotes, astray, purchase, overtaken>>
    PROVE  CheckoutInv'
<1>1. /\ Listed(sent)' /\ DOMAIN sent' = 1 .. Len(sent) + 1 /\ Len(sent) \in Nat /\ DOMAIN sent = 1 .. Len(sent)
      /\ \A i \in DOMAIN sent : sent'[i] = sent[i]
      /\ sent'[Len(sent) + 1] = r
      /\ \A i \in DOMAIN sent' : Shaped(sent[i])'
      /\ LastAsked'
  BY AppendStep
<1>2. \A j \in DOMAIN sent' : j \in DOMAIN sent \/ j = Len(sent) + 1  BY <1>1
<1>3. DOMAIN sent \subseteq DOMAIN sent' /\ Len(sent) + 1 \in DOMAIN sent'  BY <1>1
<1>4. CheckoutTyped'
  <2>1. QuoteShaped(quotes)'  BY DEF CheckoutInv, CheckoutTyped, QuoteShaped
  <2> QED  BY <1>1, <2>1 DEF CheckoutInv, CheckoutTyped
<1>5. Requested'
  <2>1. AnswerSays(r)  BY DEF AnswerSays
  <2>2. \A j \in DOMAIN sent' : \/ \E k \in DOMAIN sent : sent'[j] = sent[k]
                                \/ AnswerSays(sent'[j]) /\ OrderSays(sent'[j])
    <3> SUFFICES ASSUME NEW j \in DOMAIN sent'
                 PROVE  \/ \E k \in DOMAIN sent : sent'[j] = sent[k]
                        \/ AnswerSays(sent'[j]) /\ OrderSays(sent'[j])
        OBVIOUS
    <3>1. CASE j \in DOMAIN sent  BY <1>1, <3>1
    <3>2. CASE j = Len(sent) + 1
      <4>1. sent'[j] = r  BY <1>1, <3>2
      <4> QED  BY <4>1, <2>1, Zenon
    <3> QED  BY <1>2, <3>1, <3>2
  <2> QED  BY <2>2, RequestedKept
<1>6. PageSays'
  <2>1. CASE r.op = "quote"
    <3>1. QuoteUnderWay(sent)'  BY <1>1, <1>3, <2>1 DEF QuoteUnderWay
    <3> QED  BY <3>1 DEF PageSays
  <2>2. CASE r.op # "quote"
    <3>1. QuoteUnderWay(sent) => QuoteUnderWay(sent')  BY <1>1, <1>3 DEF QuoteUnderWay
    <3> QED  BY <2>2, <3>1, PageStays
  <2> QED  BY <2>1, <2>2
<1>7. RedeemsTrue'
  <2> SUFFICES ASSUME ~overtaken, NEW j \in DOMAIN sent', sent'[j].stage = "redeem" PROVE sent'[j].seen = trialEnds
      BY DEF RedeemsTrue
  <2>1. j \in DOMAIN sent  BY <1>1, <1>2
  <2> QED  BY <1>1, <2>1 DEF CheckoutInv, RedeemsTrue
<1>8. PaidAsShown'  BY DEF CheckoutInv, PaidAsShown
<1> QED  BY <1>1, <1>4, <1>5, <1>6, <1>7, <1>8 DEF CheckoutInv

\* A request goes, and the page keeps its prices.
LEMMA GoneInv ==
    ASSUME CheckoutInv, NEW i \in DOMAIN sent, sent' = Left(i), astray' \in BOOLEAN,
           ~astray' => ~astray /\ sent[i].op # "quote", PaidAsShown',
           UNCHANGED <<today, ended, seats, early, acquired, trialEnds, months, sentCode, quotes, overtaken>>
    PROVE  CheckoutInv'
<1>0. ~astray' => ~astray /\ ~Late(i)  BY DEF Late
<1>1. /\ Listed(sent)'
      /\ \A j \in DOMAIN sent' : \E k \in DOMAIN sent : sent'[j] = sent[k]
      /\ \A j \in DOMAIN sent' : Shaped(sent[j])'
      /\ \A k \in DOMAIN sent : k # i => \E j \in DOMAIN sent' : sent'[j] = sent[k]
      /\ LastAsked'
  BY <1>0, RemoveStep
<1>2. CheckoutTyped'
  <2>1. QuoteShaped(quotes)'  BY DEF CheckoutInv, CheckoutTyped, QuoteShaped
  <2> QED  BY <1>1, <2>1 DEF CheckoutInv, CheckoutTyped
<1>3. Requested'  BY <1>1, RequestedKept
<1>4. PageSays'
  <2>1. QuoteUnderWay(sent) => QuoteUnderWay(sent') \/ astray'  BY <1>1 DEF QuoteUnderWay
  <2> QED  BY <2>1, PageStays
<1>5. RedeemsTrue'  BY <1>1 DEF CheckoutInv, RedeemsTrue
<1> QED  BY <1>1, <1>2, <1>3, <1>4, <1>5 DEF CheckoutInv

-----------------------------------------------------------------------------
(* Checkout: the actions *)

LEMMA QuoteInv ==
    ASSUME CheckoutInv, NEW i \in DOMAIN sent, Quote(i) PROVE CheckoutInv'
<1>1. PICK r : r = sent[i]  OBVIOUS
<1>2. Shaped(r) /\ r.op = "quote" /\ r.stage = "sent"  BY <1>1 DEF Quote, CheckoutInv, CheckoutTyped
<1>3. PICK a : a = quotePlans(r.code, acquired, r.term)  OBVIOUS
<1>4. QuoteShaped(a)  BY <1>3, QuotesShaped
<1>5. PICK q : /\ q = [r EXCEPT !.stage = "answered", !.answer = a]
               /\ Shaped(q) /\ q.answer = a /\ q.stage = "answered" /\ SameRequest(r, q)
  <2>1. Shaped(r)  BY <1>2
  <2> QED  BY <2>1, <1>4, AnsweredOne, Zenon
<1>6. /\ Shaped(q) /\ q.answer = a /\ q.stage = "answered"
      /\ q.op = r.op /\ q.term = r.term /\ q.code = r.code
  BY <1>5, Zenon DEF SameRequest
<1>7. sent' = [sent EXCEPT ![i] = q]  BY <1>1, <1>3, <1>5 DEF Quote, Answered
<1>8. AnswerSays(q) /\ OrderSays(q)  BY <1>2, <1>3, <1>6 DEF AnswerSays, OrderSays
<1>9. PaidAsShown'  BY DEF Quote, CheckoutInv, PaidAsShown
<1>10. UNCHANGED <<today, ended, seats, early, acquired, trialEnds, months, sentCode, quotes, astray, overtaken>>
  BY DEF Quote, codes, page
<1>11. q.stage = "redeem" => q.seen = trialEnds  BY <1>6
<1>12. q.op = sent[i].op /\ q.term = sent[i].term  BY <1>1, <1>6
<1> QED  BY <1>6, <1>7, <1>8, <1>9, <1>10, <1>11, <1>12, OneInv

LEMMA RedeemLookInv ==
    ASSUME CheckoutInv, NEW i \in DOMAIN sent, RedeemLook(i) PROVE CheckoutInv'
<1>1. PICK r : r = sent[i]  OBVIOUS
<1>2. Shaped(r) /\ r.op = "quote" /\ r.stage = "sent" /\ IsTrial(r.code) /\ r.seen \in Nat
  BY <1>1 DEF RedeemLook, CheckoutInv, CheckoutTyped, Shaped
<1>3. PICK state \in {"redeem", "failed"}, end \in Nat :
          /\ sent' = [sent EXCEPT ![i] = [r EXCEPT !.stage = state, !.seen = end]]
          /\ state = "redeem" => end = trialEnds
  <2>1. CASE sent' = [sent EXCEPT ![i].stage = "failed"]
    <3>1. [r EXCEPT !.stage = "failed"] = [r EXCEPT !.stage = "failed", !.seen = r.seen]  BY <1>2, StageOnly
    <3>2. sent' = [sent EXCEPT ![i] = [r EXCEPT !.stage = "failed", !.seen = r.seen]]
      <4>1. sent' = [sent EXCEPT ![i] = [r EXCEPT !.stage = "failed"]]  BY <2>1, <1>1
      <4> QED  BY <3>1, <4>1
    <3> QED  BY <3>2, <1>2
  <2>2. CASE sent' = [sent EXCEPT ![i].stage = "redeem", ![i].seen = trialEnds]
    <3>1. sent' = [sent EXCEPT ![i] = [r EXCEPT !.stage = "redeem", !.seen = trialEnds]]  BY <2>2, <1>1
    <3>2. trialEnds \in Nat  BY DEF CheckoutInv, CheckoutTyped
    <3> QED  BY <3>1, <3>2
  <2> QED  BY <2>1, <2>2 DEF RedeemLook, Refused
<1>5. MayReach(r, state)  BY <1>2 DEF MayReach
<1>4. PICK q : /\ q = [r EXCEPT !.stage = state, !.seen = end]
               /\ Shaped(q) /\ q.stage = state /\ q.seen = end /\ SameRequest(r, q)
  <2>1. Shaped(r)  BY <1>2
  <2>2. end \in Nat  OBVIOUS
  <2>3. /\ Shaped([r EXCEPT !.stage = state, !.seen = end]) /\ [r EXCEPT !.stage = state, !.seen = end].stage = state
        /\ [r EXCEPT !.stage = state, !.seen = end].seen = end
        /\ SameRequest(r, [r EXCEPT !.stage = state, !.seen = end])
    BY <2>1, <2>2, <1>5, StagedOne
  <2> QED  BY <2>3, Zenon
<1>6. /\ Shaped(q) /\ q.stage = state /\ q.seen = end
      /\ q.op = r.op /\ q.term = r.term /\ q.code = r.code
  BY <1>4, Zenon DEF SameRequest
<1>7. sent' = [sent EXCEPT ![i] = q]  BY <1>3, <1>4
<1>8. AnswerSays(q) /\ OrderSays(q)  BY <1>2, <1>6 DEF AnswerSays, OrderSays
<1>9. PaidAsShown'  BY DEF RedeemLook, CheckoutInv, PaidAsShown
<1>10. UNCHANGED <<today, ended, seats, early, acquired, trialEnds, months, sentCode, quotes, astray, overtaken>>
  BY DEF RedeemLook, codes, page
<1>11. q.stage = "redeem" => q.seen = trialEnds  BY <1>3, <1>6
<1>12. q.op = sent[i].op /\ q.term = sent[i].term  BY <1>1, <1>6
<1> QED  BY <1>6, <1>7, <1>8, <1>9, <1>10, <1>11, <1>12, OneInv

LEMMA PlaceOrderInv ==
    ASSUME CheckoutInv, NEW i \in DOMAIN sent, PlaceOrder(i) PROVE CheckoutInv'
<1>1. PICK r : r = sent[i]  OBVIOUS
<1>2. Shaped(r) /\ r.op = "buy" /\ r.stage = "sent" /\ r.seen \in Nat /\ OrderSays(r)
  BY <1>1 DEF PlaceOrder, CheckoutInv, CheckoutTyped, Shaped, Requested
<1>3. PICK state \in {"answered", "failed"} : sent' = [sent EXCEPT ![i] = [r EXCEPT !.stage = state]]
  <2>1. sent' = [sent EXCEPT ![i].stage = "failed"] \/ sent' = [sent EXCEPT ![i].stage = "answered"]
    BY DEF PlaceOrder, Refused
  <2>2. CASE sent' = [sent EXCEPT ![i].stage = "failed"]  BY <2>2, <1>1
  <2>3. CASE sent' = [sent EXCEPT ![i].stage = "answered"]  BY <2>3, <1>1
  <2> QED  BY <2>1, <2>2, <2>3
<1>5. MayReach(r, state) /\ state # "redeem"  BY DEF MayReach
<1>4. PICK q : /\ q = [r EXCEPT !.stage = state, !.seen = r.seen]
               /\ Shaped(q) /\ q.stage = state /\ SameRequest(r, q)
  <2>1. Shaped(r) /\ r.seen \in Nat  BY <1>2
  <2> QED  BY <2>1, <1>5, StagedOne, Zenon
<1>6. /\ Shaped(q) /\ q.stage = state
      /\ q.op = r.op /\ q.term = r.term /\ q.code = r.code /\ q.plan = r.plan
      /\ q.sure = r.sure /\ q.shown = r.shown
  BY <1>4, Zenon DEF SameRequest
<1>7. sent' = [sent EXCEPT ![i] = q]
  <2>1. q = [r EXCEPT !.stage = state]  BY <1>2, <1>4, StageOnly
  <2> QED  BY <1>3, <2>1
<1>8. AnswerSays(q) /\ OrderSays(q)  BY <1>2, <1>6 DEF AnswerSays, OrderSays
<1>9. PaidAsShown'
  <2>1. CASE purchase' = purchase  BY <2>1 DEF CheckoutInv, PaidAsShown
  <2>2. CASE purchase' = [amount |-> quoteFor(r.code, acquired, r.plan, r.term), shown |-> r.shown, sure |-> r.sure]
    <3>1. purchase'.sure = r.sure /\ purchase'.amount = quoteFor(r.code, acquired, r.plan, r.term)
          /\ purchase'.shown = r.shown
      BY <2>2
    <3>2. PaidAsShown' <=> (purchase'.sure => purchase'.amount = purchase'.shown)  BY DEF PaidAsShown
    <3> QED  BY <1>2, <3>1, <3>2 DEF OrderSays
  <2>3. purchase' = purchase
          \/ purchase' = [amount |-> quoteFor(r.code, acquired, r.plan, r.term), shown |-> r.shown, sure |-> r.sure]
    BY <1>1 DEF PlaceOrder
  <2> QED  BY <2>1, <2>2, <2>3
<1>10. UNCHANGED <<today, ended, seats, early, acquired, trialEnds, months, sentCode, quotes, astray, overtaken>>
  BY DEF PlaceOrder, codes, page
<1>11. q.stage = "redeem" => q.seen = trialEnds  BY <1>5, <1>6
<1>12. q.op = sent[i].op /\ q.term = sent[i].term  BY <1>1, <1>6
<1> QED  BY <1>6, <1>7, <1>8, <1>9, <1>10, <1>11, <1>12, OneInv

LEMMA ReceiveInv ==
    ASSUME CheckoutInv, NEW i \in DOMAIN sent, Receive(i) PROVE CheckoutInv'
<1>1. PICK r : r = sent[i]  OBVIOUS
<1>2. Shaped(r) /\ r.op = "quote" /\ r.stage = "answered" /\ QuoteShaped(r.answer) /\ AnswerSays(r)
  BY <1>1 DEF Receive, CheckoutInv, CheckoutTyped, Shaped, Requested
<1>3. /\ sent' = Left(i) /\ months' = months /\ astray' = (astray \/ Late(i))
      /\ UNCHANGED <<today, ended, seats, early, acquired, trialEnds, purchase, overtaken>>
  BY DEF Receive, codes
<1>4. quotes' = r.answer /\ sentCode' = r.code  BY <1>1 DEF Receive
<1>5. astray' \in BOOLEAN /\ (~astray' => ~astray /\ ~Late(i))
  BY <1>3 DEF CheckoutInv, CheckoutTyped, Late
<1>6. /\ Listed(sent)'
      /\ \A j \in DOMAIN sent' : \E k \in DOMAIN sent : sent'[j] = sent[k]
      /\ \A j \in DOMAIN sent' : Shaped(sent[j])'
      /\ \A k \in DOMAIN sent : k # i => \E j \in DOMAIN sent' : sent'[j] = sent[k]
      /\ LastAsked'
  BY <1>3, <1>5, RemoveStep
<1>7. CheckoutTyped'
  <2>1. QuoteShaped(quotes)'  BY <1>2, <1>4 DEF QuoteShaped
  <2> QED  BY <1>3, <1>5, <1>6, <2>1 DEF CheckoutInv, CheckoutTyped
<1>8. Requested'  BY <1>3, <1>6, RequestedKept
<1>9. PageSays'
  <2> SUFFICES ASSUME ~astray', quotes'.fresh, ~IsTrial(sentCode'), ~QuoteUnderWay(sent')
               PROVE  quotes' = quotePlans(sentCode, acquired, months)'
      BY DEF PageSays, IsTrial, QuoteUnderWay
  <2>1. \A k \in DOMAIN sent : k # i => sent[k].op # "quote"  BY <1>6 DEF QuoteUnderWay
  <2>2. i \in Nat /\ \A k \in DOMAIN sent : k > i => k # i
    BY ListedIs DEF CheckoutInv, CheckoutTyped
  <2>3. r.term = months  BY <1>1, <1>2, <1>5, <2>1, <2>2 DEF CheckoutInv, LastAsked
  <2>4. quotes' = quotePlans(r.code, acquired, r.term)  BY <1>2, <1>4 DEF AnswerSays
  <2>5. PICK came : came = acquired /\ came = acquired'  BY <1>3
  <2>6. PICK text : text = r.code /\ text = sentCode'  BY <1>4
  <2>7. PICK term : term = r.term /\ term = months'  BY <1>3, <2>3
  <2>8. quotePlans(text, came, term)' = quotePlans(text, came, term)  BY <1>3, SamePrices
  <2>9. quotePlans(sentCode, acquired, months)' = quotePlans(text, came, term)'
    BY <2>5, <2>6, <2>7 DEF quotePlans, typedRefused, quoteFor, usableDiscounts, whyUnusable, quote, discountedPrice
  <2>10. quotes' = quotePlans(text, came, term)  BY <2>4, <2>5, <2>6, <2>7, Zenon
  <2> QED  BY <2>8, <2>9, <2>10, Zenon
<1>10. RedeemsTrue'  BY <1>3, <1>6 DEF CheckoutInv, RedeemsTrue
<1>11. PaidAsShown'  BY <1>3 DEF CheckoutInv, PaidAsShown
<1> QED  BY <1>6, <1>7, <1>8, <1>9, <1>10, <1>11 DEF CheckoutInv

LEMMA GoingInv ==
    ASSUME CheckoutInv, NEW i \in DOMAIN sent, Fails(i) \/ Leave(i) PROVE CheckoutInv'
<1>1. /\ sent' = Left(i)
      /\ UNCHANGED <<today, ended, seats, early, acquired, trialEnds, months, sentCode, quotes, overtaken>>
  BY DEF Fails, Leave, codes
<1>2. astray' \in BOOLEAN /\ (~astray' => ~astray /\ sent[i].op # "quote")
  <2>1. astray \in BOOLEAN  BY DEF CheckoutInv, CheckoutTyped
  <2>2. CASE Fails(i)
    <3>1. astray' = (astray \/ sent[i].op = "quote")  BY <2>2 DEF Fails
    <3> QED  BY <2>1, <3>1
  <2>3. CASE Leave(i)  BY <2>1, <2>3 DEF Leave
  <2> QED  BY <2>2, <2>3
<1>3. PaidAsShown'
  <2>1. purchase' = purchase \/ purchase' = Unordered  BY DEF Fails, Leave
  <2>2. CASE purchase' = purchase  BY <2>2 DEF CheckoutInv, PaidAsShown
  <2>3. CASE purchase' = Unordered  BY <2>3 DEF PaidAsShown, Unordered
  <2> QED  BY <2>1, <2>2, <2>3
<1> QED  BY <1>1, <1>2, <1>3, GoneInv

LEMMA AskPricesInv ==
    ASSUME CheckoutInv, NEW text, AskPrices(months', text),
           UNCHANGED <<today, ended, seats, early, acquired, trialEnds, sentCode, quotes, astray, purchase, overtaken>>
    PROVE  CheckoutInv'
<1>1. PICK r : r = Asking("quote", months', text)  OBVIOUS
<1>2. Shaped(r) /\ r.op = "quote" /\ r.term = months' /\ r.stage = "sent" /\ ~r.sure
  BY <1>1, AskingQuote
<1>3. OrderSays(r)  BY <1>2 DEF OrderSays
<1>4. sent' = Append(sent, r)  BY <1>1 DEF AskPrices
<1> QED  BY <1>2, <1>3, <1>4, AskedInv

LEMMA PageActionsInv ==
    ASSUME CheckoutInv,
           (\E term \in Lengths : chooseTerm(term)) \/ (\E text \in Typed : Type(text)) \/ Apply
    PROVE  CheckoutInv'
<1>1. ASSUME NEW term \in Lengths, chooseTerm(term) PROVE CheckoutInv'
  <2>1. PICK text : text = sentCode  OBVIOUS
  <2>2. AskPrices(months', text)  BY <1>1, <2>1 DEF chooseTerm, AskedForTerm, AskPrices
  <2>3. UNCHANGED <<today, ended, seats, early, acquired, trialEnds, sentCode, quotes, astray, purchase, overtaken>>
    BY <1>1 DEF chooseTerm, codes
  <2> QED  BY <2>2, <2>3, AskPricesInv
<1>2. ASSUME NEW text \in Typed, Type(text) PROVE CheckoutInv'
  <2>1. today' \in Nat  BY <1>2 DEF Type, codes, CheckoutInv, CheckoutTyped
  <2>2. UNCHANGED <<ended, seats, early, acquired, trialEnds, months, sentCode, quotes, sent, astray, purchase,
                    overtaken>>
    BY <1>2 DEF Type, codes
  <2> QED  BY <2>1, <2>2, StaysInv
<1>3. ASSUME Apply PROVE CheckoutInv'
  <2>1. PICK text : text = code  OBVIOUS
  <2>2. AskPrices(months', text)  BY <1>3, <2>1 DEF Apply, AskPrices, page
  <2>3. UNCHANGED <<today, ended, seats, early, acquired, trialEnds, sentCode, quotes, astray, purchase, overtaken>>
    BY <1>3 DEF Apply, codes, page
  <2> QED  BY <2>2, <2>3, AskPricesInv
<1> QED  BY <1>1, <1>2, <1>3

\* What an order sends is what the price shown was worked out with.
LEMMA ShownIsSent ==
    ASSUME NEW choice \in Plans, NEW text, NEW came, NEW term
    PROVE  quotePlans(text, came, term).price[choice]
               = quoteFor(IF quotePlans(text, came, term) # noQuote /\ choice \notin quotePlans(text, came, term).refused
                          THEN text ELSE "", came, choice, term)
<1>0. PICK q : q = quotePlans(text, came, term)  OBVIOUS
<1>1. q.fresh = TRUE  BY <1>0 DEF quotePlans
<1>2. q # noQuote  BY <1>1, NoQuoteShaped
<1>3. PICK refused : refused = {p \in Plans : typedRefused(text, p, term)}  OBVIOUS
<1>4. /\ q.refused = refused
      /\ q.price = [p \in Plans |-> quoteFor(IF p \in refused THEN "" ELSE text, came, p, term)]
  BY <1>0, <1>3 DEF quotePlans
<1>5. q.price[choice] = quoteFor(IF choice \in refused THEN "" ELSE text, came, choice, term)  BY <1>4
<1>6. q.price[choice] = quoteFor(IF q # noQuote /\ choice \notin q.refused THEN text ELSE "", came, choice, term)
  <2>1. CASE choice \in refused  BY <1>2, <1>4, <1>5, <2>1
  <2>2. CASE choice \notin refused  BY <1>2, <1>4, <1>5, <2>2
  <2> QED  BY <2>1, <2>2
<1> QED  BY <1>0, <1>6, Zenon

\* An order as it is sent.
IsFlag(x) == x \in BOOLEAN
Ordering(r, term, text, choice, shown, sure) ==
    /\ r.op = "buy" /\ r.stage = "sent" /\ r.term = term /\ r.code = text /\ r.plan = choice
    /\ r.shown = shown /\ r.sure = sure

LEMMA BuyRequest ==
    ASSUME NEW term, NEW text, NEW choice, NEW shown, NEW sure, IsFlag(sure)
    PROVE  /\ Shaped([Asking("buy", term, text) EXCEPT !.plan = choice, !.shown = shown, !.sure = sure])
           /\ Ordering([Asking("buy", term, text) EXCEPT !.plan = choice, !.shown = shown, !.sure = sure],
                      term, text, choice, shown, sure)
<1>1. ASSUME NEW r, r = [Asking("buy", term, text) EXCEPT !.plan = choice, !.shown = shown, !.sure = sure]
      PROVE  Shaped(r) /\ Ordering(r, term, text, choice, shown, sure)
  <2>1. r = [op |-> "buy", term |-> term, code |-> text, plan |-> choice, stage |-> "sent", seen |-> 0,
             answer |-> noQuote, shown |-> shown, sure |-> sure]
    BY <1>1 DEF Asking
  <2>2. /\ r.op = "buy" /\ r.term = term /\ r.code = text /\ r.plan = choice /\ r.stage = "sent" /\ r.seen = 0
        /\ r.answer = noQuote /\ r.shown = shown /\ r.sure = sure
    BY <2>1
  <2>3. r.sure \in BOOLEAN  BY <2>2, Zenon DEF IsFlag
  <2>4. r = [op |-> r.op, term |-> r.term, code |-> r.code, plan |-> r.plan, stage |-> r.stage, seen |-> r.seen,
             answer |-> r.answer, shown |-> r.shown, sure |-> r.sure]
    BY <2>1, <2>2
  <2>5. Shaped(r)  BY <2>2, <2>3, <2>4, NoQuoteShaped DEF Shaped
  <2> QED  BY <2>2, <2>5, Zenon DEF Ordering
<1> QED  BY <1>1, Zenon

LEMMA BuyInv ==
    ASSUME CheckoutInv, NEW choice \in Plans, buy(choice) PROVE CheckoutInv'
<1>1. PICK sure : sure = (~astray /\ quotes.fresh /\ ~IsTrial(sentCode) /\ ~\E i \in DOMAIN sent : sent[i].op = "quote")
  OBVIOUS
<1>2. PICK text : text = CodeToSend(choice)  OBVIOUS
<1>3. PICK r : /\ r = [Asking("buy", months, text) EXCEPT !.plan = choice, !.shown = quotes.price[choice], !.sure = sure]
               /\ Shaped(r) /\ Ordering(r, months, text, choice, quotes.price[choice], sure)
  <2>1. IsFlag(sure)  BY <1>1, Zenon DEF IsFlag
  <2> QED  BY <2>1, BuyRequest, Zenon
<1>4. /\ r.op = "buy" /\ r.stage = "sent"
      /\ r.term = months /\ r.code = text /\ r.plan = choice /\ r.shown = quotes.price[choice] /\ r.sure = sure
  BY <1>3, Zenon DEF Ordering
<1>5. sent' = Append(sent, r)  BY <1>1, <1>2, <1>3, Zenon DEF buy
<1>6. OrderSays(r)
  <2> SUFFICES ASSUME r.sure PROVE quotes.price[choice] = quoteFor(text, acquired, choice, months)
      BY <1>4, Zenon DEF OrderSays
  <2>0. ~astray /\ quotes.fresh /\ ~IsTrial(sentCode) /\ ~\E i \in DOMAIN sent : sent[i].op = "quote"
    BY <1>1, <1>4, Zenon
  <2>1. quotes = quotePlans(sentCode, acquired, months)  BY <2>0 DEF CheckoutInv, PageSays, QuoteUnderWay
  <2>2. quotePlans(sentCode, acquired, months).price[choice]
            = quoteFor(IF /\ quotePlans(sentCode, acquired, months) # noQuote
                          /\ choice \notin quotePlans(sentCode, acquired, months).refused
                       THEN sentCode ELSE "", acquired, choice, months)
    BY ShownIsSent, Zenon
  <2>3. quotes.price[choice] = quoteFor(IF quotes # noQuote /\ choice \notin quotes.refused THEN sentCode ELSE "",
                                      acquired, choice, months)
    BY <2>1, <2>2, Zenon
  <2> QED  BY <1>2, <2>3, Zenon DEF CodeToSend
<1>7. months' = months /\ UNCHANGED <<today, ended, seats, early, acquired, trialEnds, sentCode, quotes, astray, purchase,
                                      overtaken>>
  BY DEF buy, codes
<1>8. Shaped(r)  BY <1>3
<1> QED  BY <1>4, <1>5, <1>6, <1>7, <1>8, AskedInv

\* What a redemption makes of a request that was under way.
LEMMA WrittenPlaces ==
    ASSUME CheckoutInv, NEW i \in DOMAIN sent, RedeemWrite(i)
    PROVE  /\ SamePlaces /\ DOMAIN sent' = DOMAIN sent
           /\ sent'[i].op = "quote" /\ sent'[i].stage = "answered" /\ ~sent'[i].sure /\ IsTrial(sent'[i].code)
           /\ \A j \in DOMAIN sent : j # i =>
                  ~sent'[j].sure /\ ~sent'[j].answer.fresh /\ sent'[j].stage = sent[j].stage
<1>1. PICK t : t = Outdated(sent)  OBVIOUS
<1>2. /\ t = [j \in DOMAIN sent |-> t[j]]
      /\ \A j \in DOMAIN sent :
             /\ Shaped(t[j]) /\ ~t[j].sure /\ ~t[j].answer.fresh
             /\ t[j].op = sent[j].op /\ t[j].term = sent[j].term /\ t[j].code = sent[j].code
             /\ t[j].stage = sent[j].stage /\ t[j].seen = sent[j].seen
  BY <1>1, OutdatedPlaces
<1>3. PICK a : a = quotePlans("", sent[i].code, sent[i].term)  OBVIOUS
<1>4. QuoteShaped(a)  BY <1>3, QuotesShaped
<1>5. Shaped(t[i])  BY <1>2
<1>6. PICK q : /\ q = [t[i] EXCEPT !.stage = "answered", !.answer = a]
               /\ Shaped(q) /\ q.stage = "answered" /\ SameRequest(t[i], q)
  BY <1>4, <1>5, AnsweredOne, Zenon
<1>7. sent' = [t EXCEPT ![i] = q]  BY <1>1, <1>3, <1>6 DEF RedeemWrite
<1>8. q.op = sent[i].op /\ q.term = sent[i].term /\ q.code = sent[i].code /\ (q.sure <=> t[i].sure)
  BY <1>2, <1>6 DEF SameRequest
<1>9. DOMAIN t = DOMAIN sent  BY <1>2
<1>10. DOMAIN sent' = DOMAIN sent /\ sent' = [j \in DOMAIN sent |-> sent'[j]]
       /\ \A j \in DOMAIN sent : sent'[j] = IF j = i THEN q ELSE t[j]
  BY <1>7, <1>9
<1>11. sent[i].op = "quote" /\ IsTrial(sent[i].code)
  <2>1. Shaped(sent[i]) /\ sent[i].stage = "redeem"  BY DEF RedeemWrite, CheckoutInv, CheckoutTyped
  <2> QED  BY <2>1 DEF Shaped
<1>12. SamePlaces
  <2>1. ASSUME NEW j \in DOMAIN sent
        PROVE  sent'[j].op = sent[j].op /\ sent'[j].term = sent[j].term /\ Shaped(sent'[j])
    <3>1. CASE j = i  BY <1>6, <1>8, <1>10, <3>1
    <3>2. CASE j # i  BY <1>2, <1>10, <3>2
    <3> QED  BY <3>1, <3>2
  <2> QED  BY <2>1, <1>10 DEF SamePlaces
<1>13. sent'[i] = q  BY <1>10
<1>14. sent'[i].op = "quote" /\ sent'[i].stage = "answered" /\ IsTrial(sent'[i].code)
  BY <1>6, <1>8, <1>11, <1>13
<1>15. ~sent'[i].sure  BY <1>2, <1>8, <1>13
<1>16. \A j \in DOMAIN sent : j # i => ~sent'[j].sure /\ ~sent'[j].answer.fresh /\ sent'[j].stage = sent[j].stage
  BY <1>2, <1>10
<1> QED  BY <1>10, <1>12, <1>14, <1>15, <1>16

LEMMA TrialDays ==
    ASSUME NEW c, IsTrial(c), NEW end \in Nat, today \in Nat
    PROVE  Extended(end, c) \in Nat /\ Extended(end, c) >= end
<1>1. Offer[c].trialDays \in Nat  BY CheckoutAssumption DEF CheckoutAssumption, IsTrial
<1> QED  BY <1>1 DEF Extended, Most

LEMMA RedeemWriteInv ==
    ASSUME CheckoutInv, NEW i \in DOMAIN sent, RedeemWrite(i) PROVE CheckoutInv'
<1>1. /\ SamePlaces /\ DOMAIN sent' = DOMAIN sent
      /\ sent'[i].op = "quote" /\ sent'[i].stage = "answered" /\ ~sent'[i].sure /\ IsTrial(sent'[i].code)
      /\ \A j \in DOMAIN sent : j # i =>
             ~sent'[j].sure /\ ~sent'[j].answer.fresh /\ sent'[j].stage = sent[j].stage
  BY WrittenPlaces
<1>2. months' = months /\ astray' = astray /\ UNCHANGED <<today, purchase>>  BY DEF RedeemWrite
<1>3. /\ Listed(sent)' /\ DOMAIN sent' = DOMAIN sent /\ (\A j \in DOMAIN sent' : Shaped(sent[j])') /\ LastAsked'
  BY <1>1, <1>2, MapStep
<1>4. QuoteShaped(quotes)' /\ ~quotes'.fresh  BY QuotesOutdated DEF RedeemWrite
<1>5. trialEnds' \in Nat
  <2>1. PICK c : c = sent[i].code  OBVIOUS
  <2>2. Shaped(sent[i]) /\ sent[i].stage = "redeem" /\ today \in Nat  BY DEF RedeemWrite, CheckoutInv, CheckoutTyped
  <2>3. IsTrial(c) /\ sent[i].seen \in Nat  BY <2>1, <2>2 DEF Shaped
  <2>4. Extended(sent[i].seen, c) \in Nat  BY <2>2, <2>3, TrialDays
  <2> QED  BY <2>1, <2>4 DEF RedeemWrite
<1>6. overtaken' \in BOOLEAN
  <2>1. overtaken' = (overtaken \/ \E j \in DOMAIN sent \ {i} : sent[j].stage = "redeem")  BY DEF RedeemWrite
  <2> QED  BY <2>1, Zenon
<1>7. CheckoutTyped'
  <2>1. today' \in Nat  BY <1>2 DEF CheckoutInv, CheckoutTyped
  <2>2. astray' \in BOOLEAN  BY <1>2, Zenon DEF CheckoutInv, CheckoutTyped
  <2> QED  BY <1>3, <1>4, <1>5, <1>6, <2>1, <2>2 DEF CheckoutTyped
<1>8. Requested'
  <2> SUFFICES ASSUME NEW j \in DOMAIN sent PROVE AnswerSays(sent[j])' /\ OrderSays(sent[j])'
      BY <1>1 DEF Requested
  <2>1. CASE j = i  BY <1>1, <2>1 DEF AnswerSays, OrderSays, IsTrial
  <2>2. CASE j # i  BY <1>1, <2>2 DEF AnswerSays, OrderSays
  <2> QED  BY <2>1, <2>2
<1>9. PageSays'  BY <1>4 DEF PageSays
<1>10. RedeemsTrue'
  <2> SUFFICES ASSUME ~overtaken', NEW j \in DOMAIN sent, sent'[j].stage = "redeem" PROVE FALSE
      BY <1>1 DEF RedeemsTrue
  <2>1. ~\E k \in DOMAIN sent \ {i} : sent[k].stage = "redeem"  BY DEF RedeemWrite
  <2>2. CASE j = i  BY <1>1, <2>2
  <2>3. CASE j # i  BY <1>1, <2>1, <2>3
  <2> QED  BY <2>2, <2>3
<1>11. PaidAsShown'  BY <1>2 DEF CheckoutInv, PaidAsShown
<1> QED  BY <1>3, <1>7, <1>8, <1>9, <1>10, <1>11 DEF CheckoutInv

LEMMA CheckoutStep ==
    ASSUME CheckoutInv, CheckoutNext \/ UNCHANGED checkoutVars PROVE CheckoutInv'
<1>1. CASE DayPasses
  <2>1. today' \in Nat  BY <1>1 DEF DayPasses, CheckoutInv, CheckoutTyped
  <2>2. UNCHANGED <<ended, seats, early, acquired, trialEnds, months, sentCode, quotes, sent, astray, purchase,
                    overtaken>>
    BY <1>1 DEF DayPasses, page
  <2> QED  BY <2>1, <2>2, StaysInv
<1>2. CASE SeatsGo  BY <1>2, ChangedInv DEF SeatsGo
<1>3. CASE OrderPaid  BY <1>3, ChangedInv DEF OrderPaid
<1>4. ASSUME NEW c \in Offers, OfferEnds(c) PROVE CheckoutInv'  BY <1>4, ChangedInv DEF OfferEnds
<1>5. ASSUME NEW i \in DOMAIN sent,
             Quote(i) \/ RedeemLook(i) \/ RedeemWrite(i) \/ PlaceOrder(i) \/ Receive(i) \/ Fails(i) \/ Leave(i)
      PROVE  CheckoutInv'
  BY <1>5, QuoteInv, RedeemLookInv, RedeemWriteInv, PlaceOrderInv, ReceiveInv, GoingInv
<1>6. CASE (\E term \in Lengths : chooseTerm(term)) \/ (\E text \in Typed : Type(text)) \/ Apply
  BY <1>6, PageActionsInv
<1>7. ASSUME NEW choice \in Plans, buy(choice) PROVE CheckoutInv'  BY <1>7, BuyInv
<1>8. CASE UNCHANGED checkoutVars
  <2>1. today' \in Nat  BY <1>8 DEF checkoutVars, codes, CheckoutInv, CheckoutTyped
  <2>2. UNCHANGED <<ended, seats, early, acquired, trialEnds, months, sentCode, quotes, sent, astray, purchase,
                    overtaken>>
    BY <1>8 DEF checkoutVars, codes, page
  <2> QED  BY <2>1, <2>2, StaysInv
<1> QED  BY <1>1, <1>2, <1>3, <1>4, <1>5, <1>6, <1>7, <1>8 DEF CheckoutNext

LEMMA CheckoutAlways == CheckoutSpec => []CheckoutInv
<1>1. CheckoutInit => CheckoutInv  BY CheckoutInitInv
<1>2. CheckoutInv /\ [CheckoutNext]_checkoutVars => CheckoutInv'  BY CheckoutStep
<1> QED  BY <1>1, <1>2, PTL DEF CheckoutSpec

\* An order costs what the page showed for it (plan-picker.tsx), however many
\* requests for prices were under way, in whatever order they were answered and
\* whatever ended meanwhile, if nothing the property excepts came between: the
\* prices on the page are those of the term chosen and of the code that is sent.
THEOREM OrdersCostAsShown == CheckoutSpec => []PaidAsShown
<1>1. CheckoutInv => PaidAsShown  BY DEF CheckoutInv
<1> QED  BY <1>1, CheckoutAlways, PTL

\* A trial code takes no day away (promo.ts, redeemTrialCode), unless two
\* redemptions meet: one that is alone writes over the very end it read.
THEOREM TrialsKeepTheirDays == CheckoutSpec => TrialKept
<1>1. CheckoutInv /\ [CheckoutNext]_checkoutVars => [overtaken' \/ trialEnds' >= trialEnds]_checkoutVars
  <2> SUFFICES ASSUME CheckoutInv, CheckoutNext, ~overtaken' PROVE trialEnds' >= trialEnds
      OBVIOUS
  <2>1. trialEnds \in Nat /\ today \in Nat  BY DEF CheckoutInv, CheckoutTyped
  <2>2. ASSUME NEW i \in DOMAIN sent, RedeemWrite(i) PROVE trialEnds' >= trialEnds
    <3>1. ~overtaken  BY <2>2 DEF RedeemWrite
    <3>2. sent[i].stage = "redeem" /\ Shaped(sent[i])  BY <2>2 DEF RedeemWrite, CheckoutInv, CheckoutTyped
    <3>3. sent[i].seen = trialEnds  BY <3>1, <3>2 DEF CheckoutInv, RedeemsTrue
    <3>4. PICK c : c = sent[i].code  OBVIOUS
    <3>5. IsTrial(c)  BY <3>2, <3>4 DEF Shaped
    <3>6. Extended(trialEnds, c) >= trialEnds  BY <2>1, <3>5, TrialDays
    <3> QED  BY <2>2, <3>3, <3>4, <3>6 DEF RedeemWrite
  <2>3. (\E i \in DOMAIN sent : RedeemWrite(i)) \/ trialEnds' = trialEnds
    BY DEF CheckoutNext, DayPasses, SeatsGo, OrderPaid, OfferEnds, Quote, RedeemLook, PlaceOrder, Receive, Fails, Leave,
           chooseTerm, Type, Apply, buy, codes
  <2> QED  BY <2>1, <2>2, <2>3
<1> QED  BY <1>1, CheckoutAlways, PTL DEF CheckoutSpec, TrialKept

-----------------------------------------------------------------------------
(* Checkout: types *)

\* A price is a number for each plan.
Priced(q) == q.price \in [Plans -> Nat] /\ q.refused \subseteq Plans

LEMMA LeastExists ==
    ASSUME NEW S, S \subseteq Nat, S # {}
    PROVE  \E x \in S : \A y \in S : x <= y
<1> DEFINE R == OpToRel(<, Nat)
<1>1. PICK x \in S : \A y \in S : ~ (<<y, x>> \in R)
  <2>1. IsWellFoundedOn(R, Nat)  BY NatLessThanWellFounded
  <2> HIDE DEF R
  <2> QED  BY <2>1, WFMin
<1>2. ASSUME NEW y \in S PROVE x <= y
  <2>1. x \in Nat /\ y \in Nat  OBVIOUS
  <2>2. <<y, x>> \in Nat \X Nat  BY <2>1
  <2>3. y < x => <<y, x>> \in R  BY <2>2 DEF OpToRel
  <2>4. ~ (y < x)  BY <1>1, <2>3
  <2> HIDE DEF R
  <2> QED  BY <2>1, <2>4
<1> QED  BY <1>2

\* However much is taken off, and in however many parts.
LEMMA DiscountedTyped ==
    ASSUME NEW c \in Offers, NEW base \in Nat, NEW full \in Nat, NEW term \in Lengths
    PROVE  discountedPrice(c, base, full, term) \in Int
<1>1. term \in Nat /\ term > 0 /\ Offer[c].percentOff \in Int /\ Offer[c].months \in Nat
  <2>1. term \in Nat \ {0}  BY CheckoutAssumption DEF CheckoutAssumption
  <2>2. Offer[c].percentOff \in 0 .. 100 /\ {Offer[c].months, Offer[c].minMonths, Offer[c].trialDays} \subseteq Nat
    BY CheckoutAssumption, Zenon DEF CheckoutAssumption
  <2>3. PICK off \in 0 .. 100 : off = Offer[c].percentOff  BY <2>2
  <2>4. Offer[c].months \in Nat  BY <2>2
  <2>5. off \in Int  OBVIOUS
  <2>6. term \in Nat /\ term > 0  BY <2>1
  <2> QED  BY <2>3, <2>4, <2>5, <2>6
<1>2. PICK covered \in Nat : covered = IF Offer[c].months = 0 THEN term ELSE Least(Offer[c].months, term)
  BY <1>1 DEF Least
<1>3. PICK off \in Int : off = Offer[c].percentOff  BY <1>1
<1>4. PICK x \in Int : x = 2 * full * (100 - off) + 100  BY <1>3
<1>5. PICK y \in Int : y = 2 * base * (100 * term - off * covered) + 100 * term
  <2>1. 100 * term \in Int /\ off * covered \in Int /\ 2 * base \in Int  BY <1>1, <1>2, <1>3
  <2>2. PICK u, v, w \in Int : u = 100 * term /\ v = off * covered /\ w = 2 * base  BY <2>1
  <2>3. w * (u - v) + u \in Int  BY <2>2
  <2> QED  BY <2>2, <2>3
<1>6. PICK d \in Nat : d = 200 * term /\ d > 0  BY <1>1
<1>7. x \div 200 \in Int /\ y \div d \in Int  BY <1>6
<1>8. discountedPrice(c, base, full, term) = IF Offer[c].kind = "campaign" THEN x \div 200 ELSE y \div d
  BY <1>2, <1>3, <1>4, <1>5, <1>6 DEF discountedPrice
<1> QED  BY <1>7, <1>8

\* Of the prices offered there is a lowest, and it is none below nothing.
LEMMA QuoteTyped ==
    ASSUME NEW choice \in Plans, NEW term \in Lengths, NEW isEarly, NEW discounts, discounts \subseteq Offers
    PROVE  quote(choice, term, isEarly, discounts) \in Nat
<1>1. PICK base \in Nat : base = IF choice = "pro" /\ isEarly THEN EarlyPrice[term] ELSE Price[choice][term]
  <2>1. EarlyPrice[term] \in Nat /\ Price[choice][term] \in Nat  BY CheckoutAssumption DEF CheckoutAssumption
  <2> QED  BY <2>1
<1>2. PICK full \in Nat : full = Price[choice][1] * term
  <2>1. PICK a, b \in Nat : a = Price[choice][1] /\ b = term  BY CheckoutAssumption DEF CheckoutAssumption
  <2>2. a * b \in Nat  OBVIOUS
  <2> QED  BY <2>1, <2>2
<1>3. PICK floor \in Nat : floor = (full * 2) \div 5
  <2>1. (full * 2) \div 5 \in Nat  BY <1>2
  <2> QED  BY <2>1
<1>4. PICK offered : offered = {base} \cup {Most(floor, discountedPrice(c, base, full, term)) : c \in discounts}  OBVIOUS
<1>5. offered \subseteq Nat
  <2>1. ASSUME NEW c \in discounts PROVE Most(floor, discountedPrice(c, base, full, term)) \in Nat
    <3>1. PICK p \in Int : p = discountedPrice(c, base, full, term)  BY DiscountedTyped
    <3>2. Most(floor, p) \in Nat  BY DEF Most
    <3> QED  BY <3>1, <3>2
  <2> QED  BY <1>4, <2>1
<1>6. quote(choice, term, isEarly, discounts) = CHOOSE amount \in offered : \A other \in offered : amount <= other
  BY <1>1, <1>2, <1>3, <1>4 DEF quote
<1>7. \E amount \in offered : \A other \in offered : amount <= other  BY <1>4, <1>5, LeastExists
<1> QED  BY <1>5, <1>6, <1>7

LEMMA QuotesPriced ==
    ASSUME NEW text, NEW came, NEW term \in Lengths
    PROVE  Priced(quotePlans(text, came, term))
<1>1. PICK refused : refused = {p \in Plans : typedRefused(text, p, term)}  OBVIOUS
<1>2. ASSUME NEW p \in Plans, NEW told PROVE quoteFor(told, came, p, term) \in Nat
  <2>1. usableDiscounts(told, came, p, term) \subseteq Offers  BY DEF usableDiscounts
  <2> QED  BY <2>1, QuoteTyped DEF quoteFor
<1>3. PICK q : q = quotePlans(text, came, term)  OBVIOUS
<1>4. /\ q.price = [p \in Plans |-> quoteFor(IF p \in refused THEN "" ELSE text, came, p, term)]
      /\ q.refused = refused
  BY <1>1, <1>3 DEF quotePlans
<1>5. q.price \in [Plans -> Nat]  BY <1>2, <1>4
<1>6. q.refused \subseteq Plans  BY <1>1, <1>4
<1> QED  BY <1>3, <1>5, <1>6 DEF Priced

LEMMA NoQuotePriced == Priced(noQuote)
<1>1. noQuote.price = [p \in Plans |-> 0] /\ noQuote.refused = {}  BY DEF noQuote
<1> QED  BY <1>1 DEF Priced

\* What CheckoutInv leaves open.
TablesTyped ==
    /\ today \in 0 .. MaxDay /\ ended \subseteq Offers /\ acquired \in Offers \cup {""}
    /\ seats \in BOOLEAN /\ bought \in BOOLEAN /\ early \in BOOLEAN

PageTyped ==
    months \in Lengths /\ code \in Typed /\ sentCode \in Typed /\ Priced(quotes) /\ pending \in BOOLEAN

AskedTyped(r) == r.term \in Lengths /\ r.code \in Typed /\ Priced(r.answer)

\* The page waits for one order, or for none.
OneOrder ==
    /\ pending <=> \E i \in DOMAIN sent : sent[i].op = "buy"
    /\ \A i, j \in DOMAIN sent : sent[i].op = "buy" /\ sent[j].op = "buy" => i = j

RequestsTyped == Len(sent) <= MaxRequests /\ (\A i \in DOMAIN sent : AskedTyped(sent[i])) /\ OneOrder

CheckoutRest == TablesTyped /\ PageTyped /\ RequestsTyped

\* Each request stays, with what it asks for.
LEMMA RequestsStay ==
    ASSUME CheckoutInv, RequestsTyped, pending' = pending, sent' = [i \in DOMAIN sent |-> sent'[i]],
           \A i \in DOMAIN sent : sent'[i].op = sent[i].op /\ AskedTyped(sent'[i])
    PROVE  RequestsTyped'
<1>1. PICK t : t = sent'  OBVIOUS
<1>2. DOMAIN t = DOMAIN sent /\ t = [i \in DOMAIN sent |-> t[i]]  BY <1>1
<1>3. Listed(sent)  BY DEF CheckoutInv, CheckoutTyped
<1>4. Len(t) = Len(sent)  BY <1>2, <1>3, Mapping
<1>5. \A i \in DOMAIN t : t[i].op = sent[i].op /\ AskedTyped(t[i])  BY <1>1, <1>2
<1> QED  BY <1>1, <1>2, <1>4, <1>5 DEF RequestsTyped, OneOrder, AskedTyped, Priced

LEMMA AllOutdated ==
    ASSUME CheckoutInv, RequestsTyped, NEW t, t = Outdated(sent)
    PROVE  /\ t = [i \in DOMAIN sent |-> t[i]]
           /\ \A i \in DOMAIN sent : t[i].op = sent[i].op /\ AskedTyped(t[i])
<1>1. t = [i \in DOMAIN sent |-> [sent[i] EXCEPT !.answer.fresh = FALSE, !.sure = FALSE]]  BY DEF Outdated
<1>2. t = [i \in DOMAIN sent |-> t[i]]  BY <1>1
<1>3. ASSUME NEW i \in DOMAIN sent PROVE t[i].op = sent[i].op /\ AskedTyped(t[i])
  <2>1. PICK r : r = sent[i]  OBVIOUS
  <2>2. Shaped(r) /\ AskedTyped(r)  BY <2>1 DEF CheckoutInv, CheckoutTyped, RequestsTyped
  <2>3. PICK b, no : b = [r.answer EXCEPT !.fresh = FALSE] /\ no = FALSE  OBVIOUS
  <2>4. PICK q : q = [r EXCEPT !.answer = b, !.sure = no]  OBVIOUS
  <2>5. q.op = r.op /\ AskedTyped(q)
    <3>1. q = [op |-> r.op, term |-> r.term, code |-> r.code, plan |-> r.plan, stage |-> r.stage, seen |-> r.seen,
               answer |-> b, shown |-> r.shown, sure |-> no]
      BY <2>2, <2>4 DEF Shaped
    <3>2. q.op = r.op /\ q.term = r.term /\ q.code = r.code /\ q.answer = b  BY <3>1
    <3>3. b.price = r.answer.price /\ b.refused = r.answer.refused  BY <2>2, <2>3 DEF Shaped, QuoteShaped
    <3> QED  BY <2>2, <3>2, <3>3 DEF AskedTyped, Priced
  <2>6. t[i] = [r EXCEPT !.answer.fresh = FALSE, !.sure = FALSE]  BY <1>1, <2>1
  <2>7. t[i] = q  BY <2>3, <2>4, <2>6
  <2> QED  BY <2>1, <2>5, <2>7, Zenon
<1> QED  BY <1>2, <1>3

LEMMA QuotesStayPriced ==
    ASSUME CheckoutInv, Priced(quotes), quotes' = [quotes EXCEPT !.fresh = FALSE]
    PROVE  Priced(quotes')
<1>1. quotes'.price = quotes.price /\ quotes'.refused = quotes.refused
  BY DEF CheckoutInv, CheckoutTyped, QuoteShaped
<1> QED  BY <1>1 DEF Priced

\* A table that prices rest on changes.
LEMMA ChangedRest ==
    ASSUME CheckoutInv, CheckoutRest, Changed, TablesTyped' PROVE CheckoutRest'
<1>1. RequestsTyped'
  <2>1. PICK t : t = sent' /\ t = Outdated(sent)  BY DEF Changed
  <2>2. /\ t = [i \in DOMAIN sent |-> t[i]]
        /\ \A i \in DOMAIN sent : t[i].op = sent[i].op /\ AskedTyped(t[i])
    BY <2>1, AllOutdated DEF CheckoutRest
  <2>3. pending' = pending  BY DEF Changed
  <2> QED  BY <2>1, <2>2, <2>3, RequestsStay DEF CheckoutRest
<1>2. Priced(quotes')  BY QuotesStayPriced DEF Changed, CheckoutRest, PageTyped
<1>3. PageTyped'
  <2>1. UNCHANGED <<months, code, sentCode, pending>>  BY DEF Changed
  <2> QED  BY <1>2, <2>1 DEF CheckoutRest, PageTyped, Priced
<1> QED  BY <1>1, <1>3 DEF CheckoutRest

LEMMA TablesStay ==
    ASSUME TablesTyped, UNCHANGED codes PROVE TablesTyped'
  BY DEF TablesTyped, codes

LEMMA PageSame ==
    ASSUME PageTyped, UNCHANGED page PROVE PageTyped'
  BY DEF PageTyped, page, Priced

\* One request goes on.
LEMMA OneGoesOn ==
    ASSUME CheckoutInv, RequestsTyped, NEW i \in DOMAIN sent, NEW q, sent' = [sent EXCEPT ![i] = q],
           q.op = sent[i].op, AskedTyped(q), pending' = pending
    PROVE  RequestsTyped'
<1>1. sent' = [j \in DOMAIN sent |-> sent'[j]]  OBVIOUS
<1>2. \A j \in DOMAIN sent : sent'[j] = IF j = i THEN q ELSE sent[j]  OBVIOUS
<1>3. \A j \in DOMAIN sent : sent'[j].op = sent[j].op /\ AskedTyped(sent'[j])  BY <1>2 DEF RequestsTyped
<1> QED  BY <1>1, <1>3, RequestsStay

LEMMA ServerRest ==
    ASSUME CheckoutInv, CheckoutRest, NEW i \in DOMAIN sent, Quote(i) \/ RedeemLook(i) \/ PlaceOrder(i)
    PROVE  CheckoutRest'
<1>1. UNCHANGED codes /\ UNCHANGED page  BY DEF Quote, RedeemLook, PlaceOrder
<1>2. pending' = pending  BY <1>1 DEF page
<1>3. PICK r : r = sent[i] /\ Shaped(r) /\ AskedTyped(r)
  BY DEF CheckoutInv, CheckoutTyped, CheckoutRest, RequestsTyped
<1>4. PICK q : sent' = [sent EXCEPT ![i] = q] /\ q.op = r.op /\ AskedTyped(q)
  <2>1. CASE Quote(i)
    <3>1. PICK a : a = quotePlans(r.code, acquired, r.term)  OBVIOUS
    <3>2. Priced(a)  BY <1>3, <3>1, QuotesPriced DEF AskedTyped
    <3>3. PICK q : q = [r EXCEPT !.stage = "answered", !.answer = a]  OBVIOUS
    <3>4. q.op = r.op /\ q.term = r.term /\ q.code = r.code /\ q.answer = a  BY <1>3, <3>3 DEF Shaped
    <3>5. sent' = [sent EXCEPT ![i] = q]  BY <1>3, <2>1, <3>1, <3>3 DEF Quote, Answered
    <3> QED  BY <1>3, <3>2, <3>4, <3>5 DEF AskedTyped
  <2>2. CASE sent' = [sent EXCEPT ![i].stage = "failed"] \/ sent' = [sent EXCEPT ![i].stage = "answered"]
    <3>1. PICK state : sent' = [sent EXCEPT ![i].stage = state]  BY <2>2
    <3>2. PICK q : q = [r EXCEPT !.stage = state]  OBVIOUS
    <3>3. q.op = r.op /\ q.term = r.term /\ q.code = r.code /\ q.answer = r.answer  BY <1>3, <3>2 DEF Shaped
    <3>4. sent' = [sent EXCEPT ![i] = q]  BY <1>3, <3>1, <3>2
    <3> QED  BY <1>3, <3>3, <3>4 DEF AskedTyped
  <2>3. CASE sent' = [sent EXCEPT ![i].stage = "redeem", ![i].seen = trialEnds]
    <3>1. PICK q : q = [r EXCEPT !.stage = "redeem", !.seen = trialEnds]  OBVIOUS
    <3>2. q.op = r.op /\ q.term = r.term /\ q.code = r.code /\ q.answer = r.answer  BY <1>3, <3>1 DEF Shaped
    <3>3. sent' = [sent EXCEPT ![i] = q]  BY <1>3, <2>3, <3>1
    <3> QED  BY <1>3, <3>2, <3>3 DEF AskedTyped
  <2> QED  BY <2>1, <2>2, <2>3 DEF RedeemLook, PlaceOrder, Refused
<1>5. RequestsTyped'  BY <1>2, <1>3, <1>4, OneGoesOn DEF CheckoutRest
<1> QED  BY <1>1, <1>5, TablesStay, PageSame DEF CheckoutRest

LEMMA RedeemWriteRest ==
    ASSUME CheckoutInv, CheckoutRest, NEW i \in DOMAIN sent, RedeemWrite(i)
    PROVE  CheckoutRest'
<1>1. PICK c, term : c = sent[i].code /\ term = sent[i].term  OBVIOUS
<1>2. c \in Offers /\ term \in Lengths
  <2>1. Shaped(sent[i]) /\ sent[i].stage = "redeem" /\ AskedTyped(sent[i])
    BY DEF RedeemWrite, CheckoutInv, CheckoutTyped, CheckoutRest, RequestsTyped
  <2>2. IsTrial(sent[i].code)  BY <2>1 DEF Shaped
  <2> QED  BY <1>1, <2>1, <2>2 DEF IsTrial, AskedTyped
<1>3. PICK a : a = quotePlans("", c, term)  OBVIOUS
<1>4. Priced(a)  BY <1>2, <1>3, QuotesPriced
<1>5. PICK t : t = Outdated(sent)  OBVIOUS
<1>6. /\ t = [j \in DOMAIN sent |-> t[j]]
      /\ \A j \in DOMAIN sent : t[j].op = sent[j].op /\ AskedTyped(t[j])
  BY <1>5, AllOutdated DEF CheckoutRest
<1>7. Shaped(t[i])  BY <1>5, OutdatedPlaces
<1>8. PICK q : q = [t[i] EXCEPT !.stage = "answered", !.answer = a]  OBVIOUS
<1>9. q.op = t[i].op /\ q.term = t[i].term /\ q.code = t[i].code /\ q.answer = a  BY <1>7, <1>8 DEF Shaped
<1>10. q.op = sent[i].op /\ AskedTyped(q)
  <2>1. AskedTyped(t[i]) /\ t[i].op = sent[i].op  BY <1>6
  <2> QED  BY <1>4, <1>9, <2>1 DEF AskedTyped
<1>11. sent' = [t EXCEPT ![i] = q]  BY <1>1, <1>3, <1>5, <1>8 DEF RedeemWrite
<1>12. DOMAIN t = DOMAIN sent  BY <1>6
<1>13. sent' = [j \in DOMAIN sent |-> sent'[j]]  BY <1>11, <1>12
<1>14. \A j \in DOMAIN sent : sent'[j] = IF j = i THEN q ELSE t[j]  BY <1>11, <1>12
<1>15. \A j \in DOMAIN sent : sent'[j].op = sent[j].op /\ AskedTyped(sent'[j])  BY <1>6, <1>10, <1>14
<1>16. pending' = pending  BY DEF RedeemWrite
<1>17. RequestsTyped'  BY <1>13, <1>15, <1>16, RequestsStay DEF CheckoutRest
<1>18. Priced(quotes')  BY QuotesStayPriced DEF RedeemWrite, CheckoutRest, PageTyped
<1>19. PageTyped'
  <2>1. UNCHANGED <<months, code, sentCode, pending>>  BY DEF RedeemWrite
  <2> QED  BY <1>18, <2>1 DEF CheckoutRest, PageTyped, Priced
<1>20. TablesTyped'
  <2>1. acquired' = c /\ UNCHANGED <<today, ended, seats, bought, early>>  BY <1>1 DEF RedeemWrite
  <2> QED  BY <1>2, <2>1 DEF CheckoutRest, TablesTyped
<1> QED  BY <1>17, <1>19, <1>20 DEF CheckoutRest

\* A request goes; the page waits for an order no more if that was it.
LEMMA RequestGoes ==
    ASSUME CheckoutInv, RequestsTyped, NEW i \in DOMAIN sent, sent' = Left(i),
           pending' = (pending /\ sent[i].op = "quote")
    PROVE  RequestsTyped'
<1>1. PICK t, n : t = sent' /\ n = Len(sent)  OBVIOUS
<1>2. Listed(sent)  BY DEF CheckoutInv, CheckoutTyped
<1>3. n \in Nat /\ DOMAIN sent = 1 .. n  BY <1>1, <1>2, ListedIs
<1>4. /\ Listed(t) /\ DOMAIN t = 1 .. n - 1
      /\ \A j \in 1 .. n - 1 : t[j] = sent[IF j < i THEN j ELSE j + 1]
  BY <1>1, <1>2, Removing DEF Left
<1>5. \A j \in 1 .. n - 1 : (IF j < i THEN j ELSE j + 1) \in DOMAIN sent \ {i}  BY <1>3
<1>6. \A k \in DOMAIN sent : k # i => \E j \in DOMAIN t : k = IF j < i THEN j ELSE j + 1
  <2> SUFFICES ASSUME NEW k \in 1 .. n, k # i PROVE \E j \in 1 .. n - 1 : k = IF j < i THEN j ELSE j + 1
      BY <1>3, <1>4
  <2>1. i \in 1 .. n  BY <1>3
  <2>2. CASE k < i
    <3>1. k \in 1 .. n - 1  BY <1>3, <2>1, <2>2
    <3> QED  BY <3>1, <2>2
  <2>3. CASE k > i
    <3>1. k - 1 \in 1 .. n - 1 /\ ~(k - 1 < i) /\ (k - 1) + 1 = k  BY <1>3, <2>1, <2>3
    <3> QED  BY <3>1
  <2> QED  BY <2>1, <2>2, <2>3
<1>7. Len(t) <= MaxRequests
  <2>1. Len(t) \in Nat /\ DOMAIN t = 1 .. Len(t)  BY <1>4, ListedIs
  <2>2. PICK k \in Nat : k = Len(t)  BY <2>1
  <2>3. 1 .. k = 1 .. n - 1  BY <1>4, <2>1, <2>2
  <2>4. k > 0 => k \in 1 .. n - 1
    <3>1. k > 0 => k \in 1 .. k  BY <2>2
    <3> QED  BY <2>3, <3>1
  <2>5. n <= MaxRequests /\ MaxRequests \in Nat  BY <1>1, CheckoutAssumption DEF RequestsTyped, CheckoutAssumption
  <2> QED  BY <1>3, <2>2, <2>4, <2>5
<1>8. \A j \in DOMAIN t : AskedTyped(t[j])  BY <1>4, <1>5 DEF RequestsTyped
<1>9. \A j, k \in DOMAIN t : t[j].op = "buy" /\ t[k].op = "buy" => j = k
  <2> SUFFICES ASSUME NEW j \in 1 .. n - 1, NEW k \in 1 .. n - 1, t[j].op = "buy", t[k].op = "buy" PROVE j = k
      BY <1>4
  <2>1. PICK x, y \in DOMAIN sent : x = (IF j < i THEN j ELSE j + 1) /\ y = (IF k < i THEN k ELSE k + 1)  BY <1>5
  <2>2. sent[x].op = "buy" /\ sent[y].op = "buy"  BY <1>4, <2>1
  <2>3. x = y  BY <2>2 DEF RequestsTyped, OneOrder
  <2>4. i \in Int  BY <1>3
  <2> QED  BY <2>1, <2>3, <2>4
<1>10. sent[i].op \in {"quote", "buy"}
  <2>1. Shaped(sent[i])  BY DEF CheckoutInv, CheckoutTyped
  <2> QED  BY <2>1 DEF Shaped
<1>11. pending' <=> \E j \in DOMAIN t : t[j].op = "buy"
  <2>1. CASE sent[i].op = "quote"
    <3>1. ASSUME NEW k \in DOMAIN sent, sent[k].op = "buy" PROVE \E j \in DOMAIN t : t[j].op = "buy"
      <4>1. k # i  BY <2>1, <3>1
      <4>2. PICK j \in DOMAIN t : k = IF j < i THEN j ELSE j + 1  BY <1>6, <4>1
      <4> QED  BY <1>4, <3>1, <4>2
    <3>2. ASSUME NEW j \in DOMAIN t, t[j].op = "buy" PROVE \E k \in DOMAIN sent : sent[k].op = "buy"
      BY <1>4, <1>5, <3>2
    <3> QED  BY <2>1, <3>1, <3>2 DEF RequestsTyped, OneOrder
  <2>2. CASE sent[i].op = "buy"
    <3>1. ASSUME NEW j \in DOMAIN t, t[j].op = "buy" PROVE FALSE
      <4>1. PICK k \in DOMAIN sent : k # i /\ sent[k].op = "buy"  BY <1>4, <1>5, <3>1
      <4> QED  BY <2>2, <4>1 DEF RequestsTyped, OneOrder
    <3> QED  BY <2>2, <3>1
  <2> QED  BY <1>10, <2>1, <2>2
<1> QED  BY <1>1, <1>7, <1>8, <1>9, <1>11 DEF RequestsTyped, OneOrder, AskedTyped, Priced

LEMMA GoingRest ==
    ASSUME CheckoutInv, CheckoutRest, NEW i \in DOMAIN sent, Receive(i) \/ Fails(i) \/ Leave(i)
    PROVE  CheckoutRest'
<1>1. sent' = Left(i) /\ UNCHANGED codes /\ UNCHANGED <<months, code>>  BY DEF Receive, Fails, Leave
<1>2. pending' = (pending /\ sent[i].op = "quote") /\ pending \in BOOLEAN
  BY DEF Receive, Fails, Leave, CheckoutRest, PageTyped
<1>3. sentCode' \in Typed /\ Priced(quotes')
  <2>1. CASE Receive(i)
    <3>1. quotes' = sent[i].answer /\ sentCode' = sent[i].code  BY <2>1 DEF Receive
    <3> QED  BY <3>1 DEF CheckoutRest, RequestsTyped, AskedTyped
  <2>2. CASE Fails(i) \/ Leave(i)
    <3>1. quotes' = quotes /\ sentCode' = sentCode  BY <2>2 DEF Fails, Leave
    <3> QED  BY <3>1 DEF CheckoutRest, PageTyped
  <2> QED  BY <2>1, <2>2
<1>4. PageTyped'
  <2>1. pending' \in BOOLEAN  BY <1>2
  <2>2. Priced(quotes)'  BY <1>3 DEF Priced
  <2> QED  BY <1>1, <1>3, <2>1, <2>2 DEF CheckoutRest, PageTyped
<1>5. RequestsTyped'  BY <1>1, <1>2, RequestGoes DEF CheckoutRest
<1> QED  BY <1>1, <1>4, <1>5, TablesStay DEF CheckoutRest

\* One more request is sent.
LEMMA RequestSent ==
    ASSUME CheckoutInv, RequestsTyped, NEW r, AskedTyped(r), Len(sent) < MaxRequests, sent' = Append(sent, r),
           \/ r.op = "quote" /\ pending' = pending
           \/ r.op = "buy" /\ ~pending /\ pending' = TRUE
    PROVE  RequestsTyped'
<1>1. PICK t, n : t = sent' /\ n = Len(sent)  OBVIOUS
<1>2. Listed(sent)  BY DEF CheckoutInv, CheckoutTyped
<1>3. n \in Nat /\ DOMAIN sent = 1 .. n  BY <1>1, <1>2, ListedIs
<1>4. /\ Listed(t) /\ DOMAIN t = 1 .. n + 1 /\ (\A j \in 1 .. n : t[j] = sent[j]) /\ t[n + 1] = r
  BY <1>1, <1>2, Appending
<1>5. Len(t) <= MaxRequests
  <2>1. Len(t) \in Nat /\ DOMAIN t = 1 .. Len(t)  BY <1>4, ListedIs
  <2>2. PICK k \in Nat : k = Len(t)  BY <2>1
  <2>3. 1 .. k = 1 .. n + 1  BY <1>4, <2>1, <2>2
  <2>4. k > 0 => k \in 1 .. n + 1
    <3>1. k > 0 => k \in 1 .. k  BY <2>2
    <3> QED  BY <2>3, <3>1
  <2>5. n < MaxRequests /\ MaxRequests \in Nat  BY <1>1, CheckoutAssumption DEF CheckoutAssumption
  <2> QED  BY <1>3, <2>2, <2>4, <2>5
<1>6. \A j \in 1 .. n + 1 : j \in 1 .. n \/ j = n + 1  BY <1>3
<1>7. (1 .. n) \subseteq 1 .. n + 1 /\ n + 1 \in 1 .. n + 1 /\ n + 1 \notin 1 .. n  BY <1>3
<1>8. \A j \in DOMAIN t : AskedTyped(t[j])  BY <1>3, <1>4, <1>6 DEF RequestsTyped
<1>9. /\ pending' <=> \E j \in DOMAIN t : t[j].op = "buy"
      /\ \A j, k \in DOMAIN t : t[j].op = "buy" /\ t[k].op = "buy" => j = k
  <2>1. /\ pending <=> \E j \in 1 .. n : t[j].op = "buy"
        /\ \A j, k \in 1 .. n : t[j].op = "buy" /\ t[k].op = "buy" => j = k
    BY <1>3, <1>4 DEF RequestsTyped, OneOrder
  <2>2. CASE r.op = "quote" /\ pending' = pending
    <3>1. \A j \in 1 .. n + 1 : t[j].op = "buy" => j \in 1 .. n  BY <1>4, <1>6, <2>2
    <3> QED  BY <1>4, <1>7, <2>1, <2>2, <3>1
  <2>3. CASE r.op = "buy" /\ ~pending /\ pending' = TRUE
    <3>1. \A j \in 1 .. n + 1 : t[j].op = "buy" => j = n + 1  BY <1>6, <2>1, <2>3
    <3> QED  BY <1>4, <1>7, <2>3, <3>1
  <2> QED  BY <2>2, <2>3
<1> QED  BY <1>1, <1>5, <1>8, <1>9 DEF RequestsTyped, OneOrder, AskedTyped, Priced

LEMMA AskingTyped ==
    ASSUME NEW term \in Lengths, NEW text \in Typed, NEW r, r = Asking("quote", term, text)
    PROVE  r.op = "quote" /\ AskedTyped(r)
<1>1. r.op = "quote" /\ r.term = term /\ r.code = text /\ r.answer = noQuote  BY DEF Asking
<1> QED  BY <1>1, NoQuotePriced DEF AskedTyped

LEMMA PageRest ==
    ASSUME CheckoutInv, CheckoutRest,
           \/ \E term \in Lengths : chooseTerm(term)
           \/ \E text \in Typed : Type(text)
           \/ Apply \/ \E choice \in Plans : buy(choice)
    PROVE  CheckoutRest'
<1>1. UNCHANGED codes  BY DEF chooseTerm, Type, Apply, buy
<1>2. TablesTyped'  BY <1>1, TablesStay DEF CheckoutRest
<1>3. ASSUME NEW term \in Lengths, chooseTerm(term) PROVE CheckoutRest'
  <2>1. PICK r : r = Asking("quote", term, sentCode)  OBVIOUS
  <2>2. r.op = "quote" /\ AskedTyped(r)  BY <2>1, AskingTyped DEF CheckoutRest, PageTyped
  <2>3. Len(sent) < MaxRequests /\ sent' = Append(sent, r) /\ pending' = pending
    BY <1>3, <2>1 DEF chooseTerm, AskedForTerm, AskPrices
  <2>4. RequestsTyped'  BY <2>2, <2>3, RequestSent DEF CheckoutRest
  <2>5. PageTyped'
    <3>1. months' = term /\ UNCHANGED <<code, sentCode, quotes, pending>>  BY <1>3 DEF chooseTerm
    <3> QED  BY <3>1 DEF CheckoutRest, PageTyped, Priced
  <2> QED  BY <1>2, <2>4, <2>5 DEF CheckoutRest
<1>4. ASSUME NEW text \in Typed, Type(text) PROVE CheckoutRest'
  <2>1. code' = text /\ UNCHANGED <<months, sentCode, quotes, pending, sent>>  BY <1>4 DEF Type
  <2>2. PageTyped'  BY <2>1 DEF CheckoutRest, PageTyped, Priced
  <2>3. RequestsTyped'  BY <2>1 DEF CheckoutRest, RequestsTyped, OneOrder, AskedTyped, Priced
  <2> QED  BY <1>2, <2>2, <2>3 DEF CheckoutRest
<1>5. ASSUME Apply PROVE CheckoutRest'
  <2>1. PICK r : r = Asking("quote", months, code)  OBVIOUS
  <2>2. r.op = "quote" /\ AskedTyped(r)  BY <2>1, AskingTyped DEF CheckoutRest, PageTyped
  <2>3. Len(sent) < MaxRequests /\ sent' = Append(sent, r) /\ UNCHANGED page  BY <1>5, <2>1 DEF Apply, AskPrices
  <2>4. pending' = pending  BY <2>3 DEF page
  <2>5. RequestsTyped'  BY <2>2, <2>3, <2>4, RequestSent DEF CheckoutRest
  <2> QED  BY <1>2, <2>3, <2>5, PageSame DEF CheckoutRest
<1>6. ASSUME NEW choice \in Plans, buy(choice) PROVE CheckoutRest'
  <2>1. PICK text, shown, sure :
            /\ text = CodeToSend(choice)
            /\ sent' = Append(sent, [Asking("buy", months, text) EXCEPT !.plan = choice, !.shown = shown, !.sure = sure])
    BY <1>6 DEF buy
  <2>2. PICK r : r = [Asking("buy", months, text) EXCEPT !.plan = choice, !.shown = shown, !.sure = sure]  OBVIOUS
  <2>3. r.op = "buy" /\ r.term = months /\ r.code = text /\ r.answer = noQuote  BY <2>2 DEF Asking
  <2>4. text \in Typed  BY <2>1 DEF CodeToSend, Typed, CheckoutRest, PageTyped
  <2>5. AskedTyped(r)  BY <2>3, <2>4, NoQuotePriced DEF AskedTyped, CheckoutRest, PageTyped
  <2>6. Len(sent) < MaxRequests /\ sent' = Append(sent, r) /\ ~pending /\ pending' = TRUE  BY <1>6, <2>1, <2>2 DEF buy
  <2>7. RequestsTyped'  BY <2>3, <2>5, <2>6, RequestSent DEF CheckoutRest
  <2>8. PageTyped'
    <3>1. UNCHANGED <<months, code, sentCode, quotes>>  BY <1>6 DEF buy
    <3> QED  BY <2>6, <3>1 DEF CheckoutRest, PageTyped, Priced
  <2> QED  BY <1>2, <2>7, <2>8 DEF CheckoutRest
<1> QED  BY <1>3, <1>4, <1>5, <1>6

LEMMA CheckoutRestStep ==
    ASSUME CheckoutInv, CheckoutRest, CheckoutNext \/ UNCHANGED checkoutVars PROVE CheckoutRest'
<1>1. CASE DayPasses \/ UNCHANGED checkoutVars
  <2>1. UNCHANGED <<ended, seats, bought, early, acquired, page, sent>>
    BY <1>1 DEF DayPasses, checkoutVars, codes
  <2>2. today' \in 0 .. MaxDay
    <3>1. CASE DayPasses
      <4>1. MaxDay \in Nat  BY CheckoutAssumption DEF CheckoutAssumption
      <4>2. today \in 0 .. MaxDay  BY DEF CheckoutRest, TablesTyped
      <4>3. today < MaxDay /\ today' = today + 1  BY <3>1 DEF DayPasses
      <4> QED  BY <4>1, <4>2, <4>3
    <3>2. CASE UNCHANGED checkoutVars  BY <3>2 DEF checkoutVars, codes, CheckoutRest, TablesTyped
    <3> QED  BY <1>1, <3>1, <3>2
  <2>3. TablesTyped'  BY <2>1, <2>2 DEF CheckoutRest, TablesTyped
  <2>4. PageTyped'  BY <2>1, PageSame DEF CheckoutRest
  <2>5. RequestsTyped'  BY <2>1 DEF CheckoutRest, RequestsTyped, OneOrder, AskedTyped, Priced, page
  <2> QED  BY <2>3, <2>4, <2>5 DEF CheckoutRest
<1>2. CASE SeatsGo
  <2>1. TablesTyped'  BY <1>2 DEF SeatsGo, CheckoutRest, TablesTyped
  <2> QED  BY <1>2, <2>1, ChangedRest DEF SeatsGo
<1>3. CASE OrderPaid
  <2>1. TablesTyped'  BY <1>3 DEF OrderPaid, CheckoutRest, TablesTyped
  <2> QED  BY <1>3, <2>1, ChangedRest DEF OrderPaid
<1>4. ASSUME NEW c \in Offers, OfferEnds(c) PROVE CheckoutRest'
  <2>1. TablesTyped'  BY <1>4 DEF OfferEnds, CheckoutRest, TablesTyped
  <2> QED  BY <1>4, <2>1, ChangedRest DEF OfferEnds
<1>5. ASSUME NEW i \in DOMAIN sent,
             Quote(i) \/ RedeemLook(i) \/ RedeemWrite(i) \/ PlaceOrder(i) \/ Receive(i) \/ Fails(i) \/ Leave(i)
      PROVE  CheckoutRest'
  BY <1>5, ServerRest, RedeemWriteRest, GoingRest
<1> QED  BY <1>1, <1>2, <1>3, <1>4, <1>5, PageRest DEF CheckoutNext

LEMMA CheckoutRestInit == ASSUME CheckoutInit PROVE CheckoutRest
<1>1. months \in Lengths
  <2>1. months = CHOOSE n \in Lengths : \A m \in Lengths : m <= n  BY DEF CheckoutInit
  <2>2. \E n \in Lengths : \A m \in Lengths : m <= n  BY CheckoutAssumption DEF CheckoutAssumption
  <2> QED  BY <2>1, <2>2
<1>2. TablesTyped
  <2>1. MaxDay \in Nat  BY CheckoutAssumption DEF CheckoutAssumption
  <2>2. today = 0 /\ 0 \in 0 .. MaxDay
    <3>1. today = 0  BY Zenon DEF CheckoutInit
    <3> QED  BY <2>1, <3>1
  <2>3. ended \subseteq Offers /\ acquired \in Offers \cup {""}  BY DEF CheckoutInit
  <2>4. seats \in BOOLEAN /\ bought \in BOOLEAN /\ early \in BOOLEAN  BY Zenon DEF CheckoutInit
  <2> QED  BY <2>2, <2>3, <2>4 DEF TablesTyped
<1>3. PageTyped  BY <1>1, NoQuotePriced DEF CheckoutInit, PageTyped
<1>4. PICK r : r = Asking("quote", months, sentCode)  OBVIOUS
<1>5. r.op = "quote" /\ AskedTyped(r)  BY <1>3, <1>4, AskingTyped DEF PageTyped
<1>6. sent = <<r>> /\ ~pending  BY <1>4 DEF CheckoutInit
<1>7. DOMAIN sent = 1 .. 1 /\ Len(sent) = 1 /\ \A i \in DOMAIN sent : sent[i] = r  BY <1>6
<1>8. 1 <= MaxRequests
  <2>1. MaxRequests \in Nat \ {0}  BY CheckoutAssumption, Zenon DEF CheckoutAssumption
  <2> QED  BY <2>1
<1>9. RequestsTyped  BY <1>5, <1>6, <1>7, <1>8 DEF RequestsTyped, OneOrder
<1> QED  BY <1>2, <1>3, <1>9 DEF CheckoutRest

\* Whatever codes are typed, tables change and answers are lost: each plan has a
\* price that is no less than nothing (pricing.ts, quote), and the page waits
\* for the order it made, and for one only (plan-picker.tsx).
THEOREM CheckoutTypes == CheckoutSpec => []CheckoutTypeOK
<1>1. CheckoutInit => CheckoutInv /\ CheckoutRest  BY CheckoutInitInv, CheckoutRestInit
<1>2. CheckoutInv /\ CheckoutRest /\ [CheckoutNext]_checkoutVars => CheckoutInv' /\ CheckoutRest'
  BY CheckoutStep, CheckoutRestStep
<1>3. CheckoutInv /\ CheckoutRest => CheckoutTypeOK
  <2> SUFFICES ASSUME CheckoutInv, CheckoutRest PROVE CheckoutTypeOK  OBVIOUS
  <2>1. Cardinality({i \in DOMAIN sent : sent[i].op = "buy"}) = (IF pending THEN 1 ELSE 0)
    <3>1. CASE pending
      <4>1. PICK k \in DOMAIN sent : sent[k].op = "buy"  BY <3>1 DEF CheckoutRest, RequestsTyped, OneOrder
      <4>2. {i \in DOMAIN sent : sent[i].op = "buy"} = {k}  BY <4>1 DEF CheckoutRest, RequestsTyped, OneOrder
      <4> QED  BY <3>1, <4>2, FS_Singleton
    <3>2. CASE ~pending
      <4>1. {i \in DOMAIN sent : sent[i].op = "buy"} = {}  BY <3>2 DEF CheckoutRest, RequestsTyped, OneOrder
      <4> QED  BY <3>2, <4>1, FS_EmptySet
    <3> QED  BY <3>1, <3>2
  <2>2. today \in 0 .. MaxDay /\ ended \subseteq Offers /\ acquired \in Offers \cup {""}
    BY DEF CheckoutRest, TablesTyped
  <2>3. trialEnds \in Nat  BY DEF CheckoutInv, CheckoutTyped
  <2>4. /\ months \in Lengths /\ {code, sentCode} \subseteq Typed
        /\ quotes.price \in [Plans -> Nat] /\ quotes.refused \subseteq Plans
    BY DEF CheckoutRest, PageTyped, Priced
  <2>5. {seats, bought, early, pending, astray, overtaken} \subseteq BOOLEAN
    <3>1. astray \in BOOLEAN /\ overtaken \in BOOLEAN  BY Zenon DEF CheckoutInv, CheckoutTyped
    <3>2. seats \in BOOLEAN /\ bought \in BOOLEAN /\ early \in BOOLEAN /\ pending \in BOOLEAN
      BY Zenon DEF CheckoutRest, TablesTyped, PageTyped
    <3> QED  BY <3>1, <3>2, Zenon
  <2>6. Len(sent) <= MaxRequests  BY DEF CheckoutRest, RequestsTyped
  <2> QED  BY <2>1, <2>2, <2>3, <2>4, <2>5, <2>6 DEF CheckoutTypeOK
<1> QED  BY <1>1, <1>2, <1>3, PTL DEF CheckoutSpec

=============================================================================
