------------------------------ MODULE Checkout ------------------------------
(***************************************************************************)
(* What a signed-in buyer sees and pays: the pricing page with its terms   *)
(* and its promo code (apps/web/src/components/billing/plan-picker.tsx),   *)
(* the prices it asks the server for (api/billing/quote), the order it     *)
(* makes (api/billing/checkout), and the codes and tables behind both      *)
(* (packages/domain/src/billing/promo.ts, pricing.ts, orders.ts).          *)
(*                                                                         *)
(* Requests for prices overlap and their answers come in any order; codes  *)
(* end and early seats go while the page is open.                          *)
(***************************************************************************)
EXTENDS Integers, Sequences, FiniteSets, SequencesExt

CONSTANTS
    Plans,          \* PAID_PLANS
    Lengths,        \* TERMS, in months
    Price,          \* PRICE_TABLE of a currency: what a plan costs for a term
    EarlyPrice,     \* EARLY_PRO_TABLE
    Offers,         \* rows of promo_codes
    Offer,          \* ... each with kind, percentOff, months, minMonths, planFilter, trialDays
    MaxDay,         \* bound on time
    MaxRequests     \* bound on requests under way

ASSUME CheckoutAssumption ==
    /\ "pro" \in Plans /\ 1 \in Lengths /\ Lengths \subseteq Nat \ {0}
    /\ \E n \in Lengths : \A m \in Lengths : m <= n   \* one is the longest
    /\ Price \in [Plans -> [Lengths -> Nat]] /\ EarlyPrice \in [Lengths -> Nat]
    /\ \A c \in Offers : /\ Offer[c].kind \in {"campaign", "code", "trial"}
                         /\ Offer[c].percentOff \in 0 .. 100
                         /\ {Offer[c].months, Offer[c].minMonths, Offer[c].trialDays} \subseteq Nat
                         /\ Offer[c].planFilter \subseteq Plans
    /\ "" \notin Offers /\ MaxDay \in Nat /\ MaxRequests \in Nat \ {0}

Typed == Offers \cup {"", "nonsense"}   \* what may be in the code's field

\* An answer; that nothing it rests on has changed since is history.
noQuote == [price |-> [p \in Plans |-> 0], refused |-> {}, fresh |-> FALSE]

VARIABLES
    today,
    ended,          \* codes past their date, or used up (a trial code is never)
    seats,          \* an early seat is free
    bought,         \* the tenant has a paid order ...
    early,          \* ... at the early price
    acquired,       \* tenants.acquired_code
    trialEnds,      \* tenants.trial_ends_at
    months,         \* the term chosen
    code,           \* the code typed
    sentCode,       \* the code of the last answer
    quotes,         \* the last answer received
    pending,        \* an order is being made
    sent,           \* the requests under way, in the order they were sent
    astray,         \* history: since the page was opened, an answer was lost or came late
    purchase,       \* the last order: what it costs, and (history) what the page showed
    overtaken       \* history: two redemptions have met

codes == <<today, ended, seats, bought, early, acquired, trialEnds>>
page == <<months, code, sentCode, quotes, pending>>
checkoutVars == <<codes, page, sent, astray, purchase, overtaken>>

Unordered == [amount |-> 0, shown |-> 0, sure |-> FALSE]
Asking(op, term, text) ==
    [op |-> op, term |-> term, code |-> text, plan |-> "pro", stage |-> "sent", seen |-> 0,
     answer |-> noQuote, shown |-> 0, sure |-> FALSE]

\* The code of the link the page was opened with is in the field and is sent.
CheckoutInit ==
    /\ today = 0 /\ ended = {} /\ seats \in BOOLEAN /\ bought = FALSE /\ early = FALSE
    /\ acquired \in {c \in Offers : Offer[c].kind = "code"} \cup {""} /\ trialEnds \in 0 .. 1
    /\ months = CHOOSE n \in Lengths : \A m \in Lengths : m <= n
    /\ code \in Typed /\ sentCode = code /\ quotes = noQuote /\ pending = FALSE
    /\ sent = <<Asking("quote", months, sentCode)>>
    /\ astray = FALSE /\ purchase = Unordered /\ overtaken = FALSE

-----------------------------------------------------------------------------
(* What a purchase costs *)

Least(a, b) == IF a <= b THEN a ELSE b
Most(a, b) == IF a >= b THEN a ELSE b

\* discountedPrice, in whole roubles or dollars, halves up: a campaign comes off
\* the full price, any other code off the term's for the months it covers.
discountedPrice(c, base, full, term) ==
    LET covered == IF Offer[c].months = 0 THEN term ELSE Least(Offer[c].months, term)
    IN  IF Offer[c].kind = "campaign" THEN (2 * full * (100 - Offer[c].percentOff) + 100) \div 200
        ELSE (2 * base * (100 * term - Offer[c].percentOff * covered) + 100 * term) \div (200 * term)

\* Discounts do not stack, and none goes below two fifths of the full price.
quote(plan, term, isEarlyEligible, discounts) ==
    LET base == IF plan = "pro" /\ isEarlyEligible THEN EarlyPrice[term] ELSE Price[plan][term]
        full == Price[plan][1] * term
        floor == (full * 2) \div 5
        offered == {base} \cup {Most(floor, discountedPrice(c, base, full, term)) : c \in discounts}
    IN  CHOOSE amount \in offered : \A other \in offered : amount <= other

whyUnusable(c, plan, term) ==
    \/ c \in ended \/ Offer[c].percentOff = 0 \/ term < Offer[c].minMonths
    \/ Offer[c].planFilter # {} /\ plan \notin Offer[c].planFilter

\* A code that is typed and unusable is an error.
typedRefused(typed, plan, term) == typed # "" /\ (typed \notin Offers \/ whyUnusable(typed, plan, term))

\* The code typed, the one the tenant came with, and what runs for everyone.
usableDiscounts(typed, remembered, plan, term) ==
    {c \in ({typed, remembered} \cap Offers) \cup {o \in Offers : Offer[o].kind = "campaign"} :
        ~whyUnusable(c, plan, term)}

quoteFor(typed, remembered, plan, term) ==
    quote(plan, term, seats \/ early, usableDiscounts(typed, remembered, plan, term))

\* A refused code is reported, and the price shown without it.
quotePlans(typed, remembered, term) ==
    LET refused == {p \in Plans : typedRefused(typed, p, term)}
    IN  [price |-> [p \in Plans |-> quoteFor(IF p \in refused THEN "" ELSE typed, remembered, p, term)],
         refused |-> refused, fresh |-> TRUE]

-----------------------------------------------------------------------------
(* The tables *)

\* What was worked out before a table changed is no longer what it says.
Outdated(requests) ==
    [i \in DOMAIN requests |-> [requests[i] EXCEPT !.answer.fresh = FALSE, !.sure = FALSE]]
Changed ==
    /\ quotes' = [quotes EXCEPT !.fresh = FALSE] /\ sent' = Outdated(sent)
    /\ UNCHANGED <<months, code, sentCode, pending, astray, purchase, overtaken>>

DayPasses ==
    /\ today < MaxDay /\ today' = today + 1
    /\ UNCHANGED <<ended, seats, bought, early, acquired, trialEnds, page, sent, astray, purchase, overtaken>>

OfferEnds(c) ==
    /\ ended' = ended \cup {c} /\ Changed
    /\ UNCHANGED <<today, seats, bought, early, acquired, trialEnds>>

SeatsGo ==
    /\ seats /\ seats' = FALSE /\ Changed
    /\ UNCHANGED <<today, ended, bought, early, acquired, trialEnds>>

\* An order of the tenant is paid, from this page or another.
OrderPaid ==
    /\ bought' = TRUE /\ early' \in {early, early \/ seats} /\ Changed
    /\ UNCHANGED <<today, ended, seats, acquired, trialEnds>>

-----------------------------------------------------------------------------
(* The server *)

IsTrial(text) == text \in Offers /\ Offer[text].trialDays > 0

Answered(i, answer) == sent' = [sent EXCEPT ![i].stage = "answered", ![i].answer = answer]
Refused(i) == sent' = [sent EXCEPT ![i].stage = "failed"]

\* The prices of the plans are read one after another; what changes meanwhile
\* is taken to change before or after.
Quote(i) ==
    /\ sent[i].op = "quote" /\ sent[i].stage = "sent" /\ ~IsTrial(sent[i].code)
    /\ Answered(i, quotePlans(sent[i].code, acquired, sent[i].term))
    /\ UNCHANGED <<codes, page, astray, purchase, overtaken>>

\* redeemTrialCode looks ...
RedeemLook(i) ==
    LET c == sent[i].code
    IN  /\ sent[i].op = "quote" /\ sent[i].stage = "sent" /\ IsTrial(c)
        /\ IF c \in ended \/ bought \/ acquired = c THEN Refused(i)
           ELSE sent' = [sent EXCEPT ![i].stage = "redeem", ![i].seen = trialEnds]
        /\ UNCHANGED <<codes, page, astray, purchase, overtaken>>

\* Mutant: a code's days count from today, whatever there was.
FromToday(seen, c) == today + Offer[c].trialDays

\* The trial lasts to the later of its end and the code's days from now.
Extended(seen, c) == Most(today + Offer[c].trialDays, seen)

\* ... and then writes, whatever was written meanwhile; the prices follow
\* without a typed code.
RedeemWrite(i) ==
    LET c == sent[i].code
    IN  /\ sent[i].stage = "redeem"
        /\ trialEnds' = Extended(sent[i].seen, c) /\ acquired' = c
        /\ quotes' = [quotes EXCEPT !.fresh = FALSE]
        /\ sent' = [Outdated(sent) EXCEPT ![i].stage = "answered",
                                         ![i].answer = quotePlans("", c, sent[i].term)]
        /\ overtaken' = (overtaken \/ \E j \in DOMAIN sent \ {i} : sent[j].stage = "redeem")
        /\ UNCHANGED <<today, ended, seats, bought, early, months, code, sentCode, pending, astray, purchase>>

\* createOrder prices the purchase again, then the payment page is made.
PlaceOrder(i) ==
    LET r == sent[i]
    IN  /\ r.op = "buy" /\ r.stage = "sent"
        /\ IF typedRefused(r.code, r.plan, r.term) THEN Refused(i) /\ UNCHANGED purchase
           ELSE /\ purchase' = [amount |-> quoteFor(r.code, acquired, r.plan, r.term), shown |-> r.shown, sure |-> r.sure]
                /\ sent' = [sent EXCEPT ![i].stage = "answered"]
        /\ UNCHANGED <<codes, page, astray, overtaken>>

-----------------------------------------------------------------------------
(* The page *)

\* An answer that another, asked for later, has come before is late.
Left(i) == RemoveAt(sent, i)
Late(i) == sent[i].op = "quote" /\ \E j \in 1 .. (i - 1) : sent[j].op = "quote"

Receive(i) ==
    /\ sent[i].op = "quote" /\ sent[i].stage = "answered"
    /\ quotes' = sent[i].answer /\ sentCode' = sent[i].code
    /\ astray' = (astray \/ Late(i)) /\ sent' = Left(i)
    /\ UNCHANGED <<codes, months, code, pending, purchase, overtaken>>

\* An error is shown, and the prices stay; an answer may also be lost.
Fails(i) ==
    /\ sent[i].stage # "redeem" /\ sent' = Left(i)
    /\ astray' = (astray \/ sent[i].op = "quote")
    /\ pending' = (pending /\ sent[i].op = "quote")
    /\ purchase' = (IF sent[i].op = "quote" THEN purchase ELSE Unordered)
    /\ UNCHANGED <<codes, months, code, sentCode, quotes, overtaken>>

\* The payment page takes this one's place; the buyer may come back to it.
Leave(i) ==
    /\ sent[i].op = "buy" /\ sent[i].stage = "answered"
    /\ pending' = FALSE /\ sent' = Left(i) /\ purchase' = Unordered
    /\ UNCHANGED <<codes, months, code, sentCode, quotes, astray, overtaken>>

\* refresh
AskPrices(term, text) == Len(sent) < MaxRequests /\ sent' = Append(sent, Asking("quote", term, text))

Type(text) ==
    /\ code' = text /\ text # code
    /\ UNCHANGED <<codes, months, sentCode, quotes, pending, sent, astray, purchase, overtaken>>

\* Mutant: a change of term asks for no new prices.
NoneAsked(term) == UNCHANGED sent

\* Only the term asks anew on its own ...
AskedForTerm(term) == AskPrices(term, sentCode)

chooseTerm(term) ==
    /\ term # months /\ months' = term /\ AskedForTerm(term)
    /\ UNCHANGED <<codes, code, sentCode, quotes, pending, astray, purchase, overtaken>>

\* ... a newly typed code waits for "Apply".
Apply ==
    /\ AskPrices(months, code)
    /\ UNCHANGED <<codes, page, astray, purchase, overtaken>>

\* The code of the prices shown goes with the order, if this plan takes it.
CodeToSend(plan) == IF quotes # noQuote /\ plan \notin quotes.refused THEN sentCode ELSE ""

buy(plan) ==
    /\ ~pending /\ pending' = TRUE /\ Len(sent) < MaxRequests
    /\ sent' = Append(sent, [Asking("buy", months, CodeToSend(plan)) EXCEPT
            !.plan = plan, !.shown = quotes.price[plan],
            !.sure = ~astray /\ quotes.fresh /\ ~IsTrial(sentCode) /\ ~\E i \in DOMAIN sent : sent[i].op = "quote"])
    /\ UNCHANGED <<codes, months, code, sentCode, quotes, astray, purchase, overtaken>>

CheckoutNext ==
    \/ DayPasses \/ SeatsGo \/ OrderPaid \/ \E c \in Offers : OfferEnds(c)
    \/ \E i \in DOMAIN sent :
           \/ Quote(i) \/ RedeemLook(i) \/ RedeemWrite(i) \/ PlaceOrder(i)
           \/ Receive(i) \/ Fails(i) \/ Leave(i)
    \/ \E term \in Lengths : chooseTerm(term)
    \/ \E text \in Typed : Type(text)
    \/ Apply \/ \E plan \in Plans : buy(plan)

CheckoutSpec == CheckoutInit /\ [][CheckoutNext]_checkoutVars

-----------------------------------------------------------------------------
(* Properties *)

CheckoutTypeOK ==
    /\ today \in 0 .. MaxDay /\ ended \subseteq Offers /\ acquired \in Offers \cup {""}
    /\ trialEnds \in Nat /\ months \in Lengths /\ {code, sentCode} \subseteq Typed
    /\ quotes.price \in [Plans -> Nat] /\ quotes.refused \subseteq Plans
    /\ Len(sent) <= MaxRequests
    /\ {seats, bought, early, pending, astray, overtaken} \subseteq BOOLEAN
    /\ Cardinality({i \in DOMAIN sent : sent[i].op = "buy"}) = (IF pending THEN 1 ELSE 0)

\* The page and the payment agree (plan-picker.tsx:5): an order costs what the
\* page showed for it, if no answer had been late or lost, none was missing, no
\* code had ended and no seat gone since the prices were asked for, and the code
\* in the prices is not one that gave free days.  The term, the code typed but
\* not applied, the code a plan refuses and the one the tenant came with make no
\* difference.
PaidAsShown == purchase.sure => purchase.amount = purchase.shown

\* A trial code never takes days away (promo.ts:175), unless two redemptions
\* meet: each writes what it worked out from the end of the trial it read.
TrialKept == [][overtaken' \/ trialEnds' >= trialEnds]_checkoutVars

=============================================================================
