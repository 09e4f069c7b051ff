----------------------------- MODULE MCCheckout -----------------------------
(* Orders with one request at a time, the page they are made on, and the     *)
(* readings that come before any of them.                                     *)
EXTENDS MCBilling, Checkout, Readings

VARIABLE part   \* the three share no variable: a behaviour is about one of them

MCPrice == ("pro" :> (1 :> 790 @@ 12 :> 6590)) @@ ("team" :> (1 :> 1990 @@ 12 :> 16690))
MCEarlyPrice == 1 :> 390 @@ 12 :> 3790
MCTrial(days) ==
    [kind |-> "trial", percentOff |-> 0, months |-> 0, minMonths |-> 0, planFilter |-> {}, trialDays |-> days]
MCOffer ==
    "long" :> MCTrial(3) @@ "short" :> MCTrial(1)
    @@ "team20" :> [MCTrial(0) EXCEPT !.kind = "code", !.percentOff = 20, !.months = 3, !.planFilter = {"team"}]

\* A new text is typed when the last is applied.  Tables change while prices
\* are about, and orders are made of prices nothing has outdated: what else may
\* happen leaves nothing sure.
MCSure ==
    /\ ~astray /\ (code' # code => code = sentCode)
    /\ ~quotes.fresh => \A i \in DOMAIN sent' : sent'[i].op = "quote"
    /\ <<seats, early, ended, bought>>' # <<seats, early, ended, bought>> => quotes.fresh \/ sent # <<>>

\* Prices, with no trial code about and no need of time; only what is paid at
\* the early price changes them.
MCPrices ==
    /\ ~IsTrial(code') /\ today' = today /\ bought' = early'
    /\ \A c \in ended' : ~IsTrial(c)

\* Trial codes, with no order about.
MCTrials == IsTrial(code') /\ ~pending' /\ ~early' /\ ~overtaken /\ months' = months /\ ended' = ended

MCContaining == "shop" :> {"shop", "myshop"} @@ "myshop" :> {"myshop"}

\* Those without an account, over midnight; or a member, on one day.
MCAsks(askers) == ReadingsNext /\ \A r \in DOMAIN rows' : rows'[r].by \in askers
MCMember == MCAsks(Members) /\ date' = date /\ handler' = handler

MCInit ==
    /\ part \in {"orders", "prices", "trials", "signups", "member"}
    /\ Init /\ CheckoutInit /\ ReadingsInit
    /\ part # "trials" => ~IsTrial(code) /\ trialEnds = 0
    /\ part = "prices" => (seats => acquired = "")   \* early seats or a remembered code
    /\ part # "prices" => acquired = "" /\ ~seats
    /\ part = "trials" => IsTrial(code)
    /\ part \notin {"prices", "trials"} => code = ""

MCNext ==
    /\ part' = part
    /\ \/ part = "orders" /\ Next /\ UNCHANGED <<checkoutVars, readingsVars>>
       \/ part = "prices" /\ CheckoutNext /\ MCSure /\ MCPrices /\ UNCHANGED <<vars, readingsVars>>
       \/ part = "trials" /\ CheckoutNext /\ MCSure /\ MCTrials /\ UNCHANGED <<vars, readingsVars>>
       \/ part = "signups" /\ MCAsks(Chatters \cup Visitors) /\ UNCHANGED <<vars, checkoutVars>>
       \/ part = "member" /\ MCMember /\ UNCHANGED <<vars, checkoutVars>>

MCSpec == MCInit /\ [][MCNext]_<<part, vars, checkoutVars, readingsVars>>

\* The types of all three.
PurchaseTypeOK == TypeOK /\ CheckoutTypeOK /\ ReadingsTypeOK
=============================================================================
