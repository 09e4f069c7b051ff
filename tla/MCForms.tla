------------------------------- MODULE MCForms -------------------------------
(* A digest sent by two handlers; and the forms a profile comes from.          *)
EXTENDS MCDelivery, ProfileForms

VARIABLE part   \* the two share no variable: a behaviour is about one of them

\* Of what was read, one place answered, and one is shared.
MCProposed == <<[name |-> "acme", kind |-> "self", surfaces |-> {"blog", "news"}],
                [name |-> "bolt", kind |-> "competitor", surfaces |-> {"news"}],
                [name |-> "duty", kind |-> "condition", surfaces |-> {}]>>
MCFolded == "acme" :> "acme" @@ "bolt" :> "bolt" @@ "duty" :> "duty" @@ "Acme" :> "acme"
MCOffered == [review |-> {"RU", "DE"}, profile |-> {"RU", "DE"}]
MCRegions == "RU" :> {"MOW"} @@ "DE" :> {} @@ "UZ" :> {} @@ "" :> {}
MCGeo(country, extras, home, region) == [country |-> country, extras |-> extras, home |-> home, region |-> region]
MCFinds == {MCGeo("RU", {"DE"}, "", "MOW"), MCGeo("UZ", {}, "RU", "")}
MCAllowances == {[free |-> TRUE, profiles |-> 1, targets |-> 2], [free |-> FALSE, profiles |-> 2, targets |-> 3]}

\* A visitor comes before there are profiles, and members while he has
\* confirmed nothing; reviews that follow a profile are taken as they are, and
\* by the second profile one change at most was made.
MCUsed ==
    /\ form.kind = "closed" =>
           /\ form'.kind = "anon" => profiles = <<>>
           /\ form'.kind \in {"review", "profile"} => reviewed = Closed \/ taken
    /\ edits' # edits /\ form.kind = "review" => profiles = <<>>
    /\ form # Closed /\ form' = Closed /\ saving = Nothing => edits = 0
    /\ Len(profiles') = 2 => edits' <= 1

MCInit ==
    /\ part \in {"digest", "forms"} /\ Init /\ FormsInit
    /\ allowance.free = (found.home # "")
    /\ part = "digest" => allowance.free
    /\ part = "forms" => ~delivery.chat

MCNext ==
    /\ part' = part
    /\ \/ part = "digest" /\ Next /\ UNCHANGED formsVars
       \/ part = "forms" /\ FormsNext /\ MCUsed /\ UNCHANGED vars

MCSpec == MCInit /\ [][MCNext]_<<part, vars, formsVars>>
=============================================================================
