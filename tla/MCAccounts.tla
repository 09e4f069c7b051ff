----------------------------- MODULE MCAccounts -----------------------------
EXTENDS Accounts, Profiles, TargetPage, Cards, CardActions, TLC

VARIABLE part   \* the five share no variable: a behaviour is about one of them

MCAddressee == [i \in Invitations |-> CHOOSE m \in Mail : TRUE]

\* The addressees of invitations and others who sign up by mail; or visitors of
\* either channel, with no invitation about.
MCInvited ==
    /\ users' \subseteq Mail /\ pending' = pending
    /\ \A u \in AccountIds : telegramOf'[u] = none
MCVisitor ==
    /\ invitation' = invitation
    /\ users' \subseteq Telegrams \cup {MCAddressee[i] : i \in Invitations}

\* Writers of one profile side by side under one plan, or one writer at a time;
\* which profile is the first makes no difference.
MCProfiles ==
    /\ ProfilesNext
    /\ sideBySide' => Cardinality(alive' \cup gone') <= 1 /\ limit' = limit
    /\ alive' \cup gone' # {} => (CHOOSE g \in ProfileIds : TRUE) \in alive' \cup gone'

MCKindOf == ("a" :> "price" @@ "b" :> "news" @@ "c" :> "decision")

\* Time passes while nothing is under way, the tables grow while one request at
\* most is; a list that went astray is not followed further.
MCPage ==
    /\ TargetPageNext
    /\ ~astray /\ filterKind' # "news"
    /\ clock' # clock => flights = <<>>
    /\ at' # at => Len(flights) <= 1

\* What a window may hold: changes of two companies, one of them urgent, news of
\* no company, and of a pack.
MCChange(target, isUrgent, pack, worth, facts) ==
    [target |-> target, isUrgent |-> isUrgent, pack |-> pack, worth |-> worth, facts |-> facts]
MCNews ==
    {MCChange("a", FALSE, FALSE, 0, 1), MCChange("a", FALSE, FALSE, 1, 2), MCChange("a", TRUE, FALSE, 0, 1),
     MCChange("b", FALSE, FALSE, 1, 1), MCChange("none", FALSE, FALSE, 0, 1),
     MCChange("none", FALSE, TRUE, 0, 1), MCChange("none", TRUE, TRUE, 1, 1)}

\* One press, then one of "it changed a decision"; a chat moves and a target goes
\* only when that can matter.
MCPresses ==
    /\ CardActionsNext
    /\ Cardinality(pressed') <= 1
    /\ questions # {} => \A p \in pressed' \ pressed : p.button = "influenced"
    /\ chatOf' # chatOf => questions # {}
    /\ goneTargets' # goneTargets => questions # {} \/ pressed # {}
    /\ goneTargets' \subseteq {<<CHOOSE r \in Readers : TRUE, 1>>}

MCInit ==
    /\ part \in {"invited", "visitor", "profiles", "page", "cards", "presses"}
    /\ AccountsInit /\ ProfilesInit /\ TargetPageInit /\ CardsInit /\ CardActionsInit
    /\ part # "cards" => held = <<>>
    /\ part # "presses" => \A r \in Readers : chatOf[r] = noChat
    /\ part # "profiles" => \A n \in TargetLimits : limit <= n

MCNext ==
    /\ part' = part
    /\ \/ part \in {"invited", "visitor"} /\ AccountsNext
             /\ (part = "invited" => MCInvited) /\ (part = "visitor" => MCVisitor)
             /\ UNCHANGED <<profilesVars, targetPageVars, cardsVars, cardActionsVars>>
       \/ part = "profiles" /\ MCProfiles /\ UNCHANGED <<accountsVars, targetPageVars, cardsVars, cardActionsVars>>
       \/ part = "page" /\ MCPage /\ UNCHANGED <<accountsVars, profilesVars, cardsVars, cardActionsVars>>
       \/ part = "cards" /\ CardsNext /\ UNCHANGED <<accountsVars, profilesVars, targetPageVars, cardActionsVars>>
       \/ part = "presses" /\ MCPresses /\ UNCHANGED <<accountsVars, profilesVars, targetPageVars, cardsVars>>

MCSpec == MCInit /\ [][MCNext]_<<part, accountsVars, profilesVars, targetPageVars, cardsVars, cardActionsVars>>

\* The types of all five.
WebTypeOK == AccountsTypeOK /\ ProfilesTypeOK /\ TargetPageTypeOK /\ CardsTypeOK /\ CardActionsTypeOK

\* Requests and writers have the same names: the parts never meet.
MCSymmetry == Permutations(Requests) \cup Permutations(Telegrams) \cup Permutations(Names \ Selves)
=============================================================================
