----------------------------- MODULE MCMaterial -----------------------------
EXTENDS Sources, Digests, Radar, Spending, Reports, MCSites

VARIABLE part   \* the six share no variable: a behaviour is about one of them

MCRank == [e \in Market |-> 0]
MCLanguage == [e \in Changes |-> "en"]
MCKindIn == [e \in News |-> IF e = CHOOSE f \in News : TRUE THEN "other" ELSE "price"]
MCAbout == [e \in News |-> CHOOSE t \in Watched : TRUE]
MCPriority == [e \in Changes |-> IF e = CHOOSE f \in Changes : TRUE THEN 0 ELSE 1]

\* One source at a time, as no poll touches another's rows: the other is removed.
MCSources ==
    /\ SourcesNext
    /\ \A s \in Pages : removed[s] /\ poll[s].op = "none" => page' = page
    /\ \A s \in Boards : removed[s] /\ poll[s].op = "none" => board' = board

\* Drafters side by side, or presses.
MCRadar == RadarNext /\ (crowded' => \A h \in Presses : press'[h].op = "idle")

\* One answer at most is lost.
MCSpending == SpendingNext /\ unrecorded' <= 1

\* Targets are paused, deleted and reacted to when a report is due.
MCReports ==
    /\ ReportsNext
    /\ <<resting, deleted, reacted>>' # <<resting, deleted, reacted>> => asked # {} \/ draft.month # never

MCInit ==
    /\ part \in {"sources", "digests", "radar", "spending", "reports", "site"}
    /\ DigestsInit /\ RadarInit /\ SpendingInit /\ ReportsInit /\ DiscoveryInit
    /\ part # "site" => subject = CHOOSE s \in [input : Inputs, language : {"en", "ru"}] : TRUE
    /\ page = [s \in Pages |-> CHOOSE t \in Texts : TRUE]
    /\ board \in [Boards -> {{}, {CHOOSE j \in Postings : TRUE}}]
    /\ status = [s \in AllSources |-> "active"] /\ failures = [s \in AllSources |-> 0]
    /\ versions = [s \in Pages |-> [t \in Texts |-> 0]] /\ lastJobs = [s \in Boards |-> {}]
    /\ items = {} /\ told = [s \in Pages |-> {}]
    /\ poll = [s \in AllSources |-> NoPoll] /\ moment = 0
    /\ \E s \in AllSources : removed = [x \in AllSources |-> x # s]
    /\ part # "sources" => removed = [x \in AllSources |-> x \in Boards] /\ board = [s \in Boards |-> {}]

MCNext ==
    /\ part' = part
    /\ \/ part = "sources" /\ MCSources /\ UNCHANGED <<digestsVars, radarVars, spendingVars, reportsVars, discoveryVars>>
       \/ part = "digests" /\ ~overlapped /\ DigestsNext
             /\ UNCHANGED <<sourcesVars, radarVars, spendingVars, reportsVars, discoveryVars>>
       \/ part = "radar" /\ MCRadar /\ UNCHANGED <<sourcesVars, digestsVars, spendingVars, reportsVars, discoveryVars>>
       \/ part = "spending" /\ MCSpending /\ UNCHANGED <<sourcesVars, digestsVars, radarVars, reportsVars, discoveryVars>>
       \/ part = "reports" /\ MCReports /\ UNCHANGED <<sourcesVars, digestsVars, radarVars, spendingVars, discoveryVars>>
       \/ part = "site" /\ DiscoveryNext
             /\ UNCHANGED <<sourcesVars, digestsVars, radarVars, spendingVars, reportsVars>>

MCSpec == MCInit /\ [][MCNext]_<<part, sourcesVars, digestsVars, radarVars, spendingVars, reportsVars, discoveryVars>>

\* The types of all six.
MaterialTypeOK ==
    /\ SourcesTypeOK /\ DigestsTypeOK /\ RadarTypeOK /\ SpendingTypeOK /\ ReportsTypeOK
    /\ DiscoveryTypeOK

\* Presses and callers have the same names: the parts never meet.
MCSymmetry == Permutations(Drafters) \cup Permutations(Presses)
=============================================================================
