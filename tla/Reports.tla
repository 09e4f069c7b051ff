------------------------------ MODULE Reports ------------------------------
(***************************************************************************)
(* The monthly report of a profile (packages/digest/src/monthly.ts): which *)
(* events, prices and silences of its targets it tells, read from the      *)
(* tables part by part, and the jobs that make it and pass it on           *)
(* (apps/worker/src/jobs/digests.ts).                                      *)
(*                                                                         *)
(* Parts of a report cut the same events in different ways: the lines of   *)
(* the targets by when an event was written, and only with facts; the      *)
(* table of prices, and the silences, by when it happened.  And they are   *)
(* read one after another.                                                 *)
(***************************************************************************)
EXTENDS Integers, FiniteSets

CONSTANTS
    News,           \* events the profile's targets may come to have
    KindIn,         \* the kind of each: "price", "plan" or another
    About,          \* the target of each, or "none"
    Watched,        \* the profile's targets
    DaysInMonth,    \* days of a month
    SilenceDays,    \* DRIFT_SILENCE_DAYS
    MaxTopEvents,   \* MAX_TOP_EVENTS
    MaxLag,         \* bound on the days between an event and its row
    LastDay         \* bound on days

ASSUME ReportsAssumption ==
    /\ DaysInMonth \in Nat \ {0} /\ SilenceDays \in Nat /\ MaxTopEvents \in Nat
    /\ MaxLag \in Nat /\ LastDay \in Nat /\ About \in [News -> Watched \cup {"none"}]

MonthsBegun == 0 .. LastDay \div DaysInMonth

VARIABLES
    day,
    written,        \* events: the day of their row, or never ...
    happened,       \* ... the day they are dated ...
    factual,        \* ... and those with facts
    resting,        \* targets paused
    deleted,        \* targets deleted
    reacted,        \* the day of the reader's last reaction to a target, or never
    asked,          \* months whose report is queued to be made
    draft,          \* what the job at work has read so far, or none
    report          \* the reports made

reportsVars == <<day, written, happened, factual, resting, deleted, reacted, asked, draft, report>>

never == -1
NoDraft == [month |-> never, events |-> {}, unfit |-> {}]
NoReport == [made |-> FALSE, top |-> {}, lines |-> [t \in {} |-> {}], prices |-> {}, silent |-> {},
             unfit |-> {}]

FirstDay(m) == m * DaysInMonth
InMonth(m, d) == FirstDay(m) <= d /\ d < FirstDay(m + 1)
Present == {e \in News : written[e] # never}
Alive == Watched \ deleted

ReportsInit ==
    /\ day = 0 /\ written = [e \in News |-> never] /\ happened = [e \in News |-> never]
    /\ factual = {} /\ resting = {} /\ deleted = {} /\ reacted = [t \in Watched |-> never]
    /\ asked = {} /\ draft = NoDraft /\ report = [m \in MonthsBegun |-> NoReport]

-----------------------------------------------------------------------------
(* The tables *)

tables == <<written, happened, factual, resting, deleted, reacted>>
jobs == <<asked, draft, report>>

WriteNews(e) ==
    /\ written[e] = never
    /\ \E lag \in 0 .. MaxLag :
           /\ lag <= day
           /\ written' = [written EXCEPT ![e] = day] /\ happened' = [happened EXCEPT ![e] = day - lag]
    /\ UNCHANGED <<day, factual, resting, deleted, reacted, jobs>>

WriteFacts(e) ==
    /\ e \in Present \ factual /\ factual' = factual \cup {e}
    /\ UNCHANGED <<day, written, happened, resting, deleted, reacted, jobs>>

\* By the daily job, which pauses what a plan does not cover; nothing resumes a target.
RestTarget(t) ==
    /\ t \in Alive \ resting /\ resting' = resting \cup {t}
    /\ UNCHANGED <<day, written, happened, factual, deleted, reacted, jobs>>

DeleteTarget(t) ==
    /\ t \in Alive /\ deleted' = deleted \cup {t}
    /\ UNCHANGED <<day, written, happened, factual, resting, reacted, jobs>>

\* Any action on a card of the target's events; "not following" pauses it too.
React(e) ==
    /\ e \in factual /\ About[e] # "none" /\ reacted' = [reacted EXCEPT ![About[e]] = day]
    /\ resting' \in {resting, resting \cup {About[e]}}
    /\ UNCHANGED <<day, written, happened, factual, deleted, jobs>>

-----------------------------------------------------------------------------
(* What a report says *)

\* loadMonthlyEvents: by the day of the row, with facts; an event of no target
\* is of none that rests.
MonthlyEvents(m) == {e \in factual : InMonth(m, written[e]) /\ About[e] \notin resting}

\* What an event counts for, without the bonus for its target's other events.
KindPriority(e) == CASE KindIn[e] = "price" -> 100 [] KindIn[e] = "plan" -> 90 [] OTHER -> 5

Cluster(E, e) == Cardinality({f \in E : About[f] = About[e]})

Score(E, e) == KindPriority(e) + (IF Cluster(E, e) < 4 THEN 5 * Cluster(E, e) ELSE 20)

\* Equal scores stay in the order of their dates.
Ahead(E, e, f) ==
    \/ Score(E, e) > Score(E, f)
    \/ Score(E, e) = Score(E, f) /\ happened[e] > happened[f]

selectTopEvents(E) ==
    {T \in SUBSET E : /\ Cardinality(T) = (IF Cardinality(E) < MaxTopEvents THEN Cardinality(E) ELSE MaxTopEvents)
                      /\ \A e \in T, f \in E \ T : ~Ahead(E, f, e)}

\* The line of a target counts its events; without any it says "quiet".
buildTargetSummaries(E) ==
    [t \in Alive \ resting |-> {e \in E : About[e] = t}]

\* fetchPricePlanEvents: by the day they happened, with or without facts.
PriceEvents(m) ==
    {e \in Present : InMonth(m, happened[e]) /\ KindIn[e] \in {"price", "plan"} /\ About[e] \in Alive}

\* buildPriceChanges: in each group every event but the first becomes a row, and
\* the first one if it is alone.
Group(E, e) == {f \in E : About[f] = About[e] /\ KindIn[f] = KindIn[e]}

PriceTables(m) ==
    {T \in SUBSET PriceEvents(m) : \A e \in PriceEvents(m) :
        LET G == Group(PriceEvents(m), e)
        IN  IF Cardinality(G) = 1 THEN e \in T
            ELSE \E first \in G : T \cap G = G \ {first} /\ \A f \in G : happened[first] <= happened[f]}

\* Mutant: only what the reader did counts as activity.
ReactedLast(t) == reacted[t]

\* findDriftedTargets: the last thing that happened to a target, or that the
\* reader did about it ...
LastActivity(t) ==
    LET days == {happened[e] : e \in {f \in Present : About[f] = t}} \cup {reacted[t]}
    IN  CHOOSE d \in days : \A o \in days : o <= d

\* ... lies so many days before the month; or there is none.
DriftedTargets(m) ==
    {t \in Alive : LastActivity(t) = never \/ LastActivity(t) < FirstDay(m) - SilenceDays}

-----------------------------------------------------------------------------
(* The jobs *)

\* On the first of a month the last one's report is asked for, under a plan of
\* more than three targets.
NextDay ==
    /\ day < LastDay /\ day' = day + 1
    /\ asked' \in IF day' % DaysInMonth = 0 THEN {asked, asked \cup {day' \div DaysInMonth - 1}} ELSE {asked}
    /\ UNCHANGED <<tables, draft, report>>

\* buildMonthlyReport reads part by part, in no transaction: the events first ...
ReadEvents(m) ==
    /\ m \in asked /\ draft.month = never
    /\ asked' = asked \ {m}
    /\ draft' = [month |-> m, events |-> MonthlyEvents(m),
                 unfit |-> {e \in Present : e \notin factual \/ About[e] \in resting}]
    /\ UNCHANGED <<day, tables, report>>

\* ... and the targets, prices and silences after it.  The card of the report
\* hangs on its first event: with none, the insert is refused, and the queue
\* asks no second time.
BuildReport ==
    LET m == draft.month
    IN  /\ m # never /\ draft' = NoDraft
        /\ IF draft.events = {} THEN UNCHANGED report
           ELSE \E top \in selectTopEvents(draft.events), prices \in PriceTables(m) :
                    report' = [report EXCEPT ![m] =
                        [made |-> TRUE, top |-> top, lines |-> buildTargetSummaries(draft.events),
                         prices |-> prices, silent |-> DriftedTargets(m), unfit |-> draft.unfit]]
        /\ UNCHANGED <<day, tables, asked>>

\* The job dies, or has no model to ask, and is not run again.
DropReport ==
    /\ draft.month # never /\ draft' = NoDraft
    /\ UNCHANGED <<day, tables, asked, report>>

ReportsNext ==
    \/ NextDay
    \/ \E e \in News : WriteNews(e) \/ WriteFacts(e) \/ React(e)
    \/ \E t \in Watched : RestTarget(t) \/ DeleteTarget(t)
    \/ \E m \in MonthsBegun : ReadEvents(m)
    \/ BuildReport \/ DropReport

ReportsSpec == ReportsInit /\ [][ReportsNext]_reportsVars

-----------------------------------------------------------------------------
(* Properties *)

ReportsTypeOK ==
    /\ day \in 0 .. LastDay /\ written \in [News -> -1 .. LastDay]
    /\ \A e \in News : happened[e] \in -1 .. written[e]
    /\ factual \subseteq Present /\ resting \subseteq Watched /\ deleted \subseteq Watched
    /\ reacted \in [Watched -> -1 .. LastDay]
    /\ asked \subseteq MonthsBegun /\ draft.month \in MonthsBegun \cup {never}
    /\ \A m \in MonthsBegun : report[m].made \in BOOLEAN

\* The parts of one report do not contradict one another, though they cut the
\* same events by different days (monthly.ts:270, :472, :840) and are read one
\* after another: a target called silent has in its line only events dated long
\* before the month; a target called quiet has a price in the table only if that
\* was recorded after the month, or had no facts, or the target rested, when the
\* events were read; and what is on top is in a line, if its target still has
\* one.
OneStory ==
    \A m \in MonthsBegun : LET r == report[m] IN
        /\ \A t \in r.silent \cap DOMAIN r.lines : \A e \in r.lines[t] :
               happened[e] < FirstDay(m) - SilenceDays
        /\ \A e \in r.prices : About[e] \in DOMAIN r.lines /\ r.lines[About[e]] = {} =>
               written[e] >= FirstDay(m + 1) \/ e \in r.unfit
        /\ \A e \in r.top : About[e] \in DOMAIN r.lines => e \in r.lines[About[e]]

=============================================================================
