----------------------------- MODULE TargetPage -----------------------------
(***************************************************************************)
(* The history of one target as its reader sees it: the timeline of events *)
(* and decisions, asked for a page at a time and by kind                   *)
(* (apps/web/src/components/targets/target-page.tsx), answered from the    *)
(* tables (packages/domain/src/targets/history.ts) while they grow.        *)
(*                                                                         *)
(* Several requests may be on their way at once, and their answers come in *)
(* any order, or not at all.                                               *)
(***************************************************************************)
EXTENDS Integers, Sequences, FiniteSets, SequencesExt

CONSTANTS
    Entries,        \* events and decisions of the target
    KindOf,         \* the kind of each event, or "decision"
    PageSize,       \* PAGE_SIZE
    Horizon,        \* historyDays of the plan, in moments
    MaxDelay,       \* bound on how long after it happened an event is written
    MaxMoment,      \* bound on time
    MaxFlights      \* bound on requests under way

ASSUME TargetPageAssumption ==
    /\ PageSize \in Nat \ {0} /\ Horizon \in Nat /\ MaxDelay \in Nat
    /\ MaxMoment \in Nat /\ MaxFlights \in Nat \ {0} /\ IsFiniteSet(Entries)

Happenings == {e \in Entries : KindOf[e] # "decision"}
Offered == {KindOf[e] : e \in Happenings} \cup {"all"}
never == -1

VARIABLES
    clock,          \* the time
    at,             \* occurred_at of an event, created_at of a decision, or never
    list,           \* what is shown: the entries, whether there are more, and (history)
                    \* the kind they were asked for and what was written by then
    filterKind,     \* the kind the reader has chosen
    isLoadingMore,
    flights,        \* the requests under way, in the order they were sent
    astray          \* history: an answer came late, was lost, or was added to a list
                    \* it does not continue, since the list was last answered whole

targetPageVars == <<clock, at, list, filterKind, isLoadingMore, flights, astray>>

NoList == [shown |-> <<>>, hasMore |-> FALSE, kind |-> "all", known |-> {}, loaded |-> FALSE]
NoAnswer == [entries |-> <<>>, hasMore |-> FALSE, known |-> {}, ready |-> FALSE]

Written == {e \in Entries : at[e] # never}
Shown == ToSet(list.shown)

\* A request: the kind and the cursor in its query.  History: it is late once a
\* later one has been received or, for a further page, the list it continues
\* has been replaced.
Ask(kind, cursor) == [kind |-> kind, cursor |-> cursor, answer |-> NoAnswer, late |-> FALSE]

TargetPageInit ==
    /\ clock = 0 /\ at = [e \in Entries |-> never]
    /\ list = NoList /\ filterKind = "all" /\ isLoadingMore = FALSE /\ astray = FALSE
    /\ flights = <<Ask("all", never)>>

-----------------------------------------------------------------------------
(* The tables *)

Pass ==
    /\ clock < MaxMoment /\ clock' = clock + 1
    /\ UNCHANGED <<at, list, filterKind, isLoadingMore, flights, astray>>

\* An event is dated when it happened, a decision when it is written.
WriteEntry(e) ==
    /\ at[e] = never
    /\ \E delay \in 0 .. (IF e \in Happenings THEN MaxDelay ELSE 0) :
           delay <= clock /\ at' = [at EXCEPT ![e] = clock - delay]
    /\ UNCHANGED <<clock, list, filterKind, isLoadingMore, flights, astray>>

\* What a request asks for: a kind leaves decisions in.
Asked(kind) == {e \in Written : /\ kind = "all" \/ KindOf[e] \in {kind, "decision"}
                                /\ at[e] >= clock - Horizon}

\* Newest first; the database orders what is of one moment as it likes.
NewestFirst(S) == {s \in SetToSeqs(S) : \A i, j \in DOMAIN s : i < j => at[s[i]] >= at[s[j]]}

\* Mutant: a page is all that is read.
PageOnly == PageSize

\* One row more than a page is read of either table, to know whether there are more.
RowsRead == PageSize + 1

Newest(T) ==
    {R \in SUBSET T : /\ Cardinality(R) = (IF Cardinality(T) < RowsRead THEN Cardinality(T) ELSE RowsRead)
                      /\ \A e \in R, f \in T \ R : at[e] >= at[f]}

\* The rows of both are put together and cut to a page.
fetchTargetTimeline(i) ==
    LET r == flights[i]
        S == {e \in Asked(r.kind) : r.cursor # never => at[e] < r.cursor}
    IN  /\ ~r.answer.ready
        /\ \E events \in Newest(S \cap Happenings), decisions \in Newest(S \ Happenings) :
               \E s \in NewestFirst(events \cup decisions) :
                   flights' = [flights EXCEPT ![i].answer =
                       [entries |-> SubSeq(s, 1, IF Len(s) > PageSize THEN PageSize ELSE Len(s)),
                        hasMore |-> Len(s) > PageSize, ready |-> TRUE,
                        known |-> IF r.cursor = never THEN Written ELSE {}]]
        /\ UNCHANGED <<clock, at, list, filterKind, isLoadingMore, astray>>

-----------------------------------------------------------------------------
(* The page *)

\* The requests left when one has come back.
Without(i) ==
    RemoveAt([j \in DOMAIN flights |->
                 [flights[j] EXCEPT !.late = @ \/ j < i
                     \/ (flights[i].cursor = never /\ flights[j].cursor # never)]], i)

\* The answer to a first page replaces the list ...
ReceiveFirst(i) ==
    LET r == flights[i]
    IN  /\ r.answer.ready /\ r.cursor = never
        /\ list' = [shown |-> r.answer.entries, hasMore |-> r.answer.hasMore, kind |-> r.kind,
                    known |-> r.answer.known, loaded |-> TRUE]
        /\ astray' = r.late
        /\ flights' = Without(i)
        /\ UNCHANGED <<clock, at, filterKind, isLoadingMore>>

\* ... and that to a further page is added to whatever list is there.
ReceiveMore(i) ==
    LET r == flights[i]
    IN  /\ r.answer.ready /\ r.cursor # never
        /\ list' = [list EXCEPT !.shown = @ \o r.answer.entries, !.hasMore = r.answer.hasMore]
        /\ isLoadingMore' = FALSE
        /\ astray' = (astray \/ r.late \/ r.kind # list.kind)
        /\ flights' = Without(i)
        /\ UNCHANGED <<clock, at, filterKind>>

\* With a list on the page the error is shown nowhere.
Fail(i) ==
    /\ isLoadingMore' = (isLoadingMore /\ flights[i].cursor = never)
    /\ astray' = (astray \/ flights[i].cursor = never)
    /\ flights' = Without(i)
    /\ UNCHANGED <<clock, at, list, filterKind>>

handleLoadMore ==
    /\ list.hasMore /\ ~isLoadingMore /\ list.shown # <<>> /\ Len(flights) < MaxFlights
    /\ isLoadingMore' = TRUE
    /\ flights' = Append(flights, Ask(filterKind, at[Last(list.shown)]))
    /\ UNCHANGED <<clock, at, list, filterKind, astray>>

\* Mutant: the list is asked for before the choice is known, and not again.
AskedBefore(kind) == <<Ask(filterKind, never)>>

\* The handler asks for the kind chosen until now, and the effect that follows
\* the choice for the new one.
AskedFor(kind) == <<Ask(filterKind, never), Ask(kind, never)>>

\* The choice is offered beside a list with entries only.
handleFilterChange(kind) ==
    /\ list.shown # <<>> /\ kind # filterKind /\ Len(flights) + 2 <= MaxFlights
    /\ filterKind' = kind
    /\ flights' = flights \o AskedFor(kind)
    /\ UNCHANGED <<clock, at, list, isLoadingMore, astray>>

Flight(i) == fetchTargetTimeline(i) \/ ReceiveFirst(i) \/ ReceiveMore(i) \/ Fail(i)

TargetPageNext ==
    \/ Pass \/ \E e \in Entries : WriteEntry(e)
    \/ \E i \in DOMAIN flights : Flight(i)
    \/ handleLoadMore
    \/ \E kind \in Offered : handleFilterChange(kind)

TargetPageSpec == TargetPageInit /\ [][TargetPageNext]_targetPageVars

-----------------------------------------------------------------------------
(* Properties *)

TargetPageTypeOK ==
    /\ clock \in 0 .. MaxMoment /\ at \in [Entries -> -1 .. MaxMoment]
    /\ Shown \subseteq Written /\ list.known \subseteq Written
    /\ list.hasMore \in BOOLEAN /\ list.loaded \in BOOLEAN /\ list.kind \in Offered
    /\ filterKind \in Offered /\ isLoadingMore \in BOOLEAN /\ astray \in BOOLEAN
    /\ Len(flights) <= MaxFlights
    /\ Cardinality({i \in DOMAIN flights : flights[i].cursor # never}) = (IF isLoadingMore THEN 1 ELSE 0)

\* A reader who goes on to further pages passes over nothing: every entry that
\* was written when the list was first read, still within the plan's history
\* and not beyond the end of the list, is in it, and no entry is in it twice;
\* only entries of the same moment as a shown one may be missing, as the cursor
\* is a moment (history.ts:177), and only if no answer went astray, as
\* target-page.tsx:94 adds a further page to whatever list is there.
NothingSkipped ==
    ~astray /\ list.loaded =>
        /\ \A i, j \in DOMAIN list.shown : list.shown[i] = list.shown[j] => i = j
        /\ \A e \in list.known :
               /\ list.kind = "all" \/ KindOf[e] \in {list.kind, "decision"}
               /\ at[e] >= clock - Horizon
               /\ list.hasMore => at[e] > at[Last(list.shown)]
               => \E s \in Shown : at[s] = at[e] /\ (s = e \/ e \notin Shown)

\* Once every answer is there, the list shows the kind that is chosen, though a
\* choice sends a request for the kind before it too (target-page.tsx:136-138):
\* that one was sent first, and only an answer that is late, or lost, can leave
\* the list with the kind the reader has left.
ShownAsFiltered ==
    flights = <<>> /\ ~astray =>
        \A e \in Shown : filterKind = "all" \/ KindOf[e] \in {filterKind, "decision"}

=============================================================================
