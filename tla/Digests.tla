------------------------------ MODULE Digests ------------------------------
(***************************************************************************)
(* Building digests: the window a regular digest covers, the events it     *)
(* takes and the cards it keeps of them (packages/digest/src/build.ts,     *)
(* cards.ts, schedule.ts).  The digest an urgent event gets of its own is  *)
(* in module Pipeline: it is no regular digest and moves no window.        *)
(*                                                                         *)
(* One profile and one channel.  A regular digest is built by the job the  *)
(* hourly tick queues, and by the first run of the profile; either may die *)
(* and the job is then run again.  Events come from the cascade (module    *)
(* Pipeline), here two moments each: created, and written up.  The monthly *)
(* report (monthly.ts) is kept as a digest of its month.                   *)
(***************************************************************************)
EXTENDS Integers, FiniteSets, FiniteSetsExt

CONSTANTS
    Own,             \* events of watched targets
    Market,          \* events of the market and its rules
    Rank,            \* importance of a market event's kind, 0 first
    HourLength,      \* moments in an hour
    MonthLength,     \* moments in a month
    FirstRunSpan,    \* FIRST_RUN_DAYS
    MaxWindow,       \* MAX_WINDOW_DAYS and FIRST_RUN_FALLBACK_DAYS
    MarketSectionLimit,
    Start,           \* the moment the profile is created: a build may be due at once
    MaxMoment        \* bound on time

AllEvents == Own \cup Market
Builders == {"job", "first"}
Time == 0 .. MaxMoment

ASSUME DigestsAssumption ==
    /\ Own \cap Market = {} /\ Rank \in [Market -> Nat]
    /\ HourLength \in Nat \ {0} /\ MonthLength \in Nat \ {0} /\ MarketSectionLimit \in Nat
    /\ FirstRunSpan \in Nat \ {0} /\ MaxWindow \in Nat /\ FirstRunSpan <= MaxWindow
    /\ Start \in Nat /\ MaxMoment \in Nat /\ MaxWindow <= Start /\ Start <= MaxMoment

VARIABLES
    now,
    created,     \* events.created_at, none for an event there is not yet
    facts,       \* events that have facts
    paused,      \* the watched target is paused
    digests,     \* regular digests: the window and the events on their cards
    reports,     \* monthly reports, which are digests of their month
    build,       \* what each builder is in the middle of
    overlapped,  \* history: two builds have run at once
    left         \* history: events of a built window not ready, or past the section limit

eventVars == <<created, facts, paused>>
digestsVars == <<now, eventVars, digests, reports, build, overlapped, left>>

none == -1
Idle == [op |-> "idle", start |-> 0, end |-> 0, isFirst |-> FALSE, shown |-> {}, left |-> {}]

DigestsTypeOK ==
    /\ now \in Time
    /\ created \in [AllEvents -> Time \cup {none}]
    /\ facts \subseteq AllEvents /\ paused \in BOOLEAN
    /\ digests \subseteq [start: Time, end: Time, shown: SUBSET AllEvents]
    /\ reports \subseteq [start: Time, end: Time]
    /\ build \in [Builders -> [op: {"idle", "load", "write"}, start: Time, end: Time,
                               isFirst: BOOLEAN, shown: SUBSET AllEvents, left: SUBSET AllEvents]]
    /\ overlapped \in BOOLEAN /\ left \subseteq AllEvents

DigestsInit ==
    /\ now = Start
    /\ created = [e \in AllEvents |-> none]
    /\ facts = {} /\ paused = FALSE
    /\ digests = {} /\ reports = {}
    /\ build = [b \in Builders |-> Idle]
    /\ overlapped = FALSE /\ left = {}

-----------------------------------------------------------------------------
(* Time, the cascade and the owner *)

Tick ==
    /\ now < MaxMoment /\ now' = now + 1
    /\ UNCHANGED <<eventVars, digests, reports, build, overlapped, left>>

CreateEvent(e) ==
    /\ created[e] = none /\ created' = [created EXCEPT ![e] = now]
    /\ UNCHANGED <<now, facts, paused, digests, reports, build, overlapped, left>>

WriteUpEvent(e) ==
    /\ created[e] # none /\ e \notin facts
    /\ facts' = facts \cup {e}
    /\ UNCHANGED <<now, created, paused, digests, reports, build, overlapped, left>>

PauseTarget ==
    /\ paused' = ~paused
    /\ UNCHANGED <<now, created, facts, digests, reports, build, overlapped, left>>

-----------------------------------------------------------------------------
(* A regular digest *)

later(x, y) == IF x >= y THEN x ELSE y

\* Whatever has a window that starts before it ends: monthly reports, too.
findPreviousRegularEnd ==
    IF digests \cup reports = {} THEN none ELSE Max({d.end : d \in digests \cup reports})

\* The top of the hour, of a moment.
windowEndFor(t) == t - (t % HourLength)

\* Mutant: the first window starts where no last one ended, too.
sinceLast(previousEnd, end) == [start |-> previousEnd, end |-> end]

\* Mutant: every window is as long as the first.
planOneSpan(previousEnd, end) ==
    [start |-> later(end - FirstRunSpan, end - MaxWindow), end |-> end]

\* From where the last one ended, or the span of the first run; never further
\* back than the longest window.
planWindow(previousEnd, end) ==
    [start |-> later(IF previousEnd # none THEN previousEnd ELSE end - FirstRunSpan, end - MaxWindow),
     end |-> end]

\* A regular digest of this hour is there: it is returned instead.
BuiltThisHour(previousEnd, t) == previousEnd # none /\ previousEnd >= windowEndFor(t)

BeginBuild(b) ==
    /\ build[b].op = "idle" /\ ~BuiltThisHour(findPreviousRegularEnd, now)
    /\ LET w == planWindow(findPreviousRegularEnd, now)
       IN  build' = [build EXCEPT ![b] = [Idle EXCEPT !.op = "load", !.start = w.start, !.end = w.end,
                                                      !.isFirst = findPreviousRegularEnd = none]]
    /\ overlapped' = (overlapped \/ \E c \in Builders \ {b} : build[c].op # "idle")
    /\ UNCHANGED <<now, eventVars, digests, reports, left>>

\* Mutant: the end of the window is in the window.
InClosed(e, start, end) == created[e] # none /\ start <= created[e] /\ created[e] <= end

In(e, start, end) == created[e] # none /\ start <= created[e] /\ created[e] < end

\* With facts, and not about a paused target.
Ready(e) == e \in facts /\ ~(e \in Own /\ paused)

loadEvents(start, end) == {e \in AllEvents : In(e, start, end) /\ Ready(e)}

\* marketCards: by kind, then by the moment it happened (any order, here), up to
\* the limit.
Before(e, f) == Rank[e] <= Rank[f]

MarketCards(events, shown) ==
    /\ shown \subseteq events
    /\ Cardinality(shown) = IF Cardinality(events) <= MarketSectionLimit
                            THEN Cardinality(events) ELSE MarketSectionLimit
    /\ \A e \in shown, f \in events \ shown : Before(e, f)

\* The first digest looks back further when its span is empty.  Events of own
\* targets all get a card, folded by target when there are many.
Load(b) ==
    /\ build[b].op = "load"
    /\ LET widen == build[b].isFirst /\ loadEvents(build[b].start, build[b].end) = {}
           start == IF widen THEN build[b].end - MaxWindow ELSE build[b].start
           events == loadEvents(start, build[b].end)
       IN  \E market \in SUBSET (events \cap Market) :
               /\ MarketCards(events \cap Market, market)
               /\ build' = [build EXCEPT ![b].op = "write", ![b].start = start,
                      ![b].shown = (events \cap Own) \cup market,
                      ![b].left = {e \in AllEvents : In(e, start, build[b].end)}
                                      \ ((events \cap Own) \cup market)]
    /\ UNCHANGED <<now, eventVars, digests, reports, overlapped, left>>

\* The row and its cards are one transaction; a digest of the same window is
\* not written again.
writeDigest(b) ==
    /\ build[b].op = "write"
    /\ digests' = IF \E d \in digests : d.start = build[b].start /\ d.end = build[b].end THEN digests
                  ELSE digests \cup {[start |-> build[b].start, end |-> build[b].end,
                                      shown |-> build[b].shown]}
    /\ left' = left \cup build[b].left
    /\ build' = [build EXCEPT ![b] = Idle]
    /\ UNCHANGED <<now, eventVars, reports, overlapped>>

BuildDies(b) ==
    /\ build[b].op # "idle" /\ build' = [build EXCEPT ![b] = Idle]
    /\ UNCHANGED <<now, eventVars, digests, reports, overlapped, left>>

\* The month before the one this hour is in, once that one has begun an hour ago.
lastMonth ==
    LET end == windowEndFor(now) - (windowEndFor(now) % MonthLength)
    IN  [start |-> end - MonthLength, end |-> end]

\* Built once for a month.  The card of the row names an event of the month that
\* has facts, so without one there is no row.
persistMonthlyReport ==
    /\ lastMonth.start >= 0 /\ lastMonth.end < windowEndFor(now) /\ lastMonth \notin reports
    /\ loadEvents(lastMonth.start, lastMonth.end) # {}
    /\ reports' = reports \cup {lastMonth}
    /\ UNCHANGED <<now, eventVars, digests, build, overlapped, left>>

DigestsNext ==
    \/ Tick \/ PauseTarget \/ persistMonthlyReport
    \/ \E e \in AllEvents : CreateEvent(e) \/ WriteUpEvent(e)
    \/ \E b \in Builders : BeginBuild(b) \/ Load(b) \/ writeDigest(b) \/ BuildDies(b)

DigestsSpec == DigestsInit /\ [][DigestsNext]_digestsVars

-----------------------------------------------------------------------------
(* Properties *)

\* One regular digest in an hour, however often the build is run: the header of
\* build.ts and the comment of windowEndFor promise it of every build (build.ts:8).
OnePerHour ==
    \A c, d \in digests : windowEndFor(c.end) = windowEndFor(d.end) => c = d

\* Builds that do not overlap keep that promise, retries and first run included.
OnePerHourAlone == ~overlapped => OnePerHour

\* No event is on the cards of two regular digests, unless builds overlapped
\* (build.ts:204).
ShownOnce ==
    ~overlapped => \A c, d \in digests : c # d => c.shown \cap d.shown = {}

\* An event recorded since the first window opened, and before the last closed,
\* is on a card, or it was not ready or past the limit of the market section
\* when its window was built, or no digest was built for longer than the longest
\* window, or the report of its month was made before its digest.  Again no
\* builds overlap (build.ts:100).
NoneForgotten ==
    ~overlapped => \A e \in AllEvents \ left :
        (\E c, d \in digests : created[e] >= c.start /\ created[e] < d.end /\ created[e] # none)
            => \/ \E d \in digests : e \in d.shown
               \/ \E d \in digests : d.end - d.start = MaxWindow /\ created[e] < d.start
               \/ \E r \in reports : created[e] < r.end

\* "The end of the last regular digest": a window that is neither the first nor
\* the longest starts where another regular digest ended (build.ts:543).
StartsAtLastRegularEnd ==
    ~overlapped => \A d \in digests :
        \/ \A c \in digests : d.end <= c.end
        \/ d.end - d.start = MaxWindow
        \/ \E c \in digests : c.end = d.start

=============================================================================
