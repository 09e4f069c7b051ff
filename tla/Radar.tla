------------------------------- MODULE Radar -------------------------------
(***************************************************************************)
(* The public radar: post drafts made of freshly extracted events, the     *)
(* owner's buttons under them, and the Monday round-up                     *)
(* (packages/domain/src/public-radar/posts.ts, delivery's radar-telegram,  *)
(* apps/worker/src/jobs/radar.ts).                                         *)
(*                                                                         *)
(* One extraction per radar profile may be drafting at a time, and presses *)
(* of the owner are handled side by side.  Any of them may die between two *)
(* writes; nobody runs it again.                                           *)
(***************************************************************************)
EXTENDS Integers, FiniteSets

CONSTANTS
    Changes,            \* radar events of a kind that makes a post
    Language, Priority, \* of each
    Drafters, Presses,  \* extractions and button presses at work
    DailyDraftLimit, WeekLength,
    MaxRadarDay         \* bound on days

RadarDays == 1 .. MaxRadarDay

ASSUME RadarAssumption ==
    /\ Priority \in [Changes -> Nat] /\ Changes \subseteq DOMAIN Language
    /\ DailyDraftLimit \in Nat \ {0} /\ WeekLength \in Nat \ {0} /\ MaxRadarDay \in Nat \ {0}

VARIABLES
    today,
    post,        \* radar_posts.status, none before there is a row
    madeOn,      \* radar_posts.created_at
    drafter,     \* draftRadarEvents at work
    inChat,      \* events whose draft the owner has, with its buttons
    roundUps,    \* days whose round-up draft the owner has
    press,       \* handleRadarButton at work
    channel,     \* how often each event was posted to the channel
    extracted,   \* history: events handed to a drafter
    draftsOn,    \* history: rows made as drafts, by language and day
    crowded      \* history: two drafters were at work at once

radarVars == <<today, post, madeOn, drafter, inChat, roundUps, press, channel, extracted, draftsOn, crowded>>

NoDrafter == [day |-> 0, todo |-> {}, free |-> FALSE, event |-> {}, made |-> {}]
NoPress == [op |-> "idle", todo |-> {}, mine |-> {}]

RadarTypeOK ==
    /\ today \in RadarDays
    /\ post \in [Changes -> {"none", "drafted", "queued", "published", "skipped"}]
    /\ madeOn \in [Changes -> 0 .. MaxRadarDay]
    /\ drafter \in [Drafters -> [day: 0 .. MaxRadarDay, todo: SUBSET Changes, free: BOOLEAN,
                                 event: SUBSET Changes, made: SUBSET Changes]]
    /\ inChat \subseteq Changes /\ roundUps \subseteq RadarDays
    /\ press \in [Presses -> [op: {"idle", "decide", "send"}, todo: SUBSET Changes, mine: SUBSET Changes]]
    /\ channel \in [Changes -> Nat] /\ extracted \subseteq Changes
    /\ draftsOn \subseteq Changes \X RadarDays /\ crowded \in BOOLEAN
    /\ \A e \in Changes : (post[e] = "none") = (madeOn[e] = 0)

RadarInit ==
    /\ today = 1
    /\ post = [e \in Changes |-> "none"] /\ madeOn = [e \in Changes |-> 0]
    /\ drafter = [d \in Drafters |-> NoDrafter]
    /\ inChat = {} /\ roundUps = {} /\ press = [h \in Presses |-> NoPress]
    /\ channel = [e \in Changes |-> 0]
    /\ extracted = {} /\ draftsOn = {} /\ crowded = FALSE

NextRadarDay ==
    /\ today < MaxRadarDay /\ today' = today + 1
    /\ UNCHANGED <<post, madeOn, drafter, inChat, roundUps, press, channel, extracted, draftsOn, crowded>>

-----------------------------------------------------------------------------
(* Drafting *)

Drafting == {d \in Drafters : drafter[d].day # 0}

\* An extraction has written these events up, each with a verified quote.
draftRadarEvents(d, events) ==
    /\ drafter[d].day = 0 /\ events # {} /\ events \cap extracted = {}
    /\ drafter' = [drafter EXCEPT ![d] = [NoDrafter EXCEPT !.day = today, !.todo = events]]
    /\ extracted' = extracted \cup events
    /\ crowded' = (crowded \/ Drafting # {})
    /\ UNCHANGED <<today, post, madeOn, inChat, roundUps, press, channel, draftsOn>>

\* A draft counts against its day whatever was decided about it.
Counted == {"drafted", "published", "skipped"}

\* Prices and plans first.
Foremost(d, e) == e \in drafter[d].todo /\ \A f \in drafter[d].todo : Priority[e] <= Priority[f]

CountToday(d) ==
    /\ drafter[d].event = {}
    /\ \E e \in Changes :
           LET rows == {f \in Changes : Language[f] = Language[e] /\ post[f] \in Counted
                                            /\ madeOn[f] >= drafter[d].day}
           IN  /\ Foremost(d, e)
               /\ drafter' = [drafter EXCEPT ![d].event = {e}, ![d].todo = @ \ {e},
                                             ![d].free = Cardinality(rows) < DailyDraftLimit]
    /\ UNCHANGED <<today, post, madeOn, inChat, roundUps, press, channel, extracted, draftsOn, crowded>>

\* The row is dated with the beginning of the extraction.
InsertPost(d, e) ==
    /\ e \in drafter[d].event
    /\ post' = [post EXCEPT ![e] = IF drafter[d].free THEN "drafted" ELSE "queued"]
    /\ madeOn' = [madeOn EXCEPT ![e] = drafter[d].day]
    /\ draftsOn' = IF drafter[d].free THEN draftsOn \cup {<<e, drafter[d].day>>} ELSE draftsOn
    /\ drafter' = [drafter EXCEPT ![d].event = {}, ![d].made = IF drafter[d].free THEN @ \cup {e} ELSE @]
    /\ UNCHANGED <<today, inChat, roundUps, press, channel, extracted, crowded>>

\* After the last row; a draft Telegram refuses is not sent again.
sendRadarDraft(d, sent) ==
    /\ drafter[d].day # 0 /\ drafter[d].todo = {} /\ drafter[d].event = {}
    /\ sent \subseteq drafter[d].made
    /\ inChat' = inChat \cup sent
    /\ drafter' = [drafter EXCEPT ![d] = NoDrafter]
    /\ UNCHANGED <<today, post, madeOn, roundUps, press, channel, extracted, draftsOn, crowded>>

DrafterDies(d) ==
    /\ drafter[d].day # 0 /\ drafter' = [drafter EXCEPT ![d] = NoDrafter]
    /\ UNCHANGED <<today, post, madeOn, inChat, roundUps, press, channel, extracted, draftsOn, crowded>>

-----------------------------------------------------------------------------
(* The owner's buttons *)

listQueuedRadarPosts(from, to) ==
    {e \in Changes : post[e] = "queued" /\ from <= madeOn[e] /\ madeOn[e] <= to}

\* On the week's day, unless nothing waits or the job is lost.
sendWeeklyRadarDraft ==
    /\ today % WeekLength = 0 /\ listQueuedRadarPosts(today - WeekLength, today) # {}
    /\ roundUps' = roundUps \cup {today}
    /\ UNCHANGED <<today, post, madeOn, drafter, inChat, press, channel, extracted, draftsOn, crowded>>

\* "Publish" under a draft, or under a round-up, which looks a day further back
\* than the draft did and up to the end of its day.
PressPublish(h, todo) ==
    /\ press[h].op = "idle"
    /\ press' = [press EXCEPT ![h] = [NoPress EXCEPT !.op = "decide", !.todo = todo]]
    /\ UNCHANGED <<today, post, madeOn, drafter, inChat, roundUps, channel, extracted, draftsOn, crowded>>

\* Mutant: whatever was decided before.
AnyTime(e) == post[e] # "none"

\* decideRadarPost updates a row that is still drafted or queued.
StillOpen(e) == post[e] \in {"drafted", "queued"}

\* Decided before it is sent, and sent if this press decided it.
decideRadarPost(h, e) ==
    /\ press[h].op = "decide" /\ e \in press[h].todo
    /\ post' = IF StillOpen(e) THEN [post EXCEPT ![e] = "published"] ELSE post
    /\ press' = [press EXCEPT ![h].todo = @ \ {e}, ![h].mine = IF StillOpen(e) THEN @ \cup {e} ELSE @]
    /\ UNCHANGED <<today, madeOn, drafter, inChat, roundUps, channel, extracted, draftsOn, crowded>>

Send(h) ==
    /\ press[h].op = "decide" /\ press[h].todo = {}
    /\ channel' = [e \in Changes |-> IF e \in press[h].mine THEN channel[e] + 1 ELSE channel[e]]
    /\ press' = [press EXCEPT ![h] = NoPress]
    /\ UNCHANGED <<today, post, madeOn, drafter, inChat, roundUps, extracted, draftsOn, crowded>>

\* The process dies, or the channel refuses: what was decided is not posted.
PressDies(h) ==
    /\ press[h].op # "idle" /\ press' = [press EXCEPT ![h] = NoPress]
    /\ UNCHANGED <<today, post, madeOn, drafter, inChat, roundUps, channel, extracted, draftsOn, crowded>>

\* Mutant: a skipped draft loses its status.
SkipForgets(e) ==
    /\ e \in inChat /\ StillOpen(e)
    /\ post' = [post EXCEPT ![e] = "none"]
    /\ UNCHANGED <<today, madeOn, drafter, inChat, roundUps, press, channel, extracted, draftsOn, crowded>>

\* "Skip" answers the same whether it changed anything.
PressSkip(e) ==
    /\ e \in inChat /\ StillOpen(e)
    /\ post' = [post EXCEPT ![e] = "skipped"]
    /\ UNCHANGED <<today, madeOn, drafter, inChat, roundUps, press, channel, extracted, draftsOn, crowded>>

RadarNext ==
    \/ NextRadarDay \/ sendWeeklyRadarDraft
    \/ \E d \in Drafters :
           \/ \E set \in SUBSET Changes : draftRadarEvents(d, set) \/ sendRadarDraft(d, set)
           \/ CountToday(d) \/ DrafterDies(d)
           \/ \E e \in Changes : InsertPost(d, e)
    \/ \E h \in Presses :
           \/ \E e \in Changes : e \in inChat /\ PressPublish(h, {e})
           \/ \E day \in roundUps : PressPublish(h, listQueuedRadarPosts(day - WeekLength - 1, day))
           \/ \E e \in Changes : decideRadarPost(h, e)
           \/ Send(h) \/ PressDies(h)
    \/ \E e \in Changes : PressSkip(e)

RadarSpec == RadarInit /\ [][RadarNext]_radarVars

-----------------------------------------------------------------------------
(* Properties *)

\* An event reaches the channel once at most, and never after it was skipped,
\* whichever buttons are pressed side by side, under its draft and under
\* overlapping round-ups (radar-telegram.ts:142).
PostedOnce ==
    \A e \in Changes : channel[e] <= 1 /\ (channel[e] = 1 => post[e] = "published")

\* Drafters that take turns make no more drafts of a day and language than the
\* limit, though what was drafted is decided meanwhile (posts.ts:5).
DailyLimit ==
    ~crowded => \A day \in RadarDays, e \in Changes :
        Cardinality({x \in draftsOn : x[2] = day /\ Language[x[1]] = Language[e]}) <= DailyDraftLimit

=============================================================================
