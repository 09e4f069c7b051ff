--------------------------- MODULE MaterialProofs ---------------------------
(***************************************************************************)
(* What TLAPS proves of the parts that work on the material gathered.      *)
(* Radar, for any events, languages, drafters, presses and limits: an      *)
(* event is posted once, and drafters that take turns keep the limit of a  *)
(* day.  Reports, for any members, languages and months: the parts of a    *)
(* monthly report tell one story.  Spending, for any callers, prices and   *)
(* caps: the cap is passed by no more than the calls under way, and every  *)
(* unit paid is in a row, in a failed write, or in a caller's hand.        *)
(* Discovery, for any web, answers, outages and workers: what is proposed  *)
(* is what the model named, in its order, and verified just when it        *)
(* answered.                                                               *)
(***************************************************************************)
EXTENDS Radar, Reports, Spending, Discovery, WellFoundedInduction, FiniteSetTheorems, TLAPS

-----------------------------------------------------------------------------
(* The inductive invariant *)

Pending(d) == drafter[d].todo \cup drafter[d].event

\* An event is written up once, so it is in the hands of one drafter, and only
\* until it has a row.
InOneHand ==
    /\ \A e \in Changes : post[e] # "none" => e \in extracted
    /\ \A d \in Drafters : /\ Pending(d) \subseteq extracted
                           /\ drafter[d].todo \cap drafter[d].event = {}
                           /\ drafter[d].day = 0 => Pending(d) = {}
                           /\ drafter[d].day <= today
    /\ \A d \in Drafters : \A e \in Pending(d) :
           post[e] = "none" /\ \A c \in Drafters : e \in Pending(c) => c = d

\* What a press has decided is published and not posted yet, and is its own.
Decided ==
    \A h \in Presses : \A e \in press[h].mine :
        /\ post[e] = "published" /\ channel[e] = 0
        /\ \A k \in Presses : e \in press[k].mine => k = h

RadarInv == RadarTypeOK /\ InOneHand /\ Decided /\ PostedOnce

Hand == [day: 0 .. MaxRadarDay, todo: SUBSET Changes, free: BOOLEAN,
         event: SUBSET Changes, made: SUBSET Changes]
Press == [op: {"idle", "decide", "send"}, todo: SUBSET Changes, mine: SUBSET Changes]

LEMMA RestTyped ==
    ASSUME RadarAssumption
    PROVE  /\ NoDrafter \in Hand /\ NoDrafter.day = 0 /\ NoDrafter.todo = {} /\ NoDrafter.event = {}
           /\ NoPress \in Press /\ NoPress.mine = {} /\ NoPress.todo = {}
  BY DEF RadarAssumption, NoDrafter, Hand, NoPress, Press

-----------------------------------------------------------------------------
(* One lemma for each action *)

LEMMA InitInv == ASSUME RadarAssumption, RadarInit PROVE RadarInv
<1>1. RadarTypeOK
  <2>1. drafter \in [Drafters -> Hand] /\ press \in [Presses -> Press]  BY RestTyped DEF RadarInit
  <2>2. today \in RadarDays  BY DEF RadarInit, RadarDays, RadarAssumption
  <2>3. /\ post \in [Changes -> {"none", "drafted", "queued", "published", "skipped"}]
        /\ madeOn \in [Changes -> 0 .. MaxRadarDay] /\ channel \in [Changes -> Nat]
        /\ \A e \in Changes : (post[e] = "none") = (madeOn[e] = 0)
    BY DEF RadarInit, RadarAssumption
  <2> QED  BY <2>1, <2>2, <2>3 DEF RadarInit, RadarTypeOK, Hand, Press
<1>2. InOneHand  BY RestTyped DEF RadarInit, InOneHand, Pending
<1>3. Decided /\ PostedOnce  BY RestTyped DEF RadarInit, Decided, PostedOnce
<1> QED  BY <1>1, <1>2, <1>3 DEF RadarInv

\* A step that touches neither rows, nor hands, nor presses.
LEMMA StillInv ==
    ASSUME RadarAssumption, RadarInv, RadarTypeOK', today <= today',
           UNCHANGED <<post, madeOn, drafter, press, channel, extracted>>
    PROVE  RadarInv'
<1>1. today \in Nat /\ today' \in Nat /\ \A d \in Drafters : drafter[d].day \in Nat
  BY DEF RadarInv, RadarTypeOK, RadarDays
<1>2. InOneHand'  BY <1>1 DEF RadarInv, InOneHand, Pending
<1> QED  BY <1>2 DEF RadarInv, Decided, PostedOnce

\* A drafter goes on with less in hand, or nothing, and no row changes.
LEMMA HandMoves ==
    ASSUME RadarAssumption, RadarInv, NEW d \in Drafters, NEW h \in Hand,
           drafter' = [drafter EXCEPT ![d] = h],
           h.todo \cup h.event \subseteq Pending(d), h.todo \cap h.event = {},
           h.day = 0 => h.todo \cup h.event = {}, h.day \in {0, drafter[d].day},
           inChat' \subseteq Changes,
           UNCHANGED <<today, post, madeOn, roundUps, press, channel, extracted, draftsOn, crowded>>
    PROVE  RadarInv'
<1>1. drafter'[d] = h /\ \A c \in Drafters \ {d} : drafter'[c] = drafter[c]
  BY DEF RadarInv, RadarTypeOK
<1>2. RadarTypeOK'
  <2>1. drafter' \in [Drafters -> Hand]  BY DEF RadarInv, RadarTypeOK, Hand
  <2> QED  BY <2>1 DEF RadarInv, RadarTypeOK, Hand
<1>3. Pending(d)' \subseteq Pending(d) /\ \A c \in Drafters \ {d} : Pending(c)' = Pending(c)
  BY <1>1 DEF Pending
<1>4. InOneHand'
  <2>1. \A c \in Drafters : Pending(c)' \subseteq Pending(c)  BY <1>3
  <2>2. today \in Nat  BY DEF RadarInv, RadarTypeOK, RadarDays
  <2>3. \A c \in Drafters : /\ Pending(c)' \subseteq extracted
                            /\ drafter'[c].todo \cap drafter'[c].event = {}
                            /\ drafter'[c].day = 0 => Pending(c)' = {}
                            /\ drafter'[c].day <= today
    BY <1>1, <2>1, <2>2 DEF RadarInv, InOneHand, Pending
  <2>4. \A c \in Drafters : \A e \in Pending(c)' :
            post[e] = "none" /\ \A x \in Drafters : e \in Pending(x)' => x = c
    BY <2>1 DEF RadarInv, InOneHand
  <2> QED  BY <2>3, <2>4 DEF RadarInv, InOneHand
<1>5. Decided' /\ PostedOnce'  BY DEF RadarInv, Decided, PostedOnce
<1> QED  BY <1>2, <1>4, <1>5 DEF RadarInv

LEMMA draftRadarEventsInv ==
    ASSUME RadarAssumption, RadarInv, NEW d \in Drafters, NEW events \in SUBSET Changes,
           draftRadarEvents(d, events)
    PROVE  RadarInv'
<1>1. PICK h \in Hand : h = [NoDrafter EXCEPT !.day = today, !.todo = events]
  <2>1. today \in 0 .. MaxRadarDay  BY DEF RadarInv, RadarTypeOK, RadarDays
  <2> QED  BY <2>1, RestTyped DEF Hand
<1>2. h.day = today /\ h.todo = events /\ h.event = {} /\ today \in Nat /\ today > 0
  BY <1>1, RestTyped DEF Hand, RadarInv, RadarTypeOK, RadarDays
<1>3. drafter'[d] = h /\ \A c \in Drafters \ {d} : drafter'[c] = drafter[c]
  BY <1>1 DEF draftRadarEvents, RadarInv, RadarTypeOK
<1>4. /\ extracted' = extracted \cup events /\ events \cap extracted = {}
      /\ UNCHANGED <<today, post, madeOn, inChat, roundUps, press, channel, draftsOn>>
  BY DEF draftRadarEvents
<1>5. RadarTypeOK'
  <2>1. drafter' \in [Drafters -> Hand]  BY <1>1 DEF draftRadarEvents, RadarInv, RadarTypeOK, Hand
  <2>2. crowded' \in BOOLEAN  BY DEF draftRadarEvents
  <2> QED  BY <2>1, <2>2, <1>4 DEF RadarInv, RadarTypeOK, Hand
<1>6. InOneHand'
  <2>1. Pending(d)' = events /\ \A c \in Drafters \ {d} : Pending(c)' = Pending(c)
    BY <1>2, <1>3 DEF Pending
  <2>2. \A e \in events : post[e] = "none" /\ \A c \in Drafters : e \notin Pending(c)
    BY <1>4 DEF RadarInv, InOneHand
  <2>3. \A c \in Drafters : /\ Pending(c)' \subseteq extracted'
                            /\ drafter'[c].todo \cap drafter'[c].event = {}
                            /\ drafter'[c].day = 0 => Pending(c)' = {}
                            /\ drafter'[c].day <= today
    BY <1>2, <1>3, <1>4, <2>1 DEF RadarInv, InOneHand
  <2>4. \A c \in Drafters : \A e \in Pending(c)' :
            post[e] = "none" /\ \A x \in Drafters : e \in Pending(x)' => x = c
    BY <2>1, <2>2 DEF RadarInv, InOneHand
  <2> QED  BY <2>3, <2>4, <1>4 DEF RadarInv, InOneHand
<1>7. Decided' /\ PostedOnce'  BY <1>4 DEF RadarInv, Decided, PostedOnce
<1> QED  BY <1>5, <1>6, <1>7 DEF RadarInv

LEMMA HandInv ==
    ASSUME RadarAssumption, RadarInv, NEW d \in Drafters,
           CountToday(d) \/ DrafterDies(d) \/ \E sent \in SUBSET Changes : sendRadarDraft(d, sent)
    PROVE  RadarInv'
<1>0. drafter[d] \in Hand  BY DEF RadarInv, RadarTypeOK, Hand
<1>1. CASE CountToday(d)
  <2>1. PICK e \in Changes, free \in BOOLEAN :
            /\ e \in drafter[d].todo /\ drafter[d].event = {}
            /\ drafter' = [drafter EXCEPT ![d].event = {e}, ![d].todo = @ \ {e}, ![d].free = free]
    <3>1. PICK e \in Changes :
             LET rows == {f \in Changes : Language[f] = Language[e] /\ post[f] \in Counted
                                              /\ madeOn[f] >= drafter[d].day}
             IN  /\ Foremost(d, e)
                 /\ drafter' = [drafter EXCEPT ![d].event = {e}, ![d].todo = @ \ {e},
                                               ![d].free = Cardinality(rows) < DailyDraftLimit]
      BY <1>1 DEF CountToday
    <3> DEFINE free == Cardinality({f \in Changes : Language[f] = Language[e] /\ post[f] \in Counted
                                              /\ madeOn[f] >= drafter[d].day}) < DailyDraftLimit
    <3>2. free \in BOOLEAN  OBVIOUS
    <3> QED  BY <3>1, <3>2, <1>1 DEF CountToday, Foremost
  <2>2. PICK h \in Hand : h = [drafter[d] EXCEPT !.event = {e}, !.todo = @ \ {e}, !.free = free]
    BY <1>0, <2>1 DEF Hand
  <2>3. h.day = drafter[d].day /\ h.todo = drafter[d].todo \ {e} /\ h.event = {e}
    BY <1>0, <2>2 DEF Hand
  <2>4. drafter' = [drafter EXCEPT ![d] = h]  BY <2>1, <2>2 DEF RadarInv, RadarTypeOK
  <2>5. drafter[d].day # 0  BY <2>1 DEF RadarInv, InOneHand, Pending
  <2>6. h.todo \cup h.event \subseteq Pending(d)  BY <2>1, <2>3 DEF Pending
  <2> QED  BY <1>1, <2>3, <2>4, <2>5, <2>6, HandMoves DEF CountToday, RadarInv, RadarTypeOK
<1>2. CASE DrafterDies(d) \/ \E sent \in SUBSET Changes : sendRadarDraft(d, sent)
  <2>1. drafter' = [drafter EXCEPT ![d] = NoDrafter] /\ inChat' \subseteq Changes
        /\ UNCHANGED <<today, post, madeOn, roundUps, press, channel, extracted, draftsOn, crowded>>
    BY <1>2 DEF DrafterDies, sendRadarDraft, RadarInv, RadarTypeOK
  <2> QED  BY <2>1, RestTyped, HandMoves
<1> QED  BY <1>1, <1>2

LEMMA InsertPostInv ==
    ASSUME RadarAssumption, RadarInv, NEW d \in Drafters, NEW e \in Changes, InsertPost(d, e)
    PROVE  RadarInv'
<1>0. drafter[d] \in Hand /\ e \in drafter[d].event /\ e \in Pending(d)
  BY DEF RadarInv, RadarTypeOK, Hand, InsertPost, Pending
<1>1. PICK h \in Hand : h = [drafter[d] EXCEPT !.event = {},
                                !.made = IF drafter[d].free THEN @ \cup {e} ELSE @]
  <2>1. (IF drafter[d].free THEN drafter[d].made \cup {e} ELSE drafter[d].made) \in SUBSET Changes
    BY <1>0 DEF Hand
  <2> QED  BY <1>0, <2>1 DEF Hand
<1>2. h.day = drafter[d].day /\ h.todo = drafter[d].todo /\ h.event = {}  BY <1>0, <1>1 DEF Hand
<1>3. drafter'[d] = h /\ \A c \in Drafters \ {d} : drafter'[c] = drafter[c]
  BY <1>1 DEF InsertPost, RadarInv, RadarTypeOK
<1>4. PICK s \in {"drafted", "queued"} : post' = [post EXCEPT ![e] = s]
  BY DEF InsertPost
<1>5. post'[e] = s /\ \A f \in Changes \ {e} : post'[f] = post[f]  BY <1>4 DEF RadarInv, RadarTypeOK
<1>6. post[e] = "none" /\ drafter[d].day # 0 /\ e \in extracted
  BY <1>0 DEF RadarInv, InOneHand
<1>7. UNCHANGED <<today, inChat, roundUps, press, channel, extracted, crowded>>  BY DEF InsertPost
<1>8. RadarTypeOK'
  <2>1. drafter' \in [Drafters -> Hand]  BY <1>1 DEF InsertPost, RadarInv, RadarTypeOK, Hand
  <2>2. post' \in [Changes -> {"none", "drafted", "queued", "published", "skipped"}]
    BY <1>4 DEF RadarInv, RadarTypeOK
  <2>3. /\ madeOn' \in [Changes -> 0 .. MaxRadarDay]
        /\ madeOn'[e] = drafter[d].day /\ \A f \in Changes \ {e} : madeOn'[f] = madeOn[f]
    BY <1>0 DEF InsertPost, RadarInv, RadarTypeOK, Hand
  <2>4. draftsOn' \subseteq Changes \X RadarDays
    <3>1. drafter[d].day \in RadarDays  BY <1>0, <1>6 DEF Hand, RadarDays, RadarAssumption
    <3> QED  BY <3>1 DEF InsertPost, RadarInv, RadarTypeOK
  <2>5. \A f \in Changes : (post'[f] = "none") = (madeOn'[f] = 0)
    BY <1>5, <1>6, <2>3 DEF RadarInv, RadarTypeOK
  <2> QED  BY <2>1, <2>2, <2>3, <2>4, <2>5, <1>7 DEF RadarInv, RadarTypeOK, Hand
<1>9. InOneHand'
  <2>1. /\ Pending(d)' \subseteq Pending(d) /\ e \notin Pending(d)'
        /\ \A c \in Drafters \ {d} : Pending(c)' = Pending(c)
    BY <1>0, <1>2, <1>3 DEF Pending, RadarInv, InOneHand
  <2>2. \A c \in Drafters : /\ Pending(c)' \subseteq extracted
                            /\ drafter'[c].todo \cap drafter'[c].event = {}
                            /\ drafter'[c].day = 0 => Pending(c)' = {}
                            /\ drafter'[c].day <= today
    BY <1>2, <1>3, <2>1 DEF RadarInv, InOneHand
  <2>3. \A c \in Drafters : e \notin Pending(c)'  BY <1>0, <2>1 DEF RadarInv, InOneHand
  <2>4. \A c \in Drafters : Pending(c)' \subseteq Pending(c)  BY <2>1
  <2>5. \A c \in Drafters : Pending(c) \subseteq Changes  BY DEF RadarInv, RadarTypeOK, Pending
  <2>6. \A c \in Drafters : \A f \in Pending(c)' :
            post'[f] = "none" /\ \A x \in Drafters : f \in Pending(x)' => x = c
    BY <1>5, <2>3, <2>4, <2>5 DEF RadarInv, InOneHand
  <2>7. \A f \in Changes : post'[f] # "none" => f \in extracted
    BY <1>5, <1>6 DEF RadarInv, InOneHand
  <2> QED  BY <2>2, <2>6, <2>7, <1>7 DEF InOneHand
<1>10. Decided' /\ PostedOnce'
  <2>1. \A k \in Presses : e \notin press[k].mine /\ press[k].mine \subseteq Changes
    BY <1>6 DEF RadarInv, Decided, RadarTypeOK
  <2> QED  BY <2>1, <1>5, <1>6, <1>7 DEF RadarInv, Decided, PostedOnce
<1> QED  BY <1>8, <1>9, <1>10 DEF RadarInv

\* A press goes on, and no drafter.
LEMMA PressesInv ==
    ASSUME RadarAssumption, RadarInv, NEW h \in Presses,
           \/ \E todo \in SUBSET Changes : PressPublish(h, todo)
           \/ \E e \in Changes : decideRadarPost(h, e)
           \/ Send(h) \/ PressDies(h)
    PROVE  RadarInv'
<1>0. press[h] \in Press  BY DEF RadarInv, RadarTypeOK, Press
<1>1. ASSUME NEW p \in Press, press' = [press EXCEPT ![h] = p], p.mine = {},
             post' = post, channel' \in [Changes -> Nat],
             \A e \in Changes : channel'[e] = channel[e] \/ (e \in press[h].mine /\ channel'[e] = channel[e] + 1),
             UNCHANGED <<today, madeOn, drafter, inChat, roundUps, extracted, draftsOn, crowded>>
      PROVE  RadarInv'
  <2>1. press'[h] = p /\ \A k \in Presses \ {h} : press'[k] = press[k]
    BY <1>1 DEF RadarInv, RadarTypeOK
  <2>2. RadarTypeOK'
    <3>1. press' \in [Presses -> Press]  BY <1>1 DEF RadarInv, RadarTypeOK, Press
    <3> QED  BY <1>1, <3>1 DEF RadarInv, RadarTypeOK, Press
  <2>3. InOneHand'  BY <1>1 DEF RadarInv, InOneHand, Pending
  <2>4. \A k \in Presses : press[k].mine \subseteq Changes  BY DEF RadarInv, RadarTypeOK
  <2>5. \A k \in Presses \ {h} : \A e \in press[k].mine : channel'[e] = 0
    BY <1>1, <2>4 DEF RadarInv, Decided
  <2>6. Decided'
    <3>1. SUFFICES ASSUME NEW k \in Presses, NEW e \in press'[k].mine
                   PROVE  /\ post'[e] = "published" /\ channel'[e] = 0
                          /\ \A j \in Presses : e \in press'[j].mine => j = k
      BY DEF Decided
    <3>2. k # h /\ e \in press[k].mine  BY <1>1, <2>1, <3>1
    <3> QED  BY <1>1, <2>1, <2>5, <3>2 DEF RadarInv, Decided
  <2>7. PostedOnce'  BY <1>1 DEF RadarInv, PostedOnce, Decided, RadarTypeOK
  <2> QED  BY <2>2, <2>3, <2>6, <2>7 DEF RadarInv
<1>2. channel \in [Changes -> Nat]  BY DEF RadarInv, RadarTypeOK
<1>3. CASE \E todo \in SUBSET Changes : PressPublish(h, todo)
  <2>1. PICK todo \in SUBSET Changes : PressPublish(h, todo)  BY <1>3
  <2>2. PICK p \in Press : p = [NoPress EXCEPT !.op = "decide", !.todo = todo]
    BY RestTyped DEF Press
  <2>3. p.mine = {}  BY <2>2, RestTyped DEF Press
  <2>4. press' = [press EXCEPT ![h] = p]  BY <2>1, <2>2 DEF PressPublish
  <2> QED  BY <1>1, <1>2, <2>1, <2>3, <2>4 DEF PressPublish
<1>4. CASE PressDies(h)  BY <1>1, <1>2, <1>4, RestTyped DEF PressDies
<1>5. CASE Send(h)
  <2>1. /\ channel' \in [Changes -> Nat]
        /\ \A e \in Changes : channel'[e] = channel[e] \/ (e \in press[h].mine /\ channel'[e] = channel[e] + 1)
    BY <1>2, <1>5 DEF Send
  <2> QED  BY <1>1, <1>5, <2>1, RestTyped DEF Send
<1>6. CASE \E e \in Changes : decideRadarPost(h, e)
  <2>1. PICK e \in Changes : decideRadarPost(h, e)  BY <1>6
  <2>2. UNCHANGED <<today, madeOn, drafter, inChat, roundUps, channel, extracted, draftsOn, crowded>>
    BY <2>1 DEF decideRadarPost
  <2>3. PICK p \in Press : p = [press[h] EXCEPT !.todo = @ \ {e},
                                                !.mine = IF StillOpen(e) THEN @ \cup {e} ELSE @]
    <3>1. press[h].todo \ {e} \subseteq Changes
          /\ (IF StillOpen(e) THEN press[h].mine \cup {e} ELSE press[h].mine) \subseteq Changes
      BY <1>0 DEF Press
    <3> QED  BY <1>0, <3>1 DEF Press
  <2>4. p.mine = IF StillOpen(e) THEN press[h].mine \cup {e} ELSE press[h].mine
    BY <1>0, <2>3 DEF Press
  <2>5. press'[h] = p /\ \A k \in Presses \ {h} : press'[k] = press[k]
    BY <2>1, <2>3 DEF decideRadarPost, RadarInv, RadarTypeOK
  <2>6. /\ post' \in [Changes -> {"none", "drafted", "queued", "published", "skipped"}]
        /\ \A f \in Changes \ {e} : post'[f] = post[f]
        /\ IF StillOpen(e) THEN post'[e] = "published" ELSE post'[e] = post[e]
    BY <2>1 DEF decideRadarPost, RadarInv, RadarTypeOK
  <2>7. RadarTypeOK'
    <3>1. press' \in [Presses -> Press]
      BY <2>1, <2>3 DEF decideRadarPost, RadarInv, RadarTypeOK, Press
    <3>2. \A f \in Changes : (post'[f] = "none") = (madeOn[f] = 0)
      BY <2>6 DEF RadarInv, RadarTypeOK, StillOpen
    <3> QED  BY <2>2, <2>6, <3>1, <3>2 DEF RadarInv, RadarTypeOK, Press
  <2>8. \A f \in Changes : (post'[f] = "none") = (post[f] = "none")  BY <2>6 DEF StillOpen
  <2>9. InOneHand'
    <3>1. \A c \in Drafters : Pending(c) \subseteq Changes  BY DEF RadarInv, RadarTypeOK, Pending
    <3>2. \A c \in Drafters : Pending(c)' = Pending(c)  BY <2>2 DEF Pending
    <3> QED  BY <2>2, <2>8, <3>1, <3>2 DEF RadarInv, InOneHand
  <2>10. \A k \in Presses : press[k].mine \subseteq Changes  BY DEF RadarInv, RadarTypeOK
  <2>11. StillOpen(e) => channel[e] = 0 /\ \A k \in Presses : e \notin press[k].mine
    <3>1. SUFFICES ASSUME StillOpen(e)
                   PROVE  channel[e] = 0 /\ \A k \in Presses : e \notin press[k].mine
      OBVIOUS
    <3>2. post[e] # "published"  BY <3>1 DEF StillOpen
    <3>3. channel[e] \in Nat /\ channel[e] <= 1 /\ channel[e] # 1
      BY <3>2 DEF RadarInv, PostedOnce, RadarTypeOK
    <3> QED  BY <3>2, <3>3 DEF RadarInv, Decided
  <2>12. Decided'
    <3>1. SUFFICES ASSUME NEW k \in Presses, NEW f \in press'[k].mine
                   PROVE  /\ post'[f] = "published" /\ channel[f] = 0
                          /\ \A j \in Presses : f \in press'[j].mine => j = k
      BY <2>2 DEF Decided
    <3>2. CASE f = e /\ StillOpen(e)
      BY <2>4, <2>5, <2>6, <2>11, <3>1, <3>2
    <3>3. CASE ~(f = e /\ StillOpen(e))
      <4>1. f \in press[k].mine /\ f \in Changes /\ \A j \in Presses : f \in press'[j].mine => f \in press[j].mine
        BY <2>4, <2>5, <2>10, <3>1, <3>3
      <4> QED  BY <4>1, <2>6, <3>3 DEF RadarInv, Decided, StillOpen
    <3> QED  BY <3>2, <3>3
  <2>13. PostedOnce'  BY <2>2, <2>6, <2>11 DEF RadarInv, PostedOnce, StillOpen
  <2> QED  BY <2>7, <2>9, <2>12, <2>13 DEF RadarInv
<1> QED  BY <1>3, <1>4, <1>5, <1>6

LEMMA PressSkipInv ==
    ASSUME RadarAssumption, RadarInv, NEW e \in Changes, PressSkip(e)
    PROVE  RadarInv'
<1>1. /\ post' = [post EXCEPT ![e] = "skipped"] /\ StillOpen(e)
      /\ UNCHANGED <<today, madeOn, drafter, inChat, roundUps, press, channel, extracted, draftsOn, crowded>>
  BY DEF PressSkip
<1>2. post'[e] = "skipped" /\ \A f \in Changes \ {e} : post'[f] = post[f]
  BY <1>1 DEF RadarInv, RadarTypeOK
<1>3. \A f \in Changes : (post'[f] = "none") = (post[f] = "none")  BY <1>1, <1>2 DEF StillOpen
<1>4. RadarTypeOK'
  <2>1. post' \in [Changes -> {"none", "drafted", "queued", "published", "skipped"}]
    BY <1>1 DEF RadarInv, RadarTypeOK
  <2> QED  BY <1>1, <1>3, <2>1 DEF RadarInv, RadarTypeOK
<1>5. InOneHand'
  <2>1. \A c \in Drafters : Pending(c) \subseteq Changes /\ Pending(c)' = Pending(c)
    BY <1>1 DEF RadarInv, RadarTypeOK, Pending
  <2> QED  BY <1>1, <1>3, <2>1 DEF RadarInv, InOneHand
<1>6. channel[e] = 0 /\ \A k \in Presses : e \notin press[k].mine /\ press[k].mine \subseteq Changes
  <2>1. post[e] # "published"  BY <1>1 DEF StillOpen
  <2>2. channel[e] \in Nat /\ channel[e] <= 1 /\ channel[e] # 1
    BY <2>1 DEF RadarInv, PostedOnce, RadarTypeOK
  <2>3. \A k \in Presses : press[k].mine \subseteq Changes  BY DEF RadarInv, RadarTypeOK
  <2> QED  BY <2>1, <2>2, <2>3 DEF RadarInv, Decided
<1>7. Decided' /\ PostedOnce'  BY <1>1, <1>2, <1>6 DEF RadarInv, Decided, PostedOnce
<1> QED  BY <1>4, <1>5, <1>7 DEF RadarInv

LEMMA NextInv ==
    ASSUME RadarAssumption, RadarInv, [RadarNext]_radarVars
    PROVE  RadarInv'
<1>1. CASE UNCHANGED radarVars
  <2>1. RadarTypeOK'  BY <1>1 DEF radarVars, RadarInv, RadarTypeOK
  <2>2. today \in Nat  BY DEF RadarInv, RadarTypeOK, RadarDays
  <2> QED  BY <1>1, <2>1, <2>2, StillInv DEF radarVars
<1>2. CASE NextRadarDay \/ sendWeeklyRadarDraft
  <2>1. today \in Nat /\ today <= today'
    BY <1>2 DEF NextRadarDay, sendWeeklyRadarDraft, RadarInv, RadarTypeOK, RadarDays
  <2>2. RadarTypeOK'
    <3>0. today \in RadarDays /\ roundUps \subseteq RadarDays  BY DEF RadarInv, RadarTypeOK
    <3>1. today' \in RadarDays /\ roundUps' \subseteq RadarDays
      <4>1. CASE NextRadarDay  BY <4>1, <3>0 DEF NextRadarDay, RadarDays, RadarAssumption
      <4>2. CASE sendWeeklyRadarDraft  BY <4>2, <3>0 DEF sendWeeklyRadarDraft
      <4> QED  BY <1>2, <4>1, <4>2
    <3>2. UNCHANGED <<post, madeOn, drafter, inChat, press, channel, extracted, draftsOn, crowded>>
      BY <1>2 DEF NextRadarDay, sendWeeklyRadarDraft
    <3> QED  BY <3>1, <3>2 DEF RadarInv, RadarTypeOK
  <2> QED  BY <1>2, <2>1, <2>2, StillInv DEF NextRadarDay, sendWeeklyRadarDraft
<1>3. \A from, to : listQueuedRadarPosts(from, to) \subseteq Changes  BY DEF listQueuedRadarPosts
<1>4. \A e \in Changes : {e} \subseteq Changes  OBVIOUS
<1> QED  BY <1>1, <1>2, <1>3, <1>4, draftRadarEventsInv, HandInv, InsertPostInv, PressesInv, PressSkipInv
         DEF RadarNext

-----------------------------------------------------------------------------
(* The limit of a day *)

\* The drafts of a day in a language.
DraftsOf(date, language) == {x \in draftsOn : x[2] = date /\ Language[x[1]] = language}

\* A draft keeps its row, dated with its day, and drafters that take turns have
\* counted right.
DailyInv ==
    /\ IsFiniteSet({e \in Changes : post[e] # "none"})
    /\ \A x \in draftsOn : post[x[1]] \in Counted /\ madeOn[x[1]] = x[2]
    /\ ~crowded =>
         /\ \A c, d \in Drafting : c = d
         /\ \A date \in RadarDays, e \in Changes :
                Cardinality(DraftsOf(date, Language[e])) <= DailyDraftLimit
         /\ \A d \in Drafters : \A e \in drafter[d].event : drafter[d].free =>
                Cardinality(DraftsOf(drafter[d].day, Language[e])) < DailyDraftLimit

LEMMA DraftsFinite ==
    ASSUME RadarAssumption, RadarInv, DailyInv, NEW date, NEW language
    PROVE  /\ IsFiniteSet(DraftsOf(date, language)) /\ Cardinality(DraftsOf(date, language)) \in Nat
           /\ \A first \in Nat : \A rows :
                  /\ date >= first
                  /\ rows = {f \in Changes : Language[f] = language /\ post[f] \in Counted /\ madeOn[f] >= first}
                  => Cardinality(DraftsOf(date, language)) <= Cardinality(rows)
<1> DEFINE rows(first) == {f \in Changes : Language[f] = language /\ post[f] \in Counted /\ madeOn[f] >= first}
           S == DraftsOf(date, language)
           posted == {e \in Changes : post[e] # "none"}
           inject == [x \in S |-> x[1]]
<1>1. \A x \in S : x[1] \in posted /\ x = <<x[1], date>> /\ madeOn[x[1]] = date
                   /\ post[x[1]] \in Counted /\ Language[x[1]] = language
  BY DEF DraftsOf, DailyInv, RadarInv, RadarTypeOK, Counted
<1>2. inject \in Injection(S, posted)  BY <1>1 DEF Injection, IsInjective
<1>3. IsFiniteSet(S)  BY <1>2, FS_Injection DEF DailyInv
<1>4. ASSUME NEW first \in Nat, date >= first
      PROVE  Cardinality(S) <= Cardinality(rows(first))
  <2>1. rows(first) \subseteq posted  BY DEF Counted
  <2>2. IsFiniteSet(rows(first))  BY <2>1, FS_Subset DEF DailyInv
  <2>3. inject \in Injection(S, rows(first))  BY <1>1, <1>4 DEF Injection, IsInjective
  <2> QED  BY <2>2, <2>3, FS_Injection
<1> QED  BY <1>3, <1>4, FS_CardinalityType

LEMMA DailyInit == ASSUME RadarAssumption, RadarInit PROVE DailyInv
<1>1. {e \in Changes : post[e] # "none"} = {}  BY DEF RadarInit
<1>2. \A date, l : DraftsOf(date, l) = {}  BY DEF DraftsOf, RadarInit
<1>3. \A d \in Drafters : drafter[d].event = {} /\ d \notin Drafting
  BY RestTyped DEF RadarInit, Drafting
<1>4. 0 <= DailyDraftLimit  BY DEF RadarAssumption
<1>5. IsFiniteSet({e \in Changes : post[e] # "none"})  BY <1>1, FS_EmptySet
<1>6. \A date, l : Cardinality(DraftsOf(date, l)) <= DailyDraftLimit  BY <1>2, <1>4, FS_EmptySet
<1>7. draftsOn = {} /\ \A c, d \in Drafting : c = d  BY <1>3 DEF RadarInit, Drafting
<1> QED  BY <1>3, <1>5, <1>6, <1>7 DEF DailyInv

\* A row changes at most from open to decided, no draft is made, and no drafter
\* begins or takes up an event.
LEMMA DailyKept ==
    ASSUME RadarAssumption, RadarInv, DailyInv,
           UNCHANGED <<madeOn, draftsOn, crowded>>,
           \A e \in Changes : (post'[e] = "none") = (post[e] = "none"),
           \A e \in Changes : post[e] \in Counted => post'[e] \in Counted,
           \A d \in Drafters : \/ drafter'[d] = drafter[d]
                               \/ drafter'[d].day = 0 /\ drafter'[d].event = {}
    PROVE  DailyInv'
<1>1. {e \in Changes : post'[e] # "none"} = {e \in Changes : post[e] # "none"}  OBVIOUS
<1>2. \A date, l : DraftsOf(date, l)' = DraftsOf(date, l)  BY DEF DraftsOf
<1>3. \A x \in draftsOn : x[1] \in Changes  BY DEF RadarInv, RadarTypeOK
<1>4. Drafting' \subseteq Drafting  BY DEF Drafting
<1>5. ASSUME ~crowded
      PROVE  \A d \in Drafters : \A e \in drafter'[d].event : drafter'[d].free =>
                Cardinality(DraftsOf(drafter'[d].day, Language[e])) < DailyDraftLimit
  BY <1>5 DEF DailyInv
<1> QED  BY <1>1, <1>2, <1>3, <1>4, <1>5 DEF DailyInv, Counted, DraftsOf

LEMMA DailyBegins ==
    ASSUME RadarAssumption, RadarInv, DailyInv, NEW d \in Drafters, NEW events \in SUBSET Changes,
           draftRadarEvents(d, events)
    PROVE  DailyInv'
<1>1. /\ \A c \in Drafters \ {d} : drafter'[c] = drafter[c]
      /\ drafter'[d].event = {} /\ crowded' = (crowded \/ Drafting # {})
      /\ UNCHANGED <<post, madeOn, draftsOn>>
  BY DEF draftRadarEvents, RadarInv, RadarTypeOK, NoDrafter
<1>2. ~crowded' => \A c \in Drafting' : c = d  BY <1>1 DEF Drafting
<1>3. \A date, l : DraftsOf(date, l)' = DraftsOf(date, l)  BY <1>1 DEF DraftsOf
<1>4. ASSUME ~crowded'
      PROVE  \A c \in Drafters : \A e \in drafter'[c].event : drafter'[c].free =>
                Cardinality(DraftsOf(drafter'[c].day, Language[e])) < DailyDraftLimit
  BY <1>1, <1>4 DEF DailyInv
<1> QED  BY <1>1, <1>2, <1>3, <1>4 DEF DailyInv, DraftsOf

LEMMA DailyCounts ==
    ASSUME RadarAssumption, RadarInv, DailyInv, NEW d \in Drafters, CountToday(d)
    PROVE  DailyInv'
<1>1. PICK e \in Changes :
          LET rows == {f \in Changes : Language[f] = Language[e] /\ post[f] \in Counted
                                           /\ madeOn[f] >= drafter[d].day}
          IN  /\ Foremost(d, e)
              /\ drafter' = [drafter EXCEPT ![d].event = {e}, ![d].todo = @ \ {e},
                                            ![d].free = Cardinality(rows) < DailyDraftLimit]
  BY DEF CountToday
<1> DEFINE rows == {f \in Changes : Language[f] = Language[e] /\ post[f] \in Counted
                                        /\ madeOn[f] >= drafter[d].day}
<1>2. drafter[d] \in Hand  BY DEF RadarInv, RadarTypeOK, Hand
<1>3. /\ drafter'[d].event = {e} /\ drafter'[d].day = drafter[d].day
      /\ drafter'[d].free = (Cardinality(rows) < DailyDraftLimit)
      /\ \A c \in Drafters \ {d} : drafter'[c] = drafter[c]
  BY <1>1, <1>2 DEF Hand, RadarInv, RadarTypeOK
<1>4. UNCHANGED <<post, madeOn, draftsOn, crowded>>  BY DEF CountToday
<1>5. Drafting' = Drafting  BY <1>3 DEF Drafting
<1>6. \A date, l : DraftsOf(date, l)' = DraftsOf(date, l)  BY <1>4 DEF DraftsOf
<1>7. Cardinality(DraftsOf(drafter[d].day, Language[e])) <= Cardinality(rows)
      /\ Cardinality(DraftsOf(drafter[d].day, Language[e])) \in Nat
  <2>1. drafter[d].day \in Nat  BY <1>2 DEF Hand
  <2> QED  BY <2>1, DraftsFinite
<1>8. Cardinality(rows) \in Nat
  <2>1. rows \subseteq {f \in Changes : post[f] # "none"}  BY DEF Counted
  <2> QED  BY <2>1, FS_Subset, FS_CardinalityType DEF DailyInv
<1>9. ASSUME ~crowded
      PROVE  \A c \in Drafters : \A f \in drafter'[c].event : drafter'[c].free =>
                Cardinality(DraftsOf(drafter'[c].day, Language[f])) < DailyDraftLimit
  <2>1. drafter'[d].free => Cardinality(DraftsOf(drafter[d].day, Language[e])) < DailyDraftLimit
    <3> HIDE DEF rows
    <3>1. DailyDraftLimit \in Nat  BY DEF RadarAssumption
    <3>2. SUFFICES ASSUME drafter'[d].free
                   PROVE  Cardinality(DraftsOf(drafter[d].day, Language[e])) < DailyDraftLimit
      OBVIOUS
    <3>3. Cardinality(rows) < DailyDraftLimit  BY <3>2, <1>3, Zenon
    <3> QED  BY <3>1, <3>3, <1>7, <1>8
  <2> QED  BY <2>1, <1>3, <1>9 DEF DailyInv
<1> QED  BY <1>4, <1>5, <1>6, <1>9 DEF DailyInv, DraftsOf

LEMMA DailyInserts ==
    ASSUME RadarAssumption, RadarInv, DailyInv, NEW d \in Drafters, NEW e \in Changes, InsertPost(d, e)
    PROVE  DailyInv'
<1> DEFINE date == drafter[d].day
<1>1. /\ drafter[d] \in Hand /\ e \in drafter[d].event /\ e \in Pending(d)
      /\ post[e] = "none" /\ date # 0
  BY DEF RadarInv, RadarTypeOK, Hand, InsertPost, Pending, InOneHand
<1>2. /\ drafter'[d].event = {} /\ drafter'[d].day = date
      /\ \A c \in Drafters \ {d} : drafter'[c] = drafter[c]
  BY <1>1 DEF InsertPost, RadarInv, RadarTypeOK, Hand
<1>3. /\ \A f \in Changes \ {e} : post'[f] = post[f] /\ madeOn'[f] = madeOn[f]
      /\ post'[e] = (IF drafter[d].free THEN "drafted" ELSE "queued") /\ madeOn'[e] = date
  BY DEF InsertPost, RadarInv, RadarTypeOK
<1>4. draftsOn' = IF drafter[d].free THEN draftsOn \cup {<<e, date>>} ELSE draftsOn  BY DEF InsertPost
<1>5. crowded' = crowded  BY DEF InsertPost
<1>6. \A x \in draftsOn : x[1] \in Changes /\ x[1] # e  BY <1>1 DEF DailyInv, Counted, RadarInv, RadarTypeOK
<1>7. IsFiniteSet({f \in Changes : post[f] # "none"})'
  <2>1. {f \in Changes : post'[f] # "none"} = {f \in Changes : post[f] # "none"} \cup {e}
    BY <1>1, <1>3
  <2>2. IsFiniteSet({f \in Changes : post[f] # "none"})  BY DEF DailyInv
  <2>3. IsFiniteSet({f \in Changes : post[f] # "none"} \cup {e})  BY <2>2, FS_AddElement
  <2> QED  BY <2>1, <2>3
<1>8. \A x \in draftsOn' : post'[x[1]] \in Counted /\ madeOn'[x[1]] = x[2]
  BY <1>3, <1>4, <1>6 DEF DailyInv, Counted
<1>9. Drafting' = Drafting  BY <1>2 DEF Drafting
<1>10. ASSUME ~crowded
       PROVE  /\ \A x \in RadarDays, f \in Changes :
                     Cardinality(DraftsOf(x, Language[f])') <= DailyDraftLimit
              /\ \A c \in Drafters : drafter'[c].event = {}
  <2>1. \A c \in Drafters : drafter'[c].event = {}
    <3>1. \A c \in Drafters \ {d} : drafter[c].day = 0
      BY <1>1, <1>10 DEF DailyInv, Drafting
    <3> QED  BY <3>1, <1>2 DEF RadarInv, InOneHand, Pending
  <2>2. SUFFICES ASSUME NEW x \in RadarDays, NEW f \in Changes
                 PROVE  Cardinality(DraftsOf(x, Language[f])') <= DailyDraftLimit
    BY <2>1
  <2>3. Cardinality(DraftsOf(x, Language[f])) <= DailyDraftLimit  BY <1>10 DEF DailyInv
  <2>4. CASE drafter[d].free /\ x = date /\ Language[f] = Language[e]
    <3>1. DraftsOf(x, Language[f])' = DraftsOf(x, Language[f]) \cup {<<e, date>>}
      BY <1>4, <2>4 DEF DraftsOf
    <3>2. Cardinality(DraftsOf(x, Language[f])) < DailyDraftLimit
      BY <1>1, <1>10, <2>4 DEF DailyInv
    <3>3. IsFiniteSet(DraftsOf(x, Language[f])) /\ Cardinality(DraftsOf(x, Language[f])) \in Nat
      BY DraftsFinite
    <3>4. Cardinality(DraftsOf(x, Language[f])') \in {Cardinality(DraftsOf(x, Language[f])),
                                                      Cardinality(DraftsOf(x, Language[f])) + 1}
      BY <3>1, <3>3, FS_AddElement
    <3> QED  BY <3>2, <3>3, <3>4 DEF RadarAssumption
  <2>5. CASE ~(drafter[d].free /\ x = date /\ Language[f] = Language[e])
    <3>1. DraftsOf(x, Language[f])' = DraftsOf(x, Language[f])
      BY <1>4, <2>5 DEF DraftsOf
    <3> QED  BY <3>1, <2>3
  <2> QED  BY <2>4, <2>5
<1> QED  BY <1>5, <1>7, <1>8, <1>9, <1>10 DEF DailyInv, DraftsOf

LEMMA DailyNext ==
    ASSUME RadarAssumption, RadarInv, DailyInv, [RadarNext]_radarVars
    PROVE  DailyInv'
<1> USE DEF RadarInv
<1>1. CASE UNCHANGED radarVars  BY <1>1, DailyKept DEF radarVars
<1>2. CASE NextRadarDay \/ sendWeeklyRadarDraft
  BY <1>2, DailyKept DEF NextRadarDay, sendWeeklyRadarDraft
<1>3. CASE \E d \in Drafters : DrafterDies(d) \/ \E set \in SUBSET Changes : sendRadarDraft(d, set)
  <2>1. PICK d \in Drafters : DrafterDies(d) \/ \E set \in SUBSET Changes : sendRadarDraft(d, set)
    BY <1>3
  <2>2. /\ drafter' = [drafter EXCEPT ![d] = NoDrafter]
        /\ UNCHANGED <<post, madeOn, draftsOn, crowded>>
    BY <2>1 DEF DrafterDies, sendRadarDraft
  <2>3. \A c \in Drafters : \/ drafter'[c] = drafter[c]
                            \/ drafter'[c].day = 0 /\ drafter'[c].event = {}
    BY <2>2, RestTyped DEF RadarTypeOK
  <2> QED  BY <2>2, <2>3, DailyKept
<1>4. CASE \E h \in Presses : \/ \E e \in Changes : e \in inChat /\ PressPublish(h, {e})
                              \/ \E date \in roundUps :
                                     PressPublish(h, listQueuedRadarPosts(date - WeekLength - 1, date))
                              \/ Send(h) \/ PressDies(h)
  BY <1>4, DailyKept DEF PressPublish, Send, PressDies
<1>5. CASE \E h \in Presses, e \in Changes : decideRadarPost(h, e)
  <2>1. PICK h \in Presses, e \in Changes : decideRadarPost(h, e)  BY <1>5
  <2>2. /\ UNCHANGED <<madeOn, draftsOn, crowded, drafter>>
        /\ \A f \in Changes : post'[f] = post[f] \/ (post'[f] = "published" /\ post[f] \in {"drafted", "queued"})
    BY <2>1 DEF decideRadarPost, StillOpen, RadarTypeOK
  <2> QED  BY <2>2, DailyKept DEF Counted
<1>6. CASE \E e \in Changes : PressSkip(e)
  <2>1. PICK e \in Changes : PressSkip(e)  BY <1>6
  <2>2. /\ UNCHANGED <<madeOn, draftsOn, crowded, drafter>>
        /\ \A f \in Changes : post'[f] = post[f] \/ (post'[f] = "skipped" /\ post[f] \in {"drafted", "queued"})
    BY <2>1 DEF PressSkip, StillOpen, RadarTypeOK
  <2> QED  BY <2>2, DailyKept DEF Counted
<1> QED  BY <1>1, <1>2, <1>3, <1>4, <1>5, <1>6, DailyBegins, DailyCounts, DailyInserts DEF RadarNext

-----------------------------------------------------------------------------
(* The theorems *)

LEMMA InvHolds == RadarSpec => [](RadarInv /\ DailyInv)
<1>1. RadarInit => RadarInv /\ DailyInv  BY InitInv, DailyInit, RadarAssumption
<1>2. RadarInv /\ DailyInv /\ [RadarNext]_radarVars => (RadarInv /\ DailyInv)'
  BY NextInv, DailyNext, RadarAssumption
<1> QED  BY <1>1, <1>2, PTL DEF RadarSpec

\* Posts, drafters and presses have the shapes the model of posts.ts says.
THEOREM RadarTypes == RadarSpec => []RadarTypeOK
<1>1. RadarInv => RadarTypeOK  BY DEF RadarInv
<1> QED  BY <1>1, InvHolds, PTL

\* No event is posted to the channel twice, or after it was skipped, however
\* many presses run side by side (radar-telegram.ts:142).
THEOREM EventsPostedOnce == RadarSpec => []PostedOnce
<1>1. RadarInv => PostedOnce  BY DEF RadarInv
<1> QED  BY <1>1, InvHolds, PTL

\* Drafters that take turns keep the limit of a day and language (posts.ts:5).
THEOREM DraftsLimited == RadarSpec => []DailyLimit
<1>1. DailyInv => DailyLimit  BY DEF DailyInv, DailyLimit, DraftsOf
<1> QED  BY <1>1, InvHolds, PTL

-----------------------------------------------------------------------------
(* The last of some days *)

LEMMA GreatestDay ==
    ASSUME NEW n \in Int, NEW S, S \subseteq -1 .. n, S # {}
    PROVE  \E d \in S : \A o \in S : o <= d
<1> DEFINE T == {k \in Nat : \E d \in S : k = n - d}
<1>1. T \subseteq Nat  OBVIOUS
<1>2. T # {}
  <2>1. PICK d \in S : TRUE  OBVIOUS
  <2>2. n - d \in Nat  OBVIOUS
  <2> QED  BY <2>2
<1> DEFINE R == OpToRel(<, Nat)
<1>3. PICK x \in T : \A y \in T : ~ (<<y, x>> \in R)
  <2>1. IsWellFoundedOn(R, Nat)  BY NatLessThanWellFounded
  <2> HIDE DEF T, R
  <2> QED  BY <2>1, <1>1, <1>2, WFMin
<1>4. \A y \in T : ~(y < x)
  <2>1. \A y \in T : <<y, x>> \in Nat \X Nat  BY <1>1
  <2>2. \A y \in T : y < x => <<y, x>> \in R  BY <2>1 DEF OpToRel
  <2> QED  BY <2>2, <1>3
<1>5. PICK d \in S : x = n - d  OBVIOUS
<1>6. \A o \in S : n - o \in T  OBVIOUS
<1>7. \A o \in S : o <= d  BY <1>4, <1>5, <1>6
<1> QED  BY <1>7

-----------------------------------------------------------------------------
(* Reports: the inductive invariant *)

ReportsTyped ==
    /\ day \in 0 .. LastDay /\ draft.month \in MonthsBegun \cup {never}
    /\ written \in [News -> -1 .. LastDay] /\ happened \in [News -> -1 .. LastDay]
    /\ reacted \in [Watched -> -1 .. LastDay]
    /\ asked \subseteq MonthsBegun
    /\ factual \subseteq Present /\ draft.events \subseteq factual
    /\ \A e \in Present : 0 <= happened[e] /\ happened[e] <= written[e] /\ written[e] <= day
    /\ DOMAIN report = MonthsBegun

\* A month is over when its report is asked for.
AskedInTime ==
    /\ \A m \in asked : FirstDay(m + 1) <= day
    /\ draft.month # never => FirstDay(draft.month + 1) <= day

\* What was written in the month and the job has not taken, it has noted as unfit.
DraftTrue ==
    draft.month # never =>
        \A e \in Present : InMonth(draft.month, written[e]) => e \in draft.events \cup draft.unfit

\* A report tells of what is written, and what is written stays.
Tells(r) ==
    /\ r.top \cup r.prices \subseteq Present
    /\ \A t \in DOMAIN r.lines : r.lines[t] \subseteq Present

Agrees(r, m) ==
    /\ \A t \in r.silent \cap DOMAIN r.lines : \A e \in r.lines[t] :
           happened[e] < FirstDay(m) - SilenceDays
    /\ \A e \in r.prices : About[e] \in DOMAIN r.lines /\ r.lines[About[e]] = {} =>
           written[e] >= FirstDay(m + 1) \/ e \in r.unfit
    /\ \A e \in r.top : About[e] \in DOMAIN r.lines => e \in r.lines[About[e]]

ReportTrue == \A m \in MonthsBegun : Tells(report[m]) /\ Agrees(report[m], m)
ReportsInv == ReportsTyped /\ AskedInTime /\ DraftTrue /\ ReportTrue

LEMMA MonthDays ==
    ASSUME ReportsAssumption
    PROVE  /\ \A m \in Int : FirstDay(m) \in Int
           /\ \A m \in MonthsBegun : m \in Nat /\ m # never
           /\ SilenceDays \in Nat /\ LastDay \in Nat
           /\ \A d \in Nat : d \div DaysInMonth \in Nat
<1>1. \A d \in Nat : d \div DaysInMonth \in Nat  BY DEF ReportsAssumption
<1>2. LastDay \div DaysInMonth \in Nat  BY <1>1 DEF ReportsAssumption
<1>3. \A m \in MonthsBegun : m \in Nat /\ m # never  BY <1>2 DEF MonthsBegun, never
<1>4. \A m \in Int : FirstDay(m) \in Int  BY DEF ReportsAssumption, FirstDay
<1> QED  BY <1>1, <1>3, <1>4 DEF ReportsAssumption

\* On the first of a month the days before it make whole months.
LEMMA WholeMonths ==
    ASSUME ReportsAssumption, NEW d \in Nat, d % DaysInMonth = 0
    PROVE  FirstDay((d \div DaysInMonth - 1) + 1) = d
<1>1. DaysInMonth \in Nat /\ DaysInMonth > 0  BY DEF ReportsAssumption
<1>2. d = DaysInMonth * (d \div DaysInMonth) + (d % DaysInMonth)  BY <1>1, Z3
<1>3. d \div DaysInMonth \in Nat  BY <1>1
<1>4. d = (d \div DaysInMonth) * DaysInMonth  BY <1>1, <1>2, <1>3
<1>5. (d \div DaysInMonth - 1) + 1 = d \div DaysInMonth  BY <1>3
<1> QED  BY <1>4, <1>5 DEF FirstDay

-----------------------------------------------------------------------------
(* What is said once stays true *)

LEMMA ReportStays ==
    ASSUME \A e \in Present : written'[e] = written[e] /\ happened'[e] = happened[e] /\ e \in Present',
           NEW r, NEW m, Tells(r), Agrees(r, m)
    PROVE  Tells(r)' /\ Agrees(r, m)'
<1>1. Tells(r)'  BY DEF Tells
<1>2. \A t \in DOMAIN r.lines : \A e \in r.lines[t] : happened'[e] = happened[e]  BY DEF Tells
<1>3. \A e \in r.prices : written'[e] = written[e]  BY DEF Tells
<1> QED  BY <1>1, <1>2, <1>3 DEF Agrees

LEMMA ReportsStay ==
    ASSUME \A e \in Present : written'[e] = written[e] /\ happened'[e] = happened[e] /\ e \in Present',
           ReportTrue, report' = report
    PROVE  ReportTrue'
<1> SUFFICES ASSUME NEW m \in MonthsBegun PROVE (Tells(report[m]) /\ Agrees(report[m], m))'
    BY DEF ReportTrue, MonthsBegun
<1>1. PICK r : r = report[m]  OBVIOUS
<1>2. Tells(r) /\ Agrees(r, m)  BY <1>1 DEF ReportTrue
<1>3. Tells(r)' /\ Agrees(r, m)'  BY <1>2, ReportStays
<1> QED  BY <1>1, <1>3 DEF Tells, Agrees

\* A step that writes no news, and no report.
LEMMA TablesStay ==
    ASSUME ReportsInv, day' = day, draft' = draft, asked' = asked, report' = report,
           written' = written, happened' = happened, factual \subseteq factual', factual' \subseteq Present,
           reacted' \in [Watched -> -1 .. LastDay]
    PROVE  ReportsInv'
<1>1. Present' = Present  BY DEF Present
<1>2. ReportsTyped'  BY <1>1 DEF ReportsInv, ReportsTyped, MonthsBegun, never
<1>3. AskedInTime'  BY DEF ReportsInv, AskedInTime, FirstDay, never
<1>4. DraftTrue'  BY <1>1 DEF ReportsInv, DraftTrue, InMonth, FirstDay, never
<1>5. ReportTrue'  BY <1>1, ReportsStay DEF ReportsInv
<1> QED  BY <1>2, <1>3, <1>4, <1>5 DEF ReportsInv

-----------------------------------------------------------------------------
(* Reports: one lemma for each action *)

LEMMA ReportsInitInv == ASSUME ReportsAssumption, ReportsInit PROVE ReportsInv
<1>1. Present = {}  BY DEF ReportsInit, Present, never
<1>2. ReportsTyped
  BY <1>1 DEF ReportsInit, ReportsTyped, ReportsAssumption, NoDraft, never, MonthsBegun
<1>3. AskedInTime /\ DraftTrue  BY DEF ReportsInit, AskedInTime, DraftTrue, NoDraft
<1>4. ReportTrue
  <2> SUFFICES ASSUME NEW m \in MonthsBegun PROVE Tells(NoReport) /\ Agrees(NoReport, m)
      BY DEF ReportTrue, ReportsInit
  <2>1. /\ NoReport.top = {} /\ NoReport.prices = {} /\ NoReport.silent = {}
        /\ DOMAIN NoReport.lines = {}
    BY DEF NoReport
  <2> QED  BY <2>1 DEF Tells, Agrees
<1> QED  BY <1>2, <1>3, <1>4 DEF ReportsInv

\* The month before this one, if this is the first of one.
LEMMA MonthBefore ==
    ASSUME ReportsAssumption, NEW d \in 1 .. LastDay, d % DaysInMonth = 0
    PROVE  /\ d \div DaysInMonth - 1 \in MonthsBegun
           /\ FirstDay((d \div DaysInMonth - 1) + 1) = d
<1>1. DaysInMonth \in Nat /\ DaysInMonth > 0 /\ d \in Nat /\ LastDay \in Nat /\ d <= LastDay
  BY DEF ReportsAssumption
<1>2. d >= DaysInMonth  BY <1>1
<1>3. d \div DaysInMonth \in Nat /\ d \div DaysInMonth >= 1  BY <1>1, <1>2
<1>4. LastDay \div DaysInMonth \in Nat /\ d \div DaysInMonth <= LastDay \div DaysInMonth  BY <1>1
<1> QED  BY <1>1, <1>3, <1>4, WholeMonths DEF MonthsBegun

LEMMA NextDayReports == ASSUME ReportsAssumption, ReportsInv, NextDay PROVE ReportsInv'
<1> USE DEF ReportsInv
<1>1. day \in Nat /\ day' = day + 1 /\ day' \in 1 .. LastDay
  BY MonthDays DEF NextDay, ReportsTyped
<1>2. Present' = Present  BY DEF NextDay, tables, Present
<1>3. \A m \in asked' : m \in MonthsBegun /\ (m \in asked \/ FirstDay(m + 1) = day')
  <2>1. CASE day' % DaysInMonth = 0
    <3>1. day' \div DaysInMonth - 1 \in MonthsBegun /\ FirstDay((day' \div DaysInMonth - 1) + 1) = day'
      BY <1>1, <2>1, MonthBefore
    <3> QED  BY <2>1, <3>1 DEF NextDay, ReportsTyped
  <2>2. CASE day' % DaysInMonth # 0  BY <2>2 DEF NextDay, ReportsTyped
  <2> QED  BY <2>1, <2>2
<1>4. ReportsTyped'
  <2>1. \A e \in Present' : 0 <= happened'[e] /\ happened'[e] <= written'[e] /\ written'[e] <= day'
    BY <1>1, <1>2 DEF NextDay, tables, ReportsTyped, Present
  <2> QED  BY <1>1, <1>2, <1>3, <2>1 DEF NextDay, tables, ReportsTyped, MonthsBegun, never
<1>5. \A m \in MonthsBegun : FirstDay(m + 1) \in Int  BY MonthDays
<1>6. AskedInTime'
  <2>1. \A m \in asked' : FirstDay(m + 1) <= day'
    BY <1>1, <1>3, <1>5 DEF AskedInTime
  <2>2. draft'.month # never => FirstDay(draft'.month + 1) <= day'
    BY <1>1, <1>5 DEF AskedInTime, ReportsTyped, NextDay
  <2>3. \A m : FirstDay(m)' = FirstDay(m)  BY DEF FirstDay
  <2> QED  BY <2>1, <2>2 DEF AskedInTime, FirstDay, never
<1>7. DraftTrue'  BY <1>2 DEF DraftTrue, NextDay, tables, InMonth, FirstDay, never
<1>8. ReportTrue'  BY <1>2, ReportsStay DEF NextDay, tables
<1> QED  BY <1>4, <1>6, <1>7, <1>8

LEMMA WriteNewsReports ==
    ASSUME ReportsAssumption, ReportsInv, NEW e \in News, WriteNews(e) PROVE ReportsInv'
<1> USE DEF ReportsInv
<1>1. PICK lag \in 0 .. MaxLag :
          lag <= day /\ written' = [written EXCEPT ![e] = day] /\ happened' = [happened EXCEPT ![e] = day - lag]
  BY DEF WriteNews
<1>2. day \in 0 .. LastDay /\ lag \in Nat /\ day - lag \in 0 .. LastDay /\ day - lag <= day
  BY <1>1, MonthDays DEF ReportsTyped, ReportsAssumption
<1>3. /\ written' \in [News -> -1 .. LastDay] /\ happened' \in [News -> -1 .. LastDay]
      /\ written'[e] = day /\ happened'[e] = day - lag
      /\ \A f \in News \ {e} : written'[f] = written[f] /\ happened'[f] = happened[f]
  BY <1>1, <1>2 DEF ReportsTyped
<1>4. Present' = Present \cup {e} /\ e \notin Present  BY <1>2, <1>3 DEF Present, never, WriteNews
<1>5. \A f \in Present : written'[f] = written[f] /\ happened'[f] = happened[f] /\ f \in Present' /\ f # e
  BY <1>3, <1>4 DEF Present
<1>6. ReportsTyped'
  <2>1. \A f \in Present' : 0 <= happened'[f] /\ happened'[f] <= written'[f] /\ written'[f] <= day
    BY <1>2, <1>3, <1>4, <1>5 DEF ReportsTyped
  <2> QED  BY <2>1, <1>3, <1>4 DEF WriteNews, jobs, ReportsTyped, MonthsBegun, never
<1>7. AskedInTime'  BY DEF WriteNews, jobs, AskedInTime, FirstDay, never
<1>8. DraftTrue'
  <2> SUFFICES ASSUME draft.month # never, NEW f \in Present', InMonth(draft.month, written'[f])
               PROVE  f \in draft.events \cup draft.unfit
      BY DEF WriteNews, jobs, DraftTrue, InMonth, FirstDay, never
  <2>1. draft.month \in Int /\ FirstDay(draft.month + 1) \in Int
    BY MonthDays DEF ReportsTyped
  <2>2. f # e  BY <2>1, <1>2, <1>3 DEF AskedInTime, InMonth
  <2> QED  BY <2>2, <1>4, <1>5 DEF DraftTrue
<1>9. ReportTrue'  BY <1>5, ReportsStay DEF WriteNews, jobs
<1> QED  BY <1>6, <1>7, <1>8, <1>9

LEMMA ReadEventsReports ==
    ASSUME ReportsAssumption, ReportsInv, NEW m \in MonthsBegun, ReadEvents(m) PROVE ReportsInv'
<1> USE DEF ReportsInv
<1>1. PICK events : events = MonthlyEvents(m)  OBVIOUS
<1>2. PICK unfit : unfit = {e \in Present : e \notin factual \/ About[e] \in resting}  OBVIOUS
<1>3. draft' = [month |-> m, events |-> events, unfit |-> unfit] /\ m # never
  BY <1>1, <1>2, MonthDays DEF ReadEvents
<1>4. draft'.month = m /\ draft'.events = events /\ draft'.unfit = unfit  BY <1>3
<1>5. Present' = Present /\ events \subseteq factual  BY <1>1 DEF ReadEvents, tables, Present, MonthlyEvents
<1>6. ReportsTyped'
  BY <1>4, <1>5 DEF ReadEvents, tables, ReportsTyped, MonthsBegun, never
<1>7. AskedInTime'  BY <1>4 DEF ReadEvents, AskedInTime, FirstDay, never
<1>8. DraftTrue'
  <2> SUFFICES ASSUME NEW e \in Present, InMonth(m, written[e]) PROVE e \in events \cup unfit
      BY <1>4, <1>5 DEF DraftTrue, ReadEvents, tables, InMonth, FirstDay, never
  <2> QED  BY <1>1, <1>2 DEF MonthlyEvents
<1>9. ReportTrue'  BY <1>5, ReportsStay DEF ReadEvents, tables
<1> QED  BY <1>6, <1>7, <1>8, <1>9

LEMMA DropReportReports == ASSUME ReportsAssumption, ReportsInv, DropReport PROVE ReportsInv'
<1> USE DEF ReportsInv
<1>1. draft'.month = never /\ draft'.events = {}  BY DEF DropReport, NoDraft
<1>2. Present' = Present  BY DEF DropReport, tables, Present
<1>3. ReportsTyped'  BY <1>1, <1>2 DEF DropReport, tables, ReportsTyped, MonthsBegun, never
<1>4. AskedInTime'  BY <1>1 DEF DropReport, AskedInTime, FirstDay, never
<1>5. DraftTrue'  BY <1>1 DEF DraftTrue, never
<1>6. ReportTrue'  BY <1>2, ReportsStay DEF DropReport, tables
<1> QED  BY <1>3, <1>4, <1>5, <1>6

\* What was last is no earlier than any of what happened.
LEMMA LastIsLast ==
    ASSUME ReportsAssumption, ReportsTyped, NEW t \in Watched, NEW e \in Present, About[e] = t
    PROVE  LastActivity(t) \in Int /\ happened[e] <= LastActivity(t)
<1> DEFINE days == {happened[f] : f \in {f \in Present : About[f] = t}} \cup {reacted[t]}
<1>1. days \subseteq -1 .. LastDay /\ days # {} /\ happened[e] \in days /\ LastDay \in Int
  BY MonthDays DEF ReportsTyped, Present
<1>2. \E d \in days : \A o \in days : o <= d
  <2> HIDE DEF days
  <2> QED  BY <1>1, GreatestDay
<1>3. LastActivity(t) = CHOOSE d \in days : \A o \in days : o <= d  BY DEF LastActivity
<1> HIDE DEF days
<1>4. LastActivity(t) \in days /\ \A o \in days : o <= LastActivity(t)  BY <1>2, <1>3
<1>5. happened[e] <= LastActivity(t)  BY <1>1, <1>4, Zenon
<1>6. LastActivity(t) \in -1 .. LastDay  BY <1>1, <1>4, Zenon
<1>7. LastActivity(t) \in Int  BY <1>1, <1>6
<1> QED  BY <1>5, <1>7

LEMMA BuildReportReports == ASSUME ReportsAssumption, ReportsInv, BuildReport PROVE ReportsInv'
<1> USE DEF ReportsInv
<1>0. PICK m : m = draft.month  OBVIOUS
<1>1. draft'.month = never /\ draft'.events = {}  BY DEF BuildReport, NoDraft
<1>2. Present' = Present  BY DEF BuildReport, tables, Present
<1>3. m \in MonthsBegun /\ m # never /\ m \in Int  BY <1>0, MonthDays DEF BuildReport, ReportsTyped
<1>4. DOMAIN report' = MonthsBegun  BY DEF BuildReport, ReportsTyped
<1>5. ReportsTyped'  BY <1>1, <1>2, <1>4 DEF BuildReport, tables, ReportsTyped, MonthsBegun, never
<1>6. AskedInTime'  BY <1>1 DEF BuildReport, AskedInTime, FirstDay, never
<1>7. DraftTrue'  BY <1>1 DEF DraftTrue, never
<1>8. ReportTrue'
  <2>1. CASE draft.events = {}  BY <2>1, <1>2, ReportsStay DEF BuildReport, tables
  <2>2. CASE draft.events # {}
    <3>1. PICK top \in selectTopEvents(draft.events), prices \in PriceTables(m) :
              report' = [report EXCEPT ![m] =
                  [made |-> TRUE, top |-> top, lines |-> buildTargetSummaries(draft.events),
                   prices |-> prices, silent |-> DriftedTargets(m), unfit |-> draft.unfit]]
      BY <1>0, <2>2 DEF BuildReport
    <3>2. PICK lines : lines = buildTargetSummaries(draft.events)  OBVIOUS
    <3>3. PICK r : r = [made |-> TRUE, top |-> top, lines |-> lines, prices |-> prices,
                        silent |-> DriftedTargets(m), unfit |-> draft.unfit]
      OBVIOUS
    <3>4. /\ r.top = top /\ r.lines = lines /\ r.prices = prices
          /\ r.silent = DriftedTargets(m) /\ r.unfit = draft.unfit
      BY <3>3
    <3>5. /\ top \subseteq draft.events /\ draft.events \subseteq Present
          /\ prices \subseteq PriceEvents(m) /\ prices \subseteq Present
      BY DEF selectTopEvents, PriceTables, PriceEvents, ReportsTyped
    <3>6. /\ DOMAIN lines = Alive \ resting
          /\ \A t \in Alive \ resting : lines[t] = {e \in draft.events : About[e] = t}
      BY <3>2 DEF buildTargetSummaries
    <3>7. Tells(r)  BY <3>4, <3>5, <3>6 DEF Tells
    <3>8. Agrees(r, m)
      <4>1. ASSUME NEW t \in r.silent \cap DOMAIN r.lines, NEW e \in r.lines[t]
            PROVE  happened[e] < FirstDay(m) - SilenceDays
        <5>1. t \in Watched /\ e \in Present /\ About[e] = t  BY <4>1, <3>4, <3>5, <3>6 DEF Alive
        <5>2. LastActivity(t) \in Int /\ happened[e] <= LastActivity(t)  BY <5>1, LastIsLast
        <5>3. happened[e] \in Nat  BY <5>1 DEF ReportsTyped, Present
        <5>4. LastActivity(t) # never  BY <5>2, <5>3 DEF never
        <5>5. LastActivity(t) < FirstDay(m) - SilenceDays  BY <4>1, <3>4, <5>4 DEF DriftedTargets
        <5>6. FirstDay(m) \in Int /\ SilenceDays \in Nat  BY <1>3, MonthDays
        <5> QED  BY <5>2, <5>3, <5>5, <5>6
      <4>2. ASSUME NEW e \in r.prices, About[e] \in DOMAIN r.lines, r.lines[About[e]] = {}
            PROVE  written[e] >= FirstDay(m + 1) \/ e \in r.unfit
        <5>1. e \in Present /\ InMonth(m, happened[e])  BY <3>4, <3>5 DEF PriceEvents
        <5>2. e \notin draft.events  BY <4>2, <3>4, <3>6
        <5>3. ~InMonth(m, written[e]) \/ e \in draft.unfit  BY <1>0, <1>3, <5>1, <5>2 DEF DraftTrue
        <5>4. happened[e] \in Int /\ written[e] \in Int /\ happened[e] <= written[e]
          BY <5>1 DEF ReportsTyped, Present
        <5>5. FirstDay(m) \in Int /\ FirstDay(m + 1) \in Int  BY <1>3, MonthDays
        <5> QED  BY <3>4, <5>1, <5>3, <5>4, <5>5 DEF InMonth
      <4>3. \A e \in r.top : About[e] \in DOMAIN r.lines => e \in r.lines[About[e]]
        BY <3>4, <3>5, <3>6
      <4> QED  BY <4>1, <4>2, <4>3 DEF Agrees
    <3>9. report' = [report EXCEPT ![m] = r]  BY <3>1, <3>2, <3>3
    <3> SUFFICES ASSUME NEW k \in MonthsBegun PROVE (Tells(report[k]) /\ Agrees(report[k], k))'
        BY DEF ReportTrue, MonthsBegun
    <3>10. PICK q : q = report'[k]  OBVIOUS
    <3>11. Tells(q) /\ Agrees(q, k)  BY <3>7, <3>8, <3>9, <3>10 DEF ReportTrue, ReportsTyped
    <3>12. \A e \in Present : written'[e] = written[e] /\ happened'[e] = happened[e] /\ e \in Present'
      BY <1>2 DEF BuildReport, tables
    <3>13. Tells(q)' /\ Agrees(q, k)'  BY <3>11, <3>12, ReportStays
    <3> QED  BY <3>10, <3>13 DEF Tells, Agrees
  <2> QED  BY <2>1, <2>2
<1> QED  BY <1>5, <1>6, <1>7, <1>8

-----------------------------------------------------------------------------
(* Reports: the theorem *)

LEMMA ReportsNextInv == ASSUME ReportsAssumption, ReportsInv, ReportsNext PROVE ReportsInv'
<1>1. ASSUME NEW e \in News, WriteFacts(e) PROVE ReportsInv'
  <2>1. reacted' \in [Watched -> -1 .. LastDay]  BY <1>1 DEF WriteFacts, ReportsInv, ReportsTyped
  <2> QED  BY <1>1, <2>1, TablesStay DEF WriteFacts, jobs, ReportsInv, ReportsTyped
<1>2. ASSUME NEW e \in News, React(e) PROVE ReportsInv'
  <2>1. reacted' \in [Watched -> -1 .. LastDay]
    <3>1. day \in -1 .. LastDay  BY DEF ReportsInv, ReportsTyped
    <3> QED  BY <1>2, <3>1 DEF React, ReportsInv, ReportsTyped
  <2> QED  BY <1>2, <2>1, TablesStay DEF React, jobs, ReportsInv, ReportsTyped
<1>3. ASSUME NEW t \in Watched, RestTarget(t) \/ DeleteTarget(t) PROVE ReportsInv'
  BY <1>3, TablesStay DEF RestTarget, DeleteTarget, jobs, ReportsInv, ReportsTyped
<1> QED
  BY <1>1, <1>2, <1>3, NextDayReports, WriteNewsReports, ReadEventsReports, BuildReportReports,
     DropReportReports DEF ReportsNext

LEMMA ReportsSame == ASSUME ReportsInv, UNCHANGED reportsVars PROVE ReportsInv'
  BY TablesStay DEF reportsVars, ReportsInv, ReportsTyped

\* The parts of a monthly report tell one story (monthly.ts:270, :472, :840),
\* whatever is written, rests or is deleted while they are read one by one.
THEOREM ReportsTellOneStory == ASSUME ReportsAssumption PROVE ReportsSpec => []OneStory
<1>1. ReportsInit => ReportsInv  BY ReportsInitInv
<1>2. ReportsInv /\ [ReportsNext]_reportsVars => ReportsInv'  BY ReportsNextInv, ReportsSame
<1>3. ReportsInv => OneStory
  BY DEF ReportsInv, ReportTrue, Agrees, OneStory
<1> QED  BY <1>1, <1>2, <1>3, PTL DEF ReportsSpec

-----------------------------------------------------------------------------
(* Piles of units: one pile for each caller *)

Pile(h, top) == {unit \in Callers \X (1 .. top) : unit[2] <= h[unit[1]]}
Beside(h, top, c) == {unit \in Callers \X (1 .. top) : unit[1] # c /\ unit[2] <= h[unit[1]]}

LEMMA PilesFinite ==
    ASSUME SpendingAssumption, NEW top \in Nat, NEW S, S \subseteq Callers \X (1 .. top)
    PROVE  /\ IsFiniteSet(S) /\ Cardinality(S) \in Nat
           /\ Cardinality(S) <= Cardinality(Callers) * top
           /\ Cardinality(Callers) \in Nat
<1>1. IsFiniteSet(Callers) /\ IsFiniteSet(1 .. top) /\ Cardinality(1 .. top) = top
  BY FS_Interval, SpendingAssumption DEF SpendingAssumption
<1>2. IsFiniteSet(Callers \X (1 .. top)) /\ Cardinality(Callers \X (1 .. top)) = Cardinality(Callers) * top
  BY <1>1, FS_Product
<1>3. IsFiniteSet(S) /\ Cardinality(S) <= Cardinality(Callers \X (1 .. top))  BY <1>2, FS_Subset
<1>4. Cardinality(S) \in Nat /\ Cardinality(Callers) \in Nat  BY <1>1, <1>3, FS_CardinalityType
<1> QED  BY <1>2, <1>3, <1>4

LEMMA PileHigh ==
    ASSUME SpendingAssumption, NEW top \in Nat, NEW h, NEW c \in Callers, h[c] \in 0 .. top
    PROVE  Cardinality(Pile(h, top)) = Cardinality(Beside(h, top, c)) + h[c]
<1> DEFINE Own == {c} \X (1 .. h[c])
<1>1. Pile(h, top) = Beside(h, top, c) \cup Own
  <2>1. ASSUME NEW unit PROVE unit \in Pile(h, top) <=> unit \in Beside(h, top, c) \cup Own
    <3>1. CASE unit \in Callers \X (1 .. top)
      BY <3>1 DEF Pile, Beside
    <3>2. CASE unit \notin Callers \X (1 .. top)
      <4>1. Own \subseteq Callers \X (1 .. top)  OBVIOUS
      <4> QED  BY <3>2, <4>1 DEF Pile, Beside
    <3> QED  BY <3>1, <3>2
  <2> QED  BY <2>1, Zenon
<1>2. IsFiniteSet({c}) /\ Cardinality({c}) = 1  BY FS_Singleton
<1>3. IsFiniteSet(1 .. h[c]) /\ Cardinality(1 .. h[c]) = h[c]
  <2>1. PICK n \in Nat : n = h[c]  OBVIOUS
  <2>2. IsFiniteSet(1 .. n) /\ Cardinality(1 .. n) = n  BY FS_Interval
  <2> QED  BY <2>1, <2>2
<1>4. IsFiniteSet(Own) /\ Cardinality(Own) = h[c]
  <2>1. IsFiniteSet(Own) /\ Cardinality(Own) = 1 * h[c]  BY <1>2, <1>3, FS_Product
  <2> QED  BY <2>1
<1>5. IsFiniteSet(Beside(h, top, c))  BY PilesFinite DEF Beside
<1>6. Beside(h, top, c) \cap Own = {}  BY DEF Beside
<1> HIDE DEF Own
<1>7. Cardinality(Beside(h, top, c) \cup Own) = Cardinality(Beside(h, top, c)) + Cardinality(Own)
                                                - Cardinality(Beside(h, top, c) \cap Own)
  BY <1>4, <1>5, FS_Union
<1>8. Cardinality({}) = 0  BY FS_EmptySet
<1>9. Cardinality(Beside(h, top, c)) \in Nat  BY <1>5, FS_CardinalityType
<1>10. Cardinality(Beside(h, top, c) \cup Own) = Cardinality(Beside(h, top, c)) + h[c] - 0
  BY <1>4, <1>6, <1>7, <1>8
<1>11. h[c] \in Nat  OBVIOUS
<1> QED  BY <1>1, <1>9, <1>10, <1>11

\* One pile changes: the units change by as much.
LEMMA PileChanges ==
    ASSUME SpendingAssumption, NEW top \in Nat, NEW c \in Callers,
           NEW h \in [Callers -> 0 .. top], NEW g \in [Callers -> 0 .. top],
           \A d \in Callers : d # c => g[d] = h[d]
    PROVE  /\ Cardinality(Pile(h, top)) \in Nat /\ Cardinality(Pile(g, top)) \in Nat
           /\ Cardinality(Pile(g, top)) = (Cardinality(Pile(h, top)) - h[c]) + g[c]
<1>1. h[c] \in 0 .. top /\ g[c] \in 0 .. top  OBVIOUS
<1>2. Cardinality(Pile(h, top)) = Cardinality(Beside(h, top, c)) + h[c]  BY <1>1, PileHigh
<1>3. Cardinality(Pile(g, top)) = Cardinality(Beside(g, top, c)) + g[c]  BY <1>1, PileHigh
<1>4. Beside(g, top, c) = Beside(h, top, c)  BY DEF Beside
<1>5. Cardinality(Beside(h, top, c)) \in Nat  BY PilesFinite DEF Beside
<1> QED  BY <1>1, <1>2, <1>3, <1>4, <1>5

-----------------------------------------------------------------------------
(* Spending: the inductive invariant *)

Calls == [op: {"idle", "call", "record", "check"}, kind: Kinds,
          attempt: 0 .. MaxAttempts, cost: 0 .. MaxPrice, usable: BOOLEAN]

\* What a caller may still spend without asking the guard again.
MoreToCome(row) == IF row.attempt < MaxAttempts THEN MaxPrice ELSE 0
Owes(row) ==
    IF row.op = "idle" THEN 0
    ELSE (IF row.op = "call" THEN MaxPrice ELSE row.cost) + MoreToCome(row)

Costs == [c \in Callers |-> call[c].cost]
Debts == [c \in Callers |-> Owes(call[c])]
Twice == MaxAttempts * MaxPrice
Room == Cardinality(Callers) * MaxAttempts * MaxPrice
Debt == Cardinality(Pile(Debts, Twice))

\* Only an answer not yet in the books has a cost.
Sensible(row) ==
    /\ row.op # "record" => row.cost = 0
    /\ row.op # "idle" => row.attempt >= 1

SpendingTyped == SpendingTypeOK /\ \A c \in Callers : Sensible(call[c])

\* What counts as spent today is in today's rows or in hand; and those rows, with
\* all that may still come of calls the guard let pass, keep to the limit.
WithinRoom ==
    unrecorded = 0 /\ ~unasked =>
        /\ paidToday <= recorded + Cardinality(InHand)
        /\ recorded + Debt < Cap + Room

SpendingInv == SpendingTyped /\ BooksAgree /\ WithinRoom

LEMMA RoomIs ==
    ASSUME SpendingAssumption
    PROVE  /\ MaxPrice \in Nat /\ MaxPrice > 0 /\ Cap \in Nat /\ MaxAttempts = 2 /\ Twice \in Nat /\ Twice = 2 * MaxPrice
           /\ Room \in Nat /\ Room > 0 /\ Cardinality(Callers) * Twice = Room
<1>1. MaxPrice \in Nat /\ MaxPrice > 0 /\ Cap \in Nat /\ MaxAttempts = 2 /\ Twice \in Nat /\ Twice = 2 * MaxPrice
  BY DEF SpendingAssumption, MaxAttempts, Twice
<1>2. Cardinality(Callers) \in Nat /\ Cardinality(Callers) # 0
  BY FS_CardinalityType, FS_EmptySet DEF SpendingAssumption
<1>3. PICK n \in Nat : n = Cardinality(Callers) /\ n > 0  BY <1>2
<1>4. n * Twice = (n * 2) * MaxPrice  BY <1>1, Z3
<1>5. (n * 2) * MaxPrice \in Nat /\ (n * 2) * MaxPrice > 0  BY <1>1, <1>3
<1> QED  BY <1>1, <1>3, <1>4, <1>5 DEF Room

LEMMA OwesTyped ==
    ASSUME SpendingAssumption, NEW row \in Calls
    PROVE  Owes(row) \in 0 .. Twice /\ (Sensible(row) => row.cost <= Owes(row))
  BY RoomIs DEF Calls, Owes, MoreToCome, Sensible

LEMMA CountsTyped ==
    ASSUME SpendingAssumption, SpendingTyped
    PROVE  /\ Costs \in [Callers -> 0 .. MaxPrice] /\ Debts \in [Callers -> 0 .. Twice]
           /\ InHand = Pile(Costs, MaxPrice)
           /\ Cardinality(InHand) \in Nat /\ Debt \in Nat /\ Debt <= Room
           /\ Cardinality(InHand) <= Debt
<1>1. \A c \in Callers : call[c] \in Calls  BY DEF SpendingTyped, SpendingTypeOK, Calls
<1>2. Costs \in [Callers -> 0 .. MaxPrice]  BY <1>1 DEF Costs, Calls
<1>3. Debts \in [Callers -> 0 .. Twice]  BY <1>1, OwesTyped DEF Debts
<1>4. InHand = Pile(Costs, MaxPrice)  BY DEF InHand, Pile, Costs
<1>5. /\ Pile(Debts, Twice) \subseteq Callers \X (1 .. Twice)
      /\ Pile(Costs, MaxPrice) \subseteq Callers \X (1 .. MaxPrice)
  BY DEF Pile
<1>6. IsFiniteSet(Pile(Debts, Twice)) /\ Debt \in Nat /\ Debt <= Room
  BY <1>5, RoomIs, PilesFinite DEF Debt
<1>7. Cardinality(InHand) \in Nat  BY <1>4, <1>5, RoomIs, PilesFinite
<1>8. Pile(Costs, MaxPrice) \subseteq Pile(Debts, Twice)
  <2> SUFFICES ASSUME NEW unit \in Pile(Costs, MaxPrice) PROVE unit \in Pile(Debts, Twice)
      OBVIOUS
  <2>1. unit \in Callers \X (1 .. MaxPrice) /\ unit[1] \in Callers /\ unit[2] <= Costs[unit[1]]  BY DEF Pile
  <2>2. PICK c \in Callers : c = unit[1]  BY <2>1
  <2>3. Costs[c] = call[c].cost /\ Debts[c] = Owes(call[c]) /\ call[c].cost <= Owes(call[c])
    BY <1>1, OwesTyped DEF Costs, Debts, SpendingTyped
  <2>4. unit[2] \in Nat /\ Costs[c] \in Nat /\ Debts[c] \in Nat  BY <1>2, <1>3, <2>1
  <2>5. unit[2] <= Debts[c]  BY <2>1, <2>2, <2>3, <2>4
  <2>6. unit \in Callers \X (1 .. Twice)  BY <2>1, RoomIs
  <2> QED  BY <2>2, <2>5, <2>6 DEF Pile
<1>9. Cardinality(InHand) <= Debt  BY <1>4, <1>6, <1>8, FS_Subset DEF Debt
<1> QED  BY <1>2, <1>3, <1>4, <1>6, <1>7, <1>9

\* A caller's call becomes another one.
LEMMA CountsChange ==
    ASSUME SpendingAssumption, SpendingTyped, NEW c \in Callers, NEW row \in Calls, Set(c, row)
    PROVE  /\ Cardinality(InHand)' = (Cardinality(InHand) - call[c].cost) + row.cost
           /\ Debt' = (Debt - Owes(call[c])) + Owes(row)
<1>1. /\ Costs \in [Callers -> 0 .. MaxPrice] /\ Debts \in [Callers -> 0 .. Twice]
      /\ InHand = Pile(Costs, MaxPrice)
  BY CountsTyped
<1>2. call' = [call EXCEPT ![c] = row] /\ call \in [Callers -> Calls]
  BY DEF Set, SpendingTyped, SpendingTypeOK, Calls
<1>3. PICK costs : costs = Costs'  OBVIOUS
<1>4. PICK debts : debts = Debts'  OBVIOUS
<1>5. costs = [Costs EXCEPT ![c] = row.cost]  BY <1>2, <1>3 DEF Costs
<1>6. debts = [Debts EXCEPT ![c] = Owes(row)]
  <2>1. debts = [d \in Callers |-> Owes(call'[d])]  BY <1>4 DEF Debts, Owes, MoreToCome, MaxAttempts
  <2>2. \A d \in Callers : call'[d] = IF d = c THEN row ELSE call[d]  BY <1>2
  <2>3. \A d \in Callers : debts[d] = IF d = c THEN Owes(row) ELSE Debts[d]  BY <2>1, <2>2 DEF Debts
  <2> QED  BY <2>1, <2>3 DEF Debts
<1>7. InHand' = Pile(costs, MaxPrice)  BY <1>3 DEF InHand, Pile, Costs
<1>8. Debt' = Cardinality(Pile(debts, Twice))  BY <1>4 DEF Debt, Pile, Twice, MaxAttempts
<1>9. row.cost \in 0 .. MaxPrice /\ Owes(row) \in 0 .. Twice  BY OwesTyped DEF Calls
<1>10. Costs[c] = call[c].cost /\ Debts[c] = Owes(call[c])  BY DEF Costs, Debts
<1>11. Cardinality(Pile(costs, MaxPrice)) = (Cardinality(Pile(Costs, MaxPrice)) - Costs[c]) + row.cost
  <2>1. PICK top \in Nat : top = MaxPrice  BY RoomIs
  <2>2. PICK h \in [Callers -> 0 .. top] : h = Costs  BY <1>1, <2>1
  <2>3. PICK g \in [Callers -> 0 .. top] : g = costs  BY <1>5, <1>9, <2>1, <2>2
  <2>4. (\A d \in Callers : d # c => g[d] = h[d]) /\ g[c] = row.cost  BY <1>5, <2>2, <2>3
  <2>5. Cardinality(Pile(g, top)) = (Cardinality(Pile(h, top)) - h[c]) + g[c]  BY <2>4, PileChanges
  <2> QED  BY <2>1, <2>2, <2>3, <2>4, <2>5
<1>12. Cardinality(Pile(debts, Twice)) = (Cardinality(Pile(Debts, Twice)) - Debts[c]) + Owes(row)
  <2>1. PICK top \in Nat : top = Twice  BY RoomIs
  <2>2. PICK h \in [Callers -> 0 .. top] : h = Debts  BY <1>1, <2>1
  <2>3. PICK g \in [Callers -> 0 .. top] : g = debts  BY <1>6, <1>9, <2>1, <2>2
  <2>4. (\A d \in Callers : d # c => g[d] = h[d]) /\ g[c] = Owes(row)  BY <1>6, <2>2, <2>3
  <2>5. Cardinality(Pile(g, top)) = (Cardinality(Pile(h, top)) - h[c]) + g[c]  BY <2>4, PileChanges
  <2> QED  BY <2>1, <2>2, <2>3, <2>4, <2>5
<1>13. Cardinality(InHand)' = Cardinality(InHand')  OBVIOUS
<1> QED  BY <1>1, <1>7, <1>8, <1>10, <1>11, <1>12, <1>13 DEF Debt

-----------------------------------------------------------------------------
(* Spending: one lemma for each action *)

LEMMA SpendingInitInv == ASSUME SpendingAssumption, SpendingInit PROVE SpendingInv
<1>1. NoCall \in Calls /\ Sensible(NoCall) /\ NoCall.cost = 0 /\ Owes(NoCall) = 0
  BY RoomIs DEF NoCall, Calls, Kinds, Sensible, Owes
<1>2. SpendingTyped
  <2>1. call \in [Callers -> Calls] /\ \A c \in Callers : Sensible(call[c])  BY <1>1 DEF SpendingInit
  <2>2. midnights \in 0 .. MaxMidnights  BY DEF SpendingInit, SpendingAssumption
  <2> QED  BY <2>1, <2>2 DEF SpendingInit, SpendingTyped, SpendingTypeOK, Calls
<1>3. \A c \in Callers : Costs[c] = 0 /\ Debts[c] = 0  BY <1>1 DEF SpendingInit, Costs, Debts
<1>4. Pile(Costs, MaxPrice) = {} /\ Pile(Debts, Twice) = {}
  <2>1. \A n \in Nat : \A k \in 1 .. n : ~(k <= 0)  OBVIOUS
  <2>2. MaxPrice \in Nat /\ Twice \in Nat  BY RoomIs
  <2> QED  BY <1>3, <2>1, <2>2 DEF Pile
<1>5. Cardinality(InHand) = 0 /\ Debt = 0  BY <1>2, <1>4, CountsTyped, FS_EmptySet DEF Debt
<1> QED  BY <1>2, <1>5, RoomIs DEF SpendingInit, SpendingInv, BooksAgree, WithinRoom

LEMMA MidnightInv == ASSUME SpendingAssumption, SpendingInv, Midnight PROVE SpendingInv'
<1>1. SpendingTyped'
  BY DEF Midnight, SpendingInv, SpendingTyped, SpendingTypeOK, Sensible, Kinds, MaxAttempts
<1>2. Cardinality(InHand)' = Cardinality(InHand) /\ Debt' = Debt
  BY DEF Midnight, InHand, Debt, Pile, Debts, Owes, MoreToCome, Twice, MaxAttempts
<1>3. Cardinality(InHand) \in Nat /\ Debt \in Nat /\ Cap \in Nat /\ Room \in Nat
  BY CountsTyped, RoomIs DEF SpendingInv
<1>4. recorded \in Nat /\ recordedBefore \in Nat /\ unrecorded \in Nat
  BY DEF SpendingInv, SpendingTyped, SpendingTypeOK
<1>5. BooksAgree'  BY <1>2, <1>3, <1>4 DEF Midnight, SpendingInv, BooksAgree
<1>6. WithinRoom'
  <2>1. Room' = Room  BY DEF Room, MaxAttempts
  <2>2. recorded' = 0 /\ paidToday' = 0 /\ unrecorded' = unrecorded /\ unasked' = unasked  BY DEF Midnight
  <2>3. unrecorded = 0 /\ ~unasked => Debt < Cap + Room  BY <1>3, <1>4 DEF SpendingInv, WithinRoom
  <2> QED  BY <1>2, <1>3, <2>1, <2>2, <2>3 DEF WithinRoom
<1> QED  BY <1>1, <1>5, <1>6 DEF SpendingInv

\* A step of a caller that keeps the account: what is paid goes to hand, to the
\* books or is lost, and no more is owed than before, unless the guard says so.
LEMMA CallerStep ==
    ASSUME SpendingAssumption, SpendingInv, NEW c \in Callers, NEW row \in Calls, Set(c, row), Sensible(row),
           midnights' = midnights, recordedBefore' = recordedBefore,
           NEW booked \in Nat, recorded' = recorded + booked,
           NEW spent \in Nat, paid' = paid + spent, paidToday' = paidToday + spent,
           NEW lost \in Nat, unrecorded' = unrecorded + lost, unasked' \in BOOLEAN, unasked => unasked',
           call[c].cost + spent = row.cost + booked + lost,
           \/ unasked'
           \/ Owes(row) + booked <= Owes(call[c])
           \/ recorded < Cap /\ booked = 0
    PROVE  SpendingInv'
<1>1. SpendingTyped /\ call \in [Callers -> Calls] /\ call' = [call EXCEPT ![c] = row]
  BY DEF SpendingInv, SpendingTyped, SpendingTypeOK, Calls, Set
<1>2. SpendingTyped'
  <2>1. call' \in [Callers -> Calls] /\ \A d \in Callers : Sensible(call'[d])
    BY <1>1 DEF SpendingTyped
  <2>2. recorded' \in Nat /\ paid' \in Nat /\ paidToday' \in Nat /\ unrecorded' \in Nat
    BY <1>1 DEF SpendingTyped, SpendingTypeOK
  <2> QED  BY <1>1, <2>1, <2>2 DEF SpendingTyped, SpendingTypeOK, Calls, Kinds, MaxAttempts, Sensible
<1>3. /\ Cardinality(InHand)' = (Cardinality(InHand) - call[c].cost) + row.cost
      /\ Debt' = (Debt - Owes(call[c])) + Owes(row)
  BY <1>1, CountsChange
<1>4. /\ Cardinality(InHand) \in Nat /\ Debt \in Nat /\ Debt <= Room
      /\ Cap \in Nat /\ Room \in Nat
  BY <1>1, CountsTyped, RoomIs
<1>5. Debt' <= Room /\ Debt' \in Nat
  <2>1. PICK debts : debts = Debts'  OBVIOUS
  <2>2. Debt' = Cardinality(Pile(debts, Twice))  BY <2>1 DEF Debt, Pile, Twice, MaxAttempts
  <2>3. Pile(debts, Twice) \subseteq Callers \X (1 .. Twice)  BY DEF Pile
  <2> QED  BY <2>2, <2>3, RoomIs, PilesFinite
<1>6. call[c].cost \in Nat /\ row.cost \in Nat /\ Owes(call[c]) \in Nat /\ Owes(row) \in Nat
  <2>1. call[c] \in Calls  BY <1>1
  <2>2. Owes(call[c]) \in 0 .. Twice /\ Owes(row) \in 0 .. Twice /\ Twice \in Nat  BY <2>1, OwesTyped, RoomIs
  <2>3. call[c].cost \in 0 .. MaxPrice /\ row.cost \in 0 .. MaxPrice /\ MaxPrice \in Nat  BY <2>1, RoomIs DEF Calls
  <2> QED  BY <2>2, <2>3
<1>7. recorded \in Nat /\ recordedBefore \in Nat /\ unrecorded \in Nat /\ paid \in Nat /\ paidToday \in Nat
  BY <1>1 DEF SpendingTyped, SpendingTypeOK
<1>8. BooksAgree'
  <2>1. paid = recorded + recordedBefore + unrecorded + Cardinality(InHand)  BY DEF SpendingInv, BooksAgree
  <2>2. paid' = recorded' + recordedBefore' + unrecorded' + Cardinality(InHand)'
    BY <1>3, <1>4, <1>6, <1>7, <2>1
  <2> QED  BY <2>2 DEF BooksAgree
<1>9. WithinRoom'
  <2> SUFFICES ASSUME unrecorded' = 0, ~unasked'
               PROVE  /\ paidToday' <= recorded' + Cardinality(InHand)'
                      /\ recorded' + Debt' < Cap + Room
    <3>1. Room' = Room  BY DEF Room, MaxAttempts
    <3> QED  BY <3>1 DEF WithinRoom
  <2>1. lost = 0 /\ unrecorded = 0  BY <1>7
  <2>2. paidToday <= recorded + Cardinality(InHand) /\ recorded + Debt < Cap + Room
    BY <2>1 DEF SpendingInv, WithinRoom
  <2>3. paidToday' <= recorded' + Cardinality(InHand)'  BY <1>3, <1>4, <1>6, <1>7, <2>1, <2>2
  <2>4. CASE Owes(row) + booked <= Owes(call[c])  BY <1>3, <1>4, <1>6, <1>7, <2>2, <2>3, <2>4
  <2>5. CASE recorded < Cap /\ booked = 0  BY <1>4, <1>5, <1>7, <2>3, <2>5
  <2> QED  BY <2>4, <2>5
<1> QED  BY <1>2, <1>8, <1>9 DEF SpendingInv

LEMMA CallAgain ==
    ASSUME SpendingAssumption, SpendingInv, NEW c \in Callers, call[c].op \in {"call", "check"}
    PROVE  /\ call[c].cost = 0 /\ Again(c) \in Calls /\ Sensible(Again(c)) /\ Again(c).cost = 0
           /\ Owes(Again(c)) <= Owes(call[c])
<1>1. call[c] \in Calls /\ Sensible(call[c])
  BY DEF SpendingInv, SpendingTyped, SpendingTypeOK, Calls
<1>2. call[c].attempt \in {1, 2} /\ call[c].cost = 0  BY <1>1, RoomIs DEF Calls, Sensible
<1>3. MaxPrice \in Nat  BY RoomIs
<1>4. CASE call[c].attempt < MaxAttempts
  <2>1. Again(c) = [call[c] EXCEPT !.op = "call", !.attempt = @ + 1, !.cost = 0, !.usable = FALSE]  BY <1>4 DEF Again
  <2>2. PICK old : old = call[c]  OBVIOUS
  <2>3. PICK new : new = [old EXCEPT !.op = "call", !.attempt = @ + 1, !.cost = 0, !.usable = FALSE]  OBVIOUS
  <2>4. /\ new \in Calls /\ new.op = "call" /\ new.attempt = 2 /\ new.cost = 0
    <3>1. old.attempt = 1 /\ old \in Calls /\ MaxAttempts = 2  BY <1>1, <1>2, <1>4, <2>2, RoomIs
    <3>2. new = [op |-> "call", kind |-> old.kind, attempt |-> 2, cost |-> 0, usable |-> FALSE]
      <4>1. /\ new.op = "call" /\ new.kind = old.kind /\ new.attempt = 2 /\ new.cost = 0 /\ new.usable = FALSE
            /\ DOMAIN new = {"op", "kind", "attempt", "cost", "usable"}
        BY <3>1, <2>3 DEF Calls
      <4> QED  BY <2>3, <3>1, <4>1 DEF Calls
    <3>3. old.kind \in Kinds  BY <3>1 DEF Calls
    <3> QED  BY <1>3, <3>1, <3>2, <3>3 DEF Calls
  <2>5. Owes(new) = MaxPrice  BY <2>4, RoomIs DEF Owes, MoreToCome
  <2>6. Owes(old) >= MaxPrice  BY <1>2, <1>3, <1>4, <2>2, RoomIs DEF Owes, MoreToCome
  <2>7. Again(c) = new  BY <2>1, <2>2, <2>3
  <2>8. Owes(new) <= Owes(old)  BY <1>1, <1>3, <2>2, <2>5, <2>6, OwesTyped, RoomIs
  <2> QED  BY <1>2, <2>2, <2>4, <2>7, <2>8 DEF Sensible
<1>5. CASE ~(call[c].attempt < MaxAttempts)
  <2>1. Again(c) = NoCall  BY <1>5 DEF Again
  <2>2. NoCall \in Calls /\ Sensible(NoCall) /\ NoCall.cost = 0 /\ Owes(NoCall) = 0
    BY <1>3, RoomIs DEF NoCall, Calls, Kinds, Sensible, Owes
  <2>3. Owes(call[c]) \in 0 .. Twice  BY <1>1, OwesTyped
  <2> QED  BY <1>2, <2>1, <2>2, <2>3, RoomIs
<1> QED  BY <1>4, <1>5

LEMMA NoCallIs ==
    ASSUME SpendingAssumption
    PROVE  /\ NoCall \in Calls /\ Sensible(NoCall) /\ NoCall.cost = 0 /\ Owes(NoCall) = 0
  BY RoomIs DEF NoCall, Calls, Kinds, Sensible, Owes

LEMMA CallIs ==
    ASSUME SpendingAssumption, SpendingInv, NEW c \in Callers
    PROVE  /\ call[c] \in Calls /\ Sensible(call[c]) /\ call[c].cost \in Nat /\ Owes(call[c]) \in Nat
           /\ recorded \in Nat /\ paid \in Nat /\ paidToday \in Nat /\ unrecorded \in Nat /\ unasked \in BOOLEAN
<1>1. call[c] \in Calls /\ Sensible(call[c])
  BY DEF SpendingInv, SpendingTyped, SpendingTypeOK, Calls
<1>2. Owes(call[c]) \in 0 .. Twice /\ call[c].cost \in 0 .. MaxPrice  BY <1>1, OwesTyped DEF Calls
<1> QED  BY <1>1, <1>2, RoomIs DEF SpendingInv, SpendingTyped, SpendingTypeOK

LEMMA CallOfKind ==
    ASSUME SpendingAssumption, NEW kind \in Kinds
    PROVE  [op |-> "call", kind |-> kind, attempt |-> 1, cost |-> 0, usable |-> FALSE] \in Calls
<1>1. 1 \in 0 .. MaxAttempts /\ 0 \in 0 .. MaxPrice  BY RoomIs
<1>2. \A first \in 0 .. MaxAttempts, none \in 0 .. MaxPrice :
          [op |-> "call", kind |-> kind, attempt |-> first, cost |-> none, usable |-> FALSE] \in Calls
  BY DEF Calls
<1> QED  BY <1>1, <1>2

\* A call begins, with or without asking.
LEMMA FirstCall ==
    ASSUME SpendingAssumption, NEW kind \in Kinds, NEW row,
           row = [NoCall EXCEPT !.op = "call", !.kind = kind, !.attempt = 1]
    PROVE  row \in Calls /\ Sensible(row) /\ row.cost = 0
<1>1. row.op = "call" /\ row.kind = kind /\ row.attempt = 1 /\ row.cost = 0 /\ row.usable = FALSE
  BY DEF NoCall
<1>2. row = [op |-> "call", kind |-> kind, attempt |-> 1, cost |-> 0, usable |-> FALSE]  BY DEF NoCall
<1>3. 1 \in 0 .. MaxAttempts /\ 0 \in 0 .. MaxPrice  BY RoomIs
<1>4. row \in Calls  BY <1>2, CallOfKind
<1>5. Sensible(row)  BY <1>1 DEF Sensible
<1> QED  BY <1>1, <1>4, <1>5

LEMMA AskGuardInv ==
    ASSUME SpendingAssumption, SpendingInv, NEW c \in Callers, NEW kind \in Kinds, AskGuard(c, kind)
    PROVE  SpendingInv'
<1>1. PICK row : row = [NoCall EXCEPT !.op = "call", !.kind = kind, !.attempt = 1]  OBVIOUS
<1>2. row \in Calls /\ Sensible(row) /\ row.cost = 0 /\ Set(c, row)  BY <1>1, FirstCall DEF AskGuard
<1>3. call[c].cost = 0  BY CallIs DEF AskGuard, Sensible
<1>4. recorded < Cap  BY CallIs, RoomIs DEF AskGuard, isReached
<1>5. /\ recorded' = recorded + 0 /\ paid' = paid + 0 /\ paidToday' = paidToday + 0 /\ unrecorded' = unrecorded + 0
      /\ unasked' = unasked /\ unasked' \in BOOLEAN /\ midnights' = midnights /\ recordedBefore' = recordedBefore
      /\ call[c].cost + 0 = row.cost + 0 + 0
  BY <1>2, <1>3, CallIs DEF AskGuard
<1> QED  BY <1>2, <1>4, <1>5, CallerStep

LEMMA CallUnaskedInv ==
    ASSUME SpendingAssumption, SpendingInv, NEW c \in Callers, NEW kind \in Kinds, CallUnasked(c, kind)
    PROVE  SpendingInv'
<1>1. PICK row : row = [NoCall EXCEPT !.op = "call", !.kind = kind, !.attempt = 1]  OBVIOUS
<1>2. row \in Calls /\ Sensible(row) /\ row.cost = 0 /\ Set(c, row)  BY <1>1, FirstCall DEF CallUnasked
<1>3. call[c].cost = 0  BY CallIs DEF CallUnasked, Sensible
<1>4. /\ recorded' = recorded + 0 /\ paid' = paid + 0 /\ paidToday' = paidToday + 0 /\ unrecorded' = unrecorded + 0
      /\ unasked' /\ unasked' \in BOOLEAN /\ midnights' = midnights /\ recordedBefore' = recordedBefore
      /\ call[c].cost + 0 = row.cost + 0 + 0
  BY <1>2, <1>3, CallIs DEF CallUnasked
<1> QED  BY <1>2, <1>4, CallerStep

LEMMA AnswerInv ==
    ASSUME SpendingAssumption, SpendingInv, NEW c \in Callers, NEW cost \in 0 .. MaxPrice, NEW usable \in BOOLEAN,
           Answer(c, cost, usable)
    PROVE  SpendingInv'
<1>1. PICK old : old = call[c]  OBVIOUS
<1>2. PICK row : row = [old EXCEPT !.op = "record", !.cost = cost, !.usable = usable]  OBVIOUS
<1>3. old \in Calls /\ Sensible(old) /\ old.op = "call" /\ old.cost = 0 /\ cost \in Nat /\ cost <= MaxPrice /\ MaxPrice \in Nat
  BY <1>1, CallIs, RoomIs DEF Answer, Sensible
<1>4. /\ row \in Calls /\ row.op = "record" /\ row.cost = cost /\ row.attempt = old.attempt
  BY <1>2, <1>3 DEF Calls
<1>5. Sensible(row)  BY <1>3, <1>4 DEF Sensible
<1>6. Owes(row) = cost + MoreToCome(row) /\ Owes(old) = MaxPrice + MoreToCome(row) /\ MoreToCome(row) \in Nat
  BY <1>3, <1>4 DEF Owes, MoreToCome
<1>7. Owes(row) + 0 <= Owes(call[c])  BY <1>1, <1>3, <1>6
<1>8. /\ Set(c, row) /\ recorded' = recorded + 0 /\ paid' = paid + cost /\ paidToday' = paidToday + cost
      /\ unrecorded' = unrecorded + 0 /\ unasked' = unasked /\ unasked' \in BOOLEAN
      /\ midnights' = midnights /\ recordedBefore' = recordedBefore
      /\ call[c].cost + cost = row.cost + 0 + 0
  BY <1>1, <1>2, <1>3, <1>4, CallIs DEF Answer, Pay
<1> QED  BY <1>3, <1>4, <1>5, <1>7, <1>8, CallerStep

LEMMA StrangeAnswerInv ==
    ASSUME SpendingAssumption, SpendingInv, NEW c \in Callers, NEW cost \in 0 .. MaxPrice, StrangeAnswer(c, cost)
    PROVE  SpendingInv'
<1>1. PICK row : row = Again(c)  OBVIOUS
<1>2. call[c].cost = 0 /\ row \in Calls /\ Sensible(row) /\ row.cost = 0 /\ Owes(row) <= Owes(call[c])
  BY <1>1, CallAgain DEF StrangeAnswer
<1>3. cost \in Nat /\ Owes(row) + 0 <= Owes(call[c])
  <2>1. Owes(row) \in Nat  BY <1>2, OwesTyped, RoomIs
  <2> QED  BY <1>2, <2>1, RoomIs
<1>4. /\ Set(c, row) /\ recorded' = recorded + 0 /\ paid' = paid + cost /\ paidToday' = paidToday + cost
      /\ unrecorded' = unrecorded + cost /\ unasked' = unasked /\ unasked' \in BOOLEAN
      /\ midnights' = midnights /\ recordedBefore' = recordedBefore
      /\ call[c].cost + cost = row.cost + 0 + cost
  BY <1>1, <1>2, <1>3, CallIs DEF StrangeAnswer, Pay
<1> QED  BY <1>2, <1>3, <1>4, CallerStep

LEMMA NoAnswerInv ==
    ASSUME SpendingAssumption, SpendingInv, NEW c \in Callers, NEW cost \in 0 .. MaxPrice, NoAnswer(c, cost)
    PROVE  SpendingInv'
<1>1. PICK row : row = NoCall  OBVIOUS
<1>2. call[c].cost = 0 /\ row \in Calls /\ Sensible(row) /\ row.cost = 0 /\ Owes(row) + 0 <= Owes(call[c])
  BY <1>1, NoCallIs, CallIs DEF NoAnswer, Sensible
<1>3. cost \in Nat  BY RoomIs
<1>4. /\ Set(c, row) /\ recorded' = recorded + 0 /\ paid' = paid + cost /\ paidToday' = paidToday + cost
      /\ unrecorded' = unrecorded + cost /\ unasked' = unasked /\ unasked' \in BOOLEAN
      /\ midnights' = midnights /\ recordedBefore' = recordedBefore
      /\ call[c].cost + cost = row.cost + 0 + cost
  BY <1>1, <1>2, <1>3, CallIs DEF NoAnswer, Pay
<1> QED  BY <1>2, <1>3, <1>4, CallerStep

LEMMA RecordUsageInv ==
    ASSUME SpendingAssumption, SpendingInv, NEW c \in Callers, recordUsage(c) PROVE SpendingInv'
<1>1. PICK old : old = call[c]  OBVIOUS
<1>2. PICK row : row = [old EXCEPT !.op = "check", !.cost = 0]  OBVIOUS
<1>3. PICK cost \in Nat : cost = old.cost  BY <1>1, CallIs
<1>4. old \in Calls /\ Sensible(old) /\ old.op = "record" /\ MaxPrice \in Nat
  BY <1>1, CallIs, RoomIs DEF recordUsage
<1>5. row \in Calls /\ row.op = "check" /\ row.cost = 0 /\ row.attempt = old.attempt
  <2>1. 0 \in 0 .. MaxPrice  BY <1>4
  <2> QED  BY <1>2, <1>4, <2>1 DEF Calls
<1>6. Sensible(row)  BY <1>4, <1>5 DEF Sensible
<1>7. Owes(row) = 0 + MoreToCome(row) /\ Owes(old) = cost + MoreToCome(row) /\ MoreToCome(row) \in Nat
  BY <1>3, <1>4, <1>5 DEF Owes, MoreToCome
<1>8. Owes(row) + cost <= Owes(call[c])  BY <1>1, <1>3, <1>7
<1>9. /\ Set(c, row) /\ recorded' = recorded + cost /\ paid' = paid + 0 /\ paidToday' = paidToday + 0
      /\ unrecorded' = unrecorded + 0 /\ unasked' = unasked /\ unasked' \in BOOLEAN
      /\ midnights' = midnights /\ recordedBefore' = recordedBefore
      /\ call[c].cost + 0 = row.cost + cost + 0
  BY <1>1, <1>2, <1>3, <1>5, CallIs DEF recordUsage, Booked
<1> QED  BY <1>5, <1>6, <1>8, <1>9, CallerStep

\* What ends a call without a row for it.
LEMMA GiveUp ==
    ASSUME SpendingAssumption, SpendingInv, NEW c \in Callers, Set(c, NoCall),
           unrecorded' = unrecorded + call[c].cost,
           UNCHANGED <<midnights, recorded, recordedBefore, paidToday, paid, unasked>>
    PROVE  SpendingInv'
<1>1. PICK cost \in Nat : cost = call[c].cost  BY CallIs
<1>2. Owes(NoCall) + 0 <= Owes(call[c])  BY NoCallIs, CallIs
<1>3. /\ recorded' = recorded + 0 /\ paid' = paid + 0 /\ paidToday' = paidToday + 0
      /\ unrecorded' = unrecorded + cost /\ unasked' = unasked /\ unasked' \in BOOLEAN
      /\ midnights' = midnights /\ recordedBefore' = recordedBefore
      /\ call[c].cost + 0 = NoCall.cost + 0 + cost
  BY <1>1, NoCallIs, CallIs
<1> QED  BY <1>2, <1>3, NoCallIs, CallerStep

LEMMA ReadValueInv ==
    ASSUME SpendingAssumption, SpendingInv, NEW c \in Callers, readValue(c) PROVE SpendingInv'
<1>1. PICK row : row = IF call[c].usable THEN NoCall ELSE Again(c)  OBVIOUS
<1>2. call[c].cost = 0 /\ row \in Calls /\ Sensible(row) /\ row.cost = 0 /\ Owes(row) <= Owes(call[c])
  BY <1>1, CallAgain, NoCallIs, CallIs DEF readValue
<1>3. Owes(row) + 0 <= Owes(call[c])
  <2>1. Owes(row) \in Nat  BY <1>2, OwesTyped, RoomIs
  <2> QED  BY <1>2, <2>1
<1>4. /\ Set(c, row) /\ recorded' = recorded + 0 /\ paid' = paid + 0 /\ paidToday' = paidToday + 0
      /\ unrecorded' = unrecorded + 0 /\ unasked' = unasked /\ unasked' \in BOOLEAN
      /\ midnights' = midnights /\ recordedBefore' = recordedBefore
      /\ call[c].cost + 0 = row.cost + 0 + 0
  BY <1>1, <1>2, CallIs DEF readValue
<1> QED  BY <1>2, <1>3, <1>4, CallerStep

-----------------------------------------------------------------------------
(* Spending: the theorems *)

LEMMA SpendingNextInv == ASSUME SpendingAssumption, SpendingInv, SpendingNext PROVE SpendingInv'
<1>1. ASSUME NEW c \in Callers, RefusePurpose(c) PROVE SpendingInv'  BY <1>1, GiveUp DEF RefusePurpose
<1>2. ASSUME NEW c \in Callers, CallerDies(c) PROVE SpendingInv'  BY <1>2, GiveUp DEF CallerDies
<1> QED
  BY <1>1, <1>2, MidnightInv, AskGuardInv, CallUnaskedInv, AnswerInv, StrangeAnswerInv, NoAnswerInv,
     RecordUsageInv, ReadValueInv DEF SpendingNext

LEMMA SpendingSame == ASSUME SpendingInv, UNCHANGED spendingVars PROVE SpendingInv'
  BY DEF spendingVars, SpendingInv, SpendingTyped, SpendingTypeOK, Sensible, Kinds, MaxAttempts, BooksAgree,
         InHand, WithinRoom, Room, Debt, Pile, Debts, Owes, MoreToCome, Twice

LEMMA SpendingKept == ASSUME SpendingAssumption PROVE SpendingSpec => []SpendingInv
<1>1. SpendingInit => SpendingInv  BY SpendingInitInv
<1>2. SpendingInv /\ [SpendingNext]_spendingVars => SpendingInv'  BY SpendingNextInv, SpendingSame
<1> QED  BY <1>1, <1>2, PTL DEF SpendingSpec

\* The daily cap of the model's cost (cap.ts:4, runtime.ts:112) is passed by no
\* more than the calls already let through: whatever the number of callers, the
\* cap and the price, and across midnights, retries and lost workers.
THEOREM CapIsHeld == ASSUME SpendingAssumption PROVE SpendingSpec => []CapHolds
<1>1. SpendingInv => CapHolds
  <2> SUFFICES ASSUME SpendingInv, unrecorded = 0, ~unasked
               PROVE  paidToday < Cap + Cardinality(Callers) * MaxAttempts * MaxPrice
      BY DEF CapHolds
  <2>1. paidToday <= recorded + Cardinality(InHand) /\ recorded + Debt < Cap + Room
    BY DEF SpendingInv, WithinRoom
  <2>2. Cardinality(InHand) \in Nat /\ Debt \in Nat /\ Cardinality(InHand) <= Debt
    BY CountsTyped DEF SpendingInv
  <2>3. paidToday \in Nat /\ recorded \in Nat /\ Cap \in Nat /\ Room \in Nat
    BY RoomIs DEF SpendingInv, SpendingTyped, SpendingTypeOK
  <2>4. paidToday < Cap + Room  BY <2>1, <2>2, <2>3
  <2> QED  BY <2>4 DEF Room
<1> QED  BY <1>1, SpendingKept, PTL

\* Every unit paid is in a cost row, in the hands of a caller about to write one,
\* or lost for a reason the adapter knows (llm/src/index.ts:199).
THEOREM BooksAreKept == ASSUME SpendingAssumption PROVE SpendingSpec => []BooksAgree
<1>1. SpendingInv => BooksAgree  BY DEF SpendingInv
<1> QED  BY <1>1, SpendingKept, PTL

-----------------------------------------------------------------------------
(* What is found at addresses *)

LEMMA Answering ==
    ASSUME NEW a, NEW gone
    PROVE  /\ isFeed(a, gone) <=> (Replies(a, gone) /\ Web[a].is = "feed")
           /\ Enough(a, gone) <=> (Replies(a, gone) /\ Web[a].is \in {"brief", "page"})
           /\ fetchPage(a, gone).board # Nothing => (Replies(a, gone) /\ Web[a].board # Nothing)
           /\ fetchPage(a, gone).channel # Nothing => (Replies(a, gone) /\ Web[a].channel # Nothing)
<1>1. Missing.is = "thin" /\ Missing.board = Nothing /\ Missing.channel = Nothing  BY DEF Missing
<1> QED  BY <1>1 DEF isFeed, Enough, fetchPage

\* A place found on the way around a site, and told truly.
Own(p, around, gone) ==
    /\ p.type # "query" /\ p.url \in around
    /\ ToldTruly(p, gone) /\ (p.verified \/ p.label = "Jobs")

LEMMA FeedSound ==
    ASSUME NEW a, NEW gone, NEW around, a \in around, isFeed(a, gone), NEW label
    PROVE  Own(Place("feed", a, label, TRUE), around, gone)
<1>1. PICK p : p = Place("feed", a, label, TRUE)  OBVIOUS
<1>2. p.type = "feed" /\ p.url = a /\ p.verified = TRUE  BY <1>1 DEF Place
<1>3. Replies(a, gone) /\ Web[a].is = "feed"  BY Answering
<1>4. ToldTruly(p, gone)  BY <1>2, <1>3 DEF ToldTruly
<1> QED  BY <1>1, <1>2, <1>4 DEF Own

LEMMA PageSound ==
    ASSUME NEW a, NEW gone, NEW around, a \in around, Enough(a, gone), NEW label
    PROVE  Own(Place("diff", a, label, TRUE), around, gone)
<1>1. PICK p : p = Place("diff", a, label, TRUE)  OBVIOUS
<1>2. p.type = "diff" /\ p.url = a /\ p.verified = TRUE  BY <1>1 DEF Place
<1>3. Replies(a, gone) /\ Web[a].is \in {"brief", "page"}  BY Answering
<1>4. ToldTruly(p, gone)  BY <1>2, <1>3 DEF ToldTruly
<1> QED  BY <1>1, <1>2, <1>4 DEF Own

LEMMA JobsSound ==
    ASSUME NEW a, NEW gone, NEW around, a \in around
    PROVE  Own(jobsSurface(a, gone), around, gone)
<1>1. PICK p : p = jobsSurface(a, gone)  OBVIOUS
<1>2. PICK v : v = Replies(a, gone)  OBVIOUS
<1>3. p.type = "json" /\ p.url = a /\ p.verified = v /\ p.label = "Jobs"
  BY <1>1, <1>2 DEF jobsSurface, Place
<1>4. ToldTruly(p, gone)  BY <1>2, <1>3 DEF ToldTruly
<1> QED  BY <1>1, <1>3, <1>4 DEF Own

LEMMA FirstIs ==
    ASSUME NEW list, NEW S, NEW a \in FirstIn(list, S)
    PROVE  a \in S /\ \E i \in DOMAIN list : a = list[i]
  BY DEF FirstIn

\* A list with one of a set has a first.
LEMMA SomeFirst ==
    ASSUME NEW n \in Nat, NEW list, DOMAIN list = 1 .. n, NEW S, NEW i \in 1 .. n, list[i] \in S
    PROVE  FirstIn(list, S) # {}
<1> DEFINE T == {k \in 1 .. n : list[k] \in S}
           R == OpToRel(<, Nat)
<1>1. T \in SUBSET Nat /\ i \in T  OBVIOUS
<1>2. PICK x \in T : \A y \in T : ~ (<<y, x>> \in R)
  <2>1. IsWellFoundedOn(R, Nat)  BY NatLessThanWellFounded
  <2> HIDE DEF T, R
  <2> QED  BY <2>1, <1>1, WFMin
<1>3. \A y \in T : ~(y < x)
  <2>1. \A y \in T : <<y, x>> \in Nat \X Nat  BY <1>1
  <2>2. \A y \in T : y < x => <<y, x>> \in R  BY <2>1 DEF OpToRel
  <2> QED  BY <2>2, <1>2
<1>4. x \in DOMAIN list /\ list[x] \in S  OBVIOUS
<1>5. \A j \in 1 .. (x - 1) : list[j] \notin S
  <2>1. SUFFICES ASSUME NEW j \in 1 .. (x - 1), list[j] \in S PROVE FALSE
    OBVIOUS
  <2>2. j \in 1 .. n /\ j < x  BY <1>4
  <2>3. j \in T  BY <2>1, <2>2
  <2> QED  BY <1>3, <2>2, <2>3
<1> QED  BY <1>4, <1>5 DEF FirstIn

LEMMA FeedsSound ==
    ASSUME NEW list, NEW label, NEW gone, NEW around,
           \A i \in DOMAIN list : isFeed(list[i], gone) => list[i] \in around
    PROVE  \A p \in FeedAmong(list, label, gone) : Own(p, around, gone)
<1>1. SUFFICES ASSUME NEW p \in FeedAmong(list, label, gone) PROVE Own(p, around, gone)
  OBVIOUS
<1>2. PICK a \in FirstIn(list, Feeds(ToSet(list), gone)) : p = Place("feed", a, label, TRUE)
  BY <1>1 DEF FeedAmong
<1>3. isFeed(a, gone) /\ a \in around  BY <1>2, FirstIs DEF Feeds
<1> QED  BY <1>2, <1>3, FeedSound

-----------------------------------------------------------------------------
(* What is around a site *)

HostsOf(site) == {site, fetchPage(Home(site), {}).host}
StatusOf(site) == {StatusHost(h) : h \in HostsOf(site) \ {nowhere}} \cup {fetchPage(Home(site), {}).status}
There(site) == {a \in DOMAIN Web : a[1] \in HostsOf(site) \cup StatusOf(site)}
Links(a) ==
    ToSet(Web[a].feeds) \cup ToSet(Web[a].channels) \cup ToSet(Web[a].videos)
    \cup {Web[a].board, Web[a].repository, Web[a].channel}
Linked(site) == UNION {Links(a) : a \in There(site)}

LEMMA AroundIs ==
    ASSUME NEW site
    PROVE  /\ \A a \in There(site) : a \in Around(site) /\ Links(a) \subseteq Linked(site)
           /\ Linked(site) \subseteq Around(site)
           /\ \A a \in Linked(site) \cap DOMAIN Web : Links(a) \subseteq Around(site)
<1>1. Around(site) = There(site) \cup Linked(site) \cup UNION {Links(a) : a \in Linked(site) \cap DOMAIN Web}
  BY DEF Around, There, Linked, Links, HostsOf, StatusOf
<1>2. \A a \in There(site) : Links(a) \subseteq Linked(site)  BY DEF Linked
<1> HIDE DEF Linked
<1> QED  BY <1>1, <1>2

\* The home page as it was read, and the host it is at.
Arrived(site, gone, home, host) ==
    /\ home = fetchPage(Home(site), gone)
    /\ host = IF Replies(Home(site), gone) THEN home.host ELSE site

LEMMA HomeIs ==
    ASSUME DiscoveryAssumption, NEW site \in Hosts, NEW gone, NEW home, NEW host, Arrived(site, gone, home, host)
    PROVE  /\ host \in HostsOf(site) /\ host # nowhere
           /\ \/ home = Missing
              \/ Home(site) \in There(site) /\ home = Web[Home(site)] /\ home.status \in StatusOf(site)
<1>1. PICK h : h = Home(site)  OBVIOUS
<1>2. h = <<site, "/">> /\ h[1] = site  BY <1>1 DEF Home
<1>3. site # nowhere  BY DEF DiscoveryAssumption
<1>4. CASE Replies(h, gone)
  <2>1. home = Web[h] /\ host = home.host /\ h \in DOMAIN Web
    BY <1>1, <1>4 DEF Arrived, fetchPage, Replies
  <2>2. fetchPage(h, {}) = home  BY <2>1 DEF fetchPage, Replies
  <2>3. host \in Hosts  BY <1>2, <2>1 DEF DiscoveryAssumption
  <2>4. host \in HostsOf(site) /\ home.status \in StatusOf(site)
    BY <1>1, <2>1, <2>2 DEF HostsOf, StatusOf
  <2>5. h \in There(site)  BY <1>2, <2>1 DEF There, HostsOf
  <2> QED  BY <1>1, <2>1, <2>3, <2>4, <2>5 DEF DiscoveryAssumption
<1>5. CASE ~Replies(h, gone)
  <2>1. home = Missing /\ host = site  BY <1>1, <1>5 DEF Arrived, fetchPage
  <2> QED  BY <1>3, <2>1 DEF HostsOf
<1> QED  BY <1>4, <1>5

LEMMA PathsAre ==
    ASSUME NEW host, NEW paths, NEW i \in DOMAIN PathsOf(host, paths)
    PROVE  i \in DOMAIN paths /\ PathsOf(host, paths)[i][1] = host
  BY DEF PathsOf

\* What answers at a host of the site, and what it links to, is around it.
LEMMA AtHost ==
    ASSUME NEW site, NEW host, host \in HostsOf(site) \cup StatusOf(site), NEW a \in DOMAIN Web, a[1] = host
    PROVE  a \in Around(site) /\ Web[a].board \in Around(site)
           /\ \A i \in DOMAIN Web[a].feeds : Web[a].feeds[i] \in Around(site)
<1>1. a \in There(site)  BY DEF There
<1>2. a \in Around(site) /\ Links(a) \subseteq Around(site)  BY <1>1, AroundIs
<1>3. Web[a].board \in Links(a) /\ \A i \in DOMAIN Web[a].feeds : Web[a].feeds[i] \in Links(a)
  BY DEF Links, ToSet
<1> QED  BY <1>2, <1>3

LEMMA HomeLinks ==
    ASSUME DiscoveryAssumption, NEW site \in Hosts, NEW gone, NEW home, NEW host, Arrived(site, gone, home, host)
    PROVE  /\ \A i \in DOMAIN home.feeds : home.feeds[i] \in Around(site)
           /\ \A i \in DOMAIN home.channels : home.channels[i] \in Around(site)
           /\ \A i \in DOMAIN home.videos :
                  /\ home.videos[i] \in Around(site)
                  /\ home.videos[i] \in DOMAIN Web => Web[home.videos[i]].channel \in Around(site)
           /\ home.board # Nothing => home.board \in Around(site)
           /\ home.repository # Nothing => home.repository \in Around(site)
<1>1. CASE home = Missing
  <2>1. home.feeds = <<>> /\ home.channels = <<>> /\ home.videos = <<>>
        /\ home.board = Nothing /\ home.repository = Nothing
    BY <1>1 DEF Missing
  <2>2. DOMAIN home.feeds = {} /\ DOMAIN home.channels = {} /\ DOMAIN home.videos = {}
    BY <2>1
  <2> QED  BY <2>1, <2>2
<1>2. CASE home # Missing
  <2>1. PICK h \in There(site) : home = Web[h]  BY <1>2, HomeIs
  <2>2. /\ \A i \in DOMAIN home.feeds : home.feeds[i] \in Links(h)
        /\ \A i \in DOMAIN home.channels : home.channels[i] \in Links(h)
        /\ \A i \in DOMAIN home.videos : home.videos[i] \in Links(h)
        /\ home.board \in Links(h) /\ home.repository \in Links(h)
    BY <2>1 DEF Links, ToSet
  <2>3. Links(h) \subseteq Linked(site) /\ Linked(site) \subseteq Around(site)  BY AroundIs
  <2>4. \A i \in DOMAIN home.videos : home.videos[i] \in DOMAIN Web => Links(home.videos[i]) \subseteq Around(site)
    BY <2>2, <2>3, AroundIs
  <2>5. \A a : Web[a].channel \in Links(a)  BY DEF Links
  <2> QED  BY <2>2, <2>3, <2>4, <2>5
<1> QED  BY <1>1, <1>2

-----------------------------------------------------------------------------
(* Each search of a site *)

\* Of two lists put together: it holds what they held.
Joined(u, n, s, t) ==
    /\ DOMAIN u = 1 .. n
    /\ \A i \in 1 .. n : (\E j \in DOMAIN s : u[i] = s[j]) \/ (\E j \in DOMAIN t : u[i] = t[j])
    /\ \A j \in DOMAIN t : \E i \in 1 .. n : u[i] = t[j]

LEMMA Together ==
    ASSUME NEW S, NEW s \in Seq(S), NEW t \in Seq(S)
    PROVE  \E n \in Nat : Joined(s \o t, n, s, t)
<1>1. PICK u : u = s \o t  OBVIOUS
<1>2. PICK m \in Nat : m = Len(s) /\ DOMAIN s = 1 .. m  OBVIOUS
<1>3. PICK n \in Nat : n = Len(t) /\ DOMAIN t = 1 .. n  OBVIOUS
<1>4. Len(u) = m + n /\ DOMAIN u = 1 .. m + n  BY <1>1, <1>2, <1>3
<1>5. \A i \in 1 .. m + n : u[i] = IF i <= m THEN s[i] ELSE t[i - m]  BY <1>1, <1>2, <1>3
<1>6. \A i \in 1 .. m + n : (\E j \in 1 .. m : u[i] = s[j]) \/ (\E j \in 1 .. n : u[i] = t[j])
  <2>1. SUFFICES ASSUME NEW i \in 1 .. m + n
                 PROVE  (\E j \in 1 .. m : u[i] = s[j]) \/ (\E j \in 1 .. n : u[i] = t[j])
    OBVIOUS
  <2>2. CASE i <= m  BY <1>5, <2>2
  <2>3. CASE ~(i <= m)
    <3>1. i - m \in 1 .. n /\ u[i] = t[i - m]  BY <1>5, <2>3
    <3> QED  BY <3>1
  <2> QED  BY <2>2, <2>3
<1>7. \A j \in 1 .. n : u[m + j] = t[j] /\ m + j \in 1 .. m + n
  <2>1. SUFFICES ASSUME NEW j \in 1 .. n PROVE u[m + j] = t[j] /\ m + j \in 1 .. m + n
    OBVIOUS
  <2>2. m + j \in 1 .. m + n /\ ~(m + j <= m) /\ m + j - m = j  OBVIOUS
  <2> QED  BY <1>5, <2>2
<1>8. PICK k \in Nat : k = m + n  OBVIOUS
<1>9. Joined(u, k, s, t)
  <2>1. DOMAIN u = 1 .. k  BY <1>4, <1>8
  <2>2. \A i \in 1 .. k : (\E j \in DOMAIN s : u[i] = s[j]) \/ (\E j \in DOMAIN t : u[i] = t[j])
    BY <1>2, <1>3, <1>6, <1>8
  <2>3. ASSUME NEW j \in DOMAIN t PROVE \E i \in 1 .. k : u[i] = t[j]
    <3>1. PICK i : i = m + j  OBVIOUS
    <3>2. j \in 1 .. n  BY <1>3
    <3>3. u[i] = t[j] /\ i \in 1 .. k  BY <1>7, <1>8, <3>1, <3>2
    <3> QED  BY <3>3
  <2> QED  BY <2>1, <2>2, <2>3 DEF Joined
<1> QED  BY <1>1, <1>8, <1>9

LEMMA ListsAre ==
    ASSUME DiscoveryAssumption
    PROVE  /\ \A a \in DOMAIN Web : Web[a].feeds \in Seq(DOMAIN Web)
           /\ {FeedPaths, StatusPaths} \subseteq Seq(STRING)
<1>1. \A a \in DOMAIN Web : Web[a] \in SitePages  BY DEF DiscoveryAssumption
<1>2. \A a \in DOMAIN Web : Web[a].feeds \in Seq(DOMAIN Web)  BY <1>1 DEF SitePages
<1> QED  BY <1>2 DEF DiscoveryAssumption

LEMMA PathList ==
    ASSUME NEW host, NEW paths \in Seq(STRING)
    PROVE  PathsOf(host, paths) \in Seq({host} \X STRING)
<1>1. Len(paths) \in Nat /\ DOMAIN paths = 1 .. Len(paths) /\ \A i \in 1 .. Len(paths) : paths[i] \in STRING
  OBVIOUS
<1>2. PICK n \in Nat : n = Len(paths)  BY <1>1
<1>3. PathsOf(host, paths) = [i \in 1 .. n |-> <<host, paths[i]>>]  BY <1>1, <1>2 DEF PathsOf
<1>4. PathsOf(host, paths) \in [1 .. n -> {host} \X STRING]  BY <1>1, <1>2, <1>3
<1> QED  BY <1>2, <1>4

LEMMA PathSound ==
    ASSUME NEW site, NEW host, host \in HostsOf(site) \cup StatusOf(site), NEW paths, NEW gone,
           NEW i \in DOMAIN PathsOf(host, paths), Replies(PathsOf(host, paths)[i], gone)
    PROVE  PathsOf(host, paths)[i] \in Around(site)
  BY PathsAre, AtHost DEF Replies

LEMMA BlogSound ==
    ASSUME DiscoveryAssumption, NEW site \in Hosts, NEW gone, NEW home, NEW host, Arrived(site, gone, home, host)
    PROVE  /\ \A p \in findBlogFeed(host, home, gone) : Own(p, Around(site), gone)
           /\ (\E a \in ToSet(PathsOf(host, FeedPaths)) : isFeed(a, gone))
                  => \E p \in findBlogFeed(host, home, gone) : p.label = "Blog"
<1>1. host \in HostsOf(site)  BY HomeIs
<1>2. home.feeds \in Seq(DOMAIN Web)
  <2>1. CASE home = Missing
    <3>1. home.feeds = <<>>  BY <2>1 DEF Missing
    <3>2. <<>> \in Seq(DOMAIN Web)  OBVIOUS
    <3> QED  BY <3>1, <3>2
  <2>2. CASE home # Missing
    <3>1. PICK h \in There(site) : home = Web[h]  BY <2>2, HomeIs
    <3>2. h \in DOMAIN Web  BY DEF There
    <3> QED  BY <3>1, <3>2, ListsAre
  <2> QED  BY <2>1, <2>2
<1>3. PICK t : t = PathsOf(host, FeedPaths)  OBVIOUS
<1>4. PICK S : S = DOMAIN Web \cup ({host} \X STRING)  OBVIOUS
<1>5. t \in Seq({host} \X STRING)  BY <1>3, PathList, ListsAre
<1>6. home.feeds \in Seq(S) /\ t \in Seq(S)  BY <1>2, <1>4, <1>5
<1>12. PICK f : f = home.feeds  OBVIOUS
<1>13. f \in Seq(S)  BY <1>6, <1>12
<1>14. PICK n \in Nat : Joined(f \o t, n, f, t)  BY <1>6, <1>13, Together
<1>7. PICK u : u = f \o t  OBVIOUS
<1>15. Joined(u, n, f, t)  BY <1>7, <1>14
<1>8. /\ DOMAIN u = 1 .. n
      /\ \A i \in DOMAIN u : (\E j \in DOMAIN f : u[i] = f[j]) \/ (\E j \in DOMAIN t : u[i] = t[j])
      /\ \A j \in DOMAIN t : \E i \in 1 .. n : u[i] = t[j]
  BY <1>15 DEF Joined
<1>9. \A i \in DOMAIN u : isFeed(u[i], gone) => u[i] \in Around(site)
  <2>1. \A j \in DOMAIN f : f[j] \in Around(site)  BY <1>12, HomeLinks
  <2>2. \A j \in DOMAIN t : isFeed(t[j], gone) => t[j] \in Around(site)
    BY <1>1, <1>3, PathSound, Answering
  <2> QED  BY <1>8, <2>1, <2>2
<1>10. findBlogFeed(host, home, gone) = FeedAmong(u, "Blog", gone)  BY <1>3, <1>7, <1>12 DEF findBlogFeed
<1>11. ASSUME NEW a \in ToSet(t), isFeed(a, gone)
       PROVE  \E p \in FeedAmong(u, "Blog", gone) : p.label = "Blog"
  <2>1. PICK j \in DOMAIN t : a = t[j]  BY <1>11 DEF ToSet
  <2>2. PICK i \in 1 .. n : u[i] = a  BY <1>8, <2>1
  <2>3. PICK F : F = Feeds(ToSet(u), gone)  OBVIOUS
  <2>4. u[i] \in F  BY <1>8, <1>11, <2>2, <2>3 DEF Feeds, ToSet
  <2>5. FirstIn(u, F) # {}  BY <1>8, <2>4, SomeFirst
  <2>6. PICK b \in FirstIn(u, F) : TRUE  BY <2>5
  <2>7. PICK p : p = Place("feed", b, "Blog", TRUE)  OBVIOUS
  <2>8. p \in FeedAmong(u, "Blog", gone)  BY <2>3, <2>6, <2>7 DEF FeedAmong
  <2>9. p.label = "Blog"  BY <2>7 DEF Place
  <2> QED  BY <2>8, <2>9
<1> QED  BY <1>3, <1>9, <1>10, <1>11, FeedsSound

LEMMA ChangelogSound ==
    ASSUME DiscoveryAssumption, NEW site \in Hosts, NEW gone, NEW host \in HostsOf(site)
    PROVE  \A p \in findChangelog(host, gone) : Own(p, Around(site), gone)
<1>1. SUFFICES ASSUME NEW p \in findChangelog(host, gone) PROVE Own(p, Around(site), gone)
  OBVIOUS
<1>2. PICK pages : pages = PathsOf(host, ChangelogPaths)  OBVIOUS
<1>3. PICK a \in FirstIn(pages, Readable(ToSet(pages), gone)) : p \in ChangesAt(a, gone)
  BY <1>1, <1>2 DEF findChangelog
<1>4. Enough(a, gone) /\ \E i \in DOMAIN pages : a = pages[i]  BY <1>3, FirstIs DEF Readable
<1>5. a \in DOMAIN Web /\ a[1] = host  BY <1>2, <1>4, PathsAre, Answering DEF Replies
<1>6. a \in Around(site) /\ \A i \in DOMAIN Web[a].feeds : Web[a].feeds[i] \in Around(site)
  BY <1>5, AtHost
<1>7. \A q \in FeedAmong(Web[a].feeds, "Changelog", gone) : Own(q, Around(site), gone)
  BY <1>6, FeedsSound
<1>8. Own(Place("diff", a, "Changelog", TRUE), Around(site), gone)  BY <1>4, <1>6, PageSound
<1> QED  BY <1>3, <1>7, <1>8 DEF ChangesAt

LEMMA PricingSound ==
    ASSUME DiscoveryAssumption, NEW site \in Hosts, NEW gone, NEW host \in HostsOf(site)
    PROVE  \A p \in findPricing(host, gone) : Own(p, Around(site), gone)
<1>1. SUFFICES ASSUME NEW p \in findPricing(host, gone) PROVE Own(p, Around(site), gone)
  OBVIOUS
<1>2. PICK pages : pages = PathsOf(host, PricingPaths)  OBVIOUS
<1>3. PICK a \in FirstIn(pages, Readable(ToSet(pages), gone)) : p = Place("diff", a, "Pricing", TRUE)
  BY <1>1, <1>2 DEF findPricing
<1>4. Enough(a, gone) /\ \E i \in DOMAIN pages : a = pages[i]  BY <1>3, FirstIs DEF Readable
<1>5. a \in DOMAIN Web /\ a[1] = host  BY <1>2, <1>4, PathsAre, Answering DEF Replies
<1>6. a \in Around(site)  BY <1>5, AtHost
<1> QED  BY <1>3, <1>4, <1>6, PageSound

LEMMA CareersSound ==
    ASSUME DiscoveryAssumption, NEW site \in Hosts, NEW gone, NEW home, NEW host, Arrived(site, gone, home, host)
    PROVE  \A p \in findCareers(host, home, gone) : Own(p, Around(site), gone)
<1>1. SUFFICES ASSUME NEW p \in findCareers(host, home, gone) PROVE Own(p, Around(site), gone)
  OBVIOUS
<1>2. CASE home.board # Nothing
  <2>1. p = jobsSurface(home.board, gone)  BY <1>1, <1>2 DEF findCareers
  <2>2. home.board \in Around(site)  BY <1>2, HomeLinks
  <2> QED  BY <2>1, <2>2, JobsSound
<1>3. CASE home.board = Nothing
  <2>1. PICK pages : pages = PathsOf(host, CareersPaths)  OBVIOUS
  <2>2. PICK hiring : hiring = {a \in ToSet(pages) : fetchPage(a, gone).board # Nothing}  OBVIOUS
  <2>3. PICK a \in FirstIn(pages, Readable(ToSet(pages), gone) \cup hiring) : p = HiringAt(a, gone)
    BY <1>1, <1>3, <2>1, <2>2 DEF findCareers
  <2>4. (Enough(a, gone) \/ fetchPage(a, gone).board # Nothing) /\ \E i \in DOMAIN pages : a = pages[i]
    BY <2>2, <2>3, FirstIs DEF Readable
  <2>5. a \in DOMAIN Web /\ a[1] = host  BY <2>1, <2>4, PathsAre, Answering DEF Replies
  <2>6. host \in HostsOf(site)  BY HomeIs
  <2>7. a \in Around(site) /\ Web[a].board \in Around(site)  BY <2>5, <2>6, AtHost
  <2>8. CASE Web[a].board # Nothing
    <3>1. p = jobsSurface(Web[a].board, gone)  BY <2>3, <2>8 DEF HiringAt
    <3> QED  BY <2>7, <3>1, JobsSound
  <2>9. CASE Web[a].board = Nothing
    <3>1. p = Place("diff", a, "Careers", TRUE)  BY <2>3, <2>9 DEF HiringAt
    <3>2. Enough(a, gone)  BY <2>4, <2>9, Answering
    <3> QED  BY <2>7, <3>1, <3>2, PageSound
  <2> QED  BY <2>8, <2>9
<1> QED  BY <1>2, <1>3

LEMMA StatusSound ==
    ASSUME DiscoveryAssumption, NEW site \in Hosts, NEW gone, NEW home, NEW host, Arrived(site, gone, home, host)
    PROVE  \A p \in findStatusFeed(host, home, gone) : Own(p, Around(site), gone)
<1>1. PICK guess : guess = StatusHost(host)  OBVIOUS
<1>2. guess \in StatusOf(site)  BY <1>1, HomeIs DEF StatusOf
<1>3. PICK s : s = IF home.status = nowhere THEN <<>> ELSE PathsOf(home.status, StatusPaths)  OBVIOUS
<1>4. PICK t : t = PathsOf(guess, StatusPaths)  OBVIOUS
<1>5. PICK S : S = ({home.status} \X STRING) \cup ({guess} \X STRING)  OBVIOUS
<1>6. PathsOf(home.status, StatusPaths) \in Seq({home.status} \X STRING) /\ t \in Seq({guess} \X STRING)
  BY <1>4, PathList, ListsAre
<1>7. PathsOf(home.status, StatusPaths) \in Seq(S) /\ t \in Seq(S) /\ <<>> \in Seq(S)  BY <1>5, <1>6
<1>8. s \in Seq(S)  BY <1>3, <1>7
<1>15. PICK n \in Nat : Joined(s \o t, n, s, t)  BY <1>7, <1>8, Together
<1>9. PICK u : u = s \o t  OBVIOUS
<1>16. Joined(u, n, s, t)  BY <1>9, <1>15
<1>10. \A i \in DOMAIN u : (\E j \in DOMAIN s : u[i] = s[j]) \/ (\E j \in DOMAIN t : u[i] = t[j])
  BY <1>16 DEF Joined
<1>11. \A j \in DOMAIN t : isFeed(t[j], gone) => t[j] \in Around(site)
  BY <1>2, <1>4, PathSound, Answering
<1>12. \A j \in DOMAIN s : isFeed(s[j], gone) => s[j] \in Around(site)
  <2>1. CASE home.status = nowhere
    <3>1. DOMAIN s = {}  BY <1>3, <2>1
    <3> QED  BY <3>1
  <2>2. CASE home.status # nowhere
    <3>1. home # Missing  BY <2>2 DEF Missing
    <3>2. home.status \in StatusOf(site)  BY <3>1, HomeIs
    <3>3. s = PathsOf(home.status, StatusPaths)  BY <1>3, <2>2
    <3> QED  BY <3>2, <3>3, PathSound, Answering
  <2> QED  BY <2>1, <2>2
<1>13. \A i \in DOMAIN u : isFeed(u[i], gone) => u[i] \in Around(site)  BY <1>10, <1>11, <1>12
<1>14. findStatusFeed(host, home, gone) = FeedAmong(u, "Status", gone)
  BY <1>1, <1>3, <1>4, <1>9 DEF findStatusFeed
<1> QED  BY <1>13, <1>14, FeedsSound

LEMMA LinkedSound ==
    ASSUME DiscoveryAssumption, NEW site \in Hosts, NEW gone, NEW home, NEW host, Arrived(site, gone, home, host)
    PROVE  /\ \A p \in findGithubReleases(home, gone) : Own(p, Around(site), gone)
           /\ \A p \in findTelegramChannels(home, gone) : Own(p, Around(site), gone)
           /\ \A p \in findYouTubeChannels(home, gone) : Own(p, Around(site), gone)
<1>0. ~isFeed(Nothing, gone)  BY Answering DEF Replies, DiscoveryAssumption, Nothing
<1>1. ASSUME NEW p \in findGithubReleases(home, gone) PROVE Own(p, Around(site), gone)
  <2>1. PICK a : a = home.repository /\ isFeed(a, gone) /\ p = Place("feed", a, "GitHub releases", TRUE)
    BY <1>1 DEF findGithubReleases, Feeds
  <2>2. a \in Around(site)  BY <1>0, <2>1, HomeLinks
  <2> QED  BY <2>1, <2>2, FeedSound
<1>2. ASSUME NEW p \in findTelegramChannels(home, gone) PROVE Own(p, Around(site), gone)
  <2>1. PICK i \in DOMAIN home.channels : isFeed(home.channels[i], gone) /\ p = Place("feed", home.channels[i], "Telegram", TRUE)
    BY <1>2 DEF findTelegramChannels, Feeds
  <2>2. home.channels[i] \in Around(site)  BY HomeLinks
  <2> QED  BY <2>1, <2>2, FeedSound
<1>3. \A p \in findYouTubeChannels(home, gone) : Own(p, Around(site), gone)
  <2>1. PICK list : list = [i \in DOMAIN home.videos |-> resolveYouTubeChannelId(home.videos[i], gone)]  OBVIOUS
  <2>2. ASSUME NEW i \in DOMAIN list, isFeed(list[i], gone) PROVE list[i] \in Around(site)
    <3>1. PICK v : v = home.videos[i] /\ i \in DOMAIN home.videos  BY <2>1, <2>2
    <3>2. v \in Around(site) /\ (v \in DOMAIN Web => Web[v].channel \in Around(site))  BY <3>1, HomeLinks
    <3>3. list[i] = IF v[1] = "videos" THEN v ELSE fetchPage(v, gone).channel
      BY <2>1, <3>1 DEF resolveYouTubeChannelId
    <3>4. CASE v[1] = "videos"  BY <3>2, <3>3, <3>4
    <3>5. CASE v[1] # "videos"
      <4>1. fetchPage(v, gone).channel # Nothing  BY <1>0, <2>2, <3>3, <3>5
      <4>2. Replies(v, gone)  BY <4>1, Answering
      <4>3. list[i] = Web[v].channel /\ v \in DOMAIN Web  BY <3>3, <3>5, <4>2 DEF fetchPage, Replies
      <4> QED  BY <3>2, <4>3
    <3> QED  BY <3>4, <3>5
  <2>3. findYouTubeChannels(home, gone) = FeedAmong(list, "YouTube", gone)  BY <2>1 DEF findYouTubeChannels
  <2> QED  BY <2>2, <2>3, FeedsSound
<1> QED  BY <1>1, <1>2, <1>3

-----------------------------------------------------------------------------
(* All the places of a target *)

\* What is said of the places of a target, and of those of the business itself.
Told(places, gone) ==
    /\ \A p \in places : ToldTruly(p, gone) /\ (p.verified \/ p.label \in {"Jobs", "Google News"})
    /\ \E p \in places : p.label = "Google News"

TargetTold(t, places, gone) ==
    /\ Told(places, gone)
    /\ \A p \in places : OfTarget(p, {t.name, t.query}, Around(t.site))
    /\ LET host == IF Replies(Home(t.site), gone) THEN Web[Home(t.site)].host ELSE t.site
       IN (\E a \in ToSet(PathsOf(host, FeedPaths)) : isFeed(a, gone)) => \E p \in places : p.label = "Blog"

LEMMA NewsSound ==
    ASSUME NEW words, NEW gone, NEW names, words \in names, NEW around
    PROVE  /\ \A p \in newsQuery(words, gone) : ToldTruly(p, gone) /\ p.label = "Google News" /\ OfTarget(p, names, around)
           /\ \E p \in newsQuery(words, gone) : p.label = "Google News"
<1>1. PICK v : v = isFeed(<<"news", words>>, gone)  OBVIOUS
<1>2. PICK a : a = <<"news", words>>  OBVIOUS
<1>3. PICK p : p = Place("query", a, "Google News", v)  OBVIOUS
<1>4. newsQuery(words, gone) = {p}  BY <1>1, <1>2, <1>3 DEF newsQuery
<1>5. p.type = "query" /\ p.url = a /\ p.label = "Google News" /\ p.verified = v  BY <1>3 DEF Place
<1>6. v <=> (Replies(a, gone) /\ Web[a].is = "feed")  BY <1>1, <1>2, Answering
<1>7. ToldTruly(p, gone)  BY <1>5, <1>6 DEF ToldTruly
<1>8. a[2] = words  BY <1>2
<1>9. OfTarget(p, names, around)  BY <1>5, <1>8 DEF OfTarget
<1> QED  BY <1>4, <1>5, <1>7, <1>9

LEMMA SearchSound ==
    ASSUME NEW service, NEW label, NEW name, NEW gone, NEW names, name \in names, NEW around
    PROVE  \A p \in SearchAt(service, label, name, gone) :
               ToldTruly(p, gone) /\ p.verified /\ OfTarget(p, names, around)
<1>1. SUFFICES ASSUME NEW p \in SearchAt(service, label, name, gone)
               PROVE  ToldTruly(p, gone) /\ p.verified /\ OfTarget(p, names, around)
  OBVIOUS
<1>2. PICK a : a = <<service, name>>  OBVIOUS
<1>3. isFeed(a, gone) /\ p = Place("query", a, label, TRUE)  BY <1>1, <1>2 DEF SearchAt
<1>4. p.type = "query" /\ p.url = a /\ p.verified = TRUE  BY <1>3 DEF Place
<1>5. Replies(a, gone) /\ Web[a].is = "feed"  BY <1>3, Answering
<1>6. ToldTruly(p, gone)  BY <1>4, <1>5 DEF ToldTruly
<1>7. a[2] = name  BY <1>2
<1>8. OfTarget(p, names, around)  BY <1>4, <1>7 DEF OfTarget
<1> QED  BY <1>4, <1>6, <1>8

LEMMA SiteSound ==
    ASSUME DiscoveryAssumption, NEW site \in Hosts, NEW gone
    PROVE  /\ \A p \in OnSite(site, gone) : Own(p, Around(site), gone)
           /\ LET host == IF Replies(Home(site), gone) THEN Web[Home(site)].host ELSE site
              IN (\E a \in ToSet(PathsOf(host, FeedPaths)) : isFeed(a, gone)) => \E p \in OnSite(site, gone) : p.label = "Blog"
<1>1. PICK home : home = fetchPage(Home(site), gone)  OBVIOUS
<1>2. PICK host : host = IF Replies(Home(site), gone) THEN home.host ELSE site  OBVIOUS
<1>3. Arrived(site, gone, home, host)  BY <1>1, <1>2 DEF Arrived
<1>4. host \in HostsOf(site)  BY <1>3, HomeIs
<1>5. OnSite(site, gone) = findBlogFeed(host, home, gone) \cup findChangelog(host, gone) \cup findPricing(host, gone)
           \cup findCareers(host, home, gone) \cup findStatusFeed(host, home, gone) \cup findGithubReleases(home, gone)
           \cup findTelegramChannels(home, gone) \cup findYouTubeChannels(home, gone)
  BY <1>1, <1>2 DEF OnSite
<1>6. host = IF Replies(Home(site), gone) THEN Web[Home(site)].host ELSE site
  BY <1>1, <1>2 DEF fetchPage
<1>7. \A p \in findBlogFeed(host, home, gone) : Own(p, Around(site), gone)  BY <1>3, BlogSound
<1>8. \A p \in findChangelog(host, gone) \cup findPricing(host, gone) : Own(p, Around(site), gone)
  BY <1>4, ChangelogSound, PricingSound
<1>9. \A p \in findCareers(host, home, gone) \cup findStatusFeed(host, home, gone) : Own(p, Around(site), gone)
  BY <1>3, CareersSound, StatusSound
<1>10. \A p \in findGithubReleases(home, gone) \cup findTelegramChannels(home, gone) \cup findYouTubeChannels(home, gone) :
           Own(p, Around(site), gone)
  BY <1>3, LinkedSound
<1>11. \A p \in OnSite(site, gone) : Own(p, Around(site), gone)  BY <1>5, <1>7, <1>8, <1>9, <1>10
<1>12. (\E a \in ToSet(PathsOf(host, FeedPaths)) : isFeed(a, gone)) => \E p \in OnSite(site, gone) : p.label = "Blog"
  BY <1>3, <1>5, BlogSound
<1> QED  BY <1>6, <1>11, <1>12

LEMMA TargetSound ==
    ASSUME DiscoveryAssumption, NEW t, t.site \in Hosts \cup {nowhere}, NEW gone
    PROVE  TargetTold(t, findTargetSurfaces(t, gone), gone)
<1>1. PICK site : site = IF t.site = nowhere THEN {} ELSE OnSite(t.site, gone)  OBVIOUS
<1>2. PICK words : words = IF t.query = nowhere THEN t.name ELSE t.query  OBVIOUS
<1>3. PICK all : all = findTargetSurfaces(t, gone)  OBVIOUS
<1>4. all = site \cup newsQuery(words, gone) \cup SearchAt("reddit", "Reddit", t.name, gone)
  BY <1>1, <1>2, <1>3 DEF findTargetSurfaces, redditQuery
<1>5. \A p \in site : Own(p, Around(t.site), gone)  BY <1>1, SiteSound
<1>6. words \in {t.name, t.query}  BY <1>2
<1>7. ASSUME NEW p \in all
      PROVE  /\ ToldTruly(p, gone) /\ (p.verified \/ p.label \in {"Jobs", "Google News"})
             /\ OfTarget(p, {t.name, t.query}, Around(t.site))
  <2>1. CASE p \in site  BY <1>5, <2>1 DEF Own, OfTarget
  <2>2. CASE p \in newsQuery(words, gone)  BY <1>6, <2>2, NewsSound
  <2>3. CASE p \in SearchAt("reddit", "Reddit", t.name, gone)  BY <2>3, SearchSound
  <2> QED  BY <1>4, <1>7, <2>1, <2>2, <2>3
<1>8. \E p \in all : p.label = "Google News"  BY <1>4, NewsSound
<1>9. PICK host : host = IF Replies(Home(t.site), gone) THEN Web[Home(t.site)].host ELSE t.site  OBVIOUS
<1>10. ASSUME NEW a \in ToSet(PathsOf(host, FeedPaths)), isFeed(a, gone)
       PROVE  \E p \in all : p.label = "Blog"
  <2>1. CASE t.site = nowhere
    <3>1. Home(t.site)[1] = nowhere  BY <2>1 DEF Home
    <3>2. host = nowhere  BY <1>9, <2>1, <3>1 DEF Replies, DiscoveryAssumption
    <3>3. PICK i \in DOMAIN PathsOf(host, FeedPaths) : a = PathsOf(host, FeedPaths)[i]  BY <1>10 DEF ToSet
    <3>4. a[1] = nowhere  BY <3>2, <3>3, PathsAre
    <3>5. a \in DOMAIN Web  BY <1>10, Answering DEF Replies
    <3> QED  BY <3>4, <3>5 DEF DiscoveryAssumption
  <2>2. CASE t.site \in Hosts
    <3>1. site = OnSite(t.site, gone)  BY <1>1, <2>2 DEF DiscoveryAssumption
    <3>2. \E p \in OnSite(t.site, gone) : p.label = "Blog"  BY <1>9, <1>10, <2>2, SiteSound
    <3> QED  BY <1>4, <3>1, <3>2
  <2> QED  BY <2>1, <2>2
<1>11. Told(all, gone)  BY <1>7, <1>8 DEF Told
<1> QED  BY <1>3, <1>7, <1>9, <1>10, <1>11 DEF TargetTold

LEMMA SelfSound ==
    ASSUME NEW name, NEW gone
    PROVE  /\ Told(findSelfSurfaces(name, gone), gone)
           /\ \A p \in findSelfSurfaces(name, gone) : OfTarget(p, {name}, {})
<1>1. PICK all : all = findSelfSurfaces(name, gone)  OBVIOUS
<1>2. all = newsQuery(name, gone) \cup SearchAt("reddit", "Reddit", name, gone) \cup SearchAt("hn", "Hacker News", name, gone)
  BY <1>1 DEF findSelfSurfaces
<1>3. ASSUME NEW p \in all
      PROVE  ToldTruly(p, gone) /\ (p.verified \/ p.label \in {"Jobs", "Google News"}) /\ OfTarget(p, {name}, {})
  <2>1. CASE p \in newsQuery(name, gone)  BY <2>1, NewsSound
  <2>2. CASE p \in SearchAt("reddit", "Reddit", name, gone)  BY <2>2, SearchSound
  <2>3. CASE p \in SearchAt("hn", "Hacker News", name, gone)  BY <2>3, SearchSound
  <2> QED  BY <1>2, <1>3, <2>1, <2>2, <2>3
<1>4. \E p \in all : p.label = "Google News"  BY <1>2, NewsSound
<1> QED  BY <1>1, <1>3, <1>4 DEF Told

-----------------------------------------------------------------------------
(* A reading of a business *)

\* What the model named, as a list; and a list as long as it.
Named(x) ==
    /\ Len(x.targets) \in Nat /\ DOMAIN x.targets = 1 .. Len(x.targets)
    /\ \A i \in 1 .. Len(x.targets) : x.targets[i].site \in Hosts \cup {nowhere}

Long(s, n) == s = [i \in 1 .. n |-> s[i]]

Progressing ==
    /\ Named(answer)
    /\ attempts \in {0, 1, 2} /\ (outcome = "reading" => attempts # 2)
    /\ outcome \in {"reading", "describe", "failed", "found"}
    /\ nextTarget \in 1 .. (Total + 1) /\ probers \in [Workers -> 0 .. Total]
    /\ \A w \in Workers : probers[w] < nextTarget

\* What was taken is in a worker's hands or told, in the model's order.
Searched ==
    /\ Long(proposals, Total) /\ Long(silent, Total)
    /\ \A i \in 1 .. (nextTarget - 1) :
           (\E w \in Workers : probers[w] = i) \/ TargetTold(answer.targets[i], proposals[i], silent[i])

Finished ==
    /\ Long(proposals, Total + 1)
    /\ \A i \in 1 .. Total : TargetTold(answer.targets[i], proposals[i], silent[i])
    /\ Told(proposals[Total + 1], silent[Total + 1])
    /\ \A p \in proposals[Total + 1] : OfTarget(p, {answer.own}, {})
    /\ {t.condition : t \in topics} = answer.conditions

ReadingInv ==
    /\ Progressing
    /\ outcome = "reading" => Searched
    /\ outcome = "found" => Finished

LEMMA AnswersNamed ==
    ASSUME DiscoveryAssumption, NEW x \in Answers
    PROVE  Named(x)
<1>1. PICK N : \E Q : x.targets \in Seq([name : N, site : Hosts \cup {nowhere}, query : Q])
  BY DEF DiscoveryAssumption
<1>2. PICK Q : x.targets \in Seq([name : N, site : Hosts \cup {nowhere}, query : Q])  BY <1>1
<1>3. PICK R : R = [name : N, site : Hosts \cup {nowhere}, query : Q]  OBVIOUS
<1>4. x.targets \in Seq(R) /\ \A r \in R : r.site \in Hosts \cup {nowhere}  BY <1>2, <1>3
<1>5. Len(x.targets) \in Nat /\ DOMAIN x.targets = 1 .. Len(x.targets) /\ \A i \in 1 .. Len(x.targets) : x.targets[i] \in R
  BY <1>4
<1> QED  BY <1>4, <1>5 DEF Named

LEMMA UnaskedIs ==
    Unasked.targets = <<>> /\ Len(Unasked.targets) = 0 /\ Named(Unasked)
<1>1. Unasked.targets = <<>>  BY DEF Unasked
<1>2. Len(Unasked.targets) = 0 /\ DOMAIN Unasked.targets = 1 .. 0  BY <1>1
<1> QED  BY <1>1, <1>2 DEF Named

LEMMA ReadingStarts ==
    ASSUME DiscoveryAssumption
    PROVE  DiscoveryInit => ReadingInv
<1> SUFFICES ASSUME DiscoveryInit PROVE ReadingInv
  OBVIOUS
<1>1. answer = Unasked /\ Total = 0 /\ Named(answer)  BY UnaskedIs DEF DiscoveryInit, Total
<1>2. attempts = 0 /\ nextTarget = 1 /\ probers = [w \in Workers |-> 0] /\ outcome = "reading"
      /\ proposals = <<>> /\ silent = <<>>
  BY DEF DiscoveryInit
<1>3. Progressing  BY <1>1, <1>2 DEF Progressing
<1>4. Long(<<>>, 0)  BY DEF Long
<1>5. Searched  BY <1>1, <1>2, <1>4 DEF Searched
<1> QED  BY <1>2, <1>3, <1>5 DEF ReadingInv

\* While nothing is asked, nothing is taken.
LEMMA AskedFirst ==
    ASSUME DiscoveryAssumption, Progressing, answer = Unasked
    PROVE  Total = 0 /\ nextTarget = 1 /\ \A w \in Workers : probers[w] = 0
<1>1. Total = 0  BY UnaskedIs DEF Total
<1>2. nextTarget \in 1 .. (0 + 1) /\ probers \in [Workers -> 0 .. 0]  BY <1>1 DEF Progressing
<1> QED  BY <1>1, <1>2

\* A step that takes no target and finishes none leaves what is told.
LEMMA SearchedStays ==
    ASSUME Searched, UNCHANGED <<answer, nextTarget, probers, proposals, silent>>
    PROVE  Searched'
<1>1. UNCHANGED Total  BY DEF Total
<1> QED  BY <1>1 DEF Searched

LEMMA FinishedStays ==
    ASSUME Finished, UNCHANGED <<answer, proposals, silent, topics>>
    PROVE  Finished'
<1>1. UNCHANGED Total  BY DEF Total
<1> QED  BY <1>1 DEF Finished

LEMMA ReadingRead ==
    ASSUME DiscoveryAssumption, ReadingInv, NEW gone, readSite(gone)
    PROVE  ReadingInv'
<1>1. UNCHANGED <<attempts, answer, nextTarget, probers, proposals, topics, silent>> /\ outcome = "reading"
  BY DEF readSite
<1>2. outcome' \in {"reading", "describe"}  BY <1>1 DEF readSite
<1>3. UNCHANGED Total  BY <1>1 DEF Total
<1>4. Searched /\ Progressing  BY <1>1 DEF ReadingInv
<1>5. Searched'  BY <1>1, <1>4, SearchedStays
<1>6. Progressing'  BY <1>1, <1>2, <1>3, <1>4 DEF Progressing, Named
<1> QED  BY <1>2, <1>5, <1>6 DEF ReadingInv

LEMMA ReadingFails ==
    ASSUME DiscoveryAssumption, ReadingInv, NEW transient \in BOOLEAN, AskFails(transient)
    PROVE  ReadingInv'
<1>1. UNCHANGED <<answer, nextTarget, probers, proposals, topics, silent>> /\ outcome = "reading"
      /\ attempts' = attempts + 1
  BY DEF AskFails
<1>2. (outcome' = "reading" /\ attempts = 0) \/ outcome' = "failed"  BY <1>1 DEF AskFails
<1>3. UNCHANGED Total  BY <1>1 DEF Total
<1>4. Searched /\ Progressing  BY <1>1 DEF ReadingInv
<1>5. Searched'  BY <1>1, <1>4, SearchedStays
<1>6. Progressing'  BY <1>1, <1>2, <1>3, <1>4 DEF Progressing, Named
<1> QED  BY <1>2, <1>5, <1>6 DEF ReadingInv

LEMMA ReadingAnswered ==
    ASSUME DiscoveryAssumption, ReadingInv, NEW said \in Answers, complete(said)
    PROVE  ReadingInv'
<1>1. answer' = said /\ UNCHANGED <<attempts, nextTarget, probers, topics, outcome>> /\ outcome = "reading" /\ answer = Unasked
  BY DEF complete
<1>2. Progressing  BY <1>1 DEF ReadingInv
<1>3. nextTarget = 1 /\ \A w \in Workers : probers[w] = 0  BY <1>1, <1>2, AskedFirst
<1>4. PICK n : n = Len(said.targets)  OBVIOUS
<1>5. Named(said) /\ n \in Nat /\ DOMAIN said.targets = 1 .. n  BY <1>4, AnswersNamed DEF Named
<1>6. Total' = n /\ Named(answer)'  BY <1>1, <1>4, <1>5 DEF Total, Named
<1>7. probers \in [Workers -> 0 .. n]
  <2>1. probers \in [Workers -> 0 .. Total]  BY <1>2 DEF Progressing
  <2> QED  BY <1>3, <1>5, <2>1
<1>8. Progressing'  BY <1>1, <1>2, <1>3, <1>5, <1>6, <1>7 DEF Progressing
<1>9. proposals' = [i \in 1 .. n |-> {}] /\ silent' = [i \in 1 .. n |-> {}]  BY <1>5 DEF complete
<1>10. Long(proposals', n) /\ Long(silent', n)  BY <1>9 DEF Long
<1>11. nextTarget' - 1 = 0  BY <1>1, <1>3
<1>12. Searched'  BY <1>6, <1>10, <1>11 DEF Searched, Long
<1> QED  BY <1>1, <1>8, <1>12 DEF ReadingInv

LEMMA ReadingTaken ==
    ASSUME DiscoveryAssumption, ReadingInv, NEW w \in Workers, NEW gone, TakeTarget(w, gone)
    PROVE  ReadingInv'
<1>1. UNCHANGED <<attempts, answer, proposals, outcome>> /\ outcome = "reading" /\ probers[w] = 0 /\ nextTarget <= Total
      /\ probers' = [probers EXCEPT ![w] = nextTarget] /\ nextTarget' = nextTarget + 1
      /\ silent' = [silent EXCEPT ![nextTarget] = gone]
  BY DEF TakeTarget
<1>2. Progressing /\ Searched  BY <1>1 DEF ReadingInv
<1>3. UNCHANGED Total /\ Total \in Nat  BY <1>1, <1>2 DEF Total, Progressing, Named
<1>4. nextTarget \in 1 .. Total /\ probers \in [Workers -> 0 .. Total] /\ \A v \in Workers : probers[v] < nextTarget
  BY <1>1, <1>2, <1>3 DEF Progressing
<1>5. probers' \in [Workers -> 0 .. Total] /\ probers'[w] = nextTarget /\ \A v \in Workers \ {w} : probers'[v] = probers[v]
  BY <1>1, <1>4
<1>6. \A v \in Workers : probers'[v] < nextTarget'
  <2>1. SUFFICES ASSUME NEW v \in Workers PROVE probers'[v] < nextTarget'  OBVIOUS
  <2>2. CASE v = w  BY <1>1, <1>4, <1>5, <2>2
  <2>3. CASE v # w
    <3>1. probers'[v] = probers[v] /\ probers[v] < nextTarget /\ probers[v] \in 0 .. Total  BY <1>4, <1>5, <2>3
    <3> QED  BY <1>1, <1>3, <1>4, <3>1
  <2> QED  BY <2>2, <2>3
<1>7. Named(answer)'  BY <1>1, <1>2 DEF Progressing, Named
<1>8. Progressing'
  <2>1. nextTarget' \in 1 .. (Total' + 1)  BY <1>1, <1>3, <1>4
  <2>2. probers' \in [Workers -> 0 .. Total']  BY <1>3, <1>5
  <2>3. attempts' = attempts /\ outcome' = outcome  BY <1>1
  <2> QED  BY <1>2, <1>6, <1>7, <2>1, <2>2, <2>3 DEF Progressing
<1>9. Long(silent', Total')
  <2>1. Long(silent, Total)  BY <1>2 DEF Searched
  <2>2. DOMAIN silent = 1 .. Total  BY <2>1 DEF Long
  <2>3. silent' = [i \in 1 .. Total |-> silent'[i]]  BY <1>1, <2>2
  <2> QED  BY <1>3, <2>3 DEF Long
<1>10. \A i \in 1 .. Total : i # nextTarget => silent'[i] = silent[i]
  <2>1. DOMAIN silent = 1 .. Total  BY <1>2 DEF Searched, Long
  <2> QED  BY <1>1, <2>1
<1>11. ASSUME NEW i \in 1 .. (nextTarget' - 1)
       PROVE  (\E v \in Workers : probers'[v] = i) \/ TargetTold(answer.targets[i], proposals[i], silent'[i])
  <2>1. CASE i = nextTarget  BY <1>5, <2>1
  <2>2. CASE i # nextTarget
    <3>1. i \in 1 .. (nextTarget - 1) /\ i \in 1 .. Total /\ i # 0  BY <1>1, <1>3, <1>4, <2>2
    <3>2. CASE \E v \in Workers : probers[v] = i
      <4>1. PICK v \in Workers : probers[v] = i  BY <3>2
      <4>2. v # w  BY <1>1, <3>1, <4>1
      <4> QED  BY <1>5, <4>1, <4>2
    <3>3. CASE TargetTold(answer.targets[i], proposals[i], silent[i])  BY <1>10, <2>2, <3>1, <3>3
    <3> QED  BY <1>2, <3>1, <3>2, <3>3 DEF Searched
  <2> QED  BY <2>1, <2>2
<1>12. Long(proposals', Total')  BY <1>1, <1>2, <1>3 DEF Searched
<1>13. Searched'  BY <1>1, <1>9, <1>11, <1>12 DEF Searched
<1> QED  BY <1>1, <1>8, <1>13 DEF ReadingInv

LEMMA ReadingFinishes ==
    ASSUME DiscoveryAssumption, ReadingInv, NEW w \in Workers, FinishTarget(w)
    PROVE  ReadingInv'
<1>1. UNCHANGED <<subject, attempts, answer, nextTarget, silent, outcome>> /\ outcome = "reading" /\ probers[w] # 0
      /\ proposals' = mapLimited(w) /\ probers' = [probers EXCEPT ![w] = 0]
  BY DEF FinishTarget
<1>2. Progressing /\ Searched  BY <1>1 DEF ReadingInv
<1>3. UNCHANGED Total /\ Total \in Nat  BY <1>1, <1>2 DEF Total, Progressing, Named
<1>4. nextTarget \in 1 .. (Total + 1) /\ probers \in [Workers -> 0 .. Total] /\ \A v \in Workers : probers[v] < nextTarget
  BY <1>2 DEF Progressing
<1>5. PICK m : m = probers[w]  OBVIOUS
<1>6. m \in 1 .. Total  BY <1>1, <1>3, <1>4, <1>5
<1>7. probers' \in [Workers -> 0 .. Total] /\ probers'[w] = 0 /\ \A v \in Workers \ {w} : probers'[v] = probers[v]
  BY <1>1, <1>3, <1>4
<1>8. \A v \in Workers : probers'[v] < nextTarget'
  <2>1. SUFFICES ASSUME NEW v \in Workers PROVE probers'[v] < nextTarget'  OBVIOUS
  <2>2. CASE v = w  BY <1>1, <1>3, <1>4, <1>7, <2>2
  <2>3. CASE v # w  BY <1>1, <1>4, <1>7, <2>3
  <2> QED  BY <2>2, <2>3
<1>9. Named(answer)'  BY <1>1, <1>2 DEF Progressing, Named
<1>10. Progressing'
  <2>1. nextTarget' \in 1 .. (Total' + 1) /\ probers' \in [Workers -> 0 .. Total']  BY <1>1, <1>3, <1>4, <1>7
  <2>2. attempts' = attempts /\ outcome' = outcome  BY <1>1
  <2> QED  BY <1>2, <1>8, <1>9, <2>1, <2>2 DEF Progressing
<1>11. PICK t, gone, found : t = answer.targets[m] /\ gone = silent[m] /\ found = findTargetSurfaces(t, gone)
  OBVIOUS
<1>12. t.site \in Hosts \cup {nowhere}  BY <1>2, <1>6, <1>11 DEF Progressing, Named, Total
<1>13. TargetTold(t, found, gone)  BY <1>11, <1>12, TargetSound
<1>14. proposals' = [proposals EXCEPT ![m] = found]  BY <1>1, <1>5, <1>11 DEF mapLimited
<1>15. DOMAIN proposals = 1 .. Total  BY <1>2 DEF Searched, Long
<1>16. proposals'[m] = found /\ \A i \in 1 .. Total : i # m => proposals'[i] = proposals[i]
  BY <1>6, <1>14, <1>15
<1>17. Long(proposals', Total')
  <2>1. proposals' = [i \in 1 .. Total |-> proposals'[i]]  BY <1>14, <1>15
  <2> QED  BY <1>3, <2>1 DEF Long
<1>18. Long(silent', Total')  BY <1>1, <1>2, <1>3 DEF Searched
<1>19. ASSUME NEW i \in 1 .. (nextTarget - 1)
       PROVE  (\E v \in Workers : probers'[v] = i) \/ TargetTold(answer.targets[i], proposals'[i], silent[i])
  <2>1. CASE i = m  BY <1>11, <1>13, <1>16, <2>1
  <2>2. CASE i # m
    <3>1. i \in 1 .. Total  BY <1>3, <1>4
    <3>2. CASE \E v \in Workers : probers[v] = i
      <4>1. PICK v \in Workers : probers[v] = i  BY <3>2
      <4>2. v # w  BY <1>5, <2>2, <4>1
      <4> QED  BY <1>7, <4>1, <4>2
    <3>3. CASE TargetTold(answer.targets[i], proposals[i], silent[i])  BY <1>16, <2>2, <3>1, <3>3
    <3> QED  BY <1>2, <3>2, <3>3 DEF Searched
  <2> QED  BY <2>1, <2>2
<1>20. Searched'  BY <1>1, <1>17, <1>18, <1>19 DEF Searched
<1> QED  BY <1>1, <1>10, <1>20 DEF ReadingInv

\* A list with one more.
Grown(s, x, n, t) == Long(t, n + 1) /\ t[n + 1] = x /\ \A i \in 1 .. n : t[i] = s[i]

LEMMA Longer ==
    ASSUME NEW n \in Nat, NEW s, NEW x, Long(s, n)
    PROVE  Grown(s, x, n, Append(s, x))
<1>1. DOMAIN s = 1 .. n /\ s = [i \in 1 .. n |-> s[i]]  BY DEF Long
<1>2. PICK S : S = {s[i] : i \in 1 .. n} \cup {x}  OBVIOUS
<1>3. s \in Seq(S) /\ Len(s) = n /\ x \in S  BY <1>1, <1>2
<1>4. Append(s, x) \in Seq(S) /\ Len(Append(s, x)) = n + 1 /\ Append(s, x)[n + 1] = x
      /\ \A i \in 1 .. n : Append(s, x)[i] = s[i]
  BY <1>3
<1>5. Append(s, x) = [i \in 1 .. (n + 1) |-> Append(s, x)[i]]
  <2>1. PICK q : q = Append(s, x)  OBVIOUS
  <2>2. q \in Seq(S) /\ Len(q) = n + 1  BY <1>4, <2>1
  <2>3. q \in [1 .. (n + 1) -> S]  BY <2>2
  <2>4. q = [i \in 1 .. (n + 1) |-> q[i]]  BY <2>3
  <2> QED  BY <2>1, <2>4
<1> QED  BY <1>4, <1>5 DEF Long, Grown

LEMMA ReadingAssembled ==
    ASSUME DiscoveryAssumption, ReadingInv, NEW gone, assemble(gone)
    PROVE  ReadingInv'
<1>1. UNCHANGED <<attempts, answer, nextTarget, probers>> /\ outcome = "reading" /\ outcome' = "found"
      /\ nextTarget > Total /\ (\A w \in Workers : probers[w] = 0)
      /\ silent' = Append(silent, gone) /\ proposals' = Append(proposals, findSelfSurfaces(answer.own, gone))
      /\ topics' = {findConditionSurfaces(c, gone) : c \in answer.conditions}
  BY DEF assemble
<1>2. Progressing /\ Searched  BY <1>1 DEF ReadingInv
<1>3. UNCHANGED Total /\ Total \in Nat  BY <1>1, <1>2 DEF Total, Progressing, Named
<1>4. nextTarget = Total + 1  BY <1>1, <1>2, <1>3 DEF Progressing
<1>5. Progressing'  BY <1>1, <1>2, <1>3 DEF Progressing, Named
<1>6. \A i \in 1 .. Total : TargetTold(answer.targets[i], proposals[i], silent[i])
  <2>1. SUFFICES ASSUME NEW i \in 1 .. Total PROVE TargetTold(answer.targets[i], proposals[i], silent[i])  OBVIOUS
  <2>2. i \in 1 .. (nextTarget - 1) /\ i # 0  BY <1>3, <1>4
  <2>3. ~ \E w \in Workers : probers[w] = i  BY <1>1, <2>2
  <2> QED  BY <1>2, <2>2, <2>3 DEF Searched
<1>7. PICK n, found : n = Total /\ found = findSelfSurfaces(answer.own, gone)  OBVIOUS
<1>8. Long(proposals, n) /\ Long(silent, n) /\ n \in Nat  BY <1>2, <1>3, <1>7 DEF Searched
<1>9. Long(proposals', n + 1) /\ proposals'[n + 1] = found /\ \A i \in 1 .. n : proposals'[i] = proposals[i]
  <2>1. proposals' = Append(proposals, found)  BY <1>1, <1>7
  <2>2. Grown(proposals, found, n, Append(proposals, found))  BY <1>8, Longer
  <2> QED  BY <2>1, <2>2 DEF Grown
<1>10. silent'[n + 1] = gone /\ \A i \in 1 .. n : silent'[i] = silent[i]
  <2>1. silent' = Append(silent, gone)  BY <1>1
  <2>2. Grown(silent, gone, n, Append(silent, gone))  BY <1>8, Longer
  <2> QED  BY <2>1, <2>2 DEF Grown
<1>11. \A i \in 1 .. n : TargetTold(answer.targets[i], proposals'[i], silent'[i])  BY <1>6, <1>7, <1>9, <1>10
<1>12. Told(found, gone) /\ \A p \in found : OfTarget(p, {answer.own}, {})  BY <1>7, SelfSound
<1>13. {t.condition : t \in topics'} = answer.conditions
  <2>1. \A c : findConditionSurfaces(c, gone).condition = c  BY DEF findConditionSurfaces
  <2>2. \A x : x \in {t.condition : t \in topics'} <=> x \in answer.conditions
    <3>1. SUFFICES ASSUME NEW x PROVE (\E t \in topics' : x = t.condition) <=> x \in answer.conditions  OBVIOUS
    <3>2. ASSUME NEW t \in topics', x = t.condition PROVE x \in answer.conditions
      <4>1. PICK c \in answer.conditions : t = findConditionSurfaces(c, gone)  BY <1>1, <3>2
      <4> QED  BY <2>1, <3>2, <4>1
    <3>3. ASSUME x \in answer.conditions PROVE \E t \in topics' : x = t.condition
      <4>1. findConditionSurfaces(x, gone) \in topics'  BY <1>1, <3>3
      <4> QED  BY <2>1, <4>1
    <3> QED  BY <3>2, <3>3
  <2> QED  BY <2>2
<1>14. Finished'  BY <1>1, <1>3, <1>7, <1>9, <1>10, <1>11, <1>12, <1>13 DEF Finished
<1> QED  BY <1>1, <1>5, <1>14 DEF ReadingInv

LEMMA ReadingStays ==
    ASSUME ReadingInv, UNCHANGED discoveryVars
    PROVE  ReadingInv'
<1>1. UNCHANGED <<attempts, answer, nextTarget, probers, proposals, topics, silent, outcome>>  BY DEF discoveryVars
<1>2. UNCHANGED Total  BY <1>1 DEF Total
<1>3. Progressing'  BY <1>1, <1>2 DEF ReadingInv, Progressing, Named
<1>4. Searched => Searched'  BY <1>1, SearchedStays
<1>5. Finished => Finished'  BY <1>1, FinishedStays
<1> QED  BY <1>1, <1>3, <1>4, <1>5 DEF ReadingInv

LEMMA ReadingKept ==
    ASSUME DiscoveryAssumption
    PROVE  ReadingInv /\ [DiscoveryNext]_discoveryVars => ReadingInv'
<1> SUFFICES ASSUME ReadingInv, [DiscoveryNext]_discoveryVars PROVE ReadingInv'
  OBVIOUS
<1>1. ASSUME NEW gone \in Outages, readSite(gone) PROVE ReadingInv'  BY <1>1, ReadingRead
<1>2. ASSUME NEW gone \in Outages, assemble(gone) PROVE ReadingInv'  BY <1>2, ReadingAssembled
<1>3. ASSUME NEW gone \in Outages, NEW w \in Workers, TakeTarget(w, gone) PROVE ReadingInv'  BY <1>3, ReadingTaken
<1>4. ASSUME NEW transient \in BOOLEAN, AskFails(transient) PROVE ReadingInv'  BY <1>4, ReadingFails
<1>5. ASSUME NEW said \in Answers, complete(said) PROVE ReadingInv'  BY <1>5, ReadingAnswered
<1>6. ASSUME NEW w \in Workers, FinishTarget(w) PROVE ReadingInv'  BY <1>6, ReadingFinishes
<1>7. CASE UNCHANGED discoveryVars  BY <1>7, ReadingStays
<1> QED  BY <1>1, <1>2, <1>3, <1>4, <1>5, <1>6, <1>7 DEF DiscoveryNext

LEMMA ReadingTold ==
    ReadingInv => OfferedAsAnswered
<1> SUFFICES ASSUME ReadingInv, outcome = "found" PROVE OfferedAsAnswered
  BY DEF OfferedAsAnswered
<1>1. Finished /\ Total \in Nat  BY DEF ReadingInv, Progressing, Named, Total
<1>2. PICK n : n = Total /\ n \in Nat  BY <1>1
<1>3. DOMAIN proposals = 1 .. (n + 1) /\ Len(proposals) = n + 1
  <2>1. proposals = [i \in 1 .. (n + 1) |-> proposals[i]]  BY <1>1, <1>2 DEF Finished, Long
  <2>2. proposals \in Seq({proposals[i] : i \in 1 .. (n + 1)})  BY <1>2, <2>1
  <2> QED  BY <1>2, <2>1, <2>2
<1>4. \A i \in 1 .. n : TargetTold(answer.targets[i], proposals[i], silent[i])  BY <1>1, <1>2 DEF Finished
<1>5. Told(proposals[n + 1], silent[n + 1])  BY <1>1, <1>2 DEF Finished
<1>6. \A i \in DOMAIN proposals : Told(proposals[i], silent[i])
  <2>1. SUFFICES ASSUME NEW i \in DOMAIN proposals PROVE Told(proposals[i], silent[i])  OBVIOUS
  <2>2. i = n + 1 \/ i \in 1 .. n  BY <1>2, <1>3
  <2> QED  BY <1>4, <1>5, <2>2 DEF TargetTold
<1>7. (\A p \in proposals[n + 1] : OfTarget(p, {answer.own}, {})) /\ {t.condition : t \in topics} = answer.conditions
  BY <1>1, <1>2 DEF Finished
<1>8. \A i \in 1 .. n :
          LET t == answer.targets[i]
              host == IF Replies(Home(t.site), silent[i]) THEN Web[Home(t.site)].host ELSE t.site
          IN /\ \A p \in proposals[i] : OfTarget(p, {t.name, t.query}, Around(t.site))
             /\ (\E a \in ToSet(PathsOf(host, FeedPaths)) : isFeed(a, silent[i]))
                    => \E p \in proposals[i] : p.label = "Blog"
  BY <1>4 DEF TargetTold
<1> QED  BY <1>2, <1>3, <1>6, <1>7, <1>8 DEF OfferedAsAnswered, Told

\* Whatever the web answers or is silent about, and whichever worker finishes first, the reading of a site offers
\* what the model named, in its order, each with places of its own, called verified just when they answered
\* (discover.ts:110-132, 203-225; surfaces.ts:6-10).
THEOREM SearchesToldTruly ==
    DiscoverySpec => []OfferedAsAnswered
<1> USE DiscoveryAssumption
<1>1. DiscoveryInit => ReadingInv  BY ReadingStarts
<1>2. ReadingInv /\ [DiscoveryNext]_discoveryVars => ReadingInv'  BY ReadingKept
<1>3. ReadingInv => OfferedAsAnswered  BY ReadingTold
<1> QED  BY <1>1, <1>2, <1>3, PTL DEF DiscoverySpec

-----------------------------------------------------------------------------
(* Types of Reports, Spending and Discovery *)

\* What ReportsTyped leaves open: an event that is not there has no date, and only
\* the profile's targets rest or go.
TargetsOwned ==
    /\ \A e \in News \ Present : happened[e] = never
    /\ resting \subseteq Watched /\ deleted \subseteq Watched
    /\ \A m \in MonthsBegun : report[m].made \in BOOLEAN

LEMMA TargetsOwnedNext ==
    ASSUME ReportsAssumption, ReportsInv, TargetsOwned, ReportsNext
    PROVE  TargetsOwned'
<1>1. CASE UNCHANGED <<written, happened, resting, deleted>>
  <2>1. ASSUME NEW m \in MonthsBegun PROVE report'[m].made \in BOOLEAN
    <3>1. CASE report' = report  BY <3>1 DEF TargetsOwned
    <3>2. CASE report' # report
      <4>1. BuildReport
        BY <3>2 DEF ReportsNext, NextDay, WriteNews, WriteFacts, React, RestTarget, DeleteTarget, ReadEvents, DropReport, jobs
      <4>2. PICK r : r.made = TRUE /\ report' = [report EXCEPT ![draft.month] = r]
        BY <3>2, <4>1 DEF BuildReport
      <4>3. report'[m] = r \/ report'[m] = report[m]  BY <4>2 DEF ReportsInv, ReportsTyped
      <4> QED  BY <4>2, <4>3 DEF TargetsOwned
    <3> QED  BY <3>1, <3>2
  <2> QED  BY <1>1, <2>1 DEF TargetsOwned, Present, MonthsBegun
<1>2. CASE ~ UNCHANGED <<written, happened, resting, deleted>>
  <2>1. report' = report
    BY <1>2 DEF ReportsNext, NextDay, WriteNews, WriteFacts, React, RestTarget, DeleteTarget, ReadEvents, DropReport,
       BuildReport, jobs, tables
  <2>2. /\ resting' \subseteq Watched /\ deleted' \subseteq Watched
    <3>1. \A e \in News : About[e] # "none" => About[e] \in Watched  BY DEF ReportsAssumption
    <3> QED
      BY <3>1 DEF TargetsOwned, ReportsNext, NextDay, WriteNews, WriteFacts, React, RestTarget, DeleteTarget, ReadEvents,
         DropReport, BuildReport, tables, Alive, ReportsInv, ReportsTyped, Present
  <2>3. ASSUME NEW e \in News, e \notin Present' PROVE happened'[e] = never
    <3>1. CASE written' = written /\ happened' = happened  BY <2>3, <3>1 DEF TargetsOwned, Present
    <3>2. CASE ~(written' = written /\ happened' = happened)
      <4>1. PICK f \in News : WriteNews(f)
        BY <3>2 DEF ReportsNext, NextDay, WriteFacts, React, RestTarget, DeleteTarget, ReadEvents, DropReport, BuildReport, tables
      <4>2. day # never /\ written' = [written EXCEPT ![f] = day]
        BY <4>1, MonthDays DEF WriteNews, ReportsInv, ReportsTyped, never
      <4>3. f \in Present' /\ e # f  BY <2>3, <4>2 DEF Present, ReportsInv, ReportsTyped
      <4>4. written'[e] = written[e] /\ happened'[e] = happened[e]
        BY <4>1, <4>3 DEF WriteNews, ReportsInv, ReportsTyped
      <4> QED  BY <2>3, <4>4 DEF TargetsOwned, Present
    <3> QED  BY <3>1, <3>2
  <2> QED  BY <2>1, <2>2, <2>3 DEF TargetsOwned, MonthsBegun
<1> QED  BY <1>1, <1>2

\* Rows and reports keep their shape, and nothing rests or is deleted but the
\* profile's own targets (monthly.ts:120-420).
THEOREM ReportsTypes == ReportsSpec => []ReportsTypeOK
<1>1. ReportsInit => ReportsInv /\ TargetsOwned
  <2>1. ReportsInit => ReportsInv  BY ReportsInitInv, ReportsAssumption
  <2>2. ASSUME ReportsInit, NEW m \in MonthsBegun PROVE report[m].made \in BOOLEAN
    BY <2>2 DEF ReportsInit, NoReport
  <2>3. ReportsInit => TargetsOwned  BY <2>2 DEF ReportsInit, TargetsOwned
  <2> QED  BY <2>1, <2>3
<1>2. ReportsInv /\ TargetsOwned /\ [ReportsNext]_reportsVars => ReportsInv' /\ TargetsOwned'
  <2>1. CASE ReportsNext  BY <2>1, ReportsNextInv, TargetsOwnedNext, ReportsAssumption
  <2>2. CASE UNCHANGED reportsVars
    BY <2>2, ReportsSame DEF reportsVars, TargetsOwned, Present, MonthsBegun
  <2> QED  BY <2>1, <2>2
<1>3. ReportsInv /\ TargetsOwned => ReportsTypeOK
  <2> SUFFICES ASSUME ReportsInv, TargetsOwned PROVE ReportsTypeOK  OBVIOUS
  <2>1. ASSUME NEW e \in News PROVE happened[e] \in -1 .. written[e]
    <3>1. written[e] \in Int /\ happened[e] \in Int /\ -1 <= written[e]
      BY MonthDays, ReportsAssumption DEF ReportsInv, ReportsTyped
    <3>2. CASE e \in Present  BY <3>1, <3>2, MonthDays, ReportsAssumption DEF ReportsInv, ReportsTyped
    <3>3. CASE e \notin Present  BY <3>1, <3>3 DEF TargetsOwned, Present, never
    <3> QED  BY <3>2, <3>3
  <2> QED  BY <2>1 DEF ReportsInv, ReportsTyped, TargetsOwned, ReportsTypeOK
<1> QED  BY <1>1, <1>2, <1>3, PTL DEF ReportsSpec

\* Whatever answers are lost, calls are never in a state the client does not know
\* (packages/llm/src/index.ts).
THEOREM SpendingTypes == SpendingSpec => []SpendingTypeOK
<1>1. SpendingInv => SpendingTypeOK  BY DEF SpendingInv, SpendingTyped
<1> QED  BY <1>1, SpendingKept, SpendingAssumption, PTL

\* A reading has a state the worker knows, and no worker holds a target that was
\* not handed out (discover.ts).
THEOREM DiscoveryTypes == DiscoverySpec => []DiscoveryTypeOK
<1> USE DiscoveryAssumption
<1>1. DiscoveryInit => ReadingInv  BY ReadingStarts
<1>2. ReadingInv /\ [DiscoveryNext]_discoveryVars => ReadingInv'  BY ReadingKept
<1>3. ReadingInv => DiscoveryTypeOK  BY DEF ReadingInv, Progressing, DiscoveryTypeOK
<1> QED  BY <1>1, <1>2, <1>3, PTL DEF DiscoverySpec

=============================================================================
