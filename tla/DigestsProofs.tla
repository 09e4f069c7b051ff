--------------------------- MODULE DigestsProofs ---------------------------
(***************************************************************************)
(* What TLAPS proves of Digests for any events, hour, month, longest       *)
(* window and length of time: builds that do not overlap neither repeat an *)
(* hour, nor an event, nor forget one.  And of Cards, for any window of    *)
(* news and any limits: whatever the channel, each change is told.         *)
(***************************************************************************)
EXTENDS Digests, Cards, FunctionTheorems, FiniteSetTheorems, TLAPS

-----------------------------------------------------------------------------
(* The inductive invariant *)

Regular == digests \cup reports

\* Some digest or report ends last, and none ends in the future.
LastEnds ==
    /\ Regular # {} => \E d \in Regular : \A c \in Regular : c.end <= d.end
    /\ \A d \in digests : d.end <= now
    /\ Start <= now

\* The window of a build has ended, and began no longer than MaxWindow before.
WindowEnds ==
    \A b \in Builders : build[b].op # "idle" =>
        Start <= build[b].end /\ build[b].end <= now

OneBuilds == \A b, c \in Builders : build[b].op # "idle" /\ build[c].op # "idle" => b = c

\* A window that is under way begins where the last digest ended or later, in an
\* hour that has no digest; there may be a gap only before the longest window, or
\* after a report.
Follows(w) ==
    /\ \A d \in digests : d.end <= w.start /\ d.end < windowEndFor(w.end)
    /\ w.isFirst => digests = {}
    /\ digests # {} => w.end - w.start = MaxWindow \/ \E d \in Regular : d.end = w.start

\* What is loaded of a window is all there will ever be in it.
Holds(w, gone) ==
    /\ \A e \in w.shown : In(e, w.start, w.end)
    /\ \A e \in AllEvents : In(e, w.start, w.end) => e \in w.shown \/ e \in gone

Apart ==
    \A c, d \in digests : c # d =>
        /\ c.end <= d.start \/ d.end <= c.start
        /\ windowEndFor(c.end) # windowEndFor(d.end)

Alone ==
    /\ OneBuilds /\ Apart
    /\ \A b \in Builders : build[b].op # "idle" => Follows(build[b])
    /\ \A b \in Builders : build[b].op = "write" => Holds(build[b], build[b].left)
    /\ \A d \in digests : Holds(d, left)

DigestsInv ==
    /\ DigestsTypeOK /\ LastEnds /\ WindowEnds
    /\ ~overlapped => Alone
    /\ NoneForgotten

-----------------------------------------------------------------------------
(* Lemmas on the operators *)

LEMMA HourBegins ==
    ASSUME DigestsAssumption, NEW t \in Nat
    PROVE  windowEndFor(t) \in Nat /\ windowEndFor(t) <= t
<1>1. HourLength \in Nat \ {0}  BY DEF DigestsAssumption
<1>2. \A n \in Nat : \A m \in Nat \ {0} : n % m \in Nat /\ n % m <= n  OBVIOUS
<1> QED  BY <1>1, <1>2 DEF windowEndFor

LEMMA lastMonthTyped ==
    ASSUME DigestsAssumption, DigestsTypeOK, lastMonth.start >= 0
    PROVE  lastMonth \in [start: Time, end: Time] /\ lastMonth.end <= now
<1>1. MonthLength \in Nat \ {0} /\ now \in Nat /\ MaxMoment \in Nat /\ now <= MaxMoment
  BY DEF DigestsAssumption, DigestsTypeOK, Time
<1>2. \A n \in Nat : \A m \in Nat \ {0} : n % m \in Nat /\ n % m <= n  OBVIOUS
<1>3. windowEndFor(now) \in Nat /\ windowEndFor(now) <= now  BY <1>1, HourBegins
<1> DEFINE end == windowEndFor(now) - (windowEndFor(now) % MonthLength)
<1>4. end \in Nat /\ end <= windowEndFor(now)  BY <1>1, <1>2, <1>3
<1>5. lastMonth = [start |-> end - MonthLength, end |-> end]  BY DEF lastMonth
<1> HIDE DEF end
<1> QED  BY <1>1, <1>3, <1>4, <1>5 DEF Time

\* The end of the last digest or report, when there is one.
LEMMA PreviousEnd ==
    ASSUME DigestsAssumption, DigestsInv
    PROVE  /\ Regular = {} => findPreviousRegularEnd = none
           /\ Regular # {} => /\ \E d \in Regular : findPreviousRegularEnd = d.end
                              /\ \A d \in Regular : d.end <= findPreviousRegularEnd
                              /\ findPreviousRegularEnd # none
           /\ findPreviousRegularEnd \in Time \cup {none}
<1>1. Regular = {} => findPreviousRegularEnd = none  BY DEF Regular, findPreviousRegularEnd
<1>2. \A d \in Regular : d.end \in Time
  BY DEF Regular, DigestsInv, DigestsTypeOK
<1>3. ASSUME Regular # {}
      PROVE  /\ \E d \in Regular : findPreviousRegularEnd = d.end
             /\ \A d \in Regular : d.end <= findPreviousRegularEnd
  <2> DEFINE Ends == {d.end : d \in Regular}
  <2>1. findPreviousRegularEnd = Max(Ends)  BY <1>3 DEF Regular, findPreviousRegularEnd
  <2>2. \E x \in Ends : \A y \in Ends : x >= y
    <3>1. PICK d \in Regular : \A c \in Regular : c.end <= d.end  BY <1>3 DEF DigestsInv, LastEnds
    <3> QED  BY <3>1
  <2>3. Max(Ends) \in Ends /\ \A y \in Ends : Max(Ends) >= y  BY <2>2 DEF Max
  <2> QED  BY <2>1, <2>3
<1>4. none \notin Time  BY DEF none, Time, DigestsAssumption
<1> QED  BY <1>1, <1>2, <1>3, <1>4

Building == [op: {"idle", "load", "write"}, start: Time, end: Time,
             isFirst: BOOLEAN, shown: SUBSET AllEvents, left: SUBSET AllEvents]

LEMMA IdleTyped == ASSUME DigestsAssumption PROVE Idle.op = "idle" /\ Idle \in Building
  BY DEF DigestsAssumption, Idle, Building, Time

-----------------------------------------------------------------------------
(* One lemma for each action *)

LEMMA InitInv == ASSUME DigestsAssumption, DigestsInit PROVE DigestsInv
<1>1. DigestsTypeOK
  <2>1. build \in [Builders -> Building]  BY IdleTyped DEF DigestsInit
  <2>2. Start \in Time  BY DEF DigestsAssumption, Time
  <2> QED  BY <2>1, <2>2 DEF DigestsInit, DigestsTypeOK, Building
<1>2. LastEnds  BY DEF DigestsInit, LastEnds, Regular, DigestsAssumption
<1>3. \A b \in Builders : build[b].op = "idle"  BY IdleTyped DEF DigestsInit
<1>4. WindowEnds  BY <1>3 DEF WindowEnds
<1>5. Alone  BY <1>3 DEF DigestsInit, Alone, OneBuilds, Apart
<1>6. NoneForgotten  BY DEF DigestsInit, NoneForgotten
<1> QED  BY <1>1, <1>2, <1>4, <1>5, <1>6 DEF DigestsInv

\* Time, pausing and writing up; no window and no event is touched.
LEMMA StillInv ==
    ASSUME DigestsAssumption, DigestsInv, DigestsTypeOK', now <= now',
           UNCHANGED <<created, digests, reports, build, overlapped, left>>
    PROVE  DigestsInv'
<1>1. now \in Nat /\ now' \in Nat /\ Start \in Nat  BY DEF DigestsInv, DigestsTypeOK, Time, DigestsAssumption
<1>2. LastEnds'
  <2>1. \A d \in digests : d.end \in Nat  BY DEF DigestsInv, DigestsTypeOK, Time
  <2> QED  BY <1>1, <2>1 DEF DigestsInv, LastEnds, Regular
<1>3. WindowEnds'
  <2>1. \A b \in Builders : build[b].end \in Nat  BY DEF DigestsInv, DigestsTypeOK, Time
  <2> QED  BY <1>1, <2>1 DEF DigestsInv, WindowEnds
<1>4. \A w, x : Follows(w)' = Follows(w) /\ Holds(w, x)' = Holds(w, x)
  BY DEF Follows, Holds, In, Regular, windowEndFor
<1>5. ~overlapped' => Alone'
  BY <1>4 DEF DigestsInv, Alone, OneBuilds, Apart, windowEndFor, Holds, In
<1>6. NoneForgotten'  BY DEF DigestsInv, NoneForgotten
<1> QED  BY <1>2, <1>3, <1>5, <1>6 DEF DigestsInv

LEMMA CreateEventInv ==
    ASSUME DigestsAssumption, DigestsInv, NEW e \in AllEvents, CreateEvent(e)
    PROVE  DigestsInv'
<1>0. /\ created[e] = none /\ created' = [created EXCEPT ![e] = now] /\ now \in Time
      /\ UNCHANGED <<now, facts, paused, digests, reports, build, overlapped, left>>
  BY DEF CreateEvent, DigestsInv, DigestsTypeOK
<1>1. DigestsTypeOK'  BY <1>0 DEF DigestsInv, DigestsTypeOK
<1>2. LastEnds' /\ WindowEnds'  BY <1>0 DEF DigestsInv, LastEnds, WindowEnds, Regular
<1>3. ASSUME NEW end \in Time, end <= now, NEW start, NEW x \in AllEvents
      PROVE  In(x, start, end)' = In(x, start, end)
  <2>1. CASE x = e
    <3>1. created'[x] = now  BY <1>0, <2>1 DEF DigestsInv, DigestsTypeOK
    <3>2. ~(now < end)  BY <1>3, <1>0 DEF Time, DigestsAssumption
    <3> QED  BY <3>1, <3>2, <2>1, <1>0 DEF In
  <2>2. CASE x # e
    <3>1. created'[x] = created[x]  BY <1>0, <2>2 DEF DigestsInv, DigestsTypeOK
    <3> QED  BY <3>1 DEF In
  <2> QED  BY <2>1, <2>2
<1>4. ~overlapped' => Alone'
  <2>1. SUFFICES ASSUME ~overlapped PROVE Alone'  BY <1>0
  <2>2. OneBuilds' /\ Apart' /\ \A b \in Builders : build'[b].op # "idle" => Follows(build[b])'
    BY <2>1, <1>0 DEF DigestsInv, Alone, OneBuilds, Apart, windowEndFor, Follows, Regular
  <2>3. \A b \in Builders : build'[b].op = "write" => Holds(build[b], build[b].left)'
    <3>1. SUFFICES ASSUME NEW b \in Builders, build[b].op = "write"
                   PROVE  Holds(build[b], build[b].left)'
      BY <1>0
    <3>2. /\ build[b].end \in Time /\ build[b].end <= now /\ build[b].shown \subseteq AllEvents
          /\ Holds(build[b], build[b].left)
      BY <2>1, <3>1 DEF DigestsInv, WindowEnds, DigestsTypeOK, Alone
    <3> QED  BY <3>2, <1>0, <1>3 DEF Holds
  <2>4. \A d \in digests : Holds(d, left)'
    <3>1. SUFFICES ASSUME NEW d \in digests PROVE Holds(d, left)'  OBVIOUS
    <3>2. d.end \in Time /\ d.end <= now /\ d.shown \subseteq AllEvents /\ Holds(d, left)
      BY <2>1 DEF DigestsInv, LastEnds, DigestsTypeOK, Alone
    <3> QED  BY <3>2, <1>0, <1>3 DEF Holds
  <2> QED  BY <2>2, <2>3, <2>4, <1>0 DEF Alone
<1>5. NoneForgotten'
  <2>1. \A d \in digests : d.end \in Time /\ ~(now < d.end)
    BY DEF DigestsInv, LastEnds, DigestsTypeOK, Time, DigestsAssumption
  <2>2. created'[e] = now /\ \A x \in AllEvents \ {e} : created'[x] = created[x]
    BY <1>0 DEF DigestsInv, DigestsTypeOK
  <2> QED  BY <2>1, <2>2, <1>0 DEF DigestsInv, NoneForgotten
<1> QED  BY <1>1, <1>2, <1>4, <1>5 DEF DigestsInv

LEMMA BeginBuildInv ==
    ASSUME DigestsAssumption, DigestsInv, NEW b \in Builders, BeginBuild(b)
    PROVE  DigestsInv'
<1> DEFINE prev == findPreviousRegularEnd
           start == later(IF prev # none THEN prev ELSE now - FirstRunSpan, now - MaxWindow)
<1>1. /\ now \in Time /\ now \in Nat /\ prev \in Time \cup {none} /\ Start <= now
      /\ MaxWindow <= now /\ FirstRunSpan <= MaxWindow /\ MaxWindow \in Nat /\ FirstRunSpan \in Nat
  BY PreviousEnd DEF DigestsInv, DigestsTypeOK, LastEnds, Time, DigestsAssumption
<1>2. start \in Time
  <2>1. now - FirstRunSpan \in Time /\ now - MaxWindow \in Time  BY <1>1 DEF Time, DigestsAssumption
  <2> QED  BY <1>1, <2>1 DEF later
<1>3. start >= now - MaxWindow /\ (prev # none => start >= prev /\ start \in {prev, now - MaxWindow})
  BY <1>1 DEF later, Time, DigestsAssumption
<1>4. PICK w \in Building : w = [Idle EXCEPT !.op = "load", !.start = start, !.end = now,
                                             !.isFirst = prev = none]
  <2>1. (prev = none) \in BOOLEAN  OBVIOUS
  <2> HIDE DEF start, prev
  <2> QED  BY <1>1, <1>2, <2>1, IdleTyped DEF Building
<1>5. w.op = "load" /\ w.start = start /\ w.end = now /\ w.isFirst = (prev = none)
  BY <1>4, IdleTyped DEF Building
<1>6. /\ build' = [build EXCEPT ![b] = w]
      /\ build[b].op = "idle" /\ ~BuiltThisHour(prev, now)
      /\ overlapped' = (overlapped \/ \E c \in Builders \ {b} : build[c].op # "idle")
      /\ UNCHANGED <<now, eventVars, digests, reports, left>>
  BY <1>4 DEF BeginBuild, planWindow
<1> HIDE DEF start
<1>7. build'[b] = w /\ \A c \in Builders \ {b} : build'[c] = build[c]
  BY <1>6 DEF DigestsInv, DigestsTypeOK
<1>8. DigestsTypeOK'
  <2>1. build' \in [Builders -> Building]  BY <1>6 DEF DigestsInv, DigestsTypeOK, Building
  <2>2. overlapped' \in BOOLEAN  BY <1>6
  <2> QED  BY <2>1, <2>2, <1>6 DEF DigestsInv, DigestsTypeOK, Building, eventVars
<1>9. LastEnds'  BY <1>6 DEF DigestsInv, LastEnds, Regular
<1>10. WindowEnds'  BY <1>1, <1>5, <1>6, <1>7 DEF DigestsInv, WindowEnds
<1>11. ~overlapped' => Alone'
  <2>1. SUFFICES ASSUME ~overlapped' PROVE Alone'  OBVIOUS
  <2>2. Alone /\ \A c \in Builders \ {b} : build[c].op = "idle"  BY <2>1, <1>6 DEF DigestsInv
  <2>3. Follows(w)
    <3>1. prev # none => ~(prev >= windowEndFor(now))  BY <1>6 DEF BuiltThisHour
    <3>2. \A d \in digests : d \in Regular /\ d.end \in Time /\ d.end <= prev /\ prev # none
      BY PreviousEnd DEF Regular, DigestsInv, DigestsTypeOK
    <3>3. windowEndFor(now) \in Nat  BY <1>1, HourBegins
    <3>4. \A d \in digests : d.end <= start /\ d.end < windowEndFor(now)
      BY <3>1, <3>2, <3>3, <1>1, <1>2, <1>3 DEF Time, DigestsAssumption
    <3>5. digests # {} => now - start = MaxWindow \/ \E d \in Regular : d.end = start
      <4>1. SUFFICES ASSUME digests # {}, start = prev
                     PROVE  \E d \in Regular : d.end = start
        BY <1>1, <1>2, <1>3, <3>2 DEF Time, DigestsAssumption
      <4>2. Regular # {}  BY <4>1 DEF Regular
      <4> QED  BY <4>1, <4>2, PreviousEnd
    <3> QED  BY <3>2, <3>4, <3>5, <1>5 DEF Follows
  <2>4. Follows(w)' = Follows(w)  BY <1>6 DEF Follows, Regular, windowEndFor
  <2>5. OneBuilds' /\ Apart'  BY <2>2, <1>6, <1>7 DEF Alone, OneBuilds, Apart, windowEndFor
  <2>6. \A c \in Builders : build'[c].op # "idle" => Follows(build[c])'
    BY <2>2, <2>3, <2>4, <1>6, <1>7 DEF Follows, Regular, windowEndFor
  <2>7. \A c \in Builders : build'[c].op = "write" => Holds(build[c], build[c].left)'
    BY <2>2, <1>5, <1>7
  <2>8. \A d \in digests : Holds(d, left)' = Holds(d, left)  BY <1>6 DEF Holds, In, eventVars
  <2> QED  BY <2>2, <2>5, <2>6, <2>7, <2>8, <1>6 DEF Alone, Holds, In, eventVars
<1>12. NoneForgotten'  BY <1>6 DEF DigestsInv, NoneForgotten, eventVars
<1> QED  BY <1>8, <1>9, <1>10, <1>11, <1>12 DEF DigestsInv

LEMMA LoadInv ==
    ASSUME DigestsAssumption, DigestsInv, NEW b \in Builders, Load(b)
    PROVE  DigestsInv'
<1> DEFINE widen == build[b].isFirst /\ loadEvents(build[b].start, build[b].end) = {}
           start == IF widen THEN build[b].end - MaxWindow ELSE build[b].start
           events == loadEvents(start, build[b].end)
<1>1. PICK market \in SUBSET (events \cap Market) :
          build' = [build EXCEPT ![b].op = "write", ![b].start = start,
                      ![b].shown = (events \cap Own) \cup market,
                      ![b].left = {e \in AllEvents : In(e, start, build[b].end)}
                                      \ ((events \cap Own) \cup market)]
  BY DEF Load
<1>2. /\ build[b] \in Building /\ build[b].op = "load" /\ Start <= build[b].end /\ build[b].end <= now
      /\ UNCHANGED <<now, eventVars, digests, reports, overlapped, left>>
  BY DEF Load, DigestsInv, DigestsTypeOK, Building, WindowEnds
<1>3. start \in Time
  <2>1. build[b].end - MaxWindow \in Time /\ build[b].start \in Time
    BY <1>2 DEF Time, DigestsAssumption, Building
  <2> QED  BY <2>1
<1>4. events \subseteq {e \in AllEvents : In(e, start, build[b].end)}  BY DEF loadEvents
<1> DEFINE shown == (events \cap Own) \cup market
           gone == {e \in AllEvents : In(e, start, build[b].end)} \ shown
<1>5. PICK w \in Building : w = [build[b] EXCEPT !.op = "write", !.start = start, !.shown = shown, !.left = gone]
  <2>1. shown \in SUBSET AllEvents /\ gone \in SUBSET AllEvents  BY <1>4 DEF AllEvents
  <2> HIDE DEF start, shown, gone
  <2> QED  BY <1>2, <1>3, <2>1 DEF Building
<1>6. /\ w.op = "write" /\ w.start = start /\ w.end = build[b].end /\ w.isFirst = build[b].isFirst
      /\ w.shown = shown /\ w.left = gone
  BY <1>2, <1>5 DEF Building
<1>7. build' = [build EXCEPT ![b] = w]
  <2> HIDE DEF start
  <2> QED  BY <1>1, <1>5 DEF DigestsInv, DigestsTypeOK
<1>8. Holds(w, w.left)  BY <1>4, <1>6 DEF Holds
<1>9. ~overlapped => Follows(w)
  <2>1. SUFFICES ASSUME ~overlapped PROVE Follows(w)  OBVIOUS
  <2>2. Follows(build[b])  BY <2>1, <1>2 DEF DigestsInv, Alone
  <2>3. CASE widen
    <3>1. digests = {}  BY <2>2, <2>3 DEF Follows
    <3> QED  BY <3>1 DEF Follows
  <2>4. CASE ~widen
    <3>1. w.start = build[b].start  BY <2>4, <1>6
    <3> QED  BY <3>1, <2>2, <1>6 DEF Follows
  <2> QED  BY <2>3, <2>4
<1> HIDE DEF start, shown, gone
<1>10. build'[b] = w /\ \A c \in Builders \ {b} : build'[c] = build[c]
  BY <1>7 DEF DigestsInv, DigestsTypeOK
<1>11. DigestsTypeOK'
  <2>1. build' \in [Builders -> Building]  BY <1>7 DEF DigestsInv, DigestsTypeOK, Building
  <2> QED  BY <2>1, <1>2 DEF DigestsInv, DigestsTypeOK, Building, eventVars
<1>12. LastEnds' /\ WindowEnds'
  BY <1>2, <1>6, <1>10 DEF DigestsInv, LastEnds, WindowEnds, Regular
<1>13. ~overlapped' => Alone'
  <2>1. SUFFICES ASSUME ~overlapped PROVE Alone'  BY <1>2
  <2>2. Alone  BY <2>1 DEF DigestsInv
  <2>3. \A v, x : Follows(v)' = Follows(v) /\ Holds(v, x)' = Holds(v, x)
    BY <1>2 DEF Follows, Holds, In, Regular, windowEndFor, eventVars
  <2>4. OneBuilds' /\ Apart'
    BY <2>2, <1>2, <1>6, <1>10 DEF Alone, OneBuilds, Apart, windowEndFor
  <2>5. \A c \in Builders : build'[c].op # "idle" => Follows(build'[c])
    BY <2>1, <2>2, <1>9, <1>10 DEF Alone
  <2>6. \A c \in Builders : build'[c].op = "write" => Holds(build'[c], build'[c].left)
    BY <2>2, <1>8, <1>10 DEF Alone
  <2>7. \A d \in digests : Holds(d, left)  BY <2>2 DEF Alone
  <2> QED  BY <2>3, <2>4, <2>5, <2>6, <2>7, <1>2 DEF Alone, Follows, Holds, In, Regular, windowEndFor, eventVars
<1>14. NoneForgotten'  BY <1>2 DEF DigestsInv, NoneForgotten, eventVars
<1> QED  BY <1>11, <1>12, <1>13, <1>14 DEF DigestsInv

\* A builder comes to rest.
LEMMA BuilderRests ==
    ASSUME DigestsAssumption, DigestsInv, NEW b \in Builders, build' = [build EXCEPT ![b] = Idle]
    PROVE  /\ build' \in [Builders -> Building]
           /\ build'[b].op = "idle" /\ \A c \in Builders \ {b} : build'[c] = build[c]
  BY IdleTyped DEF DigestsInv, DigestsTypeOK, Building

LEMMA BuildDiesInv ==
    ASSUME DigestsAssumption, DigestsInv, NEW b \in Builders, BuildDies(b)
    PROVE  DigestsInv'
<1>1. /\ build' \in [Builders -> Building]
      /\ build'[b].op = "idle" /\ \A c \in Builders \ {b} : build'[c] = build[c]
  BY BuilderRests DEF BuildDies
<1>2. UNCHANGED <<now, eventVars, digests, reports, overlapped, left>>  BY DEF BuildDies
<1>3. DigestsTypeOK'  BY <1>1, <1>2 DEF DigestsInv, DigestsTypeOK, Building, eventVars
<1>4. LastEnds' /\ WindowEnds'
  BY <1>1, <1>2 DEF DigestsInv, LastEnds, WindowEnds, Regular
<1>5. ~overlapped' => Alone'
  <2>1. SUFFICES ASSUME Alone PROVE Alone'  BY <1>2 DEF DigestsInv
  <2>2. \A v, x : Follows(v)' = Follows(v) /\ Holds(v, x)' = Holds(v, x)
    BY <1>2 DEF Follows, Holds, In, Regular, windowEndFor, eventVars
  <2>3. OneBuilds' /\ Apart'  BY <2>1, <1>1, <1>2 DEF Alone, OneBuilds, Apart, windowEndFor
  <2>4. \A c \in Builders : /\ build'[c].op # "idle" => Follows(build'[c])
                            /\ build'[c].op = "write" => Holds(build'[c], build'[c].left)
    BY <2>1, <1>1 DEF Alone
  <2>5. \A d \in digests : Holds(d, left)  BY <2>1 DEF Alone
  <2> QED  BY <2>2, <2>3, <2>4, <2>5, <1>2 DEF Alone, Follows, Holds, In, Regular, windowEndFor, eventVars
<1>6. NoneForgotten'  BY <1>2 DEF DigestsInv, NoneForgotten, eventVars
<1> QED  BY <1>3, <1>4, <1>5, <1>6 DEF DigestsInv

\* A report neither moves a window nor shows an event; it only ends somewhere.
LEMMA persistMonthlyReportInv ==
    ASSUME DigestsAssumption, DigestsInv, persistMonthlyReport
    PROVE  DigestsInv'
<1>1. /\ reports' = reports \cup {lastMonth}
      /\ UNCHANGED <<now, eventVars, digests, build, overlapped, left>>
  BY DEF persistMonthlyReport
<1>2. lastMonth \in [start: Time, end: Time]
  BY lastMonthTyped DEF persistMonthlyReport, DigestsInv
<1> DEFINE r == lastMonth
<1>3. Regular' = Regular \cup {r}  BY <1>1 DEF Regular
<1> HIDE DEF r
<1>4. DigestsTypeOK'  BY <1>1, <1>2 DEF DigestsInv, DigestsTypeOK, eventVars
<1>5. LastEnds'
  <2>1. \A d \in Regular : d.end \in Nat  BY DEF Regular, DigestsInv, DigestsTypeOK, Time
  <2>2. r.end \in Nat  BY <1>2 DEF r, Time
  <2>3. \E d \in Regular' : \A c \in Regular' : c.end <= d.end
    <3>1. CASE Regular = {}  BY <3>1, <1>3, <2>2
    <3>2. CASE Regular # {}
      <4>1. PICK d \in Regular : \A c \in Regular : c.end <= d.end  BY <3>2 DEF DigestsInv, LastEnds
      <4>2. CASE r.end <= d.end  BY <4>1, <4>2, <1>3
      <4>3. CASE d.end < r.end
        <5>1. \A c \in Regular : c.end <= r.end  BY <4>1, <4>3, <2>1, <2>2
        <5> QED  BY <5>1, <1>3, <2>2
      <4> QED  BY <4>2, <4>3, <2>1, <2>2
    <3> QED  BY <3>1, <3>2
  <2> QED  BY <2>3, <1>1 DEF DigestsInv, LastEnds
<1>6. WindowEnds'  BY <1>1 DEF DigestsInv, WindowEnds
<1>7. ~overlapped' => Alone'
  <2>1. SUFFICES ASSUME Alone PROVE Alone'  BY <1>1 DEF DigestsInv
  <2>2. \A v, x : (Follows(v) => Follows(v)') /\ Holds(v, x)' = Holds(v, x)
    BY <1>1, <1>3 DEF Follows, Holds, In, windowEndFor, eventVars
  <2>3. OneBuilds' /\ Apart'  BY <2>1, <1>1 DEF Alone, OneBuilds, Apart, windowEndFor
  <2>4. \A c \in Builders : build[c].op # "idle" => Follows(build[c])'
    BY <2>1, <1>1, <1>3 DEF Alone, Follows, windowEndFor
  <2> QED  BY <2>1, <2>3, <2>4, <1>1 DEF Alone, Holds, In, eventVars
<1>8. NoneForgotten'
  <2>1. reports \subseteq reports'  BY <1>1
  <2> QED  BY <2>1, <1>1 DEF DigestsInv, NoneForgotten, eventVars
<1> QED  BY <1>4, <1>5, <1>6, <1>7, <1>8 DEF DigestsInv

LEMMA writeDigestInv ==
    ASSUME DigestsAssumption, DigestsInv, NEW b \in Builders, writeDigest(b)
    PROVE  DigestsInv'
<1>1. /\ build' \in [Builders -> Building]
      /\ build'[b].op = "idle" /\ \A c \in Builders \ {b} : build'[c] = build[c]
  BY BuilderRests DEF writeDigest
<1>2. PICK n : n = [start |-> build[b].start, end |-> build[b].end, shown |-> build[b].shown]
  OBVIOUS
<1>3. /\ digests' = digests \/ digests' = digests \cup {n}
      /\ left' = left \cup build[b].left /\ build[b].op = "write"
      /\ UNCHANGED <<now, eventVars, reports, overlapped>>
  BY <1>2 DEF writeDigest
<1>4. /\ build[b] \in Building /\ build[b].end <= now /\ Start <= build[b].end
      /\ n \in [start: Time, end: Time, shown: SUBSET AllEvents]
  BY <1>2, <1>3 DEF DigestsInv, DigestsTypeOK, Building, WindowEnds
<1>5. DigestsTypeOK'
  BY <1>1, <1>3, <1>4 DEF DigestsInv, DigestsTypeOK, Building, eventVars
<1>6. LastEnds'
  <2>1. CASE digests' = digests  BY <2>1, <1>3 DEF DigestsInv, LastEnds, Regular
  <2>2. CASE digests' = digests \cup {n}
    <3>1. \A d \in Regular : d.end \in Nat  BY DEF Regular, DigestsInv, DigestsTypeOK, Time
    <3>2. n.end \in Nat /\ n.end <= now  BY <1>2, <1>4 DEF Time
    <3>3. Regular' = Regular \cup {n}  BY <2>2, <1>3 DEF Regular
    <3>4. \E d \in Regular' : \A c \in Regular' : c.end <= d.end
      <4>1. CASE Regular = {}  BY <4>1, <3>2, <3>3
      <4>2. CASE Regular # {}
        <5>1. PICK d \in Regular : \A c \in Regular : c.end <= d.end  BY <4>2 DEF DigestsInv, LastEnds
        <5>2. CASE n.end <= d.end  BY <5>1, <5>2, <3>3
        <5>3. CASE d.end < n.end
          <6>1. \A c \in Regular : c.end <= n.end  BY <5>1, <5>3, <3>1, <3>2
          <6> QED  BY <6>1, <3>2, <3>3
        <5> QED  BY <5>2, <5>3, <3>1, <3>2
      <4> QED  BY <4>1, <4>2
    <3> QED  BY <3>2, <3>4, <2>2, <1>3 DEF DigestsInv, LastEnds
  <2> QED  BY <2>1, <2>2, <1>3
<1>7. WindowEnds'  BY <1>1, <1>3 DEF DigestsInv, WindowEnds
<1>8. ASSUME ~overlapped
      PROVE  /\ Alone /\ Follows(build[b]) /\ Holds(build[b], build[b].left)
             /\ \A c \in Builders \ {b} : build[c].op = "idle"
  BY <1>3, <1>8 DEF DigestsInv, Alone, OneBuilds
<1>9. \A v, x : Holds(v, x)' = Holds(v, x)  BY <1>3 DEF Holds, In, eventVars
<1>10. ASSUME ~overlapped
       PROVE  /\ \A d \in digests : d.end <= n.start /\ d.end < windowEndFor(n.end)
              /\ Holds(n, build[b].left)
  BY <1>2, <1>8, <1>10 DEF Follows, Holds
<1>11. ~overlapped' => Alone'
  <2>1. SUFFICES ASSUME ~overlapped PROVE Alone'  BY <1>3
  <2>2. \A c \in Builders : build'[c].op = "idle"  BY <2>1, <1>1, <1>8
  <2>3. \A d \in digests' : Holds(d, left')
    <3>1. Holds(n, left')  BY <2>1, <1>3, <1>10 DEF Holds
    <3>2. \A d \in digests : Holds(d, left')  BY <2>1, <1>3, <1>8 DEF Alone, Holds
    <3> QED  BY <3>1, <3>2, <1>3
  <2>4. Apart'
    <3>1. \A d \in digests : windowEndFor(d.end) \in Nat /\ windowEndFor(d.end) <= d.end /\ d.end \in Nat
      BY HourBegins DEF DigestsInv, DigestsTypeOK, Time
    <3>2. windowEndFor(n.end) \in Nat  BY HourBegins, <1>4 DEF Time
    <3>3. \A d \in digests : d.end <= n.start /\ windowEndFor(d.end) # windowEndFor(n.end)
      BY <2>1, <1>10, <3>1, <3>2
    <3>4. Apart  BY <2>1, <1>8 DEF Alone
    <3> QED  BY <3>3, <3>4, <1>3 DEF Apart, windowEndFor
  <2>5. OneBuilds'  BY <2>2 DEF OneBuilds
  <2> QED  BY <2>2, <2>3, <2>4, <2>5, <1>9 DEF Alone, Holds, In
\* An event that a new digest brings between the first window and the last was
\* created after all the digests there were; so it is in its window, or the
\* window begins after it.
<1>12. NoneForgotten'
  <2>1. CASE digests' = digests
    <3>1. left \subseteq left'  BY <1>3
    <3> QED  BY <2>1, <3>1, <1>3 DEF DigestsInv, NoneForgotten, eventVars
  <2>2. CASE digests' = digests \cup {n}
    <3>1. SUFFICES ASSUME ~overlapped, NEW e \in AllEvents, e \notin left', created[e] # none,
                          NEW c \in digests', NEW d \in digests',
                          created[e] >= c.start, created[e] < d.end
                   PROVE  \/ \E x \in digests' : e \in x.shown
                          \/ \E x \in digests' : x.end - x.start = MaxWindow /\ created[e] < x.start
                          \/ \E r \in reports : created[e] < r.end
      BY <1>3 DEF NoneForgotten, eventVars
    <3>2. created[e] \in Nat /\ n.start \in Nat /\ n.end \in Nat
          /\ \A x \in digests : x.end \in Nat /\ x.start \in Nat
      BY <3>1, <1>4 DEF DigestsInv, DigestsTypeOK, Time, none
    <3>3. e \notin left /\ e \notin build[b].left  BY <3>1, <1>3
    <3>4. CASE created[e] >= n.start /\ created[e] < n.end
      <4>1. In(e, n.start, n.end)  BY <3>1, <3>4 DEF In
      <4> QED  BY <4>1, <3>1, <3>3, <1>10, <2>2 DEF Holds
    <3>5. CASE \E x \in digests, y \in digests : created[e] >= x.start /\ created[e] < y.end
      <4>1. \/ \E x \in digests : e \in x.shown
            \/ \E x \in digests : x.end - x.start = MaxWindow /\ created[e] < x.start
            \/ \E r \in reports : created[e] < r.end
        BY <3>1, <3>3, <3>5 DEF DigestsInv, NoneForgotten
      <4> QED  BY <4>1, <2>2
    <3>6. CASE created[e] < n.start /\ ~\E x \in digests, y \in digests : created[e] >= x.start /\ created[e] < y.end
      <4>1. c \in digests  BY <3>1, <3>6, <3>2, <2>2
      <4>2. \A y \in digests : created[e] >= y.end  BY <3>1, <3>2, <3>6, <4>1
      <4>3. n.end - n.start = MaxWindow \/ \E x \in Regular : x.end = n.start
        BY <4>1, <3>1, <1>2, <1>8 DEF Follows
      <4>4. CASE n.end - n.start = MaxWindow  BY <4>4, <3>6, <2>2
      <4>5. CASE \E x \in Regular : x.end = n.start  BY <4>2, <4>5, <3>2, <3>6 DEF Regular
      <4> QED  BY <4>3, <4>4, <4>5
    <3>7. created[e] >= n.start => created[e] < n.end
      <4>1. \A x \in digests : x.end <= n.start  BY <3>1, <1>10
      <4>2. CASE d = n  BY <3>1, <4>2
      <4>3. CASE d \in digests /\ created[e] >= n.start  BY <4>1, <4>3, <3>1, <3>2
      <4> QED  BY <4>2, <4>3, <3>1, <2>2
    <3> QED  BY <3>2, <3>4, <3>5, <3>6, <3>7
  <2> QED  BY <2>1, <2>2, <1>3
<1> QED  BY <1>5, <1>6, <1>7, <1>11, <1>12 DEF DigestsInv

LEMMA NextInv ==
    ASSUME DigestsAssumption, DigestsInv, [DigestsNext]_digestsVars
    PROVE  DigestsInv'
<1>1. CASE UNCHANGED digestsVars
  <2>1. DigestsTypeOK'  BY <1>1 DEF digestsVars, eventVars, DigestsInv, DigestsTypeOK
  <2>2. now' = now /\ now \in Nat  BY <1>1 DEF digestsVars, DigestsInv, DigestsTypeOK, Time
  <2> QED  BY <1>1, <2>1, <2>2, StillInv DEF digestsVars, eventVars
<1>2. CASE Tick
  <2>1. now \in Nat /\ now' = now + 1 /\ now + 1 \in Time
    BY <1>2 DEF Tick, DigestsInv, DigestsTypeOK, Time, DigestsAssumption
  <2>2. DigestsTypeOK'  BY <1>2, <2>1 DEF Tick, eventVars, DigestsInv, DigestsTypeOK
  <2> QED  BY <1>2, <2>1, <2>2, StillInv DEF Tick, eventVars
<1>3. CASE PauseTarget \/ \E e \in AllEvents : WriteUpEvent(e)
  <2>1. DigestsTypeOK'  BY <1>3 DEF PauseTarget, WriteUpEvent, DigestsInv, DigestsTypeOK
  <2>2. now' = now /\ now \in Nat
    BY <1>3 DEF PauseTarget, WriteUpEvent, DigestsInv, DigestsTypeOK, Time
  <2> QED  BY <1>3, <2>1, <2>2, StillInv DEF PauseTarget, WriteUpEvent
<1> QED  BY <1>1, <1>2, <1>3, CreateEventInv, BeginBuildInv, LoadInv, writeDigestInv, BuildDiesInv,
            persistMonthlyReportInv DEF DigestsNext

-----------------------------------------------------------------------------
(* The theorems *)

LEMMA InvHolds == DigestsSpec => []DigestsInv
<1>1. DigestsInit => DigestsInv  BY InitInv, DigestsAssumption
<1>2. DigestsInv /\ [DigestsNext]_digestsVars => DigestsInv'  BY NextInv, DigestsAssumption
<1> QED  BY <1>1, <1>2, PTL DEF DigestsSpec

\* The digests and builds of build.ts have the shapes the model says.
THEOREM DigestsTypes == DigestsSpec => []DigestsTypeOK
<1>1. DigestsInv => DigestsTypeOK  BY DEF DigestsInv
<1> QED  BY <1>1, InvHolds, PTL

\* Builds that take turns make one regular digest of an hour (build.ts:8).
THEOREM OneDigestPerHour == DigestsSpec => []OnePerHourAlone
<1>1. DigestsInv => OnePerHourAlone
  BY DEF DigestsInv, Alone, Apart, OnePerHourAlone, OnePerHour
<1> QED  BY <1>1, InvHolds, PTL

\* Builds that take turns put an event on the cards of one digest (build.ts:204).
THEOREM EventsShownOnce == DigestsSpec => []ShownOnce
<1>1. DigestsInv => ShownOnce
  <2>1. SUFFICES ASSUME DigestsInv, ~overlapped, NEW c \in digests, NEW d \in digests, c # d,
                        NEW e \in c.shown, e \in d.shown
                 PROVE  FALSE
    BY DEF ShownOnce
  <2>2. In(e, c.start, c.end) /\ In(e, d.start, d.end)  BY <2>1 DEF DigestsInv, Alone, Holds
  <2>3. c.end <= d.start \/ d.end <= c.start  BY <2>1 DEF DigestsInv, Alone, Apart
  <2>4. /\ c.start \in Nat /\ c.end \in Nat /\ d.start \in Nat /\ d.end \in Nat
        /\ created[e] \in Int
    BY <2>1 DEF DigestsInv, DigestsTypeOK, Time, none, DigestsAssumption
  <2> QED  BY <2>2, <2>3, <2>4 DEF In
<1> QED  BY <1>1, InvHolds, PTL

\* Builds that take turns leave no event between their windows, but where the
\* longest window or a report of the month cuts it off (build.ts:100).
THEOREM EventsNotForgotten == DigestsSpec => []NoneForgotten
<1>1. DigestsInv => NoneForgotten  BY DEF DigestsInv
<1> QED  BY <1>1, InvHolds, PTL

-----------------------------------------------------------------------------
(* Sorting and sums *)

\* An order that tells any two of S apart.
Orders(R, S) ==
    /\ \A e \in S : ~Precedes(R, e, e)
    /\ \A e, f \in S : e # f => Precedes(R, e, f) \/ Precedes(R, f, e)
    /\ \A e, f, g \in S : Precedes(R, e, f) /\ Precedes(R, f, g) => Precedes(R, e, g)

\* A list of all of S, n of them, in the order.
Arranges(q, n, S, R) ==
    /\ q \in [1 .. n -> S]
    /\ \A e \in S : \E k \in 1 .. n : q[k] = e
    /\ \A j, k \in 1 .. n : j < k => Precedes(R, q[j], q[k])

LEMMA Sorted ==
    ASSUME NEW S, IsFiniteSet(S), NEW R, Orders(R, S)
    PROVE  Arranges(SortedBy(S, R), Cardinality(S), S, R)
<1> DEFINE Below(e) == {f \in S : Precedes(R, f, e)}
<1>0. PICK rank : rank = [e \in S |-> Cardinality(Below(e))]  OBVIOUS
<1>1. PICK n : n = Cardinality(S) /\ n \in Nat  BY FS_CardinalityType
<1>2. \A e \in S : IsFiniteSet(Below(e)) /\ rank[e] \in 0 .. (n - 1)
  <2>1. SUFFICES ASSUME NEW e \in S PROVE IsFiniteSet(Below(e)) /\ rank[e] \in 0 .. (n - 1)  OBVIOUS
  <2>2. Below(e) \subseteq S \ {e}  BY DEF Orders
  <2>3. IsFiniteSet(S \ {e}) /\ Cardinality(S \ {e}) = n - 1  BY <1>1, FS_RemoveElement
  <2>4. IsFiniteSet(Below(e)) /\ Cardinality(Below(e)) <= n - 1  BY <2>2, <2>3, FS_Subset
  <2>5. Cardinality(Below(e)) \in Nat  BY <2>4, FS_CardinalityType
  <2>6. rank[e] = Cardinality(Below(e))  BY <1>0
  <2> QED  BY <1>1, <2>4, <2>5, <2>6
<1>13. \A e \in S : rank[e] \in 0 .. (n - 1)  BY <1>2
<1>3. ASSUME NEW e \in S, NEW f \in S, Precedes(R, e, f) PROVE rank[e] < rank[f]
  <2>1. Below(e) \cup {e} \subseteq Below(f)  BY <1>3 DEF Orders
  <2>2. e \notin Below(e)  BY DEF Orders
  <2>3. Cardinality(Below(e) \cup {e}) = Cardinality(Below(e)) + 1  BY <1>2, <2>2, FS_AddElement
  <2>4. Cardinality(Below(e) \cup {e}) <= Cardinality(Below(f))  BY <1>2, <2>1, FS_Subset
  <2>5. rank[e] = Cardinality(Below(e)) /\ rank[f] = Cardinality(Below(f))  BY <1>0
  <2>6. rank[e] \in Nat /\ rank[f] \in Nat  BY <1>13
  <2> QED  BY <2>3, <2>4, <2>5, <2>6
<1>4. \A e, f \in S : rank[e] = rank[f] => e = f
  <2>1. SUFFICES ASSUME NEW e \in S, NEW f \in S, rank[e] = rank[f], e # f PROVE FALSE  OBVIOUS
  <2>2. rank[e] < rank[f] \/ rank[f] < rank[e]  BY <1>3, <2>1 DEF Orders
  <2>3. rank[e] \in Int /\ rank[f] \in Int  BY <1>13
  <2> QED  BY <2>1, <2>2, <2>3
<1>5. rank \in Surjection(S, 0 .. (n - 1))
  <2>1. rank \in [S -> 0 .. (n - 1)]  BY <1>0, <1>13
  <2>2. rank \in Injection(S, 0 .. (n - 1))  BY <1>4, <2>1 DEF Injection, IsInjective
  <2>3. IsFiniteSet(0 .. (n - 1)) /\ Cardinality(0 .. (n - 1)) = n
    <3>1. 0 \in Int /\ n - 1 \in Int /\ (IF 0 > n - 1 THEN 0 ELSE n - 1 - 0 + 1) = n  BY <1>1
    <3> QED  BY <3>1, FS_Interval
  <2> QED  BY <1>1, <2>2, <2>3, FS_Injection
<1>6. \A k \in 1 .. n : \E e \in S : rank[e] = k - 1
  <2>1. SUFFICES ASSUME NEW k \in 1 .. n PROVE \E e \in S : rank[e] = k - 1  OBVIOUS
  <2>2. k - 1 \in 0 .. (n - 1)  BY <1>1
  <2> QED  BY <1>5, <2>2 DEF Surjection
<1>7. PICK q : q = SortedBy(S, R)  OBVIOUS
<1>8. q = [k \in 1 .. n |-> CHOOSE e \in S : Cardinality(Below(e)) = k - 1]  BY <1>1, <1>7 DEF SortedBy
<1>9. \A k \in 1 .. n : q[k] \in S /\ rank[q[k]] = k - 1
  <2>1. SUFFICES ASSUME NEW k \in 1 .. n PROVE q[k] \in S /\ rank[q[k]] = k - 1  OBVIOUS
  <2>2. q[k] = CHOOSE e \in S : Cardinality(Below(e)) = k - 1  BY <1>8
  <2>3. \A e \in S : rank[e] = Cardinality(Below(e))  BY <1>0
  <2>4. \E e \in S : Cardinality(Below(e)) = k - 1  BY <1>6, <2>3
  <2> HIDE DEF Below
  <2> QED  BY <2>2, <2>3, <2>4
<1>10. \A e \in S : \E k \in 1 .. n : q[k] = e
  <2>1. SUFFICES ASSUME NEW e \in S PROVE \E k \in 1 .. n : q[k] = e  OBVIOUS
  <2>2. PICK k : k = rank[e] + 1 /\ k \in 1 .. n  BY <1>1, <1>13
  <2>3. rank[q[k]] = rank[e]  BY <1>9, <1>13, <2>2
  <2> QED  BY <1>4, <1>9, <2>2, <2>3
<1>11. \A j, k \in 1 .. n : j < k => Precedes(R, q[j], q[k])
  <2>1. SUFFICES ASSUME NEW j \in 1 .. n, NEW k \in 1 .. n, j < k PROVE Precedes(R, q[j], q[k])  OBVIOUS
  <2>2. rank[q[j]] = j - 1 /\ rank[q[k]] = k - 1 /\ q[j] \in S /\ q[k] \in S  BY <1>9
  <2>3. q[j] # q[k] /\ ~(rank[q[k]] < rank[q[j]])  BY <1>1, <2>1, <2>2
  <2> QED  BY <1>3, <2>2, <2>3 DEF Orders
<1>12. q \in [1 .. n -> S]
  <2> HIDE DEF Below
  <2> QED  BY <1>8, <1>9
<1> QED  BY <1>1, <1>7, <1>10, <1>11, <1>12 DEF Arranges

LEMMA ReadingOrders ==
    ASSUME NEW S, S \subseteq Int
    PROVE  Orders({}, S)
BY DEF Orders, Precedes

LEMMA AsReadIs ==
    ASSUME NEW S, IsFiniteSet(S), S \subseteq Int
    PROVE  Arranges(AsRead(S), Cardinality(S), S, {})
BY Sorted, ReadingOrders DEF AsRead

\* Consecutive numbers are read one after another.
LEMMA AsReadRun ==
    ASSUME NEW a \in Nat, NEW b \in Nat, a <= b + 1
    PROVE  AsRead(a .. b) = [k \in 1 .. (b - a + 1) |-> a + k - 1]
<1>1. Cardinality(a .. b) = b - a + 1  BY FS_Interval
<1>2. \A e \in a .. b : Cardinality({f \in a .. b : Precedes({}, f, e)}) = e - a
  <2>1. SUFFICES ASSUME NEW e \in a .. b PROVE Cardinality({f \in a .. b : Precedes({}, f, e)}) = e - a  OBVIOUS
  <2>2. {f \in a .. b : Precedes({}, f, e)} = a .. (e - 1)  BY DEF Precedes
  <2>3. Cardinality(a .. (e - 1)) = e - a
    <3>1. a \in Int /\ e - 1 \in Int /\ (IF a > e - 1 THEN 0 ELSE e - 1 - a + 1) = e - a  OBVIOUS
    <3> QED  BY <3>1, FS_Interval
  <2> QED  BY <2>2, <2>3
<1>3. ASSUME NEW k \in 1 .. (b - a + 1)
      PROVE  (CHOOSE e \in a .. b : Cardinality({f \in a .. b : Precedes({}, f, e)}) = k - 1) = a + k - 1
  <2>1. a + k - 1 \in a .. b /\ \A e \in a .. b : e - a = k - 1 <=> e = a + k - 1  OBVIOUS
  <2>2. \A e \in a .. b : Cardinality({f \in a .. b : Precedes({}, f, e)}) = k - 1 <=> e = a + k - 1  BY <1>2, <2>1
  <2> QED  BY <2>1, <2>2
<1> QED  BY <1>1, <1>3 DEF AsRead, SortedBy

Units(f) == UNION {{x} \X (1 .. f[x]) : x \in DOMAIN f}

LEMMA UnitsAre ==
    ASSUME NEW f
    PROVE  \A p : p \in Units(f) <=> \E x \in DOMAIN f : \E k \in 1 .. f[x] : p = <<x, k>>
BY DEF Units

\* The number of all, when each number is that of a part.
LEMMA SumOfParts ==
    ASSUME NEW D, NEW f \in [D -> Nat], NEW of, NEW S, IsFiniteSet(S),
           \A x \in D : of[x] \subseteq S /\ Cardinality(of[x]) = f[x],
           \A x, y \in D : x # y => of[x] \cap of[y] = {},
           \A e \in S : \E x \in D : e \in of[x]
    PROVE  Summed(f) = Cardinality(S)
<1>1. \A x \in D : \E b : b \in Bijection(1 .. f[x], of[x])
  <2>1. SUFFICES ASSUME NEW x \in D PROVE \E b : b \in Bijection(1 .. f[x], of[x])  OBVIOUS
  <2>2. IsFiniteSet(of[x])  BY FS_Subset
  <2> QED  BY <2>2, FS_CardinalityType DEF ExistsBijection
<1>2. PICK count : count = [x \in D |-> CHOOSE b : b \in Bijection(1 .. f[x], of[x])]  OBVIOUS
<1>3. \A x \in D : count[x] \in Bijection(1 .. f[x], of[x])  BY <1>1, <1>2
<1>4. \A x \in D : /\ \A k \in 1 .. f[x] : count[x][k] \in of[x]
                   /\ \A j, k \in 1 .. f[x] : count[x][j] = count[x][k] => j = k
                   /\ \A e \in of[x] : \E k \in 1 .. f[x] : count[x][k] = e
  BY <1>3 DEF Bijection, Injection, IsInjective, Surjection
<1>5. PICK g : g = [p \in Units(f) |-> count[p[1]][p[2]]]  OBVIOUS
<1>6. \A x \in D : \A k \in 1 .. f[x] : <<x, k>> \in Units(f) /\ g[<<x, k>>] = count[x][k]
  <2>1. SUFFICES ASSUME NEW x \in D, NEW k \in 1 .. f[x] PROVE <<x, k>> \in Units(f) /\ g[<<x, k>>] = count[x][k]
    OBVIOUS
  <2>2. PICK p : p = <<x, k>>  OBVIOUS
  <2>3. p \in Units(f)  BY <2>2, UnitsAre
  <2>4. p[1] = x /\ p[2] = k  BY <2>2
  <2> QED  BY <1>5, <2>2, <2>3, <2>4
<1>7. \A p \in Units(f) : \E x \in D : \E k \in 1 .. f[x] : p = <<x, k>> /\ g[p] = count[x][k] /\ g[p] \in of[x]
  BY <1>4, <1>6, UnitsAre
<1>8. g \in [Units(f) -> S]  BY <1>5, <1>7
<1>9. \A p, q \in Units(f) : g[p] = g[q] => p = q
  <2>1. SUFFICES ASSUME NEW p \in Units(f), NEW q \in Units(f), g[p] = g[q] PROVE p = q  OBVIOUS
  <2>2. PICK x \in D : \E j \in 1 .. f[x] : p = <<x, j>> /\ g[p] = count[x][j] /\ g[p] \in of[x]  BY <1>7
  <2>6. PICK j \in 1 .. f[x] : p = <<x, j>> /\ g[p] = count[x][j]  BY <2>2
  <2>3. PICK y \in D : \E k \in 1 .. f[y] : q = <<y, k>> /\ g[q] = count[y][k] /\ g[q] \in of[y]  BY <1>7
  <2>7. PICK k \in 1 .. f[y] : q = <<y, k>> /\ g[q] = count[y][k]  BY <2>3
  <2>4. x = y  BY <2>1, <2>2, <2>3
  <2>5. j = k  BY <1>4, <2>1, <2>6, <2>7, <2>4
  <2> QED  BY <2>6, <2>7, <2>4, <2>5
<1>10. \A e \in S : \E p \in Units(f) : g[p] = e
  <2>1. SUFFICES ASSUME NEW e \in S PROVE \E p \in Units(f) : g[p] = e  OBVIOUS
  <2>2. PICK x \in D : e \in of[x]  OBVIOUS
  <2>3. PICK k \in 1 .. f[x] : count[x][k] = e  BY <1>4, <2>2
  <2> QED  BY <1>6, <2>3
<1>11. g \in Bijection(Units(f), S)
  BY <1>8, <1>9, <1>10 DEF Bijection, Injection, IsInjective, Surjection
<1>12. ExistsBijection(S, Units(f))  BY <1>11, Fun_ExistsBijSymmetric DEF ExistsBijection
<1> QED  BY <1>12, FS_Bijection DEF Summed, Units

LEMMA SumGrows ==
    ASSUME NEW D, IsFiniteSet(D), NEW f \in [D -> Nat], NEW g \in [D -> Nat], \A x \in D : f[x] <= g[x]
    PROVE  Summed(f) <= Summed(g) /\ Summed(g) \in Nat
<1>1. PICK row : row = [x \in D |-> {x} \X (1 .. g[x])]  OBVIOUS
<1>2. PICK T : T = {{x} \X (1 .. g[x]) : x \in D}  OBVIOUS
<1>3. row \in Surjection(D, T)  BY <1>1, <1>2 DEF Surjection
<1>4. IsFiniteSet(T)  BY <1>3, FS_Surjection
<1>5. \A t \in T : IsFiniteSet(t)
  <2>1. SUFFICES ASSUME NEW x \in D PROVE IsFiniteSet({x} \X (1 .. g[x]))  BY <1>2
  <2>2. 1 \in Int /\ g[x] \in Int  OBVIOUS
  <2>3. IsFiniteSet({x}) /\ IsFiniteSet(1 .. g[x])  BY <2>2, FS_Singleton, FS_Interval
  <2> QED  BY <2>3, FS_Product
<1>6. IsFiniteSet(Units(g))  BY <1>2, <1>4, <1>5, FS_UNION DEF Units
<1>7. Units(f) \subseteq Units(g)
  <2>1. SUFFICES ASSUME NEW x \in D, NEW k \in 1 .. f[x] PROVE <<x, k>> \in Units(g)  BY UnitsAre
  <2>2. k \in 1 .. g[x]  OBVIOUS
  <2> QED  BY <2>2, UnitsAre
<1>8. Summed(f) = Cardinality(Units(f)) /\ Summed(g) = Cardinality(Units(g))  BY DEF Summed, Units
<1> QED  BY <1>6, <1>7, <1>8, FS_Subset, FS_CardinalityType

LEMMA ListIs ==
    ASSUME NEW n \in Nat, NEW s, DOMAIN s = 1 .. n, s = [i \in 1 .. n |-> s[i]], NEW T, \A i \in 1 .. n : s[i] \in T
    PROVE  s \in Seq(T) /\ Len(s) = n
<1>1. s \in [1 .. n -> T]  OBVIOUS
<1> QED  BY <1>1

LEMMA LeastOf ==
    ASSUME NEW a \in Int, NEW b \in Int
    PROVE  Min({a, b}) = (IF a <= b THEN a ELSE b) /\ Max({a, b}) = (IF a <= b THEN b ELSE a)
<1>1. \E x \in {a, b} : \A y \in {a, b} : x <= y  OBVIOUS
<1>2. \E x \in {a, b} : \A y \in {a, b} : x >= y  OBVIOUS
<1>3. Min({a, b}) \in {a, b} /\ \A y \in {a, b} : Min({a, b}) <= y  BY <1>1 DEF Min
<1>4. Max({a, b}) \in {a, b} /\ \A y \in {a, b} : Max({a, b}) >= y  BY <1>2 DEF Max
<1> QED  BY <1>3, <1>4

-----------------------------------------------------------------------------
(* The cards of a window *)

\* The window, as a list of events.
Window ==
    /\ Len(held) \in Nat /\ held \in [1 .. Len(held) -> News]

LEMMA EventsAre ==
    ASSUME Window
    PROVE  \A e \in DOMAIN held :
               /\ e \in Nat \ {0} /\ held[e].isUrgent \in BOOLEAN /\ held[e].worth \in Nat /\ held[e].facts \in Nat \ {0}
               /\ held[e].pack \in BOOLEAN /\ held[e].pack => held[e].target = noCompany
<1>1. PICK N : N = [target : Companies \cup {noCompany}, isUrgent : BOOLEAN, pack : BOOLEAN, worth : Nat, facts : Nat \ {0}]
  OBVIOUS
<1>2. News \subseteq N /\ \A n \in News : n.pack => n.target = noCompany  BY <1>1, CardsAssumption DEF CardsAssumption
<1>3. \A n \in N : n.isUrgent \in BOOLEAN /\ n.worth \in Nat /\ n.facts \in Nat \ {0} /\ n.pack \in BOOLEAN  BY <1>1
<1>4. DOMAIN held = 1 .. Len(held) /\ \A e \in 1 .. Len(held) : held[e] \in News  BY DEF Window
<1>5. \A e \in DOMAIN held : e \in Nat \ {0}  BY <1>4 DEF Window
<1> QED  BY <1>2, <1>3, <1>4, <1>5

LEMMA WindowFinite ==
    ASSUME Window
    PROVE  IsFiniteSet(DOMAIN held) /\ DOMAIN held \subseteq Nat \ {0} /\ DOMAIN held = 1 .. Len(held)
<1>1. DOMAIN held = 1 .. Len(held) /\ 1 \in Int /\ Len(held) \in Int  BY DEF Window
<1> QED  BY <1>1, FS_Interval

LEMMA KeysOrder ==
    ASSUME NEW S, S \subseteq Nat, NEW u \in [S -> Nat], NEW w \in [S -> Nat], NEW R,
           \A e, f \in S : <<e, f>> \in R <=> u[e] > u[f] \/ (u[e] = u[f] /\ w[e] > w[f])
    PROVE  /\ Orders(R, S)
           /\ \A e, f \in S : Precedes(R, e, f) => u[e] >= u[f] /\ (u[e] = u[f] => w[e] >= w[f])
<1>1. \A e, f \in S : Precedes(R, e, f) <=> (u[e] > u[f] \/ (u[e] = u[f] /\ (w[e] > w[f] \/ (w[e] = w[f] /\ e < f))))
  <2>1. SUFFICES ASSUME NEW e \in S, NEW f \in S
                 PROVE  Precedes(R, e, f) <=> (u[e] > u[f] \/ (u[e] = u[f] /\ (w[e] > w[f] \/ (w[e] = w[f] /\ e < f))))
    OBVIOUS
  <2>2. Precedes(R, e, f) <=> (<<e, f>> \in R \/ (~(<<f, e>> \in R) /\ e < f))  BY DEF Precedes
  <2>3. <<e, f>> \in R <=> u[e] > u[f] \/ (u[e] = u[f] /\ w[e] > w[f])  OBVIOUS
  <2>4. <<f, e>> \in R <=> u[f] > u[e] \/ (u[f] = u[e] /\ w[f] > w[e])  OBVIOUS
  <2>5. u[e] \in Nat /\ u[f] \in Nat /\ w[e] \in Nat /\ w[f] \in Nat /\ e \in Nat /\ f \in Nat  OBVIOUS
  <2> QED  BY <2>2, <2>3, <2>4, <2>5
<1> QED  BY <1>1 DEF Orders

LEMMA ImportanceOrders ==
    ASSUME Window, NEW S, S \subseteq DOMAIN held
    PROVE  /\ Orders(byImportance, S)
           /\ \A e, f \in S : Precedes(byImportance, e, f) /\ held[f].isUrgent => held[e].isUrgent
<1>1. PICK u : u = [e \in S |-> IF held[e].isUrgent THEN 1 ELSE 0]  OBVIOUS
<1>2. PICK w : w = [e \in S |-> held[e].worth]  OBVIOUS
<1>3. S \subseteq Nat /\ u \in [S -> Nat] /\ w \in [S -> Nat]  BY <1>1, <1>2, EventsAre
<1>4. ASSUME NEW e \in S, NEW f \in S
      PROVE  <<e, f>> \in byImportance <=> u[e] > u[f] \/ (u[e] = u[f] /\ w[e] > w[f])
  <2>1. <<e, f>> \in byImportance <=> MoreImportant(held[e], held[f])
    <3>1. PICK p : p = <<e, f>>  OBVIOUS
    <3>2. p \in Pairs /\ p[1] = e /\ p[2] = f  BY <3>1 DEF Pairs
    <3> QED  BY <3>1, <3>2 DEF byImportance
  <2>2. PICK b, c : b = held[e].isUrgent /\ c = held[f].isUrgent /\ b \in BOOLEAN /\ c \in BOOLEAN  BY EventsAre
  <2>3. MoreImportant(held[e], held[f]) <=> IF b # c THEN b ELSE w[e] > w[f]  BY <1>2, <2>2, Zenon DEF MoreImportant
  <2>4. u[e] = (IF b THEN 1 ELSE 0) /\ u[f] = (IF c THEN 1 ELSE 0)  BY <1>1, <2>2, Zenon
  <2>5. CASE b = TRUE /\ c = TRUE
    <3>1. u[e] = 1 /\ u[f] = 1 /\ (MoreImportant(held[e], held[f]) <=> w[e] > w[f])  BY <2>3, <2>4, <2>5, Zenon
    <3> QED  BY <2>1, <3>1
  <2>6. CASE b = TRUE /\ c = FALSE
    <3>1. u[e] = 1 /\ u[f] = 0 /\ MoreImportant(held[e], held[f])  BY <2>3, <2>4, <2>6, Zenon
    <3> QED  BY <2>1, <3>1
  <2>7. CASE b = FALSE /\ c = TRUE
    <3>1. u[e] = 0 /\ u[f] = 1 /\ ~MoreImportant(held[e], held[f])  BY <2>3, <2>4, <2>7, Zenon
    <3> QED  BY <2>1, <3>1
  <2>8. CASE b = FALSE /\ c = FALSE
    <3>1. u[e] = 0 /\ u[f] = 0 /\ (MoreImportant(held[e], held[f]) <=> w[e] > w[f])  BY <2>3, <2>4, <2>8, Zenon
    <3> QED  BY <2>1, <3>1
  <2> QED  BY <2>2, <2>5, <2>6, <2>7, <2>8
<1>5. Orders(byImportance, S) /\ \A e, f \in S : Precedes(byImportance, e, f) => u[e] >= u[f]  BY <1>3, <1>4, KeysOrder
<1>6. ASSUME NEW e \in S, NEW f \in S, Precedes(byImportance, e, f), held[f].isUrgent PROVE held[e].isUrgent
  <2>1. u[e] >= u[f]  BY <1>5, <1>6
  <2>2. u[f] = 1  BY <1>1, <1>6, Zenon
  <2>3. u[e] # 0  BY <2>1, <2>2
  <2> QED  BY <1>1, <2>3, Zenon
<1> QED  BY <1>5, <1>6

LEMMA RankOrders ==
    ASSUME Window, NEW S, S \subseteq DOMAIN held
    PROVE  /\ Orders(marketRank, S)
           /\ \A e, f \in S : Precedes(marketRank, e, f) => held[e].worth >= held[f].worth
<1>1. PICK u : u = [e \in S |-> 0]  OBVIOUS
<1>2. PICK w : w = [e \in S |-> held[e].worth]  OBVIOUS
<1>3. S \subseteq Nat /\ u \in [S -> Nat] /\ w \in [S -> Nat]  BY <1>1, <1>2, EventsAre
<1>4. ASSUME NEW e \in S, NEW f \in S
      PROVE  <<e, f>> \in marketRank <=> u[e] > u[f] \/ (u[e] = u[f] /\ w[e] > w[f])
  <2>1. <<e, f>> \in marketRank <=> held[e].worth > held[f].worth
    <3>1. PICK p : p = <<e, f>>  OBVIOUS
    <3>2. p \in Pairs /\ p[1] = e /\ p[2] = f  BY <3>1 DEF Pairs
    <3> QED  BY <3>1, <3>2 DEF marketRank
  <2> QED  BY <1>1, <1>2, <2>1
<1>5. /\ Orders(marketRank, S)
      /\ \A e, f \in S : Precedes(marketRank, e, f) => u[e] >= u[f] /\ (u[e] = u[f] => w[e] >= w[f])
  BY <1>3, <1>4, KeysOrder
<1> QED  BY <1>1, <1>2, <1>5

\* An event of the window H as it is on a card of its own.
Whole(H, c) ==
    \E e \in DOMAIN H : c = [kind |-> "event", event |-> e, of |-> {e}, more |-> 0,
                             blocks |-> [n \in 1 .. H[e].facts |-> factBlock(e, n)]]

\* A folded card stands for several changes of one company, none of them urgent,
\* and shows facts of some.
Folded(H, c) ==
    /\ c.kind = "group" /\ c.event \in c.of /\ c.more \in Nat /\ Len(c.blocks) \in Nat
    /\ c.blocks = [n \in 1 .. Len(c.blocks) |-> c.blocks[n]]
    /\ \A n \in 1 .. Len(c.blocks) :
           c.blocks[n].says = "fact" /\ c.blocks[n].event \in c.of /\ c.blocks[n].count = 1
    /\ Cardinality(c.of) = Len(c.blocks) + c.more /\ Cardinality(c.of) > 1
    /\ \A e, f \in c.of : ~H[e].isUrgent /\ H[e].target = H[f].target /\ H[e].target # noCompany

\* One's own changes are on the first m cards, each on one, the urgent ones first.
OwnCards(H, cards, m, own) ==
    /\ \A i \in 1 .. m : (Whole(H, cards[i]) \/ Folded(H, cards[i])) /\ cards[i].of \subseteq own
    /\ \A e \in own : \E i \in 1 .. m : e \in cards[i].of
    /\ \A i, j \in 1 .. m : i < j => \A e \in cards[i].of, f \in cards[j].of :
           e # f /\ (H[f].isUrgent => H[e].isUrgent)

LEMMA EventCardIs ==
    ASSUME NEW e
    PROVE  /\ eventCard(e).kind = "event" /\ eventCard(e).event = e /\ eventCard(e).of = {e} /\ eventCard(e).more = 0
           /\ eventCard(e).blocks = [n \in 1 .. held[e].facts |-> factBlock(e, n)]
BY DEF eventCard

LEMMA GroupCardIs ==
    ASSUME Window, NEW mu, NEW p \in Nat, p > 1, mu \in [1 .. p -> DOMAIN held],
           \A j, k \in 1 .. p : j # k => mu[j] # mu[k],
           \A j, k \in 1 .. p : ~held[mu[j]].isUrgent /\ held[mu[j]].target = held[mu[k]].target
                                /\ held[mu[j]].target # noCompany
    PROVE  Folded(held, groupCard(mu)) /\ groupCard(mu).of = ToSet(mu)
<1>1. DOMAIN mu = 1 .. p /\ Len(mu) = p
  <2>1. mu \in Seq(DOMAIN held)  OBVIOUS
  <2> QED  BY <2>1
<1>2. PICK of : of = ToSet(mu)  OBVIOUS
<1>3. of = {mu[k] : k \in 1 .. p}  BY <1>1, <1>2 DEF ToSet
<1>4. Cardinality(of) = p
  <2>1. mu \in [1 .. p -> of]  BY <1>1, <1>3
  <2>2. mu \in Bijection(1 .. p, of)  BY <1>3, <2>1 DEF Bijection, Injection, IsInjective, Surjection
  <2> QED  BY <2>2, FS_CountingElements DEF ExistsBijection
<1>5. PICK shown : shown = Min({p, GroupFactsShown})  OBVIOUS
<1>6. GroupFactsShown \in Nat  BY CardsAssumption DEF CardsAssumption
<1>7. shown \in Nat /\ shown <= p  BY <1>5, <1>6, LeastOf
<1>8. PICK blocks : blocks = [n \in 1 .. shown |-> factBlock(mu[n], 1)]  OBVIOUS
<1>9. Len(blocks) = shown /\ DOMAIN blocks = 1 .. shown
  <2>1. DOMAIN blocks = 1 .. shown /\ blocks = [n \in 1 .. shown |-> blocks[n]]  BY <1>8
  <2>2. PICK T : T = {blocks[n] : n \in 1 .. shown}  OBVIOUS
  <2> QED  BY <1>7, <2>1, <2>2, ListIs
<1>10. PICK c : c = groupCard(mu)  OBVIOUS
<1>11. c = [kind |-> "group", event |-> mu[1], of |-> of, more |-> p - shown, blocks |-> blocks]
  BY <1>1, <1>2, <1>5, <1>8, <1>10 DEF groupCard
<1>12. c.kind = "group" /\ c.event = mu[1] /\ c.of = of /\ c.more = p - shown /\ c.blocks = blocks  BY <1>11
<1>13. \A n \in 1 .. shown : blocks[n].says = "fact" /\ blocks[n].event \in of /\ blocks[n].count = 1
  <2>1. SUFFICES ASSUME NEW n \in 1 .. shown
                 PROVE  blocks[n].says = "fact" /\ blocks[n].event \in of /\ blocks[n].count = 1
    OBVIOUS
  <2>2. blocks[n] = factBlock(mu[n], 1) /\ n \in 1 .. p  BY <1>7, <1>8
  <2>3. blocks[n].says = "fact" /\ blocks[n].event = mu[n] /\ blocks[n].count = 1  BY <2>2 DEF factBlock, Line
  <2> QED  BY <1>3, <2>2, <2>3
<1>14. blocks = [n \in 1 .. shown |-> blocks[n]]  BY <1>8
<1>15. \A e, f \in of : ~held[e].isUrgent /\ held[e].target = held[f].target /\ held[e].target # noCompany  BY <1>3
<1>16. mu[1] \in of /\ p = shown + (p - shown) /\ p - shown \in Nat  BY <1>3, <1>7
<1>17. Folded(held, c)
  <2>1. c.kind = "group" /\ c.event \in c.of /\ c.more \in Nat /\ Len(c.blocks) \in Nat  BY <1>7, <1>9, <1>12, <1>16
  <2>2. c.blocks = [n \in 1 .. Len(c.blocks) |-> c.blocks[n]]  BY <1>9, <1>12, <1>14
  <2>3. \A n \in 1 .. Len(c.blocks) :
            c.blocks[n].says = "fact" /\ c.blocks[n].event \in c.of /\ c.blocks[n].count = 1
    BY <1>9, <1>12, <1>13
  <2>4. Cardinality(c.of) = Len(c.blocks) + c.more /\ Cardinality(c.of) > 1  BY <1>4, <1>9, <1>12, <1>16
  <2>5. \A e, f \in c.of : ~held[e].isUrgent /\ held[e].target = held[f].target /\ held[e].target # noCompany
    BY <1>12, <1>15
  <2> QED  BY <2>1, <2>2, <2>3, <2>4, <2>5 DEF Folded
<1> QED  BY <1>2, <1>10, <1>12, <1>17

LEMMA OwnUnfolded ==
    ASSUME Window, NEW own, own \subseteq DOMAIN held, NEW ordered, NEW m \in Nat,
           Arranges(ordered, m, own, byImportance), NEW cards, cards = [i \in 1 .. m |-> eventCard(ordered[i])]
    PROVE  OwnCards(held, cards, m, own)
<1>1. /\ \A i \in 1 .. m : ordered[i] \in own
      /\ \A e \in own : \E k \in 1 .. m : ordered[k] = e
      /\ \A j, k \in 1 .. m : j < k => Precedes(byImportance, ordered[j], ordered[k])
  BY DEF Arranges
<1>2. \A i \in 1 .. m : cards[i] = eventCard(ordered[i]) /\ cards[i].of = {ordered[i]}  BY EventCardIs
<1>3. Orders(byImportance, own) /\ \A e, f \in own : Precedes(byImportance, e, f) /\ held[f].isUrgent => held[e].isUrgent
  BY ImportanceOrders
<1>4. \A i \in 1 .. m : Whole(held, cards[i]) /\ cards[i].of \subseteq own  BY <1>1, <1>2 DEF Whole, eventCard
<1>5. ASSUME NEW i \in 1 .. m, NEW j \in 1 .. m, i < j, NEW e \in cards[i].of, NEW f \in cards[j].of
      PROVE  e # f /\ (held[f].isUrgent => held[e].isUrgent)
  <2>1. e = ordered[i] /\ f = ordered[j]  BY <1>2, <1>5
  <2>2. e \in own /\ f \in own  BY <1>1, <2>1
  <2>3. Precedes(byImportance, ordered[i], ordered[j])  BY <1>1, <1>5
  <2> QED  BY <1>3, <2>1, <2>2, <2>3 DEF Orders
<1>6. \A e \in own : \E i \in 1 .. m : e \in cards[i].of  BY <1>1, <1>2
<1> QED  BY <1>4, <1>5, <1>6 DEF OwnCards

\* With what an event is on a card.
Class(i, ordered) == foldableWith(ordered[i], ordered) \cup {i}

LEMMA ClassesAre ==
    ASSUME NEW m \in Nat, NEW ordered, DOMAIN ordered = 1 .. m, NEW i \in 1 .. m
    PROVE  /\ Class(i, ordered) \subseteq 1 .. m /\ i \in Class(i, ordered)
           /\ \A j \in Class(i, ordered) : Class(j, ordered) = Class(i, ordered)
           /\ held[ordered[i]].isUrgent => Class(i, ordered) = {i}
           /\ foldableWith(ordered[i], ordered) = {} \/ foldableWith(ordered[i], ordered) = Class(i, ordered)
           /\ foldableWith(ordered[i], ordered) # {} =>
                  \A j, k \in Class(i, ordered) :
                      ~held[ordered[j]].isUrgent /\ held[ordered[j]].target = held[ordered[k]].target
                      /\ held[ordered[j]].target # noCompany
<1> DEFINE W(j) == foldableWith(ordered[j], ordered)
<1>1. \A j : held[ordered[j]].isUrgent \/ held[ordered[j]].target = noCompany => W(j) = {}  BY DEF foldableWith
<1>2. \A j : ~(held[ordered[j]].isUrgent \/ held[ordered[j]].target = noCompany) =>
          W(j) = {k \in 1 .. m : ~held[ordered[k]].isUrgent /\ held[ordered[k]].target = held[ordered[j]].target}
  BY DEF foldableWith
<1>3. CASE held[ordered[i]].isUrgent \/ held[ordered[i]].target = noCompany
  <2>1. W(i) = {} /\ Class(i, ordered) = {i}  BY <1>1, <1>3 DEF Class
  <2> QED  BY <2>1
<1>4. CASE ~(held[ordered[i]].isUrgent \/ held[ordered[i]].target = noCompany)
  <2>1. W(i) = {k \in 1 .. m : ~held[ordered[k]].isUrgent /\ held[ordered[k]].target = held[ordered[i]].target}
    BY <1>2, <1>4
  <2>2. i \in W(i) /\ Class(i, ordered) = W(i)  BY <1>4, <2>1 DEF Class
  <2>3. ASSUME NEW j \in W(i) PROVE Class(j, ordered) = Class(i, ordered)
    <3>1. ~held[ordered[j]].isUrgent /\ held[ordered[j]].target = held[ordered[i]].target /\ j \in 1 .. m  BY <2>1, <2>3
    <3>2. ~(held[ordered[j]].isUrgent \/ held[ordered[j]].target = noCompany)  BY <1>4, <3>1
    <3>3. W(j) = {k \in 1 .. m : ~held[ordered[k]].isUrgent /\ held[ordered[k]].target = held[ordered[j]].target}
      BY <1>2, <3>2
    <3>4. W(j) = W(i)  BY <2>1, <3>1, <3>3
    <3> QED  BY <2>2, <2>3, <3>4 DEF Class
  <2>4. \A j, k \in W(i) : ~held[ordered[j]].isUrgent /\ held[ordered[j]].target = held[ordered[k]].target
                           /\ held[ordered[j]].target # noCompany
    BY <1>4, <2>1
  <2>5. W(i) \subseteq 1 .. m  BY <2>1
  <2> HIDE DEF W
  <2> QED  BY <1>4, <2>2, <2>3, <2>4, <2>5 DEF W
<1> QED  BY <1>3, <1>4

LEMMA CardForIs ==
    ASSUME Window, NEW own, own \subseteq DOMAIN held, NEW ordered, NEW m \in Nat,
           Arranges(ordered, m, own, byImportance), NEW i \in 1 .. m, NEW c, c = CardFor(ordered[i], ordered)
    PROVE  (Whole(held, c) \/ Folded(held, c)) /\ c.of = {ordered[j] : j \in Class(i, ordered)}
<1>1. /\ \A k \in 1 .. m : ordered[k] \in own
      /\ \A j, k \in 1 .. m : j < k => Precedes(byImportance, ordered[j], ordered[k])
      /\ DOMAIN ordered = 1 .. m
  BY DEF Arranges
<1>2. Orders(byImportance, own)  BY ImportanceOrders
<1>3. \A j, k \in 1 .. m : j # k => ordered[j] # ordered[k]
  <2>1. SUFFICES ASSUME NEW j \in 1 .. m, NEW k \in 1 .. m, j # k PROVE ordered[j] # ordered[k]  OBVIOUS
  <2>2. j < k \/ k < j  BY <2>1
  <2>3. Precedes(byImportance, ordered[j], ordered[k]) \/ Precedes(byImportance, ordered[k], ordered[j])  BY <1>1, <2>2
  <2> QED  BY <1>1, <1>2, <2>3 DEF Orders
<1>4. PICK W : W = foldableWith(ordered[i], ordered)  OBVIOUS
<1>5. /\ W = {} \/ W = Class(i, ordered)
      /\ Class(i, ordered) \subseteq 1 .. m /\ i \in Class(i, ordered)
      /\ W # {} => \A j, k \in Class(i, ordered) :
                       ~held[ordered[j]].isUrgent /\ held[ordered[j]].target = held[ordered[k]].target
                       /\ held[ordered[j]].target # noCompany
  <2>1. foldableWith(ordered[i], ordered) = {} \/ foldableWith(ordered[i], ordered) = Class(i, ordered)
    BY <1>1, ClassesAre
  <2>2. Class(i, ordered) \subseteq 1 .. m /\ i \in Class(i, ordered)  BY <1>1, ClassesAre
  <2>3. foldableWith(ordered[i], ordered) # {} => \A j, k \in Class(i, ordered) :
                       ~held[ordered[j]].isUrgent /\ held[ordered[j]].target = held[ordered[k]].target
                       /\ held[ordered[j]].target # noCompany
    BY <1>1, ClassesAre
  <2> QED  BY <1>4, <2>1, <2>2, <2>3
<1>6. W \subseteq 1 .. m /\ IsFiniteSet(W) /\ Cardinality(W) \in Nat
  <2>1. IsFiniteSet(1 .. m)  BY FS_Interval
  <2>2. W \subseteq 1 .. m  BY <1>5
  <2>3. IsFiniteSet(W)  BY <2>1, <2>2, FS_Subset
  <2> QED  BY <2>2, <2>3, FS_CardinalityType
<1>7. PICK members, p : members = AsRead(W) /\ p = Cardinality(W)  OBVIOUS
<1>8. Arranges(members, p, W, {})
  <2>1. W \subseteq Int  BY <1>6
  <2> QED  BY <1>6, <1>7, <2>1, AsReadIs
<1>9. p \in Nat /\ members \in [1 .. p -> W] /\ (\A e \in W : \E k \in 1 .. p : members[k] = e)
      /\ \A j, k \in 1 .. p : j < k => members[j] < members[k]
  BY <1>6, <1>7, <1>8 DEF Arranges, Precedes
<1>10. Len(members) = p /\ DOMAIN members = 1 .. p
  <2>1. members \in Seq(W)  BY <1>9
  <2> QED  BY <1>9, <2>1
<1>11. PICK mu : mu = [n \in 1 .. p |-> ordered[members[n]]]  OBVIOUS
<1>12. c = IF p < 2 THEN eventCard(ordered[i]) ELSE groupCard(mu)  BY <1>4, <1>7, <1>10, <1>11 DEF CardFor
<1>13. CASE p < 2
  <2>1. Whole(held, c) /\ c.of = {ordered[i]}  BY <1>1, <1>12, <1>13, EventCardIs DEF Whole, eventCard
  <2>2. Class(i, ordered) = {i}
    <3>1. CASE W = {}  BY <1>4, <3>1 DEF Class
    <3>2. CASE W # {}
      <4>1. p # 0  BY <1>6, <1>7, <3>2, FS_EmptySet
      <4>2. p = 1  BY <1>9, <1>13, <4>1
      <4>3. PICK x : W = {x}  BY <1>6, <1>7, <4>2, FS_Singleton
      <4> QED  BY <1>5, <3>2, <4>3
    <3> QED  BY <3>1, <3>2
  <2> QED  BY <2>1, <2>2
<1>14. CASE ~(p < 2)
  <2>1. p > 1 /\ c = groupCard(mu)  BY <1>9, <1>12, <1>14
  <2>2. W # {} /\ W = Class(i, ordered)
    <3>1. W # {}  BY <1>7, <2>1, FS_EmptySet
    <3> QED  BY <1>5, <3>1
  <2>3. \A n \in 1 .. p : mu[n] = ordered[members[n]] /\ members[n] \in W /\ members[n] \in 1 .. m  BY <1>6, <1>9, <1>11
  <2>4. mu \in [1 .. p -> DOMAIN held]  BY <1>1, <1>11, <2>3
  <2>5. \A j, k \in 1 .. p : j # k => mu[j] # mu[k]
    <3>1. SUFFICES ASSUME NEW j \in 1 .. p, NEW k \in 1 .. p, j # k PROVE mu[j] # mu[k]  OBVIOUS
    <3>2. members[j] # members[k]  BY <1>9, <2>3, <3>1
    <3> QED  BY <1>3, <2>3, <3>2
  <2>6. \A j, k \in 1 .. p : ~held[mu[j]].isUrgent /\ held[mu[j]].target = held[mu[k]].target
                             /\ held[mu[j]].target # noCompany
    BY <1>5, <2>2, <2>3
  <2>7. Folded(held, c) /\ c.of = ToSet(mu)  BY <1>9, <2>1, <2>4, <2>5, <2>6, GroupCardIs
  <2>9. ToSet(mu) = {mu[k] : k \in 1 .. p}  BY <2>4 DEF ToSet
  <2>8. {mu[k] : k \in 1 .. p} = {ordered[j] : j \in W}
    <3>1. \A k \in 1 .. p : mu[k] = ordered[members[k]] /\ members[k] \in W  BY <2>3
    <3>2. \A j \in W : \E k \in 1 .. p : mu[k] = ordered[j]  BY <1>9, <3>1
    <3> QED  BY <3>1, <3>2
  <2> QED  BY <2>2, <2>7, <2>8, <2>9
<1> QED  BY <1>13, <1>14

LEMMA OwnFolded ==
    ASSUME Window, NEW own, own \subseteq DOMAIN held, NEW ordered, NEW m \in Nat,
           Arranges(ordered, m, own, byImportance), NEW cards, cards = foldByTarget(ordered)
    PROVE  \E h \in Nat : DOMAIN cards = 1 .. h /\ OwnCards(held, cards, h, own)
<1>1. /\ \A k \in 1 .. m : ordered[k] \in own
      /\ \A e \in own : \E k \in 1 .. m : ordered[k] = e
      /\ \A j, k \in 1 .. m : j < k => Precedes(byImportance, ordered[j], ordered[k])
      /\ DOMAIN ordered = 1 .. m
  BY DEF Arranges
<1>2. /\ Orders(byImportance, own)
      /\ \A e, f \in own : Precedes(byImportance, e, f) /\ held[f].isUrgent => held[e].isUrgent
  BY ImportanceOrders
<1>3. PICK part : part = [i \in 1 .. m |-> Class(i, ordered)]  OBVIOUS
<1>4. \A i \in 1 .. m : /\ part[i] \subseteq 1 .. m /\ i \in part[i]
                        /\ \A j \in part[i] : part[j] = part[i]
                        /\ held[ordered[i]].isUrgent => part[i] = {i}
  <2>1. SUFFICES ASSUME NEW i \in 1 .. m
                 PROVE  /\ part[i] \subseteq 1 .. m /\ i \in part[i]
                        /\ \A j \in part[i] : part[j] = part[i]
                        /\ held[ordered[i]].isUrgent => part[i] = {i}
    OBVIOUS
  <2>2. part[i] = Class(i, ordered)  BY <1>3
  <2>3. Class(i, ordered) \subseteq 1 .. m /\ i \in Class(i, ordered)  BY <1>1, ClassesAre
  <2>4. \A j \in Class(i, ordered) : Class(j, ordered) = Class(i, ordered)  BY <1>1, ClassesAre
  <2>5. held[ordered[i]].isUrgent => Class(i, ordered) = {i}  BY <1>1, ClassesAre
  <2>6. \A j \in Class(i, ordered) : part[j] = Class(j, ordered)  BY <1>3, <2>3
  <2> QED  BY <2>2, <2>3, <2>4, <2>5, <2>6
<1>5. PICK F : F = {i \in 1 .. m : \A k \in foldableWith(ordered[i], ordered) : i <= k}  OBVIOUS
<1>6. \A i \in 1 .. m : i \in F <=> \A k \in part[i] : i <= k
  <2>1. SUFFICES ASSUME NEW i \in 1 .. m PROVE i \in F <=> \A k \in part[i] : i <= k  OBVIOUS
  <2>2. part[i] = foldableWith(ordered[i], ordered) \cup {i}  BY <1>3 DEF Class
  <2> QED  BY <1>5, <2>2
<1>7. F \subseteq 1 .. m /\ F \subseteq Int /\ IsFiniteSet(F)
  <2>1. F \subseteq 1 .. m  BY <1>5
  <2>2. IsFiniteSet(1 .. m)  BY FS_Interval
  <2>3. IsFiniteSet(F)  BY <2>1, <2>2, FS_Subset
  <2>4. F \subseteq Int  BY <2>1
  <2> QED  BY <2>1, <2>3, <2>4
<1>8. PICK first, h : first = AsRead(F) /\ h = Cardinality(F)  OBVIOUS
<1>9. h \in Nat  BY <1>7, <1>8, FS_CardinalityType
<1>10. Arranges(first, h, F, {})  BY <1>7, <1>8, AsReadIs
<1>11. first \in [1 .. h -> F] /\ (\A e \in F : \E k \in 1 .. h : first[k] = e)
       /\ \A j, k \in 1 .. h : j < k => first[j] < first[k]
  BY <1>10 DEF Arranges, Precedes
<1>12. cards = [n \in 1 .. h |-> CardFor(ordered[first[n]], ordered)]
  <2>1. DOMAIN first = 1 .. h  BY <1>11
  <2>2. cards = [n \in DOMAIN first |-> CardFor(ordered[first[n]], ordered)]  BY <1>1, <1>5, <1>8 DEF foldByTarget
  <2> QED  BY <2>1, <2>2
<1>13. \A n \in 1 .. h : /\ first[n] \in F /\ first[n] \in 1 .. m
                         /\ Whole(held, cards[n]) \/ Folded(held, cards[n])
                         /\ \A e : e \in cards[n].of <=> \E j \in part[first[n]] : e = ordered[j]
  <2>1. SUFFICES ASSUME NEW n \in 1 .. h
                 PROVE  /\ first[n] \in F /\ first[n] \in 1 .. m
                        /\ Whole(held, cards[n]) \/ Folded(held, cards[n])
                        /\ \A e : e \in cards[n].of <=> \E j \in part[first[n]] : e = ordered[j]
    OBVIOUS
  <2>2. PICK i : i = first[n]  OBVIOUS
  <2>3. i \in F /\ i \in 1 .. m  BY <1>7, <1>11, <2>2
  <2>4. cards[n] = CardFor(ordered[i], ordered)  BY <1>12, <2>2
  <2>5. (Whole(held, cards[n]) \/ Folded(held, cards[n])) /\ cards[n].of = {ordered[j] : j \in Class(i, ordered)}
    BY <2>3, <2>4, CardForIs
  <2>6. part[i] = Class(i, ordered)  BY <1>3, <2>3
  <2> QED  BY <2>2, <2>3, <2>5, <2>6
<1>14. \A i \in 1 .. m : \E k \in F : i \in part[k]
  <2>1. SUFFICES ASSUME NEW i \in 1 .. m PROVE \E k \in F : i \in part[k]  OBVIOUS
  <2>2. part[i] \subseteq 1 .. m /\ i \in part[i] /\ part[i] \subseteq Int  BY <1>4
  <2>3. IsFiniteSet(part[i])
    <3>1. IsFiniteSet(1 .. m)  BY FS_Interval
    <3> QED  BY <2>2, <3>1, FS_Subset
  <2>4. PICK q, p : q = AsRead(part[i]) /\ p = Cardinality(part[i])  OBVIOUS
  <2>5. Arranges(q, p, part[i], {}) /\ p \in Nat  BY <2>2, <2>3, <2>4, AsReadIs, FS_CardinalityType
  <2>6. q \in [1 .. p -> part[i]] /\ (\A e \in part[i] : \E k \in 1 .. p : q[k] = e)
        /\ \A j, k \in 1 .. p : j < k => q[j] < q[k]
    BY <2>5 DEF Arranges, Precedes
  <2>7. 1 \in 1 .. p
    <3>1. PICK k \in 1 .. p : q[k] = i  BY <2>2, <2>6
    <3> QED  BY <2>5, <3>1
  <2>8. q[1] \in part[i] /\ q[1] \in 1 .. m  BY <2>2, <2>6, <2>7
  <2>9. \A k \in part[i] : q[1] <= k
    <3>1. SUFFICES ASSUME NEW j \in 1 .. p PROVE q[1] <= q[j]  BY <2>6
    <3>2. CASE j = 1  BY <2>2, <2>8, <3>2
    <3>3. CASE j # 1
      <4>1. 1 < j  BY <2>5, <3>3
      <4>2. q[1] < q[j] /\ q[j] \in Int /\ q[1] \in Int  BY <2>2, <2>6, <2>7, <4>1
      <4> QED  BY <4>2
    <3> QED  BY <3>2, <3>3
  <2>10. part[q[1]] = part[i]  BY <1>4, <2>8
  <2>11. q[1] \in F  BY <1>6, <2>8, <2>9, <2>10
  <2> QED  BY <2>2, <2>10, <2>11
<1>15. ASSUME NEW i \in 1 .. h, NEW j \in 1 .. h, i < j, NEW e \in cards[i].of, NEW f \in cards[j].of
       PROVE  e # f /\ (held[f].isUrgent => held[e].isUrgent)
  <2>1. PICK a, b : a = first[i] /\ b = first[j]  OBVIOUS
  <2>2. a \in F /\ b \in F /\ a \in 1 .. m /\ b \in 1 .. m /\ a < b  BY <1>11, <1>13, <1>15, <2>1
  <2>3. PICK x \in part[a] : e = ordered[x]  BY <1>13, <2>1
  <2>4. PICK y \in part[b] : f = ordered[y]  BY <1>13, <2>1
  <2>5. x \in 1 .. m /\ y \in 1 .. m  BY <1>4, <2>2
  <2>6. x # y
    <3>1. SUFFICES ASSUME x = y PROVE FALSE  OBVIOUS
    <3>2. part[x] = part[a] /\ part[y] = part[b]  BY <1>4, <2>2
    <3>3. a \in part[b] /\ b \in part[a]  BY <1>4, <2>2, <3>1, <3>2
    <3>4. a <= b /\ b <= a  BY <1>6, <2>2, <3>3
    <3> QED  BY <2>2, <3>4
  <2>7. e # f
    <3>1. x < y \/ y < x  BY <2>5, <2>6
    <3>2. Precedes(byImportance, ordered[x], ordered[y]) \/ Precedes(byImportance, ordered[y], ordered[x])  BY <1>1, <2>5, <3>1
    <3>3. ordered[x] \in own  BY <1>1, <2>5
    <3> QED  BY <1>2, <2>3, <2>4, <3>2, <3>3 DEF Orders
  <2>8. ASSUME held[f].isUrgent PROVE held[e].isUrgent
    <3>1. part[y] = {y}  BY <1>4, <2>4, <2>5, <2>8
    <3>2. y = b
      <4>1. part[y] = part[b] /\ b \in part[b]  BY <1>4, <2>2
      <4> QED  BY <3>1, <4>1
    <3>3. Precedes(byImportance, ordered[a], ordered[b]) /\ ordered[a] \in own /\ ordered[b] \in own  BY <1>1, <2>2
    <3>4. held[ordered[a]].isUrgent  BY <1>2, <2>4, <2>8, <3>2, <3>3
    <3>5. part[a] = {a}  BY <1>4, <2>2, <3>4
    <3> QED  BY <2>3, <3>4, <3>5
  <2> QED  BY <2>7, <2>8
<1>16. \A n \in 1 .. h : cards[n].of \subseteq own
  <2>1. SUFFICES ASSUME NEW n \in 1 .. h, NEW e \in cards[n].of PROVE e \in own  OBVIOUS
  <2>2. PICK j \in part[first[n]] : e = ordered[j]  BY <1>13
  <2>3. j \in 1 .. m  BY <1>4, <1>13
  <2> QED  BY <1>1, <2>2, <2>3
<1>17. \A e \in own : \E n \in 1 .. h : e \in cards[n].of
  <2>1. SUFFICES ASSUME NEW e \in own PROVE \E n \in 1 .. h : e \in cards[n].of  OBVIOUS
  <2>2. PICK i \in 1 .. m : ordered[i] = e  BY <1>1
  <2>3. PICK k \in F : i \in part[k]  BY <1>14
  <2>4. PICK n \in 1 .. h : first[n] = k  BY <1>11
  <2> QED  BY <1>13, <2>2, <2>3, <2>4
<1>18. OwnCards(held, cards, h, own)  BY <1>13, <1>15, <1>16, <1>17 DEF OwnCards
<1> QED  BY <1>9, <1>12, <1>18

LEMMA OwnCardsMade ==
    ASSUME Window, NEW own, own \subseteq DOMAIN held, NEW cards, cards = mainCards(own)
    PROVE  \E h \in Nat : DOMAIN cards = 1 .. h /\ OwnCards(held, cards, h, own)
<1>1. IsFiniteSet(own)  BY WindowFinite, FS_Subset
<1>2. PICK m, ordered : m = Cardinality(own) /\ ordered = SortedBy(own, byImportance)  OBVIOUS
<1>3. m \in Nat /\ Arranges(ordered, m, own, byImportance)
  <2>1. Orders(byImportance, own)  BY ImportanceOrders
  <2> QED  BY <1>1, <1>2, <2>1, Sorted, FS_CardinalityType
<1>4. DOMAIN ordered = 1 .. m  BY <1>3 DEF Arranges
<1>5. cards = [i \in 1 .. m |-> eventCard(ordered[i])] \/ cards = foldByTarget(ordered)
  <2>1. cards = IF Len(ordered) <= GroupingThreshold THEN [i \in DOMAIN ordered |-> eventCard(ordered[i])]
                ELSE foldByTarget(ordered)
    BY <1>2 DEF mainCards
  <2> QED  BY <1>4, <2>1
<1>6. CASE cards = [i \in 1 .. m |-> eventCard(ordered[i])]
  <2>1. OwnCards(held, cards, m, own)  BY <1>3, <1>6, OwnUnfolded
  <2>2. DOMAIN cards = 1 .. m  BY <1>6
  <2> QED  BY <1>3, <2>1, <2>2
<1>7. CASE cards = foldByTarget(ordered)  BY <1>3, <1>7, OwnFolded
<1> QED  BY <1>5, <1>6, <1>7

OfMarket(H) == {e \in DOMAIN H : H[e].pack}

\* The foremost of the market's changes are on the cards at I.
Foremost(H, cards, I) ==
    /\ \A i \in I : Whole(H, cards[i]) /\ cards[i].event \in OfMarket(H)
    /\ \A i, j \in I : i # j => cards[i].event # cards[j].event
    /\ Cardinality(I) = Min({MarketLimit, Cardinality(OfMarket(H))})
    /\ \A e \in OfMarket(H) : \/ \E i \in I : cards[i].event = e
                            \/ \A i \in I : H[e].worth <= H[cards[i].event].worth

LEMMA ForemostMade ==
    ASSUME Window, NEW cards, cards = marketCards(OfMarket(held))
    PROVE  \E n \in Nat : DOMAIN cards = 1 .. n /\ Foremost(held, cards, 1 .. n)
<1>1. PICK S : S = OfMarket(held)  OBVIOUS
<1>2. S \subseteq DOMAIN held /\ IsFiniteSet(S)
  <2>1. S \subseteq DOMAIN held  BY <1>1 DEF OfMarket
  <2> QED  BY <2>1, WindowFinite, FS_Subset
<1>3. PICK q, p : q = SortedBy(S, marketRank) /\ p = Cardinality(S)  OBVIOUS
<1>4. p \in Nat /\ Orders(marketRank, S) /\ Arranges(q, p, S, marketRank)
  <2>1. p \in Nat  BY <1>2, <1>3, FS_CardinalityType
  <2>2. Orders(marketRank, S)  BY <1>2, RankOrders
  <2> QED  BY <1>2, <1>3, <2>1, <2>2, Sorted
<1>5. /\ DOMAIN q = 1 .. p /\ q = [k \in 1 .. p |-> q[k]] /\ \A k \in 1 .. p : q[k] \in S
      /\ \A e \in S : \E k \in 1 .. p : q[k] = e
      /\ \A j, k \in 1 .. p : j < k => Precedes(marketRank, q[j], q[k])
  BY <1>4 DEF Arranges
<1>6. Len(q) = p  BY <1>4, <1>5, ListIs
<1>7. PICK n : n = Min({p, MarketLimit})  OBVIOUS
<1>8. n \in Nat /\ n <= p /\ (n = p \/ n = MarketLimit) /\ n = Min({MarketLimit, p})
  <2>1. MarketLimit \in Nat  BY CardsAssumption DEF CardsAssumption
  <2>2. {p, MarketLimit} = {MarketLimit, p}  OBVIOUS
  <2> QED  BY <1>4, <1>7, <2>1, <2>2, LeastOf
<1>9. cards = [i \in 1 .. n |-> eventCard(q[i])]  BY <1>1, <1>3, <1>6, <1>7 DEF marketCards
<1>10. \A i \in 1 .. n : i \in 1 .. p /\ cards[i] = eventCard(q[i]) /\ cards[i].event = q[i] /\ q[i] \in S
  <2>1. \A i \in 1 .. n : i \in 1 .. p  BY <1>4, <1>8
  <2>2. \A i \in 1 .. n : cards[i] = eventCard(q[i])  BY <1>9
  <2>3. \A i \in 1 .. n : q[i] \in S  BY <1>5, <2>1
  <2>4. \A i \in 1 .. n : cards[i].event = q[i]  BY <2>2, EventCardIs
  <2> QED  BY <2>1, <2>2, <2>3, <2>4
<1>11. \A i \in 1 .. n : Whole(held, cards[i]) /\ cards[i].event \in S
  BY <1>2, <1>10 DEF Whole, eventCard
<1>12. \A j, k \in 1 .. p : j # k => q[j] # q[k]
  <2>1. SUFFICES ASSUME NEW j \in 1 .. p, NEW k \in 1 .. p, j # k PROVE q[j] # q[k]  OBVIOUS
  <2>2. j < k \/ k < j  BY <1>4, <2>1
  <2>3. Precedes(marketRank, q[j], q[k]) \/ Precedes(marketRank, q[k], q[j])  BY <1>5, <2>2
  <2> QED  BY <1>4, <1>5, <2>3 DEF Orders
<1>13. \A e \in S : (\E i \in 1 .. n : cards[i].event = e) \/ \A i \in 1 .. n : held[e].worth <= held[cards[i].event].worth
  <2>1. SUFFICES ASSUME NEW e \in S, ~\E i \in 1 .. n : cards[i].event = e, NEW i \in 1 .. n
                 PROVE  held[e].worth <= held[cards[i].event].worth
    OBVIOUS
  <2>2. PICK k \in 1 .. p : q[k] = e  BY <1>5
  <2>3. ~(k \in 1 .. n)  BY <1>10, <2>1, <2>2
  <2>4. i < k /\ i \in 1 .. p  BY <1>4, <1>8, <2>3
  <2>5. Precedes(marketRank, q[i], e)  BY <1>5, <2>2, <2>4
  <2>6. held[q[i]].worth >= held[e].worth /\ q[i] \in DOMAIN held /\ e \in DOMAIN held  BY <1>2, <1>10, <2>5, RankOrders
  <2>7. held[q[i]].worth \in Nat /\ held[e].worth \in Nat  BY <2>6, EventsAre
  <2> QED  BY <1>10, <2>6, <2>7
<1>14. Cardinality(1 .. n) = n  BY <1>8, FS_Interval
<1>15. Foremost(held, cards, 1 .. n)
  <2>1. \A i, j \in 1 .. n : i # j => cards[i].event # cards[j].event  BY <1>10, <1>12
  <2> QED  BY <1>1, <1>3, <1>8, <1>11, <1>13, <1>14, <2>1 DEF Foremost
<1> QED  BY <1>8, <1>9, <1>15

\* A window arranged: n cards, the first m of one's own news.
Arranged(H, cards, m, n) ==
    /\ m \in Nat /\ n \in Nat /\ m <= n /\ cards = [i \in 1 .. n |-> cards[i]]
    /\ OwnCards(H, cards, m, DOMAIN H \ OfMarket(H)) /\ Foremost(H, cards, (m + 1) .. n)

\* One list after another.
Joined(s, t, m, n) == [i \in 1 .. (m + n) |-> IF i <= m THEN s[i] ELSE t[i - m]]

LEMMA JoinedIs ==
    ASSUME NEW m \in Nat, NEW n \in Nat, NEW s, s = [i \in 1 .. m |-> s[i]], NEW t, t = [i \in 1 .. n |-> t[i]]
    PROVE  s \o t = Joined(s, t, m, n)
<1>1. PICK S : S = {s[i] : i \in 1 .. m}  OBVIOUS
<1>2. PICK T : T = {t[i] : i \in 1 .. n}  OBVIOUS
<1>3. PICK U : U = S \cup T  OBVIOUS
<1>4. DOMAIN s = 1 .. m /\ \A i \in 1 .. m : s[i] \in U  BY <1>1, <1>3
<1>5. DOMAIN t = 1 .. n /\ \A i \in 1 .. n : t[i] \in U  BY <1>2, <1>3
<1>6. s \in Seq(U) /\ Len(s) = m  BY <1>4, ListIs
<1>7. t \in Seq(U) /\ Len(t) = n  BY <1>5, ListIs
<1> QED  BY <1>6, <1>7 DEF Joined

LEMMA ArrangedMade ==
    ASSUME Window, NEW cards, cards = assembleCards
    PROVE  \E m, n \in Nat : Arranged(held, cards, m, n)
<1>1. PICK own : own = DOMAIN held \ OfMarket(held)  OBVIOUS
<1>2. PICK main, market : main = mainCards(own) /\ market = marketCards(OfMarket(held))  OBVIOUS
<1>3. cards = main \o market  BY <1>1, <1>2 DEF assembleCards, OfMarket
<1>4. PICK m \in Nat : DOMAIN main = 1 .. m /\ OwnCards(held, main, m, own)  BY <1>1, <1>2, OwnCardsMade
<1>5. PICK k \in Nat : DOMAIN market = 1 .. k /\ Foremost(held, market, 1 .. k)  BY <1>2, ForemostMade
<1>6. main = [i \in 1 .. m |-> main[i]] /\ market = [i \in 1 .. k |-> market[i]]
  <2>1. \E D, P : main = [i \in D |-> P[i]]
    <3>1. PICK o : o = SortedBy(own, byImportance)  OBVIOUS
    <3>2. CASE Len(o) <= GroupingThreshold
      <4>1. PICK P : P = [i \in DOMAIN o |-> eventCard(o[i])]  OBVIOUS
      <4>2. main = P  BY <1>2, <3>1, <3>2, <4>1 DEF mainCards
      <4>3. main = [i \in DOMAIN o |-> P[i]]  BY <4>1, <4>2
      <4> QED  BY <4>3
    <3>3. CASE ~(Len(o) <= GroupingThreshold)
      <4>1. main = foldByTarget(o)  BY <1>2, <3>1, <3>3 DEF mainCards
      <4>2. PICK first : main = [a \in DOMAIN first |-> CardFor(o[first[a]], o)]  BY <4>1 DEF foldByTarget
      <4>3. main = [a \in DOMAIN first |-> main[a]]  BY <4>2
      <4> QED  BY <4>3
    <3> QED  BY <3>2, <3>3
  <2>2. \E D, P : market = [i \in D |-> P[i]]
    <3>1. PICK o : o = SortedBy(OfMarket(held), marketRank)  OBVIOUS
    <3>2. PICK P, D : D = 1 .. Min({Len(o), MarketLimit}) /\ P = [i \in D |-> eventCard(o[i])]  OBVIOUS
    <3>3. market = P  BY <1>2, <3>1, <3>2 DEF marketCards
    <3>4. market = [i \in D |-> P[i]]  BY <3>2, <3>3
    <3> QED  BY <3>4
  <2> QED  BY <1>4, <1>5, <2>1, <2>2
<1>7. PICK n : n = m + k  OBVIOUS
<1>8. cards = Joined(main, market, m, k)  BY <1>3, <1>6, JoinedIs
<1>9. /\ cards = [i \in 1 .. n |-> cards[i]]
      /\ \A i \in 1 .. m : cards[i] = main[i]
      /\ \A i \in (m + 1) .. n : cards[i] = market[i - m] /\ i - m \in 1 .. k
      /\ \A i \in 1 .. k : i + m \in (m + 1) .. n /\ cards[i + m] = market[i]
  <2>1. cards = [i \in 1 .. n |-> IF i <= m THEN main[i] ELSE market[i - m]]  BY <1>7, <1>8 DEF Joined
  <2>2. \A i \in 1 .. m : i \in 1 .. n /\ i <= m  BY <1>7
  <2>3. \A i \in (m + 1) .. n : i \in 1 .. n /\ ~(i <= m) /\ i - m \in 1 .. k  BY <1>7
  <2>4. \A i \in 1 .. k : i + m \in (m + 1) .. n /\ (i + m) - m = i  BY <1>7
  <2>5. \A i \in (m + 1) .. n : cards[i] = market[i - m]  BY <2>1, <2>3
  <2>6. \A i \in 1 .. k : cards[i + m] = market[i]  BY <2>4, <2>5
  <2>7. cards = [i \in 1 .. n |-> cards[i]]  BY <2>1
  <2>8. \A i \in 1 .. m : cards[i] = main[i]  BY <2>1, <2>2
  <2> QED  BY <2>3, <2>4, <2>5, <2>6, <2>7, <2>8
<1>10. OwnCards(held, cards, m, own)
  <2>1. \A i \in 1 .. m : (Whole(held, cards[i]) \/ Folded(held, cards[i])) /\ cards[i].of \subseteq own
    BY <1>4, <1>9 DEF OwnCards
  <2>2. \A e \in own : \E i \in 1 .. m : e \in cards[i].of  BY <1>4, <1>9 DEF OwnCards
  <2>3. \A i, j \in 1 .. m : i < j => \A e \in cards[i].of, f \in cards[j].of :
           e # f /\ (held[f].isUrgent => held[e].isUrgent)
    BY <1>4, <1>9 DEF OwnCards
  <2> QED  BY <2>1, <2>2, <2>3 DEF OwnCards
<1>11. Foremost(held, cards, (m + 1) .. n)
  <2>1. \A i \in 1 .. k : Whole(held, market[i]) /\ market[i].event \in OfMarket(held)  BY <1>5 DEF Foremost
  <2>2. \A i, j \in 1 .. k : i # j => market[i].event # market[j].event  BY <1>5 DEF Foremost
  <2>3. Cardinality(1 .. k) = Min({MarketLimit, Cardinality(OfMarket(held))})  BY <1>5 DEF Foremost
  <2>4. \A e \in OfMarket(held) : \/ \E i \in 1 .. k : market[i].event = e
                                \/ \A i \in 1 .. k : held[e].worth <= held[market[i].event].worth
    BY <1>5 DEF Foremost
  <2>5. \A i \in (m + 1) .. n : Whole(held, cards[i]) /\ cards[i].event \in OfMarket(held)  BY <1>9, <2>1
  <2>6. \A i, j \in (m + 1) .. n : i # j => cards[i].event # cards[j].event
    <3>1. SUFFICES ASSUME NEW i \in (m + 1) .. n, NEW j \in (m + 1) .. n, i # j PROVE cards[i].event # cards[j].event
      OBVIOUS
    <3>2. i - m \in 1 .. k /\ j - m \in 1 .. k /\ cards[i] = market[i - m] /\ cards[j] = market[j - m]  BY <1>9
    <3>3. i - m # j - m  BY <3>1
    <3> QED  BY <2>2, <3>2, <3>3
  <2>7. Cardinality((m + 1) .. n) = Min({MarketLimit, Cardinality(OfMarket(held))})
    <3>1. Cardinality(1 .. k) = k  BY FS_Interval
    <3>2. m + 1 \in Int /\ n \in Int /\ (IF m + 1 > n THEN 0 ELSE n - (m + 1) + 1) = k  BY <1>7
    <3>3. Cardinality((m + 1) .. n) = k  BY <3>2, FS_Interval
    <3> QED  BY <2>3, <3>1, <3>3
  <2>8. ASSUME NEW e \in OfMarket(held)
        PROVE  \/ \E i \in (m + 1) .. n : cards[i].event = e
               \/ \A i \in (m + 1) .. n : held[e].worth <= held[cards[i].event].worth
    <3>1. CASE \E i \in 1 .. k : market[i].event = e
      <4>1. PICK i \in 1 .. k : market[i].event = e  BY <3>1
      <4>2. i + m \in (m + 1) .. n /\ cards[i + m].event = e  BY <1>9, <4>1
      <4> QED  BY <4>2
    <3>2. CASE \A i \in 1 .. k : held[e].worth <= held[market[i].event].worth  BY <1>9, <3>2
    <3> QED  BY <2>4, <3>1, <3>2
  <2> QED  BY <2>5, <2>6, <2>7, <2>8 DEF Foremost
<1>12. m \in Nat /\ n \in Nat /\ m <= n  BY <1>7
<1> QED  BY <1>1, <1>9, <1>10, <1>11, <1>12 DEF Arranged

-----------------------------------------------------------------------------
(* The text of a card *)

\* A card as a channel tells it.
Text(channel, c) == IF channel = "telegram" THEN fitToLimit(CardLines(c)) ELSE CardLines(c)

LEMMA CardLinesAre ==
    ASSUME NEW c, NEW n \in Nat, c.blocks = [i \in 1 .. n |-> c.blocks[i]], c.more \in Nat, NEW p,
           p = (IF c.more = 0 THEN n + 1 ELSE n + 2), NEW L, L = CardLines(c)
    PROVE  /\ L = [i \in 1 .. p |-> L[i]] /\ L[1] = Headline(c)
           /\ \A i \in 2 .. p : (i <= n + 1 => L[i] = c.blocks[i - 1]) /\ (i > n + 1 => L[i] = Line("more", 0, c.more))
<1>1. PICK head : head = <<Headline(c)>>  OBVIOUS
<1>2. head = [i \in 1 .. 1 |-> head[i]] /\ head[1] = Headline(c)  BY <1>1
<1>3. PICK body : body = head \o c.blocks  OBVIOUS
<1>4. body = [i \in 1 .. (1 + n) |-> IF i <= 1 THEN head[i] ELSE c.blocks[i - 1]]
  <2>1. body = Joined(head, c.blocks, 1, n)  BY <1>2, <1>3, JoinedIs
  <2> QED  BY <2>1 DEF Joined
<1>5. body = [i \in 1 .. (1 + n) |-> body[i]] /\ body[1] = Headline(c)
      /\ \A i \in 2 .. (1 + n) : body[i] = c.blocks[i - 1]
  <2>1. body = [i \in 1 .. (1 + n) |-> body[i]]  BY <1>4
  <2>2. body[1] = head[1]  BY <1>4
  <2>3. \A i \in 2 .. (1 + n) : body[i] = c.blocks[i - 1]  BY <1>4
  <2> QED  BY <1>2, <2>1, <2>2, <2>3
<1>6. PICK end : end = (IF c.more > 0 THEN <<Line("more", 0, c.more)>> ELSE <<>>)  OBVIOUS
<1>7. L = body \o end  BY <1>1, <1>3, <1>6 DEF CardLines
<1>8. CASE c.more = 0
  <2>1. end = <<>> /\ p = 1 + n  BY <1>6, <1>8
  <2>2. PICK U : U = {body[i] : i \in 1 .. (1 + n)}  OBVIOUS
  <2>3. body \in Seq(U)
    <3>1. DOMAIN body = 1 .. (1 + n) /\ (\A i \in 1 .. (1 + n) : body[i] \in U) /\ 1 + n \in Nat  BY <1>5, <2>2
    <3> QED  BY <1>5, <3>1, ListIs
  <2>4. L = body  BY <1>7, <2>1, <2>3
  <2>5. \A i \in 2 .. p : i \in 2 .. (1 + n) /\ i <= n + 1 /\ ~(i > n + 1)  BY <2>1
  <2>6. L = [i \in 1 .. p |-> L[i]] /\ L[1] = Headline(c)  BY <1>5, <2>1, <2>4
  <2>7. \A i \in 2 .. p : L[i] = c.blocks[i - 1]  BY <1>5, <2>4, <2>5
  <2> QED  BY <2>5, <2>6, <2>7
<1>9. CASE c.more # 0
  <2>1. end = <<Line("more", 0, c.more)>> /\ p = 1 + n + 1  BY <1>6, <1>9
  <2>2. end = [i \in 1 .. 1 |-> end[i]] /\ end[1] = Line("more", 0, c.more)  BY <2>1
  <2>3. L = Joined(body, end, 1 + n, 1)
    <3>1. PICK r \in Nat : r = 1 + n  OBVIOUS
    <3>2. body = [i \in 1 .. r |-> body[i]]  BY <1>5, <3>1
    <3>4. PICK u \in Nat : u = 1  OBVIOUS
    <3>5. end = [i \in 1 .. u |-> end[i]]  BY <2>2, <3>4
    <3>6. body \o end = Joined(body, end, r, u)  BY <3>2, <3>5, JoinedIs
    <3>3. body \o end = Joined(body, end, r, 1)  BY <3>4, <3>6
    <3> QED  BY <1>7, <3>1, <3>3
  <2>4. L = [i \in 1 .. p |-> IF i <= 1 + n THEN body[i] ELSE end[i - (1 + n)]]  BY <2>1, <2>3 DEF Joined
  <2>5. L = [i \in 1 .. p |-> L[i]]  BY <2>4
  <2>6. \A i \in 1 .. p : i <= 1 + n => L[i] = body[i]  BY <2>4
  <2>7. \A i \in 1 .. p : i > 1 + n => L[i] = end[1]
    <3>1. \A i \in 1 .. p : i > 1 + n => i - (1 + n) = 1 /\ ~(i <= 1 + n)  BY <2>1
    <3> QED  BY <2>4, <3>1
  <2>8. 1 \in 1 .. p /\ 1 <= 1 + n /\ \A i \in 2 .. p : i \in 1 .. p /\ (i <= n + 1 => i \in 2 .. (1 + n)) /\ (i > n + 1 => i > 1 + n)
    BY <2>1
  <2>9. \A i \in 2 .. p : i <= n + 1 => L[i] = c.blocks[i - 1]
    <3>1. SUFFICES ASSUME NEW i \in 2 .. p, i <= n + 1 PROVE L[i] = c.blocks[i - 1]  OBVIOUS
    <3>2. i \in 1 .. p /\ i \in 2 .. (1 + n)  BY <2>8, <3>1
    <3>3. i <= 1 + n  BY <3>1
    <3>4. L[i] = body[i]  BY <2>6, <3>2, <3>3
    <3> QED  BY <1>5, <3>2, <3>4
  <2>10. \A i \in 2 .. p : i > n + 1 => L[i] = Line("more", 0, c.more)  BY <2>2, <2>7, <2>8
  <2>11. L[1] = Headline(c)  BY <1>5, <2>6, <2>8
  <2> QED  BY <2>5, <2>9, <2>10, <2>11
<1> QED  BY <1>8, <1>9

\* A text of q of the p lines of a card with n facts.
LinesOf(c, n, p, channel, t, q) ==
    /\ t = [i \in 1 .. q |-> t[i]] /\ t[1] = Headline(c) /\ (q > 1 \/ q = p)
    /\ q = (IF channel = "telegram" THEN Min({p, MaxLines}) ELSE p)
    /\ \A i \in 2 .. q : (i <= n + 1 => t[i] = c.blocks[i - 1]) /\ (i > n + 1 => t[i] = Line("more", 0, c.more))

LEMMA TextLines ==
    ASSUME NEW c, NEW n \in Nat, c.blocks = [i \in 1 .. n |-> c.blocks[i]], c.more \in Nat, NEW p,
           p = (IF c.more = 0 THEN n + 1 ELSE n + 2), NEW channel, NEW t, t = Text(channel, c)
    PROVE  \E q \in Nat : LinesOf(c, n, p, channel, t, q)
<1>1. PICK L : L = CardLines(c)  OBVIOUS
<1>2. /\ L = [i \in 1 .. p |-> L[i]] /\ L[1] = Headline(c)
      /\ \A i \in 2 .. p : (i <= n + 1 => L[i] = c.blocks[i - 1]) /\ (i > n + 1 => L[i] = Line("more", 0, c.more))
  BY <1>1, CardLinesAre
<1>3. p \in Nat /\ p > 0  OBVIOUS
<1>4. PICK U : U = {L[i] : i \in 1 .. p}  OBVIOUS
<1>5. L \in Seq(U) /\ Len(L) = p
  <2>1. DOMAIN L = 1 .. p /\ \A i \in 1 .. p : L[i] \in U  BY <1>2, <1>4
  <2> QED  BY <1>2, <1>3, <2>1, ListIs
<1>6. CASE channel # "telegram"
  <2>1. t = L  BY <1>1, <1>6 DEF Text
  <2>2. LinesOf(c, n, p, channel, t, p)  BY <1>2, <1>6, <2>1 DEF LinesOf
  <2> QED  BY <1>3, <2>2
<1>7. CASE channel = "telegram"
  <2>1. PICK q : q = Min({p, MaxLines})  OBVIOUS
  <2>2. MaxLines \in Nat /\ MaxLines > 1  BY CardsAssumption DEF CardsAssumption
  <2>3. q \in Nat /\ q > 0 /\ q <= p /\ (q > 1 \/ q = p)  BY <1>3, <2>1, <2>2, LeastOf
  <2>4. t = SubSeq(L, 1, q)  BY <1>1, <1>5, <1>7, <2>1 DEF Text, fitToLimit
  <2>5. t = [i \in 1 .. q |-> L[i]]  BY <1>5, <2>3, <2>4
  <2>6. t = [i \in 1 .. q |-> t[i]] /\ \A i \in 1 .. q : t[i] = L[i]  BY <2>5
  <2>7. 1 \in 1 .. q /\ \A i \in 2 .. q : i \in 1 .. q /\ i \in 2 .. p  BY <1>3, <2>3
  <2>8. t[1] = Headline(c)  BY <1>2, <2>6, <2>7
  <2>9. \A i \in 2 .. q : (i <= n + 1 => t[i] = c.blocks[i - 1]) /\ (i > n + 1 => t[i] = Line("more", 0, c.more))
    <3>1. SUFFICES ASSUME NEW i \in 2 .. q
                   PROVE  (i <= n + 1 => t[i] = c.blocks[i - 1]) /\ (i > n + 1 => t[i] = Line("more", 0, c.more))
      OBVIOUS
    <3>2. i \in 2 .. p /\ t[i] = L[i]  BY <2>6, <2>7
    <3> QED  BY <1>2, <3>2
  <2>10. q = (IF channel = "telegram" THEN Min({p, MaxLines}) ELSE p)  BY <1>7, <2>1
  <2>11. LinesOf(c, n, p, channel, t, q)  BY <2>3, <2>6, <2>8, <2>9, <2>10 DEF LinesOf
  <2> QED  BY <2>3, <2>11
<1> QED  BY <1>6, <1>7

\* A text says of a card what there is to say: one event with the facts there is
\* room for, or how many are folded.
SaysOf(H, c, t, channel) ==
    /\ t[1].says = "headline" /\ Speaks(t) = Cardinality(c.of) /\ Named(t) \subseteq c.of
    /\ Whole(H, c) =>
           /\ Named(t) = c.of
           /\ Cardinality(FactsIn(t)) =
                  IF channel = "telegram" THEN Min({H[c.event].facts, MaxLines - 1}) ELSE H[c.event].facts

LEMMA FactLines ==
    ASSUME NEW t, NEW q \in Nat, q > 0, t = [i \in 1 .. q |-> t[i]], t[1].says = "headline", NEW n \in Nat,
           \A i \in 2 .. q : (i <= n + 1 => t[i].says = "fact") /\ (i > n + 1 => t[i].says = "more")
    PROVE  \A i : i \in FactsIn(t) <=> i \in 2 .. q /\ i <= n + 1
<1>1. DOMAIN t = 1 .. q  OBVIOUS
<1>2. SUFFICES ASSUME NEW i PROVE i \in FactsIn(t) <=> i \in 2 .. q /\ i <= n + 1  OBVIOUS
<1>3. i \in FactsIn(t) <=> i \in 1 .. q /\ t[i].says = "fact"  BY <1>1 DEF FactsIn
<1>4. i \in 1 .. q <=> i = 1 \/ i \in 2 .. q  OBVIOUS
<1>5. i \in 2 .. q => (i <= n + 1 \/ i > n + 1)  OBVIOUS
<1>6. "fact" # "more" /\ "fact" # "headline" /\ i \in 2 .. q => i # 1  OBVIOUS
<1>7. i \in 2 .. q /\ t[i].says = "fact" => i <= n + 1  BY <1>5, <1>6
<1>8. i = 1 => t[i].says # "fact" /\ ~(i \in 2 .. q)  BY <1>6
<1> QED  BY <1>3, <1>4, <1>7, <1>8

LEMMA TextOfWhole ==
    ASSUME Window, NEW c, Whole(held, c), NEW channel, NEW t, t = Text(channel, c)
    PROVE  SaysOf(held, c, t, channel)
<1>1. PICK e \in DOMAIN held : c = [kind |-> "event", event |-> e, of |-> {e}, more |-> 0,
                                    blocks |-> [n \in 1 .. held[e].facts |-> factBlock(e, n)]]
  BY DEF Whole
<1>2. PICK n \in Nat : n = held[e].facts /\ n > 0  BY EventsAre
<1>3. /\ c.kind = "event" /\ c.event = e /\ c.of = {e} /\ c.more = 0
      /\ c.blocks = [i \in 1 .. n |-> factBlock(e, i)]
  BY <1>1, <1>2
<1>4. c.blocks = [i \in 1 .. n |-> c.blocks[i]]
      /\ \A i \in 1 .. n : c.blocks[i].says = "fact" /\ c.blocks[i].event = e
  <2>1. \A i \in 1 .. n : c.blocks[i] = factBlock(e, i)  BY <1>3
  <2>2. \A i : factBlock(e, i).says = "fact" /\ factBlock(e, i).event = e  BY DEF factBlock, Line
  <2> QED  BY <1>3, <2>1, <2>2
<1>5. PICK q \in Nat :
          /\ t = [i \in 1 .. q |-> t[i]] /\ t[1] = Headline(c)
          /\ q = (IF channel = "telegram" THEN Min({n + 1, MaxLines}) ELSE n + 1)
          /\ \A i \in 2 .. q : (i <= n + 1 => t[i] = c.blocks[i - 1])
  <2>1. PICK p : p = n + 1  OBVIOUS
  <2>2. p = (IF c.more = 0 THEN n + 1 ELSE n + 2) /\ c.more \in Nat  BY <1>3, <2>1
  <2>3. PICK q \in Nat : LinesOf(c, n, p, channel, t, q)  BY <1>4, <2>2, TextLines
  <2>4. t = [i \in 1 .. q |-> t[i]] /\ t[1] = Headline(c)  BY <2>3 DEF LinesOf
  <2>5. q = (IF channel = "telegram" THEN Min({n + 1, MaxLines}) ELSE n + 1)  BY <2>1, <2>3 DEF LinesOf
  <2>6. \A i \in 2 .. q : (i <= n + 1 => t[i] = c.blocks[i - 1])  BY <2>3 DEF LinesOf
  <2> QED  BY <2>4, <2>5, <2>6
<1>6. t[1].says = "headline" /\ t[1].count = 1
  <2>1. t[1] = Line("headline", c.event, 1)  BY <1>3, <1>5 DEF Headline
  <2> QED  BY <2>1 DEF Line
<1>7. MaxLines \in Nat /\ MaxLines > 1  BY CardsAssumption DEF CardsAssumption
<1>8. q > 1 /\ q <= n + 1 /\ q - 1 = (IF channel = "telegram" THEN Min({n, MaxLines - 1}) ELSE n)
  <2>1. Min({n + 1, MaxLines}) = (IF n + 1 <= MaxLines THEN n + 1 ELSE MaxLines)  BY <1>7, LeastOf
  <2>2. Min({n, MaxLines - 1}) = (IF n <= MaxLines - 1 THEN n ELSE MaxLines - 1)  BY <1>7, LeastOf
  <2>3. CASE channel = "telegram"
    <3>1. q = (IF n + 1 <= MaxLines THEN n + 1 ELSE MaxLines)  BY <1>5, <2>1, <2>3
    <3>2. q > 1 /\ q <= n + 1 /\ q - 1 = (IF n <= MaxLines - 1 THEN n ELSE MaxLines - 1)  BY <1>2, <1>7, <3>1
    <3> QED  BY <2>2, <2>3, <3>2
  <2>4. CASE channel # "telegram"
    <3>1. q = n + 1  BY <1>5, <2>4
    <3> QED  BY <1>2, <2>4, <3>1
  <2> QED  BY <2>3, <2>4
<1>9. \A i \in 2 .. q : i <= n + 1 /\ i - 1 \in 1 .. n /\ ~(i > n + 1) /\ t[i] = c.blocks[i - 1]
  <2>1. \A i \in 2 .. q : i <= n + 1 /\ i - 1 \in 1 .. n /\ ~(i > n + 1)  BY <1>8
  <2> QED  BY <1>5, <2>1
<1>10. \A i \in 2 .. q : t[i].says = "fact" /\ t[i].event = e /\ i <= n + 1 /\ ~(i > n + 1)  BY <1>4, <1>9
<1>11. FactsIn(t) = 2 .. q
  <2>1. q > 0 /\ t = [i \in 1 .. q |-> t[i]]  BY <1>5, <1>8
  <2>2. \A i : i \in FactsIn(t) <=> i \in 2 .. q /\ i <= n + 1  BY <1>6, <1>10, <2>1, FactLines
  <2> QED  BY <1>10, <2>2
<1>12. Named(t) = {e}
  <2>1. Named(t) = {t[i].event : i \in 2 .. q}  BY <1>11 DEF Named
  <2>2. 2 \in 2 .. q  BY <1>8
  <2> QED  BY <1>10, <2>1, <2>2
<1>13. Cardinality(FactsIn(t)) = q - 1
  <2>1. 2 \in Int /\ q \in Int /\ (IF 2 > q THEN 0 ELSE q - 2 + 1) = q - 1  BY <1>8
  <2> QED  BY <1>11, <2>1, FS_Interval
<1>14. Cardinality({e}) = 1  BY FS_Singleton
<1>15. Speaks(t) = Cardinality(c.of) /\ Named(t) = c.of  BY <1>3, <1>6, <1>12, <1>14 DEF Speaks
<1>16. Cardinality(FactsIn(t)) =
           IF channel = "telegram" THEN Min({held[c.event].facts, MaxLines - 1}) ELSE held[c.event].facts
  BY <1>2, <1>3, <1>8, <1>13
<1> QED  BY <1>6, <1>15, <1>16 DEF SaysOf

LEMMA TextOfFolded ==
    ASSUME Window, NEW c, Folded(held, c), NEW channel, NEW t, t = Text(channel, c)
    PROVE  SaysOf(held, c, t, channel)
<1>1. /\ c.kind = "group" /\ c.more \in Nat
      /\ c.blocks = [i \in 1 .. Len(c.blocks) |-> c.blocks[i]]
      /\ \A i \in 1 .. Len(c.blocks) : c.blocks[i].says = "fact" /\ c.blocks[i].event \in c.of
      /\ Cardinality(c.of) = Len(c.blocks) + c.more
  BY DEF Folded
<1>2. PICK n \in Nat : n = Len(c.blocks)  BY DEF Folded
<1>3. PICK p \in Nat : p = (IF c.more = 0 THEN n + 1 ELSE n + 2) /\ p > 0  OBVIOUS
<1>4. PICK q \in Nat :
          /\ t = [i \in 1 .. q |-> t[i]] /\ t[1] = Headline(c) /\ (q > 1 \/ q = p)
          /\ \A i \in 2 .. q : (i <= n + 1 => t[i] = c.blocks[i - 1]) /\ (i > n + 1 => t[i] = Line("more", 0, c.more))
  <2>1. c.blocks = [i \in 1 .. n |-> c.blocks[i]] /\ c.more \in Nat  BY <1>1, <1>2
  <2>2. PICK q \in Nat : LinesOf(c, n, p, channel, t, q)  BY <1>3, <2>1, TextLines
  <2> QED  BY <2>2 DEF LinesOf
<1>5. t[1].says = "headline" /\ t[1].count = Len(c.blocks) + c.more
  <2>1. t[1] = Line("headline", c.event, Len(c.blocks) + c.more)  BY <1>1, <1>4 DEF Headline
  <2> QED  BY <2>1 DEF Line
<1>6. q > 0  BY <1>3, <1>4
<1>7. \A i \in 2 .. q : i <= n + 1 => i - 1 \in 1 .. n  OBVIOUS
<1>8. \A i \in 2 .. q : (i <= n + 1 => t[i].says = "fact" /\ t[i].event \in c.of) /\ (i > n + 1 => t[i].says = "more")
  <2>1. SUFFICES ASSUME NEW i \in 2 .. q
                 PROVE  (i <= n + 1 => t[i].says = "fact" /\ t[i].event \in c.of) /\ (i > n + 1 => t[i].says = "more")
    OBVIOUS
  <2>2. ASSUME i > n + 1 PROVE t[i].says = "more"
    <3>1. t[i] = Line("more", 0, c.more)  BY <1>4, <2>2
    <3> QED  BY <3>1 DEF Line
  <2>3. ASSUME i <= n + 1 PROVE t[i].says = "fact" /\ t[i].event \in c.of
    <3>1. PICK j : j = i - 1 /\ j \in 1 .. n  BY <1>7, <2>3
    <3>2. t[i] = c.blocks[j]  BY <1>4, <2>3, <3>1
    <3> QED  BY <1>1, <1>2, <3>1, <3>2
  <2> QED  BY <2>2, <2>3
<1>9. \A i : i \in FactsIn(t) <=> i \in 2 .. q /\ i <= n + 1
  <2>1. \A i \in 2 .. q : (i <= n + 1 => t[i].says = "fact") /\ (i > n + 1 => t[i].says = "more")  BY <1>8
  <2>2. t = [i \in 1 .. q |-> t[i]] /\ t[1].says = "headline"  BY <1>4, <1>5
  <2> QED  BY <1>6, <2>1, <2>2, FactLines
<1>10. Named(t) \subseteq c.of  BY <1>8, <1>9 DEF Named
<1>11. ~Whole(held, c)  BY <1>1 DEF Whole
<1> QED  BY <1>1, <1>5, <1>10, <1>11 DEF SaysOf, Speaks

LEMMA SectionsAre ==
    ASSUME Window, NEW m, NEW n, Arranged(held, digest.cards, m, n)
    PROVE  InSection("main") = 1 .. m /\ InSection("market") = (m + 1) .. n
<1>1. m \in Nat /\ n \in Nat /\ m <= n /\ DOMAIN digest.cards = 1 .. n  BY DEF Arranged
<1>2. \A i \in 1 .. n : i \in 1 .. m \/ i \in (m + 1) .. n  BY <1>1
<1>3. (1 .. m) \subseteq 1 .. n /\ ((m + 1) .. n) \subseteq 1 .. n  BY <1>1
<1>4. PICK cards : cards = digest.cards  OBVIOUS
<1>5. \A i \in 1 .. m : ~held[cards[i].event].pack
  <2>1. SUFFICES ASSUME NEW i \in 1 .. m PROVE ~held[cards[i].event].pack  OBVIOUS
  <2>2. (Whole(held, cards[i]) \/ Folded(held, cards[i])) /\ cards[i].of \subseteq DOMAIN held \ OfMarket(held)
    BY <1>4 DEF Arranged, OwnCards
  <2>3. cards[i].event \in cards[i].of
    <3>1. CASE Folded(held, cards[i])  BY <3>1 DEF Folded
    <3>2. CASE Whole(held, cards[i])  BY <3>2 DEF Whole
    <3> QED  BY <2>2, <3>1, <3>2
  <2> QED  BY <2>2, <2>3 DEF OfMarket
<1>6. \A i \in (m + 1) .. n : held[cards[i].event].pack
  BY <1>4 DEF Arranged, Foremost, OfMarket
<1>7. \A i \in 1 .. n : Section(cards[i]) = (IF held[cards[i].event].pack THEN "market" ELSE "main")  BY DEF Section
<1>8. \A s : InSection(s) = {i \in 1 .. n : Section(cards[i]) = s}  BY <1>1, <1>4 DEF InSection
<1>9. \A i \in 1 .. m : Section(cards[i]) = "main"  BY <1>3, <1>5, <1>7
<1>10. \A i \in (m + 1) .. n : Section(cards[i]) = "market"  BY <1>3, <1>6, <1>7
<1>11. InSection("main") = 1 .. m
  <2>1. \A i : i \in InSection("main") <=> i \in 1 .. n /\ Section(cards[i]) = "main"  BY <1>8
  <2> QED  BY <1>2, <1>3, <1>9, <1>10, <2>1
<1>12. InSection("market") = (m + 1) .. n
  <2>1. \A i : i \in InSection("market") <=> i \in 1 .. n /\ Section(cards[i]) = "market"  BY <1>8
  <2> QED  BY <1>2, <1>3, <1>9, <1>10, <2>1
<1> QED  BY <1>11, <1>12

-----------------------------------------------------------------------------
(* The texts of a digest *)

\* The texts of n cards, a heading before those from m + 1 on.
WithHeading(s, m, n) ==
    IF m = n THEN s ELSE [k \in 1 .. (n + 1) |-> IF k <= m THEN s[k] ELSE IF k = m + 1 THEN MarketHeading ELSE s[k - 1]]

LEMMA HeadedAre ==
    ASSUME NEW m \in Nat, NEW n \in Nat, m <= n, NEW s, s = [i \in 1 .. n |-> s[i]], NEW starts,
           starts = (IF m = n THEN {} ELSE {m + 1})
    PROVE  Headed(s, starts) = WithHeading(s, m, n)
<1> DEFINE At(i) == i + Cardinality({j \in starts : j <= i})
           after(k) == {i \in 1 .. n : At(i) = k}
<1>1. DOMAIN s = 1 .. n /\ Len(s) = n
  <2>1. PICK U : U = {s[i] : i \in 1 .. n}  OBVIOUS
  <2>2. DOMAIN s = 1 .. n /\ \A i \in 1 .. n : s[i] \in U  BY <2>1
  <2> QED  BY <2>2, ListIs
<1>2. Headed(s, starts) = [k \in 1 .. (n + Cardinality(starts)) |->
                              IF after(k) = {} THEN MarketHeading ELSE s[CHOOSE i \in after(k) : TRUE]]
  BY <1>1 DEF Headed
<1>3. Cardinality({}) = 0 /\ Cardinality({m + 1}) = 1  BY FS_EmptySet, FS_Singleton
<1>4. \A x : (CHOOSE i \in {x} : TRUE) = x  OBVIOUS
<1>5. CASE m = n
  <2>1. \A i \in 1 .. n : At(i) = i
    <3>1. SUFFICES ASSUME NEW i \in 1 .. n PROVE At(i) = i  OBVIOUS
    <3>2. {j \in starts : j <= i} = {}  BY <1>5
    <3> QED  BY <1>3, <3>2
  <2>2. \A k \in 1 .. n : after(k) = {k}  BY <2>1
  <2>3. \A k \in 1 .. n : (IF after(k) = {} THEN MarketHeading ELSE s[CHOOSE i \in after(k) : TRUE]) = s[k]
    <3>1. SUFFICES ASSUME NEW k \in 1 .. n
                   PROVE  (IF after(k) = {} THEN MarketHeading ELSE s[CHOOSE i \in after(k) : TRUE]) = s[k]
      OBVIOUS
    <3>2. PICK A : A = after(k) /\ A = {k}  BY <2>2
    <3>3. (CHOOSE i \in A : TRUE) = k  BY <1>4, <3>2
    <3> HIDE DEF after
    <3> QED  BY <3>2, <3>3
  <2>4. n + Cardinality(starts) = n  BY <1>3, <1>5
  <2> HIDE DEF after
  <2>5. Headed(s, starts) = [k \in 1 .. n |-> s[k]]  BY <1>2, <2>3, <2>4
  <2> QED  BY <1>5, <2>5 DEF WithHeading
<1>6. CASE m # n
  <2>1. starts = {m + 1}  BY <1>6
  <2>2. \A i \in 1 .. n : At(i) = IF i <= m THEN i ELSE i + 1
    <3>1. SUFFICES ASSUME NEW i \in 1 .. n PROVE At(i) = IF i <= m THEN i ELSE i + 1  OBVIOUS
    <3>2. CASE i <= m
      <4>1. {j \in starts : j <= i} = {}  BY <2>1, <3>2
      <4>2. Cardinality({j \in starts : j <= i}) = 0  BY <1>3, <4>1
      <4> QED  BY <3>2, <4>2
    <3>3. CASE ~(i <= m)
      <4>1. {j \in starts : j <= i} = {m + 1}  BY <2>1, <3>3
      <4>2. Cardinality({j \in starts : j <= i}) = 1  BY <1>3, <4>1
      <4> QED  BY <3>3, <4>2
    <3> QED  BY <3>2, <3>3
  <2>3. \A k \in 1 .. m : after(k) = {k}
    <3>1. SUFFICES ASSUME NEW k \in 1 .. m PROVE after(k) = {k}  OBVIOUS
    <3>2. \A i \in 1 .. n : (IF i <= m THEN i ELSE i + 1) = k <=> i = k  OBVIOUS
    <3>3. k \in 1 .. n  OBVIOUS
    <3>4. \A i \in 1 .. n : At(i) = k <=> i = k  BY <2>2, <3>2
    <3> HIDE DEF At
    <3> QED  BY <3>3, <3>4
  <2>4. after(m + 1) = {}
    <3>1. \A i \in 1 .. n : (IF i <= m THEN i ELSE i + 1) # m + 1  OBVIOUS
    <3>2. \A i \in 1 .. n : At(i) # m + 1  BY <2>2, <3>1
    <3> HIDE DEF At
    <3> QED  BY <3>2
  <2>5. \A k \in (m + 2) .. (n + 1) : after(k) = {k - 1}
    <3>1. SUFFICES ASSUME NEW k \in (m + 2) .. (n + 1) PROVE after(k) = {k - 1}  OBVIOUS
    <3>2. \A i \in 1 .. n : (IF i <= m THEN i ELSE i + 1) = k <=> i = k - 1  OBVIOUS
    <3>3. k - 1 \in 1 .. n  OBVIOUS
    <3>4. \A i \in 1 .. n : At(i) = k <=> i = k - 1  BY <2>2, <3>2
    <3> HIDE DEF At
    <3> QED  BY <3>3, <3>4
  <2>6. n + Cardinality(starts) = n + 1  BY <1>3, <2>1
  <2>7. \A k \in 1 .. (n + 1) :
            (IF after(k) = {} THEN MarketHeading ELSE s[CHOOSE i \in after(k) : TRUE])
                = IF k <= m THEN s[k] ELSE IF k = m + 1 THEN MarketHeading ELSE s[k - 1]
    <3>1. SUFFICES ASSUME NEW k \in 1 .. (n + 1)
                   PROVE  (IF after(k) = {} THEN MarketHeading ELSE s[CHOOSE i \in after(k) : TRUE])
                              = IF k <= m THEN s[k] ELSE IF k = m + 1 THEN MarketHeading ELSE s[k - 1]
      OBVIOUS
    <3>2. CASE k = m + 1
      <4>1. ~(k <= m)  BY <3>2
      <4> HIDE DEF after
      <4> QED  BY <2>4, <3>2, <4>1
    <3>3. CASE k # m + 1
      <4>1. PICK x : x = (IF k <= m THEN k ELSE k - 1)  OBVIOUS
      <4>2. after(k) = {x}
        <5>1. k \in 1 .. m \/ (k \in (m + 2) .. (n + 1) /\ ~(k <= m))  BY <3>3
        <5>2. CASE k \in 1 .. m
          <6>1. x = k  BY <4>1, <5>2
          <6> HIDE DEF after
          <6> QED  BY <2>3, <5>2, <6>1
        <5>3. CASE k \in (m + 2) .. (n + 1) /\ ~(k <= m)
          <6>1. x = k - 1  BY <4>1, <5>3
          <6> HIDE DEF after
          <6> QED  BY <2>5, <5>3, <6>1
        <5> QED  BY <5>1, <5>2, <5>3
      <4>3. PICK A : A = after(k) /\ A = {x}  BY <4>2
      <4>4. (CHOOSE i \in A : TRUE) = x  BY <1>4, <4>3
      <4> HIDE DEF after
      <4>5. (IF after(k) = {} THEN MarketHeading ELSE s[CHOOSE i \in after(k) : TRUE]) = s[x]  BY <4>3, <4>4
      <4> QED  BY <3>3, <4>1, <4>5
    <3> QED  BY <3>2, <3>3
  <2> HIDE DEF after
  <2>8. Headed(s, starts) = [k \in 1 .. (n + 1) |->
                                IF k <= m THEN s[k] ELSE IF k = m + 1 THEN MarketHeading ELSE s[k - 1]]
    BY <1>2, <2>6, <2>7
  <2> QED  BY <1>6, <2>8 DEF WithHeading
<1> QED  BY <1>5, <1>6

Texts(channel, cards, n) == [i \in 1 .. n |-> Text(channel, cards[i])]
First(s, m) == [i \in 1 .. m |-> s[i]]
Rest(s, m, n) == [i \in 1 .. (n - m) |-> s[m + i]]
IsList(s) == \E n \in Nat : s = First(s, n)

\* No text of the first m is a heading: it is found at m + 1.
LEMMA HeadingFound ==
    ASSUME NEW m \in Nat, NEW n \in Nat, m <= n, NEW s, s = First(s, n),
           \A i \in 1 .. m : s[i][1].says = "headline", NEW texts, texts = WithHeading(s, m, n)
    PROVE  /\ HeadingAt(texts) = m + 1
           /\ SubSeq(texts, 1, m) = First(s, m) /\ SubSeq(texts, m + 2, Len(texts)) = Rest(s, m, n)
           /\ IsList(texts)
<1>1. PICK N \in Nat : N = (IF m = n THEN n ELSE n + 1) /\ m <= N  OBVIOUS
<1>2. texts = [k \in 1 .. N |-> texts[k]] /\ (\A i \in 1 .. m : texts[i] = s[i])
      /\ (m + 1 <= N => texts[m + 1] = MarketHeading)
      /\ \A i \in (m + 2) .. N : texts[i] = s[i - 1]
  <2>1. CASE m = n
    <3>1. texts = s /\ N = n  BY <1>1, <2>1 DEF WithHeading
    <3>3. texts = [k \in 1 .. N |-> texts[k]]  BY <3>1 DEF First
    <3>2. ~(m + 1 <= N) /\ (m + 2) .. N = {}  BY <1>1, <2>1
    <3> QED  BY <3>1, <3>2, <3>3
  <2>2. CASE m # n
    <3>1. N = n + 1  BY <1>1, <2>2
    <3>2. texts = [k \in 1 .. N |-> IF k <= m THEN s[k] ELSE IF k = m + 1 THEN MarketHeading ELSE s[k - 1]]
      BY <2>2, <3>1 DEF WithHeading
    <3>3. \A i \in 1 .. m : i \in 1 .. N /\ i <= m  BY <3>1
    <3>4. m + 1 \in 1 .. N /\ ~(m + 1 <= m)  BY <3>1
    <3>5. \A i \in (m + 2) .. N : i \in 1 .. N /\ ~(i <= m) /\ i # m + 1  BY <3>1
    <3>6. texts = [k \in 1 .. N |-> texts[k]]  BY <3>2
    <3>7. \A i \in 1 .. m : texts[i] = s[i]  BY <3>2, <3>3
    <3>8. texts[m + 1] = MarketHeading  BY <3>2, <3>4
    <3>9. \A i \in (m + 2) .. N : texts[i] = s[i - 1]  BY <3>2, <3>5
    <3> QED  BY <3>6, <3>7, <3>8, <3>9
  <2> QED  BY <2>1, <2>2
<1>3. PICK U : U = {texts[k] : k \in 1 .. N}  OBVIOUS
<1>4. texts \in Seq(U) /\ Len(texts) = N
  <2>1. DOMAIN texts = 1 .. N /\ \A i \in 1 .. N : texts[i] \in U  BY <1>2, <1>3
  <2> QED  BY <1>2, <2>1, ListIs
<1>5. \A j \in 1 .. m : texts[j] # MarketHeading
  <2>1. MarketHeading[1].says = "market section"  BY DEF MarketHeading, Line
  <2>2. \A j \in 1 .. m : texts[j][1].says = "headline"  BY <1>2
  <2> QED  BY <2>1, <2>2
<1>6. HeadingAt(texts) = m + 1
  <2>1. \A k \in 1 .. (N + 1) :
            ((k <= N => texts[k] = MarketHeading) /\ \A j \in 1 .. (k - 1) : texts[j] # MarketHeading) <=> k = m + 1
    <3>1. SUFFICES ASSUME NEW k \in 1 .. (N + 1)
                   PROVE  ((k <= N => texts[k] = MarketHeading)
                              /\ \A j \in 1 .. (k - 1) : texts[j] # MarketHeading) <=> k = m + 1
      OBVIOUS
    <3>2. CASE k < m + 1
      <4>1. k \in 1 .. m /\ k <= N /\ k # m + 1  BY <1>1, <3>2
      <4> QED  BY <1>5, <4>1
    <3>3. CASE k = m + 1
      <4>1. k - 1 = m  BY <3>3
      <4> QED  BY <1>2, <1>5, <3>3, <4>1
    <3>4. CASE k > m + 1
      <4>1. m + 1 \in 1 .. (k - 1) /\ m + 1 <= N /\ k # m + 1  BY <1>1, <3>4
      <4> QED  BY <1>2, <4>1
    <3> QED  BY <3>2, <3>3, <3>4
  <2>2. m + 1 \in 1 .. (N + 1)  BY <1>1
  <2>3. HeadingAt(texts) = CHOOSE k \in 1 .. (N + 1) :
            (k <= N => texts[k] = MarketHeading) /\ \A j \in 1 .. (k - 1) : texts[j] # MarketHeading
    BY <1>4 DEF HeadingAt
  <2> QED  BY <2>1, <2>2, <2>3
<1>7. SubSeq(texts, 1, m) = [i \in 1 .. m |-> s[i]]
  <2>1. SubSeq(texts, 1, m) = [i \in 1 .. m |-> texts[i]]  BY <1>1, <1>4
  <2> QED  BY <1>2, <2>1
<1>8. SubSeq(texts, m + 2, N) = [i \in 1 .. (n - m) |-> s[m + i]]
  <2>1. CASE m = n
    <3>1. N = n /\ 1 .. (n - m) = {}  BY <1>1, <2>1
    <3>2. SubSeq(texts, m + 2, N) = <<>>  BY <1>4, <2>1, <3>1
    <3>3. [i \in {} |-> s[m + i]] = <<>>  OBVIOUS
    <3>4. PICK D : D = 1 .. (n - m) /\ D = {}  BY <3>1
    <3>5. [i \in D |-> s[m + i]] = <<>>  BY <3>3, <3>4
    <3> QED  BY <3>2, <3>4, <3>5
  <2>2. CASE m # n
    <3>1. N = n + 1 /\ m + 2 \in 1 .. N  BY <1>1, <2>2
    <3>2. SubSeq(texts, m + 2, N) = [i \in 1 .. (N - (m + 2) + 1) |-> texts[i + (m + 2) - 1]]  BY <1>4, <3>1
    <3>3. N - (m + 2) + 1 = n - m  BY <3>1
    <3>5. \A i \in 1 .. (n - m) : texts[i + (m + 2) - 1] = s[m + i]
      <4>1. SUFFICES ASSUME NEW i \in 1 .. (n - m) PROVE texts[i + (m + 2) - 1] = s[m + i]  OBVIOUS
      <4>2. PICK j : j = i + (m + 2) - 1  OBVIOUS
      <4>3. j \in (m + 2) .. N  BY <3>1, <4>2
      <4>4. j - 1 = m + i  BY <4>2
      <4> QED  BY <1>2, <4>2, <4>3, <4>4
    <3> QED  BY <3>2, <3>3, <3>5
  <2> QED  BY <2>1, <2>2
<1> QED  BY <1>2, <1>4, <1>6, <1>7, <1>8 DEF First, Rest, IsList

\* EachChangeTold of a message M about the window H.
OwnToldOf(H, texts, own, channel) ==
    /\ \A t \in ToSet(texts) : t[1].says = "headline" /\ Named(t) \subseteq own
    /\ Summed([i \in DOMAIN texts |-> Speaks(texts[i])]) = Cardinality(own)
    /\ \A i, j \in DOMAIN texts : i < j => \A e \in Named(texts[i]), f \in Named(texts[j]) :
           e # f /\ (H[f].isUrgent => H[e].isUrgent)
    /\ \A t \in ToSet(texts) : \A e, f \in Named(t) :
           IF Speaks(t) > 1
           THEN ~H[e].isUrgent /\ H[e].target = H[f].target /\ H[e].target # noCompany
           ELSE e = f /\ Cardinality(FactsIn(t)) =
                              IF channel = "telegram" THEN Min({H[e].facts, MaxLines - 1}) ELSE H[e].facts

MarketToldOf(H, texts, market) ==
    LET shown == UNION {Named(t) : t \in ToSet(texts)}
    IN /\ Len(texts) = Min({MarketLimit, Cardinality(market)}) /\ shown \subseteq market
       /\ Cardinality(shown) = Len(texts)
       /\ \A e \in market \ shown, f \in shown : H[e].worth <= H[f].worth

TellsEach(H, M) ==
    M # Untold =>
        LET texts == Tail(M.texts)
            at == HeadingAt(texts)
            market == {e \in DOMAIN H : H[e].pack}
            own == DOMAIN H \ market
        IN /\ OwnToldOf(H, SubSeq(texts, 1, at - 1), own, M.channel)
           /\ MarketToldOf(H, SubSeq(texts, at + 1, Len(texts)), market)
           /\ H # <<>> => M.texts[1][1].count >= Cardinality(own)

LEMMA TellsEachIs ==
    (EachChangeTold <=> TellsEach(held, message)) /\ (EachChangeTold' <=> TellsEach(held', message'))
BY DEF EachChangeTold, TellsEach, OwnTold, OwnToldOf, MarketTold, MarketToldOf

LEMMA SaidOfCards ==
    ASSUME Window, NEW cards, NEW m, NEW n, Arranged(held, cards, m, n), NEW channel, NEW s,
           s = Texts(channel, cards, n)
    PROVE  \A i \in 1 .. n : SaysOf(held, cards[i], s[i], channel)
<1>1. SUFFICES ASSUME NEW i \in 1 .. n PROVE SaysOf(held, cards[i], s[i], channel)  OBVIOUS
<1>2. s[i] = Text(channel, cards[i])  BY DEF Texts
<1>3. m \in Nat /\ n \in Nat  BY DEF Arranged
<1>4. i \in 1 .. m \/ i \in (m + 1) .. n  BY <1>3
<1>5. Whole(held, cards[i]) \/ Folded(held, cards[i])  BY <1>4 DEF Arranged, OwnCards, Foremost
<1> QED  BY <1>2, <1>5, TextOfWhole, TextOfFolded

LEMMA OwnAllTold ==
    ASSUME Window, NEW cards, NEW m, NEW n, Arranged(held, cards, m, n), NEW channel, NEW s,
           s = Texts(channel, cards, n), NEW texts, texts = First(s, m)
    PROVE  OwnToldOf(held, texts, DOMAIN held \ OfMarket(held), channel)
<1>1. PICK own : own = DOMAIN held \ OfMarket(held)  OBVIOUS
<1>2. m \in Nat /\ n \in Nat /\ m <= n /\ OwnCards(held, cards, m, own)  BY <1>1 DEF Arranged
<1>3. IsFiniteSet(own)
  <2>1. own \subseteq DOMAIN held  BY <1>1
  <2> QED  BY <2>1, WindowFinite, FS_Subset
<1>4. \A i \in 1 .. m : texts[i] = s[i] /\ SaysOf(held, cards[i], texts[i], channel)
  <2>1. \A i \in 1 .. n : SaysOf(held, cards[i], s[i], channel)  BY SaidOfCards
  <2>2. \A i \in 1 .. m : i \in 1 .. n  BY <1>2
  <2> QED  BY <2>1, <2>2 DEF First
<1>5. DOMAIN texts = 1 .. m /\ ToSet(texts) = {texts[i] : i \in 1 .. m}  BY DEF ToSet, First
<1>6. \A i \in 1 .. m : /\ texts[i][1].says = "headline" /\ Speaks(texts[i]) = Cardinality(cards[i].of)
                        /\ Named(texts[i]) \subseteq cards[i].of /\ cards[i].of \subseteq own
  BY <1>2, <1>4 DEF SaysOf, OwnCards
<1>7. \A t \in ToSet(texts) : t[1].says = "headline" /\ Named(t) \subseteq own  BY <1>5, <1>6
<1>8. Summed([i \in DOMAIN texts |-> Speaks(texts[i])]) = Cardinality(own)
  <2>1. PICK f : f = [i \in 1 .. m |-> Speaks(texts[i])]  OBVIOUS
  <2>2. PICK of : of = [i \in 1 .. m |-> cards[i].of]  OBVIOUS
  <2>3. \A i \in 1 .. m : of[i] \subseteq own /\ Cardinality(of[i]) = f[i]  BY <1>6, <2>1, <2>2
  <2>4. f \in [1 .. m -> Nat]
    <3>1. \A i \in 1 .. m : f[i] \in Nat  BY <1>3, <2>3, FS_Subset, FS_CardinalityType
    <3> QED  BY <2>1, <3>1
  <2>5. \A i, j \in 1 .. m : i # j => of[i] \cap of[j] = {}
    <3>1. SUFFICES ASSUME NEW i \in 1 .. m, NEW j \in 1 .. m, i # j, NEW e \in of[i], e \in of[j] PROVE FALSE  OBVIOUS
    <3>2. i < j \/ j < i  BY <1>2, <3>1
    <3>3. e \in cards[i].of /\ e \in cards[j].of  BY <2>2, <3>1
    <3> QED  BY <1>2, <3>2, <3>3 DEF OwnCards
  <2>6. \A e \in own : \E i \in 1 .. m : e \in of[i]  BY <1>2, <2>2 DEF OwnCards
  <2>8. PICK D : D = 1 .. m  OBVIOUS
  <2>9. f \in [D -> Nat] /\ (\A i \in D : of[i] \subseteq own /\ Cardinality(of[i]) = f[i])
        /\ (\A i, j \in D : i # j => of[i] \cap of[j] = {}) /\ \A e \in own : \E i \in D : e \in of[i]
    BY <2>3, <2>4, <2>5, <2>6, <2>8
  <2>7. Summed(f) = Cardinality(own)  BY <1>3, <2>9, SumOfParts
  <2> QED  BY <1>5, <2>1, <2>7
<1>9. \A i, j \in 1 .. m : i < j => \A e \in Named(texts[i]), f \in Named(texts[j]) :
          e # f /\ (held[f].isUrgent => held[e].isUrgent)
  <2>1. SUFFICES ASSUME NEW i \in 1 .. m, NEW j \in 1 .. m, i < j, NEW e \in Named(texts[i]), NEW f \in Named(texts[j])
                 PROVE  e # f /\ (held[f].isUrgent => held[e].isUrgent)
    OBVIOUS
  <2>2. e \in cards[i].of /\ f \in cards[j].of  BY <1>6
  <2> QED  BY <1>2, <2>1, <2>2 DEF OwnCards
<1>10. \A i \in 1 .. m : \A e, f \in Named(texts[i]) :
           IF Speaks(texts[i]) > 1
           THEN ~held[e].isUrgent /\ held[e].target = held[f].target /\ held[e].target # noCompany
           ELSE e = f /\ Cardinality(FactsIn(texts[i])) =
                             IF channel = "telegram" THEN Min({held[e].facts, MaxLines - 1}) ELSE held[e].facts
  <2>1. SUFFICES ASSUME NEW i \in 1 .. m, NEW e \in Named(texts[i]), NEW f \in Named(texts[i])
        PROVE IF Speaks(texts[i]) > 1
              THEN ~held[e].isUrgent /\ held[e].target = held[f].target /\ held[e].target # noCompany
              ELSE e = f /\ Cardinality(FactsIn(texts[i])) =
                                IF channel = "telegram" THEN Min({held[e].facts, MaxLines - 1}) ELSE held[e].facts
    OBVIOUS
  <2>2. e \in cards[i].of /\ f \in cards[i].of  BY <1>6
  <2>3. Whole(held, cards[i]) \/ Folded(held, cards[i])  BY <1>2 DEF OwnCards
  <2>4. CASE Folded(held, cards[i])
    <3>1. Cardinality(cards[i].of) > 1
          /\ ~held[e].isUrgent /\ held[e].target = held[f].target /\ held[e].target # noCompany
      BY <2>2, <2>4 DEF Folded
    <3> QED  BY <1>6, <3>1
  <2>5. CASE Whole(held, cards[i])
    <3>1. PICK x : cards[i].of = {x} /\ cards[i].event = x  BY <2>5 DEF Whole
    <3>2. Cardinality(cards[i].of) = 1  BY <3>1, FS_Singleton
    <3>3. ~(Speaks(texts[i]) > 1)
      <4>1. Speaks(texts[i]) = 1  BY <1>6, <3>2
      <4> QED  BY <4>1
    <3>4. e = x /\ f = x  BY <2>2, <3>1
    <3>5. Cardinality(FactsIn(texts[i])) =
              IF channel = "telegram" THEN Min({held[x].facts, MaxLines - 1}) ELSE held[x].facts
      BY <1>4, <2>5, <3>1 DEF SaysOf
    <3> QED  BY <3>3, <3>4, <3>5
  <2> QED  BY <2>3, <2>4, <2>5
<1>11. \A t \in ToSet(texts) : \A e, f \in Named(t) :
           IF Speaks(t) > 1
           THEN ~held[e].isUrgent /\ held[e].target = held[f].target /\ held[e].target # noCompany
           ELSE e = f /\ Cardinality(FactsIn(t)) =
                             IF channel = "telegram" THEN Min({held[e].facts, MaxLines - 1}) ELSE held[e].facts
  <2>1. SUFFICES ASSUME NEW t \in ToSet(texts), NEW e \in Named(t), NEW f \in Named(t)
        PROVE IF Speaks(t) > 1
              THEN ~held[e].isUrgent /\ held[e].target = held[f].target /\ held[e].target # noCompany
              ELSE e = f /\ Cardinality(FactsIn(t)) =
                                IF channel = "telegram" THEN Min({held[e].facts, MaxLines - 1}) ELSE held[e].facts
    OBVIOUS
  <2>2. PICK i \in 1 .. m : t = texts[i]  BY <1>5
  <2>3. e \in Named(texts[i]) /\ f \in Named(texts[i])  BY <2>1, <2>2
  <2> HIDE <2>2
  <2>4. IF Speaks(texts[i]) > 1
        THEN ~held[e].isUrgent /\ held[e].target = held[f].target /\ held[e].target # noCompany
        ELSE e = f /\ Cardinality(FactsIn(texts[i])) =
                          IF channel = "telegram" THEN Min({held[e].facts, MaxLines - 1}) ELSE held[e].facts
    BY <1>10, <2>3
  <2> QED  BY <2>2, <2>4
<1>12. \A i, j \in DOMAIN texts : i < j => \A e \in Named(texts[i]), f \in Named(texts[j]) :
          e # f /\ (held[f].isUrgent => held[e].isUrgent)
  BY <1>5, <1>9
<1>13. OwnToldOf(held, texts, own, channel)  BY <1>7, <1>8, <1>11, <1>12, Zenon DEF OwnToldOf
<1> QED  BY <1>1, <1>13

LEMMA MarketAllTold ==
    ASSUME Window, NEW cards, NEW m, NEW n, Arranged(held, cards, m, n), NEW channel, NEW s,
           s = Texts(channel, cards, n), NEW texts, texts = Rest(s, m, n)
    PROVE  MarketToldOf(held, texts, OfMarket(held))
<1>1. m \in Nat /\ n \in Nat /\ m <= n /\ Foremost(held, cards, (m + 1) .. n)  BY DEF Arranged
<1>2. PICK I : I = (m + 1) .. n  OBVIOUS
<1>3. PICK k \in Nat : k = n - m  BY <1>1
<1>4. /\ \A i \in I : Whole(held, cards[i]) /\ cards[i].event \in OfMarket(held)
      /\ \A i, j \in I : i # j => cards[i].event # cards[j].event
      /\ Cardinality(I) = Min({MarketLimit, Cardinality(OfMarket(held))})
      /\ \A e \in OfMarket(held) : \/ \E i \in I : cards[i].event = e
                                 \/ \A i \in I : held[e].worth <= held[cards[i].event].worth
  BY <1>1, <1>2 DEF Foremost
<1>5. Cardinality(I) = k /\ IsFiniteSet(I)
  <2>1. m + 1 \in Int /\ n \in Int /\ (IF m + 1 > n THEN 0 ELSE n - (m + 1) + 1) = k  BY <1>1, <1>3
  <2> QED  BY <1>2, <2>1, FS_Interval
<1>6. \A i \in I : i \in 1 .. n /\ i - m \in 1 .. k /\ m + (i - m) = i  BY <1>1, <1>2, <1>3
<1>7. \A i \in 1 .. k : m + i \in I  BY <1>1, <1>2, <1>3
<1>17. PICK said : said = s  OBVIOUS
<1>8. \A i \in I : Named(said[i]) = {cards[i].event}
  <2>1. SUFFICES ASSUME NEW i \in I PROVE Named(said[i]) = {cards[i].event}  OBVIOUS
  <2>2. SaysOf(held, cards[i], said[i], channel)  BY <1>6, <1>17, SaidOfCards
  <2>3. Named(said[i]) = cards[i].of  BY <1>4, <2>2 DEF SaysOf
  <2>4. Whole(held, cards[i])  BY <1>4
  <2> QED  BY <2>3, <2>4 DEF Whole
<1>9. PICK market : market = texts /\ market = [i \in 1 .. k |-> said[m + i]]  BY <1>3, <1>17 DEF Rest
<1>10. Len(market) = k
  <2>1. PICK U : U = {market[i] : i \in 1 .. k}  OBVIOUS
  <2>2. DOMAIN market = 1 .. k /\ market = [i \in 1 .. k |-> market[i]]  BY <1>9
  <2>3. \A i \in 1 .. k : market[i] \in U  BY <2>1
  <2>4. market \in Seq(U) /\ Len(market) = k  BY <2>2, <2>3, ListIs
  <2> QED  BY <2>4
<1>11. ToSet(market) = {said[i] : i \in I}
  <2>1. ToSet(market) = {market[i] : i \in 1 .. k}  BY <1>9 DEF ToSet
  <2>2. \A i \in 1 .. k : market[i] = said[m + i] /\ m + i \in I  BY <1>7, <1>9
  <2>3. \A i \in I : i - m \in 1 .. k /\ market[i - m] = said[i]  BY <1>6, <1>9
  <2>4. \A t : t \in ToSet(market) <=> \E i \in 1 .. k : t = market[i]  BY <2>1
  <2>5. \A t : t \in ToSet(market) <=> \E i \in I : t = said[i]  BY <2>2, <2>3, <2>4
  <2> QED  BY <2>5
<1>12. PICK shown : shown = UNION {Named(t) : t \in ToSet(market)}  OBVIOUS
<1>13. shown = {cards[i].event : i \in I}
  <2>1. \A e : e \in shown <=> \E t \in ToSet(market) : e \in Named(t)  BY <1>12
  <2>3. \A e : e \in shown <=> \E i \in I : e \in Named(said[i])  BY <1>11, <2>1
  <2>4. \A i \in I : \A e : e \in Named(said[i]) <=> e = cards[i].event  BY <1>8
  <2>2. \A e : e \in shown <=> \E i \in I : e = cards[i].event  BY <2>3, <2>4, Zenon
  <2> QED  BY <2>2
<1>14. Cardinality(shown) = k
  <2>1. PICK b : b = [i \in I |-> cards[i].event]  OBVIOUS
  <2>2. b \in [I -> shown]  BY <1>13, <2>1
  <2>3. b \in Bijection(I, shown)  BY <1>4, <1>13, <2>1, <2>2 DEF Bijection, Injection, IsInjective, Surjection
  <2> QED  BY <1>5, <2>3, FS_Bijection DEF ExistsBijection
<1>15. shown \subseteq OfMarket(held)  BY <1>4, <1>13
<1>16. \A e \in OfMarket(held) \ shown, f \in shown : held[e].worth <= held[f].worth  BY <1>4, <1>13
<1> QED  BY <1>4, <1>5, <1>10, <1>12, <1>14, <1>9, <1>15, <1>16 DEF MarketToldOf

LEMMA EachTold ==
    ASSUME Window, NEW cards, NEW m, NEW n, Arranged(held, cards, m, n), NEW channel, NEW s,
           s = Texts(channel, cards, n), NEW header,
           header[1].count >= Cardinality(DOMAIN held \ OfMarket(held)), NEW M,
           M = [channel |-> channel, texts |-> <<header>> \o WithHeading(s, m, n)]
    PROVE  TellsEach(held, M)
<1>1. m \in Nat /\ n \in Nat /\ m <= n  BY DEF Arranged
<1>2. PICK said : said = s /\ said = First(said, n)  BY DEF Texts, First
<1>3. \A i \in 1 .. m : said[i][1].says = "headline"
  <2>1. \A i \in 1 .. m : i \in 1 .. n  BY <1>1
  <2>2. \A i \in 1 .. n : SaysOf(held, cards[i], said[i], channel)  BY <1>2, SaidOfCards
  <2> QED  BY <2>1, <2>2 DEF SaysOf
<1>4. PICK texts : texts = WithHeading(said, m, n)  OBVIOUS
<1>5. /\ HeadingAt(texts) = m + 1
      /\ SubSeq(texts, 1, m) = First(said, m) /\ SubSeq(texts, m + 2, Len(texts)) = Rest(said, m, n)
      /\ IsList(texts)
  BY <1>1, <1>2, <1>3, <1>4, HeadingFound
<1>6. M.texts = <<header>> \o texts /\ M.channel = channel  BY <1>2, <1>4
<1>7. Tail(M.texts) = texts /\ M.texts[1] = header
  <2>1. PICK N \in Nat : texts = [k \in 1 .. N |-> texts[k]]  BY <1>5 DEF IsList, First
  <2>2. PICK U : U = {texts[k] : k \in 1 .. N} \cup {header}  OBVIOUS
  <2>3. DOMAIN texts = 1 .. N /\ \A k \in 1 .. N : texts[k] \in U  BY <2>1, <2>2
  <2>4. texts \in Seq(U) /\ header \in U  BY <2>1, <2>2, <2>3, ListIs
  <2>5. Tail(<<header>> \o texts) = texts /\ (<<header>> \o texts)[1] = header  BY <2>4
  <2> QED  BY <1>6, <2>5
<1>8. OwnToldOf(held, SubSeq(texts, 1, m), DOMAIN held \ OfMarket(held), channel)
  <2>1. PICK own : own = First(s, m)  OBVIOUS
  <2>2. own = SubSeq(texts, 1, m)  BY <1>2, <1>5, <2>1
  <2>3. OwnToldOf(held, own, DOMAIN held \ OfMarket(held), channel)  BY <2>1, OwnAllTold
  <2> QED  BY <2>2, <2>3
<1>9. MarketToldOf(held, SubSeq(texts, m + 2, Len(texts)), OfMarket(held))
  <2>1. PICK market : market = Rest(s, m, n)  OBVIOUS
  <2>2. market = SubSeq(texts, m + 2, Len(texts))  BY <1>2, <1>5, <2>1
  <2>3. MarketToldOf(held, market, OfMarket(held))  BY <2>1, MarketAllTold
  <2> QED  BY <2>2, <2>3
<1>10. (m + 1) - 1 = m /\ (m + 1) + 1 = m + 2  BY <1>1
<1>11. OwnToldOf(held, SubSeq(Tail(M.texts), 1, HeadingAt(Tail(M.texts)) - 1), DOMAIN held \ OfMarket(held), M.channel)
  BY <1>5, <1>6, <1>7, <1>8, <1>10
<1>12. MarketToldOf(held, SubSeq(Tail(M.texts), HeadingAt(Tail(M.texts)) + 1, Len(Tail(M.texts))), OfMarket(held))
  BY <1>5, <1>7, <1>9, <1>10
<1>13. M.texts[1][1].count >= Cardinality(DOMAIN held \ OfMarket(held))  BY <1>7
<1> HIDE DEF OwnToldOf, MarketToldOf
<1> QED  BY <1>11, <1>12, <1>13 DEF TellsEach, OfMarket

\* The header counts a card's blocks, and what it does not show.
LEMMA HeaderPromises ==
    ASSUME Window, NEW m, NEW n, Arranged(held, digest.cards, m, n)
    PROVE  renderHeader[1].count >= Cardinality(DOMAIN held \ OfMarket(held))
<1>1. PICK cards : cards = digest.cards  OBVIOUS
<1>2. PICK own : own = DOMAIN held \ OfMarket(held)  OBVIOUS
<1>3. m \in Nat /\ n \in Nat /\ m <= n /\ OwnCards(held, cards, m, own) /\ DOMAIN cards = 1 .. n
  BY <1>1, <1>2 DEF Arranged
<1>4. IsFiniteSet(own)
  <2>1. own \subseteq DOMAIN held  BY <1>2
  <2> QED  BY <2>1, WindowFinite, FS_Subset
<1>5. CASE cards = <<>>
  <2>1. n = 0 /\ m = 0
    <3>1. 1 .. n = {}  BY <1>3, <1>5
    <3> QED  BY <1>3, <3>1
  <2>2. own = {}
    <3>1. \A e \in own : \E i \in 1 .. m : e \in cards[i].of  BY <1>3 DEF OwnCards
    <3> QED  BY <2>1, <3>1
  <2>3. Cardinality(own) = 0  BY <2>2, FS_EmptySet
  <2>4. renderHeader = <<Line("quiet", 0, 0)>>  BY <1>1, <1>5 DEF renderHeader
  <2>5. renderHeader[1].count = 0  BY <2>4 DEF Line
  <2> QED  BY <1>2, <2>3, <2>5
<1>6. CASE cards # <<>>
  <2>1. PICK g : g = [i \in InSection("main") |-> Max({1, Len(cards[i].blocks)}) + cards[i].more]  OBVIOUS
  <2>2. renderHeader[1] = Line("changes", 0, Summed(g))
    <3>1. renderHeader = summarise  BY <1>1, <1>6 DEF renderHeader
    <3> QED  BY <1>1, <2>1, <3>1 DEF summarise
  <2>3. renderHeader[1].count = Summed(g)  BY <2>2 DEF Line
  <2>4. PICK D : D = 1 .. m /\ InSection("main") = D  BY SectionsAre
  <2>5. PICK f : f = [i \in D |-> Cardinality(cards[i].of)]  OBVIOUS
  <2>6. PICK of : of = [i \in D |-> cards[i].of]  OBVIOUS
  <2>7. \A i \in D : of[i] \subseteq own /\ Cardinality(of[i]) = f[i]  BY <1>3, <2>4, <2>5, <2>6 DEF OwnCards
  <2>8. \A i \in D : f[i] \in Nat  BY <1>4, <2>7, FS_Subset, FS_CardinalityType
  <2>9. \A i, j \in D : i # j => of[i] \cap of[j] = {}
    <3>1. SUFFICES ASSUME NEW i \in D, NEW j \in D, i # j, NEW e \in of[i], e \in of[j] PROVE FALSE  OBVIOUS
    <3>2. i < j \/ j < i  BY <1>3, <2>4, <3>1
    <3>3. e \in cards[i].of /\ e \in cards[j].of  BY <2>6, <3>1
    <3> QED  BY <1>3, <2>4, <3>2, <3>3 DEF OwnCards
  <2>10. \A e \in own : \E i \in D : e \in of[i]  BY <1>3, <2>4, <2>6 DEF OwnCards
  <2>11. f \in [D -> Nat]  BY <2>5, <2>8
  <2>12. Summed(f) = Cardinality(own)  BY <1>4, <2>7, <2>9, <2>10, <2>11, SumOfParts
  <2>13. \A i \in D : g[i] \in Nat /\ f[i] <= g[i]
    <3>1. SUFFICES ASSUME NEW i \in D PROVE g[i] \in Nat /\ f[i] <= g[i]  OBVIOUS
    <3>2. g[i] = Max({1, Len(cards[i].blocks)}) + cards[i].more /\ f[i] = Cardinality(cards[i].of)  BY <2>1, <2>4, <2>5
    <3>3. Whole(held, cards[i]) \/ Folded(held, cards[i])  BY <1>3, <2>4 DEF OwnCards
    <3>4. CASE Folded(held, cards[i])
      <4>1. PICK a, b : a = Len(cards[i].blocks) /\ b = cards[i].more  OBVIOUS
      <4>2. a \in Nat /\ b \in Nat /\ f[i] = a + b  BY <3>2, <3>4, <4>1 DEF Folded
      <4>3. g[i] = Max({1, a}) + b  BY <3>2, <4>1
      <4>4. Max({1, a}) = IF 1 <= a THEN a ELSE 1  BY <4>2, LeastOf
      <4> QED  BY <4>2, <4>3, <4>4
    <3>5. CASE Whole(held, cards[i])
      <4>1. PICK e \in DOMAIN held : cards[i].of = {e} /\ cards[i].more = 0
                                     /\ cards[i].blocks = [a \in 1 .. held[e].facts |-> factBlock(e, a)]
        BY <3>5 DEF Whole
      <4>2. f[i] = 1
        <5>1. f[i] = Cardinality({e})  BY <3>2, <4>1
        <5> QED  BY <5>1, FS_Singleton
      <4>3. PICK a \in Nat : a = held[e].facts  BY EventsAre
      <4>4. PICK b : b = cards[i].blocks  OBVIOUS
      <4>5. DOMAIN b = 1 .. a /\ b = [x \in 1 .. a |-> b[x]]  BY <4>1, <4>3, <4>4
      <4>6. Len(b) = a
        <5>1. PICK U : U = {b[x] : x \in 1 .. a}  OBVIOUS
        <5>2. \A x \in 1 .. a : b[x] \in U  BY <5>1
        <5>3. b \in Seq(U) /\ Len(b) = a  BY <4>5, <5>2, ListIs
        <5> QED  BY <5>3
      <4>7. g[i] = Max({1, a}) + 0  BY <3>2, <4>1, <4>4, <4>6
      <4>8. Max({1, a}) = IF 1 <= a THEN a ELSE 1  BY <4>3, LeastOf
      <4> QED  BY <4>2, <4>3, <4>7, <4>8
    <3> QED  BY <3>3, <3>4, <3>5
  <2>14. g \in [D -> Nat]
    <3>1. DOMAIN g = D /\ g = [i \in D |-> g[i]]  BY <2>1, <2>4
    <3> QED  BY <2>13, <3>1
  <2>15. IsFiniteSet(D)  BY <1>3, <2>4, FS_Interval
  <2>16. Summed(f) <= Summed(g) /\ Summed(g) \in Nat  BY <2>11, <2>13, <2>14, <2>15, SumGrows
  <2>17. Cardinality(own) \in Nat  BY <1>4, FS_CardinalityType
  <2> QED  BY <1>2, <2>3, <2>12, <2>16, <2>17
<1> QED  BY <1>5, <1>6

LEMMA ListOf ==
    ASSUME NEW s, NEW D, NEW n \in Nat, D = 1 .. n, DOMAIN s = D, s = [i \in D |-> s[i]]
    PROVE  s = First(s, n) /\ Len(s) = n /\ \E U : s \in Seq(U)
<1>1. s = [i \in 1 .. n |-> s[i]] /\ DOMAIN s = 1 .. n  OBVIOUS
<1>2. PICK U : U = {s[i] : i \in 1 .. n}  OBVIOUS
<1>3. \A i \in 1 .. n : s[i] \in U  BY <1>2
<1>4. s \in Seq(U) /\ Len(s) = n  BY <1>1, <1>3, ListIs
<1> QED  BY <1>1, <1>4 DEF First

LEMMA TelegramTold ==
    ASSUME Window, NEW m, NEW n, Arranged(held, digest.cards, m, n), renderDigest
    PROVE  message' = [channel |-> "telegram",
                       texts |-> <<renderHeader>> \o WithHeading(Texts("telegram", digest.cards, n), m, n)]
<1>1. m \in Nat /\ n \in Nat /\ m <= n /\ DOMAIN digest.cards = 1 .. n  BY DEF Arranged
<1>2. PICK s : s = [i \in 1 .. n |-> fitToLimit(CardLines(digest.cards[i]))]  OBVIOUS
<1>3. s = Texts("telegram", digest.cards, n) /\ s = [i \in 1 .. n |-> s[i]]  BY <1>2 DEF Texts, Text
<1>4. PICK market, starts : market = InSection("market") /\ starts = {i \in market : \A j \in market : i <= j}  OBVIOUS
<1>5. starts = (IF m = n THEN {} ELSE {m + 1})
  <2>1. market = (m + 1) .. n  BY <1>4, SectionsAre
  <2> QED  BY <1>1, <1>4, <2>1
<1>6. Headed(s, starts) = WithHeading(s, m, n)  BY <1>1, <1>3, <1>5, HeadedAre
<1>7. message' = [channel |-> "telegram", texts |-> <<renderHeader>> \o Headed(s, starts)]
  BY <1>1, <1>2, <1>4 DEF renderDigest, Tell
<1> QED  BY <1>3, <1>6, <1>7

LEMMA LetterTold ==
    ASSUME Window, NEW m, NEW n, Arranged(held, digest.cards, m, n), renderEmailDigest
    PROVE  message' = [channel |-> "email",
                       texts |-> <<renderHeader>> \o WithHeading(Texts("email", digest.cards, n), m, n)]
<1>1. m \in Nat /\ n \in Nat /\ m <= n /\ DOMAIN digest.cards = 1 .. n  BY DEF Arranged
<1>2. PICK s : s = [i \in 1 .. n |-> CardLines(digest.cards[i])]  OBVIOUS
<1>3. s = Texts("email", digest.cards, n) /\ s = [i \in 1 .. n |-> s[i]]
  <2>1. "email" # "telegram"  OBVIOUS
  <2> QED  BY <1>2, <2>1 DEF Texts, Text
<1>4. PICK market, starts : market = InSection("market") /\ starts = {i \in market : i - 1 \notin market}  OBVIOUS
<1>5. starts = (IF m = n THEN {} ELSE {m + 1})
  <2>1. market = (m + 1) .. n  BY <1>4, SectionsAre
  <2> QED  BY <1>1, <1>4, <2>1
<1>6. Headed(s, starts) = WithHeading(s, m, n)  BY <1>1, <1>3, <1>5, HeadedAre
<1>7. message' = [channel |-> "email", texts |-> <<renderHeader>> \o Headed(s, starts)]
  BY <1>1, <1>2, <1>4 DEF renderEmailDigest, Tell
<1> QED  BY <1>3, <1>6, <1>7

LEMMA PageTold ==
    ASSUME Window, NEW m, NEW n, Arranged(held, digest.cards, m, n), DigestCards
    PROVE  message' = [channel |-> "today",
                       texts |-> <<renderHeader>> \o WithHeading(Texts("today", digest.cards, n), m, n)]
<1> DEFINE Listed(I) == LET order == AsRead(I) IN [k \in DOMAIN order |-> CardLines(digest.cards[order[k]])]
<1>1. m \in Nat /\ n \in Nat /\ m <= n /\ DOMAIN digest.cards = 1 .. n  BY DEF Arranged
<1>2. PICK s : s = Texts("today", digest.cards, n)  OBVIOUS
<1>3. s = [i \in 1 .. n |-> CardLines(digest.cards[i])]
  <2>1. "today" # "telegram"  OBVIOUS
  <2> QED  BY <1>2, <2>1 DEF Texts, Text
<1>4. PICK main, rest : main = Listed(1 .. m) /\ rest = Listed((m + 1) .. n)  OBVIOUS
<1>5. PICK k \in Nat : k = n - m  BY <1>1
<1>6. main = [i \in 1 .. m |-> s[i]]
  <2>1. AsRead(1 .. m) = [i \in 1 .. m |-> i]
    <3>1. 1 \in Nat /\ m \in Nat /\ 1 <= m + 1  BY <1>1
    <3>2. AsRead(1 .. m) = [i \in 1 .. (m - 1 + 1) |-> 1 + i - 1]  BY <3>1, AsReadRun
    <3>3. m - 1 + 1 = m /\ \A i \in 1 .. m : 1 + i - 1 = i  BY <1>1
    <3> QED  BY <3>2, <3>3
  <2>2. PICK order : order = AsRead(1 .. m)  OBVIOUS
  <2>3. main = [i \in 1 .. m |-> CardLines(digest.cards[order[i]])]  BY <1>4, <2>1, <2>2
  <2>4. \A i \in 1 .. m : order[i] = i /\ i \in 1 .. n  BY <1>1, <2>1, <2>2
  <2> QED  BY <1>3, <2>3, <2>4
<1>7. rest = [i \in 1 .. k |-> s[m + i]]
  <2>1. AsRead((m + 1) .. n) = [i \in 1 .. k |-> m + i]
    <3>1. PICK a \in Nat : a = m + 1 /\ a <= n + 1  BY <1>1
    <3>2. AsRead(a .. n) = [i \in 1 .. (n - a + 1) |-> a + i - 1]  BY <1>1, <3>1, AsReadRun
    <3>3. n - a + 1 = k /\ \A i \in 1 .. k : a + i - 1 = m + i  BY <1>1, <1>5, <3>1
    <3> QED  BY <3>1, <3>2, <3>3
  <2>2. PICK order : order = AsRead((m + 1) .. n)  OBVIOUS
  <2>3. rest = [i \in 1 .. k |-> CardLines(digest.cards[order[i]])]  BY <1>4, <2>1, <2>2
  <2>4. \A i \in 1 .. k : order[i] = m + i /\ m + i \in 1 .. n  BY <1>1, <1>5, <2>1, <2>2
  <2> QED  BY <1>3, <2>3, <2>4
<1>8. PICK head, market : head = <<renderHeader>>
          /\ market = IF m = n THEN <<>> ELSE <<MarketHeading>>
  OBVIOUS
<1>9. message' = [channel |-> "today", texts |-> head \o main \o market \o rest]
  <2>1. InSection("main") = 1 .. m /\ InSection("market") = (m + 1) .. n  BY SectionsAre
  <2>2. (m + 1) .. n = {} <=> m = n  BY <1>1
  <2>3. PICK I, J : I = 1 .. m /\ J = (m + 1) .. n  OBVIOUS
  <2>4. InSection("main") = I /\ InSection("market") = J /\ main = Listed(I) /\ rest = Listed(J)
        /\ market = IF J = {} THEN <<>> ELSE <<MarketHeading>>
    BY <1>4, <1>8, <2>1, <2>2, <2>3
  <2>5. message' = [channel |-> "today", texts |-> <<renderHeader>> \o Listed(I)
                     \o (IF J = {} THEN <<>> ELSE <<MarketHeading>>) \o Listed(J)]
    BY <2>4 DEF DigestCards, Tell
  <2> HIDE DEF Listed
  <2> QED  BY <1>8, <2>4, <2>5
<1> HIDE DEF Listed
<1>10. PICK U : U = {s[i] : i \in 1 .. n} \cup {renderHeader, MarketHeading}  OBVIOUS
<1>11. s \in Seq(U) /\ Len(s) = n
  <2>1. DOMAIN s = 1 .. n /\ s = [i \in 1 .. n |-> s[i]] /\ \A i \in 1 .. n : s[i] \in U  BY <1>3, <1>10
  <2> QED  BY <1>1, <2>1, ListIs
<1>12. main \in Seq(U) /\ Len(main) = m /\ \A i \in 1 .. m : main[i] = s[i]
  <2>1. \A i \in 1 .. m : main[i] = s[i] /\ i \in 1 .. n  BY <1>1, <1>6
  <2>2. DOMAIN main = 1 .. m /\ main = [i \in 1 .. m |-> main[i]]  BY <1>6
  <2>3. \A i \in 1 .. m : main[i] \in U  BY <1>10, <2>1
  <2>4. main \in Seq(U) /\ Len(main) = m  BY <1>1, <2>2, <2>3, ListIs
  <2> QED  BY <2>1, <2>4
<1>13. rest \in Seq(U) /\ Len(rest) = k /\ \A i \in 1 .. k : rest[i] = s[m + i]
  <2>1. \A i \in 1 .. k : rest[i] = s[m + i] /\ m + i \in 1 .. n  BY <1>1, <1>5, <1>7
  <2>2. DOMAIN rest = 1 .. k /\ rest = [i \in 1 .. k |-> rest[i]]  BY <1>7
  <2>3. \A i \in 1 .. k : rest[i] \in U  BY <1>10, <2>1
  <2>4. rest \in Seq(U) /\ Len(rest) = k  BY <2>2, <2>3, ListIs
  <2> QED  BY <2>1, <2>4
<1>14. head \in Seq(U)  BY <1>8, <1>10
<1>15. main \o market \o rest = WithHeading(s, m, n)
  <2>1. CASE m = n
    <3>1. market = <<>> /\ k = 0 /\ WithHeading(s, m, n) = s  BY <1>1, <1>5, <1>8, <2>1 DEF WithHeading
    <3>2. rest = <<>>  BY <1>13, <3>1
    <3>3. main = s  BY <1>11, <1>12, <2>1
    <3>4. s \o <<>> = s  BY <1>11
    <3> QED  BY <3>1, <3>2, <3>3, <3>4
  <2>2. CASE m # n
    <3>1. market = <<MarketHeading>> /\ n + 1 = m + 1 + k
      <4>1. market = <<MarketHeading>>  BY <1>8, <2>2
      <4>2. n + 1 = m + 1 + k  BY <1>1, <1>5
      <4> QED  BY <4>1, <4>2
    <3>2. PICK p : p = main \o market  OBVIOUS
    <3>3. MarketHeading \in U  BY <1>10
    <3>4. p \in Seq(U) /\ Len(p) = m + 1 /\ p[m + 1] = MarketHeading /\ \A i \in 1 .. m : p[i] = s[i]
      BY <1>1, <1>12, <3>1, <3>2, <3>3
    <3>5. PICK q : q = p \o rest  OBVIOUS
    <3>6. q \in Seq(U) /\ Len(q) = n + 1
      <4>3. \A x, y \in Seq(U) : x \o y \in Seq(U) /\ Len(x \o y) = Len(x) + Len(y)  OBVIOUS
      <4>1. q \in Seq(U) /\ Len(q) = Len(p) + Len(rest)  BY <1>13, <3>4, <3>5, <4>3
      <4>2. m + 1 + k = n + 1  BY <1>1, <1>5
      <4> QED  BY <1>13, <3>4, <4>1, <4>2
    <3>7. \A i \in 1 .. (m + 1) : q[i] = p[i]  BY <1>1, <1>13, <3>4, <3>5
    <3>8. \A i \in (m + 2) .. (n + 1) : q[i] = s[i - 1]
      <4>1. SUFFICES ASSUME NEW i \in (m + 2) .. (n + 1) PROVE q[i] = s[i - 1]  OBVIOUS
      <4>2. PICK j : j = i - (m + 1)  OBVIOUS
      <4>3. j \in 1 .. k /\ m + j = i - 1 /\ i = (m + 1) + j  BY <1>1, <1>5, <4>2
      <4>4. q[(m + 1) + j] = rest[j]  BY <1>1, <1>13, <3>4, <3>5, <4>3
      <4> QED  BY <1>13, <4>3, <4>4
    <3>9. q = [i \in 1 .. (n + 1) |-> q[i]]  BY <3>6
    <3>10. \A i \in 1 .. (n + 1) :
               q[i] = IF i <= m THEN s[i] ELSE IF i = m + 1 THEN MarketHeading ELSE s[i - 1]
      <4>1. SUFFICES ASSUME NEW i \in 1 .. (n + 1)
                     PROVE  q[i] = IF i <= m THEN s[i] ELSE IF i = m + 1 THEN MarketHeading ELSE s[i - 1]
        OBVIOUS
      <4>2. CASE i <= m
        <5>1. i \in 1 .. m /\ i \in 1 .. (m + 1)  BY <1>1, <4>2
        <5> QED  BY <3>4, <3>7, <4>2, <5>1
      <4>3. CASE i = m + 1
        <5>1. m + 1 \in 1 .. (m + 1) /\ ~(i <= m)  BY <1>1, <4>3
        <5> QED  BY <3>4, <3>7, <4>3, <5>1
      <4>4. CASE i > m + 1
        <5>1. i \in (m + 2) .. (n + 1) /\ ~(i <= m) /\ i # m + 1  BY <1>1, <4>4
        <5> QED  BY <3>8, <5>1
      <4> QED  BY <1>1, <4>2, <4>3, <4>4
    <3>11. q = WithHeading(s, m, n)  BY <2>2, <3>9, <3>10 DEF WithHeading
    <3> QED  BY <3>2, <3>5, <3>11
  <2> QED  BY <2>1, <2>2
<1>16. head \o main \o market \o rest = head \o (main \o market \o rest)
  <2>1. market \in Seq(U)
    <3>1. MarketHeading \in U  BY <1>10
    <3>2. <<>> \in Seq(U) /\ <<MarketHeading>> \in Seq(U)  BY <3>1
    <3>3. market = <<>> \/ market = <<MarketHeading>>  BY <1>8
    <3> QED  BY <3>2, <3>3
  <2>2. \A x, y, z \in Seq(U) : (x \o y) \o z = x \o (y \o z)  OBVIOUS
  <2>3. \A x, y \in Seq(U) : x \o y \in Seq(U)  OBVIOUS
  <2>4. (head \o main) \o market = head \o (main \o market)  BY <1>12, <1>14, <2>1, <2>2
  <2>5. (head \o (main \o market)) \o rest = head \o ((main \o market) \o rest)
    <3>1. PICK x : x = main \o market /\ x \in Seq(U)  BY <1>12, <2>1, <2>3
    <3>2. (head \o x) \o rest = head \o (x \o rest)  BY <1>13, <1>14, <2>2, <3>1
    <3> QED  BY <3>1, <3>2
  <2> QED  BY <2>4, <2>5
<1> QED  BY <1>2, <1>8, <1>9, <1>15, <1>16

-----------------------------------------------------------------------------
(* The theorem *)

\* The inductive invariant: the window stays a list of news, a digest that is
\* made has one's own changes first, on cards as they were arranged, and the
\* foremost of the market's after them, and what was told of it tells each change.
CardsInv ==
    /\ Window
    /\ digest.made => \E m, n \in Nat : Arranged(held, digest.cards, m, n)
    /\ TellsEach(held, message)

LEMMA CardsStart ==
    ASSUME CardsInit
    PROVE  CardsInv
<1>1. PICK n \in 0 .. MaxNews : held \in [1 .. n -> News]  BY DEF CardsInit
<1>2. n \in Nat  BY CardsAssumption DEF CardsAssumption
<1>3. held \in Seq(News) /\ Len(held) = n  BY <1>1, <1>2
<1>4. Window  BY <1>1, <1>2, <1>3 DEF Window
<1>5. ~digest.made  BY DEF CardsInit, Unbuilt
<1>6. TellsEach(held, message)  BY DEF CardsInit, TellsEach
<1> QED  BY <1>4, <1>5, <1>6 DEF CardsInv

LEMMA ToldStays ==
    ASSUME Window, NEW m, NEW n, Arranged(held, digest.cards, m, n), NEW channel,
           message' = [channel |-> channel,
                       texts |-> <<renderHeader>> \o WithHeading(Texts(channel, digest.cards, n), m, n)]
    PROVE  TellsEach(held, message')
<1>1. PICK s : s = Texts(channel, digest.cards, n)  OBVIOUS
<1>2. PICK header : header = renderHeader  OBVIOUS
<1>3. header[1].count >= Cardinality(DOMAIN held \ OfMarket(held))  BY <1>2, HeaderPromises
<1>4. PICK M : M = message' /\ M = [channel |-> channel, texts |-> <<header>> \o WithHeading(s, m, n)]  BY <1>1, <1>2
<1>5. TellsEach(held, M)  BY <1>1, <1>3, <1>4, EachTold
<1> QED  BY <1>4, <1>5

LEMMA CardsStep ==
    ASSUME CardsInv, [CardsNext]_cardsVars
    PROVE  CardsInv'
<1>1. Window /\ TellsEach(held, message)  BY DEF CardsInv
<1>2. held' = held  BY DEF CardsNext, Arrange, renderDigest, renderEmailDigest, DigestCards, Tell, cardsVars
<1>3. Window'  BY <1>1, <1>2 DEF Window
<1>4. CASE UNCHANGED cardsVars
  <2>1. digest' = digest /\ message' = message  BY <1>4 DEF cardsVars
  <2>2. (digest.made => \E m, n \in Nat : Arranged(held, digest.cards, m, n))'  BY <1>2, <2>1 DEF CardsInv
  <2>3. TellsEach(held', message')  BY <1>1, <1>2, <2>1
  <2> QED  BY <1>3, <2>2, <2>3 DEF CardsInv
<1>5. CASE Arrange
  <2>1. digest'.cards = assembleCards /\ message' = message  BY <1>5 DEF Arrange
  <2>2. PICK cards : cards = assembleCards  OBVIOUS
  <2>3. \E m, n \in Nat : Arranged(held, cards, m, n)  BY <1>1, <2>2, ArrangedMade
  <2>4. \E m, n \in Nat : Arranged(held', digest'.cards, m, n)  BY <1>2, <2>1, <2>2, <2>3
  <2>5. TellsEach(held', message')  BY <1>1, <1>2, <2>1
  <2> QED  BY <1>3, <2>4, <2>5 DEF CardsInv
<1>6. CASE renderDigest \/ renderEmailDigest \/ DigestCards
  <2>1. digest' = digest /\ digest.made
    BY <1>6 DEF renderDigest, renderEmailDigest, DigestCards, Tell
  <2>2. PICK m, n \in Nat : Arranged(held, digest.cards, m, n)  BY <2>1 DEF CardsInv
  <2>3. \E channel : message' = [channel |-> channel,
                                 texts |-> <<renderHeader>> \o WithHeading(Texts(channel, digest.cards, n), m, n)]
    BY <1>1, <1>6, <2>2, TelegramTold, LetterTold, PageTold
  <2>4. TellsEach(held, message')  BY <1>1, <2>2, <2>3, ToldStays
  <2>5. TellsEach(held', message')  BY <1>2, <2>4
  <2>6. (digest.made => \E x, y \in Nat : Arranged(held, digest.cards, x, y))'  BY <1>2, <2>1, <2>2
  <2> QED  BY <1>3, <2>5, <2>6 DEF CardsInv
<1> QED  BY <1>4, <1>5, <1>6 DEF CardsNext

\* Whatever the window holds and whichever channel tells of it, every change of
\* one's own is told once, with every fact there is room for when it has a card of
\* its own, the urgent first, and the market's foremost news after them.
THEOREM ChangesAreTold == CardsSpec => []EachChangeTold
<1>1. CardsInit => CardsInv  BY CardsStart
<1>2. CardsInv /\ [CardsNext]_cardsVars => CardsInv'  BY CardsStep
<1>3. CardsInv => EachChangeTold  BY TellsEachIs DEF CardsInv
<1> QED  BY <1>1, <1>2, <1>3, PTL DEF CardsSpec

-----------------------------------------------------------------------------
(* Cards: types *)

\* A line names an event of the window or none, and has a number.
LineOf(H, l) == l.event \in 0 .. Len(H) /\ l.count \in Nat
TextOf(H, t) == \E q \in Nat : q > 0 /\ t = [i \in 1 .. q |-> t[i]] /\ \A i \in 1 .. q : LineOf(H, t[i])

LEMMA TextsAreLines ==
    ASSUME Window, NEW c, Whole(held, c) \/ Folded(held, c), c.of \subseteq DOMAIN held, NEW channel, NEW t,
           t = Text(channel, c)
    PROVE  TextOf(held, t)
<1>1. PICK N \in Nat : N = Len(held) /\ DOMAIN held = 1 .. N  BY DEF Window
<1>2. PICK n \in Nat :
          /\ c.blocks = [i \in 1 .. n |-> c.blocks[i]] /\ c.more \in Nat /\ c.event \in c.of
          /\ \A i \in 1 .. n : c.blocks[i].event \in c.of /\ c.blocks[i].count \in Nat
          /\ c.kind = "group" => n = Len(c.blocks)
  <2>1. CASE Folded(held, c)
    <3>1. PICK n \in Nat : n = Len(c.blocks)  BY <2>1 DEF Folded
    <3>2. c.blocks = [i \in 1 .. n |-> c.blocks[i]] /\ c.more \in Nat /\ c.event \in c.of  BY <2>1, <3>1 DEF Folded
    <3>3. \A i \in 1 .. n : c.blocks[i].event \in c.of /\ c.blocks[i].count \in Nat  BY <2>1, <3>1 DEF Folded
    <3> QED  BY <3>1, <3>2, <3>3
  <2>2. CASE Whole(held, c)
    <3>1. PICK e \in DOMAIN held : c = [kind |-> "event", event |-> e, of |-> {e}, more |-> 0,
                                        blocks |-> [n \in 1 .. held[e].facts |-> factBlock(e, n)]]
      BY <2>2 DEF Whole
    <3>2. PICK n \in Nat : n = held[e].facts  BY EventsAre
    <3>3. c.kind = "event" /\ c.event = e /\ c.of = {e} /\ c.more = 0 /\ c.blocks = [i \in 1 .. n |-> factBlock(e, i)]
      BY <3>1, <3>2
    <3>4. \A i : factBlock(e, i).event = e /\ factBlock(e, i).count = i  BY DEF factBlock, Line
    <3>5. \A i \in 1 .. n : c.blocks[i] = factBlock(e, i)  BY <3>3
    <3>6. \A i \in 1 .. n : c.blocks[i].event \in c.of /\ c.blocks[i].count \in Nat  BY <3>3, <3>4, <3>5
    <3>7. c.blocks = [i \in 1 .. n |-> c.blocks[i]]  BY <3>3
    <3> QED  BY <3>3, <3>6, <3>7
  <2> QED  BY <2>1, <2>2
<1>3. PICK p \in Nat : p = (IF c.more = 0 THEN n + 1 ELSE n + 2) /\ p > 0  BY <1>2
<1>4. PICK q \in Nat : LinesOf(c, n, p, channel, t, q)  BY <1>2, <1>3, TextLines
<1>5. q > 0  BY <1>3, <1>4 DEF LinesOf
<1>6. t = [i \in 1 .. q |-> t[i]]  BY <1>4 DEF LinesOf
<1>7. LineOf(held, t[1])
  <2>1. PICK k : k = IF c.kind = "group" THEN Len(c.blocks) + c.more ELSE 1  OBVIOUS
  <2>2. k \in Nat  BY <1>2, <2>1
  <2>3. t[1] = Line("headline", c.event, k)  BY <1>4, <2>1 DEF LinesOf, Headline
  <2>4. t[1].event = c.event /\ t[1].count = k  BY <2>3 DEF Line
  <2> QED  BY <1>1, <1>2, <2>2, <2>4 DEF LineOf
<1>8. ASSUME NEW i \in 2 .. q PROVE LineOf(held, t[i])
  <2>1. CASE i <= n + 1
    <3>1. PICK j : j = i - 1 /\ j \in 1 .. n  BY <2>1
    <3>2. t[i] = c.blocks[j]  BY <1>4, <2>1, <3>1 DEF LinesOf
    <3> QED  BY <1>1, <1>2, <3>1, <3>2 DEF LineOf
  <2>2. CASE i > n + 1
    <3>1. t[i] = Line("more", 0, c.more)  BY <1>4, <2>2 DEF LinesOf
    <3>2. t[i].event = 0 /\ t[i].count = c.more  BY <3>1 DEF Line
    <3> QED  BY <1>1, <1>2, <3>2 DEF LineOf
  <2> QED  BY <2>1, <2>2
<1>9. \A i \in 1 .. q : LineOf(held, t[i])
  <2>1. \A i \in 1 .. q : i = 1 \/ i \in 2 .. q  OBVIOUS
  <2> QED  BY <1>7, <1>8, <2>1
<1> QED  BY <1>5, <1>6, <1>9 DEF TextOf

\* Cards are of events of the window.
LEMMA CardsOfWindow ==
    ASSUME Window, NEW cards, NEW m, NEW n, Arranged(held, cards, m, n)
    PROVE  /\ DOMAIN cards = 1 .. n
           /\ \A i \in 1 .. n : (Whole(held, cards[i]) \/ Folded(held, cards[i])) /\ cards[i].of \subseteq DOMAIN held
<1>1. m \in Nat /\ n \in Nat /\ m <= n /\ DOMAIN cards = 1 .. n  BY DEF Arranged
<1>2. \A i \in 1 .. n : i \in 1 .. m \/ i \in (m + 1) .. n  BY <1>1
<1>3. \A i \in 1 .. m : (Whole(held, cards[i]) \/ Folded(held, cards[i])) /\ cards[i].of \subseteq DOMAIN held
  BY DEF Arranged, OwnCards
<1>4. ASSUME NEW i \in (m + 1) .. n PROVE Whole(held, cards[i]) /\ cards[i].of \subseteq DOMAIN held
  <2>1. Whole(held, cards[i])  BY DEF Arranged, Foremost
  <2>2. PICK e \in DOMAIN held : cards[i].of = {e}  BY <2>1 DEF Whole
  <2> QED  BY <2>1, <2>2
<1> QED  BY <1>1, <1>2, <1>3, <1>4

LEMMA HeaderLines ==
    ASSUME Window, NEW m, NEW n, Arranged(held, digest.cards, m, n)
    PROVE  TextOf(held, renderHeader)
<1>1. PICK cards : cards = digest.cards  OBVIOUS
<1>2. PICK t : t = renderHeader  OBVIOUS
<1>3. m \in Nat /\ n \in Nat /\ Len(held) \in Nat  BY DEF Arranged, Window
<1>4. \A says, k : k \in Nat => LineOf(held, Line(says, 0, k))  BY <1>3 DEF LineOf, Line
<1>5. CASE cards = <<>>
  <2>1. PICK l : l = Line("quiet", 0, 0) /\ LineOf(held, l)  BY <1>4
  <2>2. t = <<l>>  BY <1>1, <1>2, <1>5, <2>1 DEF renderHeader
  <2>3. t = [i \in 1 .. 1 |-> t[i]] /\ t[1] = l  BY <2>2
  <2>4. \A i \in 1 .. 1 : LineOf(held, t[i])  BY <2>1, <2>3
  <2> QED  BY <1>2, <2>3, <2>4 DEF TextOf
<1>6. CASE cards # <<>>
  <2>1. PICK D : D = InSection("main") /\ D = 1 .. m  BY SectionsAre
  <2>2. IsFiniteSet(D)  BY <1>3, <2>1, FS_Interval
  <2>3. PICK g : g = [i \in D |-> Max({1, Len(cards[i].blocks)}) + cards[i].more]  OBVIOUS
  <2>4. PICK companies : companies = {held[cards[i].event].target : i \in D} \ {noCompany}  OBVIOUS
  <2>5. PICK alone : alone = {i \in D : held[cards[i].event].target = noCompany}  OBVIOUS
  <2>6. PICK a, b, x : /\ a = Summed(g) /\ b = Cardinality(companies) + Cardinality(alone)
                       /\ x = Cardinality(InSection("market"))
    OBVIOUS
  <2>7. a \in Nat
    <3>1. ASSUME NEW i \in D PROVE g[i] \in Nat
      <4>1. (Whole(held, cards[i]) \/ Folded(held, cards[i]))  BY <1>1, <2>1 DEF Arranged, OwnCards
      <4>2. PICK k, r \in Nat : k = Len(cards[i].blocks) /\ r = cards[i].more
        <5>1. CASE Folded(held, cards[i])  BY <5>1 DEF Folded
        <5>2. CASE Whole(held, cards[i])
          <6>1. PICK e \in DOMAIN held : cards[i].more = 0
                    /\ cards[i].blocks = [y \in 1 .. held[e].facts |-> factBlock(e, y)]
            BY <5>2 DEF Whole
          <6>2. PICK k \in Nat : k = held[e].facts  BY EventsAre
          <6>3. PICK blocks : blocks = cards[i].blocks  OBVIOUS
          <6>4. DOMAIN blocks = 1 .. k /\ blocks = [y \in 1 .. k |-> blocks[y]]  BY <6>1, <6>2, <6>3
          <6>5. PICK U : U = {blocks[y] : y \in 1 .. k}  OBVIOUS
          <6>6. \A y \in 1 .. k : blocks[y] \in U  BY <6>5
          <6>7. Len(blocks) = k  BY <6>4, <6>6, ListIs
          <6>8. Len(cards[i].blocks) \in Nat /\ cards[i].more \in Nat  BY <6>1, <6>2, <6>3, <6>7
          <6> QED  BY <6>8
        <5> QED  BY <4>1, <5>1, <5>2
      <4>3. g[i] = Max({1, k}) + r  BY <2>3, <4>2
      <4>4. Max({1, k}) = IF 1 <= k THEN k ELSE 1
        <5>1. 1 \in Int /\ k \in Int  OBVIOUS
        <5> QED  BY <5>1, LeastOf
      <4> QED  BY <4>2, <4>3, <4>4
    <3>2. g \in [D -> Nat]  BY <2>3, <3>1
    <3> QED  BY <2>2, <2>6, <3>2, SumGrows
  <2>8. b \in Nat
    <3>1. PICK T : T = {held[cards[i].event].target : i \in D}  OBVIOUS
    <3>2. PICK f : f = [i \in D |-> held[cards[i].event].target]  OBVIOUS
    <3>3. f \in Surjection(D, T)  BY <3>1, <3>2 DEF Surjection
    <3>4. IsFiniteSet(T)  BY <2>2, <3>3, FS_Surjection
    <3>5. companies \subseteq T /\ alone \subseteq D  BY <2>4, <2>5, <3>1
    <3>6. IsFiniteSet(companies) /\ IsFiniteSet(alone)  BY <2>2, <3>4, <3>5, FS_Subset
    <3>7. Cardinality(companies) \in Nat /\ Cardinality(alone) \in Nat  BY <3>6, FS_CardinalityType
    <3> QED  BY <2>6, <3>7
  <2>9. x \in Nat
    <3>1. InSection("market") = (m + 1) .. n  BY SectionsAre
    <3>2. PICK k \in Nat : k = m + 1  BY <1>3
    <3>3. IsFiniteSet(k .. n)
      <4>1. k \in Int /\ n \in Int  BY <1>3
      <4> QED  BY <4>1, FS_Interval
    <3> QED  BY <2>6, <3>1, <3>2, <3>3, FS_CardinalityType
  <2>10. PICK u, v, w : /\ u = Line("changes", 0, a) /\ v = Line("companies", 0, b) /\ w = Line("market", 0, x)
                        /\ LineOf(held, u) /\ LineOf(held, v) /\ LineOf(held, w)
    BY <1>4, <2>7, <2>8, <2>9
  <2>11. t = <<u, v, w>>
    <3>1. t = summarise  BY <1>1, <1>2, <1>6 DEF renderHeader
    <3> QED  BY <1>1, <2>1, <2>3, <2>4, <2>5, <2>6, <2>10, <3>1 DEF summarise
  <2>12. t = [i \in 1 .. 3 |-> t[i]] /\ t[1] = u /\ t[2] = v /\ t[3] = w  BY <2>11
  <2>13. \A i \in 1 .. 3 : LineOf(held, t[i])  BY <2>10, <2>12
  <2> QED  BY <1>2, <2>12, <2>13 DEF TextOf
<1> QED  BY <1>5, <1>6

\* What is said is said in lines.
TextsTyped ==
    /\ message.channel \in {"none", "telegram", "email", "today"}
    /\ \A t \in ToSet(message.texts) : TextOf(held, t)

DigestTyped == Len(held) <= MaxNews /\ digest.made \in BOOLEAN /\ (~digest.made => digest.cards = <<>>)

LEMMA MessageTyped ==
    ASSUME Window, NEW m, NEW n, Arranged(held, digest.cards, m, n), NEW channel, NEW texts,
           texts = <<renderHeader>> \o WithHeading(Texts(channel, digest.cards, n), m, n)
    PROVE  \A t \in ToSet(texts) : TextOf(held, t)
<1>1. m \in Nat /\ n \in Nat /\ m <= n  BY DEF Arranged
<1>2. PICK cards : cards = digest.cards  OBVIOUS
<1>3. PICK s : s = Texts(channel, cards, n)  OBVIOUS
<1>4. PICK header, heading : header = renderHeader /\ heading = MarketHeading  OBVIOUS
<1>5. TextOf(held, header)  BY <1>4, HeaderLines
<1>6. TextOf(held, heading)
  <2>1. PICK l : l = Line("market section", 0, 0)  OBVIOUS
  <2>2. LineOf(held, l)
    <3>1. l.event = 0 /\ l.count = 0  BY <2>1 DEF Line
    <3> QED  BY <3>1 DEF LineOf, Window
  <2>3. heading = <<l>>  BY <1>4, <2>1 DEF MarketHeading
  <2>4. PICK q \in Nat : q = 1  OBVIOUS
  <2>5. q > 0 /\ heading = [i \in 1 .. q |-> heading[i]] /\ heading[1] = l  BY <2>3, <2>4
  <2>6. \A i \in 1 .. q : LineOf(held, heading[i])  BY <2>2, <2>4, <2>5
  <2> QED  BY <2>5, <2>6 DEF TextOf
<1>7. ASSUME NEW i \in 1 .. n PROVE TextOf(held, s[i])
  <2>1. s[i] = Text(channel, cards[i])  BY <1>3 DEF Texts
  <2>2. (Whole(held, cards[i]) \/ Folded(held, cards[i])) /\ cards[i].of \subseteq DOMAIN held
    BY <1>2, CardsOfWindow
  <2> QED  BY <2>1, <2>2, TextsAreLines
<1>8. PICK U : U = {s[i] : i \in 1 .. n} \cup {header, heading}  OBVIOUS
<1>9. PICK rest : rest = WithHeading(s, m, n)  OBVIOUS
<1>10. rest \in Seq(U)
  <2>1. s = [i \in 1 .. n |-> s[i]] /\ DOMAIN s = 1 .. n  BY <1>3 DEF Texts
  <2>2. CASE m = n
    <3>1. rest = s  BY <1>9, <2>2 DEF WithHeading
    <3>2. \A i \in 1 .. n : s[i] \in U  BY <1>8
    <3> QED  BY <1>1, <2>1, <3>1, <3>2, ListIs
  <2>3. CASE m # n
    <3>1. rest = [k \in 1 .. (n + 1) |-> IF k <= m THEN s[k] ELSE IF k = m + 1 THEN heading ELSE s[k - 1]]
      BY <1>4, <1>9, <2>3 DEF WithHeading
    <3>2. \A k \in 1 .. (n + 1) : (k <= m => k \in 1 .. n) /\ (k > m + 1 => k - 1 \in 1 .. n)  BY <1>1
    <3>3. ASSUME NEW k \in 1 .. (n + 1) PROVE rest[k] \in U
      <4>1. CASE k <= m  BY <1>8, <3>1, <3>2, <4>1
      <4>2. CASE k = m + 1
        <5>1. ~(k <= m)  BY <1>1, <4>2
        <5> QED  BY <1>8, <3>1, <4>2, <5>1
      <4>3. CASE k > m + 1
        <5>1. ~(k <= m) /\ k # m + 1  BY <1>1, <4>3
        <5>2. rest[k] = s[k - 1]  BY <3>1, <5>1
        <5> QED  BY <1>8, <3>2, <4>3, <5>2
      <4> QED  BY <1>1, <4>1, <4>2, <4>3
    <3>4. DOMAIN rest = 1 .. (n + 1) /\ rest = [k \in 1 .. (n + 1) |-> rest[k]] /\ n + 1 \in Nat  BY <1>1, <3>1
    <3> QED  BY <3>3, <3>4, ListIs
  <2> QED  BY <2>2, <2>3
<1>11. texts \in Seq(U)
  <2>1. texts = <<header>> \o rest  BY <1>2, <1>3, <1>4, <1>9
  <2>2. <<header>> \in Seq(U)  BY <1>8
  <2>3. \A x, y \in Seq(U) : x \o y \in Seq(U)  OBVIOUS
  <2> QED  BY <1>10, <2>1, <2>2, <2>3
<1>12. ToSet(texts) \subseteq U  BY <1>11 DEF ToSet
<1>13. \A t \in U : TextOf(held, t)  BY <1>5, <1>6, <1>7, <1>8
<1> QED  BY <1>12, <1>13

LEMMA CardsTypedStep ==
    ASSUME CardsInv, DigestTyped, TextsTyped, [CardsNext]_cardsVars
    PROVE  DigestTyped' /\ TextsTyped'
<1>1. held' = held  BY DEF CardsNext, Arrange, renderDigest, renderEmailDigest, DigestCards, Tell, cardsVars
<1>2. DigestTyped'
  <2>1. CASE Arrange  BY <1>1, <2>1 DEF Arrange, DigestTyped
  <2>2. CASE digest' = digest  BY <1>1, <2>2 DEF DigestTyped
  <2> QED  BY <2>1, <2>2 DEF CardsNext, renderDigest, renderEmailDigest, DigestCards, Tell, cardsVars
<1>3. CASE message' = message  BY <1>1, <1>3, <1>2 DEF TextsTyped
<1>4. CASE renderDigest \/ renderEmailDigest \/ DigestCards
  <2>1. digest.made  BY <1>4 DEF renderDigest, renderEmailDigest, DigestCards, Tell
  <2>2. PICK m, n \in Nat : Arranged(held, digest.cards, m, n)  BY <2>1 DEF CardsInv
  <2>3. Window  BY DEF CardsInv
  <2>4. PICK channel \in {"telegram", "email", "today"} :
            message' = [channel |-> channel,
                        texts |-> <<renderHeader>> \o WithHeading(Texts(channel, digest.cards, n), m, n)]
    <3>1. CASE renderDigest  BY <2>2, <2>3, <3>1, TelegramTold
    <3>2. CASE renderEmailDigest  BY <2>2, <2>3, <3>2, LetterTold
    <3>3. CASE DigestCards  BY <2>2, <2>3, <3>3, PageTold
    <3> QED  BY <1>4, <3>1, <3>2, <3>3
  <2>5. PICK texts : texts = <<renderHeader>> \o WithHeading(Texts(channel, digest.cards, n), m, n)  OBVIOUS
  <2>6. \A t \in ToSet(texts) : TextOf(held, t)  BY <2>2, <2>3, <2>5, MessageTyped
  <2>7. message'.channel = channel /\ message'.texts = texts  BY <2>4, <2>5
  <2> QED  BY <1>1, <1>2, <2>6, <2>7 DEF TextsTyped
<1> QED  BY <1>2, <1>3, <1>4 DEF CardsNext, Arrange, cardsVars

\* Whatever the window holds: a card is of events of the window, and no line of a
\* digest names another, whichever channel tells of it (build.ts, cards.ts).
THEOREM CardsTypes == CardsSpec => []CardsTypeOK
<1>1. CardsInit => CardsInv /\ DigestTyped /\ TextsTyped
  <2> SUFFICES ASSUME CardsInit PROVE CardsInv /\ DigestTyped /\ TextsTyped  OBVIOUS
  <2>1. PICK n \in 0 .. MaxNews : held \in [1 .. n -> News]  BY DEF CardsInit
  <2>2. n \in Nat /\ n <= MaxNews  BY CardsAssumption DEF CardsAssumption
  <2>3. Len(held) = n
    <3>1. held \in Seq(News)  BY <2>1, <2>2
    <3> QED  BY <2>1, <2>2, <3>1
  <2>4. ToSet(<<>>) = {}  BY DEF ToSet
  <2> QED  BY <2>2, <2>3, <2>4, CardsStart DEF CardsInit, Unbuilt, Untold, DigestTyped, TextsTyped
<1>2. CardsInv /\ DigestTyped /\ TextsTyped /\ [CardsNext]_cardsVars => CardsInv' /\ DigestTyped' /\ TextsTyped'
  BY CardsStep, CardsTypedStep
<1>3. CardsInv /\ DigestTyped /\ TextsTyped => CardsTypeOK
  <2> SUFFICES ASSUME CardsInv, DigestTyped, TextsTyped PROVE CardsTypeOK  OBVIOUS
  <2>1. held \in Seq(News)  BY DEF CardsInv, Window
  <2>2. On(digest.cards) \subseteq DOMAIN held
    <3>1. CASE ~digest.made
      <4>1. ToSet(<<>>) = {}  BY DEF ToSet
      <4> QED  BY <3>1, <4>1 DEF DigestTyped, On
    <3>2. CASE digest.made
      <4>1. PICK m, n \in Nat : Arranged(held, digest.cards, m, n)  BY <3>2 DEF CardsInv
      <4>2. \A i \in DOMAIN digest.cards : digest.cards[i].of \subseteq DOMAIN held
        BY <4>1, CardsOfWindow DEF CardsInv
      <4> QED  BY <4>2 DEF On, ToSet
    <3> QED  BY <3>1, <3>2
  <2>3. ASSUME NEW t \in ToSet(message.texts)
        PROVE  t # <<>> /\ \A l \in ToSet(t) : l.event \in 0 .. Len(held) /\ l.count \in Nat
    <3>1. PICK q \in Nat : q > 0 /\ t = [i \in 1 .. q |-> t[i]] /\ \A i \in 1 .. q : LineOf(held, t[i])
      BY DEF TextsTyped, TextOf
    <3>2. DOMAIN t = 1 .. q /\ 1 \in 1 .. q  BY <3>1
    <3>3. t # <<>>  BY <3>2
    <3> QED  BY <3>1, <3>2, <3>3 DEF ToSet, LineOf
  <2> QED  BY <2>1, <2>2, <2>3 DEF DigestTyped, TextsTyped, CardsTypeOK
<1> QED  BY <1>1, <1>2, <1>3, PTL DEF CardsSpec

=============================================================================
