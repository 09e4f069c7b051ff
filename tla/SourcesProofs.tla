--------------------------- MODULE SourcesProofs ---------------------------
(***************************************************************************)
(* What TLAPS proves of Sources for every set of pages, boards, texts and  *)
(* postings, any limits and any number of polls.                           *)
(***************************************************************************)
EXTENDS Sources, WellFoundedInduction, FiniteSetTheorems, TLAPS

-----------------------------------------------------------------------------
(* The inductive invariant *)

\* SourcesTypeOK but for the number of versions kept.
Typed ==
    /\ page \in [Pages -> Texts] /\ board \in [Boards -> SUBSET Postings]
    /\ status \in [AllSources -> {"active", "paused", "broken"}]
    /\ failures \in [AllSources -> Nat] /\ removed \in [AllSources -> BOOLEAN]
    /\ versions \in [Pages -> [Texts -> 0 .. MaxPolls]]
    /\ lastJobs \in [Boards -> SUBSET Postings]
    /\ items \subseteq [source: AllSources, kind: {"change", "open", "closed"},
                        of: Texts \cup Postings, at: 0 .. MaxPolls]
    /\ told \in [Pages -> SUBSET Texts]
    /\ poll \in [AllSources -> [op: {"none", "read", "store", "remember", "success", "failure"},
                                at: 0 .. MaxPolls, failures: Nat,
                                before: SUBSET (Texts \cup Postings),
                                found: SUBSET (Texts \cup Postings)]]
    /\ moment \in 0 .. MaxPolls

\* Two texts of a page are never fetched at one moment, and none in the future.
Dated ==
    \A s \in Pages : \A t \in Texts :
        /\ versions[s][t] <= moment
        /\ \A u \in Texts : versions[s][t] = versions[s][u] /\ versions[s][t] > 0 => t = u

\* A poll p knows the failures of its source, and until it has stored something
\* what the source remembers.
Remembers(s, p) ==
    /\ 0 < p.at /\ p.at <= moment
    /\ p.failures = failures[s]
    /\ s \in Pages /\ p.op \in {"read", "store"} =>
           /\ p.before = latestVersion(s)
           /\ \A t \in Texts : versions[s][t] < p.at
    /\ s \in Pages /\ p.op = "store" => \E t \in Texts : p.found = {t}
    /\ s \in Boards /\ p.op \in {"read", "store", "remember"} => p.before = lastJobs[s]
    /\ s \in Boards /\ p.op \in {"store", "remember"} => p.found \subseteq Postings
    /\ p.op = "remember" => s \in Boards /\ BoardItems(s) \subseteq items

Knows == \A s \in AllSources : poll[s].op # "none" => Remembers(s, poll[s])

SourcesInv == Typed /\ Dated /\ Knows /\ LatestIsTold /\ SetAside

Poll == [op: {"none", "read", "store", "remember", "success", "failure"},
         at: 0 .. MaxPolls, failures: Nat,
         before: SUBSET (Texts \cup Postings), found: SUBSET (Texts \cup Postings)]

LEMMA NoPollTyped == ASSUME SourcesAssumption PROVE NoPoll \in Poll /\ NoPoll.op = "none"
  BY DEF SourcesAssumption, NoPoll, Poll

\* A poll that begins.
LEMMA PollTyped ==
    ASSUME NEW p \in Poll, NEW at \in 0 .. MaxPolls, NEW n \in Nat,
           NEW before \in SUBSET (Texts \cup Postings)
    PROVE  [p EXCEPT !.op = "read", !.at = at, !.failures = n, !.before = before] \in Poll
  BY DEF Poll

-----------------------------------------------------------------------------
(* What a step leaves alone *)

\* Nothing that the invariant relates changes: the site, the row's marker of
\* deletion, and pausing.
LEMMA SiteSteps ==
    ASSUME SourcesInv, Typed', SourcesAssumption,
           UNCHANGED <<failures, versions, lastJobs, items, told, poll, moment>>,
           \A s \in AllSources : (status'[s] = "broken") = (status[s] = "broken")
    PROVE  SourcesInv'
<1>1. Dated'  BY DEF SourcesInv, Dated
<1>2. Knows'
  <2>1. \A s : latestVersion(s)' = latestVersion(s)  BY DEF latestVersion
  <2>2. \A s : BoardItems(s)' = BoardItems(s)  BY DEF BoardItems
  <2> QED  BY <2>1, <2>2 DEF SourcesInv, Knows, Remembers
<1>3. LatestIsTold'  BY DEF SourcesInv, LatestIsTold, latestVersion
<1>4. SetAside'  BY DEF SourcesInv, SetAside
<1> QED  BY <1>1, <1>2, <1>3, <1>4 DEF SourcesInv

\* One poll moves on to p; what pages and boards remember stays.
LEMMA PollMoves ==
    ASSUME SourcesInv, SourcesAssumption, NEW s \in AllSources, NEW p \in Poll,
           poll' = [poll EXCEPT ![s] = p],
           UNCHANGED <<site, removed, versions, lastJobs, told, moment>>,
           status' \in [AllSources -> {"active", "paused", "broken"}],
           failures' \in [AllSources -> Nat],
           items \subseteq items',
           items' \subseteq [source: AllSources, kind: {"change", "open", "closed"},
                             of: Texts \cup Postings, at: 0 .. MaxPolls],
           \A r \in AllSources \ {s} : status'[r] = status[r] /\ failures'[r] = failures[r],
           (status'[s] = "broken") = (failures'[s] >= FailuresBeforeBroken),
           p.op # "none" => Remembers(s, p)'
    PROVE  SourcesInv'
<1>0. poll'[s] = p /\ \A r \in AllSources \ {s} : poll'[r] = poll[r]  BY DEF SourcesInv, Typed
<1>1. Typed'
  <2>1. poll' \in [AllSources -> Poll]  BY DEF SourcesInv, Typed, Poll
  <2> QED  BY <2>1 DEF SourcesInv, Typed, Poll, site
<1>2. Dated'  BY DEF SourcesInv, Dated
<1>3. LatestIsTold'  BY DEF SourcesInv, LatestIsTold, latestVersion
<1>4. SetAside'  BY DEF SourcesInv, SetAside
<1>5. Knows'
  <2>1. SUFFICES ASSUME NEW r \in AllSources, poll'[r].op # "none"
                 PROVE  Remembers(r, poll[r])'
    BY DEF Knows
  <2>2. CASE r = s  BY <2>1, <2>2, <1>0 DEF Remembers, BoardItems, latestVersion
  <2>3. CASE r # s
    <3>1. latestVersion(r)' = latestVersion(r)  BY DEF latestVersion
    <3>2. BoardItems(r)' = BoardItems(r)  BY <2>3, <1>0 DEF BoardItems
    <3>3. poll'[r] = poll[r] /\ failures'[r] = failures[r]  BY <2>3, <1>0
    <3>4. Remembers(r, poll[r])  BY <2>1, <3>3 DEF SourcesInv, Knows
    <3> QED  BY <3>1, <3>2, <3>3, <3>4 DEF Remembers
  <2> QED  BY <2>2, <2>3
<1> QED  BY <1>1, <1>2, <1>3, <1>4, <1>5 DEF SourcesInv

-----------------------------------------------------------------------------
(* One lemma for each action *)

LEMMA InitInv == ASSUME SourcesAssumption, SourcesInit PROVE SourcesInv
<1>1. Typed  BY NoPollTyped DEF SourcesAssumption, SourcesInit, Typed, Poll
<1>2. Dated /\ LatestIsTold
  <2>1. \A s \in Pages, t \in Texts : versions[s][t] = 0  BY DEF SourcesInit
  <2> QED  BY <2>1 DEF SourcesInit, SourcesAssumption, Dated, LatestIsTold, latestVersion
<1>3. Knows  BY NoPollTyped DEF SourcesInit, Knows
<1>4. SetAside  BY DEF SourcesInit, SetAside, SourcesAssumption
<1> QED  BY <1>1, <1>2, <1>3, <1>4 DEF SourcesInv

\* The site, the owner and the pack files.
LEMMA OutsideInv ==
    ASSUME SourcesInv, SourcesAssumption,
           \/ \E s \in Pages, t \in Texts : PageChanges(s, t)
           \/ \E s \in Boards, j \in Postings : BoardChanges(s, j)
           \/ \E s \in AllSources : deleteSource(s) \/ pauseUnlistedSources(s) \/ ensurePackSource(s)
    PROVE  SourcesInv'
<1>1. CASE \E s \in Pages, t \in Texts : PageChanges(s, t)
  <2>1. PICK s \in Pages, t \in Texts : PageChanges(s, t)  BY <1>1
  <2>2. Typed'  BY <2>1 DEF SourcesInv, Typed, PageChanges, rows
  <2> QED  BY <2>1, <2>2, SiteSteps DEF PageChanges, rows
<1>2. CASE \E s \in Boards, j \in Postings : BoardChanges(s, j)
  <2>1. PICK s \in Boards, j \in Postings : BoardChanges(s, j)  BY <1>2
  <2>2. Typed'  BY <2>1 DEF SourcesInv, Typed, BoardChanges, rows
  <2> QED  BY <2>1, <2>2, SiteSteps DEF BoardChanges, rows
<1>3. CASE \E s \in AllSources : deleteSource(s) \/ pauseUnlistedSources(s) \/ ensurePackSource(s)
  <2>1. PICK s \in AllSources : deleteSource(s) \/ pauseUnlistedSources(s) \/ ensurePackSource(s)  BY <1>3
  <2>2. Typed'  BY <2>1 DEF SourcesInv, Typed, deleteSource, pauseUnlistedSources, ensurePackSource, site
  <2>3. \A r \in AllSources : (status'[r] = "broken") = (status[r] = "broken")
    BY <2>1 DEF SourcesInv, Typed, deleteSource, pauseUnlistedSources, ensurePackSource
  <2> QED  BY <2>1, <2>2, <2>3, SiteSteps DEF deleteSource, pauseUnlistedSources, ensurePackSource
<1> QED  BY <1>1, <1>2, <1>3

LEMMA BeginPollInv ==
    ASSUME SourcesInv, SourcesAssumption, NEW s \in AllSources, BeginPoll(s)
    PROVE  SourcesInv'
<1> DEFINE p == [NoPoll EXCEPT !.op = "read", !.at = moment + 1, !.failures = failures[s],
                               !.before = IF s \in Pages THEN latestVersion(s) ELSE lastJobs[s]]
<1>1. /\ poll' = [poll EXCEPT ![s] = p] /\ moment' = moment + 1 /\ moment + 1 \in 1 .. MaxPolls
      /\ UNCHANGED <<site, rows, versions, lastJobs, items, told>>
  BY DEF BeginPoll, SourcesInv, Typed, SourcesAssumption
<1>2. /\ p.op = "read" /\ p.at = moment + 1 /\ p.failures = failures[s]
      /\ p.before = IF s \in Pages THEN latestVersion(s) ELSE lastJobs[s]
  BY DEF NoPoll
<1>3. p \in Poll
  <2>1. (IF s \in Pages THEN latestVersion(s) ELSE lastJobs[s]) \subseteq Texts \cup Postings
    BY DEF latestVersion, SourcesInv, Typed, AllSources
  <2>2. failures[s] \in Nat /\ moment + 1 \in 0 .. MaxPolls  BY <1>1 DEF SourcesInv, Typed
  <2> QED  BY <2>1, <2>2, NoPollTyped, PollTyped
<1> HIDE DEF p
<1>4. poll'[s] = p /\ \A r \in AllSources \ {s} : poll'[r] = poll[r]  BY <1>1 DEF SourcesInv, Typed
<1>5. Typed'
  <2>1. poll' \in [AllSources -> Poll]  BY <1>1, <1>3 DEF SourcesInv, Typed, Poll
  <2> QED  BY <2>1, <1>1 DEF SourcesInv, Typed, Poll, site, rows
<1>6. Dated'  BY <1>1 DEF SourcesInv, Dated, Typed, rows
<1>7. LatestIsTold'  BY <1>1 DEF SourcesInv, LatestIsTold, latestVersion
<1>8. SetAside'  BY <1>1 DEF SourcesInv, SetAside, rows
<1>9. Knows'
  <2>1. SUFFICES ASSUME NEW r \in AllSources, poll'[r].op # "none"
                 PROVE  Remembers(r, poll[r])'
    BY DEF Knows
  <2>2. latestVersion(r)' = latestVersion(r)  BY <1>1 DEF latestVersion
  <2>3. CASE r = s
    <3>1. s \in Pages => s \notin Boards  BY DEF SourcesAssumption
    <3>2. \A t \in Texts : s \in Pages => versions[s][t] < moment + 1
      BY DEF SourcesInv, Dated, Typed
    <3>3. s \in Boards => p.before = lastJobs'[s]  BY <3>1, <1>1, <1>2
    <3>4. /\ 0 < p.at /\ p.at <= moment' /\ p.failures = failures'[s]
          /\ s \in Pages => p.before = latestVersion(s)' /\ \A t \in Texts : versions'[s][t] < p.at
      BY <2>2, <2>3, <3>2, <1>1, <1>2 DEF rows, SourcesInv, Typed
    <3> QED  BY <2>3, <3>3, <3>4, <1>2, <1>4 DEF Remembers
  <2>4. CASE r # s
    <3>1. poll'[r] = poll[r] /\ BoardItems(r)' = BoardItems(r)  BY <2>4, <1>4 DEF BoardItems
    <3>2. Remembers(r, poll[r])  BY <2>1, <3>1 DEF SourcesInv, Knows
    <3>3. poll[r].at \in Nat /\ moment \in Nat  BY DEF SourcesInv, Typed
    <3> QED  BY <2>2, <3>1, <3>2, <3>3, <1>1 DEF Remembers, rows
  <2> QED  BY <2>3, <2>4
<1> QED  BY <1>5, <1>6, <1>7, <1>8, <1>9 DEF SourcesInv

LEMMA ReadInv ==
    ASSUME SourcesInv, SourcesAssumption, NEW s \in AllSources, Read(s)
    PROVE  SourcesInv'
<1>1. poll[s] \in Poll /\ Remembers(s, poll[s]) /\ poll[s].op = "read"
  BY DEF Read, SourcesInv, Typed, Knows, Poll
<1>2. (s \in Pages => page[s] \in Texts) /\ (s \notin Pages => s \in Boards /\ board[s] \subseteq Postings)
  BY DEF SourcesInv, Typed, AllSources
<1>3. PICK p \in Poll : p = [poll[s] EXCEPT !.op = IF Unchanged(s) THEN "success" ELSE "store",
                                            !.found = IF s \in Pages THEN {page[s]} ELSE board[s]]
  <2>1. (IF s \in Pages THEN {page[s]} ELSE board[s]) \subseteq Texts \cup Postings  BY <1>2
  <2> QED  BY <1>1, <2>1 DEF Poll
<1>4. poll' = [poll EXCEPT ![s] = p] /\ UNCHANGED <<site, rows, versions, lastJobs, items, told, moment>>
  BY <1>3 DEF Read, SourcesInv, Typed
<1>5. /\ p.op \in {"success", "store"} /\ p.at = poll[s].at /\ p.failures = poll[s].failures
      /\ p.before = poll[s].before /\ p.found = IF s \in Pages THEN {page[s]} ELSE board[s]
  BY <1>1, <1>3 DEF Poll
<1>6. Remembers(s, p)'
  <2>1. latestVersion(s)' = latestVersion(s)  BY <1>4 DEF latestVersion
  <2>2. s \in Boards => s \notin Pages  BY DEF SourcesAssumption
  <2> QED  BY <1>1, <1>2, <1>4, <1>5, <2>1, <2>2 DEF Remembers, rows
<1> QED  BY <1>4, <1>6, PollMoves DEF SourcesInv, SetAside, Typed, rows

LEMMA CollectFailsInv ==
    ASSUME SourcesInv, SourcesAssumption, NEW s \in AllSources, CollectFails(s)
    PROVE  SourcesInv'
<1>1. poll[s] \in Poll /\ Remembers(s, poll[s])
  BY DEF CollectFails, SourcesInv, Typed, Knows, Poll
<1>2. PICK p \in Poll : p = [poll[s] EXCEPT !.op = "failure"]  BY <1>1 DEF Poll
<1>3. poll' = [poll EXCEPT ![s] = p] /\ UNCHANGED <<site, rows, versions, lastJobs, items, told, moment>>
  BY <1>2 DEF CollectFails, SourcesInv, Typed
<1>4. p.op = "failure" /\ p.at = poll[s].at /\ p.failures = poll[s].failures  BY <1>1, <1>2 DEF Poll
<1>5. Remembers(s, p)'  BY <1>1, <1>3, <1>4 DEF Remembers, rows
<1> QED  BY <1>3, <1>5, PollMoves DEF SourcesInv, SetAside, Typed, rows

\* The page t is stored as the latest version, and told.
LEMMA VersionStored ==
    ASSUME SourcesInv, SourcesAssumption, NEW s \in Pages, NEW t \in Texts,
           poll[s].op = "store", poll[s].found = {t},
           NEW v \in [Texts -> 0 .. MaxPolls],
           v[t] = poll[s].at, \A u \in Texts \ {t} : v[u] \in {0, versions[s][u]},
           versions' = [versions EXCEPT ![s] = v],
           told' = [told EXCEPT ![s] = {t}],
           poll' = [poll EXCEPT ![s].op = "success"],
           items \subseteq items',
           items' \subseteq [source: AllSources, kind: {"change", "open", "closed"},
                             of: Texts \cup Postings, at: 0 .. MaxPolls],
           UNCHANGED <<site, rows, lastJobs, moment>>
    PROVE  SourcesInv'
<1>0. s \in AllSources /\ s \notin Boards  BY DEF AllSources, SourcesAssumption
<1>1. /\ poll[s] \in Poll /\ Remembers(s, poll[s])
      /\ versions[s] \in [Texts -> 0 .. MaxPolls] /\ moment \in Nat
  BY <1>0 DEF SourcesInv, Typed, Knows, Poll
<1>2. /\ versions'[s] = v /\ told'[s] = {t}
      /\ \A r \in Pages \ {s} : versions'[r] = versions[r] /\ told'[r] = told[r]
  BY DEF SourcesInv, Typed
<1>3. 0 < v[t] /\ v[t] <= moment /\ \A u \in Texts \ {t} : v[u] < v[t]
  BY <1>1 DEF Remembers, Poll
<1>4. latestVersion(s)' = {t}  BY <1>2, <1>3 DEF latestVersion
<1>5. \A r \in Pages \ {s} : latestVersion(r)' = latestVersion(r)  BY <1>2 DEF latestVersion
<1>6. /\ poll'[s] = [poll[s] EXCEPT !.op = "success"] /\ poll'[s] \in Poll
      /\ poll'[s].op = "success" /\ poll'[s].at = poll[s].at /\ poll'[s].failures = poll[s].failures
      /\ \A r \in AllSources \ {s} : poll'[r] = poll[r]
  BY <1>0, <1>1 DEF SourcesInv, Typed, Poll
<1>7. Typed'
  <2>1. poll' \in [AllSources -> Poll] /\ versions' \in [Pages -> [Texts -> 0 .. MaxPolls]]
        /\ told' \in [Pages -> SUBSET Texts]
    BY <1>6 DEF SourcesInv, Typed, Poll
  <2> QED  BY <2>1 DEF SourcesInv, Typed, Poll, site, rows
<1>8. Dated'
  <2>1. SUFFICES ASSUME NEW r \in Pages, NEW x \in Texts
                 PROVE  /\ versions'[r][x] <= moment
                        /\ \A u \in Texts : versions'[r][x] = versions'[r][u] /\ versions'[r][x] > 0 => x = u
    BY DEF Dated
  <2>2. CASE r = s
    <3>1. v[x] <= moment
      <4>1. versions[s][x] <= moment /\ 0 <= moment  BY <1>1 DEF SourcesInv, Dated
      <4> QED  BY <4>1, <1>3
    <3>2. SUFFICES ASSUME NEW u \in Texts, v[x] = v[u], v[x] > 0  PROVE x = u  BY <2>2, <3>1, <1>2
    <3>3. CASE x = t \/ u = t  BY <3>2, <3>3, <1>3
    <3>4. CASE x # t /\ u # t
      <4>1. v[x] = versions[s][x] /\ v[u] = versions[s][u]  BY <3>2, <3>4
      <4> QED  BY <4>1, <3>2 DEF SourcesInv, Dated
    <3> QED  BY <3>3, <3>4
  <2>3. CASE r # s  BY <2>3, <1>2 DEF SourcesInv, Dated
  <2> QED  BY <2>2, <2>3
<1>9. Knows'
  <2>1. SUFFICES ASSUME NEW r \in AllSources, poll'[r].op # "none"
                 PROVE  Remembers(r, poll[r])'
    BY DEF Knows
  <2>2. CASE r = s  BY <2>2, <1>0, <1>1, <1>6 DEF Remembers, rows
  <2>3. CASE r # s
    <3>1. poll'[r] = poll[r] /\ BoardItems(r)' = BoardItems(r)  BY <2>3, <1>6 DEF BoardItems
    <3>2. Remembers(r, poll[r])  BY <2>1, <3>1 DEF SourcesInv, Knows
    <3> QED  BY <2>3, <3>1, <3>2, <1>2, <1>5 DEF Remembers, rows
  <2> QED  BY <2>2, <2>3
<1>10. LatestIsTold'  BY <1>2, <1>4, <1>5 DEF SourcesInv, LatestIsTold
<1>11. SetAside'  BY DEF SourcesInv, SetAside, rows
<1> QED  BY <1>7, <1>8, <1>9, <1>10, <1>11 DEF SourcesInv

LEMMA recordPageBaselineInv ==
    ASSUME SourcesInv, SourcesAssumption, NEW s \in AllSources, recordPageBaseline(s)
    PROVE  SourcesInv'
<1>1. s \in Pages /\ poll[s].op = "store" /\ Remembers(s, poll[s])
  BY DEF recordPageBaseline, SourcesInv, Knows
<1>2. PICK t \in Texts : poll[s].found = {t}  BY <1>1 DEF Remembers
<1>3. versions' = upsertVersion(s, t) /\ told' = [told EXCEPT ![s] = {t}]
  BY <1>2 DEF recordPageBaseline
<1>4. PICK v \in [Texts -> 0 .. MaxPolls] : v = [versions[s] EXCEPT ![t] = poll[s].at]
  BY <1>1 DEF SourcesInv, Typed
<1>5. versions' = [versions EXCEPT ![s] = v]
  BY <1>3, <1>4 DEF upsertVersion, SourcesInv, Typed
<1>6. v[t] = poll[s].at /\ \A u \in Texts \ {t} : v[u] = versions[s][u]
  BY <1>1, <1>4 DEF SourcesInv, Typed
<1>7. /\ poll' = [poll EXCEPT ![s].op = "success"] /\ UNCHANGED <<site, rows, lastJobs, moment>>
      /\ items \subseteq items'
      /\ items' \subseteq [source: AllSources, kind: {"change", "open", "closed"},
                           of: Texts \cup Postings, at: 0 .. MaxPolls]
  BY DEF recordPageBaseline, SourcesInv, Typed
<1>8. \A u \in Texts \ {t} : v[u] \in {0, versions[s][u]}  BY <1>6
<1> QED  BY <1>1, <1>2, <1>3, <1>5, <1>6, <1>7, <1>8, VersionStored

LEMMA recordPageChangeInv ==
    ASSUME SourcesInv, SourcesAssumption, NEW s \in AllSources, recordPageChange(s)
    PROVE  SourcesInv'
<1>1. s \in Pages /\ poll[s].op = "store" /\ Remembers(s, poll[s]) /\ poll[s] \in Poll
  BY DEF recordPageChange, SourcesInv, Knows, Typed, Poll
<1>2. PICK t \in Texts : poll[s].found = {t}  BY <1>1 DEF Remembers
<1>3. /\ versions' = [upsertVersion(s, t) EXCEPT ![s] = pruneVersions(@)]
      /\ items' = items \cup {Item(s, "change", t, poll[s].at)}
      /\ told' = [told EXCEPT ![s] = IF @ = poll[s].before THEN {t} ELSE {}]
  BY <1>2 DEF recordPageChange
<1>4. told' = [told EXCEPT ![s] = {t}]
  BY <1>1, <1>3 DEF Remembers, SourcesInv, LatestIsTold, Typed
<1>5. PICK w \in [Texts -> 0 .. MaxPolls] : w = [versions[s] EXCEPT ![t] = poll[s].at]
  BY <1>1 DEF SourcesInv, Typed, Poll
<1>6. w[t] = poll[s].at /\ \A u \in Texts \ {t} : w[u] = versions[s][u] /\ w[u] < w[t]
  BY <1>1, <1>5 DEF SourcesInv, Typed, Remembers
<1>7. PICK v \in [Texts -> 0 .. MaxPolls] : v = pruneVersions(w)
  <2>1. pruneVersions(w) \in [Texts -> 0 .. MaxPolls]  BY <1>5 DEF pruneVersions, SourcesAssumption
  <2> QED  BY <2>1
<1>8. \A u \in Texts : v[u] \in {0, w[u]}  BY <1>7 DEF pruneVersions
<1>9. v[t] = w[t]
  <2>1. {u \in Texts : w[u] > w[t]} = {}  BY <1>5, <1>6
  <2>2. Cardinality({u \in Texts : w[u] > w[t]}) < MaxVersions
    BY <2>1, FS_EmptySet DEF SourcesAssumption
  <2> QED  BY <1>7, <2>2 DEF pruneVersions
<1>10. versions' = [versions EXCEPT ![s] = v]
  BY <1>1, <1>3, <1>5, <1>7 DEF upsertVersion, SourcesInv, Typed
<1>11. items' \subseteq [source: AllSources, kind: {"change", "open", "closed"},
                         of: Texts \cup Postings, at: 0 .. MaxPolls]
  BY <1>1, <1>3 DEF SourcesInv, Typed, Item, Poll
<1>12. /\ poll' = [poll EXCEPT ![s].op = "success"] /\ UNCHANGED <<site, rows, lastJobs, moment>>
       /\ items \subseteq items'
  BY <1>3 DEF recordPageChange
<1>13. v[t] = poll[s].at /\ \A u \in Texts \ {t} : v[u] \in {0, versions[s][u]}
  BY <1>6, <1>8, <1>9
<1> QED  BY <1>1, <1>2, <1>4, <1>10, <1>11, <1>12, <1>13, VersionStored

LEMMA recordPolledItemsInv ==
    ASSUME SourcesInv, SourcesAssumption, NEW s \in AllSources, recordPolledItems(s)
    PROVE  SourcesInv'
<1>1. poll[s] \in Poll /\ Remembers(s, poll[s]) /\ poll[s].op = "store" /\ s \in Boards
  BY DEF recordPolledItems, SourcesInv, Typed, Knows, Poll
<1>2. PICK p \in Poll : p = [poll[s] EXCEPT !.op = "remember"]  BY <1>1 DEF Poll
<1>3. /\ poll' = [poll EXCEPT ![s] = p] /\ items' = items \cup BoardItems(s)
      /\ UNCHANGED <<site, rows, versions, lastJobs, told, moment>>
  BY <1>2 DEF recordPolledItems, SourcesInv, Typed
<1>4. p.op = "remember" /\ p.at = poll[s].at /\ p.failures = poll[s].failures
      /\ p.before = poll[s].before /\ p.found = poll[s].found
  BY <1>1, <1>2 DEF Poll
<1>5. BoardItems(s)' = BoardItems(s)  BY <1>3, <1>4 DEF BoardItems, SourcesInv, Typed
<1>6. Remembers(s, p)'  BY <1>1, <1>3, <1>4, <1>5 DEF Remembers, rows, SourcesAssumption
<1>7. items' \subseteq [source: AllSources, kind: {"change", "open", "closed"},
                        of: Texts \cup Postings, at: 0 .. MaxPolls]
  <2>1. poll[s].found \subseteq Postings /\ poll[s].before \subseteq Postings
    BY <1>1 DEF Remembers, SourcesInv, Typed
  <2> QED  BY <1>1, <1>3, <2>1 DEF BoardItems, Item, SourcesInv, Typed, Poll
<1> QED  BY <1>3, <1>6, <1>7, PollMoves DEF SourcesInv, SetAside, Typed, rows

LEMMA updateSourceConfigInv ==
    ASSUME SourcesInv, SourcesAssumption, NEW s \in AllSources, updateSourceConfig(s)
    PROVE  SourcesInv'
<1>1. poll[s] \in Poll /\ Remembers(s, poll[s]) /\ poll[s].op = "remember" /\ s \in Boards
  BY DEF updateSourceConfig, SourcesInv, Typed, Knows, Poll, Remembers
<1>2. /\ poll'[s] = [poll[s] EXCEPT !.op = "success"] /\ poll'[s] \in Poll
      /\ poll'[s].op = "success" /\ poll'[s].at = poll[s].at /\ poll'[s].failures = poll[s].failures
      /\ \A r \in AllSources \ {s} : poll'[r] = poll[r]
  BY <1>1 DEF updateSourceConfig, SourcesInv, Typed, Poll
<1>3. Typed'
  <2>1. poll' \in [AllSources -> Poll]  BY <1>2 DEF updateSourceConfig, SourcesInv, Typed, Poll
  <2>2. lastJobs' \in [Boards -> SUBSET Postings]
    BY <1>1 DEF updateSourceConfig, SourcesInv, Typed, Remembers
  <2> QED  BY <2>1, <2>2 DEF updateSourceConfig, SourcesInv, Typed, Poll, site, rows
<1>4. Dated'  BY DEF updateSourceConfig, SourcesInv, Dated
<1>5. LatestIsTold'  BY DEF updateSourceConfig, SourcesInv, LatestIsTold, latestVersion
<1>6. SetAside'  BY DEF updateSourceConfig, SourcesInv, SetAside, rows
<1>7. Knows'
  <2>1. SUFFICES ASSUME NEW r \in AllSources, poll'[r].op # "none"
                 PROVE  Remembers(r, poll[r])'
    BY DEF Knows
  <2>2. CASE r = s  BY <2>2, <1>1, <1>2 DEF Remembers, rows, updateSourceConfig
  <2>3. CASE r # s
    <3>1. /\ poll'[r] = poll[r] /\ BoardItems(r)' = BoardItems(r)
          /\ latestVersion(r)' = latestVersion(r)
          /\ r \in Boards => lastJobs'[r] = lastJobs[r]
      BY <2>3, <1>2 DEF BoardItems, latestVersion, updateSourceConfig, SourcesInv, Typed
    <3>2. Remembers(r, poll[r])  BY <2>1, <3>1 DEF SourcesInv, Knows
    <3> QED  BY <3>1, <3>2 DEF Remembers, rows, updateSourceConfig
  <2> QED  BY <2>2, <2>3
<1> QED  BY <1>3, <1>4, <1>5, <1>6, <1>7 DEF SourcesInv

\* Success, failure and death end the poll.
LEMMA EndInv ==
    ASSUME SourcesInv, SourcesAssumption, NEW s \in AllSources,
           recordPollSuccess(s) \/ recordPollFailure(s) \/ PollDies(s)
    PROVE  SourcesInv'
<1>1. /\ poll' = [poll EXCEPT ![s] = NoPoll]
      /\ UNCHANGED <<site, removed, versions, lastJobs, items, told, moment>>
  BY DEF recordPollSuccess, recordPollFailure, PollDies, rows
<1>2. Remembers(s, poll[s]) /\ failures[s] \in Nat
  BY DEF recordPollSuccess, recordPollFailure, PollDies, SourcesInv, Knows, Typed
<1>3. /\ status' \in [AllSources -> {"active", "paused", "broken"}]
      /\ failures' \in [AllSources -> Nat]
      /\ \A r \in AllSources \ {s} : status'[r] = status[r] /\ failures'[r] = failures[r]
  <2>1. CASE recordPollSuccess(s)  BY <2>1 DEF recordPollSuccess, SourcesInv, Typed
  <2>2. CASE recordPollFailure(s)
    <3>1. (IF hasFailedTooOften(poll[s].failures + 1) THEN "broken" ELSE "active") \in {"active", "broken"}
      OBVIOUS
    <3>2. failures[s] + 1 \in Nat  BY <1>2
    <3> QED  BY <2>2, <3>1, <3>2 DEF recordPollFailure, SourcesInv, Typed
  <2>3. CASE PollDies(s)  BY <2>3 DEF PollDies, SourcesInv, Typed, rows
  <2> QED  BY <2>1, <2>2, <2>3
<1>4. (status'[s] = "broken") = (failures'[s] >= FailuresBeforeBroken)
  <2>1. CASE recordPollSuccess(s)
    BY <2>1 DEF recordPollSuccess, SourcesInv, Typed, SourcesAssumption
  <2>2. CASE recordPollFailure(s)
    <3>1. poll[s].failures + 1 = failures'[s]
      BY <2>2, <1>2 DEF recordPollFailure, SourcesInv, Typed, Remembers
    <3> QED  BY <2>2, <3>1 DEF recordPollFailure, SourcesInv, Typed, hasFailedTooOften
  <2>3. CASE PollDies(s)  BY <2>3 DEF PollDies, SourcesInv, SetAside, rows
  <2> QED  BY <2>1, <2>2, <2>3
<1> QED  BY <1>1, <1>3, <1>4, NoPollTyped, PollMoves DEF SourcesInv, Typed

LEMMA NextInv ==
    ASSUME SourcesInv, SourcesAssumption, [SourcesNext]_sourcesVars
    PROVE  SourcesInv'
<1>1. CASE UNCHANGED sourcesVars
  BY <1>1 DEF sourcesVars, site, rows, SourcesInv, Typed, Dated, Knows, Remembers, LatestIsTold,
              SetAside, latestVersion, BoardItems
<1>2. CASE SourcesNext
  BY <1>2, OutsideInv, BeginPollInv, ReadInv, CollectFailsInv, recordPageBaselineInv,
     recordPageChangeInv, recordPolledItemsInv, updateSourceConfigInv, EndInv
     DEF SourcesNext, PollStep
<1> QED  BY <1>1, <1>2

\* No opening of a posting is forgotten before its closing is stored.
LEMMA ClosingsStep ==
    ASSUME SourcesInv, SourcesAssumption, [SourcesNext]_sourcesVars
    PROVE  \A s \in Boards : \A j \in lastJobs[s] \ lastJobs'[s] :
               Item(s, "closed", j, poll[s].at) \in items
<1>1. SUFFICES ASSUME NEW s \in Boards, NEW j \in lastJobs[s], j \notin lastJobs'[s]
               PROVE  Item(s, "closed", j, poll[s].at) \in items
  OBVIOUS
<1>2. \A r \in Boards \ {s} : lastJobs' # [lastJobs EXCEPT ![r] = poll[r].found]
  BY <1>1 DEF SourcesInv, Typed
<1>3. lastJobs' # lastJobs  BY <1>1
<1>4. updateSourceConfig(s)
  <2>1. SourcesNext  BY <1>3 DEF sourcesVars
  <2>2. PICK r \in AllSources : PollStep(r)
    BY <2>1, <1>3 DEF SourcesNext, PageChanges, BoardChanges, deleteSource, pauseUnlistedSources,
       ensurePackSource, BeginPoll, PollDies
  <2>3. updateSourceConfig(r)
    BY <2>2, <1>3 DEF PollStep, Read, CollectFails, recordPageBaseline, recordPageChange,
       recordPolledItems, recordPollSuccess, recordPollFailure
  <2>4. r \in Boards  BY <2>3 DEF updateSourceConfig, SourcesInv, Knows, Remembers
  <2> QED  BY <2>3, <2>4, <1>2 DEF updateSourceConfig
<1>5. Remembers(s, poll[s]) /\ poll[s].op = "remember"
  BY <1>4 DEF updateSourceConfig, SourcesInv, Knows, AllSources
<1>6. poll[s].before = lastJobs[s] /\ j \notin poll[s].found /\ BoardItems(s) \subseteq items
  BY <1>1, <1>4, <1>5 DEF Remembers, updateSourceConfig, SourcesInv, Typed
<1> QED  BY <1>1, <1>6 DEF BoardItems

-----------------------------------------------------------------------------
(* The theorems *)

LEMMA InvHolds == SourcesAssumption => (SourcesSpec => []SourcesInv)
<1>1. SourcesAssumption /\ SourcesInit => SourcesInv  BY InitInv
<1>2. SourcesAssumption /\ SourcesInv /\ [SourcesNext]_sourcesVars => SourcesInv'  BY NextInv
<1>3. SourcesAssumption => SourcesAssumption'  BY DEF SourcesAssumption
<1> QED  BY <1>1, <1>2, <1>3, SourcesAssumption, PTL DEF SourcesSpec

\* The latest version of every page is what its changes have told, whatever
\* polls die between page-versions.ts and record-poll.ts.
THEOREM VersionsTold == SourcesSpec => []LatestIsTold
<1>1. SourcesInv => LatestIsTold  BY DEF SourcesInv
<1> QED  BY <1>1, InvHolds, SourcesAssumption, PTL

\* Six failures in a row set a source aside, and nothing else does, though
\* record-poll.ts counts with two reads.
THEOREM FailuresSetAside == SourcesSpec => []SetAside
<1>1. SourcesInv => SetAside  BY DEF SourcesInv
<1> QED  BY <1>1, InvHolds, SourcesAssumption, PTL

\* A board forgets a posting only when its closing is stored (poll-source.ts).
THEOREM ClosingsStored == SourcesSpec => ClosingsTold
<1>1. SourcesInv /\ [SourcesNext]_sourcesVars =>
        [\A s \in Boards : \A j \in lastJobs[s] \ lastJobs'[s] :
             Item(s, "closed", j, poll[s].at) \in items]_sourcesVars
  BY ClosingsStep, SourcesAssumption
<1> QED  BY <1>1, InvHolds, SourcesAssumption, PTL DEF SourcesSpec, ClosingsTold

-----------------------------------------------------------------------------
(* The versions kept *)

\* The texts a page's table of versions has, dated by f.
Dates(f) == {t \in Texts : f[t] > 0}
Few(f) == IsFiniteSet(Dates(f)) /\ Cardinality(Dates(f)) <= MaxVersions
FewKept == \A s \in Pages : Few(versions[s])

\* No two texts of a page have one date, so there are no more of them than dates.
LEMMA DatesFinite ==
    ASSUME SourcesAssumption, NEW f \in [Texts -> 0 .. MaxPolls],
           \A t, u \in Texts : f[t] = f[u] /\ f[t] > 0 => t = u
    PROVE  IsFiniteSet(Dates(f))
<1> DEFINE g == [t \in Dates(f) |-> f[t]]
<1>1. \A t \in Dates(f) : t \in Texts /\ f[t] > 0 /\ f[t] \in 1 .. MaxPolls
  BY DEF Dates, SourcesAssumption
<1>2. g \in Injection(Dates(f), 1 .. MaxPolls)
  <2>1. g \in [Dates(f) -> 1 .. MaxPolls]  BY <1>1
  <2>2. \A t, u \in Dates(f) : g[t] = g[u] => t = u  BY <1>1
  <2> QED  BY <2>1, <2>2 DEF Injection, IsInjective
<1>3. IsFiniteSet(1 .. MaxPolls)  BY FS_Interval DEF SourcesAssumption
<1> QED  BY <1>2, <1>3, FS_Injection

\* The oldest of the versions that pruning keeps has fewer than MaxVersions above
\* it, and these are all the others.
LEMMA PrunedFew ==
    ASSUME SourcesAssumption, NEW f \in [Texts -> 0 .. MaxPolls],
           \A t, u \in Texts : f[t] = f[u] /\ f[t] > 0 => t = u
    PROVE  Few(pruneVersions(f))
<1> DEFINE v == pruneVersions(f)  above(t) == {u \in Texts : f[u] > f[t]}
<1>1. /\ v \in [Texts -> 0 .. MaxPolls]
      /\ \A t \in Texts : v[t] = IF Cardinality(above(t)) < MaxVersions THEN f[t] ELSE 0
  BY DEF pruneVersions, SourcesAssumption
<1> SUFFICES Few(v)  OBVIOUS
<1> HIDE DEF v, above
<1>2. Dates(v) \subseteq Dates(f) /\ \A t \in Dates(v) : t \in Texts /\ v[t] > 0 /\ v[t] = f[t]
  <2> SUFFICES ASSUME NEW t \in Texts, v[t] > 0 PROVE v[t] = f[t]  BY DEF Dates
  <2> QED  BY <1>1
<1> USE DEF above
<1>3. IsFiniteSet(Dates(f)) /\ IsFiniteSet(Dates(v))  BY <1>2, DatesFinite, FS_Subset
<1>4. CASE Dates(v) = {}  BY <1>3, <1>4, FS_EmptySet DEF Few, SourcesAssumption
<1>5. CASE Dates(v) # {}
  <2> DEFINE T == {f[t] : t \in Dates(v)}  R == OpToRel(<, Nat)
  <2>1. T \subseteq Nat /\ T # {}  BY <1>5 DEF Dates
  <2>2. PICK x \in T : \A y \in T : ~ (<<y, x>> \in R)
    <3>1. IsWellFoundedOn(R, Nat)  BY NatLessThanWellFounded
    <3> HIDE DEF T, R
    <3> QED  BY <3>1, <2>1, WFMin
  <2>3. \A y \in T : ~(y < x)
    <3>1. \A y \in T : <<y, x>> \in Nat \X Nat  BY <2>1
    <3>2. \A y \in T : y < x => <<y, x>> \in R  BY <3>1 DEF OpToRel
    <3> QED  BY <3>2, <2>2
  <2>4. PICK t \in Dates(v) : x = f[t]  OBVIOUS
  <2>5. t \in Texts /\ v[t] > 0 /\ v[t] = f[t] /\ Cardinality(above(t)) < MaxVersions
    BY <1>1, <1>2, <2>4
  <2>6. Dates(v) \ {t} \subseteq above(t)
    <3> SUFFICES ASSUME NEW u \in Dates(v), u # t PROVE u \in Texts /\ f[u] > f[t]  OBVIOUS
    <3>1. u \in Texts /\ v[u] > 0 /\ f[u] \in T  BY DEF Dates
    <3>2. v[u] = f[u] /\ f[u] > 0  BY <1>2, <3>1
    <3>3. f[u] # f[t]  BY <2>5, <3>1, <3>2
    <3>4. f[u] \in Nat /\ f[t] \in Nat /\ ~(f[u] < f[t])  BY <2>3, <2>4, <2>5, <3>1
    <3> QED  BY <3>1, <3>3, <3>4
  <2>7. above(t) \subseteq Dates(f)
    <3>1. \A u \in above(t) : u \in Texts /\ f[u] > f[t] /\ f[u] \in Nat /\ f[t] \in Nat  BY <2>5
    <3> QED  BY <3>1 DEF Dates
  <2>8. IsFiniteSet(above(t)) /\ Cardinality(above(t)) \in Nat
    BY <1>3, <2>7, FS_Subset, FS_CardinalityType
  <2>9. Cardinality(Dates(v) \ {t}) <= Cardinality(above(t)) /\ Cardinality(Dates(v) \ {t}) \in Nat
    BY <2>6, <2>8, <1>3, FS_Subset, FS_CardinalityType
  <2>10. Cardinality(Dates(v) \ {t}) = Cardinality(Dates(v)) - 1 /\ Cardinality(Dates(v)) \in Nat
    BY <1>3, <2>4, FS_RemoveElement, FS_CardinalityType
  <2>11. MaxVersions \in Nat  BY DEF SourcesAssumption
  <2> QED  BY <1>3, <2>5, <2>8, <2>9, <2>10, <2>11 DEF Few
<1> QED  BY <1>4, <1>5

\* A page whose versions have no latest has none.
LEMMA NoneLatest ==
    ASSUME SourcesInv, SourcesAssumption, NEW s \in Pages, latestVersion(s) = {}
    PROVE  Dates(versions[s]) = {}
<1> SUFFICES ASSUME Dates(versions[s]) # {} PROVE latestVersion(s) # {}  OBVIOUS
<1> DEFINE T == {MaxPolls - versions[s][t] : t \in Dates(versions[s])}  R == OpToRel(<, Nat)
<1>1. versions[s] \in [Texts -> 0 .. MaxPolls] /\ MaxPolls \in Nat
  BY DEF SourcesInv, Typed, SourcesAssumption
<1>2. T \subseteq Nat /\ T # {}
  <2>1. \A t \in Dates(versions[s]) : versions[s][t] \in 0 .. MaxPolls  BY <1>1 DEF Dates
  <2> QED  BY <1>1, <2>1
<1>3. PICK x \in T : \A y \in T : ~ (<<y, x>> \in R)
  <2>1. IsWellFoundedOn(R, Nat)  BY NatLessThanWellFounded
  <2> HIDE DEF T, R
  <2> QED  BY <2>1, <1>2, WFMin
<1>4. \A y \in T : ~(y < x)
  <2>1. \A y \in T : <<y, x>> \in Nat \X Nat  BY <1>2
  <2>2. \A y \in T : y < x => <<y, x>> \in R  BY <2>1 DEF OpToRel
  <2> QED  BY <2>2, <1>3
<1>5. PICK t \in Dates(versions[s]) : x = MaxPolls - versions[s][t]  OBVIOUS
<1>6. t \in Texts /\ versions[s][t] > 0  BY <1>5 DEF Dates
<1>7. ASSUME NEW u \in Texts PROVE versions[s][u] <= versions[s][t]
  <2>1. versions[s][u] \in Nat /\ versions[s][t] \in Nat  BY <1>1, <1>6
  <2>2. CASE versions[s][u] > 0
    <3>1. MaxPolls - versions[s][u] \in T  BY <2>2 DEF Dates
    <3>2. ~(MaxPolls - versions[s][u] < MaxPolls - versions[s][t])  BY <1>4, <1>5, <3>1
    <3> QED  BY <1>1, <2>1, <3>2
  <2>3. CASE ~(versions[s][u] > 0)  BY <2>1, <2>3, <1>6
  <2> QED  BY <2>2, <2>3
<1> QED  BY <1>6, <1>7 DEF latestVersion

LEMMA FewNext ==
    ASSUME SourcesInv, FewKept, SourcesAssumption, [SourcesNext]_sourcesVars
    PROVE  FewKept'
<1>1. CASE versions' = versions  BY <1>1 DEF FewKept, Few, Dates
<1>2. CASE versions' # versions
  <2>1. PICK s \in AllSources : recordPageBaseline(s) \/ recordPageChange(s)
    BY <1>2 DEF SourcesNext, sourcesVars, PollStep, PageChanges, BoardChanges, deleteSource, pauseUnlistedSources,
       ensurePackSource, BeginPoll, PollDies, Read, CollectFails, recordPolledItems, updateSourceConfig,
       recordPollSuccess, recordPollFailure
  <2>2. /\ s \in Pages /\ poll[s].op = "store" /\ Remembers(s, poll[s]) /\ poll[s].at \in 0 .. MaxPolls
        /\ versions[s] \in [Texts -> 0 .. MaxPolls]
    BY <2>1 DEF recordPageBaseline, recordPageChange, SourcesInv, Knows, Typed
  <2>3. PICK t \in Texts : poll[s].found = {t}  BY <2>2 DEF Remembers
  <2>4. PICK w : w = [versions[s] EXCEPT ![t] = poll[s].at]  OBVIOUS
  <2>5. /\ w \in [Texts -> 0 .. MaxPolls] /\ w[t] = poll[s].at /\ \A u \in Texts \ {t} : w[u] = versions[s][u]
        /\ versions[s][t] < poll[s].at /\ \A u \in Texts : versions[s][u] < poll[s].at
    BY <2>2, <2>4 DEF Remembers
  <2>6. SUFFICES Few(versions'[s])
    <3>1. \A r \in Pages \ {s} : versions'[r] = versions[r]
      BY <2>1, <2>2 DEF recordPageBaseline, recordPageChange, upsertVersion, SourcesInv, Typed
    <3> QED  BY <2>6, <3>1 DEF FewKept, Few, Dates
  <2>7. CASE recordPageBaseline(s)
    <3>1. versions'[s] = w  BY <2>2, <2>3, <2>4, <2>7 DEF recordPageBaseline, upsertVersion, SourcesInv, Typed
    <3>2. Dates(versions[s]) = {}  BY <2>2, <2>7, NoneLatest DEF recordPageBaseline, Remembers
    <3>3. Dates(w) \subseteq {t}  BY <2>5, <3>2 DEF Dates
    <3>4. IsFiniteSet({t}) /\ Cardinality({t}) = 1  BY FS_Singleton
    <3>5. IsFiniteSet(Dates(w)) /\ Cardinality(Dates(w)) <= 1  BY <3>3, <3>4, FS_Subset
    <3>6. Cardinality(Dates(w)) \in Nat  BY <3>5, FS_CardinalityType
    <3> QED  BY <3>1, <3>5, <3>6 DEF Few, SourcesAssumption
  <2>8. CASE recordPageChange(s)
    <3>1. versions'[s] = pruneVersions(w)
      BY <2>2, <2>3, <2>4, <2>8 DEF recordPageChange, upsertVersion, SourcesInv, Typed
    <3>2. \A x, u \in Texts : w[x] = w[u] /\ w[x] > 0 => x = u
      <4> SUFFICES ASSUME NEW x \in Texts, NEW u \in Texts, w[x] = w[u], w[x] > 0 PROVE x = u  OBVIOUS
      <4>1. \A y \in Texts : versions[s][y] \in Nat /\ versions[s][y] # poll[s].at  BY <2>2, <2>5
      <4>2. CASE x = t \/ u = t  BY <2>5, <4>1, <4>2
      <4>3. CASE x # t /\ u # t
        <5>1. versions[s][x] = versions[s][u] /\ versions[s][x] > 0  BY <2>5, <4>3
        <5> QED  BY <2>2, <5>1 DEF SourcesInv, Dated
      <4> QED  BY <4>2, <4>3
    <3> QED  BY <2>5, <3>1, <3>2, PrunedFew
  <2> QED  BY <2>1, <2>7, <2>8
<1> QED  BY <1>1, <1>2

\* Whatever is polled, how often, and whatever dies: rows keep their shape, and a
\* page keeps MAX_VERSIONS_PER_SOURCE versions at most (page-versions.ts:27, :163).
THEOREM SourcesTypes == SourcesSpec => []SourcesTypeOK
<1>1. SourcesInit => FewKept
  <2>1. ASSUME SourcesInit, NEW s \in Pages PROVE Dates(versions[s]) = {}  BY <2>1 DEF SourcesInit, Dates
  <2> QED  BY <2>1, FS_EmptySet, SourcesAssumption DEF FewKept, Few, SourcesAssumption
<1>2. SourcesInv /\ FewKept /\ [SourcesNext]_sourcesVars => FewKept'  BY FewNext, SourcesAssumption
<1>3. SourcesInv /\ FewKept => SourcesTypeOK
  BY DEF SourcesInv, Typed, FewKept, Few, Dates, SourcesTypeOK
<1> QED  BY <1>1, <1>2, <1>3, InvHolds, SourcesAssumption, PTL DEF SourcesSpec

=============================================================================
