------------------------------ MODULE Sources ------------------------------
(***************************************************************************)
(* Polling: how the worker reads a page or a job board, what it stores and *)
(* what it remembers for the next poll (apps/worker/src/poll-source.ts,    *)
(* packages/domain/src/sources), and the pack sync that takes sources out  *)
(* and back (packages/domain/src/packs/sync.ts).                           *)
(*                                                                         *)
(* One poll of a source runs at a time: the queue is stately, keyed by the *)
(* source.  The worker may die between any two writes of a poll.           *)
(***************************************************************************)
EXTENDS Integers, FiniteSets, FiniteSetsExt

CONSTANTS
    Pages,                  \* sources of kind "diff": a page is compared with its last version
    Boards,                 \* sources of kind "json": a job board is compared with a list
    Texts,                  \* what a page may say
    Postings,               \* postings a board may list
    FailuresBeforeBroken,   \* six in the code
    MaxVersions,            \* MAX_VERSIONS_PER_SOURCE: twenty in the code
    MaxPolls                \* bound on the polls made

AllSources == Pages \cup Boards

ASSUME SourcesAssumption ==
    /\ Pages \cap Boards = {}
    /\ FailuresBeforeBroken \in Nat \ {0} /\ MaxVersions \in Nat \ {0} /\ MaxPolls \in Nat

VARIABLES
    page,        \* what each page says now
    board,       \* what each board lists now
    status,      \* sources.status
    failures,    \* sources.consecutive_failures
    removed,     \* sources.deleted_at is set
    versions,    \* page_versions: the moment each text of a page was last fetched, 0 for never
    lastJobs,    \* sources.config.lastJobs
    items,       \* raw_items: changes, openings and closings
    told,        \* history: what the changes of a page, put together, say it reads now
    poll,        \* the poll of each source in progress
    moment       \* moment of the last poll

site == <<page, board>>
rows == <<status, failures, removed>>
sourcesVars == <<site, rows, versions, lastJobs, items, told, poll, moment>>

NoPoll == [op |-> "none", at |-> 0, failures |-> 0, before |-> {}, found |-> {}]

\* A page's text stands for a version as the set that holds it alone; a page
\* never seen is the empty set.
latestVersion(s) ==
    {t \in Texts : versions[s][t] > 0 /\ \A u \in Texts : versions[s][u] <= versions[s][t]}

SourcesTypeOK ==
    /\ page \in [Pages -> Texts] /\ board \in [Boards -> SUBSET Postings]
    /\ status \in [AllSources -> {"active", "paused", "broken"}]
    /\ failures \in [AllSources -> Nat] /\ removed \in [AllSources -> BOOLEAN]
    /\ versions \in [Pages -> [Texts -> 0 .. MaxPolls]]
    /\ \A s \in Pages : Cardinality({t \in Texts : versions[s][t] > 0}) <= MaxVersions
    /\ lastJobs \in [Boards -> SUBSET Postings]
    /\ items \subseteq [source: AllSources, kind: {"change", "open", "closed"},
                        of: Texts \cup Postings, at: 0 .. MaxPolls]
    /\ told \in [Pages -> SUBSET Texts]
    /\ poll \in [AllSources -> [op: {"none", "read", "store", "remember", "success", "failure"},
                                at: 0 .. MaxPolls, failures: Nat,
                                before: SUBSET (Texts \cup Postings),
                                found: SUBSET (Texts \cup Postings)]]
    /\ moment \in 0 .. MaxPolls

SourcesInit ==
    /\ page \in [Pages -> Texts] /\ board \in [Boards -> SUBSET Postings]
    /\ status = [s \in AllSources |-> "active"]
    /\ failures = [s \in AllSources |-> 0] /\ removed = [s \in AllSources |-> FALSE]
    /\ versions = [s \in Pages |-> [t \in Texts |-> 0]]
    /\ lastJobs = [s \in Boards |-> {}]
    /\ items = {} /\ told = [s \in Pages |-> {}]
    /\ poll = [s \in AllSources |-> NoPoll]
    /\ moment = 0

-----------------------------------------------------------------------------
(* The publisher, the owner and the pack files *)

PageChanges(s, t) ==
    /\ page[s] # t /\ page' = [page EXCEPT ![s] = t]
    /\ UNCHANGED <<board, rows, versions, lastJobs, items, told, poll, moment>>

BoardChanges(s, j) ==
    /\ board' = [board EXCEPT ![s] = IF j \in @ THEN @ \ {j} ELSE @ \cup {j}]
    /\ UNCHANGED <<page, rows, versions, lastJobs, items, told, poll, moment>>

deleteSource(s) ==
    /\ ~removed[s] /\ removed' = [removed EXCEPT ![s] = TRUE]
    /\ UNCHANGED <<site, status, failures, versions, lastJobs, items, told, poll, moment>>

\* A pack file no longer names the source, or names it again.
pauseUnlistedSources(s) ==
    /\ status[s] = "active" /\ ~removed[s]
    /\ status' = [status EXCEPT ![s] = "paused"]
    /\ UNCHANGED <<site, failures, removed, versions, lastJobs, items, told, poll, moment>>

ensurePackSource(s) ==
    /\ status[s] = "paused" /\ ~removed[s]
    /\ status' = [status EXCEPT ![s] = "active"]
    /\ UNCHANGED <<site, failures, removed, versions, lastJobs, items, told, poll, moment>>

-----------------------------------------------------------------------------
(* A poll *)

\* The source is listed as active when the job runs; what it remembers is read
\* with it.
BeginPoll(s) ==
    /\ poll[s].op = "none" /\ status[s] = "active" /\ ~removed[s] /\ moment < MaxPolls
    /\ moment' = moment + 1
    /\ poll' = [poll EXCEPT ![s] = [NoPoll EXCEPT
           !.op = "read", !.at = moment + 1, !.failures = failures[s],
           !.before = IF s \in Pages THEN latestVersion(s) ELSE lastJobs[s]]]
    /\ UNCHANGED <<site, rows, versions, lastJobs, items, told>>

Unchanged(s) == s \in Pages /\ {page[s]} = poll[s].before

Read(s) ==
    /\ poll[s].op = "read"
    /\ poll' = [poll EXCEPT ![s].op = IF Unchanged(s) THEN "success" ELSE "store",
                            ![s].found = IF s \in Pages THEN {page[s]} ELSE board[s]]
    /\ UNCHANGED <<site, rows, versions, lastJobs, items, told, moment>>

\* The site cannot be read, or the database does not store what was read.
CollectFails(s) ==
    /\ poll[s].op \in {"read", "store", "remember", "success"}
    /\ poll' = [poll EXCEPT ![s].op = "failure"]
    /\ UNCHANGED <<site, rows, versions, lastJobs, items, told, moment>>

\* Mutant: a version already stored keeps the moment it was first seen.
KeepVersion(s, t) ==
    [versions EXCEPT ![s][t] = IF @ = 0 THEN poll[s].at ELSE @]

\* A text seen before is refreshed, so it is the latest again.
upsertVersion(s, t) == [versions EXCEPT ![s][t] = poll[s].at]

\* Mutant: one version too many is kept.
pruneOneLess(fetched) ==
    [t \in Texts |-> IF Cardinality({u \in Texts : fetched[u] > fetched[t]}) <= MaxVersions
                     THEN fetched[t] ELSE 0]

\* All but the newest versions go.
pruneVersions(fetched) ==
    [t \in Texts |-> IF Cardinality({u \in Texts : fetched[u] > fetched[t]}) < MaxVersions
                     THEN fetched[t] ELSE 0]

Item(s, kind, x, at) == [source |-> s, kind |-> kind, of |-> x, at |-> at]

recordPageBaseline(s) ==
    /\ s \in Pages /\ poll[s].op = "store" /\ poll[s].before = {}
    /\ \E t \in poll[s].found : versions' = upsertVersion(s, t)
    /\ told' = [told EXCEPT ![s] = poll[s].found]
    /\ poll' = [poll EXCEPT ![s].op = "success"]
    /\ UNCHANGED <<site, rows, lastJobs, items, moment>>

\* The version and the item of the change are one transaction.  Only what was
\* told before can be told apart from it: the item says what changed since.
recordPageChange(s) ==
    /\ s \in Pages /\ poll[s].op = "store" /\ poll[s].before # {}
    /\ \E t \in poll[s].found :
           /\ versions' = [upsertVersion(s, t) EXCEPT ![s] = pruneVersions(@)]
           /\ items' = items \cup {Item(s, "change", t, poll[s].at)}
           /\ told' = [told EXCEPT ![s] = IF @ = poll[s].before THEN {t} ELSE {}]
    /\ poll' = [poll EXCEPT ![s].op = "success"]
    /\ UNCHANGED <<site, rows, lastJobs, moment>>

\* Mutant: nothing is stored of a posting that is gone.
OpeningsOnly(s) == {Item(s, "open", j, 0) : j \in poll[s].found}

\* An opening is the same item at every poll, and stored once; a closing is an
\* item of its day.
BoardItems(s) ==
    {Item(s, "open", j, 0) : j \in poll[s].found}
        \cup {Item(s, "closed", j, poll[s].at) : j \in poll[s].before \ poll[s].found}

recordPolledItems(s) ==
    /\ s \in Boards /\ poll[s].op = "store"
    /\ items' = items \cup BoardItems(s)
    /\ poll' = [poll EXCEPT ![s].op = "remember"]
    /\ UNCHANGED <<site, rows, versions, lastJobs, told, moment>>

updateSourceConfig(s) ==
    /\ poll[s].op = "remember"
    /\ lastJobs' = [lastJobs EXCEPT ![s] = poll[s].found]
    /\ poll' = [poll EXCEPT ![s].op = "success"]
    /\ UNCHANGED <<site, rows, versions, items, told, moment>>

\* Whatever became of the source meanwhile, it is active.
recordPollSuccess(s) ==
    /\ poll[s].op = "success"
    /\ status' = [status EXCEPT ![s] = "active"]
    /\ failures' = [failures EXCEPT ![s] = 0]
    /\ poll' = [poll EXCEPT ![s] = NoPoll]
    /\ UNCHANGED <<site, removed, versions, lastJobs, items, told, moment>>

hasFailedTooOften(n) == n >= FailuresBeforeBroken

\* Whether it is broken is told from the failures read with the source, the new
\* count from those the row has now.
recordPollFailure(s) ==
    /\ poll[s].op = "failure"
    /\ status' = [status EXCEPT ![s] = IF hasFailedTooOften(poll[s].failures + 1) THEN "broken" ELSE "active"]
    /\ failures' = [failures EXCEPT ![s] = @ + 1]
    /\ poll' = [poll EXCEPT ![s] = NoPoll]
    /\ UNCHANGED <<site, removed, versions, lastJobs, items, told, moment>>

\* The worker dies, or the database goes away: the queue runs the job again,
\* from the beginning.
PollDies(s) ==
    /\ poll[s].op # "none"
    /\ poll' = [poll EXCEPT ![s] = NoPoll]
    /\ UNCHANGED <<site, rows, versions, lastJobs, items, told, moment>>

PollStep(s) ==
    \/ Read(s) \/ CollectFails(s)
    \/ recordPageBaseline(s) \/ recordPageChange(s)
    \/ recordPolledItems(s) \/ updateSourceConfig(s)
    \/ recordPollSuccess(s) \/ recordPollFailure(s)

SourcesNext ==
    \/ \E s \in Pages, t \in Texts : PageChanges(s, t)
    \/ \E s \in Boards, j \in Postings : BoardChanges(s, j)
    \/ \E s \in AllSources :
           \/ deleteSource(s) \/ pauseUnlistedSources(s) \/ ensurePackSource(s)
           \/ BeginPoll(s) \/ PollStep(s) \/ PollDies(s)

SourcesSpec == SourcesInit /\ [][SourcesNext]_sourcesVars

-----------------------------------------------------------------------------
(* Properties *)

\* The latest version of a page is what its changes, one after another, have
\* told: no snapshot without its item, no change told twice or from a text
\* nobody was told of, through pages that come back to an earlier text, pruned
\* versions and polls that die (page-versions.ts:8).
LatestIsTold == \A s \in Pages : latestVersion(s) = told[s]

\* A posting leaves the memory of a board only when its closing is stored, so a
\* poll that dies half way tells it at the next one (poll-source.ts:214).
ClosingsTold ==
    [][\A s \in Boards : \A j \in lastJobs[s] \ lastJobs'[s] :
           Item(s, "closed", j, poll[s].at) \in items]_sourcesVars

\* A source is set aside exactly when it has failed too often in a row, though
\* the decision and the count come from two reads of the row and the source may
\* be paused in between (poll-source.ts:233, record-poll.ts:170).
SetAside ==
    \A s \in AllSources : (status[s] = "broken") = (failures[s] >= FailuresBeforeBroken)

=============================================================================
