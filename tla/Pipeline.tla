------------------------------ MODULE Pipeline ------------------------------
(***************************************************************************)
(* The cascade that turns fetched material into events with checked facts: *)
(* embedding, selection, extraction, and the digest an urgent event gets   *)
(* of its own (packages/pipeline, apps/worker/src/jobs/pipeline.ts,        *)
(* steps.ts and the first run of jobs/onboarding.ts).                      *)
(*                                                                         *)
(* One tenant with one profile.  A run is who carries the cascade: the     *)
(* jobs of the queue, or the first run that calls the same steps inline.   *)
(***************************************************************************)
EXTENDS Integers, FiniteSets

CONSTANTS
    Items,          \* articles and changes a source may bring
    Diffs,          \* page changes and jobs of a watched target (priority 0)
    Undated,        \* articles whose source gives no publication date
    Blank,          \* material that no chunk can be cut from
    Story,          \* which story each item tells
    EmbedLimit,     \* items embedded in one go
    MaxModelCalls, DiffReserve,     \* the two daily budgets of a profile
    SelectionDays, RejectionDays, RetentionDays, ClusterDays, PendingDays,
    MaxDay,         \* bound on the days that pass
    MaxFaults       \* bound on steps that die, model outages and reached cost caps

Days == 1 .. MaxDay
Runs == {"job", "first"}            \* the jobs of the queue, and the first run
Steps == {"embed", "select", "extract"}
Ids == Items \X Runs \X Days        \* an event: its item, who made it, when
Reasons == {"free", "model_rejected", "no_verified_quote"}

\* SELECTION_WINDOW_DAYS and REJECTION_RETENTION_DAYS are both fourteen, the
\* shortest retention of a plan is thirty.
ASSUME PipelineAssumption ==
    /\ IsFiniteSet(Items) /\ Diffs \subseteq Items /\ Undated \subseteq Items /\ Blank \subseteq Items
    /\ Story \in [Items -> Items]
    /\ EmbedLimit \in Nat \ {0} /\ MaxModelCalls \in Nat /\ DiffReserve \in Nat
    /\ SelectionDays \in Nat /\ RejectionDays \in Nat /\ SelectionDays <= RejectionDays
    /\ ClusterDays \in Nat /\ PendingDays \in Nat /\ MaxDay \in Nat \ {0}
    /\ RetentionDays \in Nat /\ SelectionDays + PendingDays < RetentionDays
    /\ MaxFaults \in Nat

VARIABLES
    day,
    raw,         \* raw_items: absent, stored, or embedded once it has chunks
    fetched,     \* fetched_at ...
    published,   \* ... and published_at, by day
    events,      \* events: the rows
    written,     \* ... those with facts
    urgent,      \* ... those marked urgent
    links,       \* event_items
    rejections,  \* rejections: item, reason, day
    due,         \* steps each run has before it: for "job", what waits in the queue
    retrying,    \* jobs that died and will be run again
    firstRun,    \* history: a first run was queued for the profile
    handOver,    \* a poll has stored items and not yet queued their embedding
    embedding, selecting, extracting,   \* what each run is in the middle of
    ownDigest,   \* urgent events that got a digest of their own
    judged,      \* history: verdicts given on each item
    faults

material == <<raw, fetched, published>>
verdicts == <<events, written, urgent, links, rejections>>
history == <<ownDigest, judged, firstRun>>
running == <<embedding, selecting, extracting>>
pipelineVars == <<day, material, verdicts, due, retrying, handOver, running, history, faults>>

\* A step dies, the model is unavailable, or the cost cap is reached.
Fault == faults < MaxFaults /\ faults' = faults + 1

NoEmbedding == [on |-> FALSE, batch |-> {}, hasMore |-> FALSE]
NoSelecting == [op |-> "idle", since |-> 0, todo |-> {}, kept |-> {}, budget |-> 0, reserve |-> 0,
                used |-> 0, made |-> FALSE]
NoExtracting == [op |-> "idle", todo |-> {}, tell |-> {}]

PipelineTypeOK ==
    /\ day \in Days
    /\ raw \in [Items -> {"absent", "stored", "embedded"}]
    /\ fetched \in [Items -> 0 .. MaxDay] /\ published \in [Items -> 0 .. MaxDay]
    /\ events \subseteq Ids /\ written \subseteq events /\ urgent \subseteq Ids
    /\ links \subseteq Ids \X Items
    /\ rejections \subseteq Items \X Reasons \X Days
    /\ due \in [Runs -> SUBSET Steps] /\ retrying \subseteq Steps /\ handOver \in BOOLEAN /\ firstRun \in BOOLEAN
    /\ embedding \in [Runs -> [on: BOOLEAN, batch: SUBSET Items, hasMore: BOOLEAN]]
    /\ selecting \in [Runs -> [op: {"idle", "screen", "judge"}, since: 0 .. MaxDay,
                               todo: SUBSET Items, kept: SUBSET Items, budget: Int,
                               reserve: Nat, used: Nat, made: BOOLEAN]]
    /\ extracting \in [Runs -> [op: {"idle", "write", "tell"}, todo: SUBSET Ids, tell: SUBSET Ids]]
    /\ ownDigest \subseteq Ids /\ judged \in [Items -> Nat]
    /\ faults \in Nat

PipelineInit ==
    /\ day = 1
    /\ raw = [i \in Items |-> "absent"]
    /\ fetched = [i \in Items |-> 0] /\ published = [i \in Items |-> 0]
    /\ events = {} /\ written = {} /\ urgent = {} /\ links = {} /\ rejections = {}
    /\ firstRun \in BOOLEAN
    /\ due = [p \in Runs |-> IF p = "first" /\ firstRun THEN {"embed"} ELSE {}]
    /\ retrying = {} /\ handOver = FALSE
    /\ embedding = [p \in Runs |-> NoEmbedding]
    /\ selecting = [p \in Runs |-> NoSelecting]
    /\ extracting = [p \in Runs |-> NoExtracting]
    /\ ownDigest = {} /\ judged = [i \in Items |-> 0]
    /\ faults = 0

-----------------------------------------------------------------------------
(* The hand-over from polling, the queue and the calendar *)

\* A poll stores what its source lists and the table does not hold: the index
\* on the content refuses the rest.  A page change is stored once, an article
\* whose row retention has deleted may come again.
StoreItems(new) ==
    /\ new # {} /\ \A i \in new : raw[i] = "absent" /\ (i \in Diffs => fetched[i] = 0)
    /\ raw' = [i \in Items |-> IF i \in new THEN "stored" ELSE raw[i]]
    /\ fetched' = [i \in Items |-> IF i \in new THEN day ELSE fetched[i]]
    /\ published' = [i \in Items |-> IF i \in new /\ published[i] = 0 THEN day ELSE published[i]]
    /\ handOver' = TRUE
    /\ UNCHANGED <<day, verdicts, due, retrying, running, history, faults>>

\* A send to a stately queue does nothing when the job already waits.
After(p, step) == due' = [due EXCEPT ![p] = @ \cup {step}]

QueueEmbed ==
    /\ handOver /\ handOver' = FALSE
    /\ After("job", "embed")
    /\ UNCHANGED <<day, material, verdicts, retrying, running, history, faults>>

\* Run again, the poll finds only duplicates and queues nothing.
PollerDies ==
    /\ handOver /\ Fault
    /\ handOver' = FALSE
    /\ UNCHANGED <<day, material, verdicts, due, retrying, running, history>>

\* The worker takes a job, waiting or to be retried.
Take(p, step) ==
    \/ /\ step \in due[p]
       /\ due' = [due EXCEPT ![p] = @ \ {step}]
       /\ UNCHANGED retrying
    \/ /\ p = "job" /\ step \in retrying
       /\ retrying' = retrying \ {step}
       /\ UNCHANGED due

\* A job that dies is retried by the queue; the first run is not.
Fail(p, step) ==
    /\ retrying' = IF p = "job" THEN retrying \cup {step} ELSE retrying
    /\ UNCHANGED due

\* A step takes minutes: one midnight at most passes while it selects.
NextDay ==
    /\ day < MaxDay
    /\ \A p \in Runs :
           /\ ~embedding[p].on /\ extracting[p].op = "idle"
           /\ selecting[p].op # "idle" => selecting[p].since = day
    /\ day' = day + 1
    /\ UNCHANGED <<material, verdicts, due, retrying, handOver, running, history, faults>>

pruneRejections ==
    LET old == {r \in rejections : r[3] + RejectionDays < day}
    IN  /\ old # {}
        /\ rejections' = rejections \ old
        /\ UNCHANGED <<day, material, events, written, urgent, links, due, retrying, handOver, running,
                       history, faults>>

\* The rows go with their chunks; events stay and lose their link.
pruneExpiredMaterial ==
    LET old == {i \in Items : raw[i] # "absent" /\ fetched[i] + RetentionDays < day}
    IN  /\ old # {}
        /\ raw' = [i \in Items |-> IF i \in old THEN "absent" ELSE raw[i]]
        /\ links' = {l \in links : l[2] \notin old}
        /\ rejections' = {r \in rejections : r[1] \notin old}
        /\ UNCHANGED <<day, fetched, published, events, written, urgent, due, retrying, handOver, running,
                       history, faults>>

-----------------------------------------------------------------------------
(* Embedding *)

Waiting == {i \in Items : raw[i] = "stored"}

\* The batch is the items fetched first.
OldestFirst(batch) == \A i \in batch, j \in Waiting \ batch : fetched[i] <= fetched[j]

BeginEmbed(p, batch) ==
    /\ ~embedding[p].on /\ Take(p, "embed")
    /\ batch \subseteq Waiting /\ OldestFirst(batch)
    /\ Cardinality(batch) = IF Cardinality(Waiting) <= EmbedLimit THEN Cardinality(Waiting) ELSE EmbedLimit
    /\ embedding' = [embedding EXCEPT ![p] =
           [on |-> TRUE, batch |-> batch, hasMore |-> Cardinality(Waiting) > EmbedLimit]]
    /\ UNCHANGED <<day, material, verdicts, handOver, selecting, extracting, history, faults>>

\* Mutant: the job ends without looking whether there is more.
NeverMore(p) == FALSE

\* A batch that plans no chunks reports that nothing is left.
HasMore(p) == embedding[p].hasMore /\ embedding[p].batch \ Blank # {}

\* The chunks are written in one transaction; then the next batch, or selection.
FinishEmbed(p) ==
    /\ embedding[p].on
    /\ \A i \in embedding[p].batch \ Blank : raw[i] # "embedded"
    /\ raw' = [i \in Items |->
           IF i \in embedding[p].batch \ Blank /\ raw[i] = "stored" THEN "embedded" ELSE raw[i]]
    /\ embedding' = [embedding EXCEPT ![p] = NoEmbedding]
    /\ After(p, IF HasMore(p) THEN "embed" ELSE "select")
    /\ UNCHANGED <<day, fetched, published, verdicts, retrying, handOver, selecting, extracting, history,
                   faults>>

\* The other run has embedded one of these items: the index on (item, ordinal)
\* refuses the whole transaction, and the job fails.
EmbedConflict(p) ==
    /\ embedding[p].on /\ \E i \in embedding[p].batch \ Blank : raw[i] = "embedded"
    /\ embedding' = [embedding EXCEPT ![p] = NoEmbedding]
    /\ Fail(p, "embed")
    /\ UNCHANGED <<day, material, verdicts, handOver, selecting, extracting, history, faults>>

-----------------------------------------------------------------------------
(* Selection *)

\* Mutant: an article is judged however old it is.
AnyAge(i) == TRUE

\* Fetched, and published where that is known, within the window.
Recent(i) ==
    /\ fetched[i] + SelectionDays >= day
    /\ i \notin Undated => published[i] + SelectionDays >= day

\* Mutant: what was rejected is judged again.
EvenRejected == {i \in Items : raw[i] = "embedded" /\ Recent(i) /\ ~\E l \in links : l[2] = i}

\* Embedded, recent, and with no verdict of this profile.
findOwnCandidates ==
    {i \in Items :
        /\ raw[i] = "embedded" /\ Recent(i)
        /\ ~\E l \in links : l[2] = i
        /\ ~\E r \in rejections : r[1] = i}

BeginSelect(p) ==
    /\ selecting[p].op = "idle" /\ Take(p, "select")
    /\ selecting' = [selecting EXCEPT ![p] =
           [NoSelecting EXCEPT !.op = "screen", !.since = day, !.todo = findOwnCandidates]]
    /\ UNCHANGED <<day, material, verdicts, handOver, embedding, extracting, history, faults>>

Judged(i) == judged' = [judged EXCEPT ![i] = @ + 1]

\* applyFreeSteps: the stopword may stop anything, the cosine everything but diffs.
ScreenKeeps(p, i) ==
    /\ selecting[p].op = "screen" /\ i \in selecting[p].todo
    /\ selecting' = [selecting EXCEPT ![p].todo = @ \ {i}, ![p].kept = @ \cup {i}]
    /\ UNCHANGED <<day, material, verdicts, due, retrying, handOver, embedding, extracting, history,
                   faults>>

ScreenRejects(p, i) ==
    /\ selecting[p].op = "screen" /\ i \in selecting[p].todo
    /\ selecting' = [selecting EXCEPT ![p].todo = @ \ {i}]
    /\ rejections' = rejections \cup {<<i, "free", day>>}
    /\ Judged(i)
    /\ UNCHANGED <<day, material, events, written, urgent, links, due, retrying, handOver, embedding,
                   extracting, ownDigest, firstRun, faults>>

\* Decisions of the model standing since the run's day began.
Decisions(p, among) ==
      Cardinality({e \in events : e[3] >= selecting[p].since /\ e[1] \in among})
    + Cardinality({r \in rejections : r[2] = "model_rejected" /\ r[3] >= selecting[p].since /\ r[1] \in among})

CountBudgets(p) ==
    /\ selecting[p].op = "screen" /\ selecting[p].todo = {}
    /\ selecting' = [selecting EXCEPT ![p].op = "judge", ![p].todo = selecting[p].kept, ![p].kept = {},
           ![p].budget = MaxModelCalls - Decisions(p, Items),
           ![p].reserve = IF Decisions(p, Diffs) < DiffReserve THEN DiffReserve - Decisions(p, Diffs) ELSE 0]
    /\ UNCHANGED <<day, material, verdicts, due, retrying, handOver, embedding, extracting, history,
                   faults>>

\* What is left for an item: the reserve of the diffs is not used up in a run.
remainingForItem(p, i) ==
    IF i \in Diffs THEN selecting[p].reserve ELSE selecting[p].budget - selecting[p].used

\* The items are taken by priority.
NextUp(p, i) ==
    /\ selecting[p].op = "judge" /\ i \in selecting[p].todo
    /\ i \notin Diffs => selecting[p].todo \cap Diffs = {}

Defer(p, i) ==
    /\ NextUp(p, i) /\ remainingForItem(p, i) <= 0
    /\ selecting' = [selecting EXCEPT ![p].todo = @ \ {i}]
    /\ UNCHANGED <<day, material, verdicts, due, retrying, handOver, embedding, extracting, history,
                   faults>>

\* judgeOne and createEvent: the event and its link are one transaction.
JudgeEvent(p, i, isUrgent) ==
    LET e == <<i, p, day>>
    IN  /\ NextUp(p, i) /\ remainingForItem(p, i) > 0 /\ raw[i] # "absent"
        /\ selecting' = [selecting EXCEPT ![p].todo = @ \ {i}, ![p].used = @ + 1, ![p].made = TRUE]
        /\ events' = events \cup {e}
        /\ links' = links \cup {<<e, i>>}
        /\ urgent' = IF isUrgent THEN urgent \cup {e} ELSE urgent
        /\ Judged(i)
        /\ UNCHANGED <<day, material, written, rejections, due, retrying, handOver, embedding, extracting,
                       ownDigest, firstRun, faults>>

\* A verdict of the model, or an answer nobody can use: the latter is not
\* counted against the budget of the run.
JudgeRejects(p, i, usable) ==
    /\ NextUp(p, i) /\ remainingForItem(p, i) > 0 /\ raw[i] # "absent"
    /\ selecting' = [selecting EXCEPT ![p].todo = @ \ {i}, ![p].used = IF usable THEN @ + 1 ELSE @]
    /\ rejections' = rejections \cup {<<i, "model_rejected", day>>}
    /\ Judged(i)
    /\ UNCHANGED <<day, material, events, written, urgent, links, due, retrying, handOver, embedding,
                   extracting, ownDigest, firstRun, faults>>

\* The cost cap is reached or the model is unavailable: the rest is deferred.
StopSelect(p) ==
    /\ selecting[p].op = "judge" /\ Fault
    /\ \E i \in selecting[p].todo : NextUp(p, i) /\ remainingForItem(p, i) > 0
    /\ selecting' = [selecting EXCEPT ![p].todo = {}]
    /\ UNCHANGED <<day, material, verdicts, due, retrying, handOver, embedding, extracting, history>>

\* Mutant: one event is not worth a job.
MadeSeveral(p) == p = "first" \/ selecting[p].used > 1

\* The queue goes on only when this run made events; the first run always does.
GoesOn(p) == p = "first" \/ selecting[p].made

FinishSelect(p) ==
    /\ selecting[p].op = "judge" /\ selecting[p].todo = {}
    /\ selecting' = [selecting EXCEPT ![p] = NoSelecting]
    /\ IF GoesOn(p) THEN After(p, "extract") ELSE UNCHANGED due
    /\ UNCHANGED <<day, material, verdicts, retrying, handOver, embedding, extracting, history, faults>>

-----------------------------------------------------------------------------
(* Extraction *)

HasRaw(e) == <<e, e[1]>> \in links

\* Mutant: events with facts are written up again.
WithFactsToo == {e \in events : e[3] + PendingDays >= day /\ HasRaw(e)}

findPendingEvents ==
    {e \in events \ written : e[3] + PendingDays >= day /\ HasRaw(e)}

BeginExtract(p) ==
    /\ extracting[p].op = "idle" /\ Take(p, "extract")
    /\ extracting' = [extracting EXCEPT ![p] = [NoExtracting EXCEPT !.op = "write", !.todo = findPendingEvents]]
    /\ UNCHANGED <<day, material, verdicts, handOver, embedding, selecting, history, faults>>

\* The events e may join: the same story, written up, not too old, still comparable.
Anchors(e) ==
    {a \in written \ {e} : Story[a[1]] = Story[e[1]] /\ a[3] + ClusterDays >= e[3] /\ HasRaw(a)}

\* Oldest first.
NextToWrite(p, e) ==
    /\ extracting[p].op = "write" /\ e \in extracting[p].todo
    /\ \A f \in extracting[p].todo : e[3] <= f[3]

Without(e) ==
    /\ events' = events \ {e}
    /\ written' = written \ {e}

Merge(p, e, a) ==
    /\ NextToWrite(p, e) /\ raw[e[1]] = "embedded" /\ a \in Anchors(e)
    /\ extracting' = [extracting EXCEPT ![p].todo = @ \ {e}]
    /\ links' = {l \in links : l[1] # e} \cup {<<a, e[1]>>}
    /\ urgent' = IF e \in urgent THEN urgent \cup {a} ELSE urgent
    /\ Without(e)
    /\ UNCHANGED <<day, material, rejections, due, retrying, handOver, embedding, selecting, history,
                   faults>>

\* Mutant: the facts of an event that is gone are written.
GoneOrNot(e) == TRUE

StillEvent(e) == e \in events

WriteUp(p, e) ==
    /\ NextToWrite(p, e) /\ Anchors(e) = {} /\ StillEvent(e)
    /\ extracting' = [extracting EXCEPT ![p].todo = @ \ {e},
           ![p].tell = IF e \in urgent THEN @ \cup {e} ELSE @]
    /\ written' = written \cup {e}
    /\ UNCHANGED <<day, material, events, urgent, links, rejections, due, retrying, handOver, embedding,
                   selecting, history, faults>>

\* No quote of the answer is in the text, or no answer can be used.
dropEvent(p, e, why) ==
    /\ NextToWrite(p, e) /\ Anchors(e) = {}
    /\ e[1] \in Diffs => why = "no_verified_quote"
    /\ extracting' = [extracting EXCEPT ![p].todo = @ \ {e}]
    /\ links' = {l \in links : l[1] # e}
    /\ rejections' = rejections \cup {<<e[1], why, day>>}
    /\ Without(e)
    /\ UNCHANGED <<day, material, urgent, due, retrying, handOver, embedding, selecting, history,
                   faults>>

\* The cap or an outage: what was written is kept, and nothing asks for the rest.
StopExtract(p) ==
    /\ Fault
    /\ \E e \in extracting[p].todo : NextToWrite(p, e) /\ e[1] \notin Diffs /\ Anchors(e) = {}
    /\ extracting' = [extracting EXCEPT ![p].todo = {}]
    /\ UNCHANGED <<day, material, verdicts, due, retrying, handOver, embedding, selecting, history>>

\* The other run has deleted the event, and its facts are refused: the write of a
\* change takes the step down, any other looks like an outage.
EventGone(p, e) ==
    /\ NextToWrite(p, e) /\ Anchors(e) = {} /\ ~StillEvent(e)
    /\ IF e[1] \in Diffs
       THEN /\ extracting' = [extracting EXCEPT ![p] = NoExtracting]
            /\ Fail(p, "extract")
       ELSE /\ extracting' = [extracting EXCEPT ![p].todo = {}]
            /\ UNCHANGED <<due, retrying>>
    /\ UNCHANGED <<day, material, verdicts, handOver, embedding, selecting, history, faults>>

EndWriting(p) ==
    /\ extracting[p].op = "write" /\ extracting[p].todo = {}
    /\ extracting' = [extracting EXCEPT ![p].op = "tell", ![p].tell = IF p = "first" THEN {} ELSE @]
    /\ UNCHANGED <<day, material, verdicts, due, retrying, handOver, embedding, selecting, history,
                   faults>>

\* buildUrgentDigests: each urgent event just written up, if it still is there.
buildUrgentDigest(p, e) ==
    /\ extracting[p].op = "tell" /\ e \in extracting[p].tell
    /\ extracting' = [extracting EXCEPT ![p].tell = @ \ {e}]
    /\ ownDigest' = IF e \in written THEN ownDigest \cup {e} ELSE ownDigest
    /\ UNCHANGED <<day, material, verdicts, due, retrying, handOver, embedding, selecting, judged,
                   firstRun, faults>>

FinishExtract(p) ==
    /\ extracting[p].op = "tell" /\ extracting[p].tell = {}
    /\ extracting' = [extracting EXCEPT ![p] = NoExtracting]
    /\ UNCHANGED <<day, material, verdicts, due, retrying, handOver, embedding, selecting, history,
                   faults>>

\* A step dies where it stands.
StepDies(p) ==
    /\ Fault
    /\ \/ /\ embedding[p].on /\ Fail(p, "embed")
          /\ embedding' = [embedding EXCEPT ![p] = NoEmbedding]
          /\ UNCHANGED <<selecting, extracting>>
       \/ /\ selecting[p].op # "idle" /\ Fail(p, "select")
          /\ selecting' = [selecting EXCEPT ![p] = NoSelecting]
          /\ UNCHANGED <<embedding, extracting>>
       \/ /\ extracting[p].op # "idle" /\ Fail(p, "extract")
          /\ extracting' = [extracting EXCEPT ![p] = NoExtracting]
          /\ UNCHANGED <<embedding, selecting>>
    /\ UNCHANGED <<day, material, verdicts, handOver, history>>

-----------------------------------------------------------------------------
EmbedStep(p) ==
    \/ \E batch \in SUBSET Items : BeginEmbed(p, batch)
    \/ FinishEmbed(p) \/ EmbedConflict(p)

SelectStep(p) ==
    \/ BeginSelect(p) \/ CountBudgets(p) \/ StopSelect(p) \/ FinishSelect(p)
    \/ \E i \in Items :
           \/ ScreenKeeps(p, i) \/ Defer(p, i)
           \/ ScreenRejects(p, i)
           \/ \E b \in BOOLEAN : JudgeEvent(p, i, b) \/ JudgeRejects(p, i, b)

ExtractStep(p) ==
    \/ BeginExtract(p) \/ StopExtract(p) \/ EndWriting(p) \/ FinishExtract(p)
    \/ \E e \in extracting[p].todo :
           \/ \E a \in written : Merge(p, e, a)
           \/ WriteUp(p, e) \/ EventGone(p, e)
           \/ \E why \in {"no_verified_quote", "model_rejected"} : dropEvent(p, e, why)
    \/ \E e \in extracting[p].tell : buildUrgentDigest(p, e)

PipelineNext ==
    \/ \E new \in SUBSET Items : StoreItems(new)
    \/ QueueEmbed \/ PollerDies
    \/ NextDay \/ pruneRejections \/ pruneExpiredMaterial
    \/ \E p \in Runs : EmbedStep(p) \/ SelectStep(p) \/ ExtractStep(p) \/ StepDies(p)

\* A poll that has stored items goes on, the worker takes its jobs and carries
\* each step to an end.  Nothing makes material arrive or a day pass, and
\* nothing here depends on the first run.
PipelineFairness ==
    /\ WF_pipelineVars(QueueEmbed)
    /\ WF_pipelineVars(EmbedStep("job"))
    /\ WF_pipelineVars(SelectStep("job"))
    /\ WF_pipelineVars(ExtractStep("job"))

PipelineSpec == PipelineInit /\ [][PipelineNext]_pipelineVars /\ PipelineFairness

-----------------------------------------------------------------------------
(* Properties *)

\* An article gets one verdict of the profile, whatever is pruned and fetched
\* again meanwhile: rejections are forgotten, and so are rows, but never while
\* the article is still young enough to be judged (select.ts:106).
JudgedOnce == ~firstRun => \A i \in Items \ Undated : judged[i] <= 1

\* The verdict is one: an item is rejected or belongs to one event, never both
\* and never two (select.ts:544).
OneVerdict ==
    ~firstRun => \A i \in Items :
        /\ Cardinality({l \in links : l[2] = i}) <= 1
        /\ (\E l \in links : l[2] = i) => ~\E r \in rejections : r[1] = i

\* An event that has been written up is never deleted, so what was merged into
\* it stays told (cluster.ts:61).
StoriesKept == [][~firstRun => written \subseteq written']_pipelineVars

\* Material whose embedding is queued is embedded, through batches, deaths of
\* the job and the first run beside it (embed.ts:29).
QueuedIsEmbedded ==
    \A i \in Items \ Blank :
        (raw[i] = "stored" /\ "embed" \in due["job"]) ~> raw[i] # "stored"

\* When no process dies and the model answers, every event is written up, merged
\* or dropped before it is too old (extract.ts:76).
EventsWrittenUp ==
    [](faults = 0 /\ ~firstRun) =>
        []<>(\A e \in events \ written : e[3] + PendingDays < day)

=============================================================================
