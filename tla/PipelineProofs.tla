--------------------------- MODULE PipelineProofs ---------------------------
(***************************************************************************)
(* What TLAPS proves of Pipeline for any items, stories, budgets, windows, *)
(* retention and number of faults: without a first run beside the jobs an  *)
(* item is judged once, has one verdict, and what was written up stays.    *)
(***************************************************************************)
EXTENDS Pipeline, FiniteSetTheorems, TLAPS

-----------------------------------------------------------------------------
(* The inductive invariant *)

Linked(i) == \E l \in links : l[2] = i
Rejected(i) == \E r \in rejections : r[1] = i

\* Without a first run only the jobs of the queue work.
JobsAlone ==
    /\ due["first"] = {} /\ ~embedding["first"].on
    /\ selecting["first"].op = "idle" /\ extracting["first"].op = "idle"

\* A row is of an article published, then fetched.
RowsDated ==
    \A i \in Items :
        /\ published[i] <= day
        /\ raw[i] # "absent" => 1 <= published[i] /\ published[i] <= fetched[i] /\ fetched[i] <= day

\* A link is of an event to a row that is there; of an event without facts it is
\* to its own item, and an event is no older than the window and a midnight.
LinksSound ==
    \A l \in links :
        /\ l[1] \in events /\ raw[l[2]] # "absent"
        /\ l[1] \in written \/ l[2] = l[1][1]
        /\ l[2] = l[1][1] => l[1][3] <= fetched[l[2]] + SelectionDays + 1

OneLink == \A l, m \in links : l[2] = m[2] => l = m
NotBoth == \A l \in links, r \in rejections : l[2] # r[1]

RejectionsDated == \A r \in rejections : 1 <= published[r[1]] /\ published[r[1]] <= r[3]

\* What a selection has in hand is in the window and has no verdict.
InHand == selecting["job"].todo \cup selecting["job"].kept

SelectionSound ==
    /\ selecting["job"].op = "idle" => InHand = {}
    /\ selecting["job"].op # "idle" => selecting["job"].since <= day /\ day <= selecting["job"].since + 1
    /\ selecting["job"].todo \cap selecting["job"].kept = {}
    /\ \A i \in InHand :
           /\ raw[i] # "absent" /\ fetched[i] + SelectionDays >= selecting["job"].since
           /\ ~Linked(i) /\ ~Rejected(i)
           /\ i \notin Undated => judged[i] = 0

\* What an extraction has before it is there, without facts, and young enough.
ExtractionSound ==
    /\ extracting["job"].op # "write" => extracting["job"].todo = {}
    /\ \A e \in extracting["job"].todo :
           e \in events \ written /\ HasRaw(e) /\ e[3] + PendingDays >= day

\* What was judged has its verdict still, or is too old to be judged again.
VerdictStands ==
    \A i \in Items \ Undated :
        /\ judged[i] <= 1
        /\ judged[i] = 1 => /\ 1 <= published[i]
                            /\ Linked(i) \/ Rejected(i) \/ published[i] + SelectionDays < day

VerdictsSound ==
    /\ RowsDated /\ LinksSound /\ OneLink /\ NotBoth /\ RejectionsDated
    /\ SelectionSound /\ ExtractionSound /\ VerdictStands

PipelineInv == PipelineTypeOK /\ (~firstRun => JobsAlone /\ VerdictsSound)

Embedding == [on: BOOLEAN, batch: SUBSET Items, hasMore: BOOLEAN]
Selecting == [op: {"idle", "screen", "judge"}, since: 0 .. MaxDay, todo: SUBSET Items, kept: SUBSET Items,
              budget: Int, reserve: Nat, used: Nat, made: BOOLEAN]
Extracting == [op: {"idle", "write", "tell"}, todo: SUBSET Ids, tell: SUBSET Ids]

-----------------------------------------------------------------------------
(* Types *)

LEMMA RestTyped ==
    ASSUME PipelineAssumption
    PROVE  /\ NoEmbedding \in Embedding /\ ~NoEmbedding.on
           /\ NoSelecting \in Selecting /\ NoSelecting.op = "idle" /\ NoSelecting.todo = {} /\ NoSelecting.kept = {}
           /\ NoExtracting \in Extracting /\ NoExtracting.op = "idle" /\ NoExtracting.todo = {}
  BY DEF PipelineAssumption, NoEmbedding, NoSelecting, NoExtracting, Embedding, Selecting, Extracting

LEMMA TriplesFinite ==
    ASSUME NEW A, NEW B, NEW C, IsFiniteSet(A), IsFiniteSet(B), IsFiniteSet(C)
    PROVE  IsFiniteSet(A \X B \X C)
<1> DEFINE S == (A \X B) \X C
           T == A \X B \X C
           f == [x \in S |-> <<x[1][1], x[1][2], x[2]>>]
<1>1. IsFiniteSet(S)  BY FS_Product
<1>2. f \in [S -> T]  OBVIOUS
<1>3. \A t \in T : \E x \in S : f[x] = t
  <2> TAKE t \in T
  <2>1. <<<<t[1], t[2]>>, t[3]>> \in S /\ f[<<<<t[1], t[2]>>, t[3]>>] = t  OBVIOUS
  <2> QED  BY <2>1
<1>4. f \in Surjection(S, T)  BY <1>2, <1>3 DEF Surjection
<1> QED  BY <1>1, <1>4, FS_Surjection

\* Events and rejections are finitely many, so decisions can be counted.
LEMMA DecisionsCounted ==
    ASSUME PipelineAssumption, PipelineTypeOK, NEW p \in Runs, NEW S
    PROVE  Decisions(p, S) \in Nat
<1>1. IsFiniteSet(Days) /\ IsFiniteSet(Runs) /\ IsFiniteSet(Reasons)
  <2>1. IsFiniteSet(Days)  BY FS_Interval DEF Days, PipelineAssumption
  <2>2. IsFiniteSet({"job"}) /\ IsFiniteSet({"free"})  BY FS_Singleton
  <2>3. Runs = {"job"} \cup {"first"} /\ Reasons = ({"free"} \cup {"model_rejected"}) \cup {"no_verified_quote"}
    BY DEF Runs, Reasons
  <2> QED  BY <2>1, <2>2, <2>3, FS_AddElement
<1>2. IsFiniteSet(Items)  BY DEF PipelineAssumption
<1>3. IsFiniteSet(Ids) /\ IsFiniteSet(Items \X Reasons \X Days)  BY <1>1, <1>2, TriplesFinite DEF Ids
<1>4. IsFiniteSet(events) /\ IsFiniteSet(rejections)  BY <1>3, FS_Subset DEF PipelineTypeOK
<1> DEFINE E == {e \in events : e[3] >= selecting[p].since /\ e[1] \in S}
           R == {r \in rejections : r[2] = "model_rejected" /\ r[3] >= selecting[p].since /\ r[1] \in S}
<1>5. E \in SUBSET events /\ R \in SUBSET rejections  OBVIOUS
<1>6. Cardinality(E) \in Nat /\ Cardinality(R) \in Nat
  <2>1. IsFiniteSet(E) /\ IsFiniteSet(R)  BY <1>4, <1>5, FS_Subset
  <2> QED  BY <2>1, FS_CardinalityType
<1> QED  BY <1>6 DEF Decisions

LEMMA InitTypes == ASSUME PipelineAssumption, PipelineInit PROVE PipelineTypeOK
<1>1. 1 \in Days /\ day = 1  BY DEF PipelineInit, PipelineAssumption, Days
<1>2. /\ embedding \in [Runs -> Embedding] /\ selecting \in [Runs -> Selecting]
      /\ extracting \in [Runs -> Extracting]
  BY RestTyped DEF PipelineInit
<1>3. /\ raw \in [Items -> {"absent", "stored", "embedded"}] /\ judged \in [Items -> Nat]
      /\ fetched \in [Items -> 0 .. MaxDay] /\ published \in [Items -> 0 .. MaxDay]
      /\ due \in [Runs -> SUBSET Steps]
  BY DEF PipelineInit, PipelineAssumption, Steps
<1> QED  BY <1>1, <1>2, <1>3 DEF PipelineInit, PipelineTypeOK, Embedding, Selecting, Extracting

\* What stays is typed, so a step is looked at for what it changes.
Verdicts ==
    /\ events \subseteq Ids /\ written \subseteq events /\ urgent \subseteq Ids
    /\ links \subseteq Ids \X Items /\ rejections \subseteq Items \X Reasons \X Days
    /\ judged \in [Items -> Nat]

Queues ==
    /\ due \in [Runs -> SUBSET Steps] /\ retrying \subseteq Steps /\ handOver \in BOOLEAN
    /\ faults \in Nat

Rows ==
    /\ day \in Days /\ raw \in [Items -> {"absent", "stored", "embedded"}]
    /\ fetched \in [Items -> 0 .. MaxDay] /\ published \in [Items -> 0 .. MaxDay]

Works ==
    /\ embedding \in [Runs -> Embedding] /\ selecting \in [Runs -> Selecting]
    /\ extracting \in [Runs -> Extracting]

\* The queue, whatever step is taken, fails or follows.
LEMMA QueueMoves ==
    ASSUME Queues, NEW p \in Runs, NEW step \in Steps,
           \/ After(p, step) /\ UNCHANGED retrying
           \/ Take(p, step)
           \/ Fail(p, step)
           \/ UNCHANGED <<due, retrying>>,
           UNCHANGED handOver, UNCHANGED faults \/ Fault
    PROVE  Queues'
  BY DEF Queues, After, Take, Fail, Fault

Rest == firstRun \in BOOLEAN /\ ownDigest \subseteq Ids

LEMMA TypeParts == ASSUME PipelineTypeOK PROVE Verdicts /\ Queues /\ Rows /\ Works /\ Rest
  BY DEF PipelineTypeOK, Verdicts, Queues, Rows, Works, Rest, Embedding, Selecting, Extracting

LEMMA TypedAgain == ASSUME Verdicts', Queues', Rows', Works', Rest' PROVE PipelineTypeOK'
  BY DEF PipelineTypeOK, Verdicts, Queues, Rows, Works, Rest, Embedding, Selecting, Extracting

LEMMA FlowTypes ==
    ASSUME PipelineAssumption, PipelineTypeOK,
           \/ \E new \in SUBSET Items : StoreItems(new)
           \/ QueueEmbed \/ PollerDies \/ NextDay \/ pruneRejections \/ pruneExpiredMaterial
    PROVE  PipelineTypeOK'
<1> USE TypeParts, TypedAgain DEF history, running, verdicts, material
<1>1. CASE \E new \in SUBSET Items : StoreItems(new)
  <2>1. Rows'  BY <1>1 DEF StoreItems, Rows, Days
  <2> QED  BY <1>1, <2>1 DEF StoreItems, Verdicts, Queues, Works, Rest
<1>2. CASE QueueEmbed
  <2>1. Queues'  BY <1>2 DEF QueueEmbed, After, Runs, Steps, Queues
  <2> QED  BY <1>2, <2>1 DEF QueueEmbed, Verdicts, Rows, Works, Rest
<1>3. CASE PollerDies
  <2>1. faults' \in Nat  BY <1>3 DEF PollerDies, Fault, Queues
  <2>2. handOver' \in BOOLEAN  BY <1>3, Zenon DEF PollerDies
  <2>3. Queues'  BY <1>3, <2>1, <2>2 DEF PollerDies, Queues
  <2> QED  BY <1>3, <2>3 DEF PollerDies, Verdicts, Rows, Works, Rest
<1>4. CASE NextDay
  <2>1. Rows'  BY <1>4 DEF NextDay, Rows, Days, PipelineAssumption
  <2> QED  BY <1>4, <2>1 DEF NextDay, Verdicts, Queues, Works, Rest
<1>5. CASE pruneRejections
  <2>1. Verdicts'  BY <1>5 DEF pruneRejections, Verdicts
  <2> QED  BY <1>5, <2>1 DEF pruneRejections, Queues, Rows, Works, Rest
<1>6. CASE pruneExpiredMaterial
  <2>1. Verdicts'  BY <1>6 DEF pruneExpiredMaterial, Verdicts
  <2>2. Rows'  BY <1>6 DEF pruneExpiredMaterial, Rows
  <2> QED  BY <1>6, <2>1, <2>2 DEF pruneExpiredMaterial, Queues, Works, Rest
<1> QED  BY <1>1, <1>2, <1>3, <1>4, <1>5, <1>6

LEMMA EmbedTypes ==
    ASSUME PipelineAssumption, PipelineTypeOK, NEW p \in Runs, EmbedStep(p)
    PROVE  PipelineTypeOK'
<1> USE TypeParts, TypedAgain DEF history, verdicts, material
<1>1. ASSUME NEW batch \in SUBSET Items, BeginEmbed(p, batch) PROVE PipelineTypeOK'
  <2>1. Queues'  BY <1>1, QueueMoves DEF BeginEmbed, Steps, history
  <2>2. embedding' \in [Runs -> Embedding]  BY <1>1 DEF BeginEmbed, Works, Embedding
  <2> QED  BY <1>1, <2>1, <2>2 DEF BeginEmbed, Verdicts, Rows, Works, Rest
<1>2. CASE FinishEmbed(p)
  <2>1. Queues'  BY <1>2, QueueMoves DEF FinishEmbed, Steps
  <2>2. embedding' \in [Runs -> Embedding]  BY <1>2, RestTyped DEF FinishEmbed, Works
  <2>3. Rows'  BY <1>2 DEF FinishEmbed, Rows
  <2> QED  BY <1>2, <2>1, <2>2, <2>3 DEF FinishEmbed, Verdicts, Works, Rest
<1>3. CASE EmbedConflict(p)
  <2>1. Queues'  BY <1>3, QueueMoves DEF EmbedConflict, Steps
  <2>2. embedding' \in [Runs -> Embedding]  BY <1>3, RestTyped DEF EmbedConflict, Works
  <2> QED  BY <1>3, <2>1, <2>2 DEF EmbedConflict, Verdicts, Rows, Works, Rest
<1> QED  BY <1>1, <1>2, <1>3 DEF EmbedStep

LEMMA ScreenSelecting ==
    ASSUME PipelineAssumption, PipelineTypeOK, NEW p \in Runs,
           BeginSelect(p) \/ CountBudgets(p) \/ StopSelect(p) \/ FinishSelect(p)
    PROVE  selecting' \in [Runs -> Selecting]
<1>1. selecting \in [Runs -> Selecting] /\ selecting[p] \in Selecting  BY TypeParts DEF Works
<1>2. CASE BeginSelect(p)
  <2>1. day \in 0 .. MaxDay /\ findOwnCandidates \in SUBSET Items
    BY TypeParts DEF findOwnCandidates, Days, Rows, PipelineAssumption
  <2>2. [NoSelecting EXCEPT !.op = "screen", !.since = day, !.todo = findOwnCandidates] \in Selecting
    BY <2>1, RestTyped DEF Selecting
  <2> QED  BY <1>1, <1>2, <2>2 DEF BeginSelect
<1>3. CASE CountBudgets(p)
  <2>1. Decisions(p, Items) \in Nat /\ Decisions(p, Diffs) \in Nat  BY DecisionsCounted
  <2>2. PICK n \in Int : n = MaxModelCalls - Decisions(p, Items)  BY <2>1 DEF PipelineAssumption
  <2>3. PICK m \in Nat : m = IF Decisions(p, Diffs) < DiffReserve THEN DiffReserve - Decisions(p, Diffs) ELSE 0
    BY <2>1 DEF PipelineAssumption
  <2>4. selecting[p].kept \in SUBSET Items  BY <1>1 DEF Selecting
  <2>5. [selecting[p] EXCEPT !.op = "judge", !.todo = selecting[p].kept, !.kept = {}, !.budget = n, !.reserve = m]
            \in Selecting
    BY <1>1, <2>4 DEF Selecting
  <2>6. selecting' = [selecting EXCEPT ![p] =
            [selecting[p] EXCEPT !.op = "judge", !.todo = selecting[p].kept, !.kept = {}, !.budget = n, !.reserve = m]]
    BY <1>3, <2>2, <2>3 DEF CountBudgets
  <2> QED  BY <1>1, <2>5, <2>6
<1>4. CASE StopSelect(p)  BY <1>1, <1>4 DEF StopSelect, Selecting
<1>5. CASE FinishSelect(p)  BY <1>1, <1>5, RestTyped DEF FinishSelect
<1> QED  BY <1>2, <1>3, <1>4, <1>5

LEMMA ItemSelecting ==
    ASSUME PipelineTypeOK, NEW p \in Runs, NEW i \in Items, NEW b \in BOOLEAN,
           \/ ScreenKeeps(p, i) \/ Defer(p, i) \/ ScreenRejects(p, i)
           \/ JudgeEvent(p, i, b) \/ JudgeRejects(p, i, b)
    PROVE  selecting' \in [Runs -> Selecting]
<1>1. selecting \in [Runs -> Selecting] /\ selecting[p] \in Selecting  BY TypeParts DEF Works
<1>2. selecting[p].todo \ {i} \in SUBSET Items /\ selecting[p].used + 1 \in Nat  BY <1>1 DEF Selecting
<1>3. CASE ScreenKeeps(p, i) \/ Defer(p, i) \/ ScreenRejects(p, i)
  BY <1>1, <1>3 DEF ScreenKeeps, Defer, ScreenRejects, Selecting
<1>4. CASE JudgeEvent(p, i, b)
  <2>1. ASSUME NEW made \in BOOLEAN
        PROVE  [selecting[p] EXCEPT !.todo = selecting[p].todo \ {i}, !.used = selecting[p].used + 1, !.made = made]
                   \in Selecting
    BY <1>1, <1>2 DEF Selecting
  <2>2. selecting' = [selecting EXCEPT ![p] =
            [selecting[p] EXCEPT !.todo = selecting[p].todo \ {i}, !.used = selecting[p].used + 1, !.made = TRUE]]
    BY <1>4 DEF JudgeEvent
  <2> QED  BY <1>1, <2>1, <2>2
<1>5. CASE JudgeRejects(p, i, b)
  <2>1. ASSUME NEW n \in Nat
        PROVE  [selecting[p] EXCEPT !.todo = selecting[p].todo \ {i}, !.used = n] \in Selecting
    BY <1>1, <1>2 DEF Selecting
  <2>2. PICK n \in Nat : n = IF b THEN selecting[p].used + 1 ELSE selecting[p].used  BY <1>1, <1>2 DEF Selecting
  <2>3. selecting' = [selecting EXCEPT ![p] = [selecting[p] EXCEPT !.todo = selecting[p].todo \ {i}, !.used = n]]
    BY <1>5, <2>2 DEF JudgeRejects
  <2> QED  BY <1>1, <2>1, <2>3
<1> QED  BY <1>3, <1>4, <1>5

LEMMA SelectTypes ==
    ASSUME PipelineAssumption, PipelineTypeOK, NEW p \in Runs, SelectStep(p)
    PROVE  PipelineTypeOK'
<1> USE TypeParts, TypedAgain DEF history, verdicts, material
<1>1. CASE BeginSelect(p)
  <2>1. Queues'  BY <1>1, QueueMoves DEF BeginSelect, Steps
  <2> QED  BY <1>1, <2>1, ScreenSelecting DEF BeginSelect, Verdicts, Rows, Works, Rest
<1>2. CASE CountBudgets(p)  BY <1>2, ScreenSelecting DEF CountBudgets, Verdicts, Queues, Rows, Works, Rest
<1>3. CASE StopSelect(p)
  <2>1. faults' \in Nat  BY <1>3 DEF StopSelect, Fault, Queues
  <2>2. Queues'  BY <1>3, <2>1 DEF StopSelect, Queues
  <2> QED  BY <1>3, <2>2, ScreenSelecting DEF StopSelect, Verdicts, Rows, Works, Rest
<1>4. CASE FinishSelect(p)
  <2>1. Queues'  BY <1>4, QueueMoves DEF FinishSelect, Steps
  <2> QED  BY <1>4, <2>1, ScreenSelecting DEF FinishSelect, Verdicts, Rows, Works, Rest
<1>5. ASSUME NEW i \in Items, ScreenKeeps(p, i) \/ Defer(p, i) PROVE PipelineTypeOK'
  BY <1>5, ItemSelecting DEF ScreenKeeps, Defer, Verdicts, Queues, Rows, Works, Rest
<1>6. ASSUME NEW i \in Items, ScreenRejects(p, i) PROVE PipelineTypeOK'
  <2>1. Verdicts'  BY <1>6 DEF ScreenRejects, Reasons, Judged, Verdicts, Rows
  <2> QED  BY <1>6, <2>1, ItemSelecting DEF ScreenRejects, Queues, Rows, Works, Rest
<1>7. ASSUME NEW i \in Items, NEW b \in BOOLEAN, JudgeEvent(p, i, b) PROVE PipelineTypeOK'
  <2>1. <<i, p, day>> \in Ids  BY DEF Ids, Rows
  <2>2. Verdicts'  BY <1>7, <2>1 DEF JudgeEvent, Judged, Verdicts
  <2> QED  BY <1>7, <2>2, ItemSelecting DEF JudgeEvent, Queues, Rows, Works, Rest
<1>8. ASSUME NEW i \in Items, NEW b \in BOOLEAN, JudgeRejects(p, i, b) PROVE PipelineTypeOK'
  <2>1. Verdicts'  BY <1>8 DEF JudgeRejects, Reasons, Judged, Verdicts, Rows
  <2> QED  BY <1>8, <2>1, ItemSelecting DEF JudgeRejects, Queues, Rows, Works, Rest
<1> QED  BY <1>1, <1>2, <1>3, <1>4, <1>5, <1>6, <1>7, <1>8 DEF SelectStep

LEMMA StepExtracting ==
    ASSUME PipelineTypeOK, PipelineAssumption, NEW p \in Runs, ExtractStep(p)
    PROVE  extracting' \in [Runs -> Extracting]
<1>1. extracting \in [Runs -> Extracting] /\ extracting[p] \in Extracting  BY TypeParts DEF Works
<1>2. CASE BeginExtract(p)
  <2>1. findPendingEvents \in SUBSET Ids  BY TypeParts DEF findPendingEvents, Verdicts
  <2>2. [NoExtracting EXCEPT !.op = "write", !.todo = findPendingEvents] \in Extracting  BY <2>1, RestTyped DEF Extracting
  <2> QED  BY <1>1, <1>2, <2>2 DEF BeginExtract
<1>3. CASE StopExtract(p)  BY <1>1, <1>3 DEF StopExtract, Extracting
<1>4. CASE EndWriting(p)  BY <1>1, <1>4 DEF EndWriting, Extracting
<1>5. CASE FinishExtract(p)  BY <1>1, <1>5, RestTyped DEF FinishExtract
<1>6. ASSUME NEW e \in extracting[p].todo, NEW a \in written, Merge(p, e, a) PROVE extracting' \in [Runs -> Extracting]
  BY <1>1, <1>6 DEF Merge, Extracting
<1>7. ASSUME NEW e \in extracting[p].todo, WriteUp(p, e) PROVE extracting' \in [Runs -> Extracting]
  <2>1. e \in Ids  BY <1>1 DEF Extracting
  <2>2. ASSUME NEW S \in SUBSET Ids
        PROVE  [extracting[p] EXCEPT !.todo = extracting[p].todo \ {e}, !.tell = S] \in Extracting
    BY <1>1 DEF Extracting
  <2>3. PICK S \in SUBSET Ids : S = IF e \in urgent THEN extracting[p].tell \cup {e} ELSE extracting[p].tell
    BY <1>1, <2>1 DEF Extracting
  <2>4. extracting' = [extracting EXCEPT ![p] = [extracting[p] EXCEPT !.todo = extracting[p].todo \ {e}, !.tell = S]]
    BY <1>7, <2>3 DEF WriteUp
  <2> QED  BY <1>1, <2>2, <2>4
<1>8. ASSUME NEW e \in extracting[p].todo, EventGone(p, e) PROVE extracting' \in [Runs -> Extracting]
  <2>1. CASE extracting' = [extracting EXCEPT ![p] = NoExtracting]  BY <1>1, <2>1, RestTyped
  <2>2. CASE extracting' = [extracting EXCEPT ![p].todo = {}]  BY <1>1, <2>2 DEF Extracting
  <2> QED  BY <1>8, <2>1, <2>2 DEF EventGone
<1>9. ASSUME NEW e \in extracting[p].todo, NEW why \in {"no_verified_quote", "model_rejected"}, dropEvent(p, e, why)
      PROVE  extracting' \in [Runs -> Extracting]
  BY <1>1, <1>9 DEF dropEvent, Extracting
<1>10. ASSUME NEW e \in extracting[p].tell, buildUrgentDigest(p, e) PROVE extracting' \in [Runs -> Extracting]
  BY <1>1, <1>10 DEF buildUrgentDigest, Extracting
<1> QED  BY <1>2, <1>3, <1>4, <1>5, <1>6, <1>7, <1>8, <1>9, <1>10 DEF ExtractStep

LEMMA ExtractTypes ==
    ASSUME PipelineAssumption, PipelineTypeOK, NEW p \in Runs, ExtractStep(p)
    PROVE  PipelineTypeOK'
<1> USE TypeParts, TypedAgain, StepExtracting DEF history, verdicts, material
<1>1. CASE BeginExtract(p)
  <2>1. Queues'  BY <1>1, QueueMoves DEF BeginExtract, Steps
  <2> QED  BY <1>1, <2>1 DEF BeginExtract, Verdicts, Rows, Works, Rest
<1>2. CASE StopExtract(p) \/ EndWriting(p) \/ FinishExtract(p)
  BY <1>2 DEF StopExtract, EndWriting, FinishExtract, Fault, Verdicts, Queues, Rows, Works, Rest
<1>3. ASSUME NEW e \in extracting[p].todo PROVE e \in Ids /\ e[1] \in Items
  BY DEF Works, Extracting, Ids
<1>4. ASSUME NEW e \in extracting[p].todo, NEW a \in written, Merge(p, e, a) PROVE PipelineTypeOK'
  <2>1. <<a, e[1]>> \in Ids \X Items  BY <1>3 DEF Verdicts
  <2>2. Verdicts'  BY <1>4, <2>1 DEF Merge, Without, Verdicts
  <2> QED  BY <1>4, <2>2 DEF Merge, Queues, Rows, Works, Rest
<1>5. ASSUME NEW e \in extracting[p].todo, WriteUp(p, e) PROVE PipelineTypeOK'
  <2>1. Verdicts'  BY <1>5 DEF WriteUp, StillEvent, Verdicts
  <2> QED  BY <1>5, <2>1 DEF WriteUp, Queues, Rows, Works, Rest
<1>6. ASSUME NEW e \in extracting[p].todo, EventGone(p, e) PROVE PipelineTypeOK'
  <2>1. Queues'  BY <1>6, QueueMoves DEF EventGone, Steps
  <2> QED  BY <1>6, <2>1 DEF EventGone, Verdicts, Rows, Works, Rest
<1>7. ASSUME NEW e \in extracting[p].todo, NEW why \in {"no_verified_quote", "model_rejected"}, dropEvent(p, e, why)
      PROVE  PipelineTypeOK'
  <2>1. <<e[1], why, day>> \in Items \X Reasons \X Days  BY <1>3 DEF Reasons, Rows
  <2>2. Verdicts'  BY <1>7, <2>1 DEF dropEvent, Without, Verdicts
  <2> QED  BY <1>7, <2>2 DEF dropEvent, Queues, Rows, Works, Rest
<1>8. ASSUME NEW e \in extracting[p].tell, buildUrgentDigest(p, e) PROVE PipelineTypeOK'
  BY <1>8 DEF buildUrgentDigest, Verdicts, Queues, Rows, Works, Rest
<1> QED  BY <1>1, <1>2, <1>4, <1>5, <1>6, <1>7, <1>8 DEF ExtractStep

LEMMA DeathTypes ==
    ASSUME PipelineAssumption, PipelineTypeOK, NEW p \in Runs, StepDies(p)
    PROVE  PipelineTypeOK'
<1> USE TypeParts, TypedAgain DEF history, verdicts, material
<1>1. Queues'  BY QueueMoves DEF StepDies, Steps
<1>2. Works'  BY RestTyped DEF StepDies, Works
<1> QED  BY <1>1, <1>2 DEF StepDies, Verdicts, Rows, Rest

LEMMA TypesStep ==
    ASSUME PipelineAssumption, PipelineTypeOK, [PipelineNext]_pipelineVars
    PROVE  PipelineTypeOK'
<1>1. CASE UNCHANGED pipelineVars
  BY <1>1 DEF pipelineVars, material, verdicts, history, running, PipelineTypeOK
<1>2. CASE PipelineNext
  BY <1>2, FlowTypes, EmbedTypes, SelectTypes, ExtractTypes, DeathTypes DEF PipelineNext
<1> QED  BY <1>1, <1>2

\* The tables and what the queue and the runs hold are always of their types.
THEOREM PipelineTypes == PipelineSpec => []PipelineTypeOK
<1>1. PipelineInit => PipelineTypeOK  BY InitTypes, PipelineAssumption
<1>2. PipelineTypeOK /\ [PipelineNext]_pipelineVars => PipelineTypeOK'  BY TypesStep, PipelineAssumption
<1> QED  BY <1>1, <1>2, PTL DEF PipelineSpec

-----------------------------------------------------------------------------
(* Without a first run only the jobs work *)

LEMMA AloneStays ==
    ASSUME PipelineAssumption, PipelineTypeOK, ~firstRun, JobsAlone, PipelineNext
    PROVE  /\ JobsAlone'
           /\ \/ \E new \in SUBSET Items : StoreItems(new)
              \/ QueueEmbed \/ PollerDies \/ NextDay \/ pruneRejections \/ pruneExpiredMaterial
              \/ EmbedStep("job") \/ SelectStep("job") \/ ExtractStep("job") \/ StepDies("job")
<1> USE DEF history, running, verdicts, material
<1>1. /\ due \in [Runs -> SUBSET Steps] /\ embedding \in [Runs -> Embedding]
      /\ selecting \in [Runs -> Selecting] /\ extracting \in [Runs -> Extracting]
      /\ "job" \in Runs /\ "first" \in Runs
  BY TypeParts DEF Queues, Works, Runs
<1>2. ~EmbedStep("first")
  BY DEF EmbedStep, BeginEmbed, FinishEmbed, EmbedConflict, Take, JobsAlone
<1>3. ~SelectStep("first")
  BY DEF SelectStep, BeginSelect, CountBudgets, StopSelect, FinishSelect, ScreenKeeps, Defer, ScreenRejects,
         JudgeEvent, JudgeRejects, NextUp, Take, JobsAlone
<1>4. ~ExtractStep("first")
  BY DEF ExtractStep, BeginExtract, StopExtract, EndWriting, FinishExtract, Merge, WriteUp, EventGone, dropEvent,
         buildUrgentDigest, NextToWrite, Take, JobsAlone
<1>5. ~StepDies("first")  BY DEF StepDies, JobsAlone
<1>6. \/ \E new \in SUBSET Items : StoreItems(new)
      \/ QueueEmbed \/ PollerDies \/ NextDay \/ pruneRejections \/ pruneExpiredMaterial
      \/ EmbedStep("job") \/ SelectStep("job") \/ ExtractStep("job") \/ StepDies("job")
  BY <1>2, <1>3, <1>4, <1>5 DEF PipelineNext, Runs
<1>7. CASE \/ \E new \in SUBSET Items : StoreItems(new)
           \/ QueueEmbed \/ PollerDies \/ NextDay \/ pruneRejections \/ pruneExpiredMaterial
  BY <1>1, <1>7 DEF StoreItems, QueueEmbed, After, PollerDies, NextDay, pruneRejections, pruneExpiredMaterial, JobsAlone
<1>8. CASE EmbedStep("job")
  BY <1>1, <1>8 DEF EmbedStep, BeginEmbed, FinishEmbed, EmbedConflict, Take, After, Fail, JobsAlone
<1>9. CASE SelectStep("job")
  <2>1. /\ \A p \in Runs \ {"job"} : selecting'[p] = selecting[p] /\ due'[p] = due[p]
        /\ UNCHANGED <<embedding, extracting>>
    BY <1>1, <1>9 DEF SelectStep, BeginSelect, CountBudgets, StopSelect, FinishSelect, ScreenKeeps, Defer, ScreenRejects,
           JudgeEvent, JudgeRejects, Take, After
  <2> QED  BY <1>1, <1>6, <2>1 DEF JobsAlone
<1>10. CASE ExtractStep("job")
  <2>1. /\ \A p \in Runs \ {"job"} : extracting'[p] = extracting[p] /\ due'[p] = due[p]
        /\ UNCHANGED <<embedding, selecting>>
    BY <1>1, <1>10 DEF ExtractStep, BeginExtract, StopExtract, EndWriting, FinishExtract, Merge, WriteUp, EventGone,
           dropEvent, buildUrgentDigest, Take, Fail
  <2> QED  BY <1>1, <1>6, <2>1 DEF JobsAlone
<1>11. CASE StepDies("job")  BY <1>1, <1>11 DEF StepDies, Fail, JobsAlone
<1> QED  BY <1>6, <1>7, <1>8, <1>9, <1>10, <1>11

-----------------------------------------------------------------------------
(* What each step does to the verdicts *)

LEMMA InitSound == ASSUME PipelineAssumption, PipelineInit PROVE VerdictsSound /\ (~firstRun => JobsAlone)
<1>1. "job" \in Runs /\ "first" \in Runs  BY DEF Runs
<1>2. selecting["job"].todo = {} /\ selecting["job"].kept = {} /\ selecting["job"].op = "idle"
      /\ extracting["job"].todo = {}
  BY <1>1, RestTyped DEF PipelineInit
<1>3. JobsAlone \/ firstRun  BY <1>1, RestTyped DEF PipelineInit, JobsAlone
<1> QED
  BY <1>2, <1>3 DEF PipelineInit, VerdictsSound, RowsDated, LinksSound, OneLink, NotBoth, RejectionsDated, SelectionSound,
         InHand, ExtractionSound, VerdictStands

\* A step that gives no verdict and brings nothing into hand.
LEMMA QuietInv ==
    ASSUME VerdictsSound,
           UNCHANGED <<day, fetched, published, events, written, links, rejections, judged>>,
           \A i \in Items : raw'[i] = "absent" <=> raw[i] = "absent",
           PipelineTypeOK, PipelineTypeOK',
           InHand' \subseteq InHand, (selecting["job"].todo \cap selecting["job"].kept = {})',
           selecting'["job"].op = "idle" => InHand' = {},
           selecting'["job"].op # "idle" => selecting["job"].op # "idle" /\ selecting'["job"].since = selecting["job"].since,
           extracting'["job"].todo \subseteq extracting["job"].todo,
           extracting'["job"].op # "write" => extracting'["job"].todo = {}
    PROVE  VerdictsSound'
<1>1. RowsDated'  BY DEF VerdictsSound, RowsDated
<1>2. \A l \in links : l[2] \in Items  BY DEF PipelineTypeOK
<1>3. LinksSound'  BY <1>2 DEF VerdictsSound, LinksSound
<1>4. OneLink' /\ NotBoth' /\ RejectionsDated' /\ VerdictStands'
  BY DEF VerdictsSound, OneLink, NotBoth, RejectionsDated, VerdictStands, Linked, Rejected
<1>5. InHand \subseteq Items  BY DEF PipelineTypeOK, InHand, Runs
<1>6. SelectionSound'
  BY <1>5 DEF VerdictsSound, SelectionSound, Linked, Rejected
<1>7. ExtractionSound'  BY DEF VerdictsSound, ExtractionSound, HasRaw
<1> QED  BY <1>1, <1>3, <1>4, <1>6, <1>7 DEF VerdictsSound

LEMMA StoreInv ==
    ASSUME PipelineAssumption, PipelineTypeOK, VerdictsSound, NEW new \in SUBSET Items, StoreItems(new)
    PROVE  VerdictsSound'
<1> USE DEF history, running, verdicts, material
<1>1. /\ day \in Nat /\ day >= 1 /\ \A i \in Items : fetched[i] \in Nat /\ published[i] \in Nat
      /\ raw \in [Items -> {"absent", "stored", "embedded"}]
      /\ links \subseteq Ids \X Items /\ rejections \subseteq Items \X Reasons \X Days
  BY DEF PipelineTypeOK, Days, PipelineAssumption
<1>2. /\ \A i \in new : raw[i] = "absent" /\ raw'[i] = "stored" /\ fetched'[i] = day
                         /\ published'[i] = IF published[i] = 0 THEN day ELSE published[i]
      /\ \A i \in Items \ new : raw'[i] = raw[i] /\ fetched'[i] = fetched[i] /\ published'[i] = published[i]
      /\ UNCHANGED <<day, events, written, links, rejections, selecting, extracting, judged>>
  BY DEF StoreItems
<1>3. \A l \in links : l[2] \in Items \ new  BY <1>1, <1>2 DEF VerdictsSound, LinksSound
<1>4. RowsDated'  BY <1>1, <1>2 DEF VerdictsSound, RowsDated
<1>5. LinksSound'  BY <1>1, <1>2, <1>3 DEF VerdictsSound, LinksSound
<1>6. OneLink' /\ NotBoth'  BY <1>2 DEF VerdictsSound, OneLink, NotBoth
<1>7. RejectionsDated'  BY <1>1, <1>2 DEF VerdictsSound, RejectionsDated
<1>8. InHand \subseteq Items \ new  BY <1>2 DEF VerdictsSound, SelectionSound, PipelineTypeOK, InHand, Runs
<1>9. SelectionSound'  BY <1>2, <1>8 DEF VerdictsSound, SelectionSound, InHand, Linked, Rejected
<1>10. ExtractionSound'  BY <1>2 DEF VerdictsSound, ExtractionSound, HasRaw
<1>11. VerdictStands'  BY <1>1, <1>2 DEF VerdictsSound, VerdictStands, Linked, Rejected
<1> QED  BY <1>4, <1>5, <1>6, <1>7, <1>9, <1>10, <1>11 DEF VerdictsSound

\* One midnight passes during a selection, none during an extraction.
LEMMA NextDayInv ==
    ASSUME PipelineAssumption, PipelineTypeOK, VerdictsSound, NextDay
    PROVE  VerdictsSound'
<1> USE DEF history, running, verdicts, material
<1>1. /\ day \in Nat /\ day' = day + 1 /\ extracting["job"].op = "idle"
      /\ selecting["job"].op # "idle" => selecting["job"].since = day
      /\ UNCHANGED <<raw, fetched, published, events, written, links, rejections, selecting, extracting, judged>>
  BY DEF NextDay, Runs, PipelineTypeOK, Days
<1>2. \A i \in Items : fetched[i] \in Nat /\ published[i] \in Nat
  BY DEF PipelineTypeOK, PipelineAssumption
<1>3. RowsDated'  BY <1>1, <1>2 DEF VerdictsSound, RowsDated
<1>4. LinksSound' /\ OneLink' /\ NotBoth' /\ RejectionsDated'
  BY <1>1 DEF VerdictsSound, LinksSound, OneLink, NotBoth, RejectionsDated
<1>5. SelectionSound'  BY <1>1 DEF VerdictsSound, SelectionSound, InHand, Linked, Rejected
<1>6. ExtractionSound'  BY <1>1 DEF VerdictsSound, ExtractionSound
<1>7. VerdictStands'  BY <1>1, <1>2 DEF VerdictsSound, VerdictStands, Linked, Rejected, PipelineAssumption
<1> QED  BY <1>3, <1>4, <1>5, <1>6, <1>7 DEF VerdictsSound

\* A rejection is forgotten when its article is too old to be judged.
LEMMA pruneRejectionsInv ==
    ASSUME PipelineAssumption, PipelineTypeOK, VerdictsSound, pruneRejections
    PROVE  VerdictsSound'
<1> USE DEF history, running, verdicts, material
<1>1. /\ rejections' \subseteq rejections
      /\ \A r \in rejections \ rejections' : r[3] + RejectionDays < day
      /\ UNCHANGED <<day, raw, fetched, published, events, written, links, selecting, extracting, judged>>
  BY DEF pruneRejections
<1>2. /\ day \in Nat /\ \A i \in Items : published[i] \in Nat
      /\ \A r \in rejections : r[1] \in Items /\ r[3] \in Nat
  BY DEF PipelineTypeOK, PipelineAssumption, Days
<1>3. RowsDated' /\ LinksSound' /\ OneLink' /\ NotBoth' /\ RejectionsDated' /\ ExtractionSound'
  BY <1>1 DEF VerdictsSound, RowsDated, LinksSound, OneLink, NotBoth, RejectionsDated, ExtractionSound, HasRaw
<1>4. SelectionSound'  BY <1>1 DEF VerdictsSound, SelectionSound, InHand, Linked, Rejected
<1>5. ASSUME NEW i \in Items \ Undated, Rejected(i), ~Rejected(i)' PROVE published[i] + SelectionDays < day
  <2>1. PICK r \in rejections : r[1] = i /\ r \notin rejections'  BY <1>5 DEF Rejected
  <2>2. published[i] <= r[3] /\ r[3] + RejectionDays < day  BY <1>1, <2>1 DEF VerdictsSound, RejectionsDated
  <2> QED  BY <1>2, <2>1, <2>2 DEF PipelineAssumption
<1>6. VerdictStands'
  <2>1. ASSUME NEW i \in Items \ Undated, judged[i] = 1
        PROVE  1 <= published[i] /\ (Linked(i)' \/ Rejected(i)' \/ published[i] + SelectionDays < day)
    BY <1>1, <1>5, <2>1 DEF VerdictsSound, VerdictStands, Linked
  <2> QED  BY <1>1, <2>1 DEF VerdictsSound, VerdictStands
<1> QED  BY <1>3, <1>4, <1>6 DEF VerdictsSound

\* What is pruned is neither in hand nor waiting to be written up.
LEMMA pruneExpiredMaterialInv ==
    ASSUME PipelineAssumption, PipelineTypeOK, VerdictsSound, pruneExpiredMaterial
    PROVE  VerdictsSound'
<1> USE DEF history, running, verdicts, material
<1> DEFINE old == {i \in Items : raw[i] # "absent" /\ fetched[i] + RetentionDays < day}
<1>1. /\ \A i \in Items : raw'[i] = IF i \in old THEN "absent" ELSE raw[i]
      /\ links' = {l \in links : l[2] \notin old} /\ rejections' = {r \in rejections : r[1] \notin old}
      /\ UNCHANGED <<day, fetched, published, events, written, selecting, extracting, judged>>
  BY DEF pruneExpiredMaterial
<1>2. /\ day \in Nat /\ \A i \in Items : published[i] \in Nat /\ fetched[i] \in Nat
      /\ \A r \in rejections : r[1] \in Items
      /\ \A l \in links : l[1] \in Ids /\ l[2] \in Items
      /\ \A e \in Ids : e[1] \in Items /\ e[3] \in Nat
  BY DEF PipelineTypeOK, PipelineAssumption, Days, Ids
<1>3. /\ InHand \subseteq Items /\ InHand' = InHand /\ extracting["job"].todo \subseteq Ids
      /\ selecting["job"].since \in Nat
  BY <1>1 DEF PipelineTypeOK, InHand, Runs, PipelineAssumption
<1>4. \A i \in InHand : i \notin old
  BY <1>2, <1>3 DEF VerdictsSound, SelectionSound, PipelineAssumption
<1>5. \A e \in extracting["job"].todo : e[1] \notin old
  <2> TAKE e \in extracting["job"].todo
  <2>1. <<e, e[1]>> \in links /\ e[3] + PendingDays >= day  BY DEF VerdictsSound, ExtractionSound, HasRaw
  <2>2. e[3] <= fetched[e[1]] + SelectionDays + 1  BY <2>1 DEF VerdictsSound, LinksSound
  <2> QED  BY <1>2, <1>3, <2>1, <2>2 DEF PipelineAssumption
<1>6. RowsDated'  BY <1>1 DEF VerdictsSound, RowsDated
<1>7. LinksSound'  BY <1>1, <1>2 DEF VerdictsSound, LinksSound
<1>8. OneLink' /\ NotBoth' /\ RejectionsDated'  BY <1>1 DEF VerdictsSound, OneLink, NotBoth, RejectionsDated
<1>9. SelectionSound'  BY <1>1, <1>3, <1>4 DEF VerdictsSound, SelectionSound, Linked, Rejected
<1>10. ExtractionSound'  BY <1>1, <1>5 DEF VerdictsSound, ExtractionSound, HasRaw
<1>11. VerdictStands'
  <2>1. ASSUME NEW i \in old PROVE published[i] + SelectionDays < day
    BY <1>2, <2>1 DEF VerdictsSound, RowsDated, PipelineAssumption
  <2>2. ASSUME NEW i \in Items \ old PROVE (Linked(i) => Linked(i)') /\ (Rejected(i) => Rejected(i)')
    BY <1>1, <2>2 DEF Linked, Rejected
  <2> QED  BY <1>1, <2>1, <2>2 DEF VerdictsSound, VerdictStands
<1> QED  BY <1>6, <1>7, <1>8, <1>9, <1>10, <1>11 DEF VerdictsSound

\* What a selection takes in hand was not judged yet.
LEMMA BeginSelectInv ==
    ASSUME PipelineAssumption, PipelineTypeOK, PipelineTypeOK', VerdictsSound, BeginSelect("job")
    PROVE  VerdictsSound'
<1> USE DEF history, running, verdicts, material
<1>1. /\ selecting'["job"].todo = findOwnCandidates /\ selecting'["job"].kept = {}
      /\ selecting'["job"].op = "screen" /\ selecting'["job"].since = day
      /\ UNCHANGED <<day, raw, fetched, published, events, written, links, rejections, extracting, judged>>
  <2>1. selecting'["job"] = [NoSelecting EXCEPT !.op = "screen", !.since = day, !.todo = findOwnCandidates]
    BY DEF BeginSelect, PipelineTypeOK, Runs
  <2>2. NoSelecting.kept = {} /\ NoSelecting \in Selecting  BY RestTyped
  <2>3. /\ selecting'["job"].todo = findOwnCandidates /\ selecting'["job"].kept = {}
        /\ selecting'["job"].op = "screen" /\ selecting'["job"].since = day
    BY <2>1, <2>2 DEF Selecting
  <2> QED  BY <2>3 DEF BeginSelect
<1>2. day \in Nat /\ \A i \in Items : published[i] \in Nat /\ fetched[i] \in Nat /\ judged[i] \in Nat
  BY DEF PipelineTypeOK, PipelineAssumption, Days
<1>3. InHand' = findOwnCandidates  BY <1>1 DEF InHand
<1>4. ASSUME NEW i \in findOwnCandidates
      PROVE  /\ raw[i] # "absent" /\ fetched[i] + SelectionDays >= day
             /\ ~Linked(i) /\ ~Rejected(i)
             /\ i \notin Undated => judged[i] = 0
  <2>1. /\ i \in Items /\ raw[i] = "embedded" /\ fetched[i] + SelectionDays >= day
        /\ i \notin Undated => published[i] + SelectionDays >= day
        /\ ~Linked(i) /\ ~Rejected(i)
    BY DEF findOwnCandidates, Recent, Linked, Rejected
  <2> QED  BY <1>2, <2>1 DEF VerdictsSound, VerdictStands, PipelineAssumption
<1>5. SelectionSound'  BY <1>1, <1>2, <1>3, <1>4 DEF SelectionSound, Linked, Rejected
<1>6. RowsDated' /\ LinksSound' /\ OneLink' /\ NotBoth' /\ RejectionsDated' /\ ExtractionSound' /\ VerdictStands'
  BY <1>1 DEF VerdictsSound, RowsDated, LinksSound, OneLink, NotBoth, RejectionsDated, ExtractionSound, HasRaw,
         VerdictStands, Linked, Rejected
<1> QED  BY <1>5, <1>6 DEF VerdictsSound

\* A rejection of what is in hand.
LEMMA RejectInv ==
    ASSUME PipelineAssumption, PipelineTypeOK, PipelineTypeOK', VerdictsSound,
           NEW i \in selecting["job"].todo, NEW why \in Reasons,
           selecting'["job"].todo = selecting["job"].todo \ {i}, selecting'["job"].kept = selecting["job"].kept,
           selecting'["job"].op = selecting["job"].op, selecting'["job"].since = selecting["job"].since,
           rejections' = rejections \cup {<<i, why, day>>}, Judged(i),
           UNCHANGED <<day, raw, fetched, published, events, written, links, extracting>>
    PROVE  VerdictsSound'
<1>1. /\ i \in InHand /\ i \in Items /\ i \notin InHand' /\ InHand' \subseteq InHand /\ InHand \subseteq Items
  BY DEF VerdictsSound, SelectionSound, InHand, PipelineTypeOK, Runs
<1>2. raw[i] # "absent" /\ ~Linked(i) /\ ~Rejected(i) /\ (i \notin Undated => judged[i] = 0)
  BY <1>1 DEF VerdictsSound, SelectionSound
<1>3. judged'[i] = judged[i] + 1 /\ \A j \in Items \ {i} : judged'[j] = judged[j]
  BY <1>1 DEF Judged, PipelineTypeOK
<1>4. 1 <= published[i] /\ published[i] <= day
  BY <1>1, <1>2 DEF VerdictsSound, RowsDated, PipelineTypeOK
<1>5. RowsDated' /\ LinksSound' /\ OneLink' /\ ExtractionSound'
  BY DEF VerdictsSound, RowsDated, LinksSound, OneLink, ExtractionSound, HasRaw
<1>6. NotBoth'  BY <1>2 DEF VerdictsSound, NotBoth, Linked
<1>7. RejectionsDated'  BY <1>4 DEF VerdictsSound, RejectionsDated
<1>8. \A j \in Items \ {i} : Rejected(j)' <=> Rejected(j)  BY DEF Rejected
<1>9. SelectionSound'
  BY <1>1, <1>3, <1>8 DEF VerdictsSound, SelectionSound, Linked, InHand
<1>10. Rejected(i)'
  <2>1. <<i, why, day>> \in rejections'  OBVIOUS
  <2>2. <<i, why, day>>[1] = i  OBVIOUS
  <2> QED  BY <2>1, <2>2 DEF Rejected
<1>11. VerdictStands'
  <2>1. \A j \in Items : Linked(j)' <=> Linked(j)  BY DEF Linked
  <2> QED  BY <1>1, <1>2, <1>3, <1>4, <1>8, <1>10, <2>1 DEF VerdictsSound, VerdictStands
<1> QED  BY <1>5, <1>6, <1>7, <1>9, <1>11 DEF VerdictsSound

\* An event of what is in hand, and its link.
LEMMA JudgeEventInv ==
    ASSUME PipelineAssumption, PipelineTypeOK, PipelineTypeOK', VerdictsSound,
           NEW i \in Items, NEW b \in BOOLEAN, JudgeEvent("job", i, b)
    PROVE  VerdictsSound'
<1> USE DEF history, running, verdicts, material
<1> DEFINE e == <<i, "job", day>>
<1>1. i \in selecting["job"].todo /\ selecting["job"].op = "judge"  BY DEF JudgeEvent, NextUp
<1>2. /\ selecting'["job"].todo = selecting["job"].todo \ {i} /\ selecting'["job"].kept = selecting["job"].kept
      /\ selecting'["job"].op = selecting["job"].op /\ selecting'["job"].since = selecting["job"].since
  BY DEF JudgeEvent, PipelineTypeOK, Runs
<1>3. /\ events' = events \cup {e} /\ links' = links \cup {<<e, i>>} /\ Judged(i)
      /\ UNCHANGED <<day, raw, fetched, published, written, rejections, extracting>>
  BY DEF JudgeEvent
<1>4. /\ i \in InHand /\ i \notin InHand' /\ InHand' \subseteq InHand /\ InHand \subseteq Items
      /\ raw[i] # "absent" /\ ~Linked(i) /\ ~Rejected(i) /\ (i \notin Undated => judged[i] = 0)
      /\ fetched[i] + SelectionDays >= selecting["job"].since /\ day <= selecting["job"].since + 1
  BY <1>1, <1>2 DEF VerdictsSound, SelectionSound, InHand, PipelineTypeOK, Runs
<1>5. /\ judged'[i] = judged[i] + 1 /\ \A j \in Items \ {i} : judged'[j] = judged[j]
  BY <1>3 DEF Judged, PipelineTypeOK
<1>6. 1 <= published[i]  BY <1>4 DEF VerdictsSound, RowsDated
<1>7. day \in Nat /\ fetched[i] \in Nat /\ selecting["job"].since \in Nat
  BY DEF PipelineTypeOK, Days, PipelineAssumption, Runs
<1>8. e[1] = i /\ e[3] = day /\ e[3] <= fetched[i] + SelectionDays + 1  BY <1>4, <1>7 DEF PipelineAssumption
<1> HIDE DEF e
<1>9. RowsDated' /\ RejectionsDated'  BY <1>3 DEF VerdictsSound, RowsDated, RejectionsDated
<1>10. \A l \in links' : l \in links \/ (l[1] = e /\ l[2] = i)  BY <1>3
<1>11. LinksSound'  BY <1>3, <1>4, <1>8, <1>10 DEF VerdictsSound, LinksSound
<1>12. OneLink'
  <2>1. \A l \in links' : l \in links \/ l = <<e, i>>  BY <1>3
  <2>2. \A l \in links : l[2] # i  BY <1>4 DEF Linked
  <2> QED  BY <2>1, <2>2 DEF VerdictsSound, OneLink
<1>13. NotBoth'  BY <1>3, <1>4, <1>10 DEF VerdictsSound, NotBoth, Rejected
<1>14. \A j \in Items \ {i} : Linked(j)' <=> Linked(j)  BY <1>3, <1>10 DEF Linked
<1>15. SelectionSound'
  BY <1>2, <1>3, <1>4, <1>5, <1>14 DEF VerdictsSound, SelectionSound, Rejected, InHand
<1>16. ExtractionSound'  BY <1>3 DEF VerdictsSound, ExtractionSound, HasRaw
<1>17. Linked(i)'
  <2>1. <<e, i>> \in links' /\ <<e, i>>[2] = i  BY <1>3
  <2> QED  BY <2>1 DEF Linked
<1>18. VerdictStands'
  <2>1. \A j \in Items : Rejected(j)' <=> Rejected(j)  BY <1>3 DEF Rejected
  <2> QED  BY <1>3, <1>4, <1>5, <1>6, <1>14, <1>17, <2>1 DEF VerdictsSound, VerdictStands
<1> QED  BY <1>9, <1>11, <1>12, <1>13, <1>15, <1>16, <1>18 DEF VerdictsSound

LEMMA BeginExtractInv ==
    ASSUME PipelineAssumption, PipelineTypeOK, PipelineTypeOK', VerdictsSound, BeginExtract("job")
    PROVE  VerdictsSound'
<1> USE DEF history, running, verdicts, material
<1>1. /\ extracting'["job"].todo = findPendingEvents /\ extracting'["job"].op = "write"
      /\ UNCHANGED <<day, raw, fetched, published, events, written, links, rejections, selecting, judged>>
  <2>1. extracting'["job"] = [NoExtracting EXCEPT !.op = "write", !.todo = findPendingEvents]
    BY DEF BeginExtract, PipelineTypeOK, Runs
  <2>2. extracting'["job"].todo = findPendingEvents /\ extracting'["job"].op = "write"
    BY <2>1, RestTyped DEF Extracting
  <2> QED  BY <2>2 DEF BeginExtract
<1>2. ExtractionSound'  BY <1>1 DEF ExtractionSound, findPendingEvents, HasRaw
<1> QED
  BY <1>1, <1>2 DEF VerdictsSound, RowsDated, LinksSound, OneLink, NotBoth, RejectionsDated, SelectionSound, InHand,
         VerdictStands, Linked, Rejected

\* The facts the steps of an extraction share: the event has one link, to its own
\* item, no verdict but that, and nothing is in hand of it.
LEMMA PendingEvent ==
    ASSUME PipelineTypeOK, VerdictsSound, NEW e \in extracting["job"].todo
    PROVE  /\ e \in Ids /\ e[1] \in Items /\ e \in events /\ e \notin written /\ <<e, e[1]>> \in links
           /\ \A l \in links : l[1] = e => l[2] = e[1]
           /\ \A l \in links : l[2] = e[1] => l[1] = e
           /\ raw[e[1]] # "absent" /\ ~Rejected(e[1]) /\ e[1] \notin InHand
<1>1. e \in Ids /\ e[1] \in Items  BY DEF PipelineTypeOK, Runs, Ids
<1>2. e \in events \ written /\ <<e, e[1]>> \in links  BY DEF VerdictsSound, ExtractionSound, HasRaw
<1>3. \A l \in links : l[2] = e[1] => l[1] = e
  <2>1. \A l \in links : l[2] = e[1] => l = <<e, e[1]>>  BY <1>2 DEF VerdictsSound, OneLink
  <2> QED  BY <2>1
<1>4. \A l \in links : l[1] = e => l[2] = e[1]  BY <1>2 DEF VerdictsSound, LinksSound
<1>5. raw[e[1]] # "absent" /\ ~Rejected(e[1])  BY <1>2 DEF VerdictsSound, LinksSound, NotBoth, Rejected
<1>6. e[1] \notin InHand  BY <1>2 DEF VerdictsSound, SelectionSound, Linked
<1> QED  BY <1>1, <1>2, <1>3, <1>4, <1>5, <1>6

\* The item goes over to an event that was written up.
LEMMA MergeInv ==
    ASSUME PipelineAssumption, PipelineTypeOK, PipelineTypeOK', VerdictsSound,
           NEW e \in extracting["job"].todo, NEW a \in written, Merge("job", e, a)
    PROVE  VerdictsSound'
<1> USE DEF history, running, verdicts, material
<1>1. /\ extracting'["job"].todo = extracting["job"].todo \ {e} /\ extracting'["job"].op = "write"
      /\ extracting["job"].op = "write"
  BY DEF Merge, NextToWrite, PipelineTypeOK, Runs
<1>2. /\ links' = {l \in links : l[1] # e} \cup {<<a, e[1]>>}
      /\ events' = events \ {e} /\ written' = written \ {e}
      /\ UNCHANGED <<day, raw, fetched, published, rejections, selecting, judged>>
      /\ a # e /\ <<a, a[1]>> \in links /\ a \in events
  BY DEF Merge, Without, Anchors, HasRaw, PipelineTypeOK
<1>3. a[1] # e[1]  BY <1>2, PendingEvent
<1>4. written' = written /\ a \notin extracting["job"].todo
  <2>1. e \notin written  BY PendingEvent
  <2>2. a \notin extracting["job"].todo  BY PendingEvent
  <2> QED  BY <1>2, <2>1, <2>2
<1>5. \A l \in links' : l = <<a, e[1]>> \/ (l \in links /\ l[1] # e /\ l[2] # e[1])  BY <1>2, PendingEvent
<1>6. RowsDated' /\ RejectionsDated'  BY <1>2 DEF VerdictsSound, RowsDated, RejectionsDated
<1>7. LinksSound'
  <2> SUFFICES ASSUME NEW l \in links'
               PROVE  /\ l[1] \in events' /\ raw[l[2]] # "absent"
                      /\ l[1] \in written' \/ l[2] = l[1][1]
                      /\ l[2] = l[1][1] => l[1][3] <= fetched[l[2]] + SelectionDays + 1
    BY <1>2 DEF LinksSound
  <2>1. CASE l = <<a, e[1]>>
    <3>1. l[1] = a /\ l[2] = e[1]  BY <2>1
    <3> QED  BY <1>2, <1>3, <1>4, <3>1, PendingEvent
  <2>2. CASE l \in links /\ l[1] # e  BY <1>2, <1>4, <2>2 DEF VerdictsSound, LinksSound
  <2> QED  BY <1>5, <2>1, <2>2
<1>8. OneLink'
  <2>1. \A l \in links' : l[2] = e[1] => l = <<a, e[1]>>  BY <1>5
  <2>2. \A l \in links' : l[2] # e[1] => l \in links  BY <1>5
  <2> QED  BY <2>1, <2>2 DEF VerdictsSound, OneLink
<1>9. NotBoth'
  <2>1. \A r \in rejections : r[1] # e[1]  BY PendingEvent DEF Rejected
  <2> QED  BY <1>2, <1>5, <2>1 DEF VerdictsSound, NotBoth
<1>10. \A j \in Items : Linked(j)' <=> Linked(j)
  <2>1. Linked(e[1]) /\ Linked(e[1])'
    <3>1. <<e, e[1]>> \in links /\ <<a, e[1]>> \in links'  BY <1>2, PendingEvent
    <3> QED  BY <3>1 DEF Linked
  <2>2. ASSUME NEW j \in Items, j # e[1] PROVE Linked(j)' <=> Linked(j)
    <3>1. \A l \in links : l[2] = j => l \in links'  BY <1>2, <2>2, PendingEvent
    <3>2. \A l \in links' : l[2] = j => l \in links  BY <1>5, <2>2
    <3> QED  BY <3>1, <3>2 DEF Linked
  <2> QED  BY <2>1, <2>2
<1>11. InHand \subseteq Items  BY DEF InHand, PipelineTypeOK, Runs
<1>12. SelectionSound' /\ VerdictStands'
  BY <1>2, <1>10, <1>11 DEF VerdictsSound, SelectionSound, VerdictStands, Rejected, InHand
<1>13. ExtractionSound'
  <2>1. \A f \in extracting'["job"].todo : <<f, f[1]>> \in links' /\ f # e
    BY <1>1, <1>2 DEF VerdictsSound, ExtractionSound, HasRaw
  <2> QED  BY <1>1, <1>2, <1>4, <2>1 DEF VerdictsSound, ExtractionSound, HasRaw
<1> QED  BY <1>6, <1>7, <1>8, <1>9, <1>12, <1>13 DEF VerdictsSound

LEMMA WriteUpInv ==
    ASSUME PipelineAssumption, PipelineTypeOK, PipelineTypeOK', VerdictsSound,
           NEW e \in extracting["job"].todo, WriteUp("job", e)
    PROVE  VerdictsSound'
<1> USE DEF history, running, verdicts, material
<1>1. /\ extracting'["job"].todo = extracting["job"].todo \ {e} /\ extracting'["job"].op = extracting["job"].op
      /\ written' = written \cup {e}
      /\ UNCHANGED <<day, raw, fetched, published, events, links, rejections, selecting, judged>>
  BY DEF WriteUp, PipelineTypeOK, Runs
<1>2. LinksSound'  BY <1>1 DEF VerdictsSound, LinksSound
<1>3. ExtractionSound'  BY <1>1 DEF VerdictsSound, ExtractionSound, HasRaw
<1> QED
  BY <1>1, <1>2, <1>3 DEF VerdictsSound, RowsDated, OneLink, NotBoth, RejectionsDated, SelectionSound, InHand,
         VerdictStands, Linked, Rejected

\* The event goes with its link, and its item is rejected.
LEMMA dropEventInv ==
    ASSUME PipelineAssumption, PipelineTypeOK, PipelineTypeOK', VerdictsSound,
           NEW e \in extracting["job"].todo, NEW why \in Reasons, dropEvent("job", e, why)
    PROVE  VerdictsSound'
<1> USE DEF history, running, verdicts, material
<1>1. /\ extracting'["job"].todo = extracting["job"].todo \ {e} /\ extracting'["job"].op = extracting["job"].op
      /\ links' = {l \in links : l[1] # e} /\ rejections' = rejections \cup {<<e[1], why, day>>}
      /\ events' = events \ {e} /\ written' = written \ {e}
      /\ UNCHANGED <<day, raw, fetched, published, selecting, judged>>
  BY DEF dropEvent, Without, PipelineTypeOK, Runs
<1>2. written' = written /\ \A l \in links' : l \in links /\ l[1] # e /\ l[2] # e[1]
  <2>1. e \notin written  BY PendingEvent
  <2>2. \A l \in links : l[2] = e[1] => l[1] = e  BY PendingEvent
  <2> QED  BY <1>1, <2>1, <2>2
<1>3. 1 <= published[e[1]] /\ published[e[1]] <= day
  BY PendingEvent DEF VerdictsSound, RowsDated
<1>4. RowsDated'  BY <1>1 DEF VerdictsSound, RowsDated
<1>5. LinksSound' /\ OneLink'  BY <1>1, <1>2 DEF VerdictsSound, LinksSound, OneLink
<1>6. NotBoth' /\ RejectionsDated'
  <2>1. \A r \in rejections' : r \in rejections \/ (r[1] = e[1] /\ r[3] = day)  BY <1>1
  <2> QED  BY <1>1, <1>2, <1>3, <2>1 DEF VerdictsSound, NotBoth, RejectionsDated
<1>7. \A j \in Items \ {e[1]} : (Linked(j)' <=> Linked(j)) /\ (Rejected(j)' <=> Rejected(j))
  <2> TAKE j \in Items \ {e[1]}
  <2>1. \A l \in links : l[2] = j => l \in links'  BY <1>1, PendingEvent
  <2>2. \A l \in links' : l[2] = j => l \in links  BY <1>2
  <2>3. \A r \in rejections' : r[1] = j => r \in rejections  BY <1>1
  <2>4. rejections \subseteq rejections'  BY <1>1
  <2> QED  BY <2>1, <2>2, <2>3, <2>4 DEF Linked, Rejected
<1>8. Rejected(e[1])'
  <2>1. <<e[1], why, day>> \in rejections' /\ <<e[1], why, day>>[1] = e[1]  BY <1>1
  <2> QED  BY <2>1 DEF Rejected
<1>9. InHand \subseteq Items \ {e[1]}
  <2>1. e[1] \notin InHand  BY PendingEvent
  <2>2. InHand \subseteq Items  BY DEF InHand, PipelineTypeOK, Runs
  <2> QED  BY <2>1, <2>2
<1>10. SelectionSound'  BY <1>1, <1>7, <1>9 DEF VerdictsSound, SelectionSound, InHand
<1>11. ExtractionSound'
  <2>1. \A f \in extracting'["job"].todo : <<f, f[1]>> \in links' /\ f # e
    BY <1>1 DEF VerdictsSound, ExtractionSound, HasRaw
  <2> QED  BY <1>1, <1>2, <2>1 DEF VerdictsSound, ExtractionSound, HasRaw
<1>12. VerdictStands'  BY <1>1, <1>3, <1>7, <1>8 DEF VerdictsSound, VerdictStands
<1> QED  BY <1>4, <1>5, <1>6, <1>10, <1>11, <1>12 DEF VerdictsSound

-----------------------------------------------------------------------------
(* The steps together *)

LEMMA EmbedInv ==
    ASSUME PipelineAssumption, PipelineTypeOK, PipelineTypeOK', VerdictsSound,
           EmbedStep("job") \/ QueueEmbed \/ PollerDies
    PROVE  VerdictsSound'
<1> USE DEF history, running, verdicts, material
<1>1. UNCHANGED <<day, fetched, published, events, written, links, rejections, judged, selecting, extracting>>
  BY DEF EmbedStep, BeginEmbed, FinishEmbed, EmbedConflict, QueueEmbed, PollerDies
<1>2. \A i \in Items : raw'[i] = "absent" <=> raw[i] = "absent"
  BY DEF EmbedStep, BeginEmbed, FinishEmbed, EmbedConflict, QueueEmbed, PollerDies, PipelineTypeOK
<1> QED  BY <1>1, <1>2, QuietInv DEF VerdictsSound, SelectionSound, InHand, ExtractionSound

LEMMA SelectInv ==
    ASSUME PipelineAssumption, PipelineTypeOK, PipelineTypeOK', VerdictsSound, SelectStep("job")
    PROVE  VerdictsSound'
<1> USE DEF history, running, verdicts, material
<1>1. selecting["job"] \in Selecting /\ selecting \in [Runs -> Selecting] /\ "job" \in Runs  BY TypeParts DEF Works, Runs
<1>2. ASSUME CountBudgets("job") \/ StopSelect("job") PROVE VerdictsSound'
  <2>1. /\ InHand' \subseteq InHand /\ (selecting["job"].todo \cap selecting["job"].kept = {})'
        /\ selecting'["job"].op = "judge" /\ selecting["job"].op # "idle"
        /\ selecting'["job"].since = selecting["job"].since
    BY <1>1, <1>2 DEF CountBudgets, StopSelect, InHand, Selecting, VerdictsSound, SelectionSound
  <2>2. UNCHANGED <<day, raw, fetched, published, events, written, links, rejections, judged, extracting>>
    BY <1>2 DEF CountBudgets, StopSelect
  <2> QED  BY <2>1, <2>2, QuietInv DEF VerdictsSound, ExtractionSound
<1>3. ASSUME FinishSelect("job") PROVE VerdictsSound'
  <2>1. selecting'["job"] = NoSelecting  BY <1>1, <1>3 DEF FinishSelect
  <2>2. InHand' = {} /\ (selecting["job"].todo \cap selecting["job"].kept = {})' /\ selecting'["job"].op = "idle"
    BY <2>1, RestTyped DEF InHand
  <2>3. UNCHANGED <<day, raw, fetched, published, events, written, links, rejections, judged, extracting>>
    BY <1>3 DEF FinishSelect
  <2> QED  BY <2>2, <2>3, QuietInv DEF VerdictsSound, ExtractionSound
<1>4. ASSUME NEW i \in Items, ScreenKeeps("job", i) \/ Defer("job", i) PROVE VerdictsSound'
  <2>1. /\ InHand' \subseteq InHand /\ (selecting["job"].todo \cap selecting["job"].kept = {})'
        /\ selecting'["job"].op = selecting["job"].op /\ selecting["job"].op # "idle"
        /\ selecting'["job"].since = selecting["job"].since
    BY <1>1, <1>4 DEF ScreenKeeps, Defer, NextUp, InHand, Selecting, VerdictsSound, SelectionSound
  <2>2. UNCHANGED <<day, raw, fetched, published, events, written, links, rejections, judged, extracting>>
    BY <1>4 DEF ScreenKeeps, Defer
  <2> QED  BY <2>1, <2>2, QuietInv DEF VerdictsSound, ExtractionSound
<1>5. ASSUME NEW i \in Items, NEW b \in BOOLEAN, ScreenRejects("job", i) \/ JudgeRejects("job", i, b)
      PROVE  VerdictsSound'
  <2>1. /\ selecting'["job"].todo = selecting["job"].todo \ {i} /\ selecting'["job"].kept = selecting["job"].kept
        /\ selecting'["job"].op = selecting["job"].op /\ selecting'["job"].since = selecting["job"].since
        /\ i \in selecting["job"].todo
    BY <1>1, <1>5 DEF ScreenRejects, JudgeRejects, NextUp, Selecting
  <2>2. PICK why \in Reasons : rejections' = rejections \cup {<<i, why, day>>}
    BY <1>5 DEF ScreenRejects, JudgeRejects, Reasons
  <2>3. Judged(i) /\ UNCHANGED <<day, raw, fetched, published, events, written, links, extracting>>
    BY <1>5 DEF ScreenRejects, JudgeRejects
  <2> QED  BY <2>1, <2>2, <2>3, RejectInv
<1> QED  BY <1>2, <1>3, <1>4, <1>5, BeginSelectInv, JudgeEventInv DEF SelectStep

LEMMA ExtractInv ==
    ASSUME PipelineAssumption, PipelineTypeOK, PipelineTypeOK', VerdictsSound, ExtractStep("job")
    PROVE  VerdictsSound'
<1> USE DEF history, running, verdicts, material
<1>1. extracting["job"] \in Extracting /\ extracting \in [Runs -> Extracting] /\ "job" \in Runs
  BY TypeParts DEF Works, Runs
<1>2. ASSUME \/ StopExtract("job") \/ EndWriting("job") \/ FinishExtract("job")
             \/ \E e \in extracting["job"].tell : buildUrgentDigest("job", e)
             \/ \E e \in extracting["job"].todo : EventGone("job", e)
      PROVE  VerdictsSound'
  <2>1. /\ extracting'["job"].todo \subseteq extracting["job"].todo
        /\ extracting'["job"].op # "write" => extracting'["job"].todo = {}
    <3>1. extracting["job"].op # "write" => extracting["job"].todo = {}  BY DEF VerdictsSound, ExtractionSound
    <3>2. CASE StopExtract("job") \/ EndWriting("job")  BY <1>1, <3>1, <3>2 DEF StopExtract, EndWriting, Extracting
    <3>3. CASE FinishExtract("job")  BY <1>1, <3>3, RestTyped DEF FinishExtract
    <3>4. ASSUME NEW e \in extracting["job"].tell, buildUrgentDigest("job", e)
          PROVE  extracting'["job"].todo = extracting["job"].todo /\ extracting'["job"].op = extracting["job"].op
      BY <1>1, <3>4 DEF buildUrgentDigest, Extracting
    <3>5. ASSUME NEW e \in extracting["job"].todo, EventGone("job", e) PROVE extracting'["job"].todo = {}
      <4>1. CASE extracting' = [extracting EXCEPT !["job"] = NoExtracting]  BY <1>1, <4>1, RestTyped
      <4>2. CASE extracting' = [extracting EXCEPT !["job"].todo = {}]  BY <1>1, <4>2 DEF Extracting
      <4> QED  BY <3>5, <4>1, <4>2 DEF EventGone
    <3> QED  BY <1>2, <3>1, <3>2, <3>3, <3>4, <3>5
  <2>2. UNCHANGED <<day, raw, fetched, published, events, written, links, rejections, judged, selecting>>
    BY <1>2 DEF StopExtract, EndWriting, FinishExtract, buildUrgentDigest, EventGone
  <2> QED  BY <2>1, <2>2, QuietInv DEF VerdictsSound, SelectionSound, InHand
<1>3. {"no_verified_quote", "model_rejected"} \subseteq Reasons  BY DEF Reasons
<1> QED  BY <1>2, <1>3, BeginExtractInv, MergeInv, WriteUpInv, dropEventInv DEF ExtractStep

LEMMA DeathInv ==
    ASSUME PipelineAssumption, PipelineTypeOK, PipelineTypeOK', VerdictsSound, StepDies("job")
    PROVE  VerdictsSound'
<1> USE DEF history, running, verdicts, material
<1>1. "job" \in Runs  BY DEF Runs
<1>2. /\ selecting'["job"] = selecting["job"] \/ selecting'["job"] = NoSelecting
      /\ extracting'["job"] = extracting["job"] \/ extracting'["job"] = NoExtracting
  BY <1>1 DEF StepDies, PipelineTypeOK
<1>3. /\ InHand' \subseteq InHand /\ (selecting["job"].todo \cap selecting["job"].kept = {})'
      /\ selecting'["job"].op = "idle" => InHand' = {}
      /\ selecting'["job"].op # "idle" => selecting["job"].op # "idle" /\ selecting'["job"].since = selecting["job"].since
  BY <1>2, RestTyped DEF VerdictsSound, SelectionSound, InHand
<1>4. /\ extracting'["job"].todo \subseteq extracting["job"].todo
      /\ extracting'["job"].op # "write" => extracting'["job"].todo = {}
  BY <1>2, RestTyped DEF VerdictsSound, ExtractionSound
<1>5. UNCHANGED <<day, raw, fetched, published, events, written, links, rejections, judged>>  BY DEF StepDies
<1> QED  BY <1>3, <1>4, <1>5, QuietInv

LEMMA NextInv ==
    ASSUME PipelineAssumption, PipelineInv, [PipelineNext]_pipelineVars
    PROVE  PipelineInv'
<1>1. PipelineTypeOK'  BY TypesStep DEF PipelineInv
<1>2. firstRun' = firstRun
  <2> USE DEF history
  <2>1. CASE UNCHANGED pipelineVars  BY <2>1 DEF pipelineVars
  <2>2. CASE \/ \E new \in SUBSET Items : StoreItems(new)
             \/ QueueEmbed \/ PollerDies \/ NextDay \/ pruneRejections \/ pruneExpiredMaterial
    BY <2>2 DEF StoreItems, QueueEmbed, PollerDies, NextDay, pruneRejections, pruneExpiredMaterial
  <2>3. ASSUME NEW p \in Runs, EmbedStep(p) \/ StepDies(p) PROVE firstRun' = firstRun
    BY <2>3 DEF EmbedStep, BeginEmbed, FinishEmbed, EmbedConflict, StepDies
  <2>4. ASSUME NEW p \in Runs, SelectStep(p) PROVE firstRun' = firstRun
    BY <2>4 DEF SelectStep, BeginSelect, CountBudgets, StopSelect, FinishSelect, ScreenKeeps, Defer, ScreenRejects,
         JudgeEvent, JudgeRejects
  <2>5. ASSUME NEW p \in Runs, ExtractStep(p) PROVE firstRun' = firstRun
    BY <2>5 DEF ExtractStep, BeginExtract, StopExtract, EndWriting, FinishExtract, Merge, WriteUp, EventGone, dropEvent,
         buildUrgentDigest
  <2> QED  BY <2>1, <2>2, <2>3, <2>4, <2>5 DEF PipelineNext
<1>3. CASE firstRun  BY <1>1, <1>2, <1>3 DEF PipelineInv
<1>4. CASE ~firstRun /\ UNCHANGED pipelineVars
  <2>1. VerdictsSound'
    BY <1>4 DEF PipelineInv, pipelineVars, material, verdicts, history, running, VerdictsSound, RowsDated, LinksSound,
         OneLink, NotBoth, RejectionsDated, SelectionSound, InHand, ExtractionSound, HasRaw, VerdictStands, Linked, Rejected
  <2>2. JobsAlone'  BY <1>4 DEF PipelineInv, pipelineVars, running, JobsAlone
  <2> QED  BY <1>1, <2>1, <2>2 DEF PipelineInv
<1>5. CASE ~firstRun /\ PipelineNext
  <2>1. PipelineTypeOK /\ JobsAlone /\ VerdictsSound  BY <1>5 DEF PipelineInv
  <2>2. VerdictsSound'
    BY <1>1, <1>5, <2>1, AloneStays, StoreInv, NextDayInv, pruneRejectionsInv, pruneExpiredMaterialInv, EmbedInv,
       SelectInv, ExtractInv, DeathInv
  <2> QED  BY <1>1, <1>5, <2>1, <2>2, AloneStays DEF PipelineInv
<1> QED  BY <1>3, <1>4, <1>5

LEMMA PipelineInvHolds == PipelineAssumption => (PipelineSpec => []PipelineInv)
<1> SUFFICES ASSUME PipelineAssumption PROVE PipelineSpec => []PipelineInv  OBVIOUS
<1>1. PipelineInit => PipelineInv  BY InitTypes, InitSound DEF PipelineInv
<1>2. PipelineInv /\ [PipelineNext]_pipelineVars => PipelineInv'  BY NextInv
<1> QED  BY <1>1, <1>2, PTL DEF PipelineSpec

-----------------------------------------------------------------------------
(* Theorems *)

\* Without a first run a dated item is judged once, whatever retention deletes
\* and sources bring again (select.ts:106).
THEOREM ItemsJudgedOnce == PipelineSpec => []JudgedOnce
<1>1. PipelineInv => JudgedOnce  BY DEF PipelineInv, VerdictsSound, VerdictStands, JudgedOnce
<1> QED  BY <1>1, PipelineInvHolds, PipelineAssumption, PTL

\* ... and is rejected or belongs to one event, never both (select.ts:544).
THEOREM VerdictsAreOne == PipelineSpec => []OneVerdict
<1>1. ASSUME PipelineInv PROVE OneVerdict
  <2> SUFFICES ASSUME ~firstRun, NEW i \in Items
               PROVE  /\ Cardinality({l \in links : l[2] = i}) <= 1
                      /\ (\E l \in links : l[2] = i) => ~\E r \in rejections : r[1] = i
    BY DEF OneVerdict
  <2>1. OneLink /\ NotBoth  BY <1>1 DEF PipelineInv, VerdictsSound
  <2>2. \/ {l \in links : l[2] = i} = {}
        \/ \E m \in links : {l \in links : l[2] = i} = {m}
    BY <2>1 DEF OneLink
  <2>3. Cardinality({l \in links : l[2] = i}) \in {0, 1}  BY <2>2, FS_EmptySet, FS_Singleton
  <2> QED  BY <2>1, <2>3 DEF NotBoth
<1> QED  BY <1>1, PipelineInvHolds, PipelineAssumption, PTL

\* An event that was written up stays, with all that was merged into it
\* (cluster.ts:61): a merge or a drop only takes events without facts.
THEOREM WrittenStays == PipelineSpec => StoriesKept
<1>1. ASSUME PipelineAssumption, PipelineInv, [PipelineNext]_pipelineVars, ~firstRun PROVE written \subseteq written'
  <2> USE DEF history, running, verdicts, material
  <2>1. PipelineTypeOK /\ JobsAlone /\ VerdictsSound  BY <1>1 DEF PipelineInv
  <2>2. CASE UNCHANGED pipelineVars  BY <2>2 DEF pipelineVars
  <2>3. CASE ExtractStep("job")
    <3>1. \A e \in extracting["job"].todo : e \notin written  BY <2>1, PendingEvent
    <3>2. \/ UNCHANGED written
          \/ \E e \in extracting["job"].todo : written' = written \ {e} \/ written' = written \cup {e}
      BY <2>3 DEF ExtractStep, BeginExtract, StopExtract, EndWriting, FinishExtract, Merge, WriteUp, EventGone,
           dropEvent, buildUrgentDigest, Without
    <3> QED  BY <3>1, <3>2
  <2>4. CASE PipelineNext /\ ~ExtractStep("job")
    BY <1>1, <2>1, <2>4, AloneStays DEF StoreItems, QueueEmbed, PollerDies, NextDay, pruneRejections,
         pruneExpiredMaterial, EmbedStep, SelectStep, StepDies, BeginEmbed, FinishEmbed, EmbedConflict, BeginSelect,
         CountBudgets, StopSelect, FinishSelect, ScreenKeeps, Defer, ScreenRejects, JudgeEvent, JudgeRejects
  <2> QED  BY <1>1, <2>2, <2>3, <2>4
<1>2. PipelineInv /\ [PipelineNext]_pipelineVars => [~firstRun => written \subseteq written']_pipelineVars
  BY <1>1, PipelineAssumption
<1> QED  BY <1>2, PipelineInvHolds, PipelineAssumption, PTL DEF PipelineSpec, StoriesKept

=============================================================================
