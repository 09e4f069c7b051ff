------------------------------ MODULE Readings ------------------------------
(***************************************************************************)
(* A site is read, and the reading reaches whoever asked: someone writing  *)
(* to the bot (packages/delivery/src/bot-signup.ts, updates.ts), a visitor *)
(* of the start page (apps/web/src/app/api/start, app/start), a member on  *)
(* the onboarding page (api/discovery, onboarding-flow.tsx).  The worker   *)
(* reads (apps/worker/src/jobs/onboarding.ts); what the first two wait for *)
(* is a row (packages/domain/src/onboarding/pending.ts), what a member     *)
(* waits for is the job.                                                   *)
(*                                                                         *)
(* Becoming an account, with the links and claims of Accounts, is left out *)
(* here: a row is used, or it is not.                                      *)
(***************************************************************************)
EXTENDS Integers, Sequences, FiniteSets

CONSTANTS
    Chatters, Visitors, Members,
    Updates,       \* updates of the bot handled side by side
    Sites,          \* what may be sent
    Described,      \* those of them that are a sentence and no address
    Containing,     \* of each site, those whose address contains its host
    DayLimit,       \* IP_DISCOVERY_PER_DAY
    MonthLimit,     \* discoveryPerMonth of the members' plan
    MaxChecks,      \* bound on questions of a page under way
    MaxRows, LastDay,
    none

ASSUME ReadingsAssumption ==
    /\ Described \subseteq Sites /\ Containing \in [Sites -> SUBSET Sites]
    /\ \A s \in Sites : s \in Containing[s]
    /\ {DayLimit, MonthLimit, MaxChecks, MaxRows, LastDay} \subseteq Nat
    /\ none \notin Sites \cup Chatters \cup Visitors \cup Members
    /\ Chatters \cap Visitors = {} /\ Members \cap (Chatters \cup Visitors) = {}

VARIABLES
    date,
    rows,       \* what was asked for, in order
    queue,      \* rows whose job waits
    worker,     \* the row whose job is at work, and how far it is
    handler,    \* what each update is in the middle of
    view,      \* the page of each visitor and member
    checks,     \* a member's questions to the server under way
    spent,      \* rows of members with a cost row
    said,       \* history: what the bot said of which row, to whom, and of which site
    lost,       \* history: rows whose reading or message was lost
    crowded     \* history: two updates, or two questions, of one person at once

readingsVars == <<date, rows, queue, worker, handler, view, checks, spent, said, lost, crowded>>

AtRest == [step |-> "idle", who |-> none, site |-> none, row |-> 0]
Resting == [row |-> 0, step |-> "free"]
Page(kind, row) == [kind |-> kind, row |-> row]

ReadingsInit ==
    /\ date = 0 /\ rows = <<>> /\ queue = {} /\ worker = Resting
    /\ handler = [h \in Updates |-> AtRest]
    /\ view = [v \in Visitors \cup Members |-> Page("input", 0)]
    /\ checks = [m \in Members |-> {}] /\ spent = {} /\ said = {} /\ lost = {} /\ crowded = {}

-----------------------------------------------------------------------------
(* The rows *)

\* A row is found for a day from its making.
Valid(r) == ~rows[r].used /\ rows[r].day = date
Waiting(r) == rows[r].result = none /\ ~rows[r].error

findRunningTelegramSignup(p) == {r \in DOMAIN rows : rows[r].owner = p /\ Valid(r) /\ Waiting(r)}

\* Mutant: whatever the pre-selection found.
anyCandidate(site) ==
    {rows[r].result : r \in {x \in DOMAIN rows : Valid(x) /\ rows[x].site \in Containing[site] \ Described}} \ {none}

\* A reading of the very same address is taken over; the pre-selection also
\* finds addresses that contain it.
findCachedDiscovery(site) ==
    {rows[r].result : r \in {x \in DOMAIN rows : Valid(x) /\ rows[x].site = site /\ site \notin Described}} \ {none}

assertAnonDiscoveryAllowed(p) ==
    Cardinality({r \in DOMAIN rows : rows[r].by = p /\ rows[r].day = date}) < DayLimit

createPendingOnboarding(p, site) ==
    /\ Len(rows) < MaxRows
    /\ rows' = Append(rows, [by |-> p, owner |-> none, site |-> site, result |-> none,
                             error |-> FALSE, used |-> FALSE, day |-> date])

updatePendingDiscoveryResult(r, result) == rows' = [rows EXCEPT ![r].result = result, ![r].error = FALSE]
recordPendingDiscoveryFailure(r) == rows' = [rows EXCEPT ![r].error = TRUE]

\* The person confirms, and the row is used.
Confirm(r) ==
    /\ Valid(r) /\ rows[r].result # none /\ rows' = [rows EXCEPT ![r].used = TRUE]
    /\ UNCHANGED <<date, queue, worker, handler, view, checks, spent, said, lost, crowded>>

NightFalls ==
    /\ date < LastDay /\ date' = date + 1 /\ spent' = {}
    /\ UNCHANGED <<rows, queue, worker, handler, view, checks, said, lost, crowded>>

-----------------------------------------------------------------------------
(* The bot *)

Says(to, r, what) == [to |-> to, row |-> r, what |-> what, site |-> rows[r].result]

Goes(h, step, row) == handler' = [handler EXCEPT ![h].step = step, ![h].row = row]

\* A message from someone without an account: nothing more while a reading of
\* his is running.
handleSignupInput(h, p, site) ==
    /\ handler[h] = AtRest
    /\ findRunningTelegramSignup(p) = {}
    /\ handler' = [handler EXCEPT ![h] = [AtRest EXCEPT !.step = "start", !.who = p, !.site = site]]
    /\ crowded' = IF \E g \in Updates : handler[g].who = p THEN crowded \cup {p} ELSE crowded
    /\ UNCHANGED <<date, rows, queue, worker, view, checks, spent, said, lost>>

\* Over the limit the bot says so.
startAnonDiscovery(h) ==
    /\ handler[h].step = "start"
    /\ IF assertAnonDiscoveryAllowed(handler[h].who)
       THEN /\ createPendingOnboarding(handler[h].who, handler[h].site)
            /\ Goes(h, IF findCachedDiscovery(handler[h].site) # {} THEN "copy" ELSE "own", Len(rows) + 1)
       ELSE /\ handler' = [handler EXCEPT ![h] = AtRest] /\ UNCHANGED rows
    /\ UNCHANGED <<date, queue, worker, view, checks, spent, said, lost, crowded>>

\* The reading found is put on the new row: a row that was made and not filled
\* looks as if it were running.
CopyResult(h) ==
    /\ handler[h].step = "copy"
    /\ \E found \in findCachedDiscovery(handler[h].site) :
           updatePendingDiscoveryResult(handler[h].row, found)
    /\ Goes(h, "own", handler[h].row)
    /\ UNCHANGED <<date, queue, worker, view, checks, spent, said, lost, crowded>>

\* Only now does the row know its chat.
startTelegramSignup(h) ==
    /\ handler[h].step = "own"
    /\ rows' = [rows EXCEPT ![handler[h].row].owner = handler[h].who]
    /\ Goes(h, IF rows[handler[h].row].result = none THEN "queue" ELSE "list", handler[h].row)
    /\ UNCHANGED <<date, queue, worker, view, checks, spent, said, lost, crowded>>

EnqueueReading(h) ==
    /\ handler[h].step = "queue"
    /\ queue' = queue \cup {handler[h].row} /\ handler' = [handler EXCEPT ![h] = AtRest]
    /\ UNCHANGED <<date, rows, worker, view, checks, spent, said, lost, crowded>>

ListCopy(h) ==
    /\ handler[h].step = "list"
    /\ said' = said \cup {Says(rows[handler[h].row].owner, handler[h].row, "listing")}
    /\ handler' = [handler EXCEPT ![h] = AtRest]
    /\ UNCHANGED <<date, rows, queue, worker, view, checks, spent, lost, crowded>>

\* The process dies, or the queue or Telegram does not answer: the person is
\* told to try again, or nothing; the row stays as it is.
HandlerFails(h) ==
    /\ handler[h] # AtRest /\ handler' = [handler EXCEPT ![h] = AtRest]
    /\ lost' = lost \cup ({handler[h].row} \ {0})
    /\ UNCHANGED <<date, rows, queue, worker, view, checks, spent, said, crowded>>

-----------------------------------------------------------------------------
(* The start page *)

\* The row and, unless the process dies between, its job; the browser then
\* watches the row.  The answer may not reach the browser.
startDiscovery(v, site, fails) ==
    /\ view[v].kind \in {"input", "failed"} /\ assertAnonDiscoveryAllowed(v)
    /\ Len(rows) < MaxRows
    /\ LET r == Len(rows) + 1
           Made(found) == [by |-> v, owner |-> none, site |-> site, result |-> found,
                           error |-> FALSE, used |-> FALSE, day |-> date]
       IN \E found \in IF findCachedDiscovery(site) = {} THEN {none} ELSE findCachedDiscovery(site) :
              /\ rows' = Append(rows, Made(IF fails THEN none ELSE found))
              /\ queue' = IF fails \/ found # none THEN queue ELSE queue \cup {r}
              /\ view' = IF fails THEN view ELSE [view EXCEPT ![v] = Page("reading", r)]
              /\ lost' = IF fails THEN lost \cup {r} ELSE lost
    /\ UNCHANGED <<date, worker, handler, checks, spent, said, crowded>>

\* Asked again only once the last answer is in; one that is dropped changes
\* nothing.
poll(v) ==
    /\ view[v].kind = "reading"
    /\ LET r == view[v].row IN
           view' = [view EXCEPT ![v] =
               IF ~Valid(r) THEN Page("failed", 0)
               ELSE IF rows[r].result # none THEN Page("review", r)
               ELSE IF rows[r].error THEN Page("failed", 0) ELSE @]
    /\ UNCHANGED <<date, rows, queue, worker, handler, checks, spent, said, lost, crowded>>

-----------------------------------------------------------------------------
(* The onboarding page of a member *)

assertCanRunDiscovery == Cardinality(spent) < MonthLimit

StartAsMember(m, site) ==
    /\ view[m].kind = "input" /\ assertCanRunDiscovery
    /\ createPendingOnboarding(m, site)
    /\ queue' = queue \cup {Len(rows) + 1}
    /\ view' = [view EXCEPT ![m] = Page("reading", Len(rows) + 1)]
    /\ UNCHANGED <<date, worker, handler, checks, spent, said, lost, crowded>>

\* Asked every two seconds, whether or not the last question was answered.
AskDiscovery(m) ==
    /\ view[m].kind = "reading" /\ Cardinality(checks[m]) < MaxChecks
    /\ LET n == CHOOSE k \in 1 .. MaxChecks : \A c \in checks[m] : c[2] # k IN
           checks' = [checks EXCEPT ![m] = @ \cup {<<view[m].row, n>>}]
    /\ crowded' = IF checks[m] = {} THEN crowded ELSE crowded \cup {m}
    /\ UNCHANGED <<date, rows, queue, worker, handler, view, spent, said, lost>>

\* What an answer makes of the page, whatever it shows by now.
PageAfter(r) ==
    CASE r \in queue \/ worker.row = r -> {}
      [] r \in lost \/ rows[r].error -> {Page("input", 0)}
      [] OTHER -> {Page("review", r), Page("input", 0)}

checkDiscovery(m, dropped) ==
    /\ \E c \in checks[m] :
           /\ checks' = [checks EXCEPT ![m] = @ \ {c}]
           /\ LET next == IF dropped THEN {Page("input", 0)} ELSE PageAfter(c[1]) IN
                  \/ next = {} /\ UNCHANGED view
                  \/ \E n \in next : view' = [view EXCEPT ![m] = n]
    /\ UNCHANGED <<date, rows, queue, worker, handler, spent, said, lost, crowded>>

SaveReview(m) ==
    /\ view[m].kind = "review" /\ view' = [view EXCEPT ![m] = Page("saved", @.row)]
    /\ UNCHANGED <<date, rows, queue, worker, handler, checks, spent, said, lost, crowded>>

-----------------------------------------------------------------------------
(* The worker *)

ByMember(r) == rows[r].by \in Members

TakeJob(r) ==
    /\ worker = Resting /\ r \in queue
    /\ queue' = queue \ {r}
    /\ worker' = [row |-> r, step |-> IF ByMember(r) /\ ~assertCanRunDiscovery THEN "refused" ELSE "reading"]
    /\ UNCHANGED <<date, rows, handler, view, checks, spent, said, lost, crowded>>

\* The model is asked, once more if it hiccupped, and its cost recorded; a
\* reading that failed early has none.
discover(reads, costs) ==
    /\ worker.step = "reading"
    /\ IF reads THEN updatePendingDiscoveryResult(worker.row, rows[worker.row].site)
       ELSE recordPendingDiscoveryFailure(worker.row)
    /\ (reads => costs) /\ spent' = IF costs /\ ByMember(worker.row) THEN spent \cup {worker.row} ELSE spent
    /\ worker' = [worker EXCEPT !.step = "tell"]
    /\ UNCHANGED <<date, queue, handler, view, checks, said, lost, crowded>>

\* No model is set up, or the plan has no reading left: kept, and not told in a
\* chat.
CannotRead ==
    /\ worker.step \in {"reading", "refused"} /\ recordPendingDiscoveryFailure(worker.row)
    /\ lost' = lost \cup {worker.row} /\ worker' = Resting
    /\ UNCHANGED <<date, queue, handler, view, checks, spent, said, crowded>>

\* The row is read again: only one that is valid and has a chat is told of.
tellTelegramSignup ==
    /\ worker.step = "tell" /\ worker' = Resting
    /\ LET r == worker.row IN
           said' = IF Valid(r) /\ rows[r].owner # none
                   THEN said \cup {Says(rows[r].owner, r, IF rows[r].error THEN "failed" ELSE "listing")}
                   ELSE said
    /\ UNCHANGED <<date, rows, queue, handler, view, checks, spent, lost, crowded>>

\* The worker dies, or Telegram does not take the message.  A job that died is
\* not run again.
WorkerFails ==
    /\ worker # Resting /\ worker' = Resting /\ lost' = lost \cup {worker.row}
    /\ UNCHANGED <<date, rows, queue, handler, view, checks, spent, said, crowded>>

ReadingsNext ==
    \/ NightFalls
    \/ \E r \in DOMAIN rows : Confirm(r) \/ TakeJob(r)
    \/ \E h \in Updates :
           \/ \E p \in Chatters, s \in Sites : handleSignupInput(h, p, s)
           \/ startAnonDiscovery(h) \/ CopyResult(h) \/ startTelegramSignup(h)
           \/ EnqueueReading(h) \/ ListCopy(h) \/ HandlerFails(h)
    \/ \E v \in Visitors : poll(v) \/ \E s \in Sites, fails \in BOOLEAN : startDiscovery(v, s, fails)
    \/ \E m \in Members :
           \/ AskDiscovery(m) \/ SaveReview(m)
           \/ \E s \in Sites : StartAsMember(m, s)
           \/ \E dropped \in BOOLEAN : checkDiscovery(m, dropped)
    \/ \E reads, costs \in BOOLEAN : discover(reads, costs)
    \/ CannotRead \/ tellTelegramSignup \/ WorkerFails

ReadingsSpec == ReadingsInit /\ [][ReadingsNext]_readingsVars

-----------------------------------------------------------------------------
(* Properties *)

\* The values the variables take.
ReadingsTypeOK ==
    /\ date \in 0 .. LastDay /\ Len(rows) <= MaxRows
    /\ \A r \in DOMAIN rows : rows[r].owner \in Chatters \cup {none} /\ rows[r].result \in Sites \cup {none}
    /\ queue \cup spent \cup lost \subseteq DOMAIN rows /\ worker.row \in DOMAIN rows \cup {0}
    /\ \A h \in Updates : handler[h].row \in DOMAIN rows \cup {0}
    /\ \A p \in Visitors \cup Members : view[p].row \in DOMAIN rows \cup {0}
    /\ Cardinality(spent) <= MaxRows

InHand(r) == worker.row = r \/ r \in queue \/ \E h \in Updates : handler[h].row = r

\* A reading reaches whoever asked for it, and is of what he sent
\* (pending.ts:121-127, bot-signup.ts:127-131, onboarding.ts:133-138).  Whatever
\* was copied from an earlier row is of the very same address.  Who waits waits
\* for something: a row that looks as if it were running is at work, unless
\* something died on the way.  The bot reads one site of a person at a time,
\* unless two of his messages were handled side by side, and tells the person
\* of every row it did not lose.  A member's page shows the reading he last
\* asked for, unless two of its questions overlapped.  Readings that cost stay
\* within the plan, as the job looks again before it starts.
HeardOfReading ==
    /\ \A r \in DOMAIN rows : rows[r].result \in {none, rows[r].site}
    /\ \A s \in said : s.to = rows[s.row].owner /\ s.what = "listing" => s.site = rows[s.row].site
    /\ \A r \in DOMAIN rows : Waiting(r) => InHand(r) \/ r \in lost
    /\ \A p \in Chatters \ crowded : Cardinality(findRunningTelegramSignup(p)) <= 1
    /\ \A r \in DOMAIN rows :
           rows[r].owner # none /\ Valid(r) /\ ~InHand(r) /\ r \notin lost =>
               \E s \in said : s.row = r /\ s.to = rows[r].by
    /\ \A m \in Members \ crowded : view[m].kind \in {"review", "saved"} =>
           view[m].row \in DOMAIN rows /\ \A r \in DOMAIN rows : rows[r].by = m => r <= view[m].row
    /\ Cardinality(spent) <= MonthLimit
=============================================================================
