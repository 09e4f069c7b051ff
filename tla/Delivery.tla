------------------------------ MODULE Delivery ------------------------------
(***************************************************************************)
(* The way of a digest from the builder to its reader: the row in digests, *)
(* the digest.deliver jobs of the queue, the handlers that run them, the   *)
(* hourly tick that looks for what was not sent, the bot's /start that     *)
(* sends the first digest itself, and the reader's settings                *)
(* (packages/delivery, packages/digest, apps/worker/src/jobs/digests.ts).  *)
(*                                                                         *)
(* One profile; profiles share nothing here but the worker.  A digest is   *)
(* its window and its channel, as in the unique index of the table.        *)
(***************************************************************************)
EXTENDS Naturals, FiniteSets

CONSTANTS
    Windows,      \* windows a digest may cover, in the order of their ends
    Urgent,       \* those that are the moment of one urgent event
    Handlers,     \* runs of the delivery handler that may be in progress at once
    NoDigest,
    ReaderChannels, \* channels the reader chooses between in this instance
    Messages,     \* messages a digest is rendered into for Telegram
    RetryLimit,   \* retryLimit of the queue
    HourSeconds,  \* seconds the queue counts in an hour; more compresses the waits
    MaxCrashes    \* bound on handlers that die or outlive their job

Channels == {"telegram", "email", "web_only"}
Digests == Windows \X Channels
SentDigests == Windows \X {"telegram", "email"}

\* RETRY_DELAYS_MINUTES and MAX_RETRIES.
RetryDelayMinutes == <<5, 30, 120>>
MaxRetries == 3

ASSUME DeliveryAssumption ==
    /\ Windows \subseteq Nat /\ Urgent \subseteq Windows
    /\ NoDigest \notin Digests
    /\ ReaderChannels \subseteq {"telegram", "email"}
    /\ Messages \in Nat \ {0} /\ RetryLimit \in Nat /\ HourSeconds \in Nat \ {0}
    /\ MaxCrashes \in Nat

VARIABLES
    delivery,   \* watch_profiles.delivery: channel, bound chat, email paused
    digest,     \* digests: status, and the attempt its failure_reason counts
    got,        \* how many messages of each digest have reached the reader
    draft,      \* digests a builder has decided on and not yet written
    unqueued,   \* digests written whose builder has not queued the delivery yet
    created,    \* jobs waiting in the queue, by the digest that is their key ...
    wait,       \* ... and the hours until they may start
    retry,      \* jobs to be run again: which retry it is, 0 for none
    active,     \* jobs being run ...
    tries,      \* ... and the retries they have used
    run,        \* what each handler is in the middle of
    ticking,    \* pending digests the hourly tick has listed and not yet queued
    binder,     \* what the bot's /start handler is in the middle of
    crashes

jobs == <<created, wait, retry, active, tries>>
building == <<draft, unqueued>>
vars == <<delivery, digest, got, building, jobs, run, ticking, binder, crashes>>

\* What sending can end in; a bot that was blocked is refused (and noted for the reports).
Errors == {"network", "server", "refused"}
Idle == [op |-> "idle", digest |-> NoDigest, sent |-> 0, attempt |-> 0, error |-> "none", owns |-> FALSE]
NoBind == [op |-> "idle", window |-> 0, sent |-> 0]

Settings == [channel: {"telegram", "email"}, chat: BOOLEAN, paused: BOOLEAN]
Row == [status: {"none", "pending", "delivered", "failed"}, attempt: 0 .. MaxRetries]
Run == [op: {"idle", "send", "record", "defer", "done"}, digest: SentDigests \cup {NoDigest},
        sent: 0 .. Messages, attempt: 0 .. MaxRetries,
        error: Errors \cup {"none", "unbound"}, owns: BOOLEAN]
Binder == [op: {"idle", "find", "send", "insert"}, window: Windows \cup {0}, sent: 0 .. Messages]

TypeOK ==
    /\ delivery \in Settings
    /\ digest \in [Digests -> Row]
    /\ got \in [Digests -> 0 .. Messages]
    /\ draft \subseteq Digests /\ unqueued \subseteq SentDigests
    /\ created \subseteq SentDigests /\ active \subseteq SentDigests /\ ticking \subseteq SentDigests
    /\ wait \in [Digests -> Nat]
    /\ retry \in [Digests -> 0 .. RetryLimit] /\ tries \in [Digests -> 0 .. RetryLimit]
    /\ run \in [Handlers -> Run]
    /\ \A h \in Handlers : run[h].op # "idle" => run[h].digest \in SentDigests
    /\ binder \in Binder
    /\ binder.op \in {"send", "insert"} => binder.window \in Windows
    /\ crashes \in Nat

-----------------------------------------------------------------------------
(* Settings and building *)

\* The channel a digest written now is for.
ChannelNow ==
    IF delivery.channel = "email"
    THEN IF delivery.paused THEN "web_only" ELSE "email"
    ELSE IF delivery.chat THEN "telegram" ELSE "web_only"

Pending(d) == digest[d].status = "pending"

Init ==
    /\ delivery \in [channel: ReaderChannels, chat: BOOLEAN, paused: {FALSE}]
    /\ digest = [d \in Digests |-> [status |-> "none", attempt |-> 0]]
    /\ got = [d \in Digests |-> 0]
    /\ draft = {} /\ unqueued = {} /\ created = {} /\ active = {} /\ ticking = {}
    /\ wait = [d \in Digests |-> 0]
    /\ retry = [d \in Digests |-> 0] /\ tries = [d \in Digests |-> 0]
    /\ run = [h \in Handlers |-> Idle]
    /\ binder = NoBind /\ crashes = 0

updateDeliverySettings(c) ==
    /\ delivery' = [delivery EXCEPT !.channel = c]
    /\ UNCHANGED <<digest, got, building, jobs, run, ticking, binder, crashes>>

unbindTelegram ==
    /\ delivery' = [delivery EXCEPT !.chat = FALSE]
    /\ UNCHANGED <<digest, got, building, jobs, run, ticking, binder, crashes>>

\* pauseEmailDelivery and resumeEmailDelivery: the link comes in an email.
PauseEmail(stop) ==
    /\ \E w \in Windows : got[<<w, "email">>] > 0
    /\ delivery' = [delivery EXCEPT !.paused = stop]
    /\ UNCHANGED <<digest, got, building, jobs, run, ticking, binder, crashes>>

\* A builder reads the settings, finds no digest for the window ...
BeginBuild(w) ==
    /\ \A c \in Channels : digest[<<w, c>>].status = "none" /\ <<w, c>> \notin draft
    /\ draft' = draft \cup {<<w, ChannelNow>>}
    /\ UNCHANGED <<delivery, digest, got, unqueued, jobs, run, ticking, binder, crashes>>

\* ... and writes it.  The scheduled build queues both channels, the first run
\* and the urgent build queue Telegram only.
WriteDigest(d) ==
    /\ d \in draft
    /\ draft' = draft \ {d}
    /\ digest' = [digest EXCEPT ![d].status = IF d[2] = "web_only" THEN "delivered" ELSE "pending"]
    /\ \/ d[2] = "telegram" /\ unqueued' = unqueued \cup {d}
       \/ d[2] = "email" /\ d[1] \notin Urgent /\ unqueued' = unqueued \cup {d}
       \/ d[2] # "telegram" /\ UNCHANGED unqueued
    /\ UNCHANGED <<delivery, got, jobs, run, ticking, binder, crashes>>

\* A send to the stately queue does nothing when a job with the key is waiting.
Send(d, hours) ==
    /\ created' = created \cup {d}
    /\ wait' = IF d \in created THEN wait ELSE [wait EXCEPT ![d] = hours]

QueueBuilt(d) ==
    /\ d \in unqueued
    /\ unqueued' = unqueued \ {d}
    /\ Send(d, 0)
    /\ UNCHANGED <<delivery, digest, got, draft, retry, active, tries, run, ticking, binder, crashes>>

\* The builder dies between two of its steps; run again, it finds its digest
\* and queues nothing.
BuilderCrash(d) ==
    /\ crashes < MaxCrashes /\ d \in draft \cup unqueued
    /\ draft' = draft \ {d} /\ unqueued' = unqueued \ {d}
    /\ crashes' = crashes + 1
    /\ UNCHANGED <<delivery, digest, got, jobs, run, ticking, binder>>

-----------------------------------------------------------------------------
(* The hourly tick *)

\* Mutant: the tick forgets the email digests.
ListPendingTelegram == {d \in SentDigests : Pending(d) /\ d[2] = "telegram"}

\* listPendingTelegramDigests and listPendingEmailDigests.
ListPending == {d \in SentDigests : Pending(d)}

\* An hour passes: waiting jobs come closer and the tick lists what is pending.
Hour ==
    /\ ticking = {}
    /\ wait' = [d \in Digests |-> IF wait[d] > 0 THEN wait[d] - 1 ELSE 0]
    /\ ticking' = ListPending
    /\ UNCHANGED <<delivery, digest, got, building, created, retry, active, tries, run, binder, crashes>>

TickQueue(d) ==
    /\ d \in ticking
    /\ ticking' = ticking \ {d}
    /\ Send(d, 0)
    /\ UNCHANGED <<delivery, digest, got, building, retry, active, tries, run, binder, crashes>>

TickCrash ==
    /\ crashes < MaxCrashes /\ ticking # {}
    /\ ticking' = {} /\ crashes' = crashes + 1
    /\ UNCHANGED <<delivery, digest, got, building, jobs, run, binder>>

-----------------------------------------------------------------------------
(* The delivery handler *)

\* How many messages a digest is sent as.
Parts(d) == IF d[2] = "telegram" THEN Messages ELSE 1

\* Telegram refuses with an AppError that carries the status; what the mail
\* library throws is no AppError, and is never retried.
isRetryableError(d, error) == d[2] = "telegram" /\ error \in {"network", "server"}

\* Hours until a job sent with startAfter = minutes * 60 * 1000, which the
\* queue takes for seconds.
RetryWait(attempt) == (RetryDelayMinutes[attempt] * 60 * 1000) \div HourSeconds

\* The digest is read once, at the start: the chat and the attempt are those
\* of that moment, and its status is not looked at.
Start(h, d) ==
    LET unbound == d[2] = "telegram" /\ ~delivery.chat
    IN run' = [run EXCEPT ![h] =
            [op |-> IF unbound THEN "record" ELSE "send", digest |-> d, sent |-> 0,
             attempt |-> digest[d].attempt, error |-> IF unbound THEN "unbound" ELSE "none",
             owns |-> TRUE]]

\* A handler takes a job; the queue runs one job of a key at a time.
Fetch(h, d) ==
    /\ run[h].op = "idle" /\ d \notin active
    /\ \/ /\ d \in created /\ wait[d] = 0
          /\ created' = created \ {d} /\ tries' = [tries EXCEPT ![d] = 0] /\ UNCHANGED retry
       \/ /\ retry[d] > 0
          /\ tries' = [tries EXCEPT ![d] = retry[d]] /\ retry' = [retry EXCEPT ![d] = 0]
          /\ UNCHANGED created
    /\ active' = active \cup {d}
    /\ Start(h, d)
    /\ UNCHANGED <<delivery, digest, got, building, wait, ticking, binder, crashes>>

\* The reader has the first n messages of d.
Receive(d, n) == got' = [got EXCEPT ![d] = IF n > @ THEN n ELSE @]

\* Mutant: a digest is called delivered once its last message but one is out.
SendMessageHasty(h) ==
    LET d == run[h].digest
        n == run[h].sent + 1
    IN
    /\ run[h].op = "send"
    /\ Receive(d, n)
    /\ run' = [run EXCEPT ![h].sent = n, ![h].op = IF n + 1 >= Parts(d) THEN "record" ELSE "send"]
    /\ UNCHANGED <<delivery, digest, building, jobs, ticking, binder, crashes>>

\* One message goes out; after the last one the outcome is recorded.
SendMessage(h) ==
    LET d == run[h].digest
        n == run[h].sent + 1
    IN
    /\ run[h].op = "send"
    /\ Receive(d, n)
    /\ run' = [run EXCEPT ![h].sent = n, ![h].op = IF n = Parts(d) THEN "record" ELSE "send"]
    /\ UNCHANGED <<delivery, digest, building, jobs, ticking, binder, crashes>>

\* Sending fails.  After a network error the message may have arrived all the same.
SendFails(h, error) ==
    LET d == run[h].digest
    IN
    /\ run[h].op = "send"
    /\ \/ UNCHANGED got
       \/ error = "network" /\ Receive(d, run[h].sent + 1)
    /\ run' = [run EXCEPT ![h].op = "record", ![h].sent = 0, ![h].error = error]
    /\ UNCHANGED <<delivery, digest, building, jobs, ticking, binder, crashes>>

\* Mutant: one attempt more than there are delays.
RecordOneMore(h) ==
    LET r == run[h]
        again == isRetryableError(r.digest, r.error) /\ r.attempt <= MaxRetries
    IN
    /\ r.op = "record"
    /\ digest' =
         CASE r.error = "none" -> [digest EXCEPT ![r.digest] = [status |-> "delivered", attempt |-> 0]]
           [] again -> [digest EXCEPT ![r.digest].attempt = r.attempt + 1]
           [] OTHER -> [digest EXCEPT ![r.digest] = [status |-> "failed", attempt |-> 0]]
    /\ run' = [run EXCEPT ![h] = IF again
           THEN [Idle EXCEPT !.op = "defer", !.digest = r.digest, !.attempt = r.attempt + 1, !.owns = r.owns]
           ELSE [Idle EXCEPT !.op = "done", !.digest = r.digest, !.owns = r.owns]]
    /\ UNCHANGED <<delivery, got, building, jobs, ticking, binder, crashes>>

\* markDigestDelivered, scheduleRetry or markDigestFailed: a write by id,
\* whatever the row has become meanwhile.
Record(h) ==
    LET r == run[h]
        again == isRetryableError(r.digest, r.error) /\ r.attempt < MaxRetries
    IN
    /\ r.op = "record"
    /\ digest' =
         CASE r.error = "none" -> [digest EXCEPT ![r.digest] = [status |-> "delivered", attempt |-> 0]]
           [] again -> [digest EXCEPT ![r.digest].attempt = r.attempt + 1]
           [] OTHER -> [digest EXCEPT ![r.digest] = [status |-> "failed", attempt |-> 0]]
    /\ run' = [run EXCEPT ![h] = IF again
           THEN [Idle EXCEPT !.op = "defer", !.digest = r.digest, !.attempt = r.attempt + 1, !.owns = r.owns]
           ELSE [Idle EXCEPT !.op = "done", !.digest = r.digest, !.owns = r.owns]]
    /\ UNCHANGED <<delivery, got, building, jobs, ticking, binder, crashes>>

\* The handler asks the queue to run the digest again later.
Defer(h) ==
    /\ run[h].op = "defer"
    /\ Send(run[h].digest, RetryWait(run[h].attempt))
    /\ run' = [run EXCEPT ![h].op = "done", ![h].attempt = 0]
    /\ UNCHANGED <<delivery, digest, got, building, retry, active, tries, ticking, binder, crashes>>

\* The handler returns and its job, if it still has it, is completed.
Complete(h) ==
    /\ run[h].op = "done"
    /\ IF run[h].owns
       THEN active' = active \ {run[h].digest} /\ tries' = [tries EXCEPT ![run[h].digest] = 0]
       ELSE UNCHANGED <<active, tries>>
    /\ run' = [run EXCEPT ![h] = Idle]
    /\ UNCHANGED <<delivery, digest, got, building, created, wait, retry, ticking, binder, crashes>>

\* The worker dies, or the handler throws: its job stays active until it expires.
HandlerCrash(h) ==
    /\ crashes < MaxCrashes /\ run[h].op # "idle"
    /\ run' = [run EXCEPT ![h] = Idle]
    /\ crashes' = crashes + 1
    /\ UNCHANGED <<delivery, digest, got, building, jobs, ticking, binder>>

OwnersOf(d) == {h \in Handlers : run[h].owns /\ run[h].digest = d}

\* A job nobody finishes in time is run again, RetryLimit times at most; a slow
\* handler goes on without it.
Expire(d) ==
    /\ d \in active
    /\ OwnersOf(d) # {} => crashes < MaxCrashes
    /\ crashes' = IF OwnersOf(d) # {} THEN crashes + 1 ELSE crashes
    /\ active' = active \ {d} /\ tries' = [tries EXCEPT ![d] = 0]
    /\ retry' = IF tries[d] < RetryLimit /\ retry[d] = 0 THEN [retry EXCEPT ![d] = tries[d] + 1] ELSE retry
    /\ run' = [h \in Handlers |-> IF h \in OwnersOf(d) THEN [run[h] EXCEPT !.owns = FALSE] ELSE run[h]]
    /\ UNCHANGED <<delivery, digest, got, building, created, wait, ticking, binder>>

-----------------------------------------------------------------------------
(* The bot's /start with a binding code *)

\* consumeBindingCode attaches the chat.
Bind ==
    /\ binder.op = "idle"
    /\ delivery' = [delivery EXCEPT !.chat = TRUE]
    /\ binder' = [NoBind EXCEPT !.op = "find"]
    /\ UNCHANGED <<digest, got, building, jobs, run, ticking, crashes>>

\* Windows of the regular digests that were only shown on the web.
ShownWindows == {w \in Windows \ Urgent : digest[<<w, "web_only">>].status # "none"}

\* findRecentWebOnlyDigest: the latest of them, if it is recent.
BindFind ==
    /\ binder.op = "find"
    /\ \/ binder' = NoBind
       \/ \E w \in ShownWindows :
            /\ \A v \in ShownWindows : v <= w
            /\ binder' = [op |-> "send", window |-> w, sent |-> 0]
    /\ UNCHANGED <<delivery, digest, got, building, jobs, run, ticking, crashes>>

BindSend ==
    /\ binder.op = "send"
    /\ Receive(<<binder.window, "telegram">>, binder.sent + 1)
    /\ binder' = [binder EXCEPT !.sent = @ + 1, !.op = IF binder.sent + 1 = Messages THEN "insert" ELSE "send"]
    /\ UNCHANGED <<delivery, digest, building, jobs, run, ticking, crashes>>

\* createTelegramDigestFromWebOnly: the digest just sent is inserted, as pending.
BindInsert ==
    LET d == <<binder.window, "telegram">>
    IN
    /\ binder.op = "insert"
    /\ digest' = IF digest[d].status = "none" THEN [digest EXCEPT ![d].status = "pending"] ELSE digest
    /\ binder' = NoBind
    /\ UNCHANGED <<delivery, got, building, jobs, run, ticking, crashes>>

\* A message is refused, or the web application stops: the code is spent.
BindFails ==
    /\ binder.op # "idle"
    /\ binder' = NoBind
    /\ UNCHANGED <<delivery, digest, got, building, jobs, run, ticking, crashes>>

-----------------------------------------------------------------------------
HandlerStep(h) == SendMessage(h) \/ (\E e \in Errors : SendFails(h, e)) \/ Record(h) \/ Defer(h) \/ Complete(h)

Next ==
    \/ \E c \in ReaderChannels : updateDeliverySettings(c)
    \/ unbindTelegram
    \/ \E stop \in BOOLEAN : PauseEmail(stop)
    \/ \E w \in Windows : BeginBuild(w)
    \/ \E d \in Digests : WriteDigest(d) \/ QueueBuilt(d) \/ BuilderCrash(d)
    \/ Hour \/ TickCrash
    \/ \E d \in SentDigests : TickQueue(d) \/ Expire(d) \/ \E h \in Handlers : Fetch(h, d)
    \/ \E h \in Handlers : HandlerStep(h) \/ HandlerCrash(h)
    \/ Bind \/ BindFind \/ BindSend \/ BindInsert \/ BindFails

Spec == Init /\ [][Next]_vars

\* The cron fires every hour, the tick queues what it listed, the worker takes
\* what may start and carries a handler to its end, and an abandoned job expires.
Fairness ==
    /\ WF_vars(Hour)
    /\ \A d \in SentDigests :
         /\ WF_vars(TickQueue(d))
         /\ WF_vars(\E h \in Handlers : Fetch(h, d))
         /\ WF_vars(OwnersOf(d) = {} /\ Expire(d))
    /\ \A h \in Handlers : WF_vars(HandlerStep(h))

FairSpec == Spec /\ Fairness

-----------------------------------------------------------------------------
(* Properties *)

\* Delivery implements the promise: a digest is called delivered only once
\* every message of it has reached the reader, through whichever handlers,
\* retries and crashes, and a digest that was settled is never pending again.
Promise == INSTANCE DigestPromise WITH
    Sent <- SentDigests,
    OnlyShown <- Windows \X {"web_only"},
    status <- [d \in Digests |-> digest[d].status],
    reached <- {d \in SentDigests : got[d] >= Parts(d)}
KeepsPromise == Promise!Spec

\* Nothing built is forgotten: a pending digest is delivered or failed in the
\* end, whatever the first run, a restart or the bot left unqueued.
EverySettles == \A d \in SentDigests : Pending(d) ~> ~Pending(d)

\* The guard against sending the same morning twice: no message of a digest
\* goes out once the digest is recorded as delivered.
NotSentAgain ==
    [][\A h \in Handlers :
         run'[h].sent > run[h].sent => digest[run[h].digest].status # "delivered"]_vars

\* The tick picks up what an outage left behind: when it has dealt with a
\* pending digest, a run of it is under way or comes within two hours.
PickedUpByTick ==
    [][\A d \in ticking \ ticking' :
         (Pending(d) /\ crashes' = crashes)
           => (d \in active' \/ retry'[d] > 0 \/ (d \in created' /\ wait'[d] <= 2))]_vars

=============================================================================
