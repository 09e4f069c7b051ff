--------------------------- MODULE DeliveryProofs ---------------------------
(***************************************************************************)
(* What TLAPS proves of Delivery for every number of windows, messages,    *)
(* handlers, retries and crashes: that it keeps the promise.  And of the   *)
(* forms a profile comes from, for forms of any length: that what is       *)
(* stored of a profile is what its form showed.                            *)
(***************************************************************************)
EXTENDS Delivery, ProfileForms, WellFoundedInduction, FiniteSetTheorems, TLAPS

-----------------------------------------------------------------------------
(* The inductive invariant *)

Built(d) == digest[d].status # "none"

\* Jobs, handlers and lists only ever hold digests that were written.
OnlyBuilt ==
    /\ \A d \in created \cup active \cup unqueued \cup ticking : Built(d)
    /\ \A d \in SentDigests : retry[d] > 0 => Built(d)
    /\ \A h \in Handlers : run[h].op # "idle" => Built(run[h].digest)

\* A window has at most one draft, and none once a digest for it is written.
DraftsFree ==
    /\ \A d, e \in draft : d[1] = e[1] => d = e
    /\ \A d \in draft : \A c \in Channels : digest[<<d[1], c>>].status = "none"
    /\ binder.op \in {"send", "insert"} => digest[<<binder.window, "web_only">>].status # "none"

\* What a handler has sent has arrived, and there is something left to send
\* while it is sending; it records success only when nothing is.
Progress ==
    /\ \A h \in Handlers : run[h].op = "send" =>
         run[h].sent < Parts(run[h].digest) /\ run[h].sent <= got[run[h].digest]
    /\ \A h \in Handlers : (run[h].op = "record" /\ run[h].error = "none") =>
         Parts(run[h].digest) <= got[run[h].digest]
    /\ \A h \in Handlers : run[h].op = "defer" => run[h].attempt > 0
    /\ binder.op = "send" => binder.sent < Messages

DeliveryInv == TypeOK /\ OnlyBuilt /\ DraftsFree /\ Progress

-----------------------------------------------------------------------------
(* Lemmas on the operators *)

LEMMA SentDigestsFacts ==
    ASSUME DeliveryAssumption
    PROVE  /\ SentDigests \subseteq Digests /\ NoDigest \notin SentDigests
           /\ \A w \in Windows : \A c \in Channels : <<w, c>> \in Digests
           /\ \A w \in Windows : <<w, "telegram">> \in SentDigests /\ <<w, "email">> \in SentDigests
           /\ \A d \in Digests : d[1] \in Windows /\ d[2] \in Channels /\ d = <<d[1], d[2]>>
           /\ \A d \in Digests : d \in SentDigests <=> d[2] # "web_only"
  BY DEF DeliveryAssumption, SentDigests, Digests, Channels

LEMMA PartsBounded ==
    ASSUME DeliveryAssumption, NEW d
    PROVE  Parts(d) \in Nat /\ 1 <= Parts(d) /\ Parts(d) <= Messages
  BY DEF DeliveryAssumption, Parts

LEMMA RetryWaitHours ==
    ASSUME DeliveryAssumption, NEW attempt \in 1 .. MaxRetries
    PROVE  RetryWait(attempt) \in Nat
<1>1. RetryDelayMinutes[attempt] \in Nat  BY DEF RetryDelayMinutes, MaxRetries
<1>2. RetryDelayMinutes[attempt] * 60 * 1000 \in Nat  BY <1>1
<1>3. HourSeconds \in Nat \ {0}  BY DEF DeliveryAssumption
<1>4. \A n \in Nat : \A m \in Nat \ {0} : n \div m \in Nat  OBVIOUS
<1> QED  BY <1>2, <1>3, <1>4 DEF RetryWait

\* The run a handler is in the middle of names a digest that is sent.
LEMMA HandlerFacts ==
    ASSUME DeliveryAssumption, TypeOK, NEW h \in Handlers
    PROVE  /\ run[h] \in Run
           /\ run[h].op # "idle" =>
                /\ run[h].digest \in SentDigests /\ run[h].digest \in Digests
                /\ digest[run[h].digest] \in Row /\ got[run[h].digest] \in 0 .. Messages
  BY SentDigestsFacts DEF TypeOK

\* Receiving a message never takes one back.
LEMMA ReceiveGrows ==
    ASSUME TypeOK, NEW d \in Digests, NEW n \in 0 .. Messages, Receive(d, n), DeliveryAssumption
    PROVE  /\ got' \in [Digests -> 0 .. Messages]
           /\ got'[d] >= n
           /\ \A e \in Digests : got'[e] >= got[e]
  BY DEF TypeOK, Receive, DeliveryAssumption

LEMMA InitInv ==
    ASSUME DeliveryAssumption, Init
    PROVE  DeliveryInv
<1> USE SentDigestsFacts
<1>1. Idle \in Run /\ Idle.op = "idle" /\ NoBind \in Binder /\ NoBind.op = "idle"
  BY DEF DeliveryAssumption, Idle, NoBind, Run, Binder, MaxRetries
<1>2. [status |-> "none", attempt |-> 0] \in Row  BY DEF Row, MaxRetries
<1>3. delivery \in Settings  BY DEF DeliveryAssumption, Init, Settings
<1>4. digest \in [Digests -> Row] /\ got \in [Digests -> 0 .. Messages]
  BY <1>2 DEF DeliveryAssumption, Init
<1>5. /\ wait \in [Digests -> Nat]
      /\ retry \in [Digests -> 0 .. RetryLimit] /\ tries \in [Digests -> 0 .. RetryLimit]
  BY DEF DeliveryAssumption, Init
<1>6. TypeOK  BY <1>1, <1>3, <1>4, <1>5 DEF Init, TypeOK
<1>7. OnlyBuilt  BY <1>1 DEF Init, OnlyBuilt
<1>8. DraftsFree /\ Progress  BY <1>1 DEF Init, DraftsFree, Progress
<1> QED  BY <1>6, <1>7, <1>8 DEF DeliveryInv

LEMMA BuildInv ==
    ASSUME DeliveryAssumption, DeliveryInv, NEW w \in Windows, BeginBuild(w)
    PROVE  DeliveryInv'
<1> USE SentDigestsFacts
<1>1. ChannelNow \in Channels /\ <<w, ChannelNow>> \in Digests  BY DEF ChannelNow, Channels
<1>2. TypeOK'  BY <1>1 DEF BeginBuild, DeliveryInv, TypeOK, building, jobs, vars
<1>3. OnlyBuilt'  BY DEF BeginBuild, DeliveryInv, OnlyBuilt, Built, jobs
<1>4. DraftsFree'
  <2>1. draft' = draft \cup {<<w, ChannelNow>>} /\ UNCHANGED <<digest, binder>>  BY DEF BeginBuild
  <2>2. \A e \in draft : e[1] # w
    <3>1. SUFFICES ASSUME NEW e \in draft, e[1] = w  PROVE FALSE  OBVIOUS
    <3>2. e \in Digests  BY DEF DeliveryInv, TypeOK
    <3>3. e = <<w, e[2]>> /\ e[2] \in Channels  BY <3>1, <3>2
    <3> QED  BY <3>1, <3>3 DEF BeginBuild
  <2>3. \A c \in Channels : digest[<<w, c>>].status = "none"  BY DEF BeginBuild
  <2> QED  BY <2>1, <2>2, <2>3 DEF DeliveryInv, DraftsFree
<1>5. Progress'  BY DEF BeginBuild, DeliveryInv, Progress, Parts
<1> QED  BY <1>2, <1>3, <1>4, <1>5 DEF DeliveryInv

LEMMA WriteInv ==
    ASSUME DeliveryAssumption, DeliveryInv, NEW d \in Digests, WriteDigest(d)
    PROVE  DeliveryInv'
<1> USE SentDigestsFacts
<1>1. /\ digest' = [digest EXCEPT ![d].status = IF d[2] = "web_only" THEN "delivered" ELSE "pending"]
      /\ unqueued' \in {unqueued, unqueued \cup {d}} /\ (d \in unqueued' => d \in unqueued \/ d[2] # "web_only")
  BY DEF WriteDigest
<1>2. TypeOK'
  <2>1. digest' \in [Digests -> Row]
    <3>1. digest \in [Digests -> Row]  BY DEF DeliveryInv, TypeOK
    <3>2. PICK s \in {"delivered", "pending"} : digest' = [digest EXCEPT ![d].status = s]  BY <1>1
    <3>3. [digest[d] EXCEPT !.status = s] \in Row  BY <3>1 DEF Row
    <3> QED  BY <3>1, <3>2, <3>3
  <2>2. unqueued' \subseteq SentDigests  BY <1>1 DEF DeliveryInv, TypeOK
  <2> QED  BY <2>1, <2>2 DEF WriteDigest, DeliveryInv, TypeOK, jobs
<1>3. OnlyBuilt'  BY DEF WriteDigest, DeliveryInv, OnlyBuilt, Built, jobs, TypeOK
<1>4. DraftsFree'  BY DEF WriteDigest, DeliveryInv, DraftsFree, TypeOK, Channels
<1>5. Progress'  BY DEF WriteDigest, DeliveryInv, Progress, Parts
<1> QED  BY <1>2, <1>3, <1>4, <1>5 DEF DeliveryInv

\* One handler moves on to r and nobody takes a message or a digest back.
LEMMA HandlerMoves ==
    ASSUME DeliveryAssumption, DeliveryInv, NEW h \in Handlers, NEW r \in Run,
           run' = [run EXCEPT ![h] = r],
           r.op # "idle" => r.digest \in SentDigests /\ digest'[r.digest].status # "none",
           \A e \in SentDigests : Built(e) => digest'[e].status # "none",
           got' \in [Digests -> 0 .. Messages], \A e \in Digests : got'[e] >= got[e],
           r.op = "send" => r.sent < Parts(r.digest) /\ r.sent <= got'[r.digest],
           (r.op = "record" /\ r.error = "none") => Parts(r.digest) <= got'[r.digest],
           r.op = "defer" => r.attempt > 0,
           binder' = binder
    PROVE  /\ run' \in [Handlers -> Run]
           /\ \A k \in Handlers : run'[k].op # "idle" =>
                run'[k].digest \in SentDigests /\ digest'[run'[k].digest].status # "none"
           /\ Progress'
<1>1. run' \in [Handlers -> Run] /\ run'[h] = r /\ \A k \in Handlers : k # h => run'[k] = run[k]
  BY DEF DeliveryInv, TypeOK
<1>2. ASSUME NEW k \in Handlers, run'[k].op # "idle"
      PROVE  run'[k].digest \in SentDigests /\ digest'[run'[k].digest].status # "none"
  <2>1. CASE k = h  BY <1>1, <1>2, <2>1
  <2>2. CASE k # h  BY <1>1, <1>2, <2>2 DEF DeliveryInv, TypeOK, OnlyBuilt
  <2> QED  BY <2>1, <2>2
<1>3. ASSUME NEW k \in Handlers, k # h
      PROVE  /\ run'[k].op = "send" =>
                  run'[k].sent < Parts(run'[k].digest) /\ run'[k].sent <= got'[run'[k].digest]
             /\ (run'[k].op = "record" /\ run'[k].error = "none") =>
                  Parts(run'[k].digest) <= got'[run'[k].digest]
             /\ run'[k].op = "defer" => run'[k].attempt > 0
  <2>1. run'[k] = run[k] /\ run[k] \in Run  BY <1>1, <1>3 DEF DeliveryInv, TypeOK
  <2>2. CASE run[k].op \in {"send", "record"}
    <3> DEFINE e == run[k].digest
    <3>1. e \in Digests  BY <2>2, SentDigestsFacts DEF DeliveryInv, TypeOK
    <3>2. got'[e] >= got[e] /\ got'[e] \in Nat /\ got[e] \in Nat /\ Parts(e) \in Nat /\ run[k].sent \in Nat
      BY <2>1, <3>1, PartsBounded DEF DeliveryInv, TypeOK, Run
    <3>3. /\ run[k].op = "send" => run[k].sent < Parts(e) /\ run[k].sent <= got[e]
          /\ (run[k].op = "record" /\ run[k].error = "none") => Parts(e) <= got[e]
      BY DEF DeliveryInv, Progress
    <3> HIDE DEF e
    <3>4. /\ run[k].op = "send" => run[k].sent < Parts(e) /\ run[k].sent <= got'[e]
          /\ (run[k].op = "record" /\ run[k].error = "none") => Parts(e) <= got'[e]
      BY <3>2, <3>3
    <3> QED  BY <2>1, <2>2, <3>4 DEF e
  <2>3. CASE run[k].op \notin {"send", "record"}  BY <2>1, <2>3 DEF DeliveryInv, Progress
  <2> QED  BY <2>2, <2>3
<1>4. Progress'
  <2>1. binder'.op = "send" => binder'.sent < Messages  BY DEF DeliveryInv, Progress
  <2>2. /\ run'[h].op = "send" =>
             run'[h].sent < Parts(run'[h].digest) /\ run'[h].sent <= got'[run'[h].digest]
        /\ (run'[h].op = "record" /\ run'[h].error = "none") =>
             Parts(run'[h].digest) <= got'[run'[h].digest]
        /\ run'[h].op = "defer" => run'[h].attempt > 0
    BY <1>1
  <2> QED  BY <1>3, <2>1, <2>2 DEF Progress, Parts
<1> QED  BY <1>1, <1>2, <1>4

LEMMA SettingsInv ==
    ASSUME DeliveryAssumption, DeliveryInv, NEW c \in ReaderChannels, NEW stop \in BOOLEAN,
           updateDeliverySettings(c) \/ unbindTelegram \/ PauseEmail(stop)
    PROVE  DeliveryInv'
<1> USE SentDigestsFacts DEF DeliveryInv, updateDeliverySettings, unbindTelegram, PauseEmail, DeliveryAssumption
<1>1. TypeOK'  BY DEF TypeOK, Settings, Row, Run, Binder, building, jobs
<1>2. OnlyBuilt'  BY DEF OnlyBuilt, Built, TypeOK, building, jobs
<1>3. DraftsFree'  BY DEF DraftsFree, TypeOK, building
<1>4. Progress'  BY DEF Progress, TypeOK, Parts
<1> QED  BY <1>1, <1>2, <1>3, <1>4

LEMMA QueueBuiltInv ==
    ASSUME DeliveryAssumption, DeliveryInv, NEW d \in Digests, QueueBuilt(d)
    PROVE  DeliveryInv'
<1> USE SentDigestsFacts DEF DeliveryInv, QueueBuilt, Send
<1>1. TypeOK'  BY DEF TypeOK, Settings, Row, Run, Binder, building, jobs
<1>2. OnlyBuilt'  BY DEF OnlyBuilt, Built, TypeOK, building, jobs
<1>3. DraftsFree'  BY DEF DraftsFree, TypeOK, building
<1>4. Progress'  BY DEF Progress, TypeOK, Parts
<1> QED  BY <1>1, <1>2, <1>3, <1>4

LEMMA BuilderCrashInv ==
    ASSUME DeliveryAssumption, DeliveryInv, NEW d \in Digests, BuilderCrash(d)
    PROVE  DeliveryInv'
<1> USE SentDigestsFacts DEF DeliveryInv, BuilderCrash
<1>1. TypeOK'  BY DEF TypeOK, Settings, Row, Run, Binder, building, jobs
<1>2. OnlyBuilt'  BY DEF OnlyBuilt, Built, TypeOK, building, jobs
<1>3. DraftsFree'  BY DEF DraftsFree, TypeOK, building
<1>4. Progress'  BY DEF Progress, TypeOK, Parts
<1> QED  BY <1>1, <1>2, <1>3, <1>4

LEMMA HourInv ==
    ASSUME DeliveryAssumption, DeliveryInv, Hour
    PROVE  DeliveryInv'
<1> USE SentDigestsFacts DEF DeliveryInv, Hour, ListPending, Pending
<1>1. TypeOK'  BY DEF TypeOK, Settings, Row, Run, Binder, building, jobs
<1>2. OnlyBuilt'  BY DEF OnlyBuilt, Built, TypeOK, building, jobs
<1>3. DraftsFree'  BY DEF DraftsFree, TypeOK, building
<1>4. Progress'  BY DEF Progress, TypeOK, Parts
<1> QED  BY <1>1, <1>2, <1>3, <1>4

LEMMA TickQueueInv ==
    ASSUME DeliveryAssumption, DeliveryInv, NEW d \in SentDigests, TickQueue(d)
    PROVE  DeliveryInv'
<1> USE SentDigestsFacts DEF DeliveryInv, TickQueue, Send
<1>1. TypeOK'  BY DEF TypeOK, Settings, Row, Run, Binder, building, jobs
<1>2. OnlyBuilt'  BY DEF OnlyBuilt, Built, TypeOK, building, jobs
<1>3. DraftsFree'  BY DEF DraftsFree, TypeOK, building
<1>4. Progress'  BY DEF Progress, TypeOK, Parts
<1> QED  BY <1>1, <1>2, <1>3, <1>4

LEMMA TickCrashInv ==
    ASSUME DeliveryAssumption, DeliveryInv, TickCrash
    PROVE  DeliveryInv'
<1> USE SentDigestsFacts DEF DeliveryInv, TickCrash
<1>1. TypeOK'  BY DEF TypeOK, Settings, Row, Run, Binder, building, jobs
<1>2. OnlyBuilt'  BY DEF OnlyBuilt, Built, TypeOK, building, jobs
<1>3. DraftsFree'  BY DEF DraftsFree, TypeOK, building
<1>4. Progress'  BY DEF Progress, TypeOK, Parts
<1> QED  BY <1>1, <1>2, <1>3, <1>4

LEMMA FetchInv ==
    ASSUME DeliveryAssumption, DeliveryInv, NEW h \in Handlers, NEW d \in SentDigests, Fetch(h, d)
    PROVE  DeliveryInv'
<1> DEFINE unbound == d[2] = "telegram" /\ ~delivery.chat
           r == [op |-> IF unbound THEN "record" ELSE "send", digest |-> d, sent |-> 0,
                 attempt |-> digest[d].attempt, error |-> IF unbound THEN "unbound" ELSE "none",
                 owns |-> TRUE]
<1> USE DEF DeliveryInv
<1>1. /\ run' = [run EXCEPT ![h] = r] /\ active' = active \cup {d}
      /\ UNCHANGED <<delivery, digest, got, draft, unqueued, wait, ticking, binder, crashes>>
  BY DEF Fetch, Start, building
<1>2. d \in Digests /\ Built(d)  BY SentDigestsFacts DEF Fetch, OnlyBuilt
<1>3. digest[d] \in Row /\ got[d] \in Nat /\ 0 \in 0 .. Messages
  BY <1>2 DEF TypeOK, DeliveryAssumption
<1>4. r \in Run /\ r.digest = d /\ r.sent = 0 /\ r.op \in {"send", "record"}
      /\ (r.op = "record" => r.error # "none")
  BY <1>3 DEF Run, Row
<1>5. /\ created' \subseteq SentDigests /\ created' \subseteq created
      /\ retry' \in [Digests -> 0 .. RetryLimit] /\ tries' \in [Digests -> 0 .. RetryLimit]
      /\ \A e \in Digests : retry'[e] > 0 => retry[e] > 0
  BY <1>2 DEF Fetch, TypeOK, DeliveryAssumption
<1>6. /\ run' \in [Handlers -> Run] /\ Progress'
      /\ \A k \in Handlers : run'[k].op # "idle" =>
           run'[k].digest \in SentDigests /\ digest'[run'[k].digest].status # "none"
  <2>1. r.digest \in SentDigests /\ digest'[r.digest].status # "none"
    BY <1>1, <1>2, <1>4 DEF Built
  <2>2. \A e \in SentDigests : Built(e) => digest'[e].status # "none"  BY <1>1 DEF Built
  <2>3. got' \in [Digests -> 0 .. Messages] /\ \A e \in Digests : got'[e] >= got[e]
    BY <1>1 DEF TypeOK, DeliveryAssumption
  <2>4. r.sent < Parts(r.digest) /\ r.sent <= got'[r.digest]  BY <1>1, <1>3, <1>4, PartsBounded
  <2> HIDE DEF r
  <2> QED  BY <1>1, <1>4, <2>1, <2>2, <2>3, <2>4, HandlerMoves
<1>7. TypeOK'  BY <1>1, <1>5, <1>6 DEF TypeOK
<1>8. OnlyBuilt'  BY <1>1, <1>2, <1>5, <1>6, SentDigestsFacts DEF OnlyBuilt, Built
<1>9. DraftsFree'  BY <1>1 DEF DraftsFree
<1> QED  BY <1>6, <1>7, <1>8, <1>9

LEMMA SendMessageInv ==
    ASSUME DeliveryAssumption, DeliveryInv, NEW h \in Handlers, SendMessage(h)
    PROVE  DeliveryInv'
<1> DEFINE d == run[h].digest
           n == run[h].sent + 1
           r == [run[h] EXCEPT !.sent = n, !.op = IF n = Parts(d) THEN "record" ELSE "send"]
<1> USE DEF DeliveryInv
<1>1. /\ run[h].op = "send" /\ run' = [run EXCEPT ![h] = r] /\ Receive(d, n)
      /\ UNCHANGED <<delivery, digest, draft, unqueued, jobs, ticking, binder, crashes>>
  BY HandlerFacts DEF SendMessage, building, TypeOK, Run
<1>2. /\ run[h] \in Run /\ d \in SentDigests /\ d \in Digests /\ Built(d)
      /\ Parts(d) \in Nat /\ Parts(d) <= Messages
      /\ run[h].sent \in Nat /\ run[h].sent < Parts(d)
  BY <1>1, HandlerFacts, PartsBounded DEF OnlyBuilt, Progress, Run
<1>3. Messages \in Nat /\ n \in 0 .. Messages /\ n <= Parts(d)  BY <1>2 DEF DeliveryAssumption
<1>4. r \in Run /\ r.digest = d /\ r.sent = n /\ r.error = run[h].error
      /\ r.op = IF n = Parts(d) THEN "record" ELSE "send"
  BY <1>2, <1>3 DEF Run
<1>5. got' \in [Digests -> 0 .. Messages] /\ got'[d] >= n /\ \A e \in Digests : got'[e] >= got[e]
  BY <1>1, <1>2, <1>3, ReceiveGrows
<1>6. /\ run' \in [Handlers -> Run] /\ Progress'
      /\ \A k \in Handlers : run'[k].op # "idle" =>
           run'[k].digest \in SentDigests /\ digest'[run'[k].digest].status # "none"
  <2>1. got'[d] \in Nat  BY <1>2, <1>5
  <2>2. r.op = "send" => r.sent < Parts(r.digest) /\ r.sent <= got'[r.digest]
    BY <1>2, <1>3, <1>4, <1>5, <2>1
  <2>3. (r.op = "record" /\ r.error = "none") => Parts(r.digest) <= got'[r.digest]
    BY <1>2, <1>3, <1>4, <1>5, <2>1
  <2>4. r.op # "idle" => r.digest \in SentDigests /\ digest'[r.digest].status # "none"
    BY <1>1, <1>2, <1>4 DEF Built
  <2>5. \A e \in SentDigests : Built(e) => digest'[e].status # "none"  BY <1>1 DEF Built
  <2>6. r.op # "defer"  BY <1>4
  <2> HIDE DEF r, d, n
  <2> QED  BY <1>1, <1>4, <1>5, <2>2, <2>3, <2>4, <2>5, <2>6, HandlerMoves
<1>7. TypeOK'  BY <1>1, <1>5, <1>6 DEF TypeOK, jobs
<1>8. OnlyBuilt'  BY <1>1, <1>6 DEF OnlyBuilt, Built, jobs
<1>9. DraftsFree'  BY <1>1 DEF DraftsFree
<1> QED  BY <1>6, <1>7, <1>8, <1>9

LEMMA SendFailsInv ==
    ASSUME DeliveryAssumption, DeliveryInv, NEW h \in Handlers, NEW error \in Errors, SendFails(h, error)
    PROVE  DeliveryInv'
<1> DEFINE d == run[h].digest
           r == [run[h] EXCEPT !.op = "record", !.sent = 0, !.error = error]
<1> USE DEF DeliveryInv
<1>1. /\ run[h].op = "send" /\ run' = [run EXCEPT ![h] = r]
      /\ UNCHANGED got \/ Receive(d, run[h].sent + 1)
      /\ UNCHANGED <<delivery, digest, draft, unqueued, jobs, ticking, binder, crashes>>
  BY HandlerFacts DEF SendFails, building, TypeOK, Run
<1>2. /\ run[h] \in Run /\ d \in SentDigests /\ d \in Digests /\ Built(d)
      /\ Parts(d) \in Nat /\ Parts(d) <= Messages
      /\ run[h].sent \in Nat /\ run[h].sent < Parts(d)
  BY <1>1, HandlerFacts, PartsBounded DEF OnlyBuilt, Progress, Run
<1>3. Messages \in Nat /\ run[h].sent + 1 \in 0 .. Messages /\ 0 \in 0 .. Messages
  BY <1>2 DEF DeliveryAssumption
<1>4. r \in Run /\ r.digest = d /\ r.error = error /\ r.op = "record" /\ error # "none"
  BY <1>2, <1>3 DEF Run, Errors
<1>5. got' \in [Digests -> 0 .. Messages] /\ \A e \in Digests : got'[e] >= got[e]
  <2>1. CASE UNCHANGED got  BY <2>1 DEF TypeOK, DeliveryAssumption
  <2>2. CASE Receive(d, run[h].sent + 1)  BY <2>2, <1>2, <1>3, ReceiveGrows
  <2> QED  BY <1>1, <2>1, <2>2
<1>6. /\ run' \in [Handlers -> Run] /\ Progress'
      /\ \A k \in Handlers : run'[k].op # "idle" =>
           run'[k].digest \in SentDigests /\ digest'[run'[k].digest].status # "none"
  <2>1. r.op # "idle" => r.digest \in SentDigests /\ digest'[r.digest].status # "none"
    BY <1>1, <1>2, <1>4 DEF Built
  <2>2. \A e \in SentDigests : Built(e) => digest'[e].status # "none"  BY <1>1 DEF Built
  <2>3. r.op \notin {"send", "defer"} /\ r.error # "none"  BY <1>4
  <2> HIDE DEF r, d
  <2> QED  BY <1>1, <1>4, <1>5, <2>1, <2>2, <2>3, HandlerMoves
<1>7. TypeOK'  BY <1>1, <1>5, <1>6 DEF TypeOK, jobs
<1>8. OnlyBuilt'  BY <1>1, <1>6 DEF OnlyBuilt, Built, jobs
<1>9. DraftsFree'  BY <1>1 DEF DraftsFree
<1> QED  BY <1>6, <1>7, <1>8, <1>9

LEMMA RecordInv ==
    ASSUME DeliveryAssumption, DeliveryInv, NEW h \in Handlers, Record(h)
    PROVE  DeliveryInv'
<1> DEFINE d == run[h].digest
           again == isRetryableError(d, run[h].error) /\ run[h].attempt < MaxRetries
           r == IF again
                THEN [Idle EXCEPT !.op = "defer", !.digest = d, !.attempt = run[h].attempt + 1, !.owns = run[h].owns]
                ELSE [Idle EXCEPT !.op = "done", !.digest = d, !.owns = run[h].owns]
<1> USE DEF DeliveryInv
<1>1. /\ run[h].op = "record" /\ run' = [run EXCEPT ![h] = r]
      /\ UNCHANGED <<delivery, got, draft, unqueued, jobs, ticking, binder, crashes>>
  BY DEF Record, building
<1>2. /\ run[h] \in Run /\ d \in SentDigests /\ d \in Digests /\ Built(d)
      /\ run[h].attempt \in 0 .. 3 /\ run[h].owns \in BOOLEAN
  BY <1>1, HandlerFacts DEF OnlyBuilt, Run, MaxRetries
<1>3. again => run[h].attempt + 1 \in 1 .. 3  BY <1>2 DEF MaxRetries
<1>4. /\ r \in Run /\ r.digest = d /\ r.op \in {"defer", "done"}
      /\ r.op = "defer" => r.attempt > 0
  <2>1. 0 \in 0 .. Messages /\ 0 \in 0 .. MaxRetries  BY DEF DeliveryAssumption, MaxRetries
  <2>2. CASE again
    <3>1. r = [op |-> "defer", digest |-> d, sent |-> 0, attempt |-> run[h].attempt + 1,
               error |-> "none", owns |-> run[h].owns]  BY <2>2 DEF Idle
    <3>2. run[h].attempt + 1 \in 0 .. MaxRetries /\ run[h].attempt + 1 > 0  BY <2>2, <1>2, <1>3 DEF MaxRetries
    <3> QED  BY <1>2, <2>1, <3>1, <3>2 DEF Run
  <2>3. CASE ~again
    <3>1. r = [op |-> "done", digest |-> d, sent |-> 0, attempt |-> 0,
               error |-> "none", owns |-> run[h].owns]  BY <2>3 DEF Idle
    <3> QED  BY <1>2, <2>1, <3>1 DEF Run
  <2> QED  BY <2>2, <2>3
<1>5. /\ digest' \in [Digests -> Row]
      /\ \A e \in Digests : digest'[e].status = "none" <=> digest[e].status = "none"
  <2>1. digest \in [Digests -> Row] /\ digest[d].status # "none"  BY <1>2 DEF TypeOK, Built
  <2>2. CASE run[h].error = "none"
    <3>0. ~again  BY <2>2 DEF isRetryableError
    <3>1. digest' = [digest EXCEPT ![d] = [status |-> "delivered", attempt |-> 0]]
      BY <2>2, <3>0 DEF Record
    <3>2. [status |-> "delivered", attempt |-> 0] \in Row  BY DEF Row, MaxRetries
    <3> QED  BY <1>2, <2>1, <3>1, <3>2
  <2>3. CASE run[h].error # "none" /\ again
    <3>1. digest' = [digest EXCEPT ![d].attempt = run[h].attempt + 1]  BY <2>3 DEF Record
    <3>2. [digest[d] EXCEPT !.attempt = run[h].attempt + 1] \in Row  BY <1>2, <1>3, <2>1, <2>3 DEF Row, MaxRetries
    <3> QED  BY <1>2, <2>1, <3>1, <3>2 DEF Row
  <2>4. CASE run[h].error # "none" /\ ~again
    <3>1. digest' = [digest EXCEPT ![d] = [status |-> "failed", attempt |-> 0]]  BY <2>4 DEF Record
    <3>2. [status |-> "failed", attempt |-> 0] \in Row  BY DEF Row, MaxRetries
    <3> QED  BY <1>2, <2>1, <3>1, <3>2
  <2> QED  BY <2>2, <2>3, <2>4
<1>6. /\ run' \in [Handlers -> Run] /\ Progress'
      /\ \A k \in Handlers : run'[k].op # "idle" =>
           run'[k].digest \in SentDigests /\ digest'[run'[k].digest].status # "none"
  <2>1. r.digest \in SentDigests /\ digest'[r.digest].status # "none"
    BY <1>2, <1>4, <1>5 DEF Built
  <2>2. \A e \in SentDigests : Built(e) => digest'[e].status # "none"
    BY <1>5, SentDigestsFacts DEF Built
  <2>3. got' \in [Digests -> 0 .. Messages] /\ \A e \in Digests : got'[e] >= got[e]
    BY <1>1 DEF TypeOK, DeliveryAssumption
  <2>4. r.op \notin {"send", "record"} /\ binder' = binder  BY <1>1, <1>4
  <2> HIDE DEF r, d, again
  <2> QED  BY <1>1, <1>4, <2>1, <2>2, <2>3, <2>4, HandlerMoves
<1>7. delivery' \in Settings  BY <1>1 DEF TypeOK, Settings
<1>8. TypeOK'  BY <1>1, <1>5, <1>6, <1>7 DEF TypeOK, jobs
<1>9. OnlyBuilt'  BY <1>1, <1>5, <1>6, SentDigestsFacts DEF OnlyBuilt, Built, jobs, TypeOK
<1>10. DraftsFree'
  <2>1. \A e \in draft : \A c \in Channels : <<e[1], c>> \in Digests  BY SentDigestsFacts DEF TypeOK
  <2>2. binder.op \in {"send", "insert"} => <<binder.window, "web_only">> \in Digests
    BY SentDigestsFacts DEF TypeOK, Channels
  <2> QED  BY <1>1, <1>5, <2>1, <2>2 DEF DraftsFree
<1> QED  BY <1>6, <1>8, <1>9, <1>10

LEMMA DeferInv ==
    ASSUME DeliveryAssumption, DeliveryInv, NEW h \in Handlers, Defer(h)
    PROVE  DeliveryInv'
<1> DEFINE d == run[h].digest
           r == [run[h] EXCEPT !.op = "done", !.attempt = 0]
<1> USE DEF DeliveryInv
<1>1. /\ run[h].op = "defer" /\ run' = [run EXCEPT ![h] = r]
      /\ Send(d, RetryWait(run[h].attempt))
      /\ UNCHANGED <<delivery, digest, got, draft, unqueued, retry, active, tries, ticking, binder, crashes>>
  BY HandlerFacts DEF Defer, building, TypeOK, Run
<1>2. run[h] \in Run /\ d \in SentDigests /\ d \in Digests /\ Built(d)
  BY <1>1, HandlerFacts DEF OnlyBuilt
<1>3. r \in Run /\ r.digest = d /\ r.op = "done"
  <2>1. 0 \in 0 .. MaxRetries  BY DEF MaxRetries
  <2>2. r.op = "done" /\ r.digest = d  BY <1>2 DEF Run
  <2>3. r \in Run  BY <1>2, <2>1 DEF Run
  <2> QED  BY <2>2, <2>3
<1>4. created' = created \cup {d} /\ wait' \in [Digests -> Nat]
  <2>1. run[h].attempt \in 1 .. MaxRetries  BY <1>1, <1>2 DEF Progress, Run, MaxRetries
  <2>2. RetryWait(run[h].attempt) \in Nat  BY <2>1, RetryWaitHours
  <2> QED  BY <1>1, <1>2, <2>2 DEF Send, TypeOK
<1>6. /\ run' \in [Handlers -> Run] /\ Progress'
      /\ \A k \in Handlers : run'[k].op # "idle" =>
           run'[k].digest \in SentDigests /\ digest'[run'[k].digest].status # "none"
  <2>1. r.digest \in SentDigests /\ digest'[r.digest].status # "none"
    BY <1>1, <1>2, <1>3 DEF Built
  <2>2. \A e \in SentDigests : Built(e) => digest'[e].status # "none"  BY <1>1 DEF Built
  <2>3. got' \in [Digests -> 0 .. Messages] /\ \A e \in Digests : got'[e] >= got[e]
    BY <1>1 DEF TypeOK, DeliveryAssumption
  <2> HIDE DEF r, d
  <2> QED  BY <1>1, <1>3, <2>1, <2>2, <2>3, HandlerMoves
<1>7. TypeOK'  BY <1>1, <1>2, <1>4, <1>6 DEF TypeOK
<1>8. OnlyBuilt'  BY <1>1, <1>2, <1>4, <1>6 DEF OnlyBuilt, Built
<1>9. DraftsFree'  BY <1>1 DEF DraftsFree
<1> QED  BY <1>6, <1>7, <1>8, <1>9

LEMMA CompleteInv ==
    ASSUME DeliveryAssumption, DeliveryInv, NEW h \in Handlers, Complete(h)
    PROVE  DeliveryInv'
<1> USE DEF DeliveryInv
<1>1. /\ run' = [run EXCEPT ![h] = Idle]
      /\ active' \subseteq active /\ crashes' \in Nat
      /\ UNCHANGED <<delivery, digest, got, draft, unqueued, created, wait, retry, ticking, binder>>
  BY DEF Complete, building, jobs, TypeOK
<1>2. Idle \in Run /\ Idle.op = "idle"  BY DEF Idle, Run, DeliveryAssumption, MaxRetries
<1>3. tries' \in [Digests -> 0 .. RetryLimit]  BY DEF Complete, jobs, TypeOK, DeliveryAssumption
<1>4. /\ run' \in [Handlers -> Run] /\ Progress'
      /\ \A k \in Handlers : run'[k].op # "idle" =>
           run'[k].digest \in SentDigests /\ digest'[run'[k].digest].status # "none"
  <2>1. \A e \in SentDigests : Built(e) => digest'[e].status # "none"  BY <1>1 DEF Built
  <2>2. got' \in [Digests -> 0 .. Messages] /\ \A e \in Digests : got'[e] >= got[e]
    BY <1>1 DEF TypeOK, DeliveryAssumption
  <2> QED  BY <1>1, <1>2, <2>1, <2>2, HandlerMoves
<1>5. TypeOK'  BY <1>1, <1>3, <1>4 DEF TypeOK
<1>6. OnlyBuilt'  BY <1>1, <1>4 DEF OnlyBuilt, Built
<1>7. DraftsFree'  BY <1>1 DEF DraftsFree
<1> QED  BY <1>4, <1>5, <1>6, <1>7

LEMMA HandlerCrashInv ==
    ASSUME DeliveryAssumption, DeliveryInv, NEW h \in Handlers, HandlerCrash(h)
    PROVE  DeliveryInv'
<1> USE DEF DeliveryInv
<1>1. /\ run' = [run EXCEPT ![h] = Idle]
      /\ active' \subseteq active /\ crashes' \in Nat
      /\ UNCHANGED <<delivery, digest, got, draft, unqueued, created, wait, retry, ticking, binder>>
  BY DEF HandlerCrash, building, jobs, TypeOK
<1>2. Idle \in Run /\ Idle.op = "idle"  BY DEF Idle, Run, DeliveryAssumption, MaxRetries
<1>3. tries' \in [Digests -> 0 .. RetryLimit]  BY DEF HandlerCrash, jobs, TypeOK, DeliveryAssumption
<1>4. /\ run' \in [Handlers -> Run] /\ Progress'
      /\ \A k \in Handlers : run'[k].op # "idle" =>
           run'[k].digest \in SentDigests /\ digest'[run'[k].digest].status # "none"
  <2>1. \A e \in SentDigests : Built(e) => digest'[e].status # "none"  BY <1>1 DEF Built
  <2>2. got' \in [Digests -> 0 .. Messages] /\ \A e \in Digests : got'[e] >= got[e]
    BY <1>1 DEF TypeOK, DeliveryAssumption
  <2> QED  BY <1>1, <1>2, <2>1, <2>2, HandlerMoves
<1>5. TypeOK'  BY <1>1, <1>3, <1>4 DEF TypeOK
<1>6. OnlyBuilt'  BY <1>1, <1>4 DEF OnlyBuilt, Built
<1>7. DraftsFree'  BY <1>1 DEF DraftsFree
<1> QED  BY <1>4, <1>5, <1>6, <1>7

LEMMA ExpireInv ==
    ASSUME DeliveryAssumption, DeliveryInv, NEW d \in SentDigests, Expire(d)
    PROVE  DeliveryInv'
<1> USE DEF DeliveryInv
<1>1. /\ d \in active /\ active' = active \ {d} /\ crashes' \in Nat
      /\ run' = [h \in Handlers |-> IF h \in OwnersOf(d) THEN [run[h] EXCEPT !.owns = FALSE] ELSE run[h]]
      /\ UNCHANGED <<delivery, digest, got, draft, unqueued, created, wait, ticking, binder>>
  BY DEF Expire, building, TypeOK
<1>2. ASSUME NEW h \in Handlers
      PROVE  /\ run'[h] \in Run
             /\ run'[h].op = run[h].op /\ run'[h].digest = run[h].digest /\ run'[h].sent = run[h].sent
             /\ run'[h].attempt = run[h].attempt /\ run'[h].error = run[h].error
  <2>1. run[h] \in Run /\ run'[h] \in {run[h], [run[h] EXCEPT !.owns = FALSE]}  BY <1>1 DEF TypeOK
  <2> QED  BY <2>1 DEF Run
<1>3. run' \in [Handlers -> Run]  BY <1>1, <1>2
<1>4. d \in Digests /\ Built(d)  BY <1>1, SentDigestsFacts DEF OnlyBuilt
<1>5. /\ retry' \in [Digests -> 0 .. RetryLimit] /\ tries' \in [Digests -> 0 .. RetryLimit]
      /\ \A e \in Digests : retry'[e] > 0 => retry[e] > 0 \/ e = d
  <2>1. tries' = [tries EXCEPT ![d] = 0] /\ 0 \in 0 .. RetryLimit  BY DEF Expire, DeliveryAssumption
  <2>2. \/ retry' = retry
        \/ tries[d] < RetryLimit /\ retry' = [retry EXCEPT ![d] = tries[d] + 1]  BY DEF Expire
  <2>3. tries[d] \in 0 .. RetryLimit /\ RetryLimit \in Nat  BY <1>4 DEF TypeOK, DeliveryAssumption
  <2>4. tries[d] < RetryLimit => tries[d] + 1 \in 0 .. RetryLimit  BY <2>3
  <2> QED  BY <1>4, <2>1, <2>2, <2>4 DEF TypeOK
<1>6. TypeOK'  BY <1>1, <1>2, <1>3, <1>5 DEF TypeOK
<1>7. OnlyBuilt'  BY <1>1, <1>2, <1>4, <1>5, SentDigestsFacts DEF OnlyBuilt, Built
<1>8. DraftsFree'  BY <1>1 DEF DraftsFree
<1>9. Progress'  BY <1>1, <1>2 DEF Progress, Parts
<1> QED  BY <1>6, <1>7, <1>8, <1>9

LEMMA BindInv ==
    ASSUME DeliveryAssumption, DeliveryInv, Bind
    PROVE  DeliveryInv'
<1> USE DEF DeliveryInv
<1>1. /\ delivery' \in Settings  BY DEF Bind, TypeOK, Settings
<1>2. binder' \in Binder /\ binder'.op = "find"  BY DEF Bind, NoBind, Binder, DeliveryAssumption
<1>3. UNCHANGED <<digest, got, draft, unqueued, jobs, run, ticking, crashes>>  BY DEF Bind, building
<1>4. TypeOK'  BY <1>1, <1>2, <1>3 DEF TypeOK, jobs
<1>5. OnlyBuilt'  BY <1>3 DEF OnlyBuilt, Built, jobs
<1>6. DraftsFree'  BY <1>2, <1>3 DEF DraftsFree
<1>7. Progress'  BY <1>2, <1>3 DEF Progress, Parts
<1> QED  BY <1>4, <1>5, <1>6, <1>7

LEMMA BindFindInv ==
    ASSUME DeliveryAssumption, DeliveryInv, BindFind
    PROVE  DeliveryInv'
<1> USE DEF DeliveryInv
<1>1. UNCHANGED <<delivery, digest, got, draft, unqueued, jobs, run, ticking, crashes>>
  BY DEF BindFind, building
<1>2. Messages \in Nat /\ 0 < Messages /\ 0 \in 0 .. Messages  BY DEF DeliveryAssumption
<1>3. /\ binder' \in Binder
      /\ binder'.op \in {"idle", "send"}
      /\ binder'.op = "send" => /\ binder'.sent = 0 /\ binder'.window \in Windows
                                /\ digest[<<binder'.window, "web_only">>].status # "none"
  <2>1. CASE binder' = NoBind  BY <1>2, <2>1 DEF NoBind, Binder
  <2>2. CASE \E w \in ShownWindows : binder' = [op |-> "send", window |-> w, sent |-> 0]
    BY <1>2, <2>2 DEF ShownWindows, Binder
  <2> QED  BY <2>1, <2>2 DEF BindFind
<1>4. TypeOK'  BY <1>1, <1>3 DEF TypeOK, jobs
<1>5. OnlyBuilt'  BY <1>1 DEF OnlyBuilt, Built, jobs
<1>6. DraftsFree'  BY <1>1, <1>3 DEF DraftsFree
<1>7. Progress'  BY <1>1, <1>2, <1>3 DEF Progress, Parts
<1> QED  BY <1>4, <1>5, <1>6, <1>7

LEMMA BindSendInv ==
    ASSUME DeliveryAssumption, DeliveryInv, BindSend
    PROVE  DeliveryInv'
<1> DEFINE d == <<binder.window, "telegram">>
<1> USE DEF DeliveryInv
<1>1. UNCHANGED <<delivery, digest, draft, unqueued, jobs, run, ticking, crashes>>
  BY DEF BindSend, building
<1>2. /\ binder \in Binder /\ binder.op = "send" /\ binder.window \in Windows
      /\ binder.sent \in Nat /\ binder.sent < Messages /\ Messages \in Nat
  BY DEF BindSend, TypeOK, Binder, Progress, DeliveryAssumption
<1>3. d \in Digests /\ binder.sent + 1 \in 0 .. Messages
  <2>1. d \in Digests  BY <1>2, SentDigestsFacts DEF Channels
  <2>2. binder.sent + 1 \in 0 .. Messages  BY <1>2
  <2> QED  BY <2>1, <2>2
<1>4. got' \in [Digests -> 0 .. Messages] /\ \A e \in Digests : got'[e] >= got[e]
  BY <1>3, ReceiveGrows DEF BindSend
<1>5. /\ binder' \in Binder /\ binder'.window = binder.window /\ binder'.op \in {"send", "insert"}
      /\ binder'.op = "send" => binder'.sent < Messages
  <2>1. /\ binder'.op = IF binder.sent + 1 = Messages THEN "insert" ELSE "send"
        /\ binder' = [op |-> binder'.op, window |-> binder.window, sent |-> binder.sent + 1]
    BY <1>2 DEF BindSend, Binder
  <2> QED  BY <1>2, <1>3, <2>1 DEF Binder
<1>6. TypeOK'  BY <1>1, <1>2, <1>4, <1>5 DEF TypeOK, jobs
<1>7. OnlyBuilt'  BY <1>1 DEF OnlyBuilt, Built, jobs
<1>8. DraftsFree'  BY <1>1, <1>2, <1>5 DEF DraftsFree
<1>9. Progress'
  <2>1. ASSUME NEW k \in Handlers, run[k].op # "idle"
        PROVE  got'[run[k].digest] >= got[run[k].digest] /\ got'[run[k].digest] \in Nat
               /\ got[run[k].digest] \in Nat /\ Parts(run[k].digest) \in Nat /\ run[k].sent \in Nat
    <3>1. run[k] \in Run /\ run[k].digest \in Digests  BY <2>1, HandlerFacts
    <3>2. \A e \in Digests : got'[e] \in Nat /\ got[e] \in Nat  BY <1>4 DEF TypeOK
    <3> QED  BY <3>1, <3>2, <1>4, PartsBounded DEF Run
  <2>2. \A k \in Handlers : run[k].op = "send" =>
          run[k].sent < Parts(run[k].digest) /\ run[k].sent <= got'[run[k].digest]
    BY <2>1 DEF Progress
  <2>3. \A k \in Handlers : (run[k].op = "record" /\ run[k].error = "none") =>
          Parts(run[k].digest) <= got'[run[k].digest]
    BY <2>1 DEF Progress
  <2> QED  BY <1>1, <1>5, <2>2, <2>3 DEF Progress, Parts
<1> QED  BY <1>6, <1>7, <1>8, <1>9

LEMMA BindInsertInv ==
    ASSUME DeliveryAssumption, DeliveryInv, BindInsert
    PROVE  DeliveryInv'
<1> DEFINE d == <<binder.window, "telegram">>
<1> USE DEF DeliveryInv
<1>1. UNCHANGED <<delivery, got, draft, unqueued, jobs, run, ticking, crashes>> /\ binder' = NoBind
  BY DEF BindInsert, building
<1>2. NoBind \in Binder /\ NoBind.op = "idle"  BY DEF NoBind, Binder, DeliveryAssumption
<1>3. /\ binder.op = "insert" /\ binder.window \in Windows /\ d \in Digests
      /\ digest[<<binder.window, "web_only">>].status # "none"
  BY SentDigestsFacts DEF BindInsert, TypeOK, DraftsFree, Channels
<1>4. /\ digest' \in [Digests -> Row]
      /\ \A e \in Digests : e # d => digest'[e] = digest[e]
      /\ \A e \in Digests : digest[e].status # "none" => digest'[e].status # "none"
  <2>1. CASE digest[d].status = "none"
    <3>1. digest' = [digest EXCEPT ![d].status = "pending"]  BY <2>1 DEF BindInsert
    <3>2. [digest[d] EXCEPT !.status = "pending"] \in Row  BY <1>3 DEF TypeOK, Row
    <3> QED  BY <1>3, <3>1, <3>2 DEF TypeOK, Row
  <2>2. CASE digest[d].status # "none"  BY <2>2 DEF BindInsert, TypeOK
  <2> QED  BY <2>1, <2>2
<1>5. TypeOK'  BY <1>1, <1>2, <1>4 DEF TypeOK, jobs
<1>6. OnlyBuilt'  BY <1>1, <1>4, SentDigestsFacts DEF OnlyBuilt, Built, jobs, TypeOK
<1>7. DraftsFree'
  <2>1. \A e \in draft : e[1] # binder.window  BY <1>3 DEF DraftsFree, Channels
  <2>2. \A e \in draft : \A c \in Channels : <<e[1], c>> \in Digests /\ <<e[1], c>> # d
    BY <2>1, SentDigestsFacts DEF TypeOK
  <2>3. \A e \in draft : \A c \in Channels : digest'[<<e[1], c>>].status = "none"
    BY <1>4, <2>2 DEF DraftsFree
  <2> QED  BY <1>1, <1>2, <2>3 DEF DraftsFree
<1>8. Progress'  BY <1>1, <1>2 DEF Progress, Parts
<1> QED  BY <1>5, <1>6, <1>7, <1>8

LEMMA BindFailsInv ==
    ASSUME DeliveryAssumption, DeliveryInv, BindFails
    PROVE  DeliveryInv'
<1> USE SentDigestsFacts DEF DeliveryInv, BindFails, NoBind
<1>1. TypeOK'  BY DEF TypeOK, Settings, Row, Run, Binder, building, jobs
<1>2. OnlyBuilt'  BY DEF OnlyBuilt, Built, TypeOK, building, jobs
<1>3. DraftsFree'  BY DEF DraftsFree, TypeOK, building
<1>4. Progress'  BY DEF Progress, TypeOK, Parts
<1> QED  BY <1>1, <1>2, <1>3, <1>4

LEMMA StepInv ==
    ASSUME DeliveryAssumption, DeliveryInv, [Next]_vars
    PROVE  DeliveryInv'
<1>1. CASE UNCHANGED vars
  <2>1. UNCHANGED <<delivery, digest, got, draft, unqueued, created, wait, retry, active, tries, run,
                    ticking, binder, crashes>>
    BY <1>1 DEF vars, jobs, building
  <2> QED  BY <2>1 DEF DeliveryInv, TypeOK, OnlyBuilt, DraftsFree, Progress, Built, Parts
<1>2. CASE \E c \in ReaderChannels : updateDeliverySettings(c)  BY <1>2, SettingsInv
<1>3. CASE unbindTelegram
  <2>1. UNCHANGED <<digest, got, draft, unqueued, created, wait, retry, active, tries, run,
                    ticking, binder, crashes>> /\ delivery' \in Settings
    BY <1>3 DEF unbindTelegram, jobs, building, DeliveryInv, TypeOK, Settings
  <2> QED  BY <2>1 DEF DeliveryInv, TypeOK, OnlyBuilt, DraftsFree, Progress, Built, Parts
<1>4. CASE \E stop \in BOOLEAN : PauseEmail(stop)
  <2>1. UNCHANGED <<digest, got, draft, unqueued, created, wait, retry, active, tries, run,
                    ticking, binder, crashes>> /\ delivery' \in Settings
    BY <1>4 DEF PauseEmail, jobs, building, DeliveryInv, TypeOK, Settings
  <2> QED  BY <2>1 DEF DeliveryInv, TypeOK, OnlyBuilt, DraftsFree, Progress, Built, Parts
<1>5. CASE \E w \in Windows : BeginBuild(w)  BY <1>5, BuildInv
<1>6. CASE \E d \in Digests : WriteDigest(d) \/ QueueBuilt(d) \/ BuilderCrash(d)
  BY <1>6, WriteInv, QueueBuiltInv, BuilderCrashInv
<1>7. CASE Hour \/ TickCrash  BY <1>7, HourInv, TickCrashInv
<1>8. CASE \E d \in SentDigests : TickQueue(d) \/ Expire(d) \/ \E h \in Handlers : Fetch(h, d)
  BY <1>8, TickQueueInv, ExpireInv, FetchInv
<1>9. CASE \E h \in Handlers : HandlerStep(h) \/ HandlerCrash(h)
  BY <1>9, SendMessageInv, SendFailsInv, RecordInv, DeferInv, CompleteInv, HandlerCrashInv
     DEF HandlerStep
<1>10. CASE Bind \/ BindFind \/ BindSend \/ BindInsert \/ BindFails
  BY <1>10, BindInv, BindFindInv, BindSendInv, BindInsertInv, BindFailsInv
<1> QED  BY <1>1, <1>2, <1>3, <1>4, <1>5, <1>6, <1>7, <1>8, <1>9, <1>10 DEF Next

\* Rows, jobs, handlers and lists have their types in every reachable state,
\* whatever the number of windows, handlers, retries and crashes.
THEOREM DeliveryTypes == Spec => []TypeOK
<1>1. Init => DeliveryInv  BY InitInv, DeliveryAssumption
<1>2. DeliveryInv /\ [Next]_vars => DeliveryInv'  BY StepInv, DeliveryAssumption
<1>3. DeliveryInv => TypeOK  BY DEF DeliveryInv
<1> QED  BY <1>1, <1>2, <1>3, PTL DEF Spec

-----------------------------------------------------------------------------
(* Every step is a step of the promise, or leaves it alone *)

\* The promise's variables, as Delivery implements them.
Status == [d \in Digests |-> digest[d].status]
Reached == {d \in SentDigests : got[d] >= Parts(d)}

LEMMA PromiseDigests == SentDigests \cup (Windows \X {"web_only"}) = Digests
  BY DEF SentDigests, Digests, Channels

LEMMA PromiseInit == DeliveryAssumption /\ Init => Promise!Init
<1> SUFFICES ASSUME DeliveryAssumption, Init  PROVE Promise!Init  OBVIOUS
<1>1. Status = [d \in Digests |-> "none"]  BY DEF Init, Status
<1>2. Reached = {}
  <2>1. \A d \in SentDigests : got[d] = 0 /\ Parts(d) \in Nat /\ 1 <= Parts(d)
    BY PartsBounded, SentDigestsFacts DEF Init
  <2> QED  BY <2>1 DEF Reached
<1> QED  BY <1>1, <1>2, PromiseDigests DEF Promise!Init, Promise!Digests, Status, Reached

\* Receiving messages of one digest is a Reach step or changes nothing.
LEMMA PromiseReceive ==
    ASSUME DeliveryAssumption, TypeOK, NEW d \in SentDigests, NEW n \in 0 .. Messages,
           Receive(d, n), UNCHANGED digest
    PROVE  Promise!Reach(d) \/ UNCHANGED Promise!vars
<1>1. d \in Digests  BY SentDigestsFacts
<1>2. \A e \in SentDigests : e # d => got'[e] = got[e]  BY SentDigestsFacts DEF Receive, TypeOK
<1>3. got'[d] >= got[d] /\ got'[d] \in Nat /\ got[d] \in Nat /\ Parts(d) \in Nat
  BY <1>1, ReceiveGrows, PartsBounded DEF TypeOK
<1>4. Reached' = Reached \cup {d} \/ Reached' = Reached
  <2>1. CASE got'[d] >= Parts(d)
    <3>1. d \in Reached'  BY <2>1 DEF Reached, Parts
    <3>2. \A e \in SentDigests : e # d => (e \in Reached' <=> e \in Reached)  BY <1>2 DEF Reached, Parts
    <3> QED  BY <3>1, <3>2 DEF Reached
  <2>2. CASE ~(got'[d] >= Parts(d))
    <3>1. d \notin Reached' /\ d \notin Reached  BY <2>2, <1>3 DEF Reached, Parts
    <3>2. \A e \in SentDigests : e # d => (e \in Reached' <=> e \in Reached)  BY <1>2 DEF Reached, Parts
    <3> QED  BY <3>1, <3>2 DEF Reached
  <2> QED  BY <2>1, <2>2
<1>5. Status' = Status  BY DEF Status
<1> QED  BY <1>4, <1>5 DEF Promise!Reach, Promise!vars, Status, Reached

\* What touches neither the rows nor the reader is invisible.
LEMMA PromiseStutter ==
    ASSUME UNCHANGED <<digest, got>>
    PROVE  UNCHANGED Promise!vars
<1>1. Status' = Status /\ Reached' = Reached  BY DEF Status, Reached, Parts
<1> QED  BY <1>1 DEF Promise!vars, Status, Reached

\* Writing a digest, by the builder or by the bot, is a Build step.
LEMMA PromiseBuild ==
    ASSUME DeliveryAssumption, TypeOK, NEW d \in Digests, UNCHANGED got,
           digest[d].status = "none",
           digest' = [digest EXCEPT ![d].status = IF d[2] = "web_only" THEN "delivered" ELSE "pending"]
    PROVE  Promise!Build(d)
<1>1. d \in Windows \X {"web_only"} <=> d[2] = "web_only"  BY SentDigestsFacts
<1>2. Status' = [Status EXCEPT ![d] = IF d[2] = "web_only" THEN "delivered" ELSE "pending"]
  BY DEF Status, TypeOK, Row
<1>3. Status[d] = "none"  BY DEF Status
<1>4. Reached' = Reached  BY DEF Reached, Parts
<1> QED  BY <1>1, <1>2, <1>3, <1>4 DEF Promise!Build, Status, Reached

\* Recording an outcome is a Deliver step, a Fail step or no step at all.
LEMMA PromiseRecord ==
    ASSUME DeliveryAssumption, DeliveryInv, NEW h \in Handlers, Record(h),
           NEW d \in SentDigests, d = run[h].digest
    PROVE  Promise!Deliver(d) \/ Promise!Fail(d) \/ UNCHANGED Promise!vars
<1> DEFINE again == isRetryableError(d, run[h].error) /\ run[h].attempt < MaxRetries
<1>1. /\ run[h].op = "record" /\ d \in SentDigests /\ d \in Digests /\ digest[d].status # "none"
      /\ digest \in [Digests -> Row]
  BY HandlerFacts DEF Record, DeliveryInv, OnlyBuilt, Built, TypeOK
<1>2. UNCHANGED got /\ Reached' = Reached  BY DEF Record, Reached, Parts
<1>3. Status[d] # "none"  BY <1>1 DEF Status
<1>4. CASE run[h].error = "none"
  <2>1. ~again  BY <1>4 DEF isRetryableError
  <2>2. digest' = [digest EXCEPT ![d] = [status |-> "delivered", attempt |-> 0]]
    BY <1>4, <2>1 DEF Record
  <2>3. Status' = [Status EXCEPT ![d] = "delivered"]  BY <1>1, <2>2 DEF Status
  <2>4. got[d] >= Parts(d)
    <3>1. Parts(d) <= got[d]  BY <1>1, <1>4 DEF DeliveryInv, Progress
    <3>2. Parts(d) \in Nat /\ got[d] \in Nat  BY <1>1, PartsBounded DEF DeliveryInv, TypeOK
    <3> QED  BY <3>1, <3>2
  <2>5. d \in Reached  BY <1>1, <2>4 DEF Reached
  <2> QED  BY <1>1, <1>2, <1>3, <2>3, <2>5 DEF Promise!Deliver, Status, Reached
<1>5. CASE run[h].error # "none" /\ again
  <2>1. digest' = [digest EXCEPT ![d].attempt = run[h].attempt + 1]  BY <1>5 DEF Record
  <2>2. \A e \in Digests : digest'[e].status = digest[e].status  BY <1>1, <2>1 DEF Row
  <2>3. Status' = Status  BY <2>2 DEF Status
  <2> QED  BY <1>2, <2>3 DEF Promise!vars, Status, Reached
<1>6. CASE run[h].error # "none" /\ ~again
  <2>1. digest' = [digest EXCEPT ![d] = [status |-> "failed", attempt |-> 0]]  BY <1>6 DEF Record
  <2>2. Status' = [Status EXCEPT ![d] = "failed"]  BY <1>1, <2>1 DEF Status
  <2> QED  BY <1>1, <1>2, <1>3, <2>2 DEF Promise!Fail, Status, Reached
<1> QED  BY <1>4, <1>5, <1>6

LEMMA PromiseStep ==
    ASSUME DeliveryAssumption, DeliveryInv, [Next]_vars
    PROVE  Promise!Next \/ UNCHANGED Promise!vars
<1>1. CASE UNCHANGED <<digest, got>>  BY <1>1, PromiseStutter
<1>2. \A d : d \in SentDigests => d \in Promise!Digests
  BY DEF Promise!Digests
<1>3. CASE \E d \in Digests : WriteDigest(d)
  <2>1. PICK d \in Digests : WriteDigest(d)  BY <1>3
  <2>2. digest[d].status = "none"
    <3>1. d = <<d[1], d[2]>> /\ d[2] \in Channels  BY SentDigestsFacts
    <3> QED  BY <2>1, <3>1 DEF WriteDigest, DeliveryInv, DraftsFree
  <2>3. Promise!Build(d)  BY <2>1, <2>2, PromiseBuild DEF WriteDigest, DeliveryInv
  <2>4. d \in Promise!Digests  BY PromiseDigests DEF Promise!Digests
  <2> QED  BY <2>3, <2>4 DEF Promise!Next
<1>4. CASE BindInsert
  <2>1. <<binder.window, "telegram">> \in SentDigests
    BY <1>4, SentDigestsFacts DEF BindInsert, DeliveryInv, TypeOK
  <2>2. PICK d \in SentDigests : d = <<binder.window, "telegram">>  BY <2>1
  <2>3. d \in Digests /\ d[2] = "telegram"  BY <2>2, SentDigestsFacts
  <2>4. CASE digest[d].status = "none"
    <3>1. digest' = [digest EXCEPT ![d].status = IF d[2] = "web_only" THEN "delivered" ELSE "pending"]
      BY <1>4, <2>2, <2>3, <2>4 DEF BindInsert
    <3>2. UNCHANGED got  BY <1>4 DEF BindInsert
    <3>3. Promise!Build(d)  BY <2>3, <2>4, <3>1, <3>2, PromiseBuild DEF DeliveryInv
    <3> QED  BY <1>2, <3>3 DEF Promise!Next
  <2>5. CASE digest[d].status # "none"
    <3>1. UNCHANGED <<digest, got>>  BY <1>4, <2>2, <2>5 DEF BindInsert
    <3> QED  BY <3>1, PromiseStutter
  <2> QED  BY <2>4, <2>5
<1>5. CASE BindSend
  <2>1. <<binder.window, "telegram">> \in SentDigests
    BY <1>5, SentDigestsFacts DEF BindSend, DeliveryInv, TypeOK
  <2>2. binder.sent + 1 \in 0 .. Messages
    BY <1>5 DEF BindSend, DeliveryInv, TypeOK, Binder, Progress, DeliveryAssumption
  <2>3. PICK d \in SentDigests, n \in 0 .. Messages :
          d = <<binder.window, "telegram">> /\ n = binder.sent + 1
    BY <2>1, <2>2
  <2>4. Receive(d, n) /\ UNCHANGED digest  BY <1>5, <2>3 DEF BindSend
  <2>5. Promise!Reach(d) \/ UNCHANGED Promise!vars  BY <2>4, PromiseReceive DEF DeliveryInv
  <2> QED  BY <1>2, <2>5 DEF Promise!Next
<1>6. ASSUME NEW h \in Handlers, SendMessage(h) \/ \E e \in Errors : SendFails(h, e)
      PROVE  Promise!Next \/ UNCHANGED Promise!vars
  <2>1. run[h].op = "send"  BY <1>6 DEF SendMessage, SendFails
  <2>2. run[h].digest \in SentDigests  BY <2>1, HandlerFacts DEF DeliveryInv
  <2>3. run[h].sent + 1 \in 0 .. Messages
    <3>1. run[h].sent < Parts(run[h].digest) /\ run[h].sent \in Nat
      BY <2>1, HandlerFacts DEF DeliveryInv, Progress, Run
    <3> QED  BY <3>1, PartsBounded DEF DeliveryAssumption
  <2>4. PICK d \in SentDigests, n \in 0 .. Messages : d = run[h].digest /\ n = run[h].sent + 1
    BY <2>2, <2>3
  <2>5. CASE Receive(d, n) /\ UNCHANGED digest
    <3>1. Promise!Reach(d) \/ UNCHANGED Promise!vars  BY <2>5, PromiseReceive DEF DeliveryInv
    <3> QED  BY <1>2, <3>1 DEF Promise!Next
  <2>6. CASE UNCHANGED <<digest, got>>  BY <2>6, PromiseStutter
  <2> QED  BY <1>6, <2>4, <2>5, <2>6 DEF SendMessage, SendFails
<1>7. ASSUME NEW h \in Handlers, Record(h)
      PROVE  Promise!Next \/ UNCHANGED Promise!vars
  <2>1. run[h].digest \in SentDigests  BY <1>7, HandlerFacts DEF Record, DeliveryInv
  <2>2. PICK d \in SentDigests : d = run[h].digest  BY <2>1
  <2>3. Promise!Deliver(d) \/ Promise!Fail(d) \/ UNCHANGED Promise!vars
    BY <1>7, <2>2, PromiseRecord
  <2> QED  BY <1>2, <2>3 DEF Promise!Next
<1>8. CASE UNCHANGED vars  BY <1>1, <1>8 DEF vars
<1>9. CASE Next
  <2>1. CASE \/ \E c \in ReaderChannels : updateDeliverySettings(c)
             \/ unbindTelegram \/ \E stop \in BOOLEAN : PauseEmail(stop)
             \/ \E w \in Windows : BeginBuild(w)
             \/ \E d \in Digests : QueueBuilt(d) \/ BuilderCrash(d)
             \/ Hour \/ TickCrash \/ Bind \/ BindFind \/ BindFails
    BY <1>1, <2>1 DEF updateDeliverySettings, unbindTelegram, PauseEmail, BeginBuild, QueueBuilt,
                      BuilderCrash, Hour, TickCrash, Bind, BindFind, BindFails
  <2>2. CASE \E d \in SentDigests : TickQueue(d) \/ Expire(d) \/ \E h \in Handlers : Fetch(h, d)
    BY <1>1, <2>2 DEF TickQueue, Expire, Fetch
  <2>3. CASE \E h \in Handlers : Defer(h) \/ Complete(h) \/ HandlerCrash(h)
    BY <1>1, <2>3 DEF Defer, Complete, HandlerCrash
  <2> QED  BY <1>3, <1>4, <1>5, <1>6, <1>7, <1>9, <2>1, <2>2, <2>3 DEF Next, HandlerStep
<1> QED  BY <1>8, <1>9

\* Whatever handlers, ticks, retries, expiries and crashes do, a digest is
\* called delivered only once all its messages have reached the reader, and
\* never goes back to pending: Delivery implements DigestPromise.
THEOREM DeliveryKeepsPromise == Spec => KeepsPromise
<1>1. Init => DeliveryInv /\ Promise!Init  BY InitInv, PromiseInit, DeliveryAssumption
<1>2. DeliveryInv /\ [Next]_vars => DeliveryInv'  BY StepInv, DeliveryAssumption
<1>3. DeliveryInv /\ [Next]_vars => [Promise!Next]_Promise!vars  BY PromiseStep, DeliveryAssumption
<1> QED  BY <1>1, <1>2, <1>3, PTL DEF Spec, KeepsPromise, Promise!Spec

-----------------------------------------------------------------------------
(* The rows of a form *)

\* A sequence of what it holds.
Listed(s) == s \in Seq({s[i] : i \in DOMAIN s})

LEMMA ListedIs ==
    ASSUME NEW s, Listed(s)
    PROVE  Len(s) \in Nat /\ DOMAIN s = 1 .. Len(s)
  BY DEF Listed

LEMMA OwnList ==
    ASSUME NEW S, NEW s \in Seq(S)
    PROVE  Listed(s)
<1>1. Len(s) \in Nat /\ DOMAIN s = 1 .. Len(s) /\ s \in [1 .. Len(s) -> S]  OBVIOUS
<1>2. s \in [1 .. Len(s) -> {s[i] : i \in DOMAIN s}]  BY <1>1
<1> QED  BY <1>1, <1>2 DEF Listed

LEMMA Counted ==
    ASSUME NEW n \in Nat, NEW s, s = [i \in 1 .. n |-> s[i]]
    PROVE  Listed(s)
<1>1. s \in [1 .. n -> {s[i] : i \in DOMAIN s}]  OBVIOUS
<1>2. s \in Seq({s[i] : i \in DOMAIN s})  BY <1>1
<1> QED  BY <1>2 DEF Listed

LEMMA Appending ==
    ASSUME NEW s, Listed(s), NEW r
    PROVE  /\ Listed(Append(s, r)) /\ DOMAIN Append(s, r) = 1 .. Len(s) + 1
           /\ \A j \in 1 .. Len(s) : Append(s, r)[j] = s[j]
           /\ Append(s, r)[Len(s) + 1] = r
<1>0. PICK t : t = Append(s, r)  OBVIOUS
<1>1. PICK S : S = {s[i] : i \in DOMAIN s}  OBVIOUS
<1>2. s \in Seq(S)  BY <1>1 DEF Listed
<1>3. s \in Seq(S \cup {r}) /\ r \in S \cup {r}  BY <1>2
<1>4. t \in Seq(S \cup {r}) /\ Len(t) = Len(s) + 1  BY <1>0, <1>3
<1>5. Listed(t)  BY <1>4, OwnList
<1>6. (\A j \in 1 .. Len(s) : t[j] = s[j]) /\ t[Len(s) + 1] = r  BY <1>0, <1>3
<1> QED  BY <1>0, <1>4, <1>5, <1>6

LEMMA Replacing ==
    ASSUME NEW s, Listed(s), NEW i, NEW r
    PROVE  Listed([s EXCEPT ![i] = r])
<1>1. PICK t : t = [s EXCEPT ![i] = r]  OBVIOUS
<1>2. Len(s) \in Nat /\ s = [j \in 1 .. Len(s) |-> s[j]]  BY ListedIs DEF Listed
<1>3. DOMAIN t = 1 .. Len(s) /\ t = [j \in 1 .. Len(s) |-> t[j]]  BY <1>1, <1>2
<1>4. Listed(t)  BY <1>2, <1>3, Counted
<1> QED  BY <1>1, <1>4

LEMMA Removing ==
    ASSUME NEW s, Listed(s), NEW i \in DOMAIN s
    PROVE  Listed(RemoveAt(s, i))
<1>1. PICK S : S = {s[j] : j \in DOMAIN s}  OBVIOUS
<1>2. s \in Seq(S)  BY <1>1 DEF Listed
<1>3. PICK n \in Nat : n = Len(s)  BY <1>2
<1>4. i \in 1 .. n  BY <1>2, <1>3
<1>5. SubSeq(s, 1, i - 1) \in Seq(S) /\ SubSeq(s, i + 1, n) \in Seq(S)
  BY <1>2, <1>3, <1>4
<1>6. RemoveAt(s, i) \in Seq(S)  BY <1>3, <1>5 DEF RemoveAt
<1> QED  BY <1>6, OwnList

\* Some places have a first.
LEMMA FirstPlace ==
    ASSUME NEW S \in SUBSET Nat, S # {}
    PROVE  \E i \in S : \A j \in S : i <= j
<1> DEFINE R == OpToRel(<, Nat)
<1>1. PICK x \in S : \A y \in S : ~ (<<y, x>> \in R)
  <2>1. IsWellFoundedOn(R, Nat)  BY NatLessThanWellFounded
  <2> HIDE DEF R
  <2> QED  BY <2>1, WFMin
<1>2. \A y \in S : ~(y < x)
  <2>1. \A y \in S : <<y, x>> \in Nat \X Nat  OBVIOUS
  <2>2. \A y \in S : y < x => <<y, x>> \in R  BY <2>1 DEF OpToRel
  <2> QED  BY <2>2, <1>1
<1>3. \A y \in S : x <= y  BY <1>2
<1> QED  BY <1>3

\* As many things as there are places, or fewer.
LEMMA FewerThanPlaces ==
    ASSUME NEW n \in Nat, NEW D \in SUBSET (1 .. n), NEW g
    PROVE  IsFiniteSet({g[i] : i \in D})
<1> DEFINE T == {g[i] : i \in D}
<1>1. CASE D = {}  BY <1>1, FS_EmptySet
<1>2. CASE D # {}
  <2>1. PICK d \in D : TRUE  BY <1>2
  <2>2. PICK f : f = [i \in 1 .. n |-> IF i \in D THEN g[i] ELSE g[d]]  OBVIOUS
  <2>3. f \in [1 .. n -> T]  BY <2>1, <2>2
  <2>4. \A t \in T : \E i \in 1 .. n : f[i] = t  BY <2>2
  <2>5. f \in Surjection(1 .. n, T)  BY <2>3, <2>4 DEF Surjection
  <2> HIDE DEF T
  <2>6. IsFiniteSet(1 .. n)  BY FS_Interval
  <2>7. IsFiniteSet(T)  BY <2>5, <2>6, FS_Surjection
  <2> QED  BY <2>7 DEF T
<1> QED  BY <1>1, <1>2

\* A finite set put into a sequence.
LEMMA Ordered ==
    ASSUME NEW S, IsFiniteSet(S)
    PROVE  \E n \in Nat : DOMAIN SetToSeq(S) = 1 .. n
<1>1. PICK n \in Nat : n = Cardinality(S)  BY FS_CardinalityType
<1>2. ExistsBijection(1 .. n, S)  BY <1>1, FS_CardinalityType
<1>3. PICK f \in Bijection(1 .. n, S) : TRUE  BY <1>2 DEF ExistsBijection
<1>4. f \in [1 .. n -> S] /\ IsInjective(f)  BY <1>3 DEF Bijection, Injection, IsInjective
<1>5. SetToSeq(S) \in [1 .. n -> S]  BY <1>1, <1>4 DEF SetToSeq
<1> QED  BY <1>5

-----------------------------------------------------------------------------
(* What is stored is what the form showed *)

GeoShaped(g) ==
    /\ g = [country |-> g.country, extras |-> g.extras, home |-> g.home, region |-> g.region]
    /\ IsFiniteSet(g.extras) /\ Cardinality(g.extras) <= ExtraLimit

FormShaped(p) ==
    /\ p = [kind |-> p.kind, rows |-> p.rows, geo |-> p.geo, worded |-> p.worded, of |-> p.of]
    /\ Listed(p.rows) /\ GeoShaped(p.geo)

LEMMA ShownTargets ==
    ASSUME FormsAssumption, NEW p, Listed(p.rows), NEW q, q.targets = syncTargets(p), q.from = p
    PROVE  TargetsAsShown(q) /\ IsFiniteSet(q.targets)
<1> DEFINE S == Selected(p)
           rows == p.rows
           D == deduplicate(rows, S)
<1>1. S = Seen(p)  BY DEF Selected, Seen
<1>2. S \in SUBSET Nat  BY ListedIs DEF Selected
<1>3. D \subseteq S  BY DEF deduplicate
<1>4. q.targets = {[name |-> rows[i].name, kind |-> rows[i].kind] : i \in D}  BY DEF syncTargets
<1>5. ASSUME NEW i \in S PROVE \E t \in q.targets : Folded[t.name] = Folded[rows[i].name]
  <2> DEFINE Same == {j \in S : Folded[rows[j].name] = Folded[rows[i].name]}
  <2>1. Same \in SUBSET Nat /\ Same # {}  BY <1>2, <1>5
  <2>2. PICK k \in Same : \A j \in Same : k <= j
    <3> HIDE DEF Same
    <3> QED  BY <2>1, FirstPlace
  <2>3. k \in S /\ Folded[rows[k].name] = Folded[rows[i].name]  BY <2>2
  <2>4. \A j \in S : j < k => Folded[rows[j].name] # Folded[rows[k].name]
    <3>1. SUFFICES ASSUME NEW j \in S, j < k, Folded[rows[j].name] = Folded[rows[k].name] PROVE FALSE
      OBVIOUS
    <3>2. j \in Same  BY <3>1, <2>3
    <3> HIDE DEF Same
    <3>3. k <= j /\ j \in Nat /\ k \in Nat  BY <3>2, <2>1, <2>2
    <3> QED  BY <3>1, <3>3
  <2>5. k \in D  BY <2>3, <2>4 DEF deduplicate
  <2>6. PICK t : t = [name |-> rows[k].name, kind |-> rows[k].kind]  OBVIOUS
  <2>7. t \in q.targets /\ t.name = rows[k].name  BY <1>4, <2>5, <2>6
  <2> QED  BY <2>3, <2>7
<1>6. ASSUME NEW i \in D, NEW j \in D, Folded[rows[i].name] = Folded[rows[j].name] PROVE i = j
  <2>1. i \in Nat /\ j \in Nat /\ i \in S /\ j \in S  BY <1>2, <1>3, <1>6
  <2>2. ~(i < j) /\ ~(j < i)  BY <1>6, <2>1 DEF deduplicate
  <2> QED  BY <2>1, <2>2
<1>7. ASSUME NEW t \in q.targets, NEW u \in q.targets, Folded[t.name] = Folded[u.name] PROVE t = u
  <2>1. PICK i \in D : t = [name |-> rows[i].name, kind |-> rows[i].kind]  BY <1>4, <1>7
  <2>2. PICK j \in D : u = [name |-> rows[j].name, kind |-> rows[j].kind]  BY <1>4, <1>7
  <2>3. t.name = rows[i].name /\ u.name = rows[j].name  BY <2>1, <2>2
  <2>4. i = j  BY <1>6, <1>7, <2>3
  <2> QED  BY <2>1, <2>2, <2>4
<1>8. ASSUME NEW t \in q.targets PROVE \E i \in S : rows[i].name = t.name /\ rows[i].kind = t.kind
  <2>1. PICK i \in D : t = [name |-> rows[i].name, kind |-> rows[i].kind]  BY <1>4, <1>8
  <2> QED  BY <2>1, <1>3
<1>9. IsFiniteSet(q.targets)
  <2>1. PICK n \in Nat : n = Len(rows) /\ DOMAIN rows = 1 .. n  BY ListedIs
  <2>2. D \in SUBSET (1 .. n)  BY <2>1, <1>3 DEF Selected
  <2>3. PICK g : g = [i \in 1 .. n |-> [name |-> rows[i].name, kind |-> rows[i].kind]]  OBVIOUS
  <2>4. q.targets = {g[i] : i \in D}  BY <1>4, <2>2, <2>3
  <2> HIDE DEF D
  <2>5. IsFiniteSet({g[i] : i \in D})  BY <2>2, FewerThanPlaces
  <2> QED  BY <2>4, <2>5
<1> HIDE DEF D
<1> QED  BY <1>1, <1>5, <1>7, <1>8, <1>9 DEF TargetsAsShown

LEMMA ShownSources ==
    ASSUME NEW p, Listed(p.rows), NEW q, q.sources = createSources(p), q.from = p, TargetsAsShown(q)
    PROVE  SourcesAsShown(q)
<1> DEFINE S == Selected(p)
           rows == p.rows
           All == UNION {rows[i].ticked : i \in S}
           StatusAt(a) == IF rows[First(p, a)].kind = "self" /\ allowance.free THEN "paused" ELSE "active"
           Source(a) == [address |-> a, target |-> Folded[rows[First(p, a)].name], status |-> StatusAt(a)]
<1>1. S = Seen(p)  BY DEF Selected, Seen
<1>2. S \in SUBSET Nat  BY ListedIs DEF Selected
<1>3. q.sources = {Source(a) : a \in All}  BY DEF createSources
<1>4. ASSUME NEW a \in All PROVE First(p, a) \in S /\ a \in rows[First(p, a)].ticked
  <2>1. Holding(p, a) \in SUBSET Nat /\ Holding(p, a) # {}  BY <1>2, <1>4 DEF Holding
  <2>2. \E i \in Holding(p, a) : \A j \in Holding(p, a) : i <= j  BY <2>1, FirstPlace
  <2>3. First(p, a) \in Holding(p, a)  BY <2>2 DEF First
  <2> QED  BY <2>3 DEF Holding
<1>5. \A s \in q.sources : \E a \in All : s = Source(a)  BY <1>3
<1>6. \A a \in All : Source(a) \in q.sources  BY <1>3
<1>7. {s.address : s \in q.sources} = All
  <2>1. \A s \in q.sources : s.address \in All  BY <1>5
  <2>2. \A a \in All : \E s \in q.sources : s.address = a  BY <1>6
  <2> HIDE DEF All
  <2> QED  BY <2>1, <2>2
<1>8. ASSUME NEW s \in q.sources, NEW u \in q.sources, s.address = u.address PROVE s = u
  <2>1. PICK a \in All : s = Source(a)  BY <1>5, <1>8
  <2>2. PICK b \in All : u = Source(b)  BY <1>5, <1>8
  <2>3. a = b  BY <2>1, <2>2, <1>8
  <2> QED  BY <2>1, <2>2, <2>3
<1>9. ASSUME NEW s \in q.sources
      PROVE  /\ \E t \in q.targets : Folded[t.name] = s.target
             /\ s.status = "paused" =>
                    allowance.free /\ \E i \in S : s.address \in rows[i].ticked /\ rows[i].kind = "self"
  <2>1. PICK a \in All : s = Source(a)  BY <1>5, <1>9
  <2>2. PICK i \in S : i = First(p, a) /\ a \in rows[i].ticked  BY <1>4
  <2>3. s.address = a /\ s.target = Folded[rows[i].name] /\ s.status = StatusAt(a)  BY <2>1, <2>2
  <2>4. \E t \in q.targets : Folded[t.name] = Folded[rows[i].name]  BY <1>1 DEF TargetsAsShown
  <2>5. s.status = "paused" => rows[i].kind = "self" /\ allowance.free  BY <2>2, <2>3
  <2> QED  BY <2>2, <2>3, <2>4, <2>5
<1> QED  BY <1>1, <1>7, <1>8, <1>9 DEF SourcesAsShown

LEMMA PostedShaped ==
    ASSUME FormsAssumption, NEW p, GeoShaped(p.geo)
    PROVE  /\ GeoShaped(ShownGeo(p)) /\ GeoShaped(PostedGeo(p))
           /\ PostedGeo(p).country = ShownGeo(p).country /\ PostedGeo(p).home = ShownGeo(p).home
           /\ PostedGeo(p).region = ShownGeo(p).region
           /\ PostedGeo(p).extras = IF Cardinality(ShownGeo(p).extras) = ExtraLimit THEN ShownGeo(p).extras ELSE {}
<1>1. PICK g : g = ShownGeo(p)  OBVIOUS
<1>2. g = [country |-> g.country, extras |-> p.geo.extras, home |-> g.home, region |-> g.region]
  BY <1>1 DEF ShownGeo
<1>3. GeoShaped(g) /\ g.extras = p.geo.extras  BY <1>2 DEF GeoShaped
<1>4. PICK r : r = PostedGeo(p)  OBVIOUS
<1>5. r = [g EXCEPT !.extras = IF Cardinality(g.extras) < ExtraLimit THEN {} ELSE g.extras]
  BY <1>1, <1>4 DEF PostedGeo
<1>6. r.country = g.country /\ r.home = g.home /\ r.region = g.region
      /\ r.extras = (IF Cardinality(g.extras) < ExtraLimit THEN {} ELSE g.extras)
      /\ r = [country |-> r.country, extras |-> r.extras, home |-> r.home, region |-> r.region]
  BY <1>2, <1>5
<1>7. ExtraLimit \in Nat /\ Cardinality(g.extras) \in Nat
  BY <1>3, FS_CardinalityType DEF FormsAssumption, GeoShaped
<1>8. r.extras = IF Cardinality(g.extras) = ExtraLimit THEN g.extras ELSE {}
  BY <1>3, <1>6, <1>7 DEF GeoShaped
<1>9. IsFiniteSet({}) /\ Cardinality({}) = 0  BY FS_EmptySet
<1>10. IsFiniteSet(r.extras) /\ Cardinality(r.extras) <= ExtraLimit
  BY <1>3, <1>7, <1>8, <1>9 DEF GeoShaped
<1>11. GeoShaped(r)  BY <1>6, <1>10 DEF GeoShaped
<1> QED  BY <1>1, <1>3, <1>4, <1>6, <1>8, <1>11

LEMMA HomeShaped ==
    ASSUME NEW g, GeoShaped(g)
    PROVE  /\ GeoShaped(WithHome(g)) /\ WithHome(g).country = g.country /\ WithHome(g).region = g.region
           /\ WithHome(g).extras = g.extras
           /\ WithHome(g).home = IF g.home = blank THEN g.country ELSE g.home
<1>1. PICK h : h = WithHome(g)  OBVIOUS
<1>2. h = [g EXCEPT !.home = IF g.home = blank THEN g.country ELSE g.home]  BY <1>1 DEF WithHome
<1>3. h.country = g.country /\ h.region = g.region /\ h.extras = g.extras
      /\ h.home = (IF g.home = blank THEN g.country ELSE g.home)
      /\ h = [country |-> h.country, extras |-> h.extras, home |-> h.home, region |-> h.region]
  BY <1>2 DEF GeoShaped
<1>4. GeoShaped(h)  BY <1>3 DEF GeoShaped
<1> QED  BY <1>1, <1>3, <1>4

\* The profile that a review makes, and the one that a form does.
LEMMA ShownCountries ==
    ASSUME FormsAssumption, NEW p, GeoShaped(p.geo), NEW q, q.from = p,
           \/ q.geo = WithHome(PostedGeo(p))
           \/ q.geo = PostedGeo(p) /\ blank # ShownGeo(p).home
    PROVE  CountriesAsShown(q) /\ GeoShaped(q.geo)
<1>1. PICK g : g = PostedGeo(p)  OBVIOUS
<1>2. PICK s : s = ShownGeo(p)  OBVIOUS
<1>3. /\ GeoShaped(g) /\ g.country = s.country /\ g.home = s.home /\ g.region = s.region
      /\ g.extras = IF Cardinality(s.extras) = ExtraLimit THEN s.extras ELSE {}
  BY <1>1, <1>2, PostedShaped
<1>4. CASE q.geo = WithHome(g)
  BY <1>2, <1>3, <1>4, HomeShaped DEF CountriesAsShown
<1>5. CASE q.geo = g /\ blank # s.home
  BY <1>2, <1>3, <1>5 DEF CountriesAsShown
<1> QED  BY <1>1, <1>2, <1>4, <1>5

\* A profile as it was saved.
ProfileKept(q) ==
    /\ q = [targets |-> q.targets, sources |-> q.sources, geo |-> q.geo, from |-> q.from]
    /\ IsFiniteSet(q.targets) /\ GeoShaped(q.geo)
    /\ TargetsAsShown(q)
    /\ q.from.kind \in {"review", "anon", "result"} => SourcesAsShown(q)
    /\ q.from.kind # "result" => CountriesAsShown(q)

\* What the visitor confirmed is what his profile was made of.
VisitorHeard(q) ==
    q.from.kind \in {"anon", "result"} =>
        /\ taken
        /\ ~overrun => reviewed = IF q.from.kind = "anon" THEN q.from ELSE Closed

\* The form on the screen, and the one that was sent.
OpenForms ==
    /\ found \in Finds
    /\ FormShaped(form) /\ FormShaped(saving.form) /\ FormShaped(reviewed)
    /\ saving = [form |-> saving.form, step |-> saving.step]
    /\ saving.step \in {"check", "keep"} => saving.form.kind = "anon"
    /\ saving.form.kind = "profile" => blank # ShownGeo(saving.form).home
    /\ reviewed # Closed => reviewed.kind = "anon"

StoredProfiles ==
    /\ Listed(profiles)
    /\ \A p \in DOMAIN profiles : ProfileKept(profiles[p]) /\ VisitorHeard(profiles[p])

FormsKept == OpenForms /\ StoredProfiles

LEMMA FindsShaped ==
    ASSUME FormsAssumption, NEW g \in Finds
    PROVE  GeoShaped(g)
  BY DEF FormsAssumption, GeoShaped

LEMMA ClosedShaped ==
    ASSUME FormsAssumption
    PROVE  FormShaped(Closed)
<1>1. PICK c : c = Closed  OBVIOUS
<1>2. PICK g : g = [country |-> blank, extras |-> {}, home |-> blank, region |-> blank]  OBVIOUS
<1>3. c = [kind |-> "closed", rows |-> <<>>, geo |-> g, worded |-> FALSE, of |-> 0]
  BY <1>1, <1>2 DEF Closed
<1>4. c.rows = <<>> /\ c.geo = g
      /\ c = [kind |-> c.kind, rows |-> c.rows, geo |-> c.geo, worded |-> c.worded, of |-> c.of]
  BY <1>3
<1>5. g = [country |-> g.country, extras |-> g.extras, home |-> g.home, region |-> g.region] /\ g.extras = {}
  BY <1>2
<1>6. IsFiniteSet({}) /\ Cardinality({}) = 0  BY FS_EmptySet
<1>7. ExtraLimit \in Nat  BY DEF FormsAssumption
<1>8. GeoShaped(g)  BY <1>5, <1>6, <1>7 DEF GeoShaped
<1>9. <<>> \in Seq({})  OBVIOUS
<1>11. Listed(<<>>)  BY <1>9, OwnList
<1>10. FormShaped(c)  BY <1>4, <1>8, <1>11 DEF FormShaped
<1> QED  BY <1>1, <1>10

\* A form with other rows, other countries, or both.
LEMMA OtherRows ==
    ASSUME NEW p, FormShaped(p), NEW rows, Listed(rows)
    PROVE  FormShaped([p EXCEPT !.rows = rows])
<1>1. PICK r : r = [p EXCEPT !.rows = rows]  OBVIOUS
<1>2. r.rows = rows /\ r.geo = p.geo
      /\ r = [kind |-> r.kind, rows |-> r.rows, geo |-> r.geo, worded |-> r.worded, of |-> r.of]
  BY <1>1 DEF FormShaped
<1> QED  BY <1>1, <1>2 DEF FormShaped

LEMMA OtherCountries ==
    ASSUME NEW p, FormShaped(p), NEW g, GeoShaped(g)
    PROVE  FormShaped([p EXCEPT !.geo = g])
<1>1. PICK r : r = [p EXCEPT !.geo = g]  OBVIOUS
<1>2. r.rows = p.rows /\ r.geo = g
      /\ r = [kind |-> r.kind, rows |-> r.rows, geo |-> r.geo, worded |-> r.worded, of |-> r.of]
  BY <1>1 DEF FormShaped
<1> QED  BY <1>1, <1>2 DEF FormShaped

LEMMA NewForm ==
    ASSUME FormsAssumption, NEW kind, NEW of, NEW rows, Listed(rows), NEW g, GeoShaped(g)
    PROVE  FormShaped([Closed EXCEPT !.kind = kind, !.of = of, !.geo = g, !.rows = rows])
<1>1. PICK r : r = [Closed EXCEPT !.kind = kind, !.of = of, !.geo = g, !.rows = rows]  OBVIOUS
<1>2. r = [kind |-> kind, rows |-> rows, geo |-> g, worded |-> FALSE, of |-> of]
  BY <1>1 DEF Closed
<1>3. r.rows = rows /\ r.geo = g
      /\ r = [kind |-> r.kind, rows |-> r.rows, geo |-> r.geo, worded |-> r.worded, of |-> r.of]
  BY <1>2
<1> QED  BY <1>1, <1>3 DEF FormShaped

LEMMA ProposedRows ==
    ASSUME FormsAssumption, NEW count
    PROVE  Listed(toRows(count)) /\ DOMAIN toRows(count) = DOMAIN Proposed
<1>1. Len(Proposed) \in Nat /\ DOMAIN Proposed = 1 .. Len(Proposed)  BY DEF FormsAssumption
<1>2. PICK t : t = toRows(count)  OBVIOUS
<1>3. t = [i \in 1 .. Len(Proposed) |-> t[i]]  BY <1>1, <1>2 DEF toRows
<1> QED  BY <1>1, <1>2, <1>3, Counted

\* Whatever form is opened has the shape of one.
LEMMA OpenedForms ==
    ASSUME FormsAssumption, FormsKept,
           OpenReview \/ OpenReviewAnon \/ NewProfileForm \/ \E p \in DOMAIN profiles : WatchProfileForm(p)
    PROVE  FormShaped(form') /\ UNCHANGED <<allowance, found, saving, reviewed, taken, profiles, overrun>>
<1>1. GeoShaped(WithHome(found))  BY FindsShaped, HomeShaped DEF FormsKept, OpenForms
<1>2. CASE OpenReview
  <2>1. PICK rows : rows = toRows(allowance.targets - Outside(0))  OBVIOUS
  <2>2. PICK g : g = WithHome(found)  OBVIOUS
  <2>3. PICK r : r = [Closed EXCEPT !.kind = "review", !.rows = rows, !.geo = g]  OBVIOUS
  <2>4. form' = r /\ UNCHANGED <<allowance, found, saving, reviewed, taken, profiles, overrun>>
    BY <1>2, <2>1, <2>2, <2>3 DEF OpenReview, Open
  <2>5. r.rows = rows /\ r.geo = g
        /\ r = [kind |-> r.kind, rows |-> r.rows, geo |-> r.geo, worded |-> r.worded, of |-> r.of]
    BY <2>3 DEF Closed
  <2>6. FormShaped(r)  BY <1>1, <2>1, <2>2, <2>5, ProposedRows DEF FormShaped
  <2> QED  BY <2>4, <2>6
<1>3. CASE OpenReviewAnon
  <2>1. PICK rows : rows = toRows(Len(Proposed))  OBVIOUS
  <2>2. PICK g : g = WithHome(found)  OBVIOUS
  <2>3. PICK r : r = [Closed EXCEPT !.kind = "anon", !.rows = rows, !.geo = g]  OBVIOUS
  <2>4. form' = r /\ UNCHANGED <<allowance, found, saving, reviewed, taken, profiles, overrun>>
    BY <1>3, <2>1, <2>2, <2>3 DEF OpenReviewAnon, Open
  <2>5. r.rows = rows /\ r.geo = g
        /\ r = [kind |-> r.kind, rows |-> r.rows, geo |-> r.geo, worded |-> r.worded, of |-> r.of]
    BY <2>3 DEF Closed
  <2>6. FormShaped(r)  BY <1>1, <2>1, <2>2, <2>5, ProposedRows DEF FormShaped
  <2> QED  BY <2>4, <2>6
<1>4. CASE NewProfileForm
  <2>1. PICK r : r = [Closed EXCEPT !.kind = "profile"]  OBVIOUS
  <2>2. form' = r /\ UNCHANGED <<allowance, found, saving, reviewed, taken, profiles, overrun>>
    BY <1>4, <2>1 DEF NewProfileForm, Open
  <2>3. r.rows = Closed.rows /\ r.geo = Closed.geo
        /\ r = [kind |-> r.kind, rows |-> r.rows, geo |-> r.geo, worded |-> r.worded, of |-> r.of]
    BY <2>1 DEF Closed
  <2>4. FormShaped(r)  BY <2>3, ClosedShaped DEF FormShaped
  <2> QED  BY <2>2, <2>4
<1>5. ASSUME NEW p \in DOMAIN profiles, WatchProfileForm(p)
      PROVE  FormShaped(form') /\ UNCHANGED <<allowance, found, saving, reviewed, taken, profiles, overrun>>
  <2>1. PICK g : g = WithHome(profiles[p].geo)  OBVIOUS
  <2>2. PICK names : names = SetToSeq(profiles[p].targets)  OBVIOUS
  <2>3. PICK rows : rows = [i \in DOMAIN names |-> RowOf(names[i].name, names[i].kind, TRUE, {})]  OBVIOUS
  <2>4. PICK r : r = [Closed EXCEPT !.kind = "profile", !.of = p, !.geo = g, !.rows = rows]  OBVIOUS
  <2>5. form' = r /\ UNCHANGED <<allowance, found, saving, reviewed, taken, profiles, overrun>>
    BY <1>5, <2>1, <2>2, <2>3, <2>4 DEF WatchProfileForm, Open
  <2>6. IsFiniteSet(profiles[p].targets) /\ GeoShaped(profiles[p].geo)
    BY <1>5 DEF FormsKept, StoredProfiles, ProfileKept
  <2>7. PICK n \in Nat : DOMAIN names = 1 .. n  BY <2>2, <2>6, Ordered
  <2>8. rows = [i \in 1 .. n |-> rows[i]]  BY <2>3, <2>7
  <2>9. Listed(rows) /\ GeoShaped(g)  BY <2>1, <2>6, <2>8, Counted, HomeShaped
  <2>10. FormShaped(r)  BY <2>4, <2>9, NewForm
  <2> QED  BY <2>5, <2>10
<1> QED  BY <1>2, <1>3, <1>4, <1>5

RowEdit ==
    \/ AddRow
    \/ \E i \in DOMAIN form.rows :
           \/ SelectTarget(i) \/ RemoveRow(i)
           \/ \E a \in UNION {Proposed[k].surfaces : k \in DOMAIN Proposed} : SelectSurface(i, a)
           \/ \E name \in NamesTyped \cup {blank} : Rename(i, name)
           \/ \E kind \in {"competitor", "platform", "condition", "self"} : ChangeKind(i, kind)
    \/ \E name \in NamesTyped : AddCompetitor(name)

CountryEdit ==
    \/ handleSameAsMain
    \/ \E c \in Lists \cup {blank} : handleMainChange(c) \/ handleHomeChange(c)
    \/ \E c \in Lists : handleExtraChange(c)
    \/ \E c \in form.geo.extras : handleRemoveExtra(c)
    \/ \E r \in UNION {Regions[c] : c \in DOMAIN Regions} : ChooseRegion(r)

\* Whatever is done to its rows, a form keeps its shape.
LEMMA EditedRows ==
    ASSUME FormsAssumption, FormShaped(form), RowEdit
    PROVE  FormShaped(form') /\ UNCHANGED <<allowance, found, saving, reviewed, taken, profiles, overrun>>
<1> DEFINE Rest == UNCHANGED <<allowance, found, saving, reviewed, taken, profiles, overrun>>
<1>0. Listed(form.rows)  BY DEF FormShaped
<1>1. \A rows : Listed(rows) => FormShaped([form EXCEPT !.rows = rows])  BY OtherRows
<1>2. ASSUME NEW i \in DOMAIN form.rows, SelectTarget(i) PROVE FormShaped(form') /\ Rest
  <2>1. PICK r : r = [form.rows[i] EXCEPT !.on = ~@]  OBVIOUS
  <2>2. form' = [form EXCEPT !.rows = [form.rows EXCEPT ![i] = r]] /\ Rest
    BY <1>2, <2>1 DEF SelectTarget, Edit
  <2>3. Listed([form.rows EXCEPT ![i] = r])  BY <1>0, Replacing
  <2> QED  BY <1>1, <2>2, <2>3
<1>3. ASSUME NEW i \in DOMAIN form.rows, RemoveRow(i) PROVE FormShaped(form') /\ Rest
  <2>1. form' = [form EXCEPT !.rows = RemoveAt(form.rows, i)] /\ Rest
    BY <1>3 DEF RemoveRow, Edit
  <2>2. Listed(RemoveAt(form.rows, i))  BY <1>0, Removing
  <2> QED  BY <1>1, <2>1, <2>2
<1>4. ASSUME NEW i \in DOMAIN form.rows, NEW a, SelectSurface(i, a) PROVE FormShaped(form') /\ Rest
  <2>1. PICK r : r = [form.rows[i] EXCEPT !.ticked = IF a \in @ THEN @ \ {a} ELSE @ \cup {a}]  OBVIOUS
  <2>2. form' = [form EXCEPT !.rows = [form.rows EXCEPT ![i] = r]] /\ Rest
    BY <1>4, <2>1 DEF SelectSurface, Edit
  <2>3. Listed([form.rows EXCEPT ![i] = r])  BY <1>0, Replacing
  <2> QED  BY <1>1, <2>2, <2>3
<1>5. ASSUME NEW i \in DOMAIN form.rows, NEW name, Rename(i, name) PROVE FormShaped(form') /\ Rest
  <2>1. PICK r : r = [form.rows[i] EXCEPT !.name = name]  OBVIOUS
  <2>2. form' = [form EXCEPT !.rows = [form.rows EXCEPT ![i] = r]] /\ Rest
    BY <1>5, <2>1 DEF Rename, Edit
  <2>3. Listed([form.rows EXCEPT ![i] = r])  BY <1>0, Replacing
  <2> QED  BY <1>1, <2>2, <2>3
<1>6. ASSUME NEW i \in DOMAIN form.rows, NEW kind, ChangeKind(i, kind) PROVE FormShaped(form') /\ Rest
  <2>1. PICK r : r = [form.rows[i] EXCEPT !.kind = kind]  OBVIOUS
  <2>2. form' = [form EXCEPT !.rows = [form.rows EXCEPT ![i] = r]] /\ Rest
    BY <1>6, <2>1 DEF ChangeKind, Edit
  <2>3. Listed([form.rows EXCEPT ![i] = r])  BY <1>0, Replacing
  <2> QED  BY <1>1, <2>2, <2>3
<1>7. ASSUME NEW name, AddCompetitor(name) PROVE FormShaped(form') /\ Rest
  <2>1. PICK r : r = RowOf(name, "competitor", TRUE, {})  OBVIOUS
  <2>2. form' = [form EXCEPT !.rows = Append(form.rows, r)] /\ Rest
    BY <1>7, <2>1 DEF AddCompetitor, Edit
  <2>3. Listed(Append(form.rows, r))  BY <1>0, Appending
  <2> QED  BY <1>1, <2>2, <2>3
<1>8. ASSUME AddRow PROVE FormShaped(form') /\ Rest
  <2>1. PICK r : r = RowOf(blank, "competitor", TRUE, {})  OBVIOUS
  <2>2. form' = [form EXCEPT !.rows = Append(form.rows, r)] /\ Rest
    BY <1>8, <2>1 DEF AddRow, Edit
  <2>3. Listed(Append(form.rows, r))  BY <1>0, Appending
  <2> QED  BY <1>1, <2>2, <2>3
<1> HIDE DEF Rest
<1>9. FormShaped(form') /\ Rest
  BY <1>2, <1>3, <1>4, <1>5, <1>6, <1>7, <1>8 DEF RowEdit
<1> QED  BY <1>9 DEF Rest

\* Whatever is done to its countries, too.
LEMMA EditedCountries ==
    ASSUME FormsAssumption, FormShaped(form), CountryEdit
    PROVE  FormShaped(form') /\ UNCHANGED <<allowance, found, saving, reviewed, taken, profiles, overrun>>
<1> DEFINE Rest == UNCHANGED <<allowance, found, saving, reviewed, taken, profiles, overrun>>
<1>0. GeoShaped(form.geo) /\ ExtraLimit \in Nat  BY DEF FormShaped, FormsAssumption
<1>1. \A g : GeoShaped(g) => FormShaped([form EXCEPT !.geo = g])  BY OtherCountries
<1>2. ASSUME NEW g, \/ \E c : g = [form.geo EXCEPT !.country = c]
                    \/ \E c : g = [form.geo EXCEPT !.home = c]
                    \/ \E c : g = [form.geo EXCEPT !.region = c]
                    \/ \E c, r : g = [form.geo EXCEPT !.home = c, !.region = r]
      PROVE  GeoShaped(g)
  <2>1. g.extras = form.geo.extras
        /\ g = [country |-> g.country, extras |-> g.extras, home |-> g.home, region |-> g.region]
    BY <1>0, <1>2 DEF GeoShaped
  <2> QED  BY <1>0, <2>1 DEF GeoShaped
<1>3. ASSUME NEW S, IsFiniteSet(S), Cardinality(S) <= ExtraLimit, NEW g, g = [form.geo EXCEPT !.extras = S]
      PROVE  GeoShaped(g)
  <2>1. g.extras = S
        /\ g = [country |-> g.country, extras |-> g.extras, home |-> g.home, region |-> g.region]
    BY <1>0, <1>3 DEF GeoShaped
  <2> QED  BY <1>3, <2>1 DEF GeoShaped
<1>4. ASSUME handleSameAsMain PROVE FormShaped(form') /\ Rest
  <2>1. PICK c : form' = [form EXCEPT !.geo = [form.geo EXCEPT !.home = c, !.region = blank]] /\ Rest
    BY <1>4 DEF handleSameAsMain, Edit
  <2> QED  BY <1>1, <1>2, <2>1
<1>5. ASSUME NEW c, handleMainChange(c) \/ handleHomeChange(c) PROVE FormShaped(form') /\ Rest
  <2>1. PICK g : form' = [form EXCEPT !.geo = g] /\ Rest
                 /\ (g = [form.geo EXCEPT !.country = c] \/ g = [form.geo EXCEPT !.home = c])
    BY <1>5 DEF handleMainChange, handleHomeChange, Edit
  <2> QED  BY <1>1, <1>2, <2>1
<1>6. ASSUME NEW r, ChooseRegion(r) PROVE FormShaped(form') /\ Rest
  <2>1. form' = [form EXCEPT !.geo = [form.geo EXCEPT !.region = r]] /\ Rest
    BY <1>6 DEF ChooseRegion, Edit
  <2> QED  BY <1>1, <1>2, <2>1
<1>7. ASSUME NEW c, handleExtraChange(c) PROVE FormShaped(form') /\ Rest
  <2>1. PICK S : S = form.geo.extras \cup {c}  OBVIOUS
  <2>2. form' = [form EXCEPT !.geo = [form.geo EXCEPT !.extras = S]] /\ Rest
        /\ Cardinality(form.geo.extras) < ExtraLimit
    BY <1>7, <2>1 DEF handleExtraChange, Edit
  <2>3. IsFiniteSet(form.geo.extras) /\ Cardinality(form.geo.extras) \in Nat
    BY <1>0, FS_CardinalityType DEF GeoShaped
  <2>4. IsFiniteSet(S) /\ (Cardinality(S) = Cardinality(form.geo.extras)
                           \/ Cardinality(S) = Cardinality(form.geo.extras) + 1)
    BY <2>1, <2>3, FS_AddElement
  <2>5. Cardinality(S) <= ExtraLimit  BY <1>0, <2>2, <2>3, <2>4
  <2> QED  BY <1>1, <1>3, <2>2, <2>4, <2>5
<1>8. ASSUME NEW c, handleRemoveExtra(c) PROVE FormShaped(form') /\ Rest
  <2>1. PICK S : S = form.geo.extras \ {c}  OBVIOUS
  <2>2. form' = [form EXCEPT !.geo = [form.geo EXCEPT !.extras = S]] /\ Rest
    BY <1>8, <2>1 DEF handleRemoveExtra, Edit
  <2>3. IsFiniteSet(form.geo.extras) /\ Cardinality(form.geo.extras) \in Nat /\ Cardinality(form.geo.extras) <= ExtraLimit
    BY <1>0, FS_CardinalityType DEF GeoShaped
  <2>4. IsFiniteSet(S) /\ Cardinality(S) \in Nat /\ Cardinality(S) <= Cardinality(form.geo.extras)
    BY <2>1, <2>3, FS_Subset, FS_CardinalityType
  <2>5. Cardinality(S) <= ExtraLimit  BY <1>0, <2>3, <2>4
  <2> QED  BY <1>1, <1>3, <2>2, <2>4, <2>5
<1> HIDE DEF Rest
<1>9. FormShaped(form') /\ Rest
  BY <1>4, <1>5, <1>6, <1>7, <1>8 DEF CountryEdit
<1> QED  BY <1>9 DEF Rest

\* A profile is as good after a step as before it: the plan does not change.
LEMMA KeptStays ==
    ASSUME allowance' = allowance, NEW q, ProfileKept(q)
    PROVE  ProfileKept(q)'
<1>1. SourcesAsShown(q) => SourcesAsShown(q)'  BY DEF SourcesAsShown
<1>2. TargetsAsShown(q) => TargetsAsShown(q)'  BY DEF TargetsAsShown
<1>3. CountriesAsShown(q) => CountriesAsShown(q)'  BY DEF CountriesAsShown
<1> QED  BY <1>1, <1>2, <1>3 DEF ProfileKept

\* What is made of a review, or of what the visitor confirmed.
LEMMA MadeFromReview ==
    ASSUME FormsAssumption, NEW p, FormShaped(p), NEW q,
           q = [targets |-> syncTargets(p), sources |-> createSources(p), geo |-> WithHome(Countries(p)), from |-> p]
    PROVE  ProfileKept(q)
<1>1. q.targets = syncTargets(p) /\ q.sources = createSources(p) /\ q.geo = WithHome(Countries(p)) /\ q.from = p
      /\ q = [targets |-> q.targets, sources |-> q.sources, geo |-> q.geo, from |-> q.from]
  OBVIOUS
<1>2. Listed(p.rows) /\ GeoShaped(p.geo)  BY DEF FormShaped
<1>3. TargetsAsShown(q) /\ IsFiniteSet(q.targets)  BY <1>1, <1>2, ShownTargets
<1>4. SourcesAsShown(q)  BY <1>1, <1>2, <1>3, ShownSources
<1>5. GeoShaped(q.geo) /\ (p.kind # "result" => CountriesAsShown(q))
  <2>1. CASE p.kind = "result"
    <3>1. q.geo = WithHome(p.geo)  BY <1>1, <2>1 DEF Countries
    <3> QED  BY <1>2, <2>1, <3>1, HomeShaped
  <2>2. CASE p.kind # "result"
    <3>1. q.geo = WithHome(PostedGeo(p))  BY <1>1, <2>2 DEF Countries
    <3> QED  BY <1>1, <1>2, <3>1, ShownCountries
  <2> QED  BY <2>1, <2>2
<1> QED  BY <1>1, <1>3, <1>4, <1>5 DEF ProfileKept

\* What is saved from the form of a profile, whatever its sources were.
LEMMA MadeByHand ==
    ASSUME FormsAssumption, NEW p, FormShaped(p), p.kind = "profile", blank # ShownGeo(p).home, NEW sources, NEW q,
           q = [targets |-> syncTargets(p), sources |-> sources, geo |-> PostedGeo(p), from |-> p]
    PROVE  ProfileKept(q)
<1>1. q.targets = syncTargets(p) /\ q.sources = sources /\ q.geo = PostedGeo(p) /\ q.from = p
      /\ q = [targets |-> q.targets, sources |-> q.sources, geo |-> q.geo, from |-> q.from]
  OBVIOUS
<1>2. Listed(p.rows) /\ GeoShaped(p.geo)  BY DEF FormShaped
<1>3. TargetsAsShown(q) /\ IsFiniteSet(q.targets)  BY <1>1, <1>2, ShownTargets
<1>4. CountriesAsShown(q) /\ GeoShaped(q.geo)  BY <1>1, <1>2, ShownCountries
<1>5. q.from.kind \notin {"review", "anon", "result"}  BY <1>1
<1> QED  BY <1>1, <1>3, <1>4, <1>5 DEF ProfileKept

LEMMA OneMoreProfile ==
    ASSUME StoredProfiles, allowance' = allowance, NEW q, ProfileKept(q), VisitorHeard(q)',
           profiles' = Append(profiles, q),
           \A r : (\E p \in DOMAIN profiles : r = profiles[p]) /\ VisitorHeard(r) => VisitorHeard(r)'
    PROVE  StoredProfiles'
<1>1. PICK n \in Nat : n = Len(profiles) /\ DOMAIN profiles = 1 .. n
  BY ListedIs DEF StoredProfiles
<1>2. PICK t : t = profiles'  OBVIOUS
<1>3. /\ Listed(t) /\ DOMAIN t = 1 .. n + 1
      /\ \A j \in 1 .. n : t[j] = profiles[j]
      /\ t[n + 1] = q
  BY <1>1, <1>2, Appending DEF StoredProfiles
<1>4. ASSUME NEW p \in 1 .. n + 1 PROVE ProfileKept(t[p])' /\ VisitorHeard(t[p])'
  <2>1. CASE p = n + 1  BY <1>3, <2>1, KeptStays
  <2>2. CASE p \in 1 .. n
    <3>1. t[p] = profiles[p] /\ ProfileKept(t[p]) /\ VisitorHeard(t[p])
      BY <1>1, <1>3, <2>2 DEF StoredProfiles
    <3>2. PICK r : r = t[p]  OBVIOUS
    <3>3. ProfileKept(r)'  BY <3>1, <3>2, KeptStays
    <3>4. VisitorHeard(r)'  BY <1>1, <2>2, <3>1, <3>2
    <3> QED  BY <3>2, <3>3, <3>4
  <2> QED  BY <1>1, <2>1, <2>2
<1> QED  BY <1>2, <1>3, <1>4 DEF StoredProfiles

LEMMA SameProfiles ==
    ASSUME StoredProfiles, UNCHANGED <<allowance, profiles, reviewed, taken, overrun>>
    PROVE  StoredProfiles'
<1>1. PICK t : t = profiles /\ t = profiles'  OBVIOUS
<1>2. Listed(t) /\ \A p \in DOMAIN t : ProfileKept(t[p]) /\ VisitorHeard(t[p])
  BY <1>1 DEF StoredProfiles
<1>3. ASSUME NEW p \in DOMAIN t PROVE ProfileKept(t[p])' /\ VisitorHeard(t[p])'
  <2>1. PICK r : r = t[p]  OBVIOUS
  <2>2. ProfileKept(r) /\ VisitorHeard(r)  BY <1>2, <2>1
  <2>3. ProfileKept(r)'  BY <2>2, KeptStays
  <2>4. VisitorHeard(r)'  BY <2>2 DEF VisitorHeard
  <2> QED  BY <2>1, <2>3, <2>4
<1> QED  BY <1>1, <1>2, <1>3 DEF StoredProfiles

LEMMA FormsStart ==
    ASSUME FormsAssumption, FormsInit
    PROVE  FormsKept
<1>1. FormShaped(Closed) /\ Closed.kind = "closed"  BY ClosedShaped DEF Closed
<1>2. form = Closed /\ saving = [form |-> Closed, step |-> "none"] /\ reviewed = Closed /\ found \in Finds /\ profiles = <<>>
  BY DEF FormsInit, Nothing
<1>3. saving.form = Closed /\ saving.step = "none"  BY <1>2
<1>4. OpenForms  BY <1>1, <1>2, <1>3 DEF OpenForms
<1>5. <<>> \in Seq({})  OBVIOUS
<1>6. Listed(profiles) /\ DOMAIN profiles = {}
  <2>1. PICK t : t = profiles  OBVIOUS
  <2>2. t \in Seq({}) /\ DOMAIN t = {}  BY <1>2, <2>1
  <2>3. Listed(t)  BY <2>2, OwnList
  <2> QED  BY <2>1, <2>2, <2>3
<1>7. StoredProfiles  BY <1>6 DEF StoredProfiles
<1> QED  BY <1>4, <1>7 DEF FormsKept

\* Opening a form, and what is done on it, leaves what is stored alone.
LEMMA FormOnly ==
    ASSUME FormsAssumption, FormsKept, FormShaped(form'),
           UNCHANGED <<allowance, found, saving, reviewed, taken, profiles, overrun>>
    PROVE  FormsKept'
<1>1. PICK p : p = saving.form /\ p = saving'.form  OBVIOUS
<1>2. saving' = saving /\ reviewed' = reviewed /\ found' = found  OBVIOUS
<1>3. OpenForms'  BY <1>1, <1>2 DEF FormsKept, OpenForms
<1>4. StoredProfiles'  BY SameProfiles DEF FormsKept
<1> QED  BY <1>3, <1>4 DEF FormsKept

\* What follows a save: its form is gone, or as it was.
LEMMA ToldEither ==
    ASSUME FormsAssumption, OpenForms, NEW told, Told(told), found' = found,
           FormShaped(reviewed'), reviewed' # Closed => reviewed'.kind = "anon"
    PROVE  OpenForms'
<1>1. FormShaped(Closed) /\ Closed.kind = "closed"  BY ClosedShaped DEF Closed
<1>2. FormShaped(form')  BY <1>1 DEF OpenForms, Told
<1>3. saving' = [form |-> Closed, step |-> "none"]  BY DEF Told, Nothing
<1>4. saving'.form = Closed /\ saving'.step = "none" /\ saving' = [form |-> saving'.form, step |-> saving'.step]
  BY <1>3
<1> QED  BY <1>1, <1>2, <1>4 DEF OpenForms

LEMMA Submitted ==
    ASSUME FormsAssumption, FormsKept, handleSubmit
    PROVE  FormsKept'
<1>1. PICK p : p = form  OBVIOUS
<1>2. saving' = [form |-> p, step |-> IF p.kind = "anon" THEN "check" ELSE "store"] /\ FormShaped(p)
      /\ ~Unacceptable(p) /\ form' = p /\ reviewed' = reviewed /\ found' = found
  BY <1>1 DEF handleSubmit, FormsKept, OpenForms
<1>3. saving'.form = p /\ saving'.step = (IF p.kind = "anon" THEN "check" ELSE "store")
      /\ saving' = [form |-> saving'.form, step |-> saving'.step]
  BY <1>2
<1>4. p.kind = "profile" => blank # ShownGeo(p).home  BY <1>2 DEF Unacceptable
<1>5. p.kind = "profile" => blank # ShownGeo(saving'.form).home  BY <1>3, <1>4
<1>6. saving'.step \in {"check", "keep"} => p.kind = "anon"  BY <1>3
<1>7. OpenForms'  BY <1>2, <1>3, <1>5, <1>6 DEF FormsKept, OpenForms
<1>8. StoredProfiles'  BY SameProfiles DEF FormsKept, handleSubmit
<1> QED  BY <1>7, <1>8 DEF FormsKept

LEMMA RowChecked ==
    ASSUME FormsAssumption, FormsKept, CheckPending
    PROVE  FormsKept'
<1>1. PICK p : p = saving.form  OBVIOUS
<1>2. saving = [form |-> p, step |-> "check"] /\ p.kind = "anon" /\ FormShaped(p)
  BY <1>1 DEF CheckPending, FormsKept, OpenForms
<1>3. saving' = [form |-> p, step |-> "keep"]  BY <1>2 DEF CheckPending
<1>4. saving'.form = p /\ saving' = [form |-> saving'.form, step |-> saving'.step]  BY <1>3
<1>5. FormShaped(form') /\ found' \in Finds /\ FormShaped(reviewed') /\ (reviewed' # Closed => reviewed'.kind = "anon")
  BY DEF CheckPending, FormsKept, OpenForms
<1>6. OpenForms'  BY <1>2, <1>4, <1>5 DEF OpenForms
<1>7. StoredProfiles'  BY SameProfiles DEF FormsKept, CheckPending
<1> QED  BY <1>6, <1>7 DEF FormsKept

\* The visitor's answer is kept, and is what his profile was made of unless his
\* row was used since it was read.
LEMMA ReviewKept ==
    ASSUME FormsAssumption, FormsKept, NEW told, savePendingReview(told)
    PROVE  FormsKept'
<1>1. PICK p : p = saving.form  OBVIOUS
<1>2. reviewed' = p /\ FormShaped(p) /\ p.kind = "anon"
  BY <1>1 DEF savePendingReview, FormsKept, OpenForms
<1>3. OpenForms'  BY <1>2, ToldEither DEF FormsKept, savePendingReview
<1>4. PICK t : t = profiles /\ t = profiles'  BY DEF savePendingReview
<1>5. Listed(t) /\ \A i \in DOMAIN t : ProfileKept(t[i]) /\ VisitorHeard(t[i])
  BY <1>4 DEF FormsKept, StoredProfiles
<1>6. ASSUME NEW i \in DOMAIN t PROVE ProfileKept(t[i])' /\ VisitorHeard(t[i])'
  <2>1. PICK r : r = t[i]  OBVIOUS
  <2>2. ProfileKept(r) /\ VisitorHeard(r)  BY <1>5, <2>1
  <2>3. ProfileKept(r)'  BY <2>2, KeptStays DEF savePendingReview
  <2>4. VisitorHeard(r)'  BY <2>2 DEF VisitorHeard, savePendingReview
  <2> QED  BY <2>1, <2>3, <2>4
<1>7. StoredProfiles'  BY <1>4, <1>5, <1>6 DEF StoredProfiles
<1> QED  BY <1>3, <1>7 DEF FormsKept

LEMMA SaveFailed ==
    ASSUME FormsAssumption, FormsKept, SaveFails
    PROVE  FormsKept'
<1>1. OpenForms'  BY ToldEither DEF FormsKept, OpenForms, SaveFails
<1>2. StoredProfiles'  BY SameProfiles DEF FormsKept, SaveFails
<1> QED  BY <1>1, <1>2 DEF FormsKept

LEMMA ReviewCreated ==
    ASSUME FormsAssumption, FormsKept, NEW told, CreateFromReview(told)
    PROVE  FormsKept'
<1>1. OpenForms'  BY ToldEither DEF FormsKept, OpenForms, CreateFromReview
<1>2. PICK p : p = saving.form  OBVIOUS
<1>3. FormShaped(p) /\ p.kind = "review"  BY <1>2 DEF FormsKept, OpenForms, CreateFromReview
<1>4. PICK q : q = [targets |-> syncTargets(p), sources |-> createSources(p), geo |-> WithHome(Countries(p)), from |-> p]
  OBVIOUS
<1>5. profiles' = Append(profiles, q) /\ UNCHANGED <<allowance, reviewed, taken, overrun>>
  BY <1>2, <1>4 DEF CreateFromReview, createProfileFromDiscovery
<1>6. ProfileKept(q) /\ q.from = p  BY <1>3, <1>4, MadeFromReview
<1>7. VisitorHeard(q)'  BY <1>3, <1>6 DEF VisitorHeard
<1>8. \A r : VisitorHeard(r) => VisitorHeard(r)'  BY <1>5 DEF VisitorHeard
<1>9. StoredProfiles'  BY <1>5, <1>6, <1>7, <1>8, OneMoreProfile DEF FormsKept
<1> QED  BY <1>1, <1>9 DEF FormsKept

LEMMA FormSaved ==
    ASSUME FormsAssumption, FormsKept, NEW told, SaveForm(told)
    PROVE  FormsKept'
<1>1. OpenForms'  BY ToldEither DEF FormsKept, OpenForms, SaveForm
<1>2. PICK p : p = saving.form  OBVIOUS
<1>3. FormShaped(p) /\ p.kind = "profile" /\ blank # ShownGeo(p).home
  BY <1>2 DEF FormsKept, OpenForms, SaveForm
<1>4. UNCHANGED <<allowance, reviewed, taken, overrun>>  BY DEF SaveForm
<1>5. \A r : VisitorHeard(r) => VisitorHeard(r)'  BY <1>4 DEF VisitorHeard
<1>6. \A r : r.from = p => VisitorHeard(r)'  BY <1>3 DEF VisitorHeard
<1>7. CASE p.of = 0
  <2>1. PICK q : q = [targets |-> syncTargets(p), sources |-> {}, geo |-> PostedGeo(p), from |-> p]  OBVIOUS
  <2>2. profiles' = Append(profiles, q)  BY <1>2, <1>7, <2>1 DEF SaveForm, createWatchProfile
  <2>3. ProfileKept(q) /\ q.from = p  BY <1>3, <2>1, MadeByHand
  <2>4. StoredProfiles'  BY <1>4, <1>5, <1>6, <2>2, <2>3, OneMoreProfile DEF FormsKept
  <2> QED  BY <1>1, <2>4 DEF FormsKept
<1>8. CASE p.of # 0
  <2>1. PICK old : old = profiles[p.of]  OBVIOUS
  <2>2. PICK q : q = [[[old EXCEPT !.targets = syncTargets(p)] EXCEPT !.geo = PostedGeo(p)] EXCEPT !.from = p]  OBVIOUS
  <2>3. profiles' = [profiles EXCEPT ![p.of] = q]
    BY <1>2, <1>8, <2>1, <2>2 DEF SaveForm, saveWatchProfile, FormsKept, StoredProfiles
  <2>4. PICK t : t = profiles'  OBVIOUS
  <2>5. Listed(t) /\ DOMAIN t = DOMAIN profiles
        /\ \A i \in DOMAIN profiles : t[i] = IF i = p.of THEN q ELSE profiles[i]
    BY <2>3, <2>4, Replacing DEF FormsKept, StoredProfiles
  <2>6. ASSUME NEW i \in DOMAIN t PROVE ProfileKept(t[i])' /\ VisitorHeard(t[i])'
    <3>1. PICK r : r = t[i]  OBVIOUS
    <3>2. CASE i = p.of
      <4>1. ProfileKept(old)  BY <2>1, <2>5, <2>6, <3>2 DEF FormsKept, StoredProfiles
      <4>2. q = [targets |-> syncTargets(p), sources |-> old.sources, geo |-> PostedGeo(p), from |-> p]
        BY <2>2, <4>1 DEF ProfileKept
      <4>3. ProfileKept(q) /\ q.from = p  BY <1>3, <4>2, MadeByHand
      <4>4. r = q  BY <2>5, <2>6, <3>1, <3>2
      <4>5. ProfileKept(r) /\ r.from = p  BY <4>3, <4>4
      <4> QED  BY <1>4, <1>6, <3>1, <4>5, KeptStays
    <3>3. CASE i # p.of
      <4>1. r = profiles[i] /\ i \in DOMAIN profiles  BY <2>5, <2>6, <3>1, <3>3
      <4>2. ProfileKept(r) /\ VisitorHeard(r)  BY <4>1 DEF FormsKept, StoredProfiles
      <4> QED  BY <1>4, <1>5, <3>1, <4>2, KeptStays
    <3> QED  BY <3>2, <3>3
  <2>7. StoredProfiles'  BY <2>4, <2>5, <2>6 DEF StoredProfiles
  <2> QED  BY <1>1, <2>7 DEF FormsKept
<1> QED  BY <1>7, <1>8

\* The link is followed: a profile of what was confirmed, or of what was found.
LEMMA LinkFollowed ==
    ASSUME FormsAssumption, FormsKept, completePendingOnboarding
    PROVE  FormsKept'
<1>1. PICK p : p = profileInputFromPending  OBVIOUS
<1>2. FormShaped(p) /\ p.kind \in {"anon", "result"} /\ reviewed = IF p.kind = "anon" THEN p ELSE Closed
  <2>1. CASE reviewed # Closed
    BY <1>1, <2>1 DEF profileInputFromPending, FormsKept, OpenForms
  <2>2. CASE reviewed = Closed
    <3>1. PICK rows : rows = [i \in DOMAIN Proposed |->
                                 [toRows(Len(Proposed))[i] EXCEPT !.on = Proposed[i].kind # "condition"]]
      OBVIOUS
    <3>2. PICK g : g = found  OBVIOUS
    <3>3. p = [Closed EXCEPT !.kind = "result", !.geo = g, !.rows = rows]
      BY <1>1, <2>2, <3>1, <3>2 DEF profileInputFromPending
    <3>4. p.kind = "result" /\ p.rows = rows /\ p.geo = g
          /\ p = [kind |-> p.kind, rows |-> p.rows, geo |-> p.geo, worded |-> p.worded, of |-> p.of]
      BY <3>3 DEF Closed
    <3>5. Len(Proposed) \in Nat /\ DOMAIN Proposed = 1 .. Len(Proposed)  BY DEF FormsAssumption
    <3>6. rows = [i \in 1 .. Len(Proposed) |-> rows[i]]  BY <3>1, <3>5
    <3>7. Listed(rows) /\ GeoShaped(g)  BY <3>2, <3>5, <3>6, Counted, FindsShaped DEF FormsKept, OpenForms
    <3>8. FormShaped(p)  BY <3>4, <3>7 DEF FormShaped
    <3> QED  BY <2>2, <3>4, <3>8
  <2> QED  BY <2>1, <2>2
<1>3. PICK q : q = [targets |-> syncTargets(p), sources |-> createSources(p), geo |-> WithHome(Countries(p)), from |-> p]
  OBVIOUS
<1>4. profiles' = Append(profiles, q) /\ UNCHANGED <<allowance, reviewed, overrun>> /\ ~taken /\ taken'
  BY <1>1, <1>3 DEF completePendingOnboarding, createProfileFromDiscovery
<1>5. ProfileKept(q) /\ q.from = p  BY <1>2, <1>3, MadeFromReview
<1>6. VisitorHeard(q)'  BY <1>2, <1>4, <1>5 DEF VisitorHeard
<1>7. \A r : VisitorHeard(r) => VisitorHeard(r)'  BY <1>4 DEF VisitorHeard
<1>8. StoredProfiles'  BY <1>4, <1>5, <1>6, <1>7, OneMoreProfile DEF FormsKept
<1>9. PICK s : s = saving.form /\ s = saving'.form  BY DEF completePendingOnboarding
<1>10. form' = form /\ saving' = saving /\ reviewed' = reviewed /\ found' = found
  BY DEF completePendingOnboarding
<1>11. OpenForms'  BY <1>9, <1>10 DEF FormsKept, OpenForms
<1> QED  BY <1>8, <1>11 DEF FormsKept

LEMMA FormLeft ==
    ASSUME FormsAssumption, FormsKept, LeaveForm
    PROVE  FormsKept'
<1>1. FormShaped(form')  BY ClosedShaped DEF LeaveForm
<1> QED  BY <1>1, FormOnly DEF LeaveForm

\* What is stored of a profile is what its form showed when it was sent, and
\* what the visitor confirmed last is what his profile is made of unless his row
\* was used in between (packages/domain/src/profiles/from-discovery.ts,
\* reconcile.ts, apps/web/src/components/onboarding/discovery-review.tsx,
\* -anon.tsx), whatever was read, typed and chosen and however long the forms
\* are.  Inductive with the shape of the forms: a form sent is as it was when
\* sent, the visitor's carries only his answers, and until the row is used no
\* profile is his.
THEOREM FormsSavedAsShown == FormsSpec => []SavedAsShown
<1> USE FormsAssumption
<1>1. FormsInit => FormsKept  BY FormsStart
<1>2. FormsKept /\ [FormsNext]_formsVars => FormsKept'
  <2> SUFFICES ASSUME FormsKept, [FormsNext]_formsVars PROVE FormsKept'
    OBVIOUS
  <2>1. CASE OpenReview \/ OpenReviewAnon \/ NewProfileForm \/ \E p \in DOMAIN profiles : WatchProfileForm(p)
    <3>1. FormShaped(form') /\ UNCHANGED <<allowance, found, saving, reviewed, taken, profiles, overrun>>
      BY <2>1, OpenedForms
    <3> QED  BY <3>1, FormOnly
  <2>2. CASE RowEdit
    <3>1. FormShaped(form') /\ UNCHANGED <<allowance, found, saving, reviewed, taken, profiles, overrun>>
      BY <2>2, EditedRows DEF FormsKept, OpenForms
    <3> QED  BY <3>1, FormOnly
  <2>3. CASE CountryEdit
    <3>1. FormShaped(form') /\ UNCHANGED <<allowance, found, saving, reviewed, taken, profiles, overrun>>
      BY <2>3, EditedCountries DEF FormsKept, OpenForms
    <3> QED  BY <3>1, FormOnly
  <2>4. CASE AnswerFact
    <3>1. PICK p : p = form'  OBVIOUS
    <3>2. p = [form EXCEPT !.worded = TRUE] /\ FormShaped(form)
          /\ UNCHANGED <<allowance, found, saving, reviewed, taken, profiles, overrun>>
      BY <2>4, <3>1 DEF AnswerFact, Edit, FormsKept, OpenForms
    <3>3. p.rows = form.rows /\ p.geo = form.geo
          /\ p = [kind |-> p.kind, rows |-> p.rows, geo |-> p.geo, worded |-> p.worded, of |-> p.of]
      BY <3>2 DEF FormShaped
    <3>4. FormShaped(p)  BY <3>2, <3>3 DEF FormShaped
    <3> QED  BY <3>1, <3>2, <3>4, FormOnly
  <2>5. CASE UNCHANGED formsVars
    <3>1. FormShaped(form')  BY <2>5 DEF formsVars, FormsKept, OpenForms
    <3> QED  BY <2>5, <3>1, FormOnly DEF formsVars
  <2>6. CASE handleSubmit  BY <2>6, Submitted
  <2>7. CASE CheckPending  BY <2>7, RowChecked
  <2>8. CASE SaveFails  BY <2>8, SaveFailed
  <2>9. CASE completePendingOnboarding  BY <2>9, LinkFollowed
  <2>10. CASE LeaveForm  BY <2>10, FormLeft
  <2>11. CASE \E told \in BOOLEAN : CreateFromReview(told) \/ SaveForm(told) \/ savePendingReview(told)
    BY <2>11, ReviewCreated, FormSaved, ReviewKept
  <2> QED
    BY <2>1, <2>2, <2>3, <2>4, <2>5, <2>6, <2>7, <2>8, <2>9, <2>10, <2>11 DEF FormsNext, RowEdit, CountryEdit
<1>3. FormsKept => SavedAsShown
  BY DEF FormsKept, StoredProfiles, ProfileKept, VisitorHeard, SavedAsShown
<1> QED  BY <1>1, <1>2, <1>3, PTL DEF FormsSpec
=============================================================================
