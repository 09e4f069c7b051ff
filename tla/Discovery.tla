----------------------------- MODULE Discovery -----------------------------
(***************************************************************************)
(* One reading of a business (packages/discovery/src/discover.ts): its     *)
(* site, or a sentence about it, is given to the model; the model names    *)
(* targets, and the web is searched for the places to watch each of them   *)
(* (surfaces.ts, page-links.ts, probe.ts).  Three workers take the targets *)
(* in turn, and finish them in any order.                                  *)
(*                                                                         *)
(* An address is a pair: a host and a path, or a service and what it is    *)
(* asked.  Not every address answers, and one that would may be silent     *)
(* while a target is searched: slow, refused, or gone.                     *)
(***************************************************************************)
EXTENDS Integers, Sequences, FiniteSets, SequencesExt

CONSTANTS
    Inputs,             \* hosts of sites, and sentences
    Hosts,
    Web,                \* what there is at an address
    Outages,            \* what may be silent at once
    Answers,            \* what the model may say
    TargetConcurrency,  \* TARGET_CONCURRENCY
    FeedPaths, ChangelogPaths, PricingPaths, CareersPaths, StatusPaths, InternalPaths,
    nowhere             \* no host, no query of its own

Nothing == <<nowhere, nowhere>>

\* A page: the host it is at in the end; whether it says too little to be
\* compared (MIN_PAGE_TEXT), too little to be read (MIN_SITE_TEXT), or enough, or
\* is a feed or a list of jobs; what it links to; and the channel it is of.
SitePages == [host : Hosts \cup {nowhere}, is : {"thin", "brief", "page", "feed", "data"}, feeds : Seq(DOMAIN Web),
          inside : SUBSET InternalPaths, board : DOMAIN Web \cup {Nothing}, status : Hosts \cup {nowhere},
          repository : DOMAIN Web \cup {Nothing}, channels : Seq(DOMAIN Web), videos : Seq(DOMAIN Web),
          channel : DOMAIN Web \cup {Nothing}]

\* What answers at a host's home is at a host, and there is nothing nowhere.
ASSUME DiscoveryAssumption ==
    /\ \A a \in DOMAIN Web : Web[a] \in SitePages /\ a = <<a[1], a[2]>> /\ a[1] # nowhere
    /\ \A h \in Hosts : <<h, "/">> \in DOMAIN Web => Web[<<h, "/">>].host \in Hosts
    /\ nowhere \notin Hosts
    /\ Outages \subseteq SUBSET DOMAIN Web
    /\ TargetConcurrency \in Nat \ {0}
    /\ \A x \in Answers : x.targets \in Seq([name : {t.name : t \in ToSet(x.targets)}, site : Hosts \cup {nowhere},
                                              query : {t.query : t \in ToSet(x.targets)}])
    /\ {FeedPaths, ChangelogPaths, PricingPaths, CareersPaths, StatusPaths} \subseteq Seq(STRING)

VARIABLES
    subject,    \* what is read, and in which language it is answered
    attempts,      \* attempts at the model that failed
    material,   \* the addresses whose texts the model is given
    answer,     \* what the model said
    nextTarget, \* the next target to take
    probers,    \* the target each worker is at, or 0
    proposals,  \* the places found for each target, and for the business itself
    topics,     \* and for each condition
    silent,     \* for each target, what does not answer while it is searched
    outcome

discoveryVars == <<subject, attempts, material, answer, nextTarget, probers, proposals, topics, silent, outcome>>

Unasked == [targets |-> <<>>, own |-> "", conditions |-> {}]
Workers == 1 .. TargetConcurrency

DiscoveryInit ==
    /\ subject \in [input : Inputs, language : {"en", "ru"}]
    /\ attempts = 0 /\ material = {} /\ answer = Unasked /\ nextTarget = 1
    /\ probers = [w \in Workers |-> 0] /\ proposals = <<>> /\ topics = {}
    /\ silent = <<>> /\ outcome = "reading"

-----------------------------------------------------------------------------
(* What an address answers *)

Missing == [host |-> nowhere, is |-> "thin", feeds |-> <<>>, inside |-> {}, board |-> Nothing, status |-> nowhere,
            repository |-> Nothing, channels |-> <<>>, videos |-> <<>>, channel |-> Nothing]

Replies(a, gone) == a \in DOMAIN Web /\ a \notin gone

fetchPage(a, gone) == IF Replies(a, gone) THEN Web[a] ELSE Missing

isFeed(a, gone) == fetchPage(a, gone).is = "feed"
Feeds(A, gone) == {a \in A : isFeed(a, gone)}

Enough(a, gone) == fetchPage(a, gone).is \in {"brief", "page"}
Readable(A, gone) == {a \in A : Enough(a, gone)}

Home(host) == <<host, "/">>
PathsOf(host, paths) == [i \in DOMAIN paths |-> <<host, paths[i]>>]

Place(type, a, label, verified) == [type |-> type, url |-> a, label |-> label, verified |-> verified]

\* The first of a list that is one of a set, if one is.
FirstIn(list, S) == {list[i] : i \in {k \in DOMAIN list : list[k] \in S /\ \A j \in 1 .. (k - 1) : list[j] \notin S}}

FeedAmong(addresses, label, gone) == {Place("feed", a, label, TRUE) : a \in FirstIn(addresses, Feeds(ToSet(addresses), gone))}

-----------------------------------------------------------------------------
(* The places of a target, the host of its site, and the home page as read *)

findBlogFeed(host, home, gone) == FeedAmong(home.feeds \o PathsOf(host, FeedPaths), "Blog", gone)

\* Of a page that says enough: the feed it names, or itself.
ChangesAt(a, gone) ==
    LET feed == FeedAmong(Web[a].feeds, "Changelog", gone)
    IN IF feed # {} THEN feed ELSE {Place("diff", a, "Changelog", TRUE)}

findChangelog(host, gone) ==
    LET pages == PathsOf(host, ChangelogPaths)
    IN UNION {ChangesAt(a, gone) : a \in FirstIn(pages, Readable(ToSet(pages), gone))}

findPricing(host, gone) ==
    LET pages == PathsOf(host, PricingPaths)
    IN {Place("diff", a, "Pricing", TRUE) : a \in FirstIn(pages, Readable(ToSet(pages), gone))}

\* A board is offered whether or not it answers.
jobsSurface(a, gone) == Place("json", a, "Jobs", Replies(a, gone))

HiringAt(a, gone) ==
    IF Web[a].board # Nothing THEN jobsSurface(Web[a].board, gone) ELSE Place("diff", a, "Careers", TRUE)

findCareers(host, home, gone) ==
    IF home.board # Nothing THEN {jobsSurface(home.board, gone)}
    ELSE LET pages == PathsOf(host, CareersPaths)
             hiring == {a \in ToSet(pages) : fetchPage(a, gone).board # Nothing}
         IN {HiringAt(a, gone) : a \in FirstIn(pages, Readable(ToSet(pages), gone) \cup hiring)}

\* The page named status on the home page, then the subdomain one would guess.
StatusHost(host) == "status." \o host
findStatusFeed(host, home, gone) ==
    LET linked == IF home.status = nowhere THEN <<>> ELSE PathsOf(home.status, StatusPaths)
    IN FeedAmong(linked \o PathsOf(StatusHost(host), StatusPaths), "Status", gone)

findGithubReleases(home, gone) ==
    {Place("feed", a, "GitHub releases", TRUE) : a \in Feeds({home.repository}, gone)}

\* Only the first two channels linked are tried, and only those that answer offered.
findTelegramChannels(home, gone) ==
    {Place("feed", a, "Telegram", TRUE) :
        a \in Feeds({home.channels[i] : i \in DOMAIN home.channels \cap {1, 2}}, gone)}

\* A handle is resolved by its page, which names the channel it is of; an id is
\* resolved already.
resolveYouTubeChannelId(a, gone) == IF a[1] = "videos" THEN a ELSE fetchPage(a, gone).channel

findYouTubeChannels(home, gone) ==
    FeedAmong([i \in DOMAIN home.videos |-> resolveYouTubeChannelId(home.videos[i], gone)], "YouTube", gone)

-----------------------------------------------------------------------------
(* Searches *)

newsQuery(words, gone) == {Place("query", <<"news", words>>, "Google News", isFeed(<<"news", words>>, gone))}

\* Offered only where it answers, and to those who read English.
SearchAt(service, label, name, gone) ==
    IF subject.language = "en" /\ isFeed(<<service, name>>, gone)
    THEN {Place("query", <<service, name>>, label, TRUE)} ELSE {}

redditQuery(name, gone) == SearchAt("reddit", "Reddit", name, gone)

\* What is guessed is guessed of the host the home page is at in the end.
OnSite(site, gone) ==
    LET home == fetchPage(Home(site), gone)
        host == IF Replies(Home(site), gone) THEN home.host ELSE site
    IN findBlogFeed(host, home, gone) \cup findChangelog(host, gone) \cup findPricing(host, gone)
       \cup findCareers(host, home, gone) \cup findStatusFeed(host, home, gone) \cup findGithubReleases(home, gone)
       \cup findTelegramChannels(home, gone) \cup findYouTubeChannels(home, gone)

findTargetSurfaces(t, gone) ==
    (IF t.site = nowhere THEN {} ELSE OnSite(t.site, gone))
    \cup newsQuery(IF t.query = nowhere THEN t.name ELSE t.query, gone) \cup redditQuery(t.name, gone)

findSelfSurfaces(name, gone) ==
    newsQuery(name, gone) \cup SearchAt("reddit", "Reddit", name, gone) \cup SearchAt("hn", "Hacker News", name, gone)

findConditionSurfaces(c, gone) == [condition |-> c, places |-> newsQuery(c, gone)]

-----------------------------------------------------------------------------
(* The reading *)

\* The home page, and those pages it links to that answer.  Too little text,
\* or none, and the business must be described.
readSite(gone) ==
    LET home == Home(subject.input)
    IN /\ outcome = "reading" /\ material = {}
       /\ IF subject.input \notin Hosts THEN material' = {<<"sentence", subject.input>>} /\ outcome' = outcome
          ELSE IF fetchPage(home, gone).is # "page" THEN material' = material /\ outcome' = "describe"
          ELSE /\ material' = {home} \cup {a \in {<<Web[home].host, p>> : p \in Web[home].inside} : Replies(a, gone)}
               /\ outcome' = outcome
       /\ UNCHANGED <<subject, attempts, answer, nextTarget, probers, proposals, topics, silent>>

\* A hiccup of the provider is forgiven once: everything is read again.
AskFails(transient) ==
    /\ outcome = "reading" /\ material # {} /\ answer = Unasked
    /\ attempts' = attempts + 1 /\ material' = {}
    /\ outcome' = IF transient /\ attempts = 0 THEN outcome ELSE "failed"
    /\ UNCHANGED <<subject, answer, nextTarget, probers, proposals, topics, silent>>

complete(said) ==
    /\ outcome = "reading" /\ material # {} /\ answer = Unasked
    /\ answer' = said
    /\ proposals' = [i \in DOMAIN said.targets |-> {}] /\ silent' = [i \in DOMAIN said.targets |-> {}]
    /\ UNCHANGED <<subject, attempts, material, nextTarget, probers, topics, outcome>>

Total == Len(answer.targets)

\* A worker takes the next target, and finds what answers.
TakeTarget(w, gone) ==
    /\ outcome = "reading" /\ probers[w] = 0 /\ nextTarget <= Total
    /\ probers' = [probers EXCEPT ![w] = nextTarget] /\ nextTarget' = nextTarget + 1
    /\ silent' = [silent EXCEPT ![nextTarget] = gone]
    /\ UNCHANGED <<subject, attempts, material, answer, proposals, topics, outcome>>

\* Mutant: in the order they are finished.
InTurn(w) ==
    LET done == Cardinality({i \in DOMAIN proposals : proposals[i] # {}})
    IN [proposals EXCEPT ![done + 1] = findTargetSurfaces(answer.targets[probers[w]], silent[probers[w]])]

\* In the order of the model's answer.
mapLimited(w) ==
    [proposals EXCEPT ![probers[w]] = findTargetSurfaces(answer.targets[probers[w]], silent[probers[w]])]

FinishTarget(w) ==
    /\ outcome = "reading" /\ probers[w] # 0
    /\ proposals' = mapLimited(w) /\ probers' = [probers EXCEPT ![w] = 0]
    /\ UNCHANGED <<subject, attempts, material, answer, nextTarget, topics, silent, outcome>>

\* Then the business itself, last of the targets, and the conditions.
assemble(gone) ==
    /\ outcome = "reading" /\ answer # Unasked
    /\ nextTarget > Total /\ \A w \in Workers : probers[w] = 0
    /\ silent' = Append(silent, gone)
    /\ proposals' = Append(proposals, findSelfSurfaces(answer.own, gone))
    /\ topics' = {findConditionSurfaces(c, gone) : c \in answer.conditions}
    /\ outcome' = "found"
    /\ UNCHANGED <<subject, attempts, material, answer, nextTarget, probers>>

DiscoveryNext ==
    \/ \E gone \in Outages :
           readSite(gone) \/ assemble(gone) \/ \E w \in Workers : TakeTarget(w, gone)
    \/ (\E transient \in BOOLEAN : AskFails(transient)) \/ \E said \in Answers : complete(said)
    \/ \E w \in Workers : FinishTarget(w)

DiscoverySpec == DiscoveryInit /\ [][DiscoveryNext]_discoveryVars

-----------------------------------------------------------------------------
(* Properties *)

\* The values the variables take.
DiscoveryTypeOK ==
    /\ attempts \in 0 .. 2 /\ nextTarget \in 1 .. (Total + 1) /\ probers \in [Workers -> 0 .. Total]
    /\ outcome \in {"reading", "describe", "failed", "found"}
    /\ \A w \in Workers : probers[w] < nextTarget

\* What is known of a site without asking: its hosts, the pages there, and what these link to.
Around(site) ==
    LET hosts == {site, fetchPage(Home(site), {}).host}
        status == {StatusHost(h) : h \in hosts \ {nowhere}} \cup {fetchPage(Home(site), {}).status}
        there == {a \in DOMAIN Web : a[1] \in hosts \cup status}
        links(a) == ToSet(Web[a].feeds) \cup ToSet(Web[a].channels) \cup ToSet(Web[a].videos)
                    \cup {Web[a].board, Web[a].repository, Web[a].channel}
        linked == UNION {links(a) : a \in there}
    IN there \cup linked \cup UNION {links(a) : a \in linked \cap DOMAIN Web}

\* A place is of its target: a search for it, or found around its site.
OfTarget(p, names, around) == IF p.type = "query" THEN p.url[2] \in names ELSE p.url \in around

\* A place is called verified just when it answered, as what it is offered as.
ToldTruly(p, gone) ==
    p.verified <=> /\ Replies(p.url, gone)
                   /\ p.type \in {"feed", "query"} => Web[p.url].is = "feed"
                   /\ p.type = "diff" => Web[p.url].is \in {"brief", "page"}

\* What is proposed is what the model named, in its order, each with the places
\* that are its own, called verified just when they answered
\* (discover.ts:110-132, 203-225; surfaces.ts:6-10).  That holds in whatever order
\* the workers finish, and whatever was silent meanwhile.  Nothing else is offered unverified
\* but a board of jobs and the news; everything has its news search; and a feed at
\* a usual address is never missed.
OfferedAsAnswered ==
    outcome = "found" =>
        /\ Len(proposals) = Total + 1 /\ {t.condition : t \in topics} = answer.conditions
        /\ \A i \in 1 .. Total :
               LET t == answer.targets[i]
                   around == Around(t.site)
                   host == IF Replies(Home(t.site), silent[i]) THEN Web[Home(t.site)].host ELSE t.site
               IN /\ \A p \in proposals[i] : OfTarget(p, {t.name, t.query}, around)
                  /\ (\E a \in ToSet(PathsOf(host, FeedPaths)) : isFeed(a, silent[i]))
                         => \E p \in proposals[i] : p.label = "Blog"
        /\ \A p \in proposals[Total + 1] : OfTarget(p, {answer.own}, {})
        /\ \A i \in DOMAIN proposals :
               /\ \A p \in proposals[i] :
                      ToldTruly(p, silent[i]) /\ (p.verified \/ p.label \in {"Jobs", "Google News"})
               /\ \E p \in proposals[i] : p.label = "Google News"
=============================================================================
