------------------------------- MODULE MCSites -------------------------------
(* The web of an instance of Discovery. *)
EXTENDS Discovery, TLC

\* Two companies: one whose home page moves to another host and links to all that
\* can be linked to, one whose places are where they are usually guessed.
MCReply(host, is) == [host |-> host, is |-> is, feeds |-> <<>>, inside |-> {}, board |-> Nothing, status |-> nowhere,
                     repository |-> Nothing, channels |-> <<>>, videos |-> <<>>, channel |-> Nothing]
MCFeeds == {<<"acme.io", "/b.xml">>, <<"acme", "/feed">>, <<"github", "acme">>, <<"telegram", "a">>, <<"telegram", "c">>,
            <<"videos", "x">>, <<"zeta", "/c.xml">>, <<"status.zeta", "/history">>, <<"hn", "Shop">>,
            <<"news", "Acme">>, <<"news", "zeta bank">>, <<"news", "Shop">>, <<"reddit", "Acme">>, <<"reddit", "Shop">>}
MCWeb ==
    [a \in MCFeeds |-> MCReply(nowhere, "feed")]
    @@ <<"ats", "acme">> :> MCReply(nowhere, "data") @@ <<"telegram", "b">> :> MCReply(nowhere, "page")
    @@ <<"@", "a">> :> [MCReply(nowhere, "page") EXCEPT !.channel = <<"videos", "x">>]
    @@ <<"acme", "/">> :> [MCReply("acme.io", "page") EXCEPT
           !.feeds = <<<<"acme.io", "/b.xml">>>>, !.inside = {"/pricing"}, !.board = <<"ats", "acme">>,
           !.repository = <<"github", "acme">>, !.videos = <<<<"@", "a">>>>,
           !.channels = <<<<"telegram", "a">>, <<"telegram", "b">>, <<"telegram", "c">>>>]
    @@ <<"acme.io", "/pricing">> :> MCReply("acme.io", "brief")
    @@ <<"acme", "/careers">> :> MCReply("acme", "thin") @@ <<"acme", "/jobs">> :> MCReply("acme", "page")
    @@ <<"zeta", "/">> :> [MCReply("zeta", "thin") EXCEPT !.status = "zeta.help"]
    @@ <<"zeta", "/changelog">> :> [MCReply("zeta", "page") EXCEPT !.feeds = <<<<"zeta", "/c.xml">>>>]
    @@ <<"zeta", "/careers">> :> [MCReply("zeta", "thin") EXCEPT !.board = <<"ats", "acme">>]
\* Silent at once: nothing, a home page, what is linked, what is searched, a whole company.
MCOutages == {{}, {<<"acme", "/">>}, {<<"ats", "acme">>, <<"zeta", "/c.xml">>, <<"acme.io", "/b.xml">>},
              {<<"news", "Acme">>, <<"news", "Shop">>, <<"@", "a">>}, {a \in DOMAIN MCWeb : a[1] \in {"zeta", "reddit", "telegram"}}}

\* No target; or three, one of them without a site and one with a query of its own.
MCNamed(name, site, query) == [name |-> name, site |-> site, query |-> query]
MCAnswers == {[targets |-> <<>>, own |-> "Shop", conditions |-> {"tax"}],
              [targets |-> <<MCNamed("Acme", "acme", nowhere), MCNamed("Tax office", nowhere, nowhere),
                             MCNamed("Zeta", "zeta", "zeta bank")>>, own |-> "Shop", conditions |-> {}]}
MCFeedPaths == <<"/feed", "/rss">>
MCChangelogPaths == <<"/changelog">>
MCPricingPaths == <<"/pricing", "/plans">>
MCCareersPaths == <<"/careers", "/jobs">>
MCStatusPaths == <<"/history">>
=============================================================================
