------------------------------- MODULE Cards -------------------------------
(***************************************************************************)
(* A digest as its reader sees it.  The events of a window are arranged on *)
(* cards (packages/digest/src/cards.ts), the cards are stored and read     *)
(* back (build.ts, view.ts), and told in Telegram messages                 *)
(* (packages/delivery/src/render.ts), in a letter (email/render.ts) or on  *)
(* the page of the day (apps/web/src/components/today/digest-cards.tsx).   *)
(*                                                                         *)
(* A text is a sequence of lines, and a line what it says: the titles, the *)
(* links, quotes, ages and buttons are left out, and so are the model's    *)
(* remarks, which follow an event's facts wherever it has a card.          *)
(***************************************************************************)
EXTENDS Integers, Sequences, FiniteSets, SequencesExt

CONSTANTS
    Companies,          \* watch targets
    noCompany,          \* an event of no target
    News,               \* the events a window may hold
    MaxNews,            \* bound on their number
    GroupingThreshold,  \* GROUPING_THRESHOLD
    MarketLimit,        \* MARKET_SECTION_LIMIT
    GroupFactsShown,    \* GROUP_FACTS_SHOWN
    MaxLines            \* MAX_MESSAGE_LENGTH, in lines

\* An event has a fact, or it is not read for a digest.  Events of a pack are of
\* no target; they have a rank, by kind and age, the others a score.
ASSUME CardsAssumption ==
    /\ News \subseteq [target : Companies \cup {noCompany}, isUrgent : BOOLEAN, pack : BOOLEAN,
                       worth : Nat, facts : Nat \ {0}]
    /\ \A n \in News : n.pack => n.target = noCompany
    /\ {MaxNews, GroupingThreshold, MarketLimit, GroupFactsShown} \subseteq Nat /\ MaxLines \in Nat \ {0, 1}

VARIABLES
    held,       \* the events of the window, in the order they are read
    digest,      \* the digest: its cards by position, or none yet
    message     \* what a reader is told: the channel and its texts, in order

cardsVars == <<held, digest, message>>

Unbuilt == [made |-> FALSE, cards |-> <<>>]
Untold == [channel |-> "none", texts |-> <<>>]

CardsInit ==
    /\ held \in UNION {[1 .. n -> News] : n \in 0 .. MaxNews}
    /\ digest = Unbuilt /\ message = Untold

-----------------------------------------------------------------------------
(* The cards *)

\* The members of a set in an order (a set of pairs); those it does not tell
\* apart stay as they were read.
Precedes(R, e, f) == <<e, f>> \in R \/ (<<f, e>> \notin R /\ e < f)
SortedBy(S, R) == [k \in 1 .. Cardinality(S) |-> CHOOSE e \in S : Cardinality({f \in S : Precedes(R, f, e)}) = k - 1]
AsRead(S) == SortedBy(S, {})

MoreImportant(n, m) == IF n.isUrgent # m.isUrgent THEN n.isUrgent ELSE n.worth > m.worth

Pairs == (DOMAIN held) \X (DOMAIN held)
byImportance == {p \in Pairs : MoreImportant(held[p[1]], held[p[2]])}
marketRank == {p \in Pairs : held[p[1]].worth > held[p[2]].worth}

\* A sum of numbers, each a number of units.
Summed(f) == Cardinality(UNION {{x} \X (1 .. f[x]) : x \in DOMAIN f})

\* A line: what it says, the event it names (0: none), and a number in it.
Line(says, e, n) == [says |-> says, event |-> e, count |-> n]

factBlock(e, n) == Line("fact", e, n)

\* History: a card knows the events it stands for.
eventCard(e) ==
    [kind |-> "event", event |-> e, of |-> {e}, more |-> 0,
     blocks |-> [n \in 1 .. held[e].facts |-> factBlock(e, n)]]

\* Of a folded card the first facts of its first events are shown.
groupCard(members) ==
    LET shown == Min({Len(members), GroupFactsShown})
    IN [kind |-> "group", event |-> members[1], of |-> ToSet(members), more |-> Len(members) - shown,
        blocks |-> [n \in 1 .. shown |-> factBlock(members[n], 1)]]

On(cards) == UNION {c.of : c \in ToSet(cards)}

\* Where the events are that an event may be folded with, itself among them.
foldableWith(e, ordered) ==
    IF held[e].isUrgent \/ held[e].target = noCompany THEN {}
    ELSE {i \in DOMAIN ordered : ~held[ordered[i]].isUrgent /\ held[ordered[i]].target = held[e].target}

CardFor(e, ordered) ==
    LET members == AsRead(foldableWith(e, ordered))
    IN IF Len(members) < 2 THEN eventCard(e) ELSE groupCard([n \in DOMAIN members |-> ordered[members[n]]])

\* Mutant: an event that a folded card has is given one again.
FoldAgain(ordered) == [i \in DOMAIN ordered |-> CardFor(ordered[i], ordered)]

\* The first of those that fold together has the card.
foldByTarget(ordered) ==
    LET first == AsRead({i \in DOMAIN ordered : \A m \in foldableWith(ordered[i], ordered) : i <= m})
    IN [n \in DOMAIN first |-> CardFor(ordered[first[n]], ordered)]

mainCards(S) ==
    LET ordered == SortedBy(S, byImportance)
    IN IF Len(ordered) <= GroupingThreshold THEN [i \in DOMAIN ordered |-> eventCard(ordered[i])]
       ELSE foldByTarget(ordered)

marketCards(S) ==
    LET ordered == SortedBy(S, marketRank)
    IN [i \in 1 .. Min({Len(ordered), MarketLimit}) |-> eventCard(ordered[i])]

assembleCards ==
    LET market == {e \in DOMAIN held : held[e].pack}
    IN mainCards(DOMAIN held \ market) \o marketCards(market)

Arrange ==
    /\ ~digest.made
    /\ digest' = [made |-> TRUE, cards |-> assembleCards]
    /\ UNCHANGED <<held, message>>

-----------------------------------------------------------------------------
(* The texts *)

\* Read back, a card is of the market section when its event came from a pack.
Section(card) == IF held[card.event].pack THEN "market" ELSE "main"
InSection(s) == {i \in DOMAIN digest.cards : Section(digest.cards[i]) = s}

\* "3 changes at 2 companies, 1 about your market".
summarise ==
    LET main == InSection("main")
        About(i) == held[digest.cards[i].event].target
        changes == Summed([i \in main |-> Max({1, Len(digest.cards[i].blocks)}) + digest.cards[i].more])
        companies == {About(i) : i \in main} \ {noCompany}
    IN <<Line("changes", 0, changes),
         Line("companies", 0, Cardinality(companies) + Cardinality({i \in main : About(i) = noCompany})),
         Line("market", 0, Cardinality(InSection("market")))>>

renderHeader == IF digest.cards = <<>> THEN <<Line("quiet", 0, 0)>> ELSE summarise

\* The headline of a folded card counts what it folds.
Headline(card) == Line("headline", card.event, IF card.kind = "group" THEN Len(card.blocks) + card.more ELSE 1)

CardLines(card) ==
    <<Headline(card)>> \o card.blocks \o (IF card.more > 0 THEN <<Line("more", 0, card.more)>> ELSE <<>>)

\* A message that is too long loses its last lines, never the first.
fitToLimit(lines) == SubSeq(lines, 1, Min({Len(lines), MaxLines}))

MarketHeading == <<Line("market section", 0, 0)>>

\* Texts of the cards, and a heading before each of those at starts.
Headed(texts, starts) ==
    LET At(i) == i + Cardinality({j \in starts : j <= i})
        after(k) == {i \in DOMAIN texts : At(i) = k}
    IN [k \in 1 .. (Len(texts) + Cardinality(starts)) |->
           IF after(k) = {} THEN MarketHeading ELSE texts[CHOOSE i \in after(k) : TRUE]]

Tell(channel, texts) ==
    /\ digest.made /\ message = Untold
    /\ message' = [channel |-> channel, texts |-> texts]
    /\ UNCHANGED <<held, digest>>

\* Telegram: a message each, none over the limit, one heading for the market section.
renderDigest ==
    LET market == InSection("market")
    IN Tell("telegram", <<renderHeader>> \o
                Headed([i \in DOMAIN digest.cards |-> fitToLimit(CardLines(digest.cards[i]))],
                       {i \in market : \A j \in market : i <= j}))

\* A letter: a heading wherever the market section starts.
renderEmailDigest ==
    LET market == InSection("market")
    IN Tell("email", <<renderHeader>> \o
                Headed([i \in DOMAIN digest.cards |-> CardLines(digest.cards[i])], {i \in market : i - 1 \notin market}))

\* The page takes the two sections apart itself.
DigestCards ==
    LET market == InSection("market")
        Listed(I) == LET order == AsRead(I) IN [n \in DOMAIN order |-> CardLines(digest.cards[order[n]])]
    IN Tell("today", <<renderHeader>> \o Listed(InSection("main"))
                     \o (IF market = {} THEN <<>> ELSE <<MarketHeading>>) \o Listed(market))

CardsNext == Arrange \/ renderDigest \/ renderEmailDigest \/ DigestCards
CardsSpec == CardsInit /\ [][CardsNext]_cardsVars

-----------------------------------------------------------------------------
(* Properties *)

\* The values the variables take.
CardsTypeOK ==
    /\ held \in Seq(News) /\ Len(held) <= MaxNews
    /\ digest.made \in BOOLEAN /\ On(digest.cards) \subseteq DOMAIN held
    /\ message.channel \in {"none", "telegram", "email", "today"}
    /\ \A t \in ToSet(message.texts) : t # <<>> /\ \A l \in ToSet(t) : l.event \in 0 .. Len(held) /\ l.count \in Nat

\* What a text says: the events it shows a fact of, and how many it speaks of.
FactsIn(text) == {i \in DOMAIN text : text[i].says = "fact"}
Named(text) == {text[i].event : i \in FactsIn(text)}
Speaks(text) == text[1].count

\* One's own news: told once, as a card or folded, the urgent ones first.
OwnTold(texts, own, channel) ==
    /\ \A t \in ToSet(texts) : t[1].says = "headline" /\ Named(t) \subseteq own
    /\ Summed([i \in DOMAIN texts |-> Speaks(texts[i])]) = Cardinality(own)
    /\ \A i, j \in DOMAIN texts : i < j => \A e \in Named(texts[i]), f \in Named(texts[j]) :
           e # f /\ (held[f].isUrgent => held[e].isUrgent)
    /\ \A t \in ToSet(texts) : \A e, f \in Named(t) :
           IF Speaks(t) > 1
           THEN ~held[e].isUrgent /\ held[e].target = held[f].target /\ held[e].target # noCompany
           ELSE e = f /\ Cardinality(FactsIn(t)) =
                              IF channel = "telegram" THEN Min({held[e].facts, MaxLines - 1}) ELSE held[e].facts

\* News of the market: the foremost, each by itself.
MarketTold(texts, market) ==
    LET shown == UNION {Named(t) : t \in ToSet(texts)}
    IN /\ Len(texts) = Min({MarketLimit, Cardinality(market)}) /\ shown \subseteq market
       /\ Cardinality(shown) = Len(texts)
       /\ \A e \in market \ shown, f \in shown : held[e].worth <= held[f].worth

\* Where the market section begins, or where it would.
HeadingAt(texts) ==
    CHOOSE k \in 1 .. (Len(texts) + 1) : /\ k <= Len(texts) => texts[k] = MarketHeading
                                       /\ \A j \in 1 .. (k - 1) : texts[j] # MarketHeading

\* Folding is no loss (cards.ts:58, :61, :129; render.ts:4-8): whatever the
\* channel, every change of one's own is told once, what is not folded with
\* every fact there is room for, nothing urgent is folded or comes after what is
\* not urgent, and a folded card is of one company.  The market's news come
\* last, under their heading, the foremost up to the limit.  The header never
\* promises less than there is.
EachChangeTold ==
    message # Untold =>
        LET texts == Tail(message.texts)
            at == HeadingAt(texts)
            market == {e \in DOMAIN held : held[e].pack}
            own == DOMAIN held \ market
        IN /\ OwnTold(SubSeq(texts, 1, at - 1), own, message.channel)
           /\ MarketTold(SubSeq(texts, at + 1, Len(texts)), market)
           /\ held # <<>> => message.texts[1][1].count >= Cardinality(own)
=============================================================================
