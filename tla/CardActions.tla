---------------------------- MODULE CardActions ----------------------------
(***************************************************************************)
(* What a reader does with the cards of a digest: the buttons under a      *)
(* Telegram message and the answer to the bot's question                   *)
(* (packages/delivery/src/updates.ts), the signed links of a letter        *)
(* (packages/delivery/src/email/tokens.ts, apps/web/src/app/api/a), and    *)
(* the buttons of the page (api/cards); all of them end in                 *)
(* packages/domain/src/actions/card-actions.ts.                            *)
(*                                                                         *)
(* Only updates.ts compares chats: a page reads the tenant from its        *)
(* session and a letter carries a signed card id, so their presses are     *)
(* those of the right reader.                                              *)
(***************************************************************************)
EXTENDS Integers, FiniteSets

CONSTANTS
    Readers,        \* watch profiles
    Chats,          \* Telegram chats
    noChat,
    CardsEach,      \* cards of a digest
    ReplyWindow,    \* DECISION_REPLY_WINDOW_MS, in moments
    LinkLife,       \* TOKEN_TTL_SECONDS, in moments
    LastMoment,     \* bound on time
    MaxQuestions,   \* bounds on questions and on decisions
    MaxDecisions

ASSUME CardActionsAssumption ==
    /\ {CardsEach, ReplyWindow, LinkLife, LastMoment, MaxQuestions, MaxDecisions} \subseteq Nat
    /\ noChat \notin Chats

\* The n-th card of a digest is about the reader's n-th target.
AllCards == [reader : Readers, made : 0 .. LastMoment, nth : 1 .. CardsEach]
CardsOf(r, t) == {c \in AllCards : c.reader = r /\ c.made = t}
TargetOf(card) == <<card.reader, card.nth>>

Buttons == {"not_following_target", "not_important", "saved", "influenced"}
Surfaces == {"web", "telegram", "email"}

VARIABLES
    hour,           \* the time
    issued,         \* digest_cards
    chatOf,         \* telegramChatId in the settings of each profile
    questions,      \* the bot's questions: the chat, the tag, when; history: the card meant
    decisions,      \* decisions; history: the question answered, whether its press was recorded
    pressed,        \* user_actions: the card, what was pressed and where
    pausedTargets,  \* targets with pausedAt
    goneTargets     \* targets deleted since: their events have no target

cardActionsVars == <<hour, issued, chatOf, questions, decisions, pressed, pausedTargets, goneTargets>>

CardActionsInit ==
    /\ hour = 0 /\ issued = {} /\ chatOf \in [Readers -> Chats \cup {noChat}]
    /\ questions = {} /\ decisions = {} /\ pressed = {} /\ pausedTargets = {} /\ goneTargets = {}

-----------------------------------------------------------------------------
(* Around the cards *)

HourPasses ==
    /\ hour < LastMoment /\ hour' = hour + 1
    /\ UNCHANGED <<issued, chatOf, questions, decisions, pressed, pausedTargets, goneTargets>>

\* A digest is built, and its messages or its letter go out.
IssueCards(r) ==
    /\ CardsOf(r, hour) \cap issued = {} /\ issued' = issued \cup CardsOf(r, hour)
    /\ UNCHANGED <<hour, chatOf, questions, decisions, pressed, pausedTargets, goneTargets>>

\* A profile is bound to a chat by its code, or to none.
BindChat(r, chat) ==
    /\ chatOf' = [chatOf EXCEPT ![r] = chat]
    /\ UNCHANGED <<hour, issued, questions, decisions, pressed, pausedTargets, goneTargets>>

DeleteTarget(t) ==
    /\ goneTargets' = goneTargets \cup {t} /\ pausedTargets' = pausedTargets \ {t}
    /\ UNCHANGED <<hour, issued, chatOf, questions, decisions, pressed>>

-----------------------------------------------------------------------------
(* Presses *)

\* Which targets a press pauses.
Pauses(card, button) ==
    IF button = "not_following_target" THEN {TargetOf(card)} \ goneTargets ELSE {}

\* The press and the pause are one transaction.
recordCardAction(card, button, surface) ==
    /\ pressed' = pressed \cup {[card |-> card, button |-> button, surface |-> surface]}
    /\ pausedTargets' = pausedTargets \cup Pauses(card, button)

PressOnPage(card, button) ==
    /\ card \in issued /\ recordCardAction(card, button, "web")
    /\ UNCHANGED <<hour, issued, chatOf, questions, decisions, goneTargets>>

\* A signed link names the card and when it ends, counted from the letter.
parseActionToken(card) == hour <= card.made + LinkLife

PressInLetter(card, button) ==
    /\ card \in issued /\ parseActionToken(card)
    /\ recordCardAction(card, button, "email")
    /\ UNCHANGED <<hour, issued, chatOf, questions, decisions, goneTargets>>

\* Mutant: the tag is the leading part of the id.
cardIdHead(card) == <<card.made>>

\* A card's id is a UUIDv7: the moment it was made, which all cards of a digest
\* share, and then a random part, which no two cards do.  The question ends with
\* the tail.
cardIdTag(card) == <<card.made, card.reader, card.nth>>

\* A button under a message: a card whose profile has moved to another chat is
\* not found.  "It changed a decision" asks what was decided.
PressInChat(chat, card, button) ==
    /\ card \in issued /\ chatOf[card.reader] = chat
    /\ IF button = "influenced"
       THEN /\ Cardinality(questions) < MaxQuestions
            /\ questions' = questions \cup {[chat |-> chat, tag |-> cardIdTag(card), asked |-> hour, about |-> card]}
            /\ UNCHANGED <<pressed, pausedTargets>>
       ELSE recordCardAction(card, button, "telegram") /\ UNCHANGED questions
    /\ UNCHANGED <<hour, issued, chatOf, decisions, goneTargets>>

-----------------------------------------------------------------------------
(* The answer *)

findCardByTag(r, tag) == {c \in issued : c.reader = r /\ cardIdTag(c) = tag}

\* One profile of the chat is read, whichever comes first, then its card with
\* the tag; the newer question of the same card has the same tag.
Answered(q) ==
    {c \in UNION {findCardByTag(r, q.tag) : r \in {r \in Readers : chatOf[r] = q.chat}} :
        hour <= q.asked + ReplyWindow}

\* The decision is written first and the press after it: a handler that fails
\* between leaves the one without the other.  Telegram sends the update of a
\* handler that failed again, and a reader may answer twice.
ReplyTo(q, fails) ==
    /\ q \in questions /\ Cardinality(decisions) < MaxDecisions
    /\ \E card \in Answered(q) :
           /\ decisions' = decisions \cup {[card |-> card, to |-> q, failed |-> fails]}
           /\ IF fails THEN UNCHANGED <<pressed, pausedTargets>>
              ELSE recordCardAction(card, "influenced", "telegram")
    /\ UNCHANGED <<hour, issued, chatOf, questions, goneTargets>>

CardActionsNext ==
    \/ HourPasses
    \/ \E r \in Readers : IssueCards(r)
    \/ \E r \in Readers, chat \in Chats \cup {noChat} : BindChat(r, chat)
    \/ \E t \in Readers \X (1 .. CardsEach) : DeleteTarget(t)
    \/ \E card \in issued, button \in Buttons :
           \/ PressOnPage(card, button)
           \/ PressInLetter(card, button)
           \/ \E chat \in Chats : PressInChat(chat, card, button)
    \/ \E q \in questions, fails \in BOOLEAN : ReplyTo(q, fails)

CardActionsSpec == CardActionsInit /\ [][CardActionsNext]_cardActionsVars

-----------------------------------------------------------------------------
(* Properties *)

\* The values the variables take.
CardActionsTypeOK ==
    /\ hour \in 0 .. LastMoment /\ issued \subseteq AllCards
    /\ chatOf \in [Readers -> Chats \cup {noChat}]
    /\ \A q \in questions : q.chat \in Chats /\ q.asked \in 0 .. hour /\ q.about \in issued
    /\ \A d \in decisions : d.card \in issued /\ d.to \in questions /\ d.failed \in BOOLEAN
    /\ pressed \subseteq [card : issued, button : Buttons, surface : Surfaces]
    /\ pausedTargets \cap goneTargets = {}

\* A reader is heard as he said it (updates.ts:100-107, card-actions.ts:1-12):
\* an answer is kept with the very card that was asked about, though all cards
\* of a digest are made in one moment and two profiles may share a chat, and it
\* is a press too unless the handler failed; and a target rests only if someone
\* pressed, on some surface, that he does not follow it.
HeardAsSaid ==
    /\ \A d \in decisions :
           /\ d.card = d.to.about
           /\ d.failed \/ [card |-> d.card, button |-> "influenced", surface |-> "telegram"] \in pressed
    /\ \A t \in pausedTargets :
           \E p \in pressed : TargetOf(p.card) = t /\ p.button = "not_following_target"
=============================================================================
