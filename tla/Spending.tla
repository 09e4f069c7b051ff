------------------------------ MODULE Spending ------------------------------
(***************************************************************************)
(* Calls to the language model: the guard asked before each, the adapter   *)
(* that calls once and once more when the answer cannot be used, the cost  *)
(* rows it writes and the daily cap derived from them                      *)
(* (packages/llm/src/index.ts, packages/domain/src/costs,                  *)
(* apps/worker/src/runtime.ts, and the callers in pipeline, discovery and  *)
(* digest).                                                                *)
(*                                                                         *)
(* A caller is a job at work; jobs call side by side.                      *)
(***************************************************************************)
EXTENDS Integers, FiniteSets

CONSTANTS
    Callers,
    Cap,            \* DAILY_COST_CAP_USD, in the smallest unit of cost
    MaxPrice,       \* the most one answer costs
    MaxMidnights,   \* bound on days
    MaxSpent        \* bound on what is ever paid

MaxAttempts == 2
Kinds == {"selection", "extraction", "discovery", "monthly_intro"}

ASSUME SpendingAssumption ==
    /\ IsFiniteSet(Callers) /\ Callers # {} /\ Cap \in Nat /\ MaxPrice \in Nat \ {0}
    /\ MaxMidnights \in Nat /\ MaxSpent \in Nat

VARIABLES
    midnights,
    recorded,     \* cost rows of today, summed
    recordedBefore, \* ... of the days before
    call,         \* the call each caller is making
    paidToday,    \* history: answers paid for today
    paid,         \* history: ... and ever
    unrecorded,   \* history: paid for, and never to be in a row
    unasked       \* history: a call was made without asking the guard

spendingVars == <<midnights, recorded, recordedBefore, call, paidToday, paid, unrecorded, unasked>>

NoCall == [op |-> "idle", kind |-> "selection", attempt |-> 0, cost |-> 0, usable |-> FALSE]

SpendingTypeOK ==
    /\ midnights \in 0 .. MaxMidnights
    /\ recorded \in Nat /\ recordedBefore \in Nat
    /\ call \in [Callers -> [op: {"idle", "call", "record", "check"}, kind: Kinds,
                             attempt: 0 .. MaxAttempts, cost: 0 .. MaxPrice, usable: BOOLEAN]]
    /\ paidToday \in Nat /\ paid \in Nat /\ unrecorded \in Nat /\ unasked \in BOOLEAN

SpendingInit ==
    /\ midnights = 0 /\ recorded = 0 /\ recordedBefore = 0
    /\ call = [c \in Callers |-> NoCall]
    /\ paidToday = 0 /\ paid = 0 /\ unrecorded = 0 /\ unasked = FALSE

-----------------------------------------------------------------------------
Set(c, row) == call' = [call EXCEPT ![c] = row]

\* A row belongs to the day it is written, and only today's are summed.
Midnight ==
    /\ midnights < MaxMidnights /\ midnights' = midnights + 1
    /\ recorded' = 0 /\ recordedBefore' = recordedBefore + recorded
    /\ paidToday' = 0
    /\ UNCHANGED <<call, paid, unrecorded, unasked>>

\* Mutant: the cap may be reached, and is passed after that.
Passed(spent) == spent > Cap

\* A cap of zero means no calls at all.
isReached(spent) == spent >= Cap

\* Selection and extraction ask before each item, and stop when it is reached.
AskGuard(c, kind) ==
    /\ call[c].op = "idle" /\ kind \in {"selection", "extraction"}
    /\ ~isReached(recorded)
    /\ Set(c, [NoCall EXCEPT !.op = "call", !.kind = kind, !.attempt = 1])
    /\ UNCHANGED <<midnights, recorded, recordedBefore, paidToday, paid, unrecorded, unasked>>

\* Discovery and the introduction of the monthly report do not ask.
CallUnasked(c, kind) ==
    /\ call[c].op = "idle" /\ kind \in {"discovery", "monthly_intro"}
    /\ Set(c, [NoCall EXCEPT !.op = "call", !.kind = kind, !.attempt = 1])
    /\ unasked' = TRUE
    /\ UNCHANGED <<midnights, recorded, recordedBefore, paidToday, paid, unrecorded>>

\* Mutant: as long as the answers cannot be used.
AgainAndAgain(c) == [call[c] EXCEPT !.op = "call", !.attempt = @ + 1, !.cost = 0, !.usable = FALSE]

\* One call more when the answer cannot be used; the guard is not asked again.
Again(c) ==
    IF call[c].attempt < MaxAttempts
    THEN [call[c] EXCEPT !.op = "call", !.attempt = @ + 1, !.cost = 0, !.usable = FALSE]
    ELSE NoCall

Pay(cost) ==
    /\ paid + cost <= MaxSpent
    /\ paid' = paid + cost /\ paidToday' = paidToday + cost

\* An answer in the shape the adapter reads, whatever its content is worth.
Answer(c, cost, usable) ==
    /\ call[c].op = "call" /\ Pay(cost)
    /\ Set(c, [call[c] EXCEPT !.op = "record", !.cost = cost, !.usable = usable])
    /\ UNCHANGED <<midnights, recorded, recordedBefore, unrecorded, unasked>>

\* Another shape, or too much text: an error before the usage is told, and the
\* adapter calls again.
StrangeAnswer(c, cost) ==
    /\ call[c].op = "call" /\ Pay(cost)
    /\ Set(c, Again(c))
    /\ unrecorded' = unrecorded + cost
    /\ UNCHANGED <<midnights, recorded, recordedBefore, unasked>>

\* Refused, or timed out on this side with the work done on the other.
NoAnswer(c, cost) ==
    /\ call[c].op = "call" /\ Pay(cost)
    /\ Set(c, NoCall)
    /\ unrecorded' = unrecorded + cost
    /\ UNCHANGED <<midnights, recorded, recordedBefore, unasked>>

\* Mutant: an answer nobody can use is not put in the books.
UsableOnes(c) == IF call[c].usable THEN call[c].cost ELSE 0

\* Every answer is, before it is looked at.
Booked(c) == call[c].cost

isCostPurpose(c) == call[c].kind \in {"selection", "extraction", "discovery"}

recordUsage(c) ==
    /\ call[c].op = "record" /\ isCostPurpose(c)
    /\ recorded' = recorded + Booked(c)
    /\ Set(c, [call[c] EXCEPT !.op = "check", !.cost = 0])
    /\ UNCHANGED <<midnights, recordedBefore, paidToday, paid, unrecorded, unasked>>

\* A purpose it does not know is an error: no row, and no second call.
RefusePurpose(c) ==
    /\ call[c].op = "record" /\ call[c].kind = "monthly_intro"
    /\ Set(c, NoCall) /\ unrecorded' = unrecorded + call[c].cost
    /\ UNCHANGED <<midnights, recorded, recordedBefore, paidToday, paid, unasked>>

readValue(c) ==
    /\ call[c].op = "check"
    /\ Set(c, IF call[c].usable THEN NoCall ELSE Again(c))
    /\ UNCHANGED <<midnights, recorded, recordedBefore, paidToday, paid, unrecorded, unasked>>

\* The worker dies, or the row cannot be written.
CallerDies(c) ==
    /\ call[c].op # "idle" /\ Set(c, NoCall)
    /\ unrecorded' = unrecorded + call[c].cost
    /\ UNCHANGED <<midnights, recorded, recordedBefore, paidToday, paid, unasked>>

SpendingNext ==
    \/ Midnight
    \/ \E c \in Callers :
           \/ \E kind \in Kinds : AskGuard(c, kind) \/ CallUnasked(c, kind)
           \/ \E cost \in 0 .. MaxPrice :
                  \/ \E usable \in BOOLEAN : Answer(c, cost, usable)
                  \/ StrangeAnswer(c, cost) \/ NoAnswer(c, cost)
           \/ recordUsage(c) \/ RefusePurpose(c) \/ readValue(c) \/ CallerDies(c)

SpendingSpec == SpendingInit /\ [][SpendingNext]_spendingVars

-----------------------------------------------------------------------------
(* Properties *)

\* How far the cap can be passed: by what the callers had asked for before it was
\* reached, two answers each, when every caller asks and every answer gets its
\* row.  That holds across midnights, retries of the adapter and callers that
\* run side by side (cap.ts:4, runtime.ts:112).
CapHolds ==
    unrecorded = 0 /\ ~unasked =>
        paidToday < Cap + Cardinality(Callers) * MaxAttempts * MaxPrice

\* What the callers hold that is in no row yet, unit by unit.
InHand == {unit \in Callers \X (1 .. MaxPrice) : unit[2] <= call[unit[1]].cost}

\* What was paid is in the books, is about to be, or was lost for a reason the
\* adapter knows: an answer that fails validation is no such reason
\* (llm/src/index.ts:199).
BooksAgree == paid = recorded + recordedBefore + unrecorded + Cardinality(InHand)

=============================================================================
