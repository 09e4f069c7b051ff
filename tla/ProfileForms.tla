---------------------------- MODULE ProfileForms ----------------------------
(***************************************************************************)
(* The pages a watch profile is made and changed on, and what is stored of *)
(* what they show: the review of a reading by a member and by a visitor    *)
(* (apps/web/src/components/onboarding/discovery-review.tsx, -anon.tsx)    *)
(* and the form of a profile (components/profiles/watch-profile-form.tsx), *)
(* down to packages/domain/src/profiles.                                   *)
(*                                                                         *)
(* A form keeps its targets and countries in its state and posts what the  *)
(* browser makes of it: a list shows a choice it does not offer as none,   *)
(* and a list that is not there posts nothing.  Texts are left out, so is  *)
(* what writers side by side do to each other (Profiles).                  *)
(***************************************************************************)
EXTENDS Integers, Sequences, FiniteSets, SequencesExt

CONSTANTS
    Proposed,       \* what was read, in order: name, kind and places to watch
    Verified,       \* the places that answered
    NamesTyped,     \* names a person may type
    Folded,         \* of each name, what it is in small letters
    Offered,        \* the countries each form's lists offer
    Regions,        \* of each country, the regions it is known to have
    Finds,          \* what may have been read of countries
    ExtraLimit,     \* additional countries
    Allowances,          \* the plans: profiles, targets, and whether it is the free one
    MaxEdits,       \* bound on what is done on the forms
    blank

ASSUME FormsAssumption ==
    /\ {ExtraLimit, MaxEdits} \subseteq Nat
    /\ \A t \in Allowances : {t.profiles, t.targets} \subseteq Nat /\ t.free \in BOOLEAN
    /\ \A find \in Finds :
           /\ find = [country |-> find.country, extras |-> find.extras, home |-> find.home, region |-> find.region]
           /\ IsFiniteSet(find.extras) /\ Cardinality(find.extras) <= ExtraLimit
    /\ Proposed \in Seq({Proposed[i] : i \in DOMAIN Proposed})

VARIABLES
    allowance,          \* the plan of the tenant
    found,          \* the countries that were read
    form,           \* the form, and what its state holds
    saving,         \* the save under way: its form as it was when sent
    reviewed,       \* pending_onboardings: what the visitor confirmed ...
    taken,          \* ... and whether the row was used
    profiles,       \* the profiles, each with the form it was last saved from
    edits,
    overrun         \* history: the visitor confirmed after the row was read as unused

formsVars == <<allowance, found, form, saving, reviewed, taken, profiles, edits, overrun>>

RowOf(name, kind, on, ticked) == [name |-> name, kind |-> kind, on |-> on, ticked |-> ticked]
Closed == [kind |-> "closed", rows |-> <<>>, geo |-> [country |-> blank, extras |-> {}, home |-> blank, region |-> blank],
           worded |-> FALSE, of |-> 0]
Nothing == [form |-> Closed, step |-> "none"]

FormsInit ==
    /\ allowance \in Allowances /\ found \in Finds
    /\ form = Closed /\ saving = Nothing /\ reviewed = Closed /\ taken = FALSE
    /\ profiles = <<>> /\ edits = 0 /\ overrun = FALSE

-----------------------------------------------------------------------------
(* What a form opens with *)

\* The targets of the other profiles, as the plan counts them.
Outside(p) == LET Count[i \in 0 .. Len(profiles)] ==
                      IF i = 0 THEN 0
                      ELSE Count[i - 1] + (IF i = p THEN 0 ELSE Cardinality(profiles[i].targets))
              IN Count[Len(profiles)]

\* As many are selected as the plan still allows, in order; all for a visitor,
\* who has none.
toRows(count) ==
    [i \in DOMAIN Proposed |->
        RowOf(Proposed[i].name, Proposed[i].kind, i <= count, Proposed[i].surfaces \cap Verified)]

\* Where one lives is where one sells, if nothing was said.
WithHome(geo) == [geo EXCEPT !.home = IF @ = blank THEN geo.country ELSE @]

Open(next) ==
    /\ form = Closed /\ saving = Nothing /\ form' = next
    /\ UNCHANGED <<allowance, found, saving, reviewed, taken, profiles, edits, overrun>>

OpenReview ==
    Open([Closed EXCEPT !.kind = "review", !.rows = toRows(allowance.targets - Outside(0)), !.geo = WithHome(found)])

\* What was confirmed before is not shown again.
OpenReviewAnon ==
    ~taken /\ Open([Closed EXCEPT !.kind = "anon", !.rows = toRows(Len(Proposed)), !.geo = WithHome(found)])

\* Of a new profile.
NewProfileForm == Open([Closed EXCEPT !.kind = "profile"])

\* The targets come ordered by name.
WatchProfileForm(p) ==
    Open([Closed EXCEPT !.kind = "profile", !.of = p, !.geo = WithHome(profiles[p].geo),
              !.rows = LET names == SetToSeq(profiles[p].targets)
                       IN [i \in DOMAIN names |-> RowOf(names[i].name, names[i].kind, TRUE, {})]])

-----------------------------------------------------------------------------
(* What is done on a form, while a save is under way too *)

Edit(next) ==
    /\ form # Closed /\ edits < MaxEdits
    /\ form' = next /\ form' # form /\ edits' = edits + 1
    /\ UNCHANGED <<allowance, found, saving, reviewed, taken, profiles, overrun>>

Reviewing == form.kind \in {"review", "anon"}

SelectTarget(i) == Reviewing /\ Edit([form EXCEPT !.rows[i].on = ~@])

\* The places of a target that is not selected cannot be changed.
SelectSurface(i, a) ==
    /\ Reviewing /\ form.rows[i].on
    /\ i \in DOMAIN Proposed /\ a \in Proposed[i].surfaces
    /\ Edit([form EXCEPT !.rows[i].ticked = IF a \in @ THEN @ \ {a} ELSE @ \cup {a}])

AddCompetitor(name) ==
    Reviewing /\ Edit([form EXCEPT !.rows = Append(@, RowOf(name, "competitor", TRUE, {}))])

\* The visitor is asked how he earns and answers in a word of his own.
AnswerFact == form.kind = "anon" /\ Edit([form EXCEPT !.worded = TRUE])

AddRow == form.kind = "profile" /\ Edit([form EXCEPT !.rows = Append(@, RowOf(blank, "competitor", TRUE, {}))])

Rename(i, name) == form.kind = "profile" /\ Edit([form EXCEPT !.rows[i].name = name])

ChangeKind(i, kind) == form.kind = "profile" /\ Edit([form EXCEPT !.rows[i].kind = kind])

RemoveRow(i) == form.kind = "profile" /\ Edit([form EXCEPT !.rows = RemoveAt(@, i)])

Lists == IF form.kind = "profile" THEN Offered.profile ELSE Offered.review

handleMainChange(c) == Edit([form EXCEPT !.geo.country = c])

\* The country sold in is not offered, nor one more than there may be.
handleExtraChange(c) ==
    /\ c # form.geo.country /\ Cardinality(form.geo.extras) < ExtraLimit
    /\ Edit([form EXCEPT !.geo.extras = @ \cup {c}])

handleRemoveExtra(c) == Edit([form EXCEPT !.geo.extras = @ \ {c}])

handleHomeChange(c) == Edit([form EXCEPT !.geo.home = c])

\* A review means the country that was read, whatever is chosen by now.
handleSameAsMain ==
    LET main == IF form.kind = "profile" THEN form.geo.country ELSE found.country
    IN main # blank /\ form.geo.home # main /\ Edit([form EXCEPT !.geo.home = main, !.geo.region = blank])

ChooseRegion(r) == r \in Regions[form.geo.home] /\ Edit([form EXCEPT !.geo.region = r])

-----------------------------------------------------------------------------
(* What is posted, and stored *)

Shown(choice, list) == IF choice \in list THEN choice ELSE blank

\* What the lists of a form show.
ShownGeo(p) ==
    LET list == IF p.kind = "profile" THEN Offered.profile ELSE Offered.review
    IN [country |-> Shown(p.geo.country, list), extras |-> p.geo.extras,
        home |-> Shown(p.geo.home, list), region |-> Shown(p.geo.region, Regions[p.geo.home])]

\* The list to add a country from has the name of the field that holds them, and
\* comes first: only when there may be no more is it gone.
PostedGeo(p) ==
    [ShownGeo(p) EXCEPT !.extras = IF Cardinality(@) < ExtraLimit THEN {} ELSE @]

\* The rows that are sent, by their places.
Selected(p) == {i \in DOMAIN p.rows : p.rows[i].on /\ p.rows[i].name # blank}

\* Mutant: names that differ in their letters' size are two.
SameSpelling(rows, places) ==
    {k \in places : \A j \in places : j < k => rows[j].name # rows[k].name}

\* The first of a name is kept.
deduplicate(rows, places) ==
    {k \in places : \A j \in places : j < k => Folded[rows[j].name] # Folded[rows[k].name]}

syncTargets(p) ==
    {[name |-> p.rows[i].name, kind |-> p.rows[i].kind] : i \in deduplicate(p.rows, Selected(p))}

\* A place is a source once, of the first target that has it: paused if that is
\* the business itself and the plan is Free.
Holding(p, a) == {i \in Selected(p) : a \in p.rows[i].ticked}
First(p, a) == CHOOSE i \in Holding(p, a) : \A j \in Holding(p, a) : i <= j
createSources(p) ==
    {[address |-> a, target |-> Folded[p.rows[First(p, a)].name],
      status |-> IF p.rows[First(p, a)].kind = "self" /\ allowance.free THEN "paused" ELSE "active"] :
         a \in UNION {p.rows[i].ticked : i \in Selected(p)}}

\* What discovery found, for a visitor who confirmed nothing.  (What was read
\* of the market as a whole is not among it.)
profileInputFromPending ==
    IF reviewed # Closed THEN reviewed
    ELSE [Closed EXCEPT !.kind = "result", !.geo = found,
                        !.rows = [i \in DOMAIN Proposed |->
                            [toRows(Len(Proposed))[i] EXCEPT !.on = Proposed[i].kind # "condition"]]]

Countries(p) == IF p.kind = "result" THEN p.geo ELSE PostedGeo(p)

assertProfileWithinPlan(p, count) ==
    /\ p = 0 => Len(profiles) < allowance.profiles
    /\ Outside(p) + count <= allowance.targets

\* The business itself is not counted here.
MayCreate(p) == assertProfileWithinPlan(0, Cardinality({i \in Selected(p) : p.rows[i].kind # "self"}))

createProfileFromDiscovery(p) ==
    profiles' = Append(profiles, [targets |-> syncTargets(p), sources |-> createSources(p),
                                  geo |-> WithHome(Countries(p)), from |-> p])

\* Made by hand, with nothing to watch the targets at.
createWatchProfile(p) ==
    profiles' = Append(profiles, [targets |-> syncTargets(p), sources |-> {}, geo |-> PostedGeo(p), from |-> p])

\* The sources of a profile are not touched.
saveWatchProfile(p) ==
    profiles' = [profiles EXCEPT ![p.of].targets = syncTargets(p), ![p.of].geo = PostedGeo(p), ![p.of].from = p]

-----------------------------------------------------------------------------
(* Saving *)

\* The form of a profile takes no country for an answer that is wrong, and the
\* missing list of regions for one; the visitor's own word is not a way to earn.
Unacceptable(p) ==
    \/ p.kind = "anon" /\ p.worded
    \/ p.kind = "profile" /\ (blank \in {ShownGeo(p).country, ShownGeo(p).home} \/ Regions[p.geo.home] = {})

\* Nothing else is sent while a save is under way.
handleSubmit ==
    /\ form # Closed /\ saving = Nothing /\ ~Unacceptable(form)
    /\ saving' = [form |-> form, step |-> IF form.kind = "anon" THEN "check" ELSE "store"]
    /\ UNCHANGED <<allowance, found, form, reviewed, taken, profiles, edits, overrun>>

\* The form goes elsewhere, or says what failed and stays as it is.
Told(told) == saving' = Nothing /\ form' = IF told THEN Closed ELSE form

\* The first run is queued after the transaction: what fails there, or on the
\* way back, looks as if nothing had been made.
CreateFromReview(told) ==
    /\ saving.form.kind = "review" /\ MayCreate(saving.form)
    /\ createProfileFromDiscovery(saving.form) /\ Told(told)
    /\ UNCHANGED <<allowance, found, reviewed, taken, edits, overrun>>

SaveForm(told) ==
    /\ saving.form.kind = "profile"
    /\ assertProfileWithinPlan(saving.form.of, Cardinality(Selected(saving.form)))
    /\ IF saving.form.of = 0 THEN createWatchProfile(saving.form) ELSE saveWatchProfile(saving.form)
    /\ Told(told)
    /\ UNCHANGED <<allowance, found, reviewed, taken, edits, overrun>>

\* The row is read, and found unused ...
CheckPending ==
    /\ saving.step = "check" /\ ~taken /\ saving' = [saving EXCEPT !.step = "keep"]
    /\ UNCHANGED <<allowance, found, form, reviewed, taken, profiles, edits, overrun>>

\* ... and written whatever became of it.
savePendingReview(told) ==
    /\ saving.step = "keep" /\ reviewed' = saving.form /\ overrun' = taken /\ Told(told)
    /\ UNCHANGED <<allowance, found, taken, profiles, edits>>

\* The plan or the row says no, or nothing came of it.
SaveFails ==
    /\ saving # Nothing /\ Told(FALSE)
    /\ UNCHANGED <<allowance, found, reviewed, taken, profiles, edits, overrun>>

\* The visitor follows the link: over the plan, nothing is made or used.
completePendingOnboarding ==
    /\ ~taken /\ MayCreate(profileInputFromPending)
    /\ taken' = TRUE /\ createProfileFromDiscovery(profileInputFromPending)
    /\ UNCHANGED <<allowance, found, form, saving, reviewed, edits, overrun>>

LeaveForm ==
    /\ form # Closed /\ saving = Nothing /\ form' = Closed
    /\ UNCHANGED <<allowance, found, saving, reviewed, taken, profiles, edits, overrun>>

FormsNext ==
    \/ OpenReview \/ OpenReviewAnon \/ NewProfileForm \/ AddRow \/ AnswerFact \/ handleSameAsMain
    \/ \E p \in DOMAIN profiles : WatchProfileForm(p)
    \/ \E i \in DOMAIN form.rows :
           \/ SelectTarget(i) \/ RemoveRow(i)
           \/ \E a \in UNION {Proposed[k].surfaces : k \in DOMAIN Proposed} : SelectSurface(i, a)
           \/ \E name \in NamesTyped \cup {blank} : Rename(i, name)
           \/ \E kind \in {"competitor", "platform", "condition", "self"} : ChangeKind(i, kind)
    \/ \E name \in NamesTyped : AddCompetitor(name)
    \/ \E c \in Lists \cup {blank} : handleMainChange(c) \/ handleHomeChange(c)
    \/ \E c \in Lists : handleExtraChange(c)
    \/ \E c \in form.geo.extras : handleRemoveExtra(c)
    \/ \E r \in UNION {Regions[c] : c \in DOMAIN Regions} : ChooseRegion(r)
    \/ handleSubmit \/ CheckPending \/ SaveFails \/ completePendingOnboarding \/ LeaveForm
    \/ \E told \in BOOLEAN : CreateFromReview(told) \/ SaveForm(told) \/ savePendingReview(told)

FormsSpec == FormsInit /\ [][FormsNext]_formsVars

-----------------------------------------------------------------------------
(* Properties *)

\* What a person saw selected and named on the form a profile was saved from.
Seen(p) == {i \in DOMAIN p.rows : p.rows[i].on /\ p.rows[i].name # blank}

\* Each target seen is watched once, whatever its letters' size.
TargetsAsShown(q) ==
    LET rows == q.from.rows
    IN /\ \A i \in Seen(q.from) : \E t \in q.targets : Folded[t.name] = Folded[rows[i].name]
       /\ \A t, u \in q.targets : Folded[t.name] = Folded[u.name] => t = u
       /\ \A t \in q.targets : \E i \in Seen(q.from) : rows[i].name = t.name /\ rows[i].kind = t.kind

\* Each place ticked is watched once, for a target that is, and is paused only
\* if the business's own brand is watched there on the free plan.
SourcesAsShown(q) ==
    LET rows == q.from.rows
    IN /\ {s.address : s \in q.sources} = UNION {rows[i].ticked : i \in Seen(q.from)}
       /\ \A s, u \in q.sources : s.address = u.address => s = u
       /\ \A s \in q.sources :
              /\ \E t \in q.targets : Folded[t.name] = s.target
              /\ s.status = "paused" =>
                     allowance.free /\ \E i \in Seen(q.from) : s.address \in rows[i].ticked /\ rows[i].kind = "self"

\* Countries are those the lists showed; further ones are kept only when there
\* may be no more of them.
CountriesAsShown(q) ==
    LET shown == ShownGeo(q.from)
    IN /\ q.geo.country = shown.country /\ q.geo.region = shown.region
       /\ q.geo.home = IF shown.home = blank THEN shown.country ELSE shown.home
       /\ q.geo.extras = IF Cardinality(shown.extras) = ExtraLimit THEN shown.extras ELSE {}

\* What is stored of a profile is what the form showed when it was sent,
\* whatever was done on it during the save, and what the visitor confirmed last
\* unless his row was used in between: the targets once each, the places
\* under them, the countries (discovery-review.tsx:361-400 "accepts (and edits)
\* what discovery proposed", from-discovery-anon/route.ts:1-7 "created as it
\* stands", reconcile.ts:25-29 "one topic typed twice").
SavedAsShown ==
    \A p \in DOMAIN profiles :
        LET q == profiles[p]
        IN /\ TargetsAsShown(q)
           /\ q.from.kind \in {"review", "anon", "result"} => SourcesAsShown(q)
           /\ q.from.kind # "result" => CountriesAsShown(q)
           /\ q.from.kind \in {"anon", "result"} /\ ~overrun => reviewed = IF q.from.kind = "anon" THEN q.from ELSE Closed
=============================================================================
