------------------------------ MODULE WebProofs ------------------------------
(***************************************************************************)
(* What TLAPS proves of the parts of the web application, each for any     *)
(* values of its constants: the plan's limit and the versions of profiles  *)
(* (Profiles), presses and answers (CardActions), the list of a target's   *)
(* page (TargetPage), and who is told what of a site that was read         *)
(* (Readings).  The four share no variable.                                *)
(***************************************************************************)
EXTENDS Profiles, CardActions, TargetPage, Readings, FiniteSetTheorems, TLAPS

-----------------------------------------------------------------------------
(* Profiles: types *)

Ops == {"idle", "lock", "read", "write", "view", "number", "insert", "commit"}
Kinds == {"create", "save", "add"}
Writing == [op: Ops, kind: Kinds, profile: ProfileIds \cup {"none"},
            desired: SUBSET Names, existing: SUBSET Names, seen: SUBSET Names, number: 0 .. MaxVersion]

\* A writer that is put in the place of another keeps the types, whatever it is.
LEMMA GoTyped ==
    ASSUME writer \in [Writers -> Writing], NEW w \in Writers, NEW row \in Writing, Go(w, row)
    PROVE  /\ writer' \in [Writers -> Writing]
           /\ writer'[w] = row
           /\ \A v \in Writers \ {w} : writer'[v] = writer[v]
  BY DEF Go

LEMMA NoWriterTyped == NoWriter \in Writing
  BY ProfilesAssumption DEF NoWriter, Writing, Ops, Kinds

LEMMA OneTyped == 1 \in 0 .. MaxVersion
  BY ProfilesAssumption

LEMMA ViewTyped ==
    ASSUME ProfilesTypeOK, NEW w \in Writers, writer[w].profile \in ProfileIds
    PROVE  View(w) \in SUBSET Names
  <1>1. writer[w] \in Writing
    BY DEF ProfilesTypeOK, Writing, Ops, Kinds
  <1>. QED  BY <1>1 DEF ProfilesTypeOK, Writing, View

-----------------------------------------------------------------------------
(* Profiles: the inductive invariants *)

\* A writer under way has a profile; one that creates it, a new one of its own.
ProfileAtHand ==
    \A w \in Open :
        /\ writer[w].profile \in ProfileIds
        /\ writer[w].kind = "create" =>
               /\ writer[w].op = "commit" /\ writer[w].profile \notin alive \cup gone
               /\ writer[w].existing = {} /\ writer[w].seen = writer[w].desired /\ writer[w].number = 1
               /\ Rivals(w) = {}
        /\ writer[w].kind # "create" => writer[w].profile \in alive \cup gone

NothingYet == \A p \in ProfileIds \ (alive \cup gone) : targets[p] = {}

ProfilesTyped == ProfilesTypeOK /\ ProfileAtHand /\ NothingYet

\* Unless competitors were added beside a writer, they are added alone; and of
\* the writers of a profile all but one wait for its row.
AddsAlone == \A w \in Open : writer[w].kind = "add" => Open = {w}
OneAtWork == \A w \in Open : writer[w].op # "lock" => \A v \in Rivals(w) : writer[v].op = "lock"

\* So what it has read is still there, what it will have written is what it
\* wants, and without a new version the newest one says so.
StillTrue(w) ==
    /\ writer[w].op \in {"write", "view", "number", "insert", "commit"} =>
           writer[w].existing = targets[writer[w].profile]
    /\ writer[w].op \in {"number", "insert", "commit"} => writer[w].seen = writer[w].desired
    /\ writer[w].op \notin {"insert", "commit"} => writer[w].number = 0
    /\ writer[w].op = "insert" => writer[w].number > 0
    /\ writer[w].op = "commit" /\ writer[w].number = 0 =>
           snapshot[writer[w].profile] = writer[w].seen

TruthInv ==
    /\ ProfilesTyped
    /\ ~addedBeside => AddsAlone /\ OneAtWork /\ \A w \in Open : StillTrue(w)
    /\ VersionTellsTruth

\* What the plan counts, and what a writer alone has been checked against.
Counted(S) == {t \in S \X (Names \ Selves) : t[2] \in targets[t[1]]}

Fits(w) ==
    /\ writer[w].kind = "create" => Cardinality(alive) < ProfileLimit
    /\ Cardinality(Counted(alive \ {writer[w].profile}))
           + Cardinality(writer[w].desired \ Selves) <= limit

PlanInv ==
    /\ TruthInv
    /\ addedBeside => sideBySide
    /\ ~sideBySide => \A v, w \in Open : v = w
    /\ ~sideBySide /\ ~cutBack => \A w \in Open : Fits(w)
    /\ WithinPlan

-----------------------------------------------------------------------------
(* Profiles: what the steps of a writer have in common *)

\* A step of a writer that writes nothing and stays under way.
GoesOn(w, row) ==
    /\ writer[w].op # "idle" /\ row.op # "idle"
    /\ row.kind = writer[w].kind /\ row.profile = writer[w].profile /\ row.desired = writer[w].desired
    /\ Go(w, row) /\ UNCHANGED <<limit, stored, aside>>

LEMMA TypedWriter ==
    ASSUME ProfilesTypeOK PROVE writer \in [Writers -> Writing]
  BY DEF ProfilesTypeOK, Writing, Ops, Kinds

LEMMA GoesOnTyped ==
    ASSUME ProfilesTyped, NEW w \in Writers, NEW row \in Writing, GoesOn(w, row),
           row.kind # "create"
    PROVE  /\ ProfilesTyped' /\ Open' = Open /\ writer'[w] = row
           /\ \A v \in Writers \ {w} : writer'[v] = writer[v]
           /\ \A v \in Writers : Rivals(v)' = Rivals(v)
  <1>1. writer \in [Writers -> Writing]
    BY TypedWriter DEF ProfilesTyped
  <1>2. /\ writer' \in [Writers -> Writing] /\ writer'[w] = row
        /\ \A v \in Writers \ {w} : writer'[v] = writer[v]
    BY <1>1, GoTyped DEF GoesOn
  <1>3. ProfilesTypeOK'
    BY <1>2 DEF ProfilesTyped, ProfilesTypeOK, GoesOn, stored, aside, Writing, Ops, Kinds
  <1>4. Open' = Open
    BY <1>2 DEF Open, GoesOn
  <1>5. \A v \in Writers : writer'[v].profile = writer[v].profile /\ writer'[v].kind = writer[v].kind
    BY <1>2 DEF GoesOn
  <1>6. \A v \in Writers : Rivals(v)' = Rivals(v)
    BY <1>4, <1>5 DEF Rivals, Open
  <1>7. ProfileAtHand'
    <2>1. SUFFICES ASSUME NEW v \in Open
                   PROVE  /\ writer'[v].profile \in ProfileIds
                          /\ writer'[v].kind = "create" =>
                                 /\ writer'[v].op = "commit" /\ writer'[v].profile \notin (alive \cup gone)'
                                 /\ writer'[v].existing = {} /\ writer'[v].seen = writer'[v].desired
                                 /\ writer'[v].number = 1 /\ Rivals(v)' = {}
                          /\ writer'[v].kind # "create" => writer'[v].profile \in (alive \cup gone)'
      BY <1>4 DEF ProfileAtHand
    <2>2. v \in Writers
      BY DEF Open
    <2>3. UNCHANGED <<alive, gone>>
      BY DEF GoesOn, stored
    <2>4. CASE v = w
      BY <1>2, <1>5, <2>2, <2>3, <2>4 DEF ProfilesTyped, ProfileAtHand, GoesOn
    <2>5. CASE v # w
      <3>1. writer'[v] = writer[v] /\ Rivals(v)' = Rivals(v)
        BY <1>2, <1>6, <2>2, <2>5
      <3>. QED  BY <2>2, <2>3, <3>1 DEF ProfilesTyped, ProfileAtHand
    <2>. QED  BY <2>4, <2>5
  <1>8. NothingYet'
    BY DEF ProfilesTyped, NothingYet, GoesOn, stored
  <1>. QED  BY <1>2, <1>3, <1>4, <1>6, <1>7, <1>8 DEF ProfilesTyped

LEMMA GoesOnTrue ==
    ASSUME TruthInv, NEW w \in Writers, NEW row \in Writing, GoesOn(w, row),
           row.kind # "create",
           ~addedBeside =>
               /\ row.op # "lock" => \A v \in Rivals(w) : writer[v].op = "lock"
               /\ row.op \in {"write", "view", "number", "insert", "commit"} =>
                      row.existing = targets[row.profile]
               /\ row.op \in {"number", "insert", "commit"} => row.seen = row.desired
               /\ row.op \notin {"insert", "commit"} => row.number = 0
               /\ row.op = "insert" => row.number > 0
               /\ row.op = "commit" /\ row.number = 0 => snapshot[row.profile] = row.seen
    PROVE  TruthInv'
  <1>1. /\ ProfilesTyped' /\ Open' = Open /\ writer'[w] = row
        /\ \A v \in Writers \ {w} : writer'[v] = writer[v]
        /\ \A v \in Writers : Rivals(v)' = Rivals(v)
    BY GoesOnTyped DEF TruthInv
  <1>2. UNCHANGED <<alive, targets, snapshot, addedBeside>>
    BY DEF GoesOn, stored, aside
  <1>3. VersionTellsTruth'
    BY <1>2 DEF TruthInv, VersionTellsTruth
  <1>4. ASSUME ~addedBeside PROVE AddsAlone'
    BY <1>1, <1>4 DEF TruthInv, AddsAlone, GoesOn, Open
  <1>5. ASSUME ~addedBeside PROVE OneAtWork'
    <2>1. SUFFICES ASSUME NEW v \in Open, writer'[v].op # "lock", NEW u \in Rivals(v)
                   PROVE  writer'[u].op = "lock"
      BY <1>1 DEF OneAtWork, Open
    <2>2. v \in Writers /\ u \in Writers /\ u # v /\ v \in Rivals(u)
      BY DEF Open, Rivals
    <2>3. CASE v = w
      BY <1>1, <1>5, <2>1, <2>2, <2>3
    <2>4. CASE u = w
      <3>1. writer[v].op # "lock" /\ v \in Rivals(w)
        BY <1>1, <2>1, <2>2, <2>4
      <3>2. writer[w].op = "lock"
        BY <1>5, <2>2, <2>4, <3>1 DEF TruthInv, OneAtWork
      <3>3. row.op = "lock"
        BY <1>5, <3>1
      <3>. QED  BY <1>1, <2>4, <3>3
    <2>5. CASE v # w /\ u # w
      BY <1>1, <1>5, <2>1, <2>2, <2>5 DEF TruthInv, OneAtWork
    <2>. QED  BY <2>3, <2>4, <2>5
  <1>6. ASSUME ~addedBeside, NEW v \in Open PROVE StillTrue(v)'
    <2>1. v \in Writers
      BY <1>6 DEF Open
    <2>2. CASE v = w
      BY <1>1, <1>2, <1>6, <2>2 DEF StillTrue
    <2>3. CASE v # w
      BY <1>1, <1>2, <1>6, <2>1, <2>3 DEF TruthInv, StillTrue
    <2>. QED  BY <2>2, <2>3
  <1>. QED  BY <1>1, <1>2, <1>3, <1>4, <1>5, <1>6 DEF TruthInv

\* A writer that leaves, having written nothing, leaves the others as they are.
LEMMA LeavesTyped ==
    ASSUME ProfilesTypeOK, NEW w \in Writers, Go(w, NoWriter)
    PROVE  /\ writer' \in [Writers -> Writing] /\ Open' = Open \ {w}
           /\ \A v \in Writers \ {w} : writer'[v] = writer[v]
           /\ \A v \in Writers \ {w} : Rivals(v)' = Rivals(v) \ {w}
  <1>1. writer \in [Writers -> Writing]
    BY TypedWriter
  <1>2. /\ writer' \in [Writers -> Writing] /\ writer'[w] = NoWriter
        /\ \A v \in Writers \ {w} : writer'[v] = writer[v]
    BY <1>1, GoTyped, NoWriterTyped
  <1>3. NoWriter.op = "idle"
    BY DEF NoWriter
  <1>4. Open' = Open \ {w}
    BY <1>2, <1>3 DEF Open
  <1>5. \A v \in Writers \ {w} : Rivals(v)' = Rivals(v) \ {w}
    BY <1>2, <1>4 DEF Rivals, Open
  <1>. QED  BY <1>2, <1>4, <1>5

LEMMA EndTrue ==
    ASSUME TruthInv, NEW w \in Writers, End(w)
    PROVE  TruthInv' /\ Open' = Open \ {w} /\ \A v \in Writers \ {w} : writer'[v] = writer[v]
  <1>1. /\ writer' \in [Writers -> Writing] /\ Open' = Open \ {w}
        /\ \A v \in Writers \ {w} : writer'[v] = writer[v]
        /\ \A v \in Writers \ {w} : Rivals(v)' = Rivals(v) \ {w}
    BY LeavesTyped DEF TruthInv, ProfilesTyped, End
  <1>2. UNCHANGED <<limit, alive, gone, targets, version, snapshot, sideBySide, addedBeside, cutBack>>
    BY DEF End, stored, aside
  <1>3. ProfilesTypeOK'
    BY <1>1, <1>2 DEF TruthInv, ProfilesTyped, ProfilesTypeOK, Writing, Ops, Kinds
  <1>4. ProfileAtHand'
    BY <1>1, <1>2 DEF TruthInv, ProfilesTyped, ProfileAtHand, Open
  <1>5. NothingYet' /\ VersionTellsTruth'
    BY <1>2 DEF TruthInv, ProfilesTyped, NothingYet, VersionTellsTruth
  <1>6. ASSUME ~addedBeside PROVE AddsAlone' /\ OneAtWork' /\ \A v \in Open' : StillTrue(v)'
    <2>1. AddsAlone'
      BY <1>1, <1>6 DEF TruthInv, AddsAlone, Open
    <2>2. OneAtWork'
      BY <1>1, <1>6 DEF TruthInv, OneAtWork, Open, Rivals
    <2>3. \A v \in Open' : StillTrue(v)'
      BY <1>1, <1>2, <1>6 DEF TruthInv, StillTrue, Open
    <2>. QED  BY <2>1, <2>2, <2>3
  <1>. QED  BY <1>1, <1>2, <1>3, <1>4, <1>5, <1>6 DEF TruthInv, ProfilesTyped

\* A writer that begins is new to its profile's others, which keep what they have.
LEMMA BeginTyped ==
    ASSUME ProfilesTypeOK, NEW w \in Writers, NEW row \in Writing, row.op # "idle", Begin(w, row)
    PROVE  /\ writer' \in [Writers -> Writing] /\ Open' = Open \cup {w} /\ w \notin Open
           /\ writer'[w] = row /\ \A v \in Writers \ {w} : writer'[v] = writer[v]
           /\ Rivals(w)' = {v \in Open : writer[v].profile = row.profile}
           /\ \A v \in Open : Rivals(v)' = IF writer[v].profile = row.profile
                                          THEN Rivals(v) \cup {w} ELSE Rivals(v)
  <1>1. writer \in [Writers -> Writing]
    BY TypedWriter
  <1>2. /\ writer' \in [Writers -> Writing] /\ writer'[w] = row
        /\ \A v \in Writers \ {w} : writer'[v] = writer[v]
    BY <1>1, GoTyped DEF Begin
  <1>3. Open' = Open \cup {w} /\ w \notin Open
    BY <1>2 DEF Open, Begin
  <1>4. Rivals(w)' = {v \in Open : writer[v].profile = row.profile}
    BY <1>2, <1>3 DEF Rivals, Open
  <1>5. ASSUME NEW v \in Open
        PROVE  Rivals(v)' = IF writer[v].profile = row.profile THEN Rivals(v) \cup {w} ELSE Rivals(v)
    BY <1>2, <1>3 DEF Rivals, Open
  <1>. QED  BY <1>2, <1>3, <1>4, <1>5

\* It creates a profile, or changes one that is there and has read nothing yet.
LEMMA BeginTrue ==
    ASSUME TruthInv, NEW w \in Writers, NEW row \in Writing, Begin(w, row),
           row.profile \in ProfileIds,
           \/ /\ row.kind = "create" /\ row.op = "commit" /\ row.profile \notin alive \cup gone
              /\ row.existing = {} /\ row.seen = row.desired /\ row.number = 1
              /\ \A v \in Open : writer[v].profile # row.profile
           \/ /\ <<row.kind, row.op>> \in {<<"save", "lock">>, <<"add", "read">>}
              /\ row.profile \in alive /\ row.number = 0
    PROVE  TruthInv'
  <1>0. row.op # "idle"
    OBVIOUS
  <1>1. /\ writer' \in [Writers -> Writing] /\ Open' = Open \cup {w} /\ w \notin Open
        /\ writer'[w] = row /\ \A v \in Writers \ {w} : writer'[v] = writer[v]
        /\ Rivals(w)' = {v \in Open : writer[v].profile = row.profile}
        /\ \A v \in Open : Rivals(v)' = IF writer[v].profile = row.profile
                                       THEN Rivals(v) \cup {w} ELSE Rivals(v)
    BY <1>0, BeginTyped DEF TruthInv, ProfilesTyped
  <1>2. UNCHANGED <<limit, alive, gone, targets, version, snapshot, cutBack>>
    BY DEF Begin, stored
  <1>3. ProfilesTypeOK'
    BY <1>1, <1>2 DEF TruthInv, ProfilesTyped, ProfilesTypeOK, Writing, Ops, Kinds, Begin
  <1>4. ProfileAtHand'
    <2>1. SUFFICES ASSUME NEW v \in Open \cup {w}
                   PROVE  /\ writer'[v].profile \in ProfileIds
                          /\ writer'[v].kind = "create" =>
                                 /\ writer'[v].op = "commit" /\ writer'[v].profile \notin alive \cup gone
                                 /\ writer'[v].existing = {} /\ writer'[v].seen = writer'[v].desired
                                 /\ writer'[v].number = 1 /\ Rivals(v)' = {}
                          /\ writer'[v].kind # "create" => writer'[v].profile \in alive \cup gone
      BY <1>1, <1>2 DEF ProfileAtHand
    <2>2. CASE v = w
      <3>1. ASSUME row.kind = "create" PROVE Rivals(w)' = {}
        BY <1>1, <3>1
      <3>. QED  BY <1>1, <2>2, <3>1
    <2>3. CASE v # w
      <3>1. v \in Open /\ v \in Writers /\ writer'[v] = writer[v]
        BY <1>1, <2>3 DEF Open
      <3>2. ASSUME writer[v].kind = "create" PROVE Rivals(v)' = {}
        <4>1. Rivals(v) = {} /\ writer[v].profile \notin alive
          BY <3>1, <3>2 DEF TruthInv, ProfilesTyped, ProfileAtHand
        <4>2. writer[v].profile # row.profile
          BY <3>1, <4>1
        <4>. QED  BY <1>1, <3>1, <4>1, <4>2
      <3>. QED  BY <3>1, <3>2 DEF TruthInv, ProfilesTyped, ProfileAtHand
    <2>. QED  BY <2>2, <2>3
  <1>5. NothingYet' /\ VersionTellsTruth'
    BY <1>2 DEF TruthInv, ProfilesTyped, NothingYet, VersionTellsTruth, Begin
  <1>6. ASSUME ~addedBeside' PROVE AddsAlone' /\ OneAtWork' /\ \A v \in Open' : StillTrue(v)'
    <2>1. ~addedBeside /\ \A v \in Open : row.kind # "add" /\ writer[v].kind # "add"
      BY <1>6 DEF Begin
    <2>2. AddsAlone'
      BY <1>1, <2>1 DEF AddsAlone, Open
    <2>3. OneAtWork'
      <3>1. SUFFICES ASSUME NEW v \in Open \cup {w}, writer'[v].op # "lock", NEW u \in Rivals(v)'
                     PROVE  writer'[u].op = "lock"
        BY <1>1 DEF OneAtWork
      <3>2. CASE v = w
        BY <1>1, <2>1, <3>1, <3>2
      <3>3. CASE v # w
        <4>1. v \in Open /\ writer'[v] = writer[v]
          BY <1>1, <3>3 DEF Open
        <4>2. CASE u = w
          <5>1. writer[v].profile = row.profile
            BY <1>1, <3>1, <4>1, <4>2 DEF Rivals, Open
          <5>2. row.kind # "create"
            BY <4>1, <5>1
          <5>3. row.op = "lock"
            BY <2>1, <4>1, <5>2
          <5>. QED  BY <1>1, <4>2, <5>3
        <4>3. CASE u # w
          <5>1. u \in Rivals(v) /\ writer'[u] = writer[u]
            BY <1>1, <3>1, <4>1, <4>3 DEF Rivals, Open
          <5>. QED  BY <2>1, <3>1, <4>1, <5>1 DEF TruthInv, OneAtWork
        <4>. QED  BY <4>2, <4>3
      <3>. QED  BY <3>2, <3>3
    <2>4. ASSUME NEW v \in Open \cup {w} PROVE StillTrue(v)'
      <3>1. CASE v = w
        <4>1. ASSUME row.kind = "create" PROVE targets[row.profile] = {}
          BY <4>1 DEF TruthInv, ProfilesTyped, NothingYet
        <4>2. writer'[v] = row /\ targets' = targets
          BY <1>1, <1>2, <3>1
        <4>3. CASE row.kind = "create"
          <5>1. row.op = "commit" /\ row.existing = {} /\ row.seen = row.desired /\ row.number = 1
            BY <4>3
          <5>. QED  BY <4>1, <4>2, <4>3, <5>1 DEF StillTrue
        <4>4. CASE row.kind # "create"
          <5>1. row.op \in {"lock", "read"} /\ row.number = 0
            BY <4>4
          <5>. QED  BY <4>2, <5>1 DEF StillTrue
        <4>. QED  BY <4>3, <4>4
      <3>2. CASE v # w
        BY <1>1, <1>2, <2>1, <3>2 DEF TruthInv, StillTrue, Open
      <3>. QED  BY <3>1, <3>2
    <2>. QED  BY <1>1, <2>2, <2>3, <2>4
  <1>. QED  BY <1>3, <1>4, <1>5, <1>6 DEF TruthInv, ProfilesTyped

\* What a writer commits, while none is at work beside it, is what it wants; the
\* newest version says so.
LEMMA CommitTrue ==
    ASSUME TruthInv, NEW w \in Writers, Commit(w)
    PROVE  /\ TruthInv' /\ Open' = Open \ {w} /\ \A v \in Writers \ {w} : writer'[v] = writer[v]
           /\ \A p \in ProfileIds \ {writer[w].profile} : targets'[p] = targets[p]
           /\ ~addedBeside => targets'[writer[w].profile] = writer[w].desired
  <1>. DEFINE p == writer[w].profile
  <1>1. /\ writer' \in [Writers -> Writing] /\ Open' = Open \ {w}
        /\ \A v \in Writers \ {w} : writer'[v] = writer[v]
        /\ \A v \in Writers \ {w} : Rivals(v)' = Rivals(v) \ {w}
    BY LeavesTyped DEF TruthInv, ProfilesTyped, Commit
  <1>2. UNCHANGED <<limit, gone, sideBySide, addedBeside, cutBack>>
    BY DEF Commit, aside
  <1>3. w \in Open /\ p \in ProfileIds /\ writer[w] \in Writing
    BY TypedWriter DEF TruthInv, ProfilesTyped, ProfileAtHand, Open, Commit
  <1>4. View(w) \in SUBSET Names
    BY <1>3, ViewTyped DEF TruthInv, ProfilesTyped
  <1>5. /\ targets' \in [ProfileIds -> SUBSET Names] /\ targets'[p] = View(w)
        /\ \A q \in ProfileIds \ {p} : targets'[q] = targets[q]
    BY <1>3, <1>4 DEF Commit, TruthInv, ProfilesTyped, ProfilesTypeOK
  <1>6. /\ snapshot' \in [ProfileIds -> SUBSET Names]
        /\ snapshot'[p] = IF writer[w].number > 0 THEN writer[w].seen ELSE snapshot[p]
        /\ \A q \in ProfileIds \ {p} : snapshot'[q] = snapshot[q]
    BY <1>3 DEF Commit, TruthInv, ProfilesTyped, ProfilesTypeOK, Writing
  <1>7. version' \in [ProfileIds -> 0 .. MaxVersion]
    BY <1>3 DEF Commit, TruthInv, ProfilesTyped, ProfilesTypeOK, Writing
  <1>8. alive' = IF writer[w].kind = "create" THEN alive \cup {p} ELSE alive
    BY DEF Commit
  <1>9. ProfilesTypeOK'
    BY <1>1, <1>2, <1>3, <1>5, <1>6, <1>7, <1>8
       DEF TruthInv, ProfilesTyped, ProfilesTypeOK, ProfileAtHand, Writing, Ops, Kinds
  <1>10. ProfileAtHand'
    <2>1. SUFFICES ASSUME NEW v \in Open \ {w}
                   PROVE  /\ writer'[v].profile \in ProfileIds
                          /\ writer'[v].kind = "create" =>
                                 /\ writer'[v].op = "commit" /\ writer'[v].profile \notin alive' \cup gone
                                 /\ writer'[v].existing = {} /\ writer'[v].seen = writer'[v].desired
                                 /\ writer'[v].number = 1 /\ Rivals(v)' = {}
                          /\ writer'[v].kind # "create" => writer'[v].profile \in alive' \cup gone
      BY <1>1, <1>2 DEF ProfileAtHand
    <2>2. v \in Open /\ v \in Writers /\ v # w /\ writer'[v] = writer[v] /\ Rivals(v)' = Rivals(v) \ {w}
      BY <1>1 DEF Open
    <2>3. ASSUME writer[v].kind = "create" PROVE writer[v].profile # p
      BY <1>3, <2>2, <2>3 DEF TruthInv, ProfilesTyped, ProfileAtHand, Rivals
    <2>. QED  BY <1>8, <2>2, <2>3 DEF TruthInv, ProfilesTyped, ProfileAtHand
  <1>11. p \in alive' \cup gone'
    BY <1>2, <1>3, <1>8 DEF TruthInv, ProfilesTyped, ProfileAtHand
  <1>12. NothingYet'
    BY <1>2, <1>5, <1>8, <1>11 DEF TruthInv, ProfilesTyped, NothingYet
  <1>13. ASSUME ~addedBeside PROVE View(w) = writer[w].desired
    <2>1. writer[w].existing = targets[p]
      BY <1>3, <1>13 DEF TruthInv, StillTrue, Commit
    <2>. QED  BY <1>3, <2>1 DEF View, Writing
  <1>14. ASSUME ~addedBeside PROVE snapshot'[p] = writer[w].desired
    BY <1>3, <1>6, <1>14 DEF TruthInv, StillTrue, Commit, Writing
  <1>15. VersionTellsTruth'
    <2>1. SUFFICES ASSUME ~addedBeside, NEW q \in alive' PROVE snapshot'[q] = targets'[q]
      BY <1>2 DEF VersionTellsTruth
    <2>2. CASE q = p
      BY <1>5, <1>13, <1>14, <2>1, <2>2
    <2>3. CASE q # p
      BY <1>5, <1>6, <1>8, <2>1, <2>3 DEF TruthInv, ProfilesTyped, ProfilesTypeOK, VersionTellsTruth
    <2>. QED  BY <2>2, <2>3
  <1>16. ASSUME ~addedBeside PROVE AddsAlone' /\ OneAtWork' /\ \A v \in Open' : StillTrue(v)'
    <2>1. AddsAlone'
      BY <1>1, <1>16 DEF TruthInv, AddsAlone, Open
    <2>2. OneAtWork'
      BY <1>1, <1>16 DEF TruthInv, OneAtWork, Open, Rivals
    <2>3. ASSUME NEW v \in Open \ {w} PROVE StillTrue(v)'
      <3>1. v \in Open /\ v \in Writers /\ v # w /\ writer'[v] = writer[v] /\ StillTrue(v)
        BY <1>1, <1>16 DEF Open, TruthInv
      <3>2. writer[v].profile \in ProfileIds
        BY <3>1 DEF TruthInv, ProfilesTyped, ProfileAtHand
      <3>3. CASE writer[v].profile # p
        BY <1>5, <1>6, <3>1, <3>2, <3>3 DEF StillTrue
      <3>4. CASE writer[v].profile = p
        <4>1. v \in Rivals(w)
          BY <3>1, <3>4 DEF Rivals
        <4>2. writer[v].op = "lock"
          BY <1>3, <1>16, <4>1 DEF TruthInv, OneAtWork, Commit
        <4>. QED  BY <3>1, <4>2 DEF StillTrue
      <3>. QED  BY <3>3, <3>4
    <2>. QED  BY <1>1, <2>1, <2>2, <2>3
  <1>. QED  BY <1>1, <1>2, <1>5, <1>9, <1>10, <1>12, <1>13, <1>15, <1>16 DEF TruthInv, ProfilesTyped

LEMMA DeleteTrue ==
    ASSUME TruthInv, NEW p \in ProfileIds, deleteWatchProfile(p)
    PROVE  TruthInv'
  <1>1. /\ UNCHANGED <<limit, targets, version, snapshot, writer, sideBySide, addedBeside, cutBack>>
        /\ alive' = alive \ {p} /\ gone' = gone \cup {p} /\ alive' \cup gone' = alive \cup gone
    BY DEF deleteWatchProfile, aside
  <1>2. Open' = Open /\ \A w \in Writers : Rivals(w)' = Rivals(w)
    BY <1>1 DEF Open, Rivals
  <1>3. ProfilesTypeOK'
    BY <1>1 DEF TruthInv, ProfilesTyped, ProfilesTypeOK
  <1>4. ProfileAtHand'
    BY <1>1, <1>2 DEF TruthInv, ProfilesTyped, ProfileAtHand, Open
  <1>5. NothingYet' /\ VersionTellsTruth'
    BY <1>1 DEF TruthInv, ProfilesTyped, NothingYet, VersionTellsTruth
  <1>6. ASSUME ~addedBeside PROVE AddsAlone' /\ OneAtWork' /\ \A w \in Open : StillTrue(w)'
    BY <1>1, <1>2, <1>6 DEF TruthInv, AddsAlone, OneAtWork, StillTrue, Open
  <1>. QED  BY <1>1, <1>2, <1>3, <1>4, <1>5, <1>6 DEF TruthInv, ProfilesTyped

-----------------------------------------------------------------------------
(* Profiles: every step keeps the truth *)

LEMMA TruthInit == ProfilesInit => TruthInv
  <1>. SUFFICES ASSUME ProfilesInit PROVE TruthInv
    OBVIOUS
  <1>1. Open = {}
    BY DEF ProfilesInit, NoWriter, Open
  <1>2. ProfilesTypeOK
    <2>1. writer \in [Writers -> Writing]
      BY NoWriterTyped DEF ProfilesInit
    <2>2. version \in [ProfileIds -> 0 .. MaxVersion]
      BY ProfilesAssumption DEF ProfilesInit
    <2>3. targets \in [ProfileIds -> SUBSET Names] /\ snapshot \in [ProfileIds -> SUBSET Names]
      BY DEF ProfilesInit
    <2>4. /\ limit \in TargetLimits /\ alive = {} /\ gone = {}
          /\ sideBySide = FALSE /\ addedBeside = FALSE /\ cutBack = FALSE
      BY DEF ProfilesInit
    <2>. QED  BY <2>1, <2>2, <2>3, <2>4 DEF ProfilesTypeOK, Writing, Ops, Kinds
  <1>. QED  BY <1>1, <1>2 DEF ProfilesInit, TruthInv, ProfilesTyped, ProfileAtHand, NothingYet, AddsAlone,
                              OneAtWork, VersionTellsTruth

LEMMA WriterStepTrue ==
    ASSUME TruthInv, NEW w \in Writers, WriterStep(w)
    PROVE  TruthInv'
  <1>1. writer[w] \in Writing /\ (writer[w].op # "idle" <=> w \in Open)
    BY TypedWriter DEF TruthInv, ProfilesTyped, Open
  <1>2. ASSUME w \in Open
        PROVE  /\ writer[w].profile \in ProfileIds
               /\ writer[w].op # "commit" => writer[w].kind # "create"
               /\ ~addedBeside => StillTrue(w)
               /\ ~addedBeside /\ writer[w].op # "lock" => \A v \in Rivals(w) : writer[v].op = "lock"
    BY <1>2 DEF TruthInv, ProfilesTyped, ProfileAtHand, OneAtWork
  <1>3. CASE LockRow(w)
    <2>. DEFINE row == [writer[w] EXCEPT !.op = "read"]
    <2>1. row \in Writing
      BY <1>1 DEF Writing, Ops
    <2>2. row.op = "read" /\ row.kind = writer[w].kind /\ row.profile = writer[w].profile
          /\ row.desired = writer[w].desired /\ row.number = writer[w].number
      BY <1>1 DEF Writing
    <2>3. writer[w].op = "lock" /\ w \in Open /\ GoesOn(w, row)
      BY <1>1, <1>3, <2>2 DEF LockRow, GoesOn
    <2>4. ASSUME ~addedBeside, NEW v \in Rivals(w) PROVE writer[v].op = "lock"
      <3>1. v \in Open /\ v # w /\ ~HoldsRow(v) /\ w \in Rivals(v)
        BY <1>3, <2>3, <2>4 DEF LockRow, Rivals
      <3>2. writer[v].kind # "create"
        BY <3>1 DEF TruthInv, ProfilesTyped, ProfileAtHand
      <3>3. writer[v].kind # "add"
        BY <2>3, <2>4, <3>1 DEF TruthInv, AddsAlone
      <3>4. writer[v] \in Writing
        BY <3>1, TypedWriter DEF TruthInv, ProfilesTyped, Open
      <3>. QED  BY <3>1, <3>2, <3>3, <3>4 DEF HoldsRow, Open, Writing, Kinds
    <2>5. ASSUME ~addedBeside PROVE row.number = 0
      BY <1>2, <2>2, <2>3, <2>5 DEF StillTrue
    <2>. HIDE DEF row
    <2>. QED  BY <1>2, <2>1, <2>2, <2>3, <2>4, <2>5, GoesOnTrue
  <1>4. CASE NotFound(w) \/ NameTaken(w) \/ NumberTaken(w) \/ RollBack(w)
    BY <1>4, EndTrue DEF NotFound, NameTaken, NumberTaken, RollBack
  <1>5. CASE ReadStored(w)
    <2>. DEFINE row == [writer[w] EXCEPT !.op = "write", !.existing = targets[writer[w].profile]]
    <2>1. writer[w].op = "read" /\ w \in Open /\ Go(w, row) /\ UNCHANGED <<limit, stored, aside>>
      BY <1>1, <1>5 DEF ReadStored
    <2>2. targets[writer[w].profile] \in SUBSET Names
      BY <1>2, <2>1 DEF TruthInv, ProfilesTyped, ProfilesTypeOK
    <2>3. row \in Writing
      BY <1>1, <2>2 DEF Writing, Ops
    <2>4. row.op = "write" /\ row.kind = writer[w].kind /\ row.profile = writer[w].profile
          /\ row.desired = writer[w].desired /\ row.number = writer[w].number
          /\ row.existing = targets[writer[w].profile]
      BY <1>1 DEF Writing
    <2>. HIDE DEF row
    <2>5. GoesOn(w, row)
      BY <2>1, <2>4 DEF GoesOn
    <2>6. ASSUME ~addedBeside PROVE row.number = 0
      BY <1>2, <2>1, <2>4, <2>6 DEF StillTrue
    <2>. QED  BY <1>2, <2>1, <2>3, <2>4, <2>5, <2>6, GoesOnTrue
  <1>6. CASE syncTargets(w)
    <2>. DEFINE row == [writer[w] EXCEPT !.op = "view"]
    <2>1. writer[w].op = "write" /\ w \in Open /\ Go(w, row) /\ UNCHANGED <<limit, stored, aside>>
      BY <1>1, <1>6 DEF syncTargets
    <2>2. row \in Writing
      BY <1>1 DEF Writing, Ops
    <2>3. row.op = "view" /\ row.kind = writer[w].kind /\ row.profile = writer[w].profile
          /\ row.desired = writer[w].desired /\ row.number = writer[w].number
          /\ row.existing = writer[w].existing
      BY <1>1 DEF Writing
    <2>. HIDE DEF row
    <2>4. GoesOn(w, row)
      BY <2>1, <2>3 DEF GoesOn
    <2>5. ASSUME ~addedBeside PROVE row.number = 0 /\ row.existing = targets[row.profile]
      BY <1>2, <2>1, <2>3, <2>5 DEF StillTrue
    <2>. QED  BY <1>2, <2>1, <2>2, <2>3, <2>4, <2>5, GoesOnTrue
  <1>7. CASE buildSelectionSnapshot(w)
    <2>. DEFINE row == [writer[w] EXCEPT !.op = "number", !.seen = View(w)]
    <2>1. writer[w].op = "view" /\ w \in Open /\ Go(w, row) /\ UNCHANGED <<limit, stored, aside>>
      BY <1>1, <1>7 DEF buildSelectionSnapshot
    <2>2. row \in Writing
      <3>1. View(w) \in SUBSET Names
        BY <1>2, <2>1, ViewTyped DEF TruthInv, ProfilesTyped
      <3>. QED  BY <1>1, <3>1 DEF Writing, Ops
    <2>3. row.op = "number" /\ row.kind = writer[w].kind /\ row.profile = writer[w].profile
          /\ row.desired = writer[w].desired /\ row.number = writer[w].number
          /\ row.existing = writer[w].existing /\ row.seen = View(w)
      BY <1>1 DEF Writing
    <2>. HIDE DEF row
    <2>4. GoesOn(w, row)
      BY <2>1, <2>3 DEF GoesOn
    <2>5. ASSUME ~addedBeside
          PROVE  row.number = 0 /\ row.existing = targets[row.profile] /\ row.seen = row.desired
      <3>1. writer[w].number = 0 /\ writer[w].existing = targets[writer[w].profile]
        BY <1>2, <2>1, <2>5 DEF StillTrue
      <3>2. View(w) = writer[w].desired
        BY <1>1, <3>1 DEF View, Writing
      <3>. QED  BY <2>3, <3>1, <3>2
    <2>. QED  BY <1>2, <2>1, <2>2, <2>3, <2>4, <2>5, GoesOnTrue
  <1>8. CASE findCurrentSnapshot(w)
    <2>. DEFINE p == writer[w].profile
    <2>1. writer[w].op = "number" /\ w \in Open /\ version[p] < MaxVersion /\ UNCHANGED <<limit, stored, aside>>
      BY <1>1, <1>8 DEF findCurrentSnapshot
    <2>2. p \in ProfileIds /\ writer[w].kind # "create"
      BY <1>2, <2>1
    <2>3. version[p] \in 0 .. MaxVersion /\ version[p] + 1 \in 0 .. MaxVersion /\ version[p] + 1 > 0
      BY <2>1, <2>2, ProfilesAssumption DEF TruthInv, ProfilesTyped, ProfilesTypeOK
    <2>4. ASSUME ~addedBeside
          PROVE  writer[w].number = 0 /\ writer[w].existing = targets[p] /\ writer[w].seen = writer[w].desired
      BY <1>2, <2>1, <2>4 DEF StillTrue
    <2>5. CASE snapshot[p] = writer[w].seen
      <3>. DEFINE row == [writer[w] EXCEPT !.op = "commit"]
      <3>1. row \in Writing
        BY <1>1 DEF Writing, Ops
      <3>2. row.op = "commit" /\ row.kind = writer[w].kind /\ row.profile = p
            /\ row.desired = writer[w].desired /\ row.number = writer[w].number
            /\ row.existing = writer[w].existing /\ row.seen = writer[w].seen
        BY <1>1 DEF Writing
      <3>3. Go(w, row)
        BY <1>8, <2>5 DEF findCurrentSnapshot
      <3>. HIDE DEF row
      <3>4. GoesOn(w, row)
        BY <2>1, <3>2, <3>3 DEF GoesOn
      <3>. QED  BY <1>2, <2>1, <2>2, <2>4, <2>5, <3>1, <3>2, <3>4, GoesOnTrue
    <2>6. CASE snapshot[p] # writer[w].seen
      <3>. DEFINE row == [writer[w] EXCEPT !.op = "insert", !.number = version[p] + 1]
      <3>1. row \in Writing
        BY <1>1, <2>3 DEF Writing, Ops
      <3>2. row.op = "insert" /\ row.kind = writer[w].kind /\ row.profile = p
            /\ row.desired = writer[w].desired /\ row.number = version[p] + 1
            /\ row.existing = writer[w].existing /\ row.seen = writer[w].seen
        BY <1>1 DEF Writing
      <3>3. Go(w, row)
        BY <1>8, <2>6 DEF findCurrentSnapshot
      <3>. HIDE DEF row
      <3>4. GoesOn(w, row)
        BY <2>1, <3>2, <3>3 DEF GoesOn
      <3>. QED  BY <1>2, <2>1, <2>2, <2>3, <2>4, <3>1, <3>2, <3>4, GoesOnTrue
    <2>. QED  BY <2>5, <2>6
  <1>9. CASE InsertVersion(w)
    <2>. DEFINE row == [writer[w] EXCEPT !.op = "commit"]
    <2>1. writer[w].op = "insert" /\ w \in Open /\ Go(w, row) /\ UNCHANGED <<limit, stored, aside>>
      BY <1>1, <1>9 DEF InsertVersion
    <2>2. row \in Writing
      BY <1>1 DEF Writing, Ops
    <2>3. row.op = "commit" /\ row.kind = writer[w].kind /\ row.profile = writer[w].profile
          /\ row.desired = writer[w].desired /\ row.number = writer[w].number
          /\ row.existing = writer[w].existing /\ row.seen = writer[w].seen
      BY <1>1 DEF Writing
    <2>. HIDE DEF row
    <2>4. GoesOn(w, row)
      BY <2>1, <2>3 DEF GoesOn
    <2>5. ASSUME ~addedBeside
          PROVE  row.number > 0 /\ row.existing = targets[row.profile] /\ row.seen = row.desired
      BY <1>2, <2>1, <2>3, <2>5 DEF StillTrue
    <2>6. row.number \in Int
      BY <2>2 DEF Writing
    <2>. QED  BY <1>2, <2>1, <2>2, <2>3, <2>4, <2>5, <2>6, GoesOnTrue
  <1>10. CASE Commit(w)
    BY <1>10, CommitTrue
  <1>. QED  BY <1>3, <1>4, <1>5, <1>6, <1>7, <1>8, <1>9, <1>10 DEF WriterStep

\* The three transactions, as they open.
LEMMA OpensTrue ==
    ASSUME TruthInv, NEW w \in Writers, NEW p \in ProfileIds, NEW set \in SUBSET Names,
           \/ \E discovered \in BOOLEAN : createWatchProfile(w, p, set, discovered)
           \/ saveWatchProfile(w, p, set)
           \/ addCompetitors(w, p, set)
    PROVE  TruthInv'
  <1>1. CASE \E discovered \in BOOLEAN : createWatchProfile(w, p, set, discovered)
    <2>. DEFINE row == [NoWriter EXCEPT !.op = "commit", !.kind = "create", !.profile = p, !.desired = set,
                                        !.seen = set, !.number = 1]
    <2>1. row \in Writing /\ row.op = "commit" /\ row.kind = "create" /\ row.profile = p
          /\ row.desired = set /\ row.existing = {} /\ row.seen = set /\ row.number = 1
      BY NoWriterTyped, OneTyped DEF NoWriter, Writing, Ops, Kinds
    <2>2. Begin(w, row) /\ p \notin alive \cup gone /\ \A v \in Open : writer[v].profile # p
      BY <1>1 DEF createWatchProfile
    <2>. HIDE DEF row
    <2>. QED  BY <2>1, <2>2, BeginTrue
  <1>2. CASE saveWatchProfile(w, p, set)
    <2>. DEFINE row == [NoWriter EXCEPT !.op = "lock", !.profile = p, !.desired = set]
    <2>1. row \in Writing /\ row.op = "lock" /\ row.kind = "save" /\ row.profile = p /\ row.number = 0
      BY NoWriterTyped, OneTyped DEF NoWriter, Writing, Ops, Kinds
    <2>2. Begin(w, row) /\ p \in alive
      BY <1>2 DEF saveWatchProfile
    <2>. HIDE DEF row
    <2>. QED  BY <2>1, <2>2, BeginTrue
  <1>3. CASE addCompetitors(w, p, set)
    <2>. DEFINE row == [NoWriter EXCEPT !.op = "read", !.kind = "add", !.profile = p,
                                        !.desired = targets[p] \cup set]
    <2>1. targets[p] \cup set \in SUBSET Names
      BY DEF TruthInv, ProfilesTyped, ProfilesTypeOK
    <2>2. row \in Writing /\ row.op = "read" /\ row.kind = "add" /\ row.profile = p /\ row.number = 0
      BY <2>1, NoWriterTyped DEF NoWriter, Writing, Ops, Kinds
    <2>3. Begin(w, row) /\ p \in alive
      BY <1>3 DEF addCompetitors
    <2>. HIDE DEF row
    <2>. QED  BY <2>2, <2>3, BeginTrue
  <1>. QED  BY <1>1, <1>2, <1>3

LEMMA TruthKept == TruthInv /\ [ProfilesNext]_profilesVars => TruthInv'
  <1>. SUFFICES ASSUME TruthInv, [ProfilesNext]_profilesVars PROVE TruthInv'
    OBVIOUS
  <1>1. ASSUME UNCHANGED <<stored, writer, sideBySide, addedBeside>>, limit' \in TargetLimits, cutBack' \in BOOLEAN
        PROVE  TruthInv'
    BY <1>1 DEF TruthInv, ProfilesTyped, ProfilesTypeOK, ProfileAtHand, NothingYet, AddsAlone, OneAtWork,
                StillTrue, VersionTellsTruth, Open, Rivals, stored
  <1>2. ASSUME NEW n \in TargetLimits \ {limit}, setTenantPlan(n) PROVE TruthInv'
    <2>1. limit' \in TargetLimits /\ cutBack' \in BOOLEAN
      BY <1>2, ProfilesAssumption DEF setTenantPlan, TruthInv, ProfilesTyped, ProfilesTypeOK
    <2>. QED  BY <1>1, <1>2, <2>1 DEF setTenantPlan
  <1>3. CASE UNCHANGED profilesVars
    BY <1>1, <1>3 DEF profilesVars, aside, TruthInv, ProfilesTyped, ProfilesTypeOK
  <1>. QED  BY <1>2, <1>3, DeleteTrue, WriterStepTrue, OpensTrue DEF ProfilesNext

\* Profiles is type correct, for any profiles, names, plans and writers.
THEOREM ProfilesTypes == ProfilesSpec => []ProfilesTypeOK
  <1>1. TruthInv => ProfilesTypeOK
    BY DEF TruthInv, ProfilesTyped
  <1>. QED  BY <1>1, TruthInit, TruthKept, PTL DEF ProfilesSpec

\* The newest version of a profile says what is stored (write.ts:193), for any
\* number of writers side by side that wait, fail or are refused anywhere, unless
\* competitors are added beside another writer.
THEOREM VersionsTellTruth == ProfilesSpec => []VersionTellsTruth
  <1>1. TruthInv => VersionTellsTruth
    BY DEF TruthInv
  <1>. QED  BY <1>1, TruthInit, TruthKept, PTL DEF ProfilesSpec

-----------------------------------------------------------------------------
(* Profiles: the plan *)

LEMMA SomeFinite ==
    /\ \A S \in SUBSET ProfileIds : IsFiniteSet(S)
    /\ \A S \in SUBSET Names : IsFiniteSet(S) /\ IsFiniteSet(S \ Selves)
  <1>1. IsFiniteSet(ProfileIds) /\ IsFiniteSet(Names)
    BY ProfilesAssumption
  <1>2. \A S \in SUBSET ProfileIds : IsFiniteSet(S)
    BY <1>1, FS_Subset
  <1>3. \A S \in SUBSET Names : S \ Selves \in SUBSET Names
    OBVIOUS
  <1>. QED  BY <1>1, <1>2, <1>3, FS_Subset

LEMMA CountedFinite ==
    ASSUME ProfilesTypeOK, NEW S \in SUBSET ProfileIds
    PROVE  IsFiniteSet(Counted(S))
  <1>1. IsFiniteSet(S) /\ IsFiniteSet(Names \ Selves)
    BY SomeFinite
  <1>2. IsFiniteSet(S \X (Names \ Selves))
    BY <1>1, FS_Product
  <1>. QED  BY <1>2, FS_Subset DEF Counted

\* Fewer profiles have no more targets.
LEMMA CountedLess ==
    ASSUME ProfilesTypeOK, NEW S \in SUBSET ProfileIds, NEW T \in SUBSET S
    PROVE  Cardinality(Counted(T)) <= Cardinality(Counted(S))
  <1>1. Counted(T) \subseteq Counted(S)
    BY DEF Counted
  <1>. QED  BY <1>1, CountedFinite, FS_Subset

\* What assertProfileWithinPlan has let through fits, the business left out.
LEMMA AssertedFits ==
    ASSUME ProfilesTypeOK, NEW p \in ProfileIds, NEW set \in SUBSET Names,
           NEW count \in Nat, Cardinality(set \ Selves) <= count,
           assertProfileWithinPlan(p, count)
    PROVE  /\ p \notin alive => Cardinality(alive) < ProfileLimit
           /\ Cardinality(Counted(alive \ {p})) + Cardinality(set \ Selves) <= limit
  <1>. DEFINE all == {t \in (alive \ {p}) \X Names : t[2] \in targets[t[1]]}
  <1>1. alive \in SUBSET ProfileIds
    BY DEF ProfilesTypeOK
  <1>2. IsFiniteSet(alive \ {p}) /\ IsFiniteSet(Names) /\ IsFiniteSet(set \ Selves)
    <2>1. alive \ {p} \in SUBSET ProfileIds /\ set \ Selves \in SUBSET Names /\ Names \in SUBSET Names
      BY <1>1
    <2>. QED  BY <2>1, SomeFinite
  <1>3. IsFiniteSet((alive \ {p}) \X Names)
    BY <1>2, FS_Product
  <1>4. IsFiniteSet(all)
    BY <1>3, FS_Subset
  <1>5. Counted(alive \ {p}) \subseteq all
    BY DEF Counted
  <1>6. /\ Cardinality(Counted(alive \ {p})) <= Cardinality(all)
        /\ Cardinality(Counted(alive \ {p})) \in Nat /\ Cardinality(all) \in Nat
        /\ Cardinality(set \ Selves) \in Nat
    <2>. HIDE DEF all
    <2>1. IsFiniteSet(Counted(alive \ {p}))
      BY <1>4, <1>5, FS_Subset
    <2>. QED  BY <1>2, <1>4, <1>5, <2>1, FS_Subset, FS_CardinalityType
  <1>7. Cardinality(all) + count <= limit
    <2>1. countTargetsOutside(p) = Cardinality(all)
      BY DEF countTargetsOutside
    <2>. HIDE DEF all
    <2>. QED  BY <2>1 DEF assertProfileWithinPlan
  <1>8. limit \in Nat
    BY ProfilesAssumption DEF ProfilesTypeOK
  <1>9. p \notin alive => Cardinality(alive) < ProfileLimit
    BY DEF assertProfileWithinPlan
  <1>. HIDE DEF all
  <1>. QED  BY <1>6, <1>7, <1>8, <1>9

\* A writer that begins alone fits.
LEMMA OpensFit ==
    ASSUME ProfilesTypeOK, NEW w \in Writers, NEW p \in ProfileIds, NEW set \in SUBSET Names,
           \/ \E discovered \in BOOLEAN : createWatchProfile(w, p, set, discovered)
           \/ saveWatchProfile(w, p, set)
           \/ addCompetitors(w, p, set)
    PROVE  /\ \E row : Begin(w, row) /\ row.op # "idle" /\ row \in Writing
           /\ Fits(w)'
  <1>1. ASSUME NEW some \in SUBSET Names
        PROVE  /\ Cardinality(some) \in Nat /\ Cardinality(some \ Selves) \in Nat
               /\ Cardinality(some \ Selves) <= Cardinality(some)
    <2>1. IsFiniteSet(some) /\ IsFiniteSet(some \ Selves) /\ some \ Selves \subseteq some
      BY SomeFinite
    <2>. QED  BY <2>1, FS_Subset, FS_CardinalityType
  <1>2. ASSUME NEW row \in Writing, Begin(w, row), row.op # "idle", row.profile = p,
               row.kind = "create" => p \notin alive,
               NEW count \in Nat, Cardinality(row.desired \ Selves) <= count,
               assertProfileWithinPlan(p, count)
        PROVE  Fits(w)'
    <2>1. row.desired \in SUBSET Names
      BY DEF Writing
    <2>2. /\ p \notin alive => Cardinality(alive) < ProfileLimit
          /\ Cardinality(Counted(alive \ {p})) + Cardinality(row.desired \ Selves) <= limit
      BY <1>2, <2>1, AssertedFits
    <2>3. writer'[w] = row
      BY <1>2, BeginTyped
    <2>4. UNCHANGED <<limit, alive, targets>>
      BY <1>2 DEF Begin, stored
    <2>. QED  BY <1>2, <2>2, <2>3, <2>4 DEF Fits, Counted
  <1>3. ASSUME NEW discovered \in BOOLEAN, createWatchProfile(w, p, set, discovered)
        PROVE  (\E row : Begin(w, row) /\ row.op # "idle" /\ row \in Writing) /\ Fits(w)'
    <2>. DEFINE row == [NoWriter EXCEPT !.op = "commit", !.kind = "create", !.profile = p, !.desired = set,
                                        !.seen = set, !.number = 1]
                count == Cardinality(IF discovered THEN set \ Selves ELSE set)
    <2>1. row \in Writing /\ row.op = "commit" /\ row.kind = "create" /\ row.profile = p /\ row.desired = set
      BY NoWriterTyped, OneTyped DEF NoWriter, Writing, Ops, Kinds
    <2>2. Begin(w, row) /\ p \notin alive \cup gone
      BY <1>3 DEF createWatchProfile
    <2>. HIDE DEF row
    <2>4. assertProfileWithinPlan(p, count)
      BY <1>3, Zenon DEF createWatchProfile
    <2>3. count \in Nat /\ Cardinality(set \ Selves) <= count
      BY <1>1
    <2>. HIDE DEF row, count
    <2>. QED  BY <1>2, <2>1, <2>2, <2>3, <2>4
  <1>4. ASSUME saveWatchProfile(w, p, set)
        PROVE  (\E row : Begin(w, row) /\ row.op # "idle" /\ row \in Writing) /\ Fits(w)'
    <2>. DEFINE row == [NoWriter EXCEPT !.op = "lock", !.profile = p, !.desired = set]
    <2>1. row \in Writing /\ row.op = "lock" /\ row.kind = "save" /\ row.profile = p /\ row.desired = set
      BY NoWriterTyped, OneTyped DEF NoWriter, Writing, Ops, Kinds
    <2>2. Begin(w, row)
      BY <1>4 DEF saveWatchProfile
    <2>. HIDE DEF row
    <2>3. assertProfileWithinPlan(p, Cardinality(set))
      BY <1>4, Zenon DEF saveWatchProfile
    <2>. QED  BY <1>1, <1>2, <2>1, <2>2, <2>3
  <1>5. ASSUME addCompetitors(w, p, set)
        PROVE  (\E row : Begin(w, row) /\ row.op # "idle" /\ row \in Writing) /\ Fits(w)'
    <2>. DEFINE both == targets[p] \cup set
                row == [NoWriter EXCEPT !.op = "read", !.kind = "add", !.profile = p, !.desired = both]
    <2>1. both \in SUBSET Names
      BY DEF ProfilesTypeOK
    <2>2. row \in Writing /\ row.op = "read" /\ row.kind = "add" /\ row.profile = p /\ row.desired = both
      BY <2>1, NoWriterTyped DEF NoWriter, Writing, Ops, Kinds
    <2>3. Begin(w, row)
      BY <1>5 DEF addCompetitors
    <2>. HIDE DEF row
    <2>4. assertProfileWithinPlan(p, Cardinality(both))
      BY <1>5, Zenon DEF addCompetitors
    <2>. HIDE DEF both
    <2>. QED  BY <1>1, <1>2, <2>1, <2>2, <2>3, <2>4
  <1>. QED  BY <1>3, <1>4, <1>5

LEMMA PlanInit == ProfilesInit => PlanInv
  <1>. SUFFICES ASSUME ProfilesInit PROVE PlanInv
    OBVIOUS
  <1>1. Open = {} /\ alive = {}
    BY DEF ProfilesInit, NoWriter, Open
  <1>2. Counted(alive) = {}
    BY <1>1 DEF Counted
  <1>3. Cardinality(alive) = 0 /\ Cardinality(Counted(alive)) = 0
    BY <1>1, <1>2, FS_EmptySet
  <1>4. limit \in Nat /\ ProfileLimit \in Nat
    BY ProfilesAssumption DEF ProfilesInit
  <1>5. WithinPlan
    BY <1>3, <1>4 DEF WithinPlan, Counted
  <1>. QED  BY <1>1, <1>5, TruthInit DEF PlanInv, ProfilesInit

\* A step that leaves writers alone, or takes some away, and leaves fewer profiles.
LEMMA LessKeepsPlan ==
    ASSUME PlanInv, TruthInv', UNCHANGED <<targets, sideBySide, addedBeside>>,
           alive' \in SUBSET alive, Open' \subseteq Open,
           \A w \in Open' : writer'[w].kind = writer[w].kind /\ writer'[w].profile = writer[w].profile
                            /\ writer'[w].desired = writer[w].desired,
           ~cutBack' => ~cutBack /\ limit <= limit'
    PROVE  PlanInv'
  <1>1. ProfilesTypeOK /\ alive \in SUBSET ProfileIds /\ limit \in Nat /\ limit' \in Nat
    BY ProfilesAssumption DEF PlanInv, TruthInv, ProfilesTyped, ProfilesTypeOK
  <1>2. IsFiniteSet(alive)
    BY <1>1, SomeFinite
  <1>3. Cardinality(alive') <= Cardinality(alive) /\ Cardinality(alive) \in Nat /\ Cardinality(alive') \in Nat
    BY <1>2, FS_Subset, FS_CardinalityType
  <1>4. ASSUME NEW S \in SUBSET alive
        PROVE  Cardinality(Counted(S)) \in Nat
    BY <1>1, CountedFinite, FS_CardinalityType
  <1>5. ASSUME NEW S \in SUBSET alive, NEW T \in SUBSET S
        PROVE  Cardinality(Counted(T)) <= Cardinality(Counted(S))
    <2>1. S \in SUBSET ProfileIds
      BY <1>1
    <2>. QED  BY <1>1, <2>1, CountedLess
  <1>6. ASSUME ~sideBySide, ~cutBack', NEW w \in Open' PROVE Fits(w)'
    <2>. DEFINE p == writer[w].profile
    <2>1. w \in Open /\ Fits(w) /\ ~cutBack /\ limit <= limit'
      BY <1>6 DEF PlanInv
    <2>2. alive \ {p} \in SUBSET alive /\ alive' \ {p} \in SUBSET (alive \ {p}) /\ alive' \ {p} \in SUBSET alive
      OBVIOUS
    <2>3. Cardinality(Counted(alive' \ {p})) <= Cardinality(Counted(alive \ {p}))
      BY <1>5, <2>2
    <2>5. Cardinality(Counted(alive' \ {p})) \in Nat /\ Cardinality(Counted(alive \ {p})) \in Nat
      BY <1>4, <2>2
    <2>6. Cardinality(writer[w].desired \ Selves) \in Nat
      <3>1. writer[w] \in Writing
        BY <2>1, TypedWriter DEF PlanInv, TruthInv, ProfilesTyped, Open
      <3>2. writer[w].desired \in SUBSET Names
        BY <3>1 DEF Writing
      <3>. QED  BY <3>2, SomeFinite, FS_CardinalityType
    <2>7. /\ Cardinality(Counted(alive \ {p})) + Cardinality(writer[w].desired \ Selves) <= limit
          /\ writer[w].kind = "create" => Cardinality(alive) < ProfileLimit
      BY <2>1 DEF Fits
    <2>8. Cardinality(Counted(alive' \ {p})) + Cardinality(writer[w].desired \ Selves) <= limit'
      BY <1>1, <2>1, <2>3, <2>5, <2>6, <2>7
    <2>9. writer[w].kind = "create" => Cardinality(alive') < ProfileLimit
      BY <1>3, <2>7, ProfilesAssumption
    <2>10. /\ writer'[w].kind = writer[w].kind /\ writer'[w].desired = writer[w].desired
           /\ writer'[w].profile = p
      BY <1>6
    <2>11. Counted(alive \ {p})' = Counted(alive' \ {p})
      BY DEF Counted
    <2>. QED  BY <2>8, <2>9, <2>10, <2>11 DEF Fits, Counted
  <1>7. ASSUME ~sideBySide, ~cutBack' PROVE WithinPlan'
    <2>1. /\ Cardinality(alive) <= ProfileLimit /\ Cardinality(Counted(alive)) <= limit
          /\ limit <= limit'
      BY <1>7 DEF PlanInv, WithinPlan, Counted
    <2>2. Cardinality(Counted(alive')) <= Cardinality(Counted(alive))
      BY <1>5
    <2>3. Cardinality(Counted(alive')) \in Nat /\ Cardinality(Counted(alive)) \in Nat
      BY <1>4
    <2>4. Cardinality(alive') <= ProfileLimit
      BY <1>3, <2>1, ProfilesAssumption
    <2>5. Cardinality(Counted(alive')) <= limit'
      BY <1>1, <2>1, <2>2, <2>3
    <2>6. Counted(alive') = {t \in alive' \X (Names \ Selves) : t[2] \in targets'[t[1]]}
      BY DEF Counted
    <2>. QED  BY <2>4, <2>5, <2>6 DEF WithinPlan
  <1>8. addedBeside' => sideBySide'
    BY DEF PlanInv
  <1>9. ~sideBySide' => \A v, w \in Open' : v = w
    BY DEF PlanInv
  <1>10. WithinPlan'
    BY <1>7 DEF WithinPlan
  <1>. QED  BY <1>6, <1>8, <1>9, <1>10 DEF PlanInv

\* What a writer alone commits is what it was checked for.
LEMMA CommitKeepsPlan ==
    ASSUME PlanInv, NEW w \in Writers, Commit(w)
    PROVE  PlanInv'
  <1>. DEFINE p == writer[w].profile
              new == {p} \X (writer[w].desired \ Selves)
  <1>1. /\ TruthInv' /\ Open' = Open \ {w} /\ \A v \in Writers \ {w} : writer'[v] = writer[v]
        /\ \A q \in ProfileIds \ {p} : targets'[q] = targets[q]
        /\ ~addedBeside => targets'[p] = writer[w].desired
    BY CommitTrue DEF PlanInv
  <1>2. UNCHANGED <<limit, sideBySide, addedBeside, cutBack>> /\ w \in Open
        /\ alive' = IF writer[w].kind = "create" THEN alive \cup {p} ELSE alive
    BY DEF Commit, aside, Open
  <1>3. p \in ProfileIds /\ writer[w] \in Writing /\ ProfilesTypeOK
    BY <1>2, TypedWriter DEF PlanInv, TruthInv, ProfilesTyped, ProfileAtHand
  <1>4. ASSUME ~sideBySide, ~cutBack PROVE WithinPlan'
    <2>1. Open' = {}
      BY <1>1, <1>2, <1>4 DEF PlanInv
    <2>2. targets'[p] = writer[w].desired
      BY <1>1, <1>4 DEF PlanInv
    <2>3. Fits(w)
      BY <1>2, <1>4 DEF PlanInv
    <2>4. alive \in SUBSET ProfileIds /\ alive' \in SUBSET ProfileIds /\ alive \ {p} \in SUBSET ProfileIds
          /\ writer[w].desired \in SUBSET Names /\ limit \in Nat
      BY <1>2, <1>3, ProfilesAssumption DEF ProfilesTypeOK, Writing
    <2>5. Counted(alive)' \subseteq Counted(alive \ {p}) \cup new
      <3>1. SUFFICES ASSUME NEW q \in alive', NEW n \in Names \ Selves, n \in targets'[q]
                     PROVE  <<q, n>> \in Counted(alive \ {p}) \cup new
        BY DEF Counted
      <3>2. CASE q = p
        BY <2>2, <3>1, <3>2
      <3>3. CASE q # p
        <4>1. q \in alive \ {p} /\ targets'[q] = targets[q]
          BY <1>1, <1>2, <2>4, <3>3
        <4>. QED  BY <3>1, <4>1 DEF Counted
      <3>. QED  BY <3>2, <3>3
    <2>6. IsFiniteSet({p}) /\ Cardinality({p}) = 1 /\ IsFiniteSet(writer[w].desired \ Selves)
      BY <2>4, FS_Singleton, SomeFinite
    <2>7. IsFiniteSet(new) /\ Cardinality(new) = Cardinality({p}) * Cardinality(writer[w].desired \ Selves)
      BY <2>6, FS_Product
    <2>8. IsFiniteSet(Counted(alive \ {p}))
      BY <1>3, <2>4, CountedFinite
    <2>. HIDE DEF new
    <2>9. /\ Cardinality(new) \in Nat /\ Cardinality(Counted(alive \ {p})) \in Nat
          /\ Cardinality(writer[w].desired \ Selves) \in Nat
          /\ Cardinality(Counted(alive \ {p}) \cap new) \in Nat
      <3>1. IsFiniteSet(Counted(alive \ {p}) \cap new)
        BY <2>8, FS_Intersection
      <3>. QED  BY <2>6, <2>7, <2>8, <3>1, FS_CardinalityType
    <2>10. /\ IsFiniteSet(Counted(alive \ {p}) \cup new)
           /\ Cardinality(Counted(alive \ {p}) \cup new) =
                  Cardinality(Counted(alive \ {p})) + Cardinality(new) - Cardinality(Counted(alive \ {p}) \cap new)
      BY <2>7, <2>8, FS_Union
    <2>11. /\ IsFiniteSet(Counted(alive)')
           /\ Cardinality(Counted(alive)') <= Cardinality(Counted(alive \ {p}) \cup new)
      BY <2>5, <2>10, FS_Subset
    <2>12. Cardinality(Counted(alive)') \in Nat
      BY <2>11, FS_CardinalityType
    <2>13. Cardinality(new) = Cardinality(writer[w].desired \ Selves)
      BY <2>6, <2>7, <2>9
    <2>14. Cardinality(Counted(alive \ {p})) + Cardinality(writer[w].desired \ Selves) <= limit
      BY <2>3 DEF Fits
    <2>15. Cardinality(Counted(alive)') <= limit
      BY <2>4, <2>9, <2>10, <2>11, <2>12, <2>13, <2>14
    <2>16. Cardinality(alive') <= ProfileLimit
      <3>1. IsFiniteSet(alive)
        BY <2>4, SomeFinite
      <3>2. Cardinality(alive) \in Nat /\ Cardinality(alive \cup {p}) <= Cardinality(alive) + 1
        <4>1. Cardinality(alive) \in Nat
          BY <3>1, FS_CardinalityType
        <4>2. Cardinality(alive \cup {p}) = IF p \in alive THEN Cardinality(alive) ELSE Cardinality(alive) + 1
          BY <3>1, FS_AddElement
        <4>. QED  BY <4>1, <4>2
      <3>3. Cardinality(alive \cup {p}) \in Nat
        <4>1. IsFiniteSet(alive \cup {p})
          BY <3>1, FS_AddElement
        <4>. QED  BY <4>1, FS_CardinalityType
      <3>4. CASE writer[w].kind = "create"
        <4>1. Cardinality(alive) < ProfileLimit
          BY <2>3, <3>4 DEF Fits
        <4>. QED  BY <1>2, <3>2, <3>3, <3>4, <4>1, ProfilesAssumption
      <3>5. CASE writer[w].kind # "create"
        BY <1>2, <1>4, <3>5 DEF PlanInv, WithinPlan
      <3>. QED  BY <3>4, <3>5
    <2>17. Counted(alive)' = {t \in alive' \X (Names \ Selves) : t[2] \in targets'[t[1]]}
      BY DEF Counted
    <2>. QED  BY <1>2, <2>15, <2>16, <2>17 DEF WithinPlan
  <1>5. ~sideBySide => Open' = {}
    BY <1>1, <1>2 DEF PlanInv
  <1>6. WithinPlan'
    BY <1>2, <1>4 DEF WithinPlan
  <1>. QED  BY <1>1, <1>2, <1>5, <1>6 DEF PlanInv

\* A writer that begins beside another is side by side with it.
LEMMA OpensKeepPlan ==
    ASSUME PlanInv, NEW w \in Writers, NEW p \in ProfileIds, NEW set \in SUBSET Names,
           \/ \E discovered \in BOOLEAN : createWatchProfile(w, p, set, discovered)
           \/ saveWatchProfile(w, p, set)
           \/ addCompetitors(w, p, set)
    PROVE  PlanInv'
  <1>1. ProfilesTypeOK /\ TruthInv
    BY DEF PlanInv, TruthInv, ProfilesTyped
  <1>2. PICK row : Begin(w, row) /\ row.op # "idle" /\ row \in Writing
    BY <1>1, OpensFit
  <1>3. Fits(w)'
    BY <1>1, OpensFit
  <1>4. TruthInv'
    BY <1>1, OpensTrue
  <1>5. Open' = Open \cup {w}
    BY <1>1, <1>2, BeginTyped
  <1>6. /\ UNCHANGED <<limit, alive, targets, cutBack>>
        /\ sideBySide' = (sideBySide \/ Open # {})
        /\ addedBeside' = (addedBeside \/ \E v \in Open : "add" \in {row.kind, writer[v].kind})
    BY <1>2 DEF Begin, stored
  <1>7. addedBeside' => sideBySide'
    BY <1>6 DEF PlanInv
  <1>8. ASSUME ~sideBySide' PROVE Open' = {w}
    BY <1>5, <1>6, <1>8
  <1>9. WithinPlan'
    BY <1>6 DEF PlanInv, WithinPlan
  <1>. QED  BY <1>3, <1>4, <1>7, <1>8, <1>9 DEF PlanInv

LEMMA PlanKept == PlanInv /\ [ProfilesNext]_profilesVars => PlanInv'
  <1>. SUFFICES ASSUME PlanInv, [ProfilesNext]_profilesVars PROVE PlanInv'
    OBVIOUS
  <1>1. TruthInv /\ TruthInv' /\ limit \in Nat
    BY TruthKept, ProfilesAssumption DEF PlanInv, TruthInv, ProfilesTyped, ProfilesTypeOK
  <1>2. ASSUME NEW n \in TargetLimits \ {limit}, setTenantPlan(n) PROVE PlanInv'
    <2>1. n \in Nat /\ limit' = n /\ cutBack' = (cutBack \/ n < limit)
          /\ UNCHANGED <<alive, targets, writer, sideBySide, addedBeside>>
      BY <1>2, ProfilesAssumption DEF setTenantPlan, stored
    <2>2. ~cutBack' => ~cutBack /\ limit <= limit'
      <3>1. ~cutBack' => ~cutBack /\ ~(n < limit)
        BY <2>1, Zenon
      <3>2. ~(n < limit) => limit <= limit'
        BY <1>1, <2>1
      <3>. QED  BY <3>1, <3>2, Zenon
    <2>3. Open' = Open /\ alive' \in SUBSET alive
      BY <2>1 DEF Open
    <2>. QED  BY <1>1, <2>1, <2>2, <2>3, LessKeepsPlan
  <1>3. ASSUME NEW p \in ProfileIds, deleteWatchProfile(p) PROVE PlanInv'
    <2>1. UNCHANGED <<limit, targets, writer, sideBySide, addedBeside, cutBack>> /\ alive' \in SUBSET alive
      BY <1>3 DEF deleteWatchProfile, aside
    <2>2. Open' = Open
      BY <2>1 DEF Open
    <2>. QED  BY <1>1, <2>1, <2>2, LessKeepsPlan
  <1>4. ASSUME NEW w \in Writers, WriterStep(w) PROVE PlanInv'
    <2>1. CASE Commit(w)
      BY <2>1, CommitKeepsPlan
    <2>2. CASE ~Commit(w)
      <3>1. UNCHANGED <<limit, alive, targets, sideBySide, addedBeside, cutBack>>
        BY <1>4, <2>2 DEF WriterStep, LockRow, NotFound, ReadStored, syncTargets, NameTaken, buildSelectionSnapshot,
           findCurrentSnapshot, InsertVersion, NumberTaken, RollBack, End, stored, aside
      <3>2. writer[w].op # "idle" /\ writer[w] \in Writing
        BY <1>1, <1>4, <2>2, TypedWriter
           DEF TruthInv, ProfilesTyped, WriterStep, LockRow, NotFound, ReadStored, syncTargets, NameTaken,
               buildSelectionSnapshot, findCurrentSnapshot, InsertVersion, NumberTaken, RollBack
      <3>3. \/ Go(w, NoWriter)
            \/ \E row : /\ Go(w, row) /\ row.kind = writer[w].kind /\ row.profile = writer[w].profile
                        /\ row.desired = writer[w].desired
        <4>1. ASSUME NEW row, Go(w, row), row.kind = writer[w].kind, row.profile = writer[w].profile,
                     row.desired = writer[w].desired
              PROVE  \E other : /\ Go(w, other) /\ other.kind = writer[w].kind
                                /\ other.profile = writer[w].profile /\ other.desired = writer[w].desired
          BY <4>1
        <4>2. CASE LockRow(w)
          BY <3>2, <4>1, <4>2 DEF LockRow, Writing
        <4>3. CASE ReadStored(w)
          BY <3>2, <4>1, <4>3 DEF ReadStored, Writing
        <4>4. CASE syncTargets(w)
          BY <3>2, <4>1, <4>4 DEF syncTargets, Writing
        <4>5. CASE buildSelectionSnapshot(w)
          BY <3>2, <4>1, <4>5 DEF buildSelectionSnapshot, Writing
        <4>6. CASE findCurrentSnapshot(w)
          BY <3>2, <4>1, <4>6 DEF findCurrentSnapshot, Writing
        <4>7. CASE InsertVersion(w)
          BY <3>2, <4>1, <4>7 DEF InsertVersion, Writing
        <4>8. CASE NotFound(w) \/ NameTaken(w) \/ NumberTaken(w) \/ RollBack(w)
          BY <4>8 DEF NotFound, NameTaken, NumberTaken, RollBack, End
        <4>. QED  BY <1>4, <2>2, <4>2, <4>3, <4>4, <4>5, <4>6, <4>7, <4>8 DEF WriterStep
      <3>4. writer \in [Writers -> Writing]
        BY <1>1, TypedWriter DEF TruthInv, ProfilesTyped
      <3>5. /\ Open' \subseteq Open
            /\ \A v \in Open' : writer'[v].kind = writer[v].kind /\ writer'[v].profile = writer[v].profile
                                /\ writer'[v].desired = writer[v].desired
        <4>1. CASE Go(w, NoWriter)
          BY <1>1, <4>1, LeavesTyped DEF TruthInv, ProfilesTyped, Open
        <4>2. ASSUME NEW row, Go(w, row), row.kind = writer[w].kind, row.profile = writer[w].profile,
                     row.desired = writer[w].desired
              PROVE  <3>5
          <5>1. writer'[w] = row /\ \A v \in Writers \ {w} : writer'[v] = writer[v]
            BY <3>4, <4>2 DEF Go
          <5>. QED  BY <3>2, <4>2, <5>1 DEF Open
        <4>. QED  BY <3>3, <4>1, <4>2
      <3>6. ~cutBack' => ~cutBack /\ limit <= limit'
        BY <1>1, <3>1
      <3>. QED  BY <1>1, <3>1, <3>5, <3>6, LessKeepsPlan
    <2>. QED  BY <2>1, <2>2
  <1>5. CASE UNCHANGED profilesVars
    <2>1. UNCHANGED <<limit, alive, targets, writer, sideBySide, addedBeside, cutBack>>
      BY <1>5 DEF profilesVars, stored, aside
    <2>2. Open' = Open /\ alive' \in SUBSET alive
      BY <2>1 DEF Open
    <2>. QED  BY <1>1, <2>1, <2>2, LessKeepsPlan
  <1>. QED  BY <1>2, <1>3, <1>4, <1>5, OpensKeepPlan DEF ProfilesNext

\* Profiles made and saved one at a time never pass the plan (limits.ts:83), for
\* any profiles, names and plans, and however often the plan grows, writers are
\* refused or rolled back, and profiles are removed under them.
THEOREM PlanIsKept == ProfilesSpec => []WithinPlan
  <1>1. PlanInv => WithinPlan
    BY DEF PlanInv
  <1>. QED  BY <1>1, PlanInit, PlanKept, PTL DEF ProfilesSpec

-----------------------------------------------------------------------------
(* Presses and answers *)

\* A question carries the tag of the card it is about, and no other card has it.
Questions == [chat : Chats, tag : {cardIdTag(c) : c \in AllCards}, asked : 0 .. LastMoment, about : AllCards]

TagsTell == \A q \in questions : q \in Questions /\ q.tag = cardIdTag(q.about)

HeardInv == CardActionsTypeOK /\ TagsTell /\ HeardAsSaid

LEMMA TagsDiffer ==
    ASSUME NEW c \in AllCards, NEW d \in AllCards, cardIdTag(c) = cardIdTag(d)
    PROVE  c = d
  BY DEF AllCards, cardIdTag

\* A press is one of those known, and pauses what it says.
LEMMA PressHeard ==
    ASSUME HeardInv, NEW card \in issued, NEW button \in Buttons, NEW surface \in Surfaces,
           recordCardAction(card, button, surface), UNCHANGED <<issued, goneTargets>>
    PROVE  /\ pressed \subseteq pressed' /\ pressed' \subseteq [card : issued, button : Buttons, surface : Surfaces]
           /\ [card |-> card, button |-> button, surface |-> surface] \in pressed'
           /\ pausedTargets' \cap goneTargets = {}
           /\ \A t \in pausedTargets' :
                  \E p \in pressed' : TargetOf(p.card) = t /\ p.button = "not_following_target"
  <1>. DEFINE press == [card |-> card, button |-> button, surface |-> surface]
  <1>1. /\ pressed' = pressed \cup {press} /\ pausedTargets' = pausedTargets \cup Pauses(card, button)
        /\ press \in [card : issued, button : Buttons, surface : Surfaces]
        /\ press.card = card /\ press.button = button
    BY DEF recordCardAction
  <1>2. pressed \subseteq [card : issued, button : Buttons, surface : Surfaces]
        /\ pausedTargets \cap goneTargets = {}
    BY DEF HeardInv, CardActionsTypeOK
  <1>3. \A t \in pausedTargets : \E p \in pressed : TargetOf(p.card) = t /\ p.button = "not_following_target"
    BY DEF HeardInv, HeardAsSaid
  <1>4. \A t \in Pauses(card, button) :
            t \notin goneTargets /\ t = TargetOf(card) /\ button = "not_following_target"
    BY DEF Pauses
  <1>. HIDE DEF press
  <1>5. ASSUME NEW t \in pausedTargets'
        PROVE  \E p \in pressed' : TargetOf(p.card) = t /\ p.button = "not_following_target"
    <2>1. CASE t \in pausedTargets
      BY <1>1, <1>3, <2>1
    <2>2. CASE t \in Pauses(card, button)
      BY <1>1, <1>4, <2>2
    <2>. QED  BY <1>1, <2>1, <2>2
  <1>6. pausedTargets' \cap goneTargets = {}
    BY <1>1, <1>2, <1>4
  <1>7. press \in pressed' /\ pressed \subseteq pressed'
        /\ pressed' \subseteq [card : issued, button : Buttons, surface : Surfaces]
    BY <1>1, <1>2
  <1>. QED  BY <1>5, <1>6, <1>7 DEF press

LEMMA HeardInit == CardActionsInit => HeardInv
  BY CardActionsAssumption
     DEF CardActionsInit, HeardInv, CardActionsTypeOK, TagsTell, HeardAsSaid

\* A press alone, wherever it is made.
LEMMA PressKeeps ==
    ASSUME HeardInv, NEW card \in issued, NEW button \in Buttons, NEW surface \in Surfaces,
           recordCardAction(card, button, surface),
           UNCHANGED <<hour, issued, chatOf, questions, decisions, goneTargets>>
    PROVE  HeardInv'
  <1>1. /\ pressed \subseteq pressed' /\ pressed' \subseteq [card : issued, button : Buttons, surface : Surfaces]
        /\ pausedTargets' \cap goneTargets = {}
        /\ \A t \in pausedTargets' :
               \E p \in pressed' : TargetOf(p.card) = t /\ p.button = "not_following_target"
    BY PressHeard
  <1>2. CardActionsTypeOK'
    BY <1>1 DEF HeardInv, CardActionsTypeOK
  <1>3. TagsTell'
    BY DEF HeardInv, TagsTell
  <1>4. HeardAsSaid'
    BY <1>1 DEF HeardInv, HeardAsSaid
  <1>. QED  BY <1>2, <1>3, <1>4 DEF HeardInv

LEMMA HeardKept == HeardInv /\ [CardActionsNext]_cardActionsVars => HeardInv'
  <1>. SUFFICES ASSUME HeardInv, [CardActionsNext]_cardActionsVars PROVE HeardInv'
    OBVIOUS
  <1>0. /\ hour \in 0 .. LastMoment /\ issued \subseteq AllCards
        /\ {CardsEach, ReplyWindow, LinkLife, LastMoment} \subseteq Nat
    BY CardActionsAssumption DEF HeardInv, CardActionsTypeOK
  <1>1. CASE HourPasses
    <2>1. /\ hour' \in 0 .. LastMoment /\ hour <= hour'
          /\ UNCHANGED <<issued, chatOf, questions, decisions, pressed, pausedTargets, goneTargets>>
      BY <1>0, <1>1 DEF HourPasses
    <2>2. CardActionsTypeOK'
      <3>1. \A q \in questions : q.chat \in Chats /\ q.asked \in 0 .. hour' /\ q.about \in issued
        BY <1>0, <2>1 DEF HeardInv, CardActionsTypeOK
      <3>. QED  BY <2>1, <3>1 DEF HeardInv, CardActionsTypeOK
    <2>. QED  BY <2>1, <2>2 DEF HeardInv, TagsTell, HeardAsSaid
  <1>2. ASSUME NEW r \in Readers, IssueCards(r) PROVE HeardInv'
    <2>1. /\ issued \subseteq issued' /\ issued' \subseteq AllCards
          /\ UNCHANGED <<hour, chatOf, questions, decisions, pressed, pausedTargets, goneTargets>>
      BY <1>0, <1>2 DEF IssueCards, CardsOf
    <2>2. pressed' \subseteq [card : issued', button : Buttons, surface : Surfaces]
      <3>1. pressed \subseteq [card : issued, button : Buttons, surface : Surfaces]
        BY DEF HeardInv, CardActionsTypeOK
      <3>. QED  BY <2>1, <3>1
    <2>3. CardActionsTypeOK'
      BY <2>1, <2>2 DEF HeardInv, CardActionsTypeOK
    <2>. QED  BY <2>1, <2>3 DEF HeardInv, TagsTell, HeardAsSaid
  <1>3. ASSUME NEW r \in Readers, NEW chat \in Chats \cup {noChat}, BindChat(r, chat) PROVE HeardInv'
    <2>1. /\ chatOf' \in [Readers -> Chats \cup {noChat}]
          /\ UNCHANGED <<hour, issued, questions, decisions, pressed, pausedTargets, goneTargets>>
      BY <1>3 DEF BindChat, HeardInv, CardActionsTypeOK
    <2>. QED  BY <2>1 DEF HeardInv, CardActionsTypeOK, TagsTell, HeardAsSaid
  <1>4. ASSUME NEW t, DeleteTarget(t) PROVE HeardInv'
    BY <1>4 DEF DeleteTarget, HeardInv, CardActionsTypeOK, TagsTell, HeardAsSaid
  <1>5. ASSUME NEW card \in issued, NEW button \in Buttons,
               PressOnPage(card, button) \/ PressInLetter(card, button)
        PROVE  HeardInv'
    BY <1>5, PressKeeps DEF PressOnPage, PressInLetter, Surfaces
  <1>6. ASSUME NEW card \in issued, NEW button \in Buttons, NEW chat \in Chats,
               PressInChat(chat, card, button)
        PROVE  HeardInv'
    <2>1. CASE button # "influenced"
      <3>1. recordCardAction(card, button, "telegram")
            /\ UNCHANGED <<hour, issued, chatOf, questions, decisions, goneTargets>>
        BY <1>6, <2>1 DEF PressInChat
      <3>. QED  BY <3>1, PressKeeps DEF Surfaces
    <2>2. CASE button = "influenced"
      <3>. DEFINE q == [chat |-> chat, tag |-> cardIdTag(card), asked |-> hour, about |-> card]
      <3>1. /\ questions' = questions \cup {q}
            /\ UNCHANGED <<hour, issued, chatOf, decisions, pressed, pausedTargets, goneTargets>>
        BY <1>6, <2>2 DEF PressInChat
      <3>2. q \in Questions /\ q.tag = cardIdTag(q.about) /\ q.chat \in Chats /\ q.asked \in 0 .. hour
            /\ q.about \in issued
        BY <1>0 DEF Questions
      <3>. HIDE DEF q
      <3>3. CardActionsTypeOK'
        BY <3>1, <3>2 DEF HeardInv, CardActionsTypeOK
      <3>. QED  BY <3>1, <3>2, <3>3 DEF HeardInv, TagsTell, HeardAsSaid
    <2>. QED  BY <2>1, <2>2
  <1>7. ASSUME NEW q \in questions, NEW fails \in BOOLEAN, ReplyTo(q, fails) PROVE HeardInv'
    <2>1. PICK card \in Answered(q) :
              /\ decisions' = decisions \cup {[card |-> card, to |-> q, failed |-> fails]}
              /\ IF fails THEN UNCHANGED <<pressed, pausedTargets>>
                 ELSE recordCardAction(card, "influenced", "telegram")
      BY <1>7 DEF ReplyTo
    <2>2. UNCHANGED <<hour, issued, chatOf, questions, goneTargets>>
      BY <1>7 DEF ReplyTo
    <2>3. card \in issued /\ cardIdTag(card) = q.tag
      BY DEF Answered, findCardByTag
    <2>4. q.about \in issued /\ q.tag = cardIdTag(q.about)
      BY DEF HeardInv, TagsTell, CardActionsTypeOK
    <2>5. card = q.about
      BY <1>0, <2>3, <2>4, TagsDiffer
    <2>. DEFINE press == [card |-> card, button |-> "influenced", surface |-> "telegram"]
    <2>6. /\ pressed \subseteq pressed' /\ pressed' \subseteq [card : issued, button : Buttons, surface : Surfaces]
          /\ fails \/ press \in pressed'
          /\ pausedTargets' \cap goneTargets = {}
          /\ \A t \in pausedTargets' :
                 \E p \in pressed' : TargetOf(p.card) = t /\ p.button = "not_following_target"
      <3>1. CASE fails
        BY <2>1, <3>1 DEF HeardInv, CardActionsTypeOK, HeardAsSaid
      <3>2. CASE ~fails
        BY <2>1, <2>2, <2>3, <3>2, PressHeard DEF Buttons, Surfaces
      <3>. QED  BY <3>1, <3>2
    <2>7. CardActionsTypeOK'
      BY <2>1, <2>2, <2>3, <2>6 DEF HeardInv, CardActionsTypeOK
    <2>8. TagsTell'
      BY <2>2 DEF HeardInv, TagsTell
    <2>9. ASSUME NEW d \in decisions'
          PROVE  /\ d.card = d.to.about
                 /\ d.failed \/ [card |-> d.card, button |-> "influenced", surface |-> "telegram"] \in pressed'
      BY <2>1, <2>5, <2>6 DEF HeardInv, HeardAsSaid
    <2>. QED  BY <2>6, <2>7, <2>8, <2>9 DEF HeardInv, HeardAsSaid
  <1>8. CASE UNCHANGED cardActionsVars
    BY <1>8 DEF cardActionsVars, HeardInv, CardActionsTypeOK, TagsTell, HeardAsSaid
  <1>. QED  BY <1>1, <1>2, <1>3, <1>4, <1>5, <1>6, <1>7, <1>8 DEF CardActionsNext

\* An answer in a chat is kept with the card that was asked about and is a press
\* too unless the handler failed, and a target rests only if someone pressed that
\* he does not follow it (updates.ts:100-107, card-actions.ts:1-12), for any
\* readers, chats and cards.
THEOREM AnswersHeard == CardActionsSpec => []HeardAsSaid
  <1>1. HeardInv => HeardAsSaid
    BY DEF HeardInv
  <1>. QED  BY <1>1, HeardInit, HeardKept, PTL DEF CardActionsSpec

-----------------------------------------------------------------------------
(* A target's page: the inductive invariant *)

InKind(e, kind) == kind = "all" \/ KindOf[e] \in {kind, "decision"}
Once(q) == \A i, j \in DOMAIN q : q[i] = q[j] => i = j
Sorted(q) == \A i, j \in DOMAIN q : i < j => at[q[i]] >= at[q[j]]

\* Whatever of a kind was known, is recent enough, follows the cursor, and is not
\* beyond the end, has a place, or something of its moment has it.
Covers(q, more, kind, known, cursor) ==
    \A e \in known :
        /\ InKind(e, kind) /\ at[e] >= clock - Horizon
        /\ cursor # never => at[e] < cursor
        /\ more => at[e] > at[Last(q)]
        => \E i \in DOMAIN q : at[q[i]] = at[e]

Answers == [entries : Seq(Entries), hasMore : BOOLEAN, known : SUBSET Entries, ready : BOOLEAN]
Flying == [kind : Offered, cursor : Int, answer : Answers, late : BOOLEAN]
Lists == [shown : Seq(Entries), hasMore : BOOLEAN, kind : Offered, known : SUBSET Entries, loaded : BOOLEAN]

PageTyped ==
    /\ clock \in Int /\ at \in [Entries -> Int] /\ list \in Lists /\ filterKind \in Offered
    /\ flights \in Seq(Flying)
    /\ isLoadingMore \in BOOLEAN /\ astray \in BOOLEAN
    /\ Shown \subseteq Written /\ list.known \subseteq Written

First(i) == flights[i].cursor = never

\* An answer is what was asked for, as it was when it was given.
AnswerTrue(i) ==
    LET answer == flights[i].answer
    IN  answer.ready =>
            /\ \A k \in DOMAIN answer.entries :
                   /\ answer.entries[k] \in Written /\ InKind(answer.entries[k], flights[i].kind)
                   /\ ~First(i) => at[answer.entries[k]] < flights[i].cursor
            /\ Once(answer.entries) /\ Sorted(answer.entries) /\ answer.known \subseteq Written
            /\ answer.hasMore => answer.entries # <<>>
            /\ First(i) => Covers(answer.entries, answer.hasMore, flights[i].kind, answer.known, never)
            /\ ~First(i) /\ ~flights[i].late =>
                   Covers(answer.entries, answer.hasMore, flights[i].kind, list.known, flights[i].cursor)

\* A further page continues the list that is there, unless it is late; one at most
\* is under way.
Continues ==
    \A i \in DOMAIN flights : ~First(i) =>
        /\ isLoadingMore /\ list.loaded
        /\ \A j \in DOMAIN flights : ~First(j) => i = j
        /\ ~flights[i].late =>
               list.shown # <<>> /\ flights[i].cursor = at[Last(list.shown)]

\* The last request for a first page is for the kind that is chosen, unless it is
\* late, and with none to come the list has that kind.
LastAsked ==
    /\ \A i \in DOMAIN flights :
           First(i) /\ ~flights[i].late /\ flights[i].kind # filterKind =>
               \E j \in DOMAIN flights : j > i /\ First(j)
    /\ ~astray /\ (\A i \in DOMAIN flights : ~First(i)) => list.kind = filterKind

ListTrue ==
    /\ ~list.loaded => list.shown = <<>>
    /\ ~astray /\ list.loaded =>
           /\ Once(list.shown) /\ Sorted(list.shown) /\ (list.hasMore => list.shown # <<>>)
           /\ Covers(list.shown, list.hasMore, list.kind, list.known, never)
    /\ ~astray => \A k \in DOMAIN list.shown : InKind(list.shown[k], list.kind)

PageInv ==
    /\ PageTyped /\ Continues /\ LastAsked /\ ListTrue
    /\ \A i \in DOMAIN flights : AnswerTrue(i)

-----------------------------------------------------------------------------
(* A target's page: what one answer holds *)

LEMMA ListOf ==
    ASSUME NEW E \in SUBSET Entries, NEW s \in SetToSeqs(E)
    PROVE  /\ IsFiniteSet(E) /\ s \in Seq(Entries) /\ Len(s) = Cardinality(E) /\ Len(s) \in Nat
           /\ DOMAIN s = 1 .. Len(s)
           /\ \A i \in DOMAIN s : s[i] \in E
           /\ Once(s)
           /\ \A e \in E : \E i \in DOMAIN s : s[i] = e
  <1>. DEFINE n == Cardinality(E)
  <1>1. IsFiniteSet(E)
    BY TargetPageAssumption, FS_Subset
  <1>2. n \in Nat
    BY <1>1, FS_CardinalityType
  <1>3. s \in [1 .. n -> E] /\ \A i, j \in 1 .. n : i # j => s[i] # s[j]
    BY DEF SetToSeqs
  <1>4. IsFiniteSet(1 .. n) /\ Cardinality(1 .. n) = n
    <2>. HIDE DEF n
    <2>1. 1 \in Int /\ n \in Int
      BY <1>2
    <2>2. IsFiniteSet(1 .. n) /\ Cardinality(1 .. n) = IF 1 > n THEN 0 ELSE n - 1 + 1
      BY <2>1, FS_Interval
    <2>. QED  BY <1>2, <2>2
  <1>5. s \in Injection(1 .. n, E)
    BY <1>3 DEF Injection, IsInjective
  <1>6. s \in Surjection(1 .. n, E)
    <2>. HIDE DEF n
    <2>1. Cardinality(1 .. n) = Cardinality(E)
      BY <1>4 DEF n
    <2>. QED  BY <1>1, <1>5, <2>1, FS_Injection
  <1>7. \A e \in E : \E i \in 1 .. n : s[i] = e
    BY <1>6 DEF Surjection
  <1>. HIDE DEF n
  <1>8. s \in Seq(Entries) /\ Len(s) = n /\ DOMAIN s = 1 .. n
    BY <1>2, <1>3
  <1>9. Once(s)
    BY <1>3, <1>8 DEF Once
  <1>10. \A i \in DOMAIN s : s[i] \in E
    BY <1>3, <1>8
  <1>. QED  BY <1>1, <1>2, <1>7, <1>8, <1>9, <1>10 DEF n

\* Of one table: what is read is all there is, or a page and one more, the newest.
LEMMA NewestHas ==
    ASSUME NEW T \in SUBSET Entries, NEW R \in Newest(T)
    PROVE  /\ R \subseteq T /\ IsFiniteSet(R) /\ Cardinality(R) \in Nat
           /\ R = T \/ Cardinality(R) = PageSize + 1
           /\ \A e \in R, f \in T \ R : at[e] >= at[f]
  <1>1. /\ R \subseteq T /\ \A e \in R, f \in T \ R : at[e] >= at[f]
        /\ Cardinality(R) = (IF Cardinality(T) < RowsRead THEN Cardinality(T) ELSE RowsRead)
    BY DEF Newest
  <1>2. IsFiniteSet(T)
    BY TargetPageAssumption, FS_Subset
  <1>3. IsFiniteSet(R) /\ (Cardinality(T) = Cardinality(R) => T = R)
    BY <1>1, <1>2, FS_Subset
  <1>4. Cardinality(R) \in Nat
    BY <1>3, FS_CardinalityType
  <1>. QED  BY <1>1, <1>3, <1>4 DEF RowsRead

\* No more entries than a page less one are newer than the last of the page.
LEMMA FewAreNewer ==
    ASSUME at \in [Entries -> Int], NEW E \in SUBSET Entries, NEW s \in SetToSeqs(E), Sorted(s),
           PageSize < Len(s), NEW R \in SUBSET E, Cardinality(R) = PageSize + 1
    PROVE  \E f \in R : at[f] <= at[s[PageSize]]
  <1>1. /\ IsFiniteSet(E) /\ Len(s) \in Nat /\ DOMAIN s = 1 .. Len(s) /\ \A i \in DOMAIN s : s[i] \in E
        /\ \A e \in E : \E i \in DOMAIN s : s[i] = e
    BY ListOf
  <1>2. PageSize \in Nat \ {0}
    BY TargetPageAssumption
  <1>3. SUFFICES ASSUME \A f \in R : at[f] > at[s[PageSize]] PROVE FALSE
    BY <1>1, <1>2
  <1>4. PageSize \in DOMAIN s /\ s[PageSize] \in Entries
    BY <1>1, <1>2
  <1>5. ASSUME NEW f \in R PROVE \E i \in 1 .. PageSize - 1 : s[i] = f
    <2>1. PICK i \in DOMAIN s : s[i] = f
      BY <1>1
    <2>2. at[f] > at[s[PageSize]] /\ at[f] \in Int /\ at[s[PageSize]] \in Int
      BY <1>3, <1>4
    <2>3. ~(PageSize <= i)
      BY <1>4, <2>1, <2>2 DEF Sorted
    <2>. QED  BY <1>1, <1>2, <2>1, <2>3
  <1>. DEFINE place == [f \in R |-> CHOOSE i \in 1 .. PageSize - 1 : s[i] = f]
  <1>6. place \in [R -> 1 .. PageSize - 1] /\ \A f \in R : s[place[f]] = f
    BY <1>5
  <1>7. IsFiniteSet(R) /\ IsFiniteSet(1 .. PageSize - 1)
    <2>1. 1 \in Int /\ PageSize - 1 \in Int
      BY <1>2
    <2>. QED  BY <1>1, <2>1, FS_Subset, FS_Interval
  <1>8. Cardinality(1 .. PageSize - 1) < Cardinality(R)
    <2>1. 1 \in Int /\ PageSize - 1 \in Int
      BY <1>2
    <2>2. Cardinality(1 .. PageSize - 1) = IF 1 > PageSize - 1 THEN 0 ELSE PageSize - 1 - 1 + 1
      BY <2>1, FS_Interval
    <2>. QED  BY <1>2, <2>2
  <1>. HIDE DEF place
  <1>9. \E x, y \in R : x # y /\ place[x] = place[y]
    <2>. DEFINE room == 1 .. PageSize - 1
    <2>1. IsFiniteSet(R) /\ IsFiniteSet(room) /\ Cardinality(room) < Cardinality(R) /\ place \in [R -> room]
      BY <1>6, <1>7, <1>8
    <2>. HIDE DEF room
    <2>. QED  BY <2>1, FS_PigeonHole
  <1>. QED  BY <1>6, <1>9

\* A page has all there is, or all that is newer than its last.
Reaches(page, more, S) ==
    \A e \in S : (more => at[e] > at[Last(page)]) => \E i \in DOMAIN page : page[i] = e

\* The answer to a request: the first page of what is asked for, with all of it
\* that is newer than the page's last, or all of it.
LEMMA PageHolds ==
    ASSUME at \in [Entries -> Int], NEW S \in SUBSET Entries,
           NEW events \in Newest(S \cap Happenings), NEW decs \in Newest(S \ Happenings),
           NEW s \in NewestFirst(events \cup decs),
           NEW page, page = SubSeq(s, 1, IF Len(s) > PageSize THEN PageSize ELSE Len(s))
    PROVE  /\ page \in Seq(Entries) /\ Len(s) \in Nat
           /\ \A i \in DOMAIN page : page[i] \in S
           /\ Once(page) /\ Sorted(page)
           /\ Len(s) > PageSize => page # <<>>
           /\ ~(Len(s) > PageSize) => Reaches(page, FALSE, S)
           /\ Len(s) > PageSize => Reaches(page, TRUE, S)
  <1>. DEFINE E == events \cup decs
              m == IF Len(s) > PageSize THEN PageSize ELSE Len(s)
  <1>1. S \cap Happenings \in SUBSET Entries /\ S \ Happenings \in SUBSET Entries
    OBVIOUS
  <1>2. /\ events \subseteq S \cap Happenings /\ IsFiniteSet(events) /\ Cardinality(events) \in Nat
        /\ events = S \cap Happenings \/ Cardinality(events) = PageSize + 1
        /\ \A e \in events, f \in (S \cap Happenings) \ events : at[e] >= at[f]
    BY <1>1, NewestHas
  <1>3. /\ decs \subseteq S \ Happenings /\ IsFiniteSet(decs) /\ Cardinality(decs) \in Nat
        /\ decs = S \ Happenings \/ Cardinality(decs) = PageSize + 1
        /\ \A e \in decs, f \in (S \ Happenings) \ decs : at[e] >= at[f]
    BY <1>1, NewestHas
  <1>4. E \in SUBSET Entries /\ E \subseteq S
    BY <1>2, <1>3
  <1>5. s \in SetToSeqs(E) /\ Sorted(s)
    BY DEF NewestFirst, Sorted
  <1>6. /\ IsFiniteSet(E) /\ s \in Seq(Entries) /\ Len(s) = Cardinality(E) /\ Len(s) \in Nat
        /\ DOMAIN s = 1 .. Len(s)
        /\ \A i \in DOMAIN s : s[i] \in E
        /\ Once(s)
        /\ \A e \in E : \E i \in DOMAIN s : s[i] = e
    BY <1>4, <1>5, ListOf
  <1>7. PageSize \in Nat \ {0}
    BY TargetPageAssumption
  <1>8. m \in Nat /\ m <= Len(s) /\ m <= PageSize /\ (Len(s) > PageSize => m = PageSize)
        /\ (~(Len(s) > PageSize) => m = Len(s))
    BY <1>6, <1>7
  <1>9. page = SubSeq(s, 1, m)
    OBVIOUS
  <1>. HIDE DEF m, E
  <1>10. page \in Seq(Entries) /\ Len(page) = m /\ DOMAIN page = 1 .. m
         /\ \A i \in 1 .. m : i \in DOMAIN s /\ page[i] = s[i]
    BY <1>6, <1>8, <1>9
  <1>11. \A i \in DOMAIN page : page[i] \in S
    BY <1>4, <1>6, <1>10
  <1>12. Once(page)
    BY <1>6, <1>10 DEF Once
  <1>13. Sorted(page)
    BY <1>5, <1>10 DEF Sorted
  <1>14. ASSUME Len(s) > PageSize PROVE page # <<>>
    BY <1>7, <1>8, <1>10, <1>14
  <1>15. ASSUME NEW e \in S, Len(s) > PageSize => at[e] > at[Last(page)]
         PROVE  \E i \in DOMAIN page : page[i] = e
    <2>1. CASE Len(s) > PageSize
      <3>1. PageSize \in DOMAIN page /\ Last(page) = s[PageSize] /\ s[PageSize] \in Entries
        BY <1>4, <1>6, <1>7, <1>8, <1>10, <2>1 DEF Last
      <3>2. at[e] > at[s[PageSize]] /\ at[e] \in Int /\ at[s[PageSize]] \in Int
        BY <1>15, <2>1, <3>1
      <3>3. ASSUME e \in E PROVE \E i \in DOMAIN page : page[i] = e
        <4>1. PICK i \in DOMAIN s : s[i] = e
          BY <1>6, <3>3
        <4>2. ~(PageSize <= i)
          <5>1. ASSUME PageSize < i PROVE at[s[PageSize]] >= at[e]
            BY <1>5, <3>1, <4>1, <5>1 DEF Sorted
          <5>2. i \in Nat /\ (PageSize = i => at[s[PageSize]] = at[e])
            BY <1>6, <4>1
          <5>. QED  BY <1>7, <3>2, <5>1, <5>2
        <4>3. i \in 1 .. m
          BY <1>6, <1>7, <1>8, <2>1, <4>1, <4>2
        <4>. QED  BY <1>10, <4>1, <4>3
      <3>4. ASSUME NEW R \in SUBSET E, Cardinality(R) = PageSize + 1, \A f \in R : at[f] >= at[e]
            PROVE  FALSE
        <4>1. PICK f \in R : at[f] <= at[s[PageSize]]
          BY <1>4, <1>5, <2>1, <3>4, FewAreNewer
        <4>2. at[f] \in Int /\ at[f] >= at[e]
          BY <1>4, <3>4
        <4>. QED  BY <3>2, <4>1, <4>2
      <3>5. CASE e \in Happenings
        <4>1. ASSUME e \notin events PROVE FALSE
          <5>1. Cardinality(events) = PageSize + 1 /\ \A f \in events : at[f] >= at[e]
            BY <1>2, <3>5, <4>1
          <5>. QED  BY <3>4, <5>1 DEF E
        <4>. QED  BY <3>3, <4>1 DEF E
      <3>6. CASE e \notin Happenings
        <4>1. ASSUME e \notin decs PROVE FALSE
          <5>1. Cardinality(decs) = PageSize + 1 /\ \A f \in decs : at[f] >= at[e]
            BY <1>3, <3>6, <4>1
          <5>. QED  BY <3>4, <5>1 DEF E
        <4>. QED  BY <3>3, <4>1 DEF E
      <3>. QED  BY <3>5, <3>6
    <2>2. CASE ~(Len(s) > PageSize)
      <3>1. Cardinality(events) <= Cardinality(E) /\ Cardinality(decs) <= Cardinality(E)
        BY <1>6, FS_Subset DEF E
      <3>2. events = S \cap Happenings /\ decs = S \ Happenings
        BY <1>2, <1>3, <1>6, <1>7, <2>2, <3>1
      <3>3. e \in E
        BY <3>2 DEF E
      <3>4. PICK i \in DOMAIN s : s[i] = e
        BY <1>6, <3>3
      <3>. QED  BY <1>6, <1>8, <1>10, <2>2, <3>4
    <2>. QED  BY <2>1, <2>2
  <1>. QED  BY <1>6, <1>10, <1>11, <1>12, <1>13, <1>14, <1>15 DEF Reaches

-----------------------------------------------------------------------------
(* A target's page: every step keeps the invariant *)

\* The requests that are left keep their order and what they are; those before
\* the one that came back are late, and the further pages of a list replaced.
LEMMA WithoutOne ==
    ASSUME flights \in Seq(Flying), NEW i \in DOMAIN flights
    PROVE  /\ Without(i) \in Seq(Flying) /\ DOMAIN Without(i) = 1 .. Len(flights) - 1
           /\ \A k \in DOMAIN Without(i) : \E j \in DOMAIN flights :
                  /\ j = (IF k < i THEN k ELSE k + 1)
                  /\ Without(i)[k].kind = flights[j].kind /\ Without(i)[k].cursor = flights[j].cursor
                  /\ Without(i)[k].answer = flights[j].answer
                  /\ Without(i)[k].late <=>
                         flights[j].late \/ j < i \/ (flights[i].cursor = never /\ flights[j].cursor # never)
  <1>. DEFINE Late(j) == flights[j].late \/ j < i \/ (flights[i].cursor = never /\ flights[j].cursor # never)
              aged == [j \in DOMAIN flights |-> [flights[j] EXCEPT !.late = Late(j)]]
              n == Len(flights)
  <1>1. n \in Nat /\ DOMAIN flights = 1 .. n /\ \A j \in 1 .. n : flights[j] \in Flying
    OBVIOUS
  <1>2. ASSUME NEW j \in 1 .. n
        PROVE  /\ [flights[j] EXCEPT !.late = Late(j)] \in Flying
               /\ [flights[j] EXCEPT !.late = Late(j)].kind = flights[j].kind
               /\ [flights[j] EXCEPT !.late = Late(j)].cursor = flights[j].cursor
               /\ [flights[j] EXCEPT !.late = Late(j)].answer = flights[j].answer
               /\ [flights[j] EXCEPT !.late = Late(j)].late = Late(j)
    <2>1. flights[j] \in Flying /\ Late(j) \in BOOLEAN
      BY <1>1
    <2>. HIDE DEF Late
    <2>. QED  BY <2>1 DEF Flying
  <1>3. aged \in [1 .. n -> Flying]
    <2>. HIDE DEF Late
    <2>. QED  BY <1>1, <1>2
  <1>4. \A j \in 1 .. n : /\ aged[j].kind = flights[j].kind /\ aged[j].cursor = flights[j].cursor
                          /\ aged[j].answer = flights[j].answer /\ aged[j].late = Late(j)
    <2>. HIDE DEF Late
    <2>. QED  BY <1>1, <1>2
  <1>5. Without(i) = RemoveAt(aged, i)
    BY DEF Without
  <1>. HIDE DEF aged, n
  <1>6. aged \in Seq(Flying) /\ Len(aged) = n
    BY <1>1, <1>3
  <1>7. i \in 1 .. n
    BY <1>1
  <1>8. /\ SubSeq(aged, 1, i - 1) \in Seq(Flying) /\ Len(SubSeq(aged, 1, i - 1)) = i - 1
        /\ \A k \in 1 .. i - 1 : SubSeq(aged, 1, i - 1)[k] = aged[k]
    BY <1>1, <1>6, <1>7
  <1>9. /\ SubSeq(aged, i + 1, n) \in Seq(Flying) /\ Len(SubSeq(aged, i + 1, n)) = n - i
        /\ \A k \in 1 .. n - i : SubSeq(aged, i + 1, n)[k] = aged[i + k]
    BY <1>1, <1>6, <1>7
  <1>10. Without(i) = SubSeq(aged, 1, i - 1) \o SubSeq(aged, i + 1, n)
    BY <1>5, <1>6 DEF RemoveAt
  <1>11. /\ Without(i) \in Seq(Flying) /\ DOMAIN Without(i) = 1 .. n - 1
         /\ \A k \in 1 .. n - 1 : Without(i)[k] = aged[IF k < i THEN k ELSE k + 1]
    <2>1. PICK a \in Seq(Flying) : /\ a = SubSeq(aged, 1, i - 1) /\ Len(a) = i - 1
                                  /\ \A k \in 1 .. i - 1 : a[k] = aged[k]
      BY <1>8
    <2>2. PICK b \in Seq(Flying) : /\ b = SubSeq(aged, i + 1, n) /\ Len(b) = n - i
                                  /\ \A k \in 1 .. n - i : b[k] = aged[i + k]
      BY <1>9
    <2>3. Without(i) = a \o b
      BY <1>10, <2>1, <2>2
    <2>4. a \o b \in Seq(Flying) /\ Len(a \o b) = n - 1
      BY <1>1, <1>7, <2>1, <2>2
    <2>5. ASSUME NEW k \in 1 .. n - 1 PROVE (a \o b)[k] = aged[IF k < i THEN k ELSE k + 1]
      <3>1. CASE k < i
        BY <1>1, <1>7, <2>1, <2>2, <3>1
      <3>2. CASE ~(k < i)
        <4>1. (a \o b)[k] = b[k - (i - 1)] /\ k - (i - 1) \in 1 .. n - i
          <5>1. k \in Int /\ k \in 1 .. Len(a) + Len(b) /\ Len(a) < k /\ k - (i - 1) \in 1 .. n - i
            BY <1>1, <1>7, <2>1, <2>2, <3>2
          <5>2. (a \o b)[k] = b[k - Len(a)]
            BY <5>1
          <5>. QED  BY <2>1, <5>1, <5>2
        <4>2. b[k - (i - 1)] = aged[i + (k - (i - 1))] /\ i + (k - (i - 1)) = k + 1
          BY <1>1, <1>7, <2>2, <4>1
        <4>. QED  BY <3>2, <4>1, <4>2
      <3>. QED  BY <3>1, <3>2
    <2>6. DOMAIN (a \o b) = 1 .. n - 1
      BY <1>1, <2>4
    <2>. QED  BY <2>3, <2>4, <2>5, <2>6
  <1>12. ASSUME NEW k \in 1 .. n - 1
         PROVE  \E j \in DOMAIN flights : j = (IF k < i THEN k ELSE k + 1) /\ Without(i)[k] = aged[j]
    BY <1>1, <1>7, <1>11
  <1>13. ASSUME NEW k \in DOMAIN Without(i)
         PROVE  \E j \in DOMAIN flights :
                  /\ j = (IF k < i THEN k ELSE k + 1)
                  /\ Without(i)[k].kind = flights[j].kind /\ Without(i)[k].cursor = flights[j].cursor
                  /\ Without(i)[k].answer = flights[j].answer
                  /\ Without(i)[k].late = Late(j)
    <2>. HIDE DEF Late
    <2>1. k \in 1 .. n - 1
      BY <1>11
    <2>2. PICK j \in DOMAIN flights : j = (IF k < i THEN k ELSE k + 1) /\ Without(i)[k] = aged[j]
      BY <1>12, <2>1
    <2>3. j \in 1 .. n
      BY <1>1
    <2>. QED  BY <1>4, <2>2, <2>3
  <1>. QED  BY <1>11, <1>13, Zenon DEF n

\* What was covered stays so while time passes and the tables grow.
LEMMA CoversKept ==
    ASSUME at \in [Entries -> Int], at' \in [Entries -> Int], clock \in Int, clock' \in Int, clock <= clock',
           \A e \in Written : at'[e] = at[e],
           NEW q \in Seq(Entries), \A k \in DOMAIN q : q[k] \in Written,
           NEW more, NEW kind, NEW known \in SUBSET Entries, known \subseteq Written, NEW cursor \in Int
    PROVE  /\ Sorted(q) => Sorted(q)'
           /\ (more => q # <<>>) /\ Covers(q, more, kind, known, cursor) => Covers(q, more, kind, known, cursor)'
  <1>1. Sorted(q) => Sorted(q)'
    BY DEF Sorted
  <1>2. ASSUME more => q # <<>>, Covers(q, more, kind, known, cursor),
               NEW e \in known, InKind(e, kind), at'[e] >= clock' - Horizon,
               cursor # never => at'[e] < cursor, more => at'[e] > at'[Last(q)]
        PROVE  \E k \in DOMAIN q : at'[q[k]] = at'[e]
    <2>1. at'[e] = at[e] /\ at[e] \in Int /\ Horizon \in Int
      BY TargetPageAssumption
    <2>2. at[e] >= clock - Horizon
      BY <1>2, <2>1
    <2>3. ASSUME more PROVE at[e] > at[Last(q)]
      <3>1. Last(q) \in Written
        BY <1>2, <2>3 DEF Last
      <3>. QED  BY <1>2, <2>1, <2>3, <3>1
    <2>4. PICK k \in DOMAIN q : at[q[k]] = at[e]
      BY <1>2, <2>1, <2>2, <2>3 DEF Covers
    <2>. QED  BY <2>1, <2>4
  <1>. QED  BY <1>1, <1>2 DEF Covers, InKind

LEMMA TablesGrow ==
    ASSUME PageInv, UNCHANGED <<list, filterKind, isLoadingMore, flights, astray>>,
           at' \in [Entries -> Int], clock' \in Int, clock <= clock',
           \A e \in Written : at'[e] = at[e]
    PROVE  PageInv'
  <1>1. /\ PageTyped /\ at \in [Entries -> Int] /\ clock \in Int /\ list \in Lists /\ flights \in Seq(Flying)
        /\ Shown \subseteq Written /\ list.known \subseteq Written /\ never \in Int
    BY DEF PageInv, PageTyped, never
  <1>2. Written \subseteq Written'
    BY DEF Written
  <1>3. list.shown \in Seq(Entries) /\ \A k \in DOMAIN list.shown : list.shown[k] \in Written
    BY <1>1 DEF Lists, Shown, ToSet
  <1>4. PageTyped'
    BY <1>1, <1>2 DEF PageTyped, Shown
  <1>5. ASSUME NEW i \in DOMAIN flights PROVE AnswerTrue(i)'
    <2>. DEFINE r == flights[i]
                answer == r.answer
    <2>1. r \in Flying /\ answer \in Answers /\ r.cursor \in Int /\ answer.entries \in Seq(Entries)
          /\ answer.known \in SUBSET Entries /\ list.known \in SUBSET Entries
      <3>1. r \in Flying
        BY <1>1
      <3>2. list.known \in SUBSET Entries
        BY <1>1 DEF Lists
      <3>. QED  BY <3>1, <3>2 DEF Flying, Answers
    <2>2. SUFFICES ASSUME answer.ready PROVE AnswerTrue(i)'
      BY DEF AnswerTrue
    <2>3. /\ \A k \in DOMAIN answer.entries :
                 /\ answer.entries[k] \in Written /\ InKind(answer.entries[k], r.kind)
                 /\ ~First(i) => at[answer.entries[k]] < r.cursor
          /\ Once(answer.entries) /\ Sorted(answer.entries) /\ answer.known \subseteq Written
          /\ answer.hasMore => answer.entries # <<>>
          /\ First(i) => Covers(answer.entries, answer.hasMore, r.kind, answer.known, never)
          /\ ~First(i) /\ ~r.late => Covers(answer.entries, answer.hasMore, r.kind, list.known, r.cursor)
      BY <2>2 DEF PageInv, AnswerTrue
    <2>4. Sorted(answer.entries)'
      BY <1>1, <2>1, <2>3, CoversKept
    <2>5. First(i) => Covers(answer.entries, answer.hasMore, r.kind, answer.known, never)'
      BY <1>1, <2>1, <2>3, CoversKept
    <2>6. ~First(i) /\ ~r.late => Covers(answer.entries, answer.hasMore, r.kind, list.known, r.cursor)'
      BY <1>1, <2>1, <2>3, CoversKept
    <2>7. \A k \in DOMAIN answer.entries :
              /\ answer.entries[k] \in Written' /\ InKind(answer.entries[k], r.kind)
              /\ ~First(i) => at'[answer.entries[k]] < r.cursor
      BY <1>2, <2>3
    <2>8. answer.known \subseteq Written'
      BY <1>2, <2>3
    <2>9. flights' = flights /\ list' = list /\ (First(i)' <=> First(i))
      BY DEF First
    <2>. QED  BY <2>3, <2>4, <2>5, <2>6, <2>7, <2>8, <2>9 DEF AnswerTrue, Once, InKind, Covers, Sorted
  <1>6. Continues'
    <2>1. ASSUME list.shown # <<>> PROVE at'[Last(list.shown)] = at[Last(list.shown)]
      BY <1>3, <2>1 DEF Last
    <2>. QED  BY <2>1 DEF PageInv, Continues, First
  <1>7. LastAsked'
    BY DEF PageInv, LastAsked, First
  <1>8. ListTrue'
    <2>1. list.known \in SUBSET Entries
      BY <1>1 DEF Lists
    <2>2. ASSUME ~astray, list.loaded
          PROVE  /\ Sorted(list.shown)'
                 /\ Covers(list.shown, list.hasMore, list.kind, list.known, never)'
      <3>1. /\ Sorted(list.shown) /\ (list.hasMore => list.shown # <<>>)
            /\ Covers(list.shown, list.hasMore, list.kind, list.known, never)
        BY <2>2 DEF PageInv, ListTrue
      <3>. QED  BY <1>1, <1>3, <2>1, <3>1, CoversKept
    <2>. QED  BY <2>2 DEF PageInv, ListTrue, Once, InKind
  <1>. QED  BY <1>4, <1>5, <1>6, <1>7, <1>8 DEF PageInv

\* The answer is what the tables hold; it is put with the request.
LEMMA FetchKeeps ==
    ASSUME PageInv, NEW i \in DOMAIN flights, fetchTargetTimeline(i)
    PROVE  PageInv'
  <1>. DEFINE r == flights[i]
              S == {e \in Asked(r.kind) : r.cursor # never => at[e] < r.cursor}
  <1>1. /\ PageTyped /\ at \in [Entries -> Int] /\ clock \in Int /\ list \in Lists /\ flights \in Seq(Flying)
        /\ Shown \subseteq Written /\ list.known \subseteq Written
    BY DEF PageInv, PageTyped
  <1>2. r \in Flying /\ UNCHANGED <<clock, at, list, filterKind, isLoadingMore, astray>>
    BY <1>1 DEF fetchTargetTimeline
  <1>3. PICK events \in Newest(S \cap Happenings), decs \in Newest(S \ Happenings) :
            \E s \in NewestFirst(events \cup decs) :
                   flights' = [flights EXCEPT ![i].answer =
                       [entries |-> SubSeq(s, 1, IF Len(s) > PageSize THEN PageSize ELSE Len(s)),
                        hasMore |-> Len(s) > PageSize, ready |-> TRUE,
                        known |-> IF r.cursor = never THEN Written ELSE {}]]
    BY DEF fetchTargetTimeline
  <1>4. PICK s \in NewestFirst(events \cup decs) :
                   flights' = [flights EXCEPT ![i].answer =
                       [entries |-> SubSeq(s, 1, IF Len(s) > PageSize THEN PageSize ELSE Len(s)),
                        hasMore |-> Len(s) > PageSize, ready |-> TRUE,
                        known |-> IF r.cursor = never THEN Written ELSE {}]]
    BY <1>3
  <1>5. S \in SUBSET Entries /\ S \subseteq Written
    BY DEF Asked, Written
  <1>6. \A e \in S : InKind(e, r.kind) /\ at[e] >= clock - Horizon /\ (r.cursor # never => at[e] < r.cursor)
    BY DEF Asked, InKind
  <1>7. \A e \in Written : InKind(e, r.kind) /\ at[e] >= clock - Horizon /\ (r.cursor # never => at[e] < r.cursor)
            => e \in S
    BY DEF Asked, InKind
  <1>8. PICK page : page = SubSeq(s, 1, IF Len(s) > PageSize THEN PageSize ELSE Len(s))
    OBVIOUS
  <1>9. PICK more : more = (Len(s) > PageSize)
    OBVIOUS
  <1>. HIDE DEF S
  <1>26. more \in BOOLEAN /\ (more <=> Len(s) > PageSize)
    <2>1. (Len(s) > PageSize) \in BOOLEAN
      OBVIOUS
    <2>. QED  BY <1>9, <2>1, Zenon
  <1>10. /\ page \in Seq(Entries)
         /\ \A k \in DOMAIN page : page[k] \in S
         /\ Once(page) /\ Sorted(page)
         /\ more => page # <<>>
         /\ \A e \in S : (more => at[e] > at[Last(page)]) => \E k \in DOMAIN page : page[k] = e
    <2>1. at \in [Entries -> Int] /\ S \in SUBSET Entries
      BY <1>1, <1>5
    <2>2. /\ page \in Seq(Entries)
          /\ \A k \in DOMAIN page : page[k] \in S
          /\ Once(page) /\ Sorted(page)
          /\ Len(s) > PageSize => page # <<>>
          /\ ~(Len(s) > PageSize) => Reaches(page, FALSE, S)
          /\ Len(s) > PageSize => Reaches(page, TRUE, S)
      <3>1. events \in Newest(S \cap Happenings) /\ decs \in Newest(S \ Happenings)
        OBVIOUS
      <3>2. page \in Seq(Entries)
        BY <1>8, <2>1, <3>1, PageHolds
      <3>3. Once(page) /\ Sorted(page)
        BY <1>8, <2>1, <3>1, PageHolds
      <3>4. \A k \in DOMAIN page : page[k] \in S
        BY <1>8, <2>1, <3>1, PageHolds
      <3>5. Len(s) > PageSize => page # <<>>
        BY <1>8, <2>1, <3>1, PageHolds
      <3>6. ~(Len(s) > PageSize) => Reaches(page, FALSE, S)
        BY <1>8, <2>1, <3>1, PageHolds
      <3>7. Len(s) > PageSize => Reaches(page, TRUE, S)
        BY <1>8, <2>1, <3>1, PageHolds
      <3>. QED  BY <3>2, <3>3, <3>4, <3>5, <3>6, <3>7
    <2>. QED  BY <1>26, <2>2 DEF Reaches
  <1>11. PICK known : known = IF r.cursor = never THEN Written ELSE {}
    OBVIOUS
  <1>12. known \subseteq Written /\ known \in SUBSET Entries /\ (r.cursor = never => known = Written)
    BY <1>11 DEF Written
  <1>13. PICK answer : answer = [entries |-> page, hasMore |-> more, ready |-> TRUE, known |-> known]
    OBVIOUS
  <1>14. answer \in Answers /\ answer.entries = page /\ answer.hasMore = more /\ answer.ready /\ answer.known = known
    BY <1>10, <1>12, <1>13, <1>26 DEF Answers
  <1>15. flights' = [flights EXCEPT ![i] = [r EXCEPT !.answer = answer]]
    BY <1>4, <1>8, <1>9, <1>11, <1>13
  <1>16. PICK row \in Flying : row = [r EXCEPT !.answer = answer]
    BY <1>2, <1>14 DEF Flying
  <1>17. row.kind = r.kind /\ row.cursor = r.cursor /\ row.late = r.late /\ row.answer = answer
    BY <1>2, <1>16 DEF Flying
  <1>18. /\ flights' \in Seq(Flying) /\ DOMAIN flights' = DOMAIN flights /\ flights'[i] = row
         /\ \A j \in DOMAIN flights \ {i} : flights'[j] = flights[j]
    BY <1>1, <1>15, <1>16
  <1>19. \A j \in DOMAIN flights : flights'[j].kind = flights[j].kind /\ flights'[j].cursor = flights[j].cursor
                                   /\ flights'[j].late = flights[j].late
    BY <1>17, <1>18
  <1>20. PageTyped'
    BY <1>1, <1>2, <1>18 DEF PageTyped, Shown, Written
  <1>21. Continues'
    BY <1>2, <1>18, <1>19 DEF PageInv, Continues, First
  <1>22. LastAsked'
    BY <1>2, <1>18, <1>19 DEF PageInv, LastAsked, First
  <1>23. ListTrue'
    BY <1>2 DEF PageInv, ListTrue, Once, Sorted, Covers, InKind
  <1>24. ASSUME NEW j \in DOMAIN flights, j # i PROVE AnswerTrue(j)'
    BY <1>2, <1>18, <1>24 DEF PageInv, AnswerTrue, First, Once, Sorted, Covers, InKind, Written
  <1>25. AnswerTrue(i)'
    <2>1. Covers(page, more, r.kind, known, never) \/ r.cursor # never
      BY <1>6, <1>7, <1>10, <1>12 DEF Covers
    <2>2. r.cursor # never => Covers(page, more, r.kind, list.known, r.cursor)
      BY <1>1, <1>6, <1>7, <1>10 DEF Covers
    <2>3. \A k \in DOMAIN page :
              page[k] \in Written /\ InKind(page[k], r.kind) /\ (r.cursor # never => at[page[k]] < r.cursor)
      BY <1>5, <1>6, <1>10
    <2>4. Written' = Written
      BY <1>2 DEF Written
    <2>5. First(i)' <=> r.cursor = never
      BY <1>17, <1>18 DEF First
    <2>. HIDE DEF r
    <2>6. answer.entries = page /\ answer.hasMore = more /\ answer.known = known
          /\ flights'[i].answer = answer /\ flights'[i].kind = r.kind /\ flights'[i].cursor = r.cursor /\ flights'[i].late = r.late
      BY <1>14, <1>17, <1>18
    <2>. QED  BY <1>2, <1>10, <1>12, <2>6, <2>1, <2>2, <2>3, <2>4, <2>5
              DEF AnswerTrue, Once, Sorted, Covers, InKind
  <1>. QED  BY <1>18, <1>20, <1>21, <1>22, <1>23, <1>24, <1>25 DEF PageInv

\* When one request has come back or is lost, what the others were answered is as
\* true as it was; a request before it cannot count on its kind being chosen.
LEMMA RestTrue ==
    ASSUME PageInv, NEW i \in DOMAIN flights, flights' = Without(i), UNCHANGED <<clock, at, filterKind>>,
           First(i) \/ UNCHANGED list.known
    PROVE  /\ flights' \in Seq(Flying)
           /\ \A k \in DOMAIN flights' : AnswerTrue(k)'
           /\ \A k \in DOMAIN flights' : First(k)' /\ ~flights'[k].late /\ flights'[k].kind # filterKind =>
                  \E j \in DOMAIN flights' : j > k /\ First(j)'
           /\ \A j \in DOMAIN flights \ {i} : First(j) => \E k \in DOMAIN flights' : First(k)' /\ (j > i => k >= i)
  <1>1. /\ PageTyped /\ flights \in Seq(Flying) /\ Len(flights) \in Nat /\ DOMAIN flights = 1 .. Len(flights)
        /\ i \in 1 .. Len(flights)
    BY DEF PageInv, PageTyped
  <1>2. /\ flights' \in Seq(Flying) /\ DOMAIN flights' = 1 .. Len(flights) - 1
        /\ \A k \in DOMAIN flights' : \E j \in DOMAIN flights :
               /\ j = (IF k < i THEN k ELSE k + 1)
               /\ flights'[k].kind = flights[j].kind /\ flights'[k].cursor = flights[j].cursor
               /\ flights'[k].answer = flights[j].answer
               /\ flights'[k].late <=>
                      flights[j].late \/ j < i \/ (flights[i].cursor = never /\ flights[j].cursor # never)
    BY <1>1, WithoutOne
  <1>3. ASSUME NEW k \in DOMAIN flights' PROVE AnswerTrue(k)'
    <2>1. PICK j \in DOMAIN flights :
               /\ flights'[k].kind = flights[j].kind /\ flights'[k].cursor = flights[j].cursor
               /\ flights'[k].answer = flights[j].answer
               /\ flights'[k].late <=>
                      flights[j].late \/ j < i \/ (flights[i].cursor = never /\ flights[j].cursor # never)
      BY <1>2
    <2>2. AnswerTrue(j)
      BY DEF PageInv
    <2>3. First(k)' <=> First(j)
      BY <2>1 DEF First
    <2>4. ~First(k)' /\ ~flights'[k].late => ~First(j) /\ ~flights[j].late /\ list.known' = list.known
      BY <2>1, <2>3 DEF First
    <2>. QED  BY <2>1, <2>2, <2>3, <2>4 DEF AnswerTrue, InKind, Once, Sorted, Covers, Written
  <1>4. ASSUME NEW j \in DOMAIN flights \ {i}, First(j)
        PROVE  \E k \in DOMAIN flights' : First(k)' /\ k = (IF j < i THEN j ELSE j - 1)
    <2>1. PICK k : k = (IF j < i THEN j ELSE j - 1)
      OBVIOUS
    <2>2. k \in 1 .. Len(flights) - 1 /\ j = (IF k < i THEN k ELSE k + 1)
      BY <1>1, <2>1
    <2>3. k \in DOMAIN flights' /\ flights'[k].cursor = flights[j].cursor
      BY <1>2, <2>2
    <2>. QED  BY <1>4, <2>1, <2>3 DEF First
  <1>5. ASSUME NEW k \in DOMAIN flights', First(k)', ~flights'[k].late, flights'[k].kind # filterKind
        PROVE  \E j \in DOMAIN flights' : j > k /\ First(j)'
    <2>1. PICK h \in DOMAIN flights :
               /\ h = (IF k < i THEN k ELSE k + 1)
               /\ flights'[k].kind = flights[h].kind /\ flights'[k].cursor = flights[h].cursor
               /\ flights'[k].late <=>
                      flights[h].late \/ h < i \/ (flights[i].cursor = never /\ flights[h].cursor # never)
      BY <1>2
    <2>2. First(h) /\ ~flights[h].late /\ flights[h].kind # filterKind /\ ~(h < i)
      BY <1>5, <2>1 DEF First
    <2>3. PICK j \in DOMAIN flights : j > h /\ First(j)
      BY <2>2 DEF PageInv, LastAsked
    <2>4. k \in Nat /\ h = k + 1 /\ j \in Nat /\ j # i /\ ~(j < i) /\ j - 1 > k
      BY <1>1, <1>2, <2>1, <2>2, <2>3
    <2>. QED  BY <1>4, <2>3, <2>4
  <1>6. ASSUME NEW j \in DOMAIN flights \ {i}, First(j)
        PROVE  \E k \in DOMAIN flights' : First(k)' /\ (j > i => k >= i)
    BY <1>1, <1>4, <1>6
  <1>. QED  BY <1>2, <1>3, <1>5, <1>6

\* A further page is continued by no other, and waits for nothing but its answer.
LEMMA RestContinues ==
    ASSUME PageInv, NEW i \in DOMAIN flights, flights' = Without(i), UNCHANGED at,
           list.loaded => list'.loaded,
           First(i) => UNCHANGED isLoadingMore
    PROVE  Continues'
  <1>1. flights \in Seq(Flying) /\ Len(flights) \in Nat /\ DOMAIN flights = 1 .. Len(flights)
    BY DEF PageInv, PageTyped
  <1>2. \A k \in DOMAIN flights' : \E j \in DOMAIN flights \ {i} :
               /\ j = (IF k < i THEN k ELSE k + 1)
               /\ flights'[k].cursor = flights[j].cursor
               /\ flights'[k].late <=>
                      flights[j].late \/ j < i \/ (flights[i].cursor = never /\ flights[j].cursor # never)
    <2>1. /\ DOMAIN flights' = 1 .. Len(flights) - 1
          /\ \A k \in DOMAIN flights' : \E j \in DOMAIN flights :
               /\ j = (IF k < i THEN k ELSE k + 1)
               /\ flights'[k].cursor = flights[j].cursor
               /\ flights'[k].late <=>
                      flights[j].late \/ j < i \/ (flights[i].cursor = never /\ flights[j].cursor # never)
      BY <1>1, WithoutOne
    <2>2. \A k \in DOMAIN flights' : (IF k < i THEN k ELSE k + 1) # i
      BY <1>1, <2>1
    <2>. QED  BY <2>1, <2>2
  <1>3. \A j, h \in DOMAIN flights : ~First(j) /\ ~First(h) => j = h /\ isLoadingMore /\ list.loaded
    BY DEF PageInv, Continues
  <1>4. ASSUME NEW k \in DOMAIN flights', ~First(k)'
        PROVE  /\ isLoadingMore' /\ list'.loaded
               /\ \A h \in DOMAIN flights' : ~First(h)' => k = h
               /\ flights'[k].late
    <2>1. PICK j \in DOMAIN flights \ {i} :
               /\ j = (IF k < i THEN k ELSE k + 1)
               /\ flights'[k].cursor = flights[j].cursor
               /\ flights'[k].late <=>
                      flights[j].late \/ j < i \/ (flights[i].cursor = never /\ flights[j].cursor # never)
      BY <1>2
    <2>2. ~First(j) /\ First(i)
      BY <1>3, <1>4, <2>1 DEF First
    <2>3. ASSUME NEW h \in DOMAIN flights', ~First(h)' PROVE k = h
      <3>1. PICK g \in DOMAIN flights \ {i} : g = (IF h < i THEN h ELSE h + 1) /\ flights'[h].cursor = flights[g].cursor
        BY <1>2
      <3>2. ~First(g)
        BY <2>3, <3>1 DEF First
      <3>3. g = j
        BY <1>3, <2>2, <3>2
      <3>4. k \in Nat /\ h \in Nat /\ i \in Nat
        <4>1. DOMAIN flights' = 1 .. Len(flights) - 1
          BY <1>1, WithoutOne
        <4>. QED  BY <1>1, <4>1
      <3>. QED  BY <2>1, <3>1, <3>3, <3>4
    <2>. QED  BY <1>3, <2>1, <2>2, <2>3 DEF First
  <1>. QED  BY <1>4 DEF Continues

LEMMA PageInit == TargetPageInit => PageInv
  <1>1. SUFFICES ASSUME TargetPageInit PROVE PageInv
    OBVIOUS
  <1>. DEFINE ask == Ask("all", never)
  <1>2. ask \in Flying /\ ask.cursor = never /\ ~ask.answer.ready /\ ask.kind = "all"
    BY DEF Ask, Flying, NoAnswer, Answers, Offered, never
  <1>. HIDE DEF ask
  <1>3. flights = <<ask>> /\ DOMAIN flights = {1} /\ flights[1] = ask /\ flights \in Seq(Flying)
    <2>1. flights = <<ask>>
      BY <1>1 DEF TargetPageInit, ask
    <2>. QED  BY <1>2, <2>1
  <1>4. /\ list \in Lists /\ list.shown = <<>> /\ list.known = {} /\ ~list.loaded /\ list.kind = "all"
    <2>1. list = NoList
      BY <1>1 DEF TargetPageInit
    <2>2. NoList \in Lists /\ NoList.shown = <<>> /\ NoList.known = {} /\ ~NoList.loaded /\ NoList.kind = "all"
      BY DEF NoList, Lists, Offered
    <2>. QED  BY <2>1, <2>2
  <1>5. PageTyped
    <2>1. clock = 0 /\ at \in [Entries -> Int] /\ filterKind \in Offered /\ isLoadingMore = FALSE /\ astray = FALSE
      BY <1>1 DEF TargetPageInit, never, Offered
    <2>2. Shown = {}
      BY <1>4 DEF Shown, ToSet
    <2>3. isLoadingMore \in BOOLEAN /\ astray \in BOOLEAN
      BY <2>1, Zenon
    <2>5. clock \in Int
      BY <2>1
    <2>4. Shown \subseteq Written /\ list.known \subseteq Written
      BY <1>4, <2>2
    <2>. QED  BY <1>3, <1>4, <2>1, <2>3, <2>4, <2>5 DEF PageTyped
  <1>6. Continues /\ LastAsked /\ ListTrue
    BY <1>1, <1>2, <1>3, <1>4 DEF Continues, LastAsked, ListTrue, First, TargetPageInit
  <1>7. \A i \in DOMAIN flights : AnswerTrue(i)
    BY <1>2, <1>3 DEF AnswerTrue
  <1>. QED  BY <1>5, <1>6, <1>7 DEF PageInv

\* The first page of a kind takes the place of the list.
LEMMA FirstKeeps ==
    ASSUME PageInv, NEW i \in DOMAIN flights, ReceiveFirst(i)
    PROVE  PageInv'
  <1>. DEFINE r == flights[i]
  <1>1. /\ PageTyped /\ r \in Flying /\ r.answer \in Answers /\ r.answer.ready /\ First(i) /\ AnswerTrue(i)
        /\ flights' = Without(i) /\ UNCHANGED <<clock, at, filterKind, isLoadingMore>> /\ astray' = r.late
    <2>1. r \in Flying
      BY DEF PageInv, PageTyped
    <2>2. r.answer \in Answers
      BY <2>1 DEF Flying
    <2>. QED  BY <2>1, <2>2 DEF PageInv, ReceiveFirst, First
  <1>2. /\ list'.shown = r.answer.entries /\ list'.hasMore = r.answer.hasMore /\ list'.kind = r.kind
        /\ list'.known = r.answer.known /\ list'.loaded /\ list' \in Lists
    BY <1>1 DEF ReceiveFirst, Flying, Answers, Lists
  <1>3. /\ flights' \in Seq(Flying)
        /\ \A k \in DOMAIN flights' : AnswerTrue(k)'
        /\ \A k \in DOMAIN flights' : First(k)' /\ ~flights'[k].late /\ flights'[k].kind # filterKind =>
                  \E j \in DOMAIN flights' : j > k /\ First(j)'
        /\ \A j \in DOMAIN flights \ {i} : First(j) => \E k \in DOMAIN flights' : First(k)' /\ (j > i => k >= i)
    BY <1>1, RestTrue
  <1>4. Continues'
    BY <1>1, <1>2, RestContinues
  <1>5. /\ \A k \in DOMAIN r.answer.entries :
               r.answer.entries[k] \in Written /\ InKind(r.answer.entries[k], r.kind)
        /\ Once(r.answer.entries) /\ Sorted(r.answer.entries) /\ r.answer.known \subseteq Written
        /\ r.answer.hasMore => r.answer.entries # <<>>
        /\ Covers(r.answer.entries, r.answer.hasMore, r.kind, r.answer.known, never)
    BY <1>1 DEF AnswerTrue
  <1>6. PageTyped'
    <2>1. Shown' \subseteq Written' /\ list'.known \subseteq Written'
      BY <1>1, <1>2, <1>5 DEF Shown, ToSet, Written
    <2>. QED  BY <1>1, <1>2, <1>3, <2>1 DEF PageTyped, Flying
  <1>7. LastAsked'
    <2>1. ASSUME ~astray', \A k \in DOMAIN flights' : ~First(k)' PROVE list'.kind = filterKind'
      <3>1. ASSUME r.kind # filterKind PROVE FALSE
        <4>1. PICK j \in DOMAIN flights : j > i /\ First(j)
          BY <1>1, <2>1, <3>1 DEF PageInv, LastAsked
        <4>2. j # i
          BY <1>1, <4>1 DEF PageTyped
        <4>. QED  BY <1>3, <2>1, <4>1, <4>2
      <3>. QED  BY <1>1, <1>2, <3>1
    <2>. QED  BY <1>1, <1>3, <2>1 DEF LastAsked
  <1>8. ListTrue'
    BY <1>1, <1>2, <1>5 DEF ListTrue, Once, Sorted, Covers, InKind
  <1>. QED  BY <1>3, <1>4, <1>6, <1>7, <1>8 DEF PageInv

LEMMA TwoParts ==
    ASSUME NEW a \in Seq(Entries), NEW b \in Seq(Entries), NEW q, q = a \o b
    PROVE  /\ q \in Seq(Entries) /\ Len(a) \in Nat /\ Len(b) \in Nat
           /\ DOMAIN a = 1 .. Len(a) /\ DOMAIN b = 1 .. Len(b)
           /\ Len(q) = Len(a) + Len(b) /\ DOMAIN q = 1 .. Len(a) + Len(b)
           /\ \A k \in 1 .. Len(a) : q[k] = a[k] /\ a[k] \in Entries
           /\ \A k \in 1 .. Len(b) : q[Len(a) + k] = b[k] /\ b[k] \in Entries
  <1>1. q \in Seq(Entries) /\ Len(a) \in Nat /\ Len(b) \in Nat /\ DOMAIN a = 1 .. Len(a) /\ DOMAIN b = 1 .. Len(b)
    OBVIOUS
  <1>2. Len(q) = Len(a) + Len(b) /\ DOMAIN q = 1 .. Len(a) + Len(b)
    OBVIOUS
  <1>3. ASSUME NEW k \in 1 .. Len(a) PROVE q[k] = a[k] /\ a[k] \in Entries
    BY <1>1
  <1>4. ASSUME NEW k \in 1 .. Len(b) PROVE q[Len(a) + k] = b[k] /\ b[k] \in Entries
    <2>1. b[k] \in Entries /\ Len(a) + k \in 1 .. Len(a) + Len(b) /\ ~(Len(a) + k <= Len(a)) /\ Len(a) + k - Len(a) = k
      BY <1>1
    <2>2. q[Len(a) + k] = b[Len(a) + k - Len(a)]
      BY <1>1, <2>1
    <2>. QED  BY <2>1, <2>2
  <1>. QED  BY <1>1, <1>2, <1>3, <1>4

\* A list with the page that continues it.
LEMMA Joined ==
    ASSUME PageInv, NEW i \in DOMAIN flights, flights[i].answer.ready, ~First(i), ~flights[i].late, ~astray,
           flights[i].kind = list.kind
    PROVE  \E q \in Seq(Entries) :
               /\ q = list.shown \o flights[i].answer.entries
               /\ Once(q) /\ Sorted(q) /\ q # <<>>
               /\ Covers(q, flights[i].answer.hasMore, list.kind, list.known, never)
               /\ \A k \in DOMAIN q : InKind(q[k], list.kind)
  <1>0. flights[i] \in Flying /\ list \in Lists
    BY DEF PageInv, PageTyped
  <1>1. PICK a \in Seq(Entries) : a = list.shown
    BY <1>0 DEF Lists
  <1>2. PICK b \in Seq(Entries) : b = flights[i].answer.entries
    BY <1>0 DEF Flying, Answers
  <1>3. /\ at \in [Entries -> Int] /\ clock \in Int /\ flights[i].cursor \in Int
        /\ list.known \in SUBSET Entries /\ flights[i].cursor # never
    <2>1. at \in [Entries -> Int] /\ clock \in Int
      BY DEF PageInv, PageTyped
    <2>. QED  BY <1>0, <2>1 DEF Flying, Lists, First
  <1>4. PICK cursor \in Int : cursor = flights[i].cursor
    BY <1>3
  <1>5. PICK more : more = flights[i].answer.hasMore
    OBVIOUS
  <1>6. /\ a # <<>> /\ Once(a) /\ Sorted(a) /\ cursor = at[Last(a)] /\ list.loaded
        /\ Covers(a, list.hasMore, list.kind, list.known, never)
        /\ \A k \in DOMAIN a : InKind(a[k], list.kind)
    BY <1>1, <1>4 DEF PageInv, Continues, ListTrue
  <1>7. /\ Once(b) /\ Sorted(b) /\ (more => b # <<>>)
        /\ \A k \in DOMAIN b : InKind(b[k], list.kind) /\ at[b[k]] < cursor
        /\ Covers(b, more, list.kind, list.known, cursor)
    BY <1>2, <1>4, <1>5 DEF PageInv, AnswerTrue
  <1>17. PICK q : q = a \o b
    OBVIOUS
  <1>18. /\ q \in Seq(Entries) /\ Len(a) \in Nat /\ Len(b) \in Nat
         /\ DOMAIN a = 1 .. Len(a) /\ DOMAIN b = 1 .. Len(b)
         /\ Len(q) = Len(a) + Len(b) /\ DOMAIN q = 1 .. Len(a) + Len(b)
         /\ \A k \in 1 .. Len(a) : q[k] = a[k] /\ a[k] \in Entries
         /\ \A k \in 1 .. Len(b) : q[Len(a) + k] = b[k] /\ b[k] \in Entries
    BY <1>17, TwoParts
  <1>19. Len(a) > 0
    BY <1>6
  <1>8. /\ Len(a) \in Nat /\ Len(b) \in Nat /\ Len(a) > 0 /\ DOMAIN a = 1 .. Len(a) /\ DOMAIN b = 1 .. Len(b)
        /\ Len(q) = Len(a) + Len(b) /\ DOMAIN q = 1 .. Len(a) + Len(b)
    BY <1>18, <1>19
  <1>9. \A k \in 1 .. Len(a) : q[k] = a[k] /\ a[k] \in Entries /\ at[a[k]] >= cursor
    <2>1. ASSUME NEW k \in 1 .. Len(a) PROVE at[a[k]] >= cursor
      <3>1. Last(a) = a[Len(a)] /\ a[k] \in Entries /\ a[Len(a)] \in Entries
        BY <1>8 DEF Last
      <3>2. k < Len(a) => at[a[k]] >= at[a[Len(a)]]
        BY <1>6, <1>8 DEF Sorted
      <3>3. at[a[k]] \in Int /\ at[a[Len(a)]] \in Int /\ cursor = at[a[Len(a)]]
        BY <1>3, <1>6, <3>1
      <3>. QED  BY <1>8, <3>2, <3>3
    <2>. QED  BY <1>18, <2>1
  <1>10. \A k \in 1 .. Len(b) : q[Len(a) + k] = b[k] /\ b[k] \in Entries /\ at[b[k]] < cursor
    BY <1>7, <1>18
  <1>11. \A k \in DOMAIN q : k \in 1 .. Len(a) \/ (k - Len(a) \in 1 .. Len(b) /\ k = Len(a) + (k - Len(a)))
    BY <1>8
  <1>12. ASSUME NEW k \in DOMAIN q
         PROVE  \/ k \in 1 .. Len(a) /\ q[k] = a[k]
                \/ k - Len(a) \in 1 .. Len(b) /\ q[k] = b[k - Len(a)]
    BY <1>9, <1>10, <1>11
  <1>13. Once(q)
    <2>1. ASSUME NEW k \in DOMAIN q, NEW h \in DOMAIN q, q[k] = q[h] PROVE k = h
      <3>1. CASE k \in 1 .. Len(a) /\ h \in 1 .. Len(a)
        BY <1>6, <1>8, <1>9, <2>1, <3>1 DEF Once
      <3>2. CASE k - Len(a) \in 1 .. Len(b) /\ h - Len(a) \in 1 .. Len(b)
        <4>1. q[k] = b[k - Len(a)] /\ q[h] = b[h - Len(a)]
          BY <1>8, <1>12, <3>2
        <4>2. k - Len(a) = h - Len(a)
          BY <1>7, <1>8, <2>1, <3>2, <4>1 DEF Once
        <4>. QED  BY <1>8, <4>2
      <3>3. \A m \in 1 .. Len(a), n \in 1 .. Len(b) : a[m] # b[n]
        <4>1. ASSUME NEW m \in 1 .. Len(a), NEW n \in 1 .. Len(b), a[m] = b[n] PROVE FALSE
          <5>1. at[a[m]] >= cursor /\ at[a[m]] < cursor /\ at[a[m]] \in Int
            BY <1>3, <1>9, <1>10, <4>1
          <5>. QED  BY <5>1
        <4>. QED  BY <4>1
      <3>. QED  BY <1>12, <2>1, <3>1, <3>2, <3>3
    <2>. QED  BY <2>1 DEF Once
  <1>14. Sorted(q)
    <2>1. ASSUME NEW k \in DOMAIN q, NEW h \in DOMAIN q, k < h PROVE at[q[k]] >= at[q[h]]
      <3>1. CASE h \in 1 .. Len(a)
        <4>1. k \in 1 .. Len(a)
          BY <1>8, <2>1, <3>1
        <4>. QED  BY <1>6, <1>8, <1>9, <2>1, <3>1, <4>1 DEF Sorted
      <3>2. CASE k - Len(a) \in 1 .. Len(b)
        <4>1. h - Len(a) \in 1 .. Len(b) /\ k - Len(a) < h - Len(a)
          BY <1>8, <2>1, <3>2
        <4>2. q[k] = b[k - Len(a)] /\ q[h] = b[h - Len(a)]
          BY <1>8, <1>12, <3>2, <4>1
        <4>. QED  BY <1>7, <1>8, <3>2, <4>1, <4>2 DEF Sorted
      <3>3. \A m \in 1 .. Len(a), n \in 1 .. Len(b) : at[a[m]] >= at[b[n]]
        <4>1. ASSUME NEW m \in 1 .. Len(a), NEW n \in 1 .. Len(b) PROVE at[a[m]] >= at[b[n]]
          <5>1. at[a[m]] >= cursor /\ at[b[n]] < cursor /\ at[a[m]] \in Int /\ at[b[n]] \in Int
            BY <1>3, <1>9, <1>10
          <5>. QED  BY <5>1
        <4>. QED  BY <4>1
      <3>. QED  BY <1>12, <3>1, <3>2, <3>3
    <2>. QED  BY <2>1 DEF Sorted
  <1>15. \A k \in DOMAIN q : InKind(q[k], list.kind)
    BY <1>6, <1>7, <1>8, <1>12
  <1>16. ASSUME NEW e \in list.known, InKind(e, list.kind), at[e] >= clock - Horizon, more => at[e] > at[Last(q)]
         PROVE  \E k \in DOMAIN q : at[q[k]] = at[e]
    <2>1. at[e] \in Int
      BY <1>3
    <2>2. CASE at[e] > cursor
      <3>1. PICK k \in DOMAIN a : at[a[k]] = at[e]
        <4>1. list.hasMore => at[e] > at[Last(a)]
          BY <1>6, <2>2
        <4>. QED  BY <1>6, <1>16, <4>1 DEF Covers
      <3>. QED  BY <1>8, <1>9, <3>1
    <2>3. CASE at[e] = cursor
      <3>1. Len(a) \in DOMAIN q /\ q[Len(a)] = a[Len(a)] /\ Last(a) = a[Len(a)]
        BY <1>8, <1>9 DEF Last
      <3>. QED  BY <1>6, <2>3, <3>1
    <2>4. CASE at[e] < cursor
      <3>1. ASSUME more PROVE at[e] > at[Last(b)]
        <4>1. Len(b) > 0 /\ q[Len(q)] = b[Len(b)]
          <5>1. Len(b) > 0
            BY <1>2, <1>7, <1>8, <3>1
          <5>. QED  BY <1>8, <1>10, <5>1
        <4>. QED  BY <1>16, <3>1, <4>1 DEF Last
      <3>2. PICK k \in DOMAIN b : at[b[k]] = at[e]
        BY <1>7, <1>16, <2>4, <3>1 DEF Covers
      <3>3. Len(a) + k \in DOMAIN q /\ q[Len(a) + k] = b[k]
        BY <1>8, <1>10
      <3>. QED  BY <3>2, <3>3
    <2>. QED  BY <2>1, <2>2, <2>3, <2>4
  <1>20. q # <<>>
    BY <1>8
  <1>21. Covers(q, more, list.kind, list.known, never)
    BY <1>16 DEF Covers
  <1>. QED  BY <1>1, <1>2, <1>5, <1>13, <1>14, <1>15, <1>17, <1>18, <1>20, <1>21

\* A further page goes to the end of the list that is there.
LEMMA MoreKeeps ==
    ASSUME PageInv, NEW i \in DOMAIN flights, ReceiveMore(i)
    PROVE  PageInv'
  <1>. DEFINE r == flights[i]
              q == list.shown \o r.answer.entries
  <1>1. /\ PageTyped /\ r \in Flying /\ r.answer \in Answers /\ r.answer.ready /\ ~First(i) /\ AnswerTrue(i)
        /\ flights' = Without(i) /\ UNCHANGED <<clock, at, filterKind>> /\ isLoadingMore' = FALSE
        /\ astray' = (astray \/ r.late \/ r.kind # list.kind) /\ list \in Lists /\ list.loaded
        /\ list' = [list EXCEPT !.shown = @ \o r.answer.entries, !.hasMore = r.answer.hasMore]
    <2>1. r \in Flying /\ PageTyped /\ list \in Lists
      BY DEF PageInv, PageTyped
    <2>2. r.answer \in Answers
      BY <2>1 DEF Flying
    <2>3. r.cursor # never
      BY DEF ReceiveMore
    <2>4. list.loaded
      BY <2>3 DEF PageInv, Continues, First
    <2>. QED  BY <2>1, <2>2, <2>3, <2>4 DEF PageInv, ReceiveMore, First
  <1>2. /\ list.shown \in Seq(Entries) /\ r.answer.entries \in Seq(Entries) /\ r.answer.hasMore \in BOOLEAN
        /\ list.known \in SUBSET Entries
    BY <1>1 DEF Lists, Answers
  <1>3. q \in Seq(Entries) /\ \A k \in DOMAIN q : q[k] \in Written
    <2>1. PICK a \in Seq(Entries) : a = list.shown
      BY <1>2
    <2>2. PICK b \in Seq(Entries) : b = r.answer.entries
      BY <1>2
    <2>3. PICK c : c = a \o b
      OBVIOUS
    <2>4. /\ c \in Seq(Entries) /\ Len(a) \in Nat /\ Len(b) \in Nat
          /\ DOMAIN a = 1 .. Len(a) /\ DOMAIN b = 1 .. Len(b)
          /\ Len(c) = Len(a) + Len(b) /\ DOMAIN c = 1 .. Len(a) + Len(b)
          /\ \A k \in 1 .. Len(a) : c[k] = a[k] /\ a[k] \in Entries
          /\ \A k \in 1 .. Len(b) : c[Len(a) + k] = b[k] /\ b[k] \in Entries
      BY <2>3, TwoParts
    <2>5. \A k \in DOMAIN a : a[k] \in Written
      BY <1>1, <2>1 DEF PageTyped, Shown, ToSet
    <2>6. \A k \in DOMAIN b : b[k] \in Written
      BY <1>1, <2>2 DEF AnswerTrue
    <2>7. ASSUME NEW k \in DOMAIN c PROVE c[k] \in Written
      <3>1. CASE k <= Len(a)
        BY <2>4, <2>5, <3>1
      <3>2. CASE ~(k <= Len(a))
        <4>1. k - Len(a) \in 1 .. Len(b) /\ k = Len(a) + (k - Len(a))
          BY <2>4, <3>2
        <4>. QED  BY <2>4, <2>6, <4>1
      <3>. QED  BY <3>1, <3>2
    <2>8. q = c
      BY <2>1, <2>2, <2>3
    <2>. QED  BY <2>4, <2>7, <2>8
  <1>4. PICK row \in Lists : row = [list EXCEPT !.shown = q, !.hasMore = r.answer.hasMore]
    <2>. HIDE DEF q
    <2>. QED  BY <1>1, <1>2, <1>3 DEF Lists
  <1>5. /\ row.shown = q /\ row.hasMore = r.answer.hasMore /\ row.kind = list.kind /\ row.known = list.known
        /\ row.loaded = list.loaded
    <2>. HIDE DEF q
    <2>. QED  BY <1>1, <1>4 DEF Lists
  <1>6. list' = row
    BY <1>1, <1>4
  <1>7. /\ flights' \in Seq(Flying)
        /\ \A k \in DOMAIN flights' : AnswerTrue(k)'
        /\ \A k \in DOMAIN flights' : First(k)' /\ ~flights'[k].late /\ flights'[k].kind # filterKind =>
                  \E j \in DOMAIN flights' : j > k /\ First(j)'
        /\ \A j \in DOMAIN flights \ {i} : First(j) => \E k \in DOMAIN flights' : First(k)' /\ (j > i => k >= i)
    <2>1. UNCHANGED list.known
      BY <1>5, <1>6
    <2>. QED  BY <1>1, <2>1, RestTrue
  <1>8. Continues'
    <2>1. list.loaded => list'.loaded
      BY <1>5, <1>6
    <2>. QED  BY <1>1, <2>1, RestContinues
  <1>9. PageTyped'
    <2>1. Written' = Written
      BY <1>1 DEF Written
    <2>2. Shown' \subseteq Written'
      BY <1>3, <1>5, <1>6, <2>1 DEF Shown, ToSet
    <2>3. list'.known \subseteq Written'
      BY <1>1, <1>5, <1>6, <2>1 DEF PageTyped
    <2>4. isLoadingMore' \in BOOLEAN
      BY <1>1, Zenon
    <2>5. astray' \in BOOLEAN
      <3>1. astray \in BOOLEAN /\ r.late \in BOOLEAN
        BY <1>1 DEF PageTyped, Flying
      <3>. QED  BY <1>1, <3>1, Zenon
    <2>. QED  BY <1>1, <1>6, <1>7, <2>2, <2>3, <2>4, <2>5 DEF PageTyped
  <1>10. LastAsked'
    <2>1. ASSUME ~astray', \A k \in DOMAIN flights' : ~First(k)' PROVE list'.kind = filterKind'
      <3>1. \A j \in DOMAIN flights : ~First(j)
        BY <1>1, <1>7, <2>1
      <3>2. ~astray
        BY <1>1, <2>1
      <3>. QED  BY <1>1, <1>5, <1>6, <3>1, <3>2 DEF PageInv, LastAsked
    <2>. QED  BY <1>1, <1>7, <2>1 DEF LastAsked
  <1>11. ListTrue'
    <2>1. ASSUME ~astray'
          PROVE  /\ Once(q) /\ Sorted(q) /\ q # <<>>
                 /\ Covers(q, r.answer.hasMore, list.kind, list.known, never)
                 /\ \A k \in DOMAIN q : InKind(q[k], list.kind)
      <3>1. ~astray /\ ~r.late /\ r.kind = list.kind
        BY <1>1, <2>1
      <3>. QED  BY <1>1, <3>1, Joined
    <2>. HIDE DEF q
    <2>2. at' = at /\ clock' = clock
      BY <1>1
    <2>3. list'.loaded /\ list'.shown = q /\ list'.hasMore = r.answer.hasMore /\ list'.kind = list.kind
          /\ list'.known = list.known
      BY <1>1, <1>5, <1>6
    <2>4. ASSUME ~astray'
          PROVE  /\ Once(list.shown)' /\ Sorted(list.shown)' /\ list'.shown # <<>>
                 /\ Covers(list.shown, list.hasMore, list.kind, list.known, never)'
                 /\ \A k \in DOMAIN list'.shown : InKind(list'.shown[k], list'.kind)
      BY <2>1, <2>2, <2>3, <2>4 DEF Once, Sorted, Covers, InKind
    <2>. QED  BY <2>3, <2>4 DEF ListTrue, InKind
  <1>. QED  BY <1>7, <1>8, <1>9, <1>10, <1>11 DEF PageInv

\* A request is lost: the list stays as it is.
LEMMA FailKeeps ==
    ASSUME PageInv, NEW i \in DOMAIN flights, Fail(i)
    PROVE  PageInv'
  <1>1. /\ PageTyped /\ flights' = Without(i) /\ UNCHANGED <<clock, at, list, filterKind>>
        /\ isLoadingMore' = (isLoadingMore /\ First(i)) /\ astray' = (astray \/ First(i))
    BY DEF PageInv, Fail, First
  <1>2. /\ flights' \in Seq(Flying)
        /\ \A k \in DOMAIN flights' : AnswerTrue(k)'
        /\ \A k \in DOMAIN flights' : First(k)' /\ ~flights'[k].late /\ flights'[k].kind # filterKind =>
                  \E j \in DOMAIN flights' : j > k /\ First(j)'
        /\ \A j \in DOMAIN flights \ {i} : First(j) => \E k \in DOMAIN flights' : First(k)' /\ (j > i => k >= i)
    BY <1>1, RestTrue
  <1>3. isLoadingMore' \in BOOLEAN /\ astray' \in BOOLEAN
    <2>1. isLoadingMore \in BOOLEAN /\ astray \in BOOLEAN /\ First(i) \in BOOLEAN
      BY <1>1 DEF PageTyped, First
    <2>. QED  BY <1>1, <2>1, Zenon
  <1>4. Continues'
    <2>1. First(i) => UNCHANGED isLoadingMore
      <3>1. isLoadingMore \in BOOLEAN
        BY <1>1 DEF PageTyped
      <3>. QED  BY <1>1, <3>1, Zenon
    <2>. QED  BY <1>1, <2>1, RestContinues
  <1>5. PageTyped'
    BY <1>1, <1>2, <1>3 DEF PageTyped, Shown, Written
  <1>6. LastAsked'
    <2>1. ASSUME ~astray', \A k \in DOMAIN flights' : ~First(k)' PROVE list'.kind = filterKind'
      <3>1. ~First(i) /\ ~astray
        BY <1>1, <2>1
      <3>2. \A j \in DOMAIN flights : ~First(j)
        BY <1>2, <2>1, <3>1
      <3>. QED  BY <1>1, <3>1, <3>2 DEF PageInv, LastAsked
    <2>. QED  BY <1>1, <1>2, <2>1 DEF LastAsked
  <1>7. ListTrue'
    <2>1. astray => astray'
      BY <1>1
    <2>. QED  BY <1>1, <2>1 DEF PageInv, ListTrue, Once, Sorted, Covers, InKind
  <1>. QED  BY <1>2, <1>4, <1>5, <1>6, <1>7 DEF PageInv

\* Requests that have not been answered are put behind those under way.
LEMMA AskKeepsAnswers ==
    ASSUME PageInv, UNCHANGED <<clock, at, list>>,
           NEW more \in Seq(Flying), \A k \in DOMAIN more : ~more[k].answer.ready,
           flights' = flights \o more
    PROVE  /\ flights' \in Seq(Flying) /\ DOMAIN flights' = 1 .. Len(flights) + Len(more)
           /\ Len(flights) \in Nat /\ Len(more) \in Nat
           /\ DOMAIN flights = 1 .. Len(flights) /\ DOMAIN more = 1 .. Len(more)
           /\ \A k \in DOMAIN flights : flights'[k] = flights[k]
           /\ \A k \in DOMAIN more : flights'[Len(flights) + k] = more[k]
           /\ \A k \in DOMAIN flights' : k \notin DOMAIN flights =>
                  k - Len(flights) \in DOMAIN more /\ flights'[k] = more[k - Len(flights)]
           /\ \A k \in DOMAIN flights' : AnswerTrue(k)'
  <1>1. PICK a \in Seq(Flying) : a = flights
    BY DEF PageInv, PageTyped
  <1>2. PICK c : c = a \o more
    OBVIOUS
  <1>3. /\ c \in Seq(Flying) /\ Len(a) \in Nat /\ Len(more) \in Nat
        /\ DOMAIN a = 1 .. Len(a) /\ DOMAIN more = 1 .. Len(more)
        /\ DOMAIN c = 1 .. Len(a) + Len(more)
    BY <1>2
  <1>4. ASSUME NEW k \in 1 .. Len(a) PROVE c[k] = a[k]
    BY <1>2, <1>3
  <1>5. ASSUME NEW k \in 1 .. Len(more) PROVE c[Len(a) + k] = more[k]
    <2>1. Len(a) + k \in 1 .. Len(a) + Len(more) /\ ~(Len(a) + k <= Len(a)) /\ Len(a) + k - Len(a) = k
      BY <1>3
    <2>2. c[Len(a) + k] = more[Len(a) + k - Len(a)]
      BY <1>2, <1>3, <2>1
    <2>. QED  BY <2>1, <2>2
  <1>6. ASSUME NEW k \in DOMAIN c, k \notin DOMAIN a
        PROVE  k - Len(a) \in DOMAIN more /\ c[k] = more[k - Len(a)]
    <2>1. k - Len(a) \in 1 .. Len(more) /\ k = Len(a) + (k - Len(a))
      BY <1>3, <1>6
    <2>. QED  BY <1>3, <1>5, <2>1
  <1>7. flights' = c
    BY <1>1, <1>2
  <1>8. ASSUME NEW k \in DOMAIN flights' PROVE AnswerTrue(k)'
    <2>1. CASE k \in DOMAIN flights
      <3>1. flights'[k] = flights[k] /\ AnswerTrue(k)
        BY <1>1, <1>3, <1>4, <1>7, <2>1 DEF PageInv
      <3>. QED  BY <3>1 DEF AnswerTrue, First, InKind, Once, Sorted, Covers, Written
    <2>2. CASE k \notin DOMAIN flights
      <3>1. ~flights'[k].answer.ready
        BY <1>1, <1>6, <1>7, <2>2
      <3>. QED  BY <3>1 DEF AnswerTrue
    <2>. QED  BY <2>1, <2>2
  <1>. QED  BY <1>1, <1>3, <1>4, <1>5, <1>6, <1>7, <1>8

\* The further page asked for continues what is shown.
LEMMA LoadMoreKeeps ==
    ASSUME PageInv, handleLoadMore
    PROVE  PageInv'
  <1>. DEFINE n == Len(flights) + 1
  <1>1. PICK ask : ask = Ask(filterKind, at[Last(list.shown)])
    OBVIOUS
  <1>2. /\ PageTyped /\ flights \in Seq(Flying) /\ list \in Lists /\ list.shown \in Seq(Entries)
        /\ list.shown # <<>> /\ ~isLoadingMore /\ isLoadingMore' = TRUE
        /\ UNCHANGED <<clock, at, list, filterKind, astray>> /\ flights' = Append(flights, ask)
    <2>1. PageTyped /\ list \in Lists
      BY DEF PageInv, PageTyped
    <2>. QED  BY <1>1, <2>1 DEF PageTyped, Lists, handleLoadMore
  <1>3. at[Last(list.shown)] \in Int
    <2>1. Last(list.shown) \in Entries
      BY <1>2 DEF Last
    <2>. QED  BY <1>2, <2>1 DEF PageTyped
  <1>4. /\ ask \in Flying /\ ask.kind = filterKind /\ ask.cursor = at[Last(list.shown)]
        /\ ~ask.answer.ready /\ ~ask.late
    BY <1>1, <1>2, <1>3 DEF Ask, NoAnswer, Flying, Answers, PageTyped
  <1>14. PICK more : more = <<ask>>
    OBVIOUS
  <1>5. more \in Seq(Flying) /\ DOMAIN more = {1} /\ Len(more) = 1 /\ more[1] = ask
    BY <1>4, <1>14
  <1>6. flights' = flights \o more
    BY <1>2, <1>4, <1>14
  <1>7. /\ flights' \in Seq(Flying) /\ DOMAIN flights' = 1 .. Len(flights) + Len(more)
        /\ Len(flights) \in Nat /\ DOMAIN flights = 1 .. Len(flights)
        /\ \A k \in DOMAIN flights : flights'[k] = flights[k]
        /\ \A k \in DOMAIN more : flights'[Len(flights) + k] = more[k]
        /\ \A k \in DOMAIN flights' : AnswerTrue(k)'
    <2>1. \A k \in DOMAIN more : ~more[k].answer.ready
      BY <1>4, <1>5
    <2>. QED  BY <1>2, <1>5, <1>6, <2>1, AskKeepsAnswers
  <1>8. DOMAIN flights' = DOMAIN flights \cup {n} /\ n \in Nat /\ n \notin DOMAIN flights /\ flights'[n] = ask
    BY <1>5, <1>7
  <1>9. \A k \in DOMAIN flights : First(k) /\ (First(k)' <=> First(k)) /\ k < n
    <2>1. \A k \in DOMAIN flights : First(k)
      BY <1>2 DEF PageInv, Continues
    <2>. QED  BY <1>7, <2>1 DEF First
  <1>10. PageTyped'
    BY <1>2, <1>7, Zenon DEF PageTyped, Shown, Written
  <1>. HIDE DEF n
  <1>11. Continues'
    <2>1. list.loaded
      BY <1>2 DEF PageInv, ListTrue
    <2>. QED  BY <1>2, <1>4, <1>8, <1>9, <2>1 DEF Continues
  <1>12. LastAsked'
    <2>1. ASSUME NEW k \in DOMAIN flights', First(k)', ~flights'[k].late, flights'[k].kind # filterKind'
          PROVE  \E j \in DOMAIN flights' : j > k /\ First(j)'
      <3>1. k \in DOMAIN flights /\ flights'[k] = flights[k] /\ First(k)
        BY <1>2, <1>4, <1>7, <1>8, <1>9, <2>1
      <3>2. PICK j \in DOMAIN flights : j > k /\ First(j)
        BY <1>2, <2>1, <3>1 DEF PageInv, LastAsked
      <3>. QED  BY <1>8, <1>9, <3>2
    <2>2. ASSUME ~astray', \A k \in DOMAIN flights' : ~First(k)' PROVE list'.kind = filterKind'
      <3>1. \A k \in DOMAIN flights : ~First(k)
        BY <1>8, <1>9, <2>2
      <3>. QED  BY <1>2, <2>2, <3>1 DEF PageInv, LastAsked
    <2>. QED  BY <2>1, <2>2 DEF LastAsked
  <1>13. ListTrue'
    BY <1>2 DEF PageInv, ListTrue, Once, Sorted, Covers, InKind
  <1>. QED  BY <1>7, <1>10, <1>11, <1>12, <1>13 DEF PageInv

\* The two requests a choice sends: the later one is for what is chosen.
LEMMA FilterKeeps ==
    ASSUME PageInv, NEW kind \in Offered, handleFilterChange(kind)
    PROVE  PageInv'
  <1>14. PICK n : n = Len(flights)
    OBVIOUS
  <1>1. PICK old : old = Ask(filterKind, never)
    OBVIOUS
  <1>2. PICK new : new = Ask(kind, never)
    OBVIOUS
  <1>3. /\ PageTyped /\ flights \in Seq(Flying) /\ UNCHANGED <<clock, at, list, isLoadingMore, astray>>
        /\ filterKind' = kind /\ flights' = flights \o <<old, new>>
    BY <1>1, <1>2 DEF PageInv, PageTyped, handleFilterChange, AskedFor
  <1>4. /\ old \in Flying /\ old.cursor = never /\ ~old.answer.ready
        /\ new \in Flying /\ new.cursor = never /\ ~new.answer.ready /\ new.kind = kind
    BY <1>1, <1>2, <1>3 DEF Ask, NoAnswer, Flying, Answers, PageTyped, never
  <1>13. PICK more : more = <<old, new>>
    OBVIOUS
  <1>5. more \in Seq(Flying) /\ DOMAIN more = 1 .. 2 /\ Len(more) = 2 /\ more[1] = old /\ more[2] = new
    BY <1>4, <1>13
  <1>6. /\ flights' \in Seq(Flying) /\ DOMAIN flights' = 1 .. n + Len(more)
        /\ n \in Nat /\ DOMAIN flights = 1 .. n
        /\ \A k \in DOMAIN flights : flights'[k] = flights[k]
        /\ \A k \in DOMAIN more : flights'[n + k] = more[k]
        /\ \A k \in DOMAIN flights' : AnswerTrue(k)'
    <2>1. \A k \in DOMAIN more : ~more[k].answer.ready
      <3>1. \A k \in DOMAIN more : more[k] = old \/ more[k] = new
        BY <1>5
      <3>. QED  BY <1>4, <3>1
    <2>2. flights' = flights \o more
      BY <1>3, <1>13
    <2>. QED  BY <1>3, <1>5, <1>14, <2>1, <2>2, AskKeepsAnswers
  <1>7. /\ DOMAIN flights' = 1 .. n + 2 /\ n + 1 \notin DOMAIN flights /\ n + 2 \notin DOMAIN flights
        /\ \A k \in DOMAIN flights' : k \in DOMAIN flights \/ k = n + 1 \/ k = n + 2
        /\ n + 1 \in DOMAIN flights' /\ n + 2 \in DOMAIN flights'
        /\ flights'[n + 1] = old /\ flights'[n + 2] = new
    BY <1>5, <1>6
  <1>8. /\ First(n + 1)' /\ First(n + 2)'
        /\ \A k \in DOMAIN flights : First(k)' <=> First(k)
    BY <1>4, <1>6, <1>7 DEF First
  <1>9. PageTyped'
    BY <1>3, <1>6, Zenon DEF PageTyped, Shown, Written
  <1>10. Continues'
    <2>1. \A k \in DOMAIN flights' : ~First(k)' => k \in DOMAIN flights /\ ~First(k) /\ flights'[k] = flights[k]
      BY <1>6, <1>7, <1>8
    <2>. QED  BY <1>3, <2>1 DEF PageInv, Continues
  <1>11. LastAsked'
    <2>1. ASSUME NEW k \in DOMAIN flights', flights'[k].kind # filterKind'
          PROVE  \E j \in DOMAIN flights' : j > k /\ First(j)'
      <3>1. k # n + 2 /\ k < n + 2
        BY <1>3, <1>4, <1>6, <1>7, <2>1
      <3>. QED  BY <1>7, <1>8, <3>1
    <2>. QED  BY <1>7, <1>8, <2>1 DEF LastAsked
  <1>12. ListTrue'
    BY <1>3 DEF PageInv, ListTrue, Once, Sorted, Covers, InKind
  <1>. QED  BY <1>6, <1>9, <1>10, <1>11, <1>12 DEF PageInv

LEMMA PageKept == PageInv /\ [TargetPageNext]_targetPageVars => PageInv'
  <1>. SUFFICES ASSUME PageInv, [TargetPageNext]_targetPageVars PROVE PageInv'
    OBVIOUS
  <1>1. at \in [Entries -> Int] /\ clock \in Int
    BY DEF PageInv, PageTyped
  <1>2. CASE Pass
    <2>1. /\ UNCHANGED <<list, filterKind, isLoadingMore, flights, astray>>
          /\ at' \in [Entries -> Int] /\ clock' \in Int /\ clock <= clock'
          /\ \A e \in Written : at'[e] = at[e]
      BY <1>1, <1>2 DEF Pass
    <2>. QED  BY <2>1, TablesGrow
  <1>3. ASSUME NEW e \in Entries, WriteEntry(e) PROVE PageInv'
    <2>1. PICK delay \in 0 .. (IF e \in Happenings THEN MaxDelay ELSE 0) : at' = [at EXCEPT ![e] = clock - delay]
      BY <1>3 DEF WriteEntry
    <2>2. clock - delay \in Int
      BY <1>1
    <2>3. at' \in [Entries -> Int] /\ \A d \in Entries \ {e} : at'[d] = at[d]
      BY <1>1, <2>1, <2>2
    <2>4. e \notin Written /\ Written \subseteq Entries
      BY <1>3 DEF WriteEntry, Written
    <2>5. /\ UNCHANGED <<list, filterKind, isLoadingMore, flights, astray>> /\ clock' \in Int /\ clock <= clock'
          /\ \A d \in Written : at'[d] = at[d]
      BY <1>1, <1>3, <2>3, <2>4 DEF WriteEntry
    <2>. QED  BY <2>3, <2>5, TablesGrow
  <1>4. ASSUME NEW i \in DOMAIN flights, Flight(i) PROVE PageInv'
    BY <1>4, FetchKeeps, FirstKeeps, MoreKeeps, FailKeeps DEF Flight
  <1>5. CASE handleLoadMore
    BY <1>5, LoadMoreKeeps
  <1>6. ASSUME NEW kind \in Offered, handleFilterChange(kind) PROVE PageInv'
    BY <1>6, FilterKeeps
  <1>7. CASE UNCHANGED targetPageVars
    <2>1. /\ UNCHANGED <<list, filterKind, isLoadingMore, flights, astray>>
          /\ at' \in [Entries -> Int] /\ clock' \in Int /\ clock <= clock'
          /\ \A e \in Written : at'[e] = at[e]
      BY <1>1, <1>7 DEF targetPageVars
    <2>. QED  BY <2>1, TablesGrow
  <1>. QED  BY <1>2, <1>3, <1>4, <1>5, <1>6, <1>7 DEF TargetPageNext

-----------------------------------------------------------------------------
(* A target's page: the theorems *)

\* Whatever order the answers come in and however the tables grow between them, a
\* reader who goes on to further pages of a target's history passes over nothing
\* that was there when he opened it (target-page.tsx:80-117, history.ts:170-245),
\* for pages of any size and any number of requests under way.
THEOREM ListPassesOverNothing == TargetPageSpec => []NothingSkipped
  <1>1. ASSUME PageInv PROVE NothingSkipped
    <2>1. ASSUME ~astray, list.loaded,
                 NEW e \in list.known, InKind(e, list.kind), at[e] >= clock - Horizon,
                 list.hasMore => at[e] > at[Last(list.shown)]
          PROVE  \E s \in Shown : at[s] = at[e] /\ (s = e \/ e \notin Shown)
      <3>1. PICK k \in DOMAIN list.shown : at[list.shown[k]] = at[e]
        BY <1>1, <2>1 DEF PageInv, ListTrue, Covers
      <3>2. list.shown[k] \in Shown
        BY DEF Shown, ToSet
      <3>. QED  BY <3>1, <3>2
    <2>2. ASSUME ~astray, list.loaded PROVE Once(list.shown)
      BY <1>1, <2>2 DEF PageInv, ListTrue
    <2>. QED  BY <2>1, <2>2 DEF NothingSkipped, Once, InKind
  <1>. QED  BY <1>1, PageInit, PageKept, PTL DEF TargetPageSpec

\* Once every answer is there and none was late or lost, the list shows the kind
\* that is chosen, though each choice sends two requests whose answers come in any
\* order (target-page.tsx:118-140), for any number of choices.
THEOREM ListIsAsChosen == TargetPageSpec => []ShownAsFiltered
  <1>1. ASSUME PageInv PROVE ShownAsFiltered
    <2>1. ASSUME flights = <<>>, ~astray, NEW e \in Shown PROVE InKind(e, filterKind)
      <3>1. list.kind = filterKind
        BY <1>1, <2>1 DEF PageInv, LastAsked
      <3>2. PICK k \in DOMAIN list.shown : list.shown[k] = e
        BY DEF Shown, ToSet
      <3>. QED  BY <1>1, <2>1, <3>1, <3>2 DEF PageInv, ListTrue
    <2>. QED  BY <2>1 DEF ShownAsFiltered, InKind
  <1>. QED  BY <1>1, PageInit, PageKept, PTL DEF TargetPageSpec

-----------------------------------------------------------------------------
(* Readings: the inductive invariant *)

Everyone == Chatters \cup Visitors \cup Members
Row == [by : Everyone, owner : Chatters \cup {none}, site : Sites, result : Sites \cup {none},
        error : BOOLEAN, used : BOOLEAN, day : Int]
Handling == [step : {"idle", "start", "copy", "own", "queue", "list"},
             who : Chatters \cup {none}, site : Sites \cup {none}, row : Nat]

ReadingsTyped ==
    /\ date \in Int /\ rows \in Seq(Row) /\ queue \subseteq DOMAIN rows
    /\ worker \in [row : Nat, step : {"free", "refused", "reading", "tell"}]
    /\ handler \in [Updates -> Handling]
    /\ DOMAIN view = Visitors \cup Members /\ DOMAIN checks = Members
    /\ spent \subseteq DOMAIN rows
    /\ \A s \in said : s.row \in DOMAIN rows

\* A row holds nothing or the reading of its own site; who waits waits for
\* something; and who can be told is told when it has left every hand.
RowTrue(r) ==
    /\ rows[r].result \in {none, rows[r].site} /\ rows[r].owner \in {none, rows[r].by} /\ rows[r].day <= date
    /\ Waiting(r) => InHand(r) \/ r \in lost
    /\ rows[r].owner # none /\ Valid(r) /\ ~InHand(r) /\ r \notin lost => \E s \in said : s.row = r /\ s.to = rows[r].by

SaidTrue == \A s \in said : s.to = rows[s.row].owner /\ (s.what = "listing" => s.site = rows[s.row].site)

\* The row a handler is in the middle of is nobody else's yet.
HandlerTrue(h) ==
    /\ handler[h].step \in {"idle", "start"} => handler[h].row = 0
    /\ handler[h].step # "idle" => handler[h].who \in Chatters /\ handler[h].site \in Sites
    /\ handler[h].step \notin {"idle", "start"} =>
           /\ handler[h].row \in DOMAIN rows /\ handler[h].row \notin queue /\ worker.row # handler[h].row
           /\ rows[handler[h].row].by = handler[h].who /\ rows[handler[h].row].site = handler[h].site
           /\ \A s \in said : s.row # handler[h].row
           /\ \A g \in Updates : handler[g].row = handler[h].row => g = h
    /\ handler[h].step = "list" => rows[handler[h].row].result # none

\* The job looks at the plan's limit before it starts.
WorkerTrue ==
    /\ worker.step = "free" => worker.row = 0
    /\ worker.step # "free" => worker.row \in DOMAIN rows
    /\ worker.step = "tell" => ~Waiting(worker.row)
    /\ Cardinality(spent) <= MonthLimit
    /\ worker.step = "reading" /\ ByMember(worker.row) => Cardinality(spent) < MonthLimit

\* Of one person, unless two messages were handled at once: while one is on its
\* way to a row, no row of the person is running.
ChatterTrue(p) ==
    /\ \A g, h \in Updates : handler[g].who = p /\ handler[h].who = p => g = h
    /\ \A h \in Updates : handler[h].who = p /\ handler[h].step \in {"start", "copy", "own"} =>
           findRunningTelegramSignup(p) = {}
    /\ \A q, r \in findRunningTelegramSignup(p) : q = r

\* Of one member, unless two questions were under way at once: the page and the
\* question are about the last row.
MemberTrue(m) ==
    /\ view[m].kind \in {"reading", "review", "saved"} =>
           view[m].row \in DOMAIN rows /\ \A r \in DOMAIN rows : rows[r].by = m => r <= view[m].row
    /\ checks[m] # {} => view[m].kind = "reading" /\ \E n : checks[m] = {<<view[m].row, n>>}

ReadingsInv ==
    /\ ReadingsTyped /\ SaidTrue /\ WorkerTrue
    /\ \A r \in DOMAIN rows : RowTrue(r)
    /\ \A h \in Updates : HandlerTrue(h)
    /\ \A p \in Chatters \ crowded : ChatterTrue(p)
    /\ \A m \in Members \ crowded : MemberTrue(m)

-----------------------------------------------------------------------------
(* Readings: what changes where *)

LEMMA RowsAre ==
    ASSUME ReadingsInv
    PROVE  /\ Len(rows) \in Nat /\ DOMAIN rows = 1 .. Len(rows)
           /\ \A r \in DOMAIN rows : rows[r] \in Row /\ r \in Nat /\ r # 0 /\ rows[r].day \in Int
           /\ \A h \in Updates : handler[h] \in Handling /\ handler[h].row \in Nat
           /\ worker.row \in Nat /\ date \in Int
           /\ IsFiniteSet(spent) /\ Cardinality(spent) \in Nat
           /\ MonthLimit \in Nat
  <1>1. Len(rows) \in Nat /\ DOMAIN rows = 1 .. Len(rows) /\ \A r \in DOMAIN rows : rows[r] \in Row
    BY DEF ReadingsInv, ReadingsTyped
  <1>2. \A r \in DOMAIN rows : r \in Nat /\ r # 0 /\ rows[r].day \in Int
    BY <1>1 DEF Row
  <1>3. \A h \in Updates : handler[h] \in Handling /\ handler[h].row \in Nat
    BY DEF ReadingsInv, ReadingsTyped, Handling
  <1>4. spent \subseteq 1 .. Len(rows) /\ worker.row \in Nat /\ date \in Int
    BY <1>1 DEF ReadingsInv, ReadingsTyped
  <1>5. IsFiniteSet(1 .. Len(rows))
    <2>1. 1 \in Int /\ Len(rows) \in Int
      BY <1>1
    <2>. QED  BY <2>1, FS_Interval
  <1>6. IsFiniteSet(spent)
    BY <1>4, <1>5, FS_Subset
  <1>7. Cardinality(spent) \in Nat
    BY <1>6, FS_CardinalityType
  <1>. QED  BY <1>1, <1>2, <1>3, <1>4, <1>6, <1>7, ReadingsAssumption

LEMMA RowPut ==
    ASSUME rows \in Seq(Row), NEW r \in DOMAIN rows, NEW row \in Row, rows' = [rows EXCEPT ![r] = row]
    PROVE  /\ rows' \in Seq(Row) /\ DOMAIN rows' = DOMAIN rows /\ rows'[r] = row
           /\ \A q \in DOMAIN rows \ {r} : rows'[q] = rows[q]
  OBVIOUS

LEMMA RowAdded ==
    ASSUME rows \in Seq(Row), NEW row \in Row, rows' = Append(rows, row)
    PROVE  /\ rows' \in Seq(Row) /\ DOMAIN rows' = DOMAIN rows \cup {Len(rows) + 1}
           /\ Len(rows) + 1 \in Nat \ {0} /\ Len(rows) + 1 \notin DOMAIN rows
           /\ \A q \in DOMAIN rows : q \in Nat /\ q < Len(rows) + 1
           /\ rows'[Len(rows) + 1] = row
           /\ \A q \in DOMAIN rows : rows'[q] = rows[q]
  <1>1. Len(rows) \in Nat /\ DOMAIN rows = 1 .. Len(rows)
    OBVIOUS
  <1>2. rows' \in Seq(Row) /\ Len(rows') = Len(rows) + 1
    OBVIOUS
  <1>3. DOMAIN rows' = 1 .. Len(rows) + 1
    BY <1>2
  <1>4. rows'[Len(rows) + 1] = row
    BY <1>1
  <1>5. \A q \in DOMAIN rows : rows'[q] = rows[q]
    BY <1>1
  <1>. QED  BY <1>1, <1>2, <1>3, <1>4, <1>5

\* A member's page and his last row stay as they are while others' rows come.
LEMMA MemberStays ==
    ASSUME NEW m \in Members, MemberTrue(m), view'[m] = view[m], checks'[m] = checks[m],
           DOMAIN rows \subseteq DOMAIN rows',
           \A r \in DOMAIN rows' : rows'[r].by = m => r \in DOMAIN rows /\ rows[r].by = m
    PROVE  MemberTrue(m)'
  BY DEF MemberTrue

\* No row of a person begins to run, and no handler begins with the person.
LEMMA ChatterStays ==
    ASSUME NEW p \in Chatters, ChatterTrue(p),
           \A h \in Updates : handler'[h].who = p =>
               /\ handler[h].who = p
               /\ handler'[h].step \in {"start", "copy", "own"} => handler[h].step \in {"start", "copy", "own"},
           \A r \in DOMAIN rows' : rows'[r].owner = p /\ Valid(r)' /\ Waiting(r)' =>
               r \in DOMAIN rows /\ rows[r].owner = p /\ Valid(r) /\ Waiting(r)
    PROVE  ChatterTrue(p)'
  <1>1. findRunningTelegramSignup(p)' \subseteq findRunningTelegramSignup(p)
    BY DEF findRunningTelegramSignup
  <1>. QED  BY <1>1 DEF ChatterTrue

\* A handler's row stays its own.
LEMMA HandlerStays ==
    ASSUME NEW h \in Updates, HandlerTrue(h), handler'[h] = handler[h],
           handler[h].row \in DOMAIN rows =>
               /\ handler[h].row \in DOMAIN rows'
               /\ rows'[handler[h].row].by = rows[handler[h].row].by
               /\ rows'[handler[h].row].site = rows[handler[h].row].site
               /\ rows[handler[h].row].result # none => rows'[handler[h].row].result # none
               /\ handler[h].row \notin queue => handler[h].row \notin queue'
               /\ worker.row # handler[h].row => worker'.row # handler[h].row
               /\ \A s \in said' \ said : s.row # handler[h].row
               /\ \A g \in Updates : handler'[g].row = handler[h].row => handler[g].row = handler[h].row
    PROVE  HandlerTrue(h)'
  BY DEF HandlerTrue

\* A row that is as it was, or has come to its end, is still what it should be.
LEMMA RowStays ==
    ASSUME NEW r \in DOMAIN rows, RowTrue(r), rows'[r].result \in {none, rows'[r].site},
           rows'[r].owner \in {none, rows'[r].by}, rows'[r].day = rows[r].day, rows'[r].by = rows[r].by,
           rows[r].day \in Int, date \in Int, date' \in Int, date <= date',
           Waiting(r)' => Waiting(r), rows[r].used => rows'[r].used,
           rows'[r].owner # none => rows[r].owner # none \/ InHand(r)',
           said \subseteq said', lost \subseteq lost',
           InHand(r) =>
               \/ InHand(r)' \/ r \in lost'
               \/ /\ ~Waiting(r)'
                  /\ rows'[r].owner # none /\ Valid(r)' => \E s \in said' : s.row = r /\ s.to = rows'[r].by
    PROVE  RowTrue(r)'
  <1>1. Valid(r)' => Valid(r)
    BY DEF Valid, RowTrue
  <1>2. rows'[r].day <= date'
    BY DEF RowTrue
  <1>3. Waiting(r)' => InHand(r)' \/ r \in lost'
    BY DEF RowTrue
  <1>4. ASSUME rows'[r].owner # none, Valid(r)', ~InHand(r)', r \notin lost'
        PROVE  \E s \in said' : s.row = r /\ s.to = rows'[r].by
    <2>1. CASE InHand(r)
      BY <1>4, <2>1
    <2>2. CASE ~InHand(r)
      BY <1>1, <1>4, <2>2 DEF RowTrue
    <2>. QED  BY <2>1, <2>2
  <1>. QED  BY <1>2, <1>3, <1>4 DEF RowTrue

-----------------------------------------------------------------------------
(* Readings: every step keeps the invariant *)

\* A row's day is over with the day.
LEMMA NightKeeps == ASSUME ReadingsInv, NightFalls PROVE ReadingsInv'
  <1>1. /\ \A r \in DOMAIN rows : rows[r] \in Row /\ rows[r].day \in Int
        /\ date \in Int /\ Cardinality(spent) \in Nat /\ MonthLimit \in Nat
    BY RowsAre
  <1>2. /\ date' = date + 1 /\ spent' = {}
        /\ UNCHANGED <<rows, queue, worker, handler, view, checks, said, lost, crowded>>
    BY DEF NightFalls
  <1>3. ReadingsTyped'
    BY <1>1, <1>2 DEF ReadingsInv, ReadingsTyped
  <1>4. SaidTrue'
    BY <1>2 DEF ReadingsInv, SaidTrue
  <1>5. WorkerTrue'
    <2>1. Cardinality(spent') = 0
      BY <1>2, FS_EmptySet
    <2>. QED  BY <1>1, <1>2, <2>1 DEF ReadingsInv, WorkerTrue, Waiting, ByMember
  <1>6. ASSUME NEW r \in DOMAIN rows PROVE RowTrue(r)' /\ ~Valid(r)'
    <2>1. RowTrue(r) /\ rows[r].day \in Int /\ rows[r].day <= date
      BY <1>1 DEF ReadingsInv, RowTrue
    <2>2. (InHand(r)' <=> InHand(r)) /\ (Waiting(r)' <=> Waiting(r))
      BY <1>2 DEF InHand, Waiting
    <2>3. ~Valid(r)'
      BY <1>1, <1>2, <2>1 DEF Valid
    <2>4. date' \in Int /\ date <= date'
      BY <1>1, <1>2
    <2>. QED  BY <1>1, <1>2, <2>1, <2>2, <2>3, <2>4, RowStays DEF RowTrue
  <1>7. ASSUME NEW h \in Updates PROVE HandlerTrue(h)'
    BY <1>2, HandlerStays DEF ReadingsInv
  <1>8. ASSUME NEW p \in Chatters \ crowded PROVE ChatterTrue(p)'
    BY <1>2, <1>6, ChatterStays DEF ReadingsInv
  <1>9. ASSUME NEW m \in Members \ crowded PROVE MemberTrue(m)'
    BY <1>2, MemberStays DEF ReadingsInv
  <1>. QED  BY <1>2, <1>3, <1>4, <1>5, <1>6, <1>7, <1>8, <1>9 DEF ReadingsInv

LEMMA ConfirmKeeps == ASSUME ReadingsInv, NEW r \in DOMAIN rows, Confirm(r) PROVE ReadingsInv'
  <1>1. /\ rows \in Seq(Row) /\ \A q \in DOMAIN rows : rows[q] \in Row /\ rows[q].day \in Int
        /\ date \in Int
    BY RowsAre DEF ReadingsInv, ReadingsTyped
  <1>2. /\ rows' = [rows EXCEPT ![r].used = TRUE]
        /\ UNCHANGED <<date, queue, worker, handler, view, checks, spent, said, lost, crowded>>
    BY DEF Confirm
  <1>3. PICK row \in Row : row = [rows[r] EXCEPT !.used = TRUE]
    BY <1>1 DEF Row
  <1>4. /\ rows' \in Seq(Row) /\ DOMAIN rows' = DOMAIN rows /\ rows'[r] = row
        /\ \A q \in DOMAIN rows \ {r} : rows'[q] = rows[q]
    <2>1. rows' = [rows EXCEPT ![r] = row]
      BY <1>1, <1>2, <1>3
    <2>. QED  BY <1>1, <2>1, RowPut
  <1>5. \A q \in DOMAIN rows : /\ rows'[q].by = rows[q].by /\ rows'[q].owner = rows[q].owner
                               /\ rows'[q].site = rows[q].site /\ rows'[q].result = rows[q].result
                               /\ rows'[q].error = rows[q].error /\ rows'[q].day = rows[q].day
                               /\ (rows[q].used => rows'[q].used)
    BY <1>1, <1>3, <1>4 DEF Row
  <1>6. ReadingsTyped'
    BY <1>2, <1>4 DEF ReadingsInv, ReadingsTyped
  <1>7. SaidTrue'
    BY <1>2, <1>5 DEF ReadingsInv, SaidTrue, ReadingsTyped
  <1>8. WorkerTrue'
    BY <1>2, <1>4, <1>5 DEF ReadingsInv, WorkerTrue, Waiting, ByMember
  <1>9. ASSUME NEW q \in DOMAIN rows PROVE RowTrue(q)' /\ (Valid(q)' => Valid(q)) /\ (Waiting(q)' <=> Waiting(q))
    <2>1. RowTrue(q) /\ rows[q].result \in {none, rows[q].site} /\ rows[q].owner \in {none, rows[q].by}
      BY DEF ReadingsInv, RowTrue
    <2>2. (InHand(q)' <=> InHand(q)) /\ (Waiting(q)' <=> Waiting(q))
      BY <1>2, <1>5 DEF InHand, Waiting
    <2>3. Valid(q)' => Valid(q)
      BY <1>2, <1>5 DEF Valid
    <2>. QED  BY <1>1, <1>2, <1>5, <2>1, <2>2, <2>3, RowStays
  <1>10. ASSUME NEW h \in Updates PROVE HandlerTrue(h)'
    BY <1>2, <1>4, <1>5, HandlerStays DEF ReadingsInv
  <1>11. ASSUME NEW p \in Chatters \ crowded PROVE ChatterTrue(p)'
    BY <1>2, <1>4, <1>5, <1>9, ChatterStays DEF ReadingsInv
  <1>12. ASSUME NEW m \in Members \ crowded PROVE MemberTrue(m)'
    BY <1>2, <1>4, <1>5, MemberStays DEF ReadingsInv
  <1>. QED  BY <1>2, <1>4, <1>6, <1>7, <1>8, <1>9, <1>10, <1>11, <1>12 DEF ReadingsInv

\* A message begins a handler only if none of the person's rows is running.
LEMMA SignupKeeps ==
    ASSUME ReadingsInv, NEW h \in Updates, NEW p \in Chatters, NEW site \in Sites, handleSignupInput(h, p, site)
    PROVE  ReadingsInv'
  <1>1. \A g \in Updates : handler[g] \in Handling
    BY RowsAre
  <1>2. /\ handler[h] = AtRest /\ findRunningTelegramSignup(p) = {}
        /\ handler' = [handler EXCEPT ![h] = [AtRest EXCEPT !.step = "start", !.who = p, !.site = site]]
        /\ crowded' = IF \E g \in Updates : handler[g].who = p THEN crowded \cup {p} ELSE crowded
        /\ UNCHANGED <<date, rows, queue, worker, view, checks, spent, said, lost>>
    BY DEF handleSignupInput
  <1>14. PICK new : new = [AtRest EXCEPT !.step = "start", !.who = p, !.site = site]
    OBVIOUS
  <1>3. new \in Handling /\ new.step = "start" /\ new.who = p /\ new.site = site /\ new.row = 0
    <2>1. new = [step |-> "start", who |-> p, site |-> site, row |-> 0]
      BY <1>14 DEF AtRest
    <2>. QED  BY <2>1 DEF Handling
  <1>4. handler \in [Updates -> Handling]
    BY DEF ReadingsInv, ReadingsTyped
  <1>5. /\ handler' \in [Updates -> Handling] /\ handler'[h] = new /\ \A g \in Updates \ {h} : handler'[g] = handler[g]
    BY <1>2, <1>3, <1>4, <1>14
  <1>6. handler[h].row = 0 /\ handler[h].step = "idle" /\ handler[h].who = none
    BY <1>2 DEF AtRest
  <1>7. \A g \in Updates : handler'[g].row = handler[g].row
    BY <1>3, <1>5, <1>6
  <1>8. ReadingsTyped'
    BY <1>2, <1>5 DEF ReadingsInv, ReadingsTyped
  <1>9. SaidTrue' /\ WorkerTrue'
    BY <1>2 DEF ReadingsInv, SaidTrue, WorkerTrue, Waiting, ByMember
  <1>10. ASSUME NEW r \in DOMAIN rows PROVE RowTrue(r)'
    <2>1. InHand(r)' <=> InHand(r)
      BY <1>2, <1>7 DEF InHand
    <2>. QED  BY <1>2, <2>1 DEF ReadingsInv, RowTrue, Waiting, Valid
  <1>11. ASSUME NEW g \in Updates PROVE HandlerTrue(g)'
    <2>1. CASE g = h
      BY <1>3, <1>5, <2>1 DEF HandlerTrue
    <2>2. CASE g # h
      BY <1>2, <1>5, <1>7, <2>2, HandlerStays DEF ReadingsInv
    <2>. QED  BY <2>1, <2>2
  <1>12. ASSUME NEW q \in Chatters \ crowded' PROVE ChatterTrue(q)'
    <2>1. ChatterTrue(q) /\ q \in Chatters
      BY <1>2 DEF ReadingsInv
    <2>2. findRunningTelegramSignup(q)' = findRunningTelegramSignup(q)
      BY <1>2 DEF findRunningTelegramSignup, Valid, Waiting
    <2>3. CASE q = p
      <3>1. \A g \in Updates : handler[g].who # p
        BY <1>2, <2>3
      <3>. QED  BY <1>2, <1>3, <1>5, <2>1, <2>2, <2>3, <3>1 DEF ChatterTrue
    <2>4. CASE q # p
      <3>1. \A g \in Updates : handler'[g].who = q => g # h
        BY <1>3, <1>5, <2>4
      <3>. QED  BY <1>5, <2>1, <2>2, <3>1 DEF ChatterTrue
    <2>. QED  BY <2>3, <2>4
  <1>13. ASSUME NEW m \in Members \ crowded' PROVE MemberTrue(m)'
    BY <1>2, MemberStays DEF ReadingsInv
  <1>. QED  BY <1>2, <1>8, <1>9, <1>10, <1>11, <1>12, <1>13 DEF ReadingsInv

\* A handler comes to its end with a row that needs it no longer.
LEMMA RestKeeps ==
    ASSUME ReadingsInv, NEW h \in Updates, handler' = [handler EXCEPT ![h] = AtRest],
           UNCHANGED <<date, rows, worker, view, checks, spent, crowded>>,
           queue \subseteq queue', queue' \subseteq queue \cup ({handler[h].row} \cap DOMAIN rows),
           said \subseteq said', \A s \in said' \ said :
               /\ s.row = handler[h].row /\ s.row \in DOMAIN rows /\ s.to = rows[s.row].owner
               /\ s.what = "listing" => s.site = rows[s.row].site,
           lost \subseteq lost',
           handler[h].row \in DOMAIN rows =>
               \/ handler[h].row \in queue' \/ handler[h].row \in lost'
               \/ /\ rows[handler[h].row].result # none
                  /\ \E s \in said' : s.row = handler[h].row /\ s.to = rows[handler[h].row].owner
    PROVE  ReadingsInv'
  <1>1. /\ rows \in Seq(Row) /\ handler \in [Updates -> Handling] /\ date \in Int
        /\ \A r \in DOMAIN rows : rows[r] \in Row /\ r \in Nat /\ r # 0 /\ rows[r].day \in Int
    BY RowsAre DEF ReadingsInv, ReadingsTyped
  <1>2. AtRest \in Handling /\ AtRest.row = 0 /\ AtRest.step = "idle" /\ AtRest.who = none
    BY DEF AtRest, Handling
  <1>3. handler' \in [Updates -> Handling] /\ handler'[h] = AtRest /\ \A g \in Updates \ {h} : handler'[g] = handler[g]
    BY <1>1, <1>2
  <1>4. ReadingsTyped'
    BY <1>3 DEF ReadingsInv, ReadingsTyped
  <1>5. SaidTrue'
    BY DEF ReadingsInv, SaidTrue
  <1>6. WorkerTrue'
    BY DEF ReadingsInv, WorkerTrue, Waiting, ByMember
  <1>7. ASSUME NEW r \in DOMAIN rows PROVE RowTrue(r)'
    <2>1. RowTrue(r) /\ rows[r].result \in {none, rows[r].site} /\ rows[r].owner \in {none, rows[r].by}
      BY DEF ReadingsInv, RowTrue
    <2>2. (Waiting(r)' <=> Waiting(r)) /\ (rows[r].result # none => ~Waiting(r))
      BY DEF Waiting
    <2>3. ASSUME InHand(r)
          PROVE  \/ InHand(r)' \/ r \in lost'
                 \/ /\ ~Waiting(r)'
                    /\ rows'[r].owner # none /\ Valid(r)' => \E s \in said' : s.row = r /\ s.to = rows'[r].by
      <3>1. CASE r = handler[h].row
        <4>1. r \in queue' => InHand(r)'
          BY DEF InHand
        <4>. QED  BY <2>1, <2>2, <3>1, <4>1
      <3>2. CASE r # handler[h].row
        <4>1. \A g \in Updates : handler[g].row = r => handler'[g].row = r
          BY <1>3, <3>2
        <4>. QED  BY <2>3, <4>1 DEF InHand
      <3>. QED  BY <3>1, <3>2
    <2>. QED  BY <1>1, <2>1, <2>2, <2>3, RowStays
  <1>8. ASSUME NEW g \in Updates PROVE HandlerTrue(g)'
    <2>1. CASE g = h
      BY <1>2, <1>3, <2>1 DEF HandlerTrue
    <2>2. CASE g # h
      <3>1. HandlerTrue(g) /\ HandlerTrue(h) /\ handler'[g] = handler[g]
        BY <1>3, <2>2 DEF ReadingsInv
      <3>2. handler[g].row \in DOMAIN rows => handler[g].row # handler[h].row
        BY <1>1, <2>2, <3>1 DEF HandlerTrue
      <3>3. handler[g].row \in DOMAIN rows =>
                \A f \in Updates : handler'[f].row = handler[g].row => handler[f].row = handler[g].row
        BY <1>1, <1>2, <1>3
      <3>. QED  BY <3>1, <3>2, <3>3, HandlerStays
    <2>. QED  BY <2>1, <2>2
  <1>9. ASSUME NEW p \in Chatters \ crowded PROVE ChatterTrue(p)'
    <2>1. \A g \in Updates : handler'[g].who = p =>
              /\ handler[g].who = p
              /\ handler'[g].step \in {"start", "copy", "own"} => handler[g].step \in {"start", "copy", "own"}
      BY <1>2, <1>3, ReadingsAssumption
    <2>2. \A r \in DOMAIN rows : (Valid(r)' => Valid(r)) /\ (Waiting(r)' => Waiting(r))
      BY DEF Valid, Waiting
    <2>. QED  BY <2>1, <2>2, ChatterStays DEF ReadingsInv
  <1>10. ASSUME NEW m \in Members \ crowded PROVE MemberTrue(m)'
    BY MemberStays DEF ReadingsInv
  <1>. QED  BY <1>4, <1>5, <1>6, <1>7, <1>8, <1>9, <1>10 DEF ReadingsInv

LEMMA EndsKeep ==
    ASSUME ReadingsInv, NEW h \in Updates, EnqueueReading(h) \/ ListCopy(h) \/ HandlerFails(h)
    PROVE  ReadingsInv'
  <1>1. HandlerTrue(h) /\ \A r \in DOMAIN rows : r # 0
    BY RowsAre DEF ReadingsInv
  <1>2. CASE EnqueueReading(h)
    <2>1. handler[h].row \in DOMAIN rows
      BY <1>1, <1>2 DEF HandlerTrue, EnqueueReading
    <2>. QED  BY <1>2, <2>1, RestKeeps DEF EnqueueReading
  <1>3. CASE ListCopy(h)
    <2>1. handler[h].row \in DOMAIN rows /\ rows[handler[h].row].result # none
      BY <1>1, <1>3 DEF HandlerTrue, ListCopy
    <2>2. rows[handler[h].row].result = rows[handler[h].row].site
      BY <2>1 DEF ReadingsInv, RowTrue
    <2>3. PICK words : words = Says(rows[handler[h].row].owner, handler[h].row, "listing")
      OBVIOUS
    <2>4. words.row = handler[h].row /\ words.to = rows[handler[h].row].owner /\ words.site = rows[handler[h].row].site
      BY <2>2, <2>3 DEF Says
    <2>5. said' = said \cup {words} /\ handler' = [handler EXCEPT ![h] = AtRest]
          /\ UNCHANGED <<date, rows, queue, worker, view, checks, spent, lost, crowded>>
      BY <1>3, <2>3 DEF ListCopy
    <2>. QED  BY <2>1, <2>4, <2>5, RestKeeps
  <1>4. CASE HandlerFails(h)
    <2>1. handler[h].row \in DOMAIN rows => handler[h].row \in lost'
      BY <1>1, <1>4 DEF HandlerFails
    <2>. QED  BY <1>4, <2>1, RestKeeps DEF HandlerFails
  <1>. QED  BY <1>2, <1>3, <1>4

\* A row is made for the handler's person, or the bot says that there are enough.
LEMMA StartKeeps == ASSUME ReadingsInv, NEW h \in Updates, startAnonDiscovery(h) PROVE ReadingsInv'
  <1>1. /\ rows \in Seq(Row) /\ handler \in [Updates -> Handling] /\ date \in Int
        /\ \A r \in DOMAIN rows : rows[r] \in Row /\ r \in Nat /\ r # 0 /\ rows[r].day \in Int
        /\ \A g \in Updates : handler[g] \in Handling
        /\ handler[h].step = "start" /\ handler[h].who \in Chatters /\ handler[h].site \in Sites /\ handler[h].row = 0
        /\ UNCHANGED <<date, queue, worker, view, checks, spent, said, lost, crowded>>
    BY RowsAre DEF ReadingsInv, ReadingsTyped, HandlerTrue, startAnonDiscovery
  <1>2. CASE assertAnonDiscoveryAllowed(handler[h].who)
    <2>. DEFINE n == Len(rows) + 1
    <2>1. PICK made : made = [by |-> handler[h].who, owner |-> none, site |-> handler[h].site, result |-> none,
                              error |-> FALSE, used |-> FALSE, day |-> date]
      OBVIOUS
    <2>2. /\ made \in Row /\ made.by = handler[h].who /\ made.owner = none /\ made.site = handler[h].site
          /\ made.result = none /\ made.day = date
      BY <1>1, <2>1 DEF Row, Everyone
    <2>3. PICK step \in {"copy", "own"} : step = IF findCachedDiscovery(handler[h].site) # {} THEN "copy" ELSE "own"
      OBVIOUS
    <2>4. rows' = Append(rows, made) /\ handler' = [handler EXCEPT ![h].step = step, ![h].row = n]
      BY <1>2, <2>1, <2>3 DEF startAnonDiscovery, createPendingOnboarding, Goes
    <2>5. /\ rows' \in Seq(Row) /\ DOMAIN rows' = DOMAIN rows \cup {n}
          /\ n \in Nat \ {0} /\ n \notin DOMAIN rows
          /\ rows'[n] = made
          /\ \A q \in DOMAIN rows : rows'[q] = rows[q]
      BY <1>1, <2>2, <2>4, RowAdded
    <2>. HIDE DEF n
    <2>16. PICK next : next = [handler[h] EXCEPT !.step = step, !.row = n]
      OBVIOUS
    <2>6. next \in Handling /\ next.step = step /\ next.row = n /\ next.who = handler[h].who /\ next.site = handler[h].site
      BY <1>1, <2>5, <2>16 DEF Handling
    <2>7. handler' \in [Updates -> Handling] /\ handler'[h] = next /\ \A g \in Updates \ {h} : handler'[g] = handler[g]
      BY <1>1, <2>4, <2>6, <2>16
    <2>8. n \notin queue /\ worker.row # n /\ (\A s \in said : s.row # n) /\ \A g \in Updates : handler[g].row # n
      BY <2>5 DEF ReadingsInv, ReadingsTyped, WorkerTrue, HandlerTrue
    <2>9. ReadingsTyped'
      BY <1>1, <2>5, <2>7 DEF ReadingsInv, ReadingsTyped
    <2>10. SaidTrue'
      BY <1>1, <2>5 DEF ReadingsInv, SaidTrue, ReadingsTyped
    <2>11. WorkerTrue'
      BY <1>1, <2>5 DEF ReadingsInv, WorkerTrue, Waiting, ByMember
    <2>12. ASSUME NEW r \in DOMAIN rows'
           PROVE  RowTrue(r)' /\ (rows'[r].owner # none => r \in DOMAIN rows /\ (Valid(r)' => Valid(r)) /\ (Waiting(r)' => Waiting(r)))
      <3>1. CASE r = n
        <4>1. InHand(r)'
          BY <2>6, <2>7, <3>1 DEF InHand
        <4>. QED  BY <1>1, <2>2, <2>5, <3>1, <4>1 DEF RowTrue
      <3>2. CASE r \in DOMAIN rows
        <4>1. RowTrue(r) /\ rows'[r] = rows[r]
          BY <2>5, <3>2 DEF ReadingsInv
        <4>2. InHand(r) => InHand(r)'
          <5>1. \A g \in Updates : handler[g].row = r => handler'[g].row = r
            BY <1>1, <2>7, <3>2
          <5>. QED  BY <1>1, <5>1 DEF InHand
        <4>3. (Waiting(r)' <=> Waiting(r)) /\ (Valid(r)' => Valid(r))
          BY <1>1, <4>1 DEF Waiting, Valid
        <4>4. RowTrue(r)'
          BY <1>1, <3>2, <4>1, <4>2, <4>3, RowStays DEF RowTrue
        <4>. QED  BY <3>2, <4>3, <4>4
      <3>. QED  BY <2>5, <3>1, <3>2
    <2>13. ASSUME NEW g \in Updates PROVE HandlerTrue(g)'
      <3>1. CASE g = h
        <4>1. \A f \in Updates : handler'[f].row = n => f = h
          BY <2>7, <2>8
        <4>2. /\ handler'[g].row = n /\ handler'[g].step \in {"copy", "own"}
              /\ handler'[g].who = handler[h].who /\ handler'[g].site = handler[h].site
          BY <2>6, <2>7, <3>1
        <4>3. /\ n \in DOMAIN rows' /\ n \notin queue' /\ worker'.row # n
              /\ rows'[n].by = handler[h].who /\ rows'[n].site = handler[h].site
              /\ \A s \in said' : s.row # n
          BY <1>1, <2>2, <2>5, <2>8
        <4>. QED  BY <1>1, <3>1, <4>1, <4>2, <4>3 DEF HandlerTrue
      <3>2. CASE g # h
        <4>1. \A f \in Updates : handler'[f].row = handler[g].row => handler[f].row = handler[g].row
          BY <2>6, <2>7, <2>8
        <4>. QED  BY <1>1, <2>5, <2>7, <3>2, <4>1, HandlerStays DEF ReadingsInv
      <3>. QED  BY <3>1, <3>2
    <2>14. ASSUME NEW p \in Chatters \ crowded PROVE ChatterTrue(p)'
      <3>1. p # none
        BY ReadingsAssumption
      <3>2. \A r \in DOMAIN rows' : rows'[r].owner = p /\ Valid(r)' /\ Waiting(r)' =>
                r \in DOMAIN rows /\ rows[r].owner = p /\ Valid(r) /\ Waiting(r)
        BY <2>5, <2>12, <3>1
      <3>3. \A g \in Updates : handler'[g].who = p =>
                /\ handler[g].who = p
                /\ handler'[g].step \in {"start", "copy", "own"} => handler[g].step \in {"start", "copy", "own"}
        BY <1>1, <2>6, <2>7
      <3>. QED  BY <3>2, <3>3, ChatterStays DEF ReadingsInv
    <2>15. ASSUME NEW m \in Members \ crowded PROVE MemberTrue(m)'
      <3>1. made.by # m
        BY <1>1, <2>2, ReadingsAssumption
      <3>. QED  BY <1>1, <2>5, <3>1, MemberStays DEF ReadingsInv
    <2>. QED  BY <1>1, <2>9, <2>10, <2>11, <2>12, <2>13, <2>14, <2>15 DEF ReadingsInv
  <1>3. CASE ~assertAnonDiscoveryAllowed(handler[h].who)
    <2>1. rows' = rows /\ handler' = [handler EXCEPT ![h] = AtRest]
      BY <1>3 DEF startAnonDiscovery
    <2>. QED  BY <1>1, <2>1, RestKeeps
  <1>. QED  BY <1>2, <1>3

\* A handler works on its own row: with a reading of the very same site put on it,
\* or with its person's chat.
LEMMA OwnRowKeeps ==
    ASSUME ReadingsInv, NEW h \in Updates, CopyResult(h) \/ startTelegramSignup(h)
    PROVE  ReadingsInv'
  <1>. DEFINE r == handler[h].row
  <1>1. /\ rows \in Seq(Row) /\ handler \in [Updates -> Handling] /\ date \in Int
        /\ \A q \in DOMAIN rows : rows[q] \in Row /\ q \in Nat /\ q # 0 /\ rows[q].day \in Int
        /\ \A g \in Updates : handler[g] \in Handling
        /\ UNCHANGED <<date, queue, worker, view, checks, spent, said, lost, crowded>>
    BY RowsAre DEF ReadingsInv, ReadingsTyped, CopyResult, startTelegramSignup
  <1>2. handler[h].step \in {"copy", "own"}
    BY DEF CopyResult, startTelegramSignup
  <1>3. /\ r \in DOMAIN rows /\ r \notin queue /\ worker.row # r
        /\ rows[r].by = handler[h].who /\ rows[r].site = handler[h].site
        /\ handler[h].who \in Chatters /\ \A s \in said : s.row # r
        /\ \A g \in Updates : handler[g].row = r => g = h
    BY <1>2 DEF ReadingsInv, HandlerTrue
  <1>4. PICK row \in Row, step \in {"own", "queue", "list"} :
            /\ rows' = [rows EXCEPT ![r] = row]
            /\ handler' = [handler EXCEPT ![h].step = step, ![h].row = r]
            /\ row.by = rows[r].by /\ row.site = rows[r].site /\ row.used = rows[r].used /\ row.day = rows[r].day
            /\ row.owner \in {rows[r].owner, handler[h].who}
            /\ row.result \in {none, row.site} /\ (row.result = none => row.error = rows[r].error)
            /\ rows[r].result # none => row.result # none
            /\ step = "list" => row.result # none
            /\ step = "own" => row.owner = rows[r].owner
    <2>1. CASE CopyResult(h)
      <3>1. PICK found \in findCachedDiscovery(handler[h].site) :
                rows' = [rows EXCEPT ![r].result = found, ![r].error = FALSE]
        BY <2>1 DEF CopyResult, updatePendingDiscoveryResult
      <3>2. found = rows[r].site /\ found # none
        <4>1. PICK x \in DOMAIN rows : found = rows[x].result /\ rows[x].site = handler[h].site
          BY DEF findCachedDiscovery
        <4>2. found # none
          BY DEF findCachedDiscovery
        <4>3. rows[x].result \in {none, rows[x].site}
          BY DEF ReadingsInv, RowTrue
        <4>. QED  BY <1>3, <4>1, <4>2, <4>3
      <3>3. PICK row : row = [rows[r] EXCEPT !.result = found, !.error = FALSE]
        OBVIOUS
      <3>4. /\ row \in Row /\ row.by = rows[r].by /\ row.site = rows[r].site /\ row.used = rows[r].used
            /\ row.day = rows[r].day /\ row.owner = rows[r].owner /\ row.result = found
        BY <1>1, <1>3, <3>2, <3>3 DEF Row
      <3>5. rows' = [rows EXCEPT ![r] = row]
        BY <1>1, <1>3, <3>1, <3>3
      <3>6. handler' = [handler EXCEPT ![h].step = "own", ![h].row = r]
        BY <2>1 DEF CopyResult, Goes
      <3>. QED  BY <3>2, <3>4, <3>5, <3>6
    <2>2. CASE startTelegramSignup(h)
      <3>1. PICK row : row = [rows[r] EXCEPT !.owner = handler[h].who]
        OBVIOUS
      <3>2. /\ row \in Row /\ row.by = rows[r].by /\ row.site = rows[r].site /\ row.used = rows[r].used
            /\ row.day = rows[r].day /\ row.owner = handler[h].who /\ row.result = rows[r].result
            /\ row.error = rows[r].error
        BY <1>1, <1>3, <3>1 DEF Row
      <3>3. rows' = [rows EXCEPT ![r] = row]
        BY <1>1, <1>3, <2>2, <3>1 DEF startTelegramSignup
      <3>4. PICK step \in {"queue", "list"} : step = IF rows[r].result = none THEN "queue" ELSE "list"
        OBVIOUS
      <3>5. handler' = [handler EXCEPT ![h].step = step, ![h].row = r]
        BY <2>2, <3>4 DEF startTelegramSignup, Goes
      <3>6. rows[r].result \in {none, rows[r].site}
        BY <1>3 DEF ReadingsInv, RowTrue
      <3>. QED  BY <3>2, <3>3, <3>4, <3>5, <3>6
    <2>. QED  BY <2>1, <2>2
  <1>5. PICK next : next = [handler[h] EXCEPT !.step = step, !.row = r]
    OBVIOUS
  <1>6. next \in Handling /\ next.step = step /\ next.row = r /\ next.who = handler[h].who /\ next.site = handler[h].site
    BY <1>1, <1>5 DEF Handling
  <1>7. handler' \in [Updates -> Handling] /\ handler'[h] = next /\ \A g \in Updates \ {h} : handler'[g] = handler[g]
    BY <1>1, <1>4, <1>5, <1>6
  <1>8. /\ rows' \in Seq(Row) /\ DOMAIN rows' = DOMAIN rows /\ rows'[r] = row
        /\ \A q \in DOMAIN rows \ {r} : rows'[q] = rows[q]
    BY <1>1, <1>3, <1>4, RowPut
  <1>. HIDE DEF r
  <1>9. PICK own : own = r
    OBVIOUS
  <1>10. \A g \in Updates : handler'[g].row = handler[g].row /\ (handler'[g].row = own <=> g = h)
    BY <1>3, <1>6, <1>7, <1>9 DEF r
  <1>11. ReadingsTyped'
    BY <1>1, <1>7, <1>8 DEF ReadingsInv, ReadingsTyped
  <1>12. SaidTrue'
    BY <1>1, <1>3, <1>8 DEF ReadingsInv, SaidTrue, ReadingsTyped
  <1>13. WorkerTrue'
    BY <1>1, <1>3, <1>8 DEF ReadingsInv, WorkerTrue, Waiting, ByMember
  <1>14. ASSUME NEW q \in DOMAIN rows
         PROVE  /\ RowTrue(q)' /\ (Valid(q)' => Valid(q)) /\ (Waiting(q)' => Waiting(q))
                /\ q # own => rows'[q].owner = rows[q].owner
    <2>1. (InHand(q)' <=> InHand(q)) /\ RowTrue(q) /\ (own = q => InHand(q)')
      BY <1>1, <1>10 DEF InHand, ReadingsInv
    <2>2. CASE q = own
      <3>1. /\ rows'[q].result \in {none, rows'[q].site} /\ rows'[q].owner \in {none, rows'[q].by}
            /\ rows'[q].day = rows[q].day /\ rows'[q].by = rows[q].by /\ rows'[q].used = rows[q].used
            /\ rows'[q].result = none => rows[q].result = none /\ rows'[q].error = rows[q].error
        BY <1>3, <1>4, <1>8, <1>9, <2>1, <2>2 DEF RowTrue
      <3>2. (Valid(q)' => Valid(q)) /\ (Waiting(q)' => Waiting(q))
        BY <1>1, <3>1 DEF Valid, Waiting
      <3>. QED  BY <1>1, <2>1, <2>2, <3>1, <3>2, RowStays
    <2>3. CASE q # own
      <3>1. rows'[q] = rows[q]
        BY <1>8, <1>9, <2>3
      <3>2. (Valid(q)' <=> Valid(q)) /\ (Waiting(q)' <=> Waiting(q))
        BY <1>1, <3>1 DEF Valid, Waiting
      <3>. QED  BY <1>1, <2>1, <3>1, <3>2, RowStays DEF RowTrue
    <2>. QED  BY <2>2, <2>3
  <1>15. ASSUME NEW g \in Updates PROVE HandlerTrue(g)'
    <2>1. CASE g = h
      <3>1. /\ handler'[g].row = own /\ handler'[g].who = handler[h].who /\ handler'[g].site = handler[h].site
            /\ handler'[g].step = step /\ handler[h].site \in Sites
        BY <1>2, <1>6, <1>7, <1>9, <2>1 DEF ReadingsInv, HandlerTrue
      <3>2. /\ own \in DOMAIN rows' /\ own \notin queue' /\ worker'.row # own
            /\ rows'[own].by = handler[h].who /\ rows'[own].site = handler[h].site
            /\ (\A s \in said' : s.row # own)
            /\ step = "list" => rows'[own].result # none
        BY <1>1, <1>3, <1>4, <1>8, <1>9
      <3>. QED  BY <1>3, <1>10, <2>1, <3>1, <3>2 DEF HandlerTrue
    <2>2. CASE g # h
      <3>1. handler'[g] = handler[g] /\ handler[g].row # own
        BY <1>7, <1>10, <2>2
      <3>2. handler[g].row \in DOMAIN rows => rows'[handler[g].row] = rows[handler[g].row]
        BY <1>8, <1>9, <3>1
      <3>. QED  BY <1>1, <1>8, <1>10, <3>1, <3>2, HandlerStays DEF ReadingsInv
    <2>. QED  BY <2>1, <2>2
  <1>16. ASSUME NEW p \in Chatters \ crowded PROVE ChatterTrue(p)'
    <2>1. \A g \in Updates : handler'[g].who = handler[g].who
      BY <1>6, <1>7
    <2>2. \A g \in Updates : handler'[g].step \in {"start", "copy", "own"} => handler[g].step \in {"start", "copy", "own"}
      BY <1>2, <1>7
    <2>3. ChatterTrue(p)
      BY DEF ReadingsInv
    <2>4. CASE p # handler[h].who \/ row.owner = rows[r].owner
      <3>1. \A q \in DOMAIN rows : rows'[q].owner = p => rows[q].owner = p
        BY <1>4, <1>8, <1>14, <2>4
      <3>. QED  BY <1>8, <1>14, <2>1, <2>2, <2>3, <3>1, ChatterStays
    <2>5. CASE p = handler[h].who /\ row.owner # rows[r].owner
      <3>1. findRunningTelegramSignup(p) = {}
        BY <1>2, <2>3, <2>5 DEF ChatterTrue
      <3>2. findRunningTelegramSignup(p)' \subseteq {own}
        <4>1. ASSUME NEW q \in DOMAIN rows, q # own, rows'[q].owner = p, Valid(q)', Waiting(q)' PROVE FALSE
          BY <1>14, <3>1, <4>1 DEF findRunningTelegramSignup
        <4>. QED  BY <1>8, <4>1 DEF findRunningTelegramSignup
      <3>3. \A g \in Updates : handler'[g].who = p => g = h
        BY <2>1, <2>3, <2>5 DEF ChatterTrue
      <3>4. handler'[h].step \notin {"start", "copy", "own"}
        BY <1>4, <1>6, <1>7, <2>5
      <3>. QED  BY <2>1, <3>2, <3>3, <3>4 DEF ChatterTrue
    <2>. QED  BY <2>4, <2>5
  <1>17. ASSUME NEW m \in Members \ crowded PROVE MemberTrue(m)'
    <2>1. \A q \in DOMAIN rows : rows'[q].by = rows[q].by
      BY <1>3, <1>4, <1>8
    <2>. QED  BY <1>1, <1>8, <2>1, MemberStays DEF ReadingsInv
  <1>. QED  BY <1>1, <1>8, <1>11, <1>12, <1>13, <1>14, <1>15, <1>16, <1>17 DEF ReadingsInv

\* A page, or a question of it, is no matter of the rows.
LEMMA PagesKeep ==
    ASSUME ReadingsInv, UNCHANGED <<date, rows, queue, worker, handler, spent, said, lost>>,
           DOMAIN view' = DOMAIN view, DOMAIN checks' = DOMAIN checks, crowded \subseteq crowded',
           \A m \in Members \ crowded' : MemberTrue(m)'
    PROVE  ReadingsInv'
  <1>1. ReadingsTyped'
    BY DEF ReadingsInv, ReadingsTyped
  <1>2. SaidTrue' /\ WorkerTrue'
    BY DEF ReadingsInv, SaidTrue, WorkerTrue, Waiting, ByMember
  <1>3. \A r \in DOMAIN rows : RowTrue(r)'
    BY DEF ReadingsInv, RowTrue, Waiting, Valid, InHand
  <1>4. \A h \in Updates : HandlerTrue(h)'
    BY DEF ReadingsInv, HandlerTrue
  <1>5. ASSUME NEW p \in Chatters \ crowded' PROVE ChatterTrue(p)'
    <2>1. ChatterTrue(p)
      BY DEF ReadingsInv
    <2>2. findRunningTelegramSignup(p)' = findRunningTelegramSignup(p)
      BY DEF findRunningTelegramSignup, Valid, Waiting
    <2>. QED  BY <2>1, <2>2 DEF ChatterTrue
  <1>. QED  BY <1>1, <1>2, <1>3, <1>4, <1>5 DEF ReadingsInv

LEMMA PollKeeps ==
    ASSUME ReadingsInv, NEW v \in Visitors, poll(v)
    PROVE  ReadingsInv'
  <1>1. /\ UNCHANGED <<date, rows, queue, worker, handler, checks, spent, said, lost, crowded>>
        /\ DOMAIN view' = DOMAIN view /\ \A m \in Members : view'[m] = view[m]
    <2>1. v \notin Members
      BY ReadingsAssumption
    <2>2. PICK page : view' = [view EXCEPT ![v] = page]
      BY DEF poll
    <2>3. DOMAIN view = Visitors \cup Members
      BY DEF ReadingsInv, ReadingsTyped
    <2>. QED  BY <2>1, <2>2, <2>3 DEF poll
  <1>2. \A m \in Members \ crowded' : MemberTrue(m)'
    BY <1>1, MemberStays DEF ReadingsInv
  <1>. QED  BY <1>1, <1>2, PagesKeep

\* One question at a time is about what the page waits for.
LEMMA QuestionKeeps ==
    ASSUME ReadingsInv, NEW m \in Members, AskDiscovery(m)
    PROVE  ReadingsInv'
  <1>1. PICK n : /\ UNCHANGED <<date, rows, queue, worker, handler, view, spent, said, lost>>
                 /\ checks' = [checks EXCEPT ![m] = @ \cup {<<view[m].row, n>>}]
                 /\ crowded' = IF checks[m] = {} THEN crowded ELSE crowded \cup {m}
                 /\ view[m].kind = "reading"
    BY DEF AskDiscovery
  <1>2. DOMAIN checks = Members
    BY DEF ReadingsInv, ReadingsTyped
  <1>3. /\ DOMAIN checks' = Members /\ checks'[m] = checks[m] \cup {<<view[m].row, n>>}
        /\ \A k \in Members \ {m} : checks'[k] = checks[k]
    BY <1>1, <1>2
  <1>4. ASSUME NEW k \in Members \ crowded' PROVE MemberTrue(k)'
    <2>1. MemberTrue(k)
      BY <1>1 DEF ReadingsInv
    <2>2. CASE k = m
      <3>1. checks'[m] = {<<view[m].row, n>>}
        BY <1>1, <1>3, <2>2
      <3>. QED  BY <1>1, <2>1, <2>2, <3>1 DEF MemberTrue
    <2>3. CASE k # m
      BY <1>1, <1>3, <2>1, <2>3, MemberStays
    <2>. QED  BY <2>2, <2>3
  <1>. QED  BY <1>1, <1>2, <1>3, <1>4, PagesKeep

\* Its answer is about the last row the member asked for.
LEMMA AnswerKeeps ==
    ASSUME ReadingsInv, NEW m \in Members, NEW dropped \in BOOLEAN, checkDiscovery(m, dropped)
    PROVE  ReadingsInv'
  <1>1. PICK c, next :
            /\ c \in checks[m]
            /\ checks' = [checks EXCEPT ![m] = @ \ {c}]
            /\ \/ view' = view
               \/ next \in {Page("input", 0), Page("review", c[1])} /\ view' = [view EXCEPT ![m] = next]
    <2>1. PICK c \in checks[m] :
              /\ checks' = [checks EXCEPT ![m] = @ \ {c}]
              /\ LET next == IF dropped THEN {Page("input", 0)} ELSE PageAfter(c[1]) IN
                     \/ next = {} /\ UNCHANGED view
                     \/ \E n \in next : view' = [view EXCEPT ![m] = n]
      BY DEF checkDiscovery
    <2>2. PageAfter(c[1]) \subseteq {Page("input", 0), Page("review", c[1])}
      BY DEF PageAfter
    <2>. QED  BY <2>1, <2>2
  <1>2. UNCHANGED <<date, rows, queue, worker, handler, spent, said, lost, crowded>>
    BY DEF checkDiscovery
  <1>3. DOMAIN checks = Members /\ DOMAIN view = Visitors \cup Members
    BY DEF ReadingsInv, ReadingsTyped
  <1>4. /\ DOMAIN checks' = Members /\ checks'[m] = checks[m] \ {c} /\ \A k \in Members \ {m} : checks'[k] = checks[k]
        /\ DOMAIN view' = DOMAIN view /\ \A k \in Members \ {m} : view'[k] = view[k]
        /\ view'[m] \in {view[m], Page("input", 0), Page("review", c[1])}
    BY <1>1, <1>3
  <1>5. ASSUME NEW k \in Members \ crowded' PROVE MemberTrue(k)'
    <2>1. MemberTrue(k)
      BY <1>2 DEF ReadingsInv
    <2>2. CASE k = m
      <3>1. PICK n : checks[m] = {<<view[m].row, n>>} /\ view[m].kind = "reading"
        BY <1>1, <2>1, <2>2 DEF MemberTrue
      <3>0. c \in checks[m] /\ checks'[m] = checks[m] \ {c}
        BY <1>1, <1>4
      <3>2. c[1] = view[m].row /\ checks'[m] = {}
        BY <3>0, <3>1
      <3>3. /\ view'[m].kind \in {"reading", "review", "saved"} => view'[m].row = view[m].row
        BY <1>4, <3>2 DEF Page
      <3>. QED  BY <1>2, <2>1, <2>2, <3>1, <3>2, <3>3 DEF MemberTrue
    <2>3. CASE k # m
      BY <1>2, <1>4, <2>1, <2>3, MemberStays
    <2>. QED  BY <2>2, <2>3
  <1>. QED  BY <1>2, <1>3, <1>4, <1>5, PagesKeep

LEMMA SaveKeeps ==
    ASSUME ReadingsInv, NEW m \in Members, SaveReview(m)
    PROVE  ReadingsInv'
  <1>1. /\ UNCHANGED <<date, rows, queue, worker, handler, checks, spent, said, lost, crowded>>
        /\ view[m].kind = "review" /\ view' = [view EXCEPT ![m] = Page("saved", view[m].row)]
    BY DEF SaveReview
  <1>2. DOMAIN view = Visitors \cup Members
    BY DEF ReadingsInv, ReadingsTyped
  <1>3. DOMAIN view' = DOMAIN view /\ view'[m].row = view[m].row /\ \A k \in Members \ {m} : view'[k] = view[k]
    BY <1>1, <1>2 DEF Page
  <1>4. ASSUME NEW k \in Members \ crowded' PROVE MemberTrue(k)'
    <2>1. MemberTrue(k)
      BY <1>1 DEF ReadingsInv
    <2>2. CASE k = m
      <3>1. checks[m] = {}
        BY <1>1, <2>1, <2>2 DEF MemberTrue
      <3>. QED  BY <1>1, <1>3, <2>1, <2>2, <3>1 DEF MemberTrue
    <2>3. CASE k # m
      BY <1>1, <1>3, <2>1, <2>3, MemberStays
    <2>. QED  BY <2>2, <2>3
  <1>. QED  BY <1>1, <1>3, <1>4, PagesKeep

\* A row of someone without a chat: its job is queued, or it has its reading, or
\* it is lost at once.
LEMMA AskedKeeps ==
    ASSUME ReadingsInv, NEW by \in Visitors \cup Members, NEW made \in Row, rows' = Append(rows, made),
           made.by = by, made.owner = none, made.result \in {none, made.site}, made.day = date,
           UNCHANGED <<date, worker, handler, checks, spent, said, crowded>>,
           queue \subseteq queue', queue' \subseteq queue \cup {Len(rows) + 1}, lost \subseteq lost',
           made.result # none \/ Len(rows) + 1 \in queue' \/ Len(rows) + 1 \in lost',
           DOMAIN view' = DOMAIN view,
           \A m \in Members \ crowded : MemberTrue(m)'
    PROVE  ReadingsInv'
  <1>. DEFINE n == Len(rows) + 1
  <1>1. /\ rows \in Seq(Row) /\ date \in Int
        /\ \A r \in DOMAIN rows : r \in Nat /\ r # 0 /\ rows[r].day \in Int
    BY RowsAre DEF ReadingsInv, ReadingsTyped
  <1>2. /\ rows' \in Seq(Row) /\ DOMAIN rows' = DOMAIN rows \cup {n}
        /\ n \in Nat \ {0} /\ n \notin DOMAIN rows
        /\ rows'[n] = made
        /\ \A q \in DOMAIN rows : rows'[q] = rows[q]
    BY <1>1, RowAdded
  <1>3. queue \subseteq queue' /\ queue' \subseteq queue \cup {n} /\ (made.result # none \/ n \in queue' \/ n \in lost')
    OBVIOUS
  <1>. HIDE DEF n
  <1>4. ReadingsTyped'
    BY <1>2, <1>3 DEF ReadingsInv, ReadingsTyped
  <1>5. SaidTrue'
    BY <1>2 DEF ReadingsInv, SaidTrue, ReadingsTyped
  <1>6. WorkerTrue'
    BY <1>2 DEF ReadingsInv, WorkerTrue, Waiting, ByMember
  <1>7. ASSUME NEW r \in DOMAIN rows'
        PROVE  RowTrue(r)' /\ (rows'[r].owner # none => r \in DOMAIN rows /\ (Valid(r)' => Valid(r)) /\ (Waiting(r)' => Waiting(r)))
    <2>1. CASE r = n
      <3>1. Waiting(r)' => InHand(r)' \/ r \in lost'
        BY <1>2, <1>3, <2>1 DEF Waiting, InHand
      <3>. QED  BY <1>1, <1>2, <2>1, <3>1 DEF RowTrue
    <2>2. CASE r \in DOMAIN rows
      <3>1. RowTrue(r) /\ rows'[r] = rows[r]
        BY <1>2, <2>2 DEF ReadingsInv
      <3>2. InHand(r) => InHand(r)'
        BY DEF InHand
      <3>3. (Waiting(r)' <=> Waiting(r)) /\ (Valid(r)' => Valid(r))
        BY <3>1 DEF Waiting, Valid
      <3>4. RowTrue(r)'
        BY <1>1, <2>2, <3>1, <3>2, <3>3, RowStays DEF RowTrue
      <3>. QED  BY <2>2, <3>3, <3>4
    <2>. QED  BY <1>2, <2>1, <2>2
  <1>8. ASSUME NEW g \in Updates PROVE HandlerTrue(g)'
    BY <1>2, <1>3, HandlerStays DEF ReadingsInv
  <1>9. ASSUME NEW p \in Chatters \ crowded PROVE ChatterTrue(p)'
    <2>1. p # none
      BY ReadingsAssumption
    <2>. QED  BY <1>2, <1>7, <2>1, ChatterStays DEF ReadingsInv
  <1>. QED  BY <1>2, <1>4, <1>5, <1>6, <1>7, <1>8, <1>9 DEF ReadingsInv

LEMMA VisitorKeeps ==
    ASSUME ReadingsInv, NEW v \in Visitors, NEW site \in Sites, NEW fails \in BOOLEAN, startDiscovery(v, site, fails)
    PROVE  ReadingsInv'
  <1>. DEFINE r == Len(rows) + 1
  <1>1. /\ rows \in Seq(Row) /\ date \in Int /\ DOMAIN view = Visitors \cup Members
        /\ UNCHANGED <<date, worker, handler, checks, spent, said, crowded>>
    BY DEF ReadingsInv, ReadingsTyped, startDiscovery
  <1>2. PICK found \in IF findCachedDiscovery(site) = {} THEN {none} ELSE findCachedDiscovery(site) :
            /\ rows' = Append(rows, [by |-> v, owner |-> none, site |-> site, result |-> IF fails THEN none ELSE found,
                                     error |-> FALSE, used |-> FALSE, day |-> date])
            /\ queue' = IF fails \/ found # none THEN queue ELSE queue \cup {r}
            /\ view' = IF fails THEN view ELSE [view EXCEPT ![v] = Page("reading", r)]
            /\ lost' = IF fails THEN lost \cup {r} ELSE lost
    BY DEF startDiscovery
  <1>3. found \in {none, site}
    BY DEF findCachedDiscovery, ReadingsInv, RowTrue
  <1>4. PICK made : made = [by |-> v, owner |-> none, site |-> site, result |-> IF fails THEN none ELSE found,
                            error |-> FALSE, used |-> FALSE, day |-> date]
    OBVIOUS
  <1>5. /\ made \in Row /\ made.by = v /\ made.owner = none /\ made.site = site /\ made.day = date
        /\ made.result = (IF fails THEN none ELSE found)
    BY <1>1, <1>3, <1>4 DEF Row, Everyone
  <1>6. rows' = Append(rows, made)
    BY <1>2, <1>4
  <1>7. v \notin Members
    BY ReadingsAssumption
  <1>8. DOMAIN view' = DOMAIN view /\ \A m \in Members : view'[m] = view[m]
    BY <1>1, <1>2, <1>7
  <1>9. /\ DOMAIN rows' = DOMAIN rows \cup {r} /\ rows'[r] = made
        /\ \A q \in DOMAIN rows : rows'[q] = rows[q]
    BY <1>1, <1>5, <1>6, RowAdded
  <1>10. /\ queue \subseteq queue' /\ queue' \subseteq queue \cup {r} /\ lost \subseteq lost'
         /\ made.result # none \/ r \in queue' \/ r \in lost'
    BY <1>2, <1>5
  <1>. HIDE DEF r
  <1>11. ASSUME NEW m \in Members \ crowded PROVE MemberTrue(m)'
    BY <1>1, <1>5, <1>7, <1>8, <1>9, MemberStays DEF ReadingsInv
  <1>. QED  BY <1>1, <1>3, <1>5, <1>6, <1>8, <1>10, <1>11, AskedKeeps DEF r

LEMMA MemberKeeps ==
    ASSUME ReadingsInv, NEW m \in Members, NEW site \in Sites, StartAsMember(m, site)
    PROVE  ReadingsInv'
  <1>. DEFINE r == Len(rows) + 1
  <1>1. /\ rows \in Seq(Row) /\ date \in Int /\ DOMAIN view = Visitors \cup Members
        /\ view[m].kind = "input" /\ queue' = queue \cup {r} /\ view' = [view EXCEPT ![m] = Page("reading", r)]
        /\ UNCHANGED <<date, worker, handler, checks, spent, said, lost, crowded>>
    BY DEF ReadingsInv, ReadingsTyped, StartAsMember
  <1>2. PICK made : made = [by |-> m, owner |-> none, site |-> site, result |-> none,
                            error |-> FALSE, used |-> FALSE, day |-> date]
    OBVIOUS
  <1>3. /\ made \in Row /\ made.by = m /\ made.owner = none /\ made.site = site /\ made.day = date
        /\ made.result = none
    BY <1>1, <1>2 DEF Row, Everyone
  <1>4. rows' = Append(rows, made)
    BY <1>2 DEF StartAsMember, createPendingOnboarding
  <1>5. /\ DOMAIN rows' = DOMAIN rows \cup {r} /\ rows'[r] = made /\ r \in Nat
        /\ \A q \in DOMAIN rows : rows'[q] = rows[q] /\ q \in Nat /\ q < r
    BY <1>1, <1>3, <1>4, RowAdded
  <1>6. queue \subseteq queue' /\ queue' \subseteq queue \cup {r} /\ lost \subseteq lost' /\ r \in queue'
    BY <1>1
  <1>. HIDE DEF r
  <1>7. DOMAIN view' = DOMAIN view /\ view'[m] = Page("reading", r) /\ \A k \in Members \ {m} : view'[k] = view[k]
    BY <1>1
  <1>8. ASSUME NEW k \in Members \ crowded PROVE MemberTrue(k)'
    <2>1. MemberTrue(k)
      BY DEF ReadingsInv
    <2>2. CASE k = m
      <3>1. checks'[k] = {}
        BY <1>1, <2>1, <2>2 DEF MemberTrue
      <3>2. view'[k].kind = "reading" /\ view'[k].row = r
        BY <1>7, <2>2 DEF Page
      <3>3. r \in DOMAIN rows' /\ \A q \in DOMAIN rows' : q <= r
        BY <1>5
      <3>. QED  BY <3>1, <3>2, <3>3 DEF MemberTrue
    <2>3. CASE k # m
      BY <1>1, <1>3, <1>5, <1>7, <2>1, <2>3, MemberStays
    <2>. QED  BY <2>2, <2>3
  <1>. QED  BY <1>1, <1>3, <1>4, <1>6, <1>7, <1>8, AskedKeeps DEF r

\* The worker takes a row out of the queue, or lets go of the one it has.
LEMMA HandsKeep ==
    ASSUME ReadingsInv, UNCHANGED <<date, rows, handler, view, checks, spent, crowded>>,
           worker' \in [row : Nat, step : {"free", "refused", "reading", "tell"}],
           queue' \subseteq queue, said \subseteq said', lost \subseteq lost',
           worker'.row \in queue \cup {worker.row, 0},
           \A s \in said' \ said :
               /\ s.row = worker.row /\ s.row \in DOMAIN rows /\ s.to = rows[s.row].owner
               /\ s.what = "listing" => s.site = rows[s.row].site,
           \A r \in queue \ queue' : worker'.row = r,
           worker.row \in DOMAIN rows =>
               \/ worker'.row = worker.row \/ worker.row \in lost'
               \/ /\ ~Waiting(worker.row)
                  /\ rows[worker.row].owner # none /\ Valid(worker.row) =>
                         \E s \in said' : s.row = worker.row /\ s.to = rows[worker.row].by,
           WorkerTrue'
    PROVE  ReadingsInv'
  <1>1. /\ \A r \in DOMAIN rows : rows[r] \in Row /\ r \in Nat /\ r # 0 /\ rows[r].day \in Int
        /\ date \in Int /\ queue \subseteq DOMAIN rows
    BY RowsAre DEF ReadingsInv, ReadingsTyped
  <1>2. ReadingsTyped'
    BY DEF ReadingsInv, ReadingsTyped
  <1>3. SaidTrue'
    BY DEF ReadingsInv, SaidTrue
  <1>4. ASSUME NEW r \in DOMAIN rows PROVE RowTrue(r)'
    <2>1. RowTrue(r) /\ rows[r].result \in {none, rows[r].site} /\ rows[r].owner \in {none, rows[r].by}
      BY DEF ReadingsInv, RowTrue
    <2>2. (Waiting(r)' <=> Waiting(r)) /\ (Valid(r)' <=> Valid(r))
      BY DEF Waiting, Valid
    <2>3. ASSUME InHand(r)
          PROVE  \/ InHand(r)' \/ r \in lost'
                 \/ /\ ~Waiting(r)'
                    /\ rows'[r].owner # none /\ Valid(r)' => \E s \in said' : s.row = r /\ s.to = rows'[r].by
      <3>1. CASE worker.row = r
        <4>1. worker'.row = r => InHand(r)'
          BY DEF InHand
        <4>. QED  BY <2>2, <3>1, <4>1
      <3>2. CASE r \in queue
        BY <3>2 DEF InHand
      <3>3. CASE \E h \in Updates : handler[h].row = r
        BY <3>3 DEF InHand
      <3>. QED  BY <2>3, <3>1, <3>2, <3>3 DEF InHand
    <2>. QED  BY <1>1, <2>1, <2>2, <2>3, RowStays
  <1>5. ASSUME NEW h \in Updates PROVE HandlerTrue(h)'
    <2>1. HandlerTrue(h)
      BY DEF ReadingsInv
    <2>2. ASSUME handler[h].step \notin {"idle", "start"}
          PROVE  /\ handler[h].row \in DOMAIN rows /\ handler[h].row \notin queue'
                 /\ worker'.row # handler[h].row /\ (\A s \in said' : s.row # handler[h].row)
      BY <1>1, <2>1, <2>2 DEF HandlerTrue
    <2>. QED  BY <2>1, <2>2 DEF HandlerTrue
  <1>6. ASSUME NEW p \in Chatters \ crowded PROVE ChatterTrue(p)'
    <2>1. \A r \in DOMAIN rows : (Waiting(r)' <=> Waiting(r)) /\ (Valid(r)' <=> Valid(r))
      BY DEF Waiting, Valid
    <2>. QED  BY <2>1, ChatterStays DEF ReadingsInv
  <1>7. ASSUME NEW m \in Members \ crowded PROVE MemberTrue(m)'
    BY MemberStays DEF ReadingsInv
  <1>. QED  BY <1>2, <1>3, <1>4, <1>5, <1>6, <1>7 DEF ReadingsInv

\* A job is taken while the plan has a reading left, or is refused.
LEMMA TakeKeeps ==
    ASSUME ReadingsInv, NEW r \in DOMAIN rows, TakeJob(r)
    PROVE  ReadingsInv'
  <1>1. PICK step \in {"refused", "reading"} : step = IF ByMember(r) /\ ~assertCanRunDiscovery THEN "refused" ELSE "reading"
    OBVIOUS
  <1>2. /\ worker = Resting /\ r \in queue /\ queue' = queue \ {r} /\ worker' = [row |-> r, step |-> step]
        /\ UNCHANGED <<date, rows, handler, view, checks, spent, said, lost, crowded>>
    BY <1>1 DEF TakeJob
  <1>3. /\ \A q \in DOMAIN rows : q \in Nat /\ q # 0
        /\ Cardinality(spent) \in Nat /\ MonthLimit \in Nat
    BY RowsAre
  <1>4. worker.row = 0 /\ worker'.row = r /\ worker'.step = step
    BY <1>2 DEF Resting
  <1>5. worker' \in [row : Nat, step : {"free", "refused", "reading", "tell"}]
    BY <1>2, <1>3
  <1>6. WorkerTrue'
    <2>1. step = "reading" /\ ByMember(r) => Cardinality(spent) < MonthLimit
      BY <1>1 DEF assertCanRunDiscovery
    <2>. QED  BY <1>2, <1>4, <2>1 DEF ReadingsInv, WorkerTrue, ByMember
  <1>. QED  BY <1>2, <1>3, <1>4, <1>5, <1>6, HandsKeep

LEMMA RestingIs == Resting \in [row : Nat, step : {"free", "refused", "reading", "tell"}]
                   /\ Resting.row = 0 /\ Resting.step = "free"
  BY DEF Resting

LEMMA LetGoKeeps ==
    ASSUME ReadingsInv, tellTelegramSignup \/ WorkerFails
    PROVE  ReadingsInv'
  <1>1. /\ worker' = Resting /\ UNCHANGED <<date, rows, queue, handler, view, checks, spent, crowded>>
        /\ \A r \in DOMAIN rows : r # 0
    BY RowsAre DEF tellTelegramSignup, WorkerFails
  <1>2. WorkerTrue'
    BY <1>1, RestingIs DEF ReadingsInv, WorkerTrue
  <1>3. CASE WorkerFails
    <2>1. said' = said /\ lost' = lost \cup {worker.row}
      BY <1>3 DEF WorkerFails
    <2>. QED  BY <1>1, <1>2, <2>1, RestingIs, HandsKeep
  <1>4. CASE tellTelegramSignup
    <2>1. /\ worker.step = "tell" /\ lost' = lost
          /\ worker.row \in DOMAIN rows /\ ~Waiting(worker.row)
      BY <1>4 DEF tellTelegramSignup, ReadingsInv, WorkerTrue
    <2>2. PICK r \in DOMAIN rows : r = worker.row
      BY <2>1
    <2>3. PICK words : words = Says(rows[r].owner, r, IF rows[r].error THEN "failed" ELSE "listing")
      OBVIOUS
    <2>4. said' = IF Valid(r) /\ rows[r].owner # none THEN said \cup {words} ELSE said
      BY <1>4, <2>2, <2>3 DEF tellTelegramSignup
    <2>5. words.row = r /\ words.to = rows[r].owner /\ words.site = rows[r].result
          /\ (words.what = "listing" => ~rows[r].error)
      BY <2>3 DEF Says
    <2>6. words.what = "listing" => words.site = rows[r].site
      <3>1. rows[r].result \in {none, rows[r].site}
        BY DEF ReadingsInv, RowTrue
      <3>. QED  BY <2>1, <2>2, <2>5, <3>1 DEF Waiting
    <2>7. rows[r].owner # none => rows[r].owner = rows[r].by
      BY DEF ReadingsInv, RowTrue
    <2>. QED  BY <1>1, <1>2, <2>1, <2>2, <2>4, <2>5, <2>6, <2>7, RestingIs, HandsKeep
  <1>. QED  BY <1>3, <1>4

\* What the worker writes to its row: the reading of the row's own site, or that
\* there is none.
LEMMA WorkedKeeps ==
    ASSUME ReadingsInv, NEW r \in DOMAIN rows, worker.row = r, NEW row \in Row, rows' = [rows EXCEPT ![r] = row],
           row.by = rows[r].by, row.owner = rows[r].owner, row.site = rows[r].site, row.used = rows[r].used,
           row.day = rows[r].day, row.result \in {none, row.site}, row.result # none \/ row.error,
           rows[r].result # none => row.result # none,
           UNCHANGED <<date, queue, handler, view, checks, said, crowded>>,
           worker' \in [row : Nat, step : {"free", "refused", "reading", "tell"}],
           worker'.row = r \/ (worker'.row = 0 /\ r \in lost'),
           lost \subseteq lost', spent' \subseteq DOMAIN rows,
           WorkerTrue'
    PROVE  ReadingsInv'
  <1>1. /\ rows \in Seq(Row) /\ date \in Int
        /\ \A q \in DOMAIN rows : rows[q] \in Row /\ q \in Nat /\ q # 0 /\ rows[q].day \in Int
    BY RowsAre DEF ReadingsInv, ReadingsTyped
  <1>2. /\ rows' \in Seq(Row) /\ DOMAIN rows' = DOMAIN rows /\ rows'[r] = row
        /\ \A q \in DOMAIN rows \ {r} : rows'[q] = rows[q]
    BY <1>1, RowPut
  <1>3. \A q \in DOMAIN rows : /\ rows'[q].by = rows[q].by /\ rows'[q].owner = rows[q].owner
                               /\ rows'[q].site = rows[q].site /\ rows'[q].used = rows[q].used
                               /\ rows'[q].day = rows[q].day
                               /\ rows[q].result # none => rows'[q].result # none
    BY <1>2
  <1>4. ReadingsTyped'
    BY <1>2 DEF ReadingsInv, ReadingsTyped
  <1>5. SaidTrue'
    BY <1>3 DEF ReadingsInv, SaidTrue, ReadingsTyped
  <1>6. ASSUME NEW q \in DOMAIN rows PROVE RowTrue(q)' /\ (Valid(q)' => Valid(q)) /\ (Waiting(q)' => Waiting(q))
    <2>1. RowTrue(q) /\ rows[q].owner \in {none, rows[q].by} /\ rows[q].result \in {none, rows[q].site}
      BY DEF ReadingsInv, RowTrue
    <2>2. Valid(q)' => Valid(q)
      BY <1>3 DEF Valid
    <2>3. (Waiting(q)' => Waiting(q)) /\ (q = r => ~Waiting(q)')
      BY <1>2 DEF Waiting
    <2>4. InHand(q) => InHand(q)' \/ q \in lost'
      BY <1>1 DEF InHand
    <2>5. rows'[q].result \in {none, rows'[q].site}
      BY <1>2, <2>1
    <2>. QED  BY <1>1, <1>3, <2>1, <2>2, <2>3, <2>4, <2>5, RowStays
  <1>7. ASSUME NEW h \in Updates PROVE HandlerTrue(h)'
    <2>1. HandlerTrue(h)
      BY DEF ReadingsInv
    <2>2. handler[h].row \in DOMAIN rows /\ worker.row # handler[h].row => worker'.row # handler[h].row
      BY <1>1
    <2>. QED  BY <1>2, <1>3, <2>1, <2>2, HandlerStays
  <1>8. ASSUME NEW p \in Chatters \ crowded PROVE ChatterTrue(p)'
    BY <1>2, <1>3, <1>6, ChatterStays DEF ReadingsInv
  <1>9. ASSUME NEW m \in Members \ crowded PROVE MemberTrue(m)'
    BY <1>2, <1>3, MemberStays DEF ReadingsInv
  <1>. QED  BY <1>2, <1>4, <1>5, <1>6, <1>7, <1>8, <1>9 DEF ReadingsInv

\* A reading that costs is one of those the plan had left when the job looked.
LEMMA ReadKeeps ==
    ASSUME ReadingsInv, NEW reads \in BOOLEAN, NEW costs \in BOOLEAN, discover(reads, costs)
    PROVE  ReadingsInv'
  <1>1. /\ worker.step = "reading" /\ worker' = [worker EXCEPT !.step = "tell"]
        /\ spent' = IF costs /\ ByMember(worker.row) THEN spent \cup {worker.row} ELSE spent
        /\ UNCHANGED <<date, queue, handler, view, checks, said, lost, crowded>>
        /\ worker \in [row : Nat, step : {"free", "refused", "reading", "tell"}]
    BY DEF discover, ReadingsInv, ReadingsTyped
  <1>2. PICK r \in DOMAIN rows : r = worker.row
    BY <1>1 DEF ReadingsInv, WorkerTrue
  <1>3. /\ rows \in Seq(Row) /\ rows[r] \in Row /\ rows[r].result \in {none, rows[r].site}
        /\ IsFiniteSet(spent) /\ Cardinality(spent) \in Nat /\ MonthLimit \in Nat /\ spent \subseteq DOMAIN rows
    BY RowsAre DEF ReadingsInv, ReadingsTyped, RowTrue
  <1>4. PICK row \in Row : /\ rows' = [rows EXCEPT ![r] = row]
                           /\ row.by = rows[r].by /\ row.owner = rows[r].owner /\ row.site = rows[r].site
                           /\ row.used = rows[r].used /\ row.day = rows[r].day
                           /\ row.result \in {none, row.site} /\ (row.result # none \/ row.error)
                           /\ rows[r].result # none => row.result # none
    <2>1. CASE reads
      <3>1. PICK row : row = [rows[r] EXCEPT !.result = rows[r].site, !.error = FALSE]
        OBVIOUS
      <3>2. /\ row \in Row /\ row.by = rows[r].by /\ row.owner = rows[r].owner /\ row.site = rows[r].site
            /\ row.used = rows[r].used /\ row.day = rows[r].day /\ row.result = rows[r].site /\ rows[r].site \in Sites
        BY <1>3, <3>1 DEF Row
      <3>3. rows' = [rows EXCEPT ![r] = row]
        BY <1>2, <2>1, <3>1 DEF discover, updatePendingDiscoveryResult
      <3>. QED  BY <3>2, <3>3, ReadingsAssumption
    <2>2. CASE ~reads
      <3>1. PICK row : row = [rows[r] EXCEPT !.error = TRUE]
        OBVIOUS
      <3>2. /\ row \in Row /\ row.by = rows[r].by /\ row.owner = rows[r].owner /\ row.site = rows[r].site
            /\ row.used = rows[r].used /\ row.day = rows[r].day /\ row.result = rows[r].result /\ row.error
        BY <1>3, <3>1 DEF Row
      <3>3. rows' = [rows EXCEPT ![r] = row]
        BY <1>2, <2>2, <3>1 DEF discover, recordPendingDiscoveryFailure
      <3>. QED  BY <1>3, <3>2, <3>3
    <2>. QED  BY <2>1, <2>2
  <1>5. rows'[r] = row /\ DOMAIN rows' = DOMAIN rows
    BY <1>3, <1>4, RowPut
  <1>6. worker'.row = r /\ worker'.step = "tell" /\ worker' \in [row : Nat, step : {"free", "refused", "reading", "tell"}]
    BY <1>1, <1>2
  <1>7. spent' \subseteq DOMAIN rows
    BY <1>1, <1>2, <1>3
  <1>8. WorkerTrue'
    <2>1. ~Waiting(worker.row)'
      BY <1>4, <1>5, <1>6 DEF Waiting
    <2>2. Cardinality(spent') <= MonthLimit
      <3>1. CASE costs /\ ByMember(worker.row)
        <4>1. Cardinality(spent) < MonthLimit /\ spent' = spent \cup {r}
          BY <1>1, <1>2, <3>1 DEF ReadingsInv, WorkerTrue
        <4>2. Cardinality(spent \cup {r}) = IF r \in spent THEN Cardinality(spent) ELSE Cardinality(spent) + 1
          BY <1>3, FS_AddElement
        <4>. QED  BY <1>3, <4>1, <4>2
      <3>2. CASE ~(costs /\ ByMember(worker.row))
        BY <1>1, <3>2 DEF ReadingsInv, WorkerTrue
      <3>. QED  BY <3>1, <3>2
    <2>. QED  BY <1>5, <1>6, <2>1, <2>2 DEF WorkerTrue
  <1>. QED  BY <1>1, <1>2, <1>4, <1>6, <1>7, <1>8, WorkedKeeps

LEMMA CannotKeeps ==
    ASSUME ReadingsInv, CannotRead
    PROVE  ReadingsInv'
  <1>1. /\ worker.step \in {"reading", "refused"} /\ worker' = Resting /\ lost' = lost \cup {worker.row}
        /\ UNCHANGED <<date, queue, handler, view, checks, spent, said, crowded>>
    BY DEF CannotRead
  <1>2. PICK r \in DOMAIN rows : r = worker.row
    BY <1>1 DEF ReadingsInv, WorkerTrue
  <1>3. /\ rows[r] \in Row /\ rows[r].result \in {none, rows[r].site} /\ spent \subseteq DOMAIN rows
    BY RowsAre DEF ReadingsInv, ReadingsTyped, RowTrue
  <1>4. PICK row : row = [rows[r] EXCEPT !.error = TRUE]
    OBVIOUS
  <1>5. /\ row \in Row /\ row.by = rows[r].by /\ row.owner = rows[r].owner /\ row.site = rows[r].site
        /\ row.used = rows[r].used /\ row.day = rows[r].day /\ row.result = rows[r].result /\ row.error
    BY <1>3, <1>4 DEF Row
  <1>6. rows' = [rows EXCEPT ![r] = row]
    BY <1>2, <1>4 DEF CannotRead, recordPendingDiscoveryFailure
  <1>7. WorkerTrue'
    BY <1>1, RestingIs DEF ReadingsInv, WorkerTrue
  <1>. QED  BY <1>1, <1>2, <1>3, <1>5, <1>6, <1>7, RestingIs, WorkedKeeps

LEMMA ReadingsInitTrue == ReadingsInit => ReadingsInv
  <1>1. SUFFICES ASSUME ReadingsInit PROVE ReadingsInv
    OBVIOUS
  <1>2. /\ date = 0 /\ rows = <<>> /\ queue = {} /\ worker = Resting /\ handler = [h \in Updates |-> AtRest]
        /\ view = [v \in Visitors \cup Members |-> Page("input", 0)]
        /\ checks = [m \in Members |-> {}] /\ spent = {} /\ said = {} /\ lost = {} /\ crowded = {}
    BY <1>1 DEF ReadingsInit
  <1>3. DOMAIN rows = {} /\ rows \in Seq(Row)
    BY <1>2
  <1>4. /\ \A h \in Updates : handler[h].row = 0 /\ handler[h].step = "idle" /\ handler[h].who = none
        /\ handler \in [Updates -> Handling]
    BY <1>2 DEF AtRest, Handling
  <1>5. ReadingsTyped
    BY <1>2, <1>3, <1>4, RestingIs DEF ReadingsTyped
  <1>6. SaidTrue /\ \A h \in Updates : HandlerTrue(h)
    BY <1>2, <1>4 DEF SaidTrue, HandlerTrue
  <1>7. WorkerTrue
    <2>1. Cardinality(spent) = 0 /\ MonthLimit \in Nat
      BY <1>2, FS_EmptySet, ReadingsAssumption
    <2>. QED  BY <1>2, <2>1, RestingIs DEF WorkerTrue
  <1>8. \A p \in Chatters : ChatterTrue(p)
    BY <1>3, <1>4, ReadingsAssumption DEF ChatterTrue, findRunningTelegramSignup
  <1>9. \A m \in Members : MemberTrue(m)
    BY <1>2 DEF MemberTrue, Page
  <1>. QED  BY <1>3, <1>5, <1>6, <1>7, <1>8, <1>9 DEF ReadingsInv

LEMMA ReadingsKept == ReadingsInv /\ [ReadingsNext]_readingsVars => ReadingsInv'
  <1>. SUFFICES ASSUME ReadingsInv, [ReadingsNext]_readingsVars PROVE ReadingsInv'
    OBVIOUS
  <1>1. CASE UNCHANGED readingsVars
    <2>1. /\ UNCHANGED <<date, rows, queue, worker, handler, spent, said, lost, view, checks, crowded>>
      BY <1>1 DEF readingsVars
    <2>2. \A m \in Members \ crowded' : MemberTrue(m)'
      BY <2>1, MemberStays DEF ReadingsInv
    <2>. QED  BY <2>1, <2>2, PagesKeep
  <1>2. CASE NightFalls
    BY <1>2, NightKeeps
  <1>3. ASSUME NEW r \in DOMAIN rows, Confirm(r) \/ TakeJob(r) PROVE ReadingsInv'
    BY <1>3, ConfirmKeeps, TakeKeeps
  <1>4. ASSUME NEW h \in Updates, NEW p \in Chatters, NEW s \in Sites, handleSignupInput(h, p, s) PROVE ReadingsInv'
    BY <1>4, SignupKeeps
  <1>5. ASSUME NEW h \in Updates,
               \/ startAnonDiscovery(h) \/ CopyResult(h) \/ startTelegramSignup(h)
               \/ EnqueueReading(h) \/ ListCopy(h) \/ HandlerFails(h)
        PROVE  ReadingsInv'
    BY <1>5, StartKeeps, OwnRowKeeps, EndsKeep
  <1>6. ASSUME NEW v \in Visitors, poll(v) \/ \E s \in Sites, fails \in BOOLEAN : startDiscovery(v, s, fails)
        PROVE  ReadingsInv'
    BY <1>6, PollKeeps, VisitorKeeps
  <1>7. ASSUME NEW m \in Members,
               \/ AskDiscovery(m) \/ SaveReview(m)
               \/ \E s \in Sites : StartAsMember(m, s)
               \/ \E dropped \in BOOLEAN : checkDiscovery(m, dropped)
        PROVE  ReadingsInv'
    BY <1>7, QuestionKeeps, SaveKeeps, MemberKeeps, AnswerKeeps
  <1>8. ASSUME NEW reads \in BOOLEAN, NEW costs \in BOOLEAN, discover(reads, costs) PROVE ReadingsInv'
    BY <1>8, ReadKeeps
  <1>9. CASE CannotRead \/ tellTelegramSignup \/ WorkerFails
    BY <1>9, CannotKeeps, LetGoKeeps
  <1>. QED  BY <1>1, <1>2, <1>3, <1>4, <1>5, <1>6, <1>7, <1>8, <1>9 DEF ReadingsNext

-----------------------------------------------------------------------------
(* Readings: the theorem *)

\* A reading reaches whoever asked for it, is of what was sent, and leaves nobody
\* waiting for nothing (pending.ts:121-127, bot-signup.ts:127-131, updates.ts and
\* onboarding.ts:133-138), for any number of people, sites, updates and rows, and
\* whatever fails between the steps.
THEOREM ReadingsAreHeardOf == ReadingsSpec => []HeardOfReading
  <1>1. ASSUME ReadingsInv PROVE HeardOfReading
    <2>1. \A r \in DOMAIN rows : RowTrue(r)
      BY <1>1 DEF ReadingsInv
    <2>2. ASSUME NEW p \in Chatters \ crowded PROVE Cardinality(findRunningTelegramSignup(p)) <= 1
      <3>1. \A q, r \in findRunningTelegramSignup(p) : q = r
        BY <1>1 DEF ReadingsInv, ChatterTrue
      <3>2. CASE findRunningTelegramSignup(p) = {}
        <4>1. Cardinality(findRunningTelegramSignup(p)) = 0
          BY <3>2, FS_EmptySet
        <4>. QED  BY <4>1
      <3>3. CASE findRunningTelegramSignup(p) # {}
        <4>1. PICK r : findRunningTelegramSignup(p) = {r}
          BY <3>1, <3>3
        <4>2. Cardinality({r}) = 1
          BY FS_Singleton
        <4>. QED  BY <4>1, <4>2
      <3>. QED  BY <3>2, <3>3
    <2>3. ASSUME NEW m \in Members \ crowded, view[m].kind \in {"review", "saved"}
          PROVE  view[m].row \in DOMAIN rows /\ \A r \in DOMAIN rows : rows[r].by = m => r <= view[m].row
      BY <1>1, <2>3 DEF ReadingsInv, MemberTrue
    <2>4. Cardinality(spent) <= MonthLimit /\ SaidTrue
      BY <1>1 DEF ReadingsInv, WorkerTrue
    <2>. QED  BY <2>1, <2>2, <2>3, <2>4 DEF HeardOfReading, RowTrue, SaidTrue
  <1>. QED  BY <1>1, ReadingsInitTrue, ReadingsKept, PTL DEF ReadingsSpec

-----------------------------------------------------------------------------
(* Types of CardActions and TargetPage *)

\* Whatever is pressed and answered, how often and from where, each press is of a
\* card and each question of a chat (card-actions.ts).
THEOREM CardActionsTypes == CardActionsSpec => []CardActionsTypeOK
<1>1. HeardInv => CardActionsTypeOK  BY DEF HeardInv
<1> QED  BY <1>1, HeardInit, HeardKept, PTL DEF CardActionsSpec

\* Who waits for a further page has asked for one.
LoadingIsAsked == isLoadingMore => \E i \in DOMAIN flights : ~First(i)

PageBounded ==
    /\ clock \in 0 .. MaxMoment /\ at \in [Entries -> -1 .. MaxMoment] /\ Len(flights) <= MaxFlights
    /\ LoadingIsAsked

\* A request that came back leaves the others there.
LEMMA OthersLeft ==
    ASSUME flights \in Seq(Flying), NEW i \in DOMAIN flights, flights' = Without(i), NEW j \in DOMAIN flights, j # i, ~First(j)
    PROVE  (\E k \in DOMAIN flights : ~First(k))'
<1>1. PICK k : k = IF j < i THEN j ELSE j - 1  OBVIOUS
<1>2. Len(flights) \in Nat /\ DOMAIN flights = 1 .. Len(flights)  OBVIOUS
<1>3. k \in 1 .. Len(flights) - 1 /\ j = IF k < i THEN k ELSE k + 1  BY <1>1, <1>2
<1>4. k \in DOMAIN Without(i)  BY <1>3, WithoutOne
<1>5. Without(i)[k].cursor = flights[j].cursor  BY <1>3, <1>4, WithoutOne
<1> QED  BY <1>4, <1>5 DEF First

LEMMA FewerFlights ==
    ASSUME flights \in Seq(Flying), NEW i \in DOMAIN flights, flights' = Without(i), Len(flights) <= MaxFlights
    PROVE  Len(flights') <= MaxFlights
<1>1. Len(flights) \in Nat /\ DOMAIN flights = 1 .. Len(flights)  OBVIOUS
<1>2. Without(i) \in Seq(Flying) /\ DOMAIN Without(i) = 1 .. Len(flights) - 1  BY WithoutOne
<1>3. PICK rest \in Seq(Flying) : rest = Without(i)  BY <1>2
<1>4. Len(rest) \in Nat /\ DOMAIN rest = 1 .. Len(rest)  BY <1>3
<1>5. Len(rest) # 0 => Len(rest) \in 1 .. Len(flights) - 1  BY <1>2, <1>3, <1>4
<1> QED  BY <1>1, <1>3, <1>4, <1>5, TargetPageAssumption DEF TargetPageAssumption

LEMMA PageBoundedNext ==
    ASSUME PageInv, PageBounded, [TargetPageNext]_targetPageVars
    PROVE  PageBounded'
<1>0. /\ flights \in Seq(Flying) /\ clock \in Nat /\ MaxMoment \in Nat /\ MaxFlights \in Nat
      /\ Len(flights) \in Nat /\ DOMAIN flights = 1 .. Len(flights)
  BY TargetPageAssumption DEF PageInv, PageTyped, PageBounded, TargetPageAssumption
<1>1. CASE UNCHANGED <<isLoadingMore, flights>>
  <2>1. clock' \in 0 .. MaxMoment /\ at' \in [Entries -> -1 .. MaxMoment]
    <3>1. CASE Pass  BY <1>0, <3>1 DEF Pass, PageBounded
    <3>2. ASSUME NEW e \in Entries, WriteEntry(e) PROVE clock' \in 0 .. MaxMoment /\ at' \in [Entries -> -1 .. MaxMoment]
      <4>1. PICK delay \in 0 .. (IF e \in Happenings THEN MaxDelay ELSE 0) :
                delay <= clock /\ at' = [at EXCEPT ![e] = clock - delay]
        BY <3>2 DEF WriteEntry
      <4>2. clock - delay \in -1 .. MaxMoment
        <5>1. delay \in Nat  BY TargetPageAssumption DEF TargetPageAssumption
        <5> QED  BY <1>0, <4>1, <5>1 DEF PageBounded
      <4> QED  BY <3>2, <4>1, <4>2 DEF PageBounded, WriteEntry
    <3>3. CASE UNCHANGED <<clock, at>>  BY <3>3 DEF PageBounded
    <3> QED
      BY <3>1, <3>2, <3>3 DEF TargetPageNext, Flight, fetchTargetTimeline, ReceiveFirst, ReceiveMore, Fail,
         handleLoadMore, handleFilterChange, targetPageVars
  <2> QED  BY <1>1, <2>1 DEF PageBounded, LoadingIsAsked, First
<1>2. ASSUME NEW i \in DOMAIN flights, Flight(i) PROVE PageBounded'
  <2>1. clock' = clock /\ at' = at
    BY <1>2 DEF Flight, fetchTargetTimeline, ReceiveFirst, ReceiveMore, Fail
  <2>2. CASE fetchTargetTimeline(i)
    <3>1. PICK a : flights' = [flights EXCEPT ![i].answer = a] /\ isLoadingMore' = isLoadingMore
      BY <2>2 DEF fetchTargetTimeline
    <3>2. /\ DOMAIN flights' = DOMAIN flights /\ Len(flights') = Len(flights)
          /\ \A j \in DOMAIN flights : flights'[j].cursor = flights[j].cursor
      <4>1. PICK f : f = [flights[i] EXCEPT !.answer = a]  OBVIOUS
      <4>2. f.cursor = flights[i].cursor
        <5>1. PICK r \in Flying : r = flights[i]  BY <1>0
        <5>2. [r EXCEPT !.answer = a].cursor = r.cursor  BY DEF Flying
        <5> QED  BY <4>1, <5>1, <5>2
      <4>3. flights' = [flights EXCEPT ![i] = f]  BY <3>1, <4>1
      <4> QED  BY <1>0, <4>2, <4>3
    <3> QED  BY <2>1, <3>1, <3>2 DEF PageBounded, LoadingIsAsked, First
  <2>3. CASE ReceiveFirst(i) \/ ReceiveMore(i) \/ Fail(i)
    <3>1. flights' = Without(i)  BY <2>3 DEF ReceiveFirst, ReceiveMore, Fail
    <3>2. Len(flights') <= MaxFlights  BY <1>0, <3>1, FewerFlights DEF PageBounded
    <3>3. isLoadingMore' => isLoadingMore /\ First(i)
      BY <2>3 DEF ReceiveFirst, ReceiveMore, Fail, First
    <3>4. LoadingIsAsked'
      <4> SUFFICES ASSUME isLoadingMore' PROVE (\E k \in DOMAIN flights : ~First(k))'  BY DEF LoadingIsAsked
      <4>1. PICK j \in DOMAIN flights : ~First(j)  BY <3>3 DEF PageBounded, LoadingIsAsked
      <4> QED  BY <1>0, <3>1, <3>3, <4>1, OthersLeft
    <3> QED  BY <2>1, <3>2, <3>4 DEF PageBounded
  <2> QED  BY <1>2, <2>2, <2>3 DEF Flight
<1>3. CASE handleLoadMore
  <2>1. PICK a : a = Ask(filterKind, at[Last(list.shown)])  OBVIOUS
  <2>2. flights' = Append(flights, a) /\ Len(flights) < MaxFlights /\ UNCHANGED <<clock, at>>
    BY <1>3, <2>1 DEF handleLoadMore
  <2>3. a.cursor # never
    <3>1. list.shown \in Seq(Entries) /\ list.shown # <<>>
      BY <1>3 DEF handleLoadMore, PageInv, PageTyped, Lists
    <3>2. Last(list.shown) \in Shown
      <4>1. PICK q \in Seq(Entries) : q = list.shown /\ q # <<>>  BY <3>1
      <4>2. Len(q) \in DOMAIN q  BY <4>1
      <4> QED  BY <4>1, <4>2 DEF Last, Shown, ToSet
    <3>3. at[Last(list.shown)] # never  BY <3>2 DEF PageInv, PageTyped, Written
    <3> QED  BY <2>1, <3>3 DEF Ask
  <2>4. /\ Len(flights') = Len(flights) + 1 /\ flights'[Len(flights) + 1] = a
        /\ Len(flights) + 1 \in DOMAIN flights'
    BY <1>0, <2>2
  <2>5. Len(flights') <= MaxFlights  BY <1>0, <2>2, <2>4
  <2> QED  BY <2>2, <2>3, <2>4, <2>5 DEF PageBounded, LoadingIsAsked, First
<1>4. ASSUME NEW kind \in Offered, handleFilterChange(kind) PROVE PageBounded'
  <2>1. PICK a, b : AskedFor(kind) = <<a, b>>  BY DEF AskedFor
  <2>2. flights' = flights \o <<a, b>> /\ Len(flights) + 2 <= MaxFlights /\ UNCHANGED <<clock, at, isLoadingMore>>
    BY <1>4, <2>1 DEF handleFilterChange
  <2>3. /\ Len(flights') = Len(flights) + 2
        /\ \A j \in DOMAIN flights : j \in DOMAIN flights' /\ flights'[j] = flights[j]
    <3>1. PICK U : flights \in Seq(U) /\ a \in U /\ b \in U
      <4>1. PICK U : U = Flying \cup {a, b}  OBVIOUS
      <4>2. flights \in Seq(U)  BY <1>0, <4>1
      <4> QED  BY <4>1, <4>2
    <3>2. <<a, b>> \in Seq(U) /\ Len(<<a, b>>) = 2  BY <3>1
    <3>3. PICK t \in Seq(U) : t = <<a, b>> /\ Len(t) = 2  BY <3>2
    <3> QED  BY <1>0, <2>2, <3>1, <3>3
  <2> QED  BY <1>0, <2>2, <2>3 DEF PageBounded, LoadingIsAsked, First
<1> QED  BY <1>1, <1>2, <1>3, <1>4 DEF TargetPageNext, Pass, WriteEntry, targetPageVars

\* Whatever the order of answers, a button that waits for a further page waits for
\* one request, and what is shown is in the tables (target-page.tsx:80-117).
THEOREM TargetPageTypes == TargetPageSpec => []TargetPageTypeOK
<1>1. TargetPageInit => PageBounded
  <2> SUFFICES ASSUME TargetPageInit PROVE PageBounded  OBVIOUS
  <2>1. PICK a : flights = <<a>>  BY DEF TargetPageInit
  <2>2. Len(flights) = 1  BY <2>1
  <2> QED  BY <2>2, TargetPageAssumption DEF TargetPageInit, PageBounded, LoadingIsAsked, TargetPageAssumption, never
<1>2. PageInv /\ PageBounded /\ [TargetPageNext]_targetPageVars => PageBounded'  BY PageBoundedNext
<1>3. PageInv /\ PageBounded => TargetPageTypeOK
  <2> SUFFICES ASSUME PageInv, PageBounded PROVE TargetPageTypeOK  OBVIOUS
  <2> DEFINE Further == {i \in DOMAIN flights : flights[i].cursor # never}
  <2>1. Cardinality(Further) = IF isLoadingMore THEN 1 ELSE 0
    <3>1. CASE isLoadingMore
      <4>1. PICK i \in DOMAIN flights : ~First(i)  BY <3>1 DEF PageBounded, LoadingIsAsked
      <4>2. Further = {i}  BY <4>1 DEF PageInv, Continues, First
      <4> QED  BY <3>1, <4>2, FS_Singleton
    <3>2. CASE ~isLoadingMore
      <4>1. Further = {}  BY <3>2 DEF PageInv, Continues, First
      <4> QED  BY <3>2, <4>1, FS_EmptySet
    <3> QED  BY <3>1, <3>2
  <2>2. list.hasMore \in BOOLEAN /\ list.loaded \in BOOLEAN /\ list.kind \in Offered
    BY DEF PageInv, PageTyped, Lists
  <2> QED  BY <2>1, <2>2 DEF PageInv, PageTyped, PageBounded, TargetPageTypeOK
<1> QED  BY <1>1, <1>2, <1>3, PageInit, PageKept, PTL DEF TargetPageSpec

-----------------------------------------------------------------------------
(* Readings: types *)

\* Whatever points to a row points to one that was made.
RowsBounded ==
    /\ date \in 0 .. LastDay /\ Len(rows) <= MaxRows /\ lost \subseteq DOMAIN rows
    /\ \A p \in Visitors \cup Members : view[p].row \in DOMAIN rows \cup {0}
    /\ \A m \in Members : \A c \in checks[m] : c[1] \in DOMAIN rows \cup {0}

\* A row that is changed stays where it is.
LEMMA RowsStay ==
    ASSUME ReadingsInv, NEW U, NEW new \in [DOMAIN rows -> U]
    PROVE  DOMAIN new = DOMAIN rows /\ Len(new) = Len(rows)
<1>1. PICK n \in Nat : n = Len(rows) /\ DOMAIN rows = 1 .. n
  BY DEF ReadingsInv, ReadingsTyped
<1>2. new \in [1 .. n -> U]  BY <1>1
<1>3. new \in Seq(U)  BY <1>2
<1>4. Len(new) \in Nat /\ DOMAIN new = 1 .. Len(new) /\ DOMAIN new = 1 .. n  BY <1>2, <1>3
<1>5. Len(new) = n
  <2>1. PICK k \in Nat : k = Len(new)  BY <1>4
  <2>2. 1 .. k = 1 .. n  BY <1>4, <2>1
  <2>3. k <= n /\ n <= k
    <3>1. k > 0 => k \in 1 .. n  BY <2>1, <2>2
    <3>2. n > 0 => n \in 1 .. k  BY <2>1, <2>2
    <3> QED  BY <3>1, <3>2
  <2> QED  BY <2>1, <2>3
<1> QED  BY <1>1, <1>4, <1>5

LEMMA RowFilled ==
    ASSUME ReadingsInv, NEW r, NEW x, rows' = [rows EXCEPT ![r].result = x, ![r].error = FALSE]
    PROVE  DOMAIN rows' = DOMAIN rows /\ Len(rows') = Len(rows)
<1>1. PICK U : U = {rows'[i] : i \in DOMAIN rows}  OBVIOUS
<1>2. rows' \in [DOMAIN rows -> U]  BY <1>1
<1> QED  BY <1>2, RowsStay

LEMMA RowSet ==
    ASSUME ReadingsInv, NEW r, NEW e, rows' = [rows EXCEPT ![r] = e]
    PROVE  DOMAIN rows' = DOMAIN rows /\ Len(rows') = Len(rows)
<1>1. PICK U : U = {rows'[i] : i \in DOMAIN rows}  OBVIOUS
<1>2. rows' \in [DOMAIN rows -> U]  BY <1>1
<1> QED  BY <1>2, RowsStay

\* Rows are added, one at a time, and changed; none goes.
LEMMA RowsGrow ==
    ASSUME ReadingsInv, Len(rows) <= MaxRows,
           \/ rows' = rows \/ (DOMAIN rows' = DOMAIN rows /\ Len(rows') = Len(rows))
           \/ Len(rows) < MaxRows /\ \E row : rows' = Append(rows, row)
    PROVE  DOMAIN rows \subseteq DOMAIN rows' /\ Len(rows') <= MaxRows
<1>1. rows \in Seq(Row) /\ Len(rows) \in Nat /\ MaxRows \in Nat
  BY ReadingsAssumption DEF ReadingsInv, ReadingsTyped
<1>2. CASE rows' = rows  BY <1>2
<1>3. CASE DOMAIN rows' = DOMAIN rows /\ Len(rows') = Len(rows)  BY <1>3
<1>4. ASSUME NEW row, rows' = Append(rows, row), Len(rows) < MaxRows
      PROVE  DOMAIN rows \subseteq DOMAIN rows' /\ Len(rows') <= MaxRows
  <2>1. PICK U : U = Row \cup {row}  OBVIOUS
  <2>2. rows \in Seq(U) /\ row \in U  BY <1>1, <2>1
  <2>3. Len(rows') = Len(rows) + 1 /\ DOMAIN rows' = 1 .. Len(rows) + 1 /\ DOMAIN rows = 1 .. Len(rows)
    BY <1>4, <2>2
  <2>4. DOMAIN rows \subseteq DOMAIN rows'
    <3>1. PICK n \in Nat : n = Len(rows)  BY <1>1
    <3>2. 1 .. n \subseteq 1 .. n + 1  BY <3>1
    <3> QED  BY <2>3, <3>1, <3>2
  <2>5. Len(rows') <= MaxRows
    <3>1. PICK n \in Nat : n = Len(rows)  BY <1>1
    <3>2. Len(rows') = n + 1 /\ n < MaxRows  BY <1>4, <2>3, <3>1
    <3> QED  BY <1>1, <3>2
  <2> QED  BY <2>4, <2>5
<1> QED  BY <1>2, <1>3, <1>4

\* A row that is added is the last one.
LEMMA RowLast ==
    ASSUME ReadingsInv, NEW row, rows' = Append(rows, row)
    PROVE  Len(rows) + 1 \in DOMAIN rows'
<1>1. PICK U : U = Row \cup {row}  OBVIOUS
<1>2. rows \in Seq(U) /\ row \in U  BY <1>1 DEF ReadingsInv, ReadingsTyped
<1>3. DOMAIN rows' = 1 .. Len(rows) + 1 /\ Len(rows) \in Nat  BY <1>2
<1> QED  BY <1>3

\* A step of the bot, the worker, or the person who confirms, which touches no page.
LEMMA PagesBounded ==
    ASSUME ReadingsInv, RowsBounded, date' = date, UNCHANGED <<view, checks>>, lost' \subseteq lost \cup DOMAIN rows,
           \/ rows' = rows \/ (DOMAIN rows' = DOMAIN rows /\ Len(rows') = Len(rows))
           \/ Len(rows) < MaxRows /\ \E row : rows' = Append(rows, row)
    PROVE  RowsBounded'
<1>1. DOMAIN rows \subseteq DOMAIN rows' /\ Len(rows') <= MaxRows  BY RowsGrow DEF RowsBounded
<1> QED  BY <1>1 DEF RowsBounded

LEMMA BotBounded ==
    ASSUME ReadingsInv, RowsBounded, NEW h \in Updates,
           \/ \E p \in Chatters, s \in Sites : handleSignupInput(h, p, s)
           \/ startAnonDiscovery(h) \/ CopyResult(h) \/ startTelegramSignup(h)
           \/ EnqueueReading(h) \/ ListCopy(h) \/ HandlerFails(h)
    PROVE  RowsBounded'
<1>1. HandlerTrue(h) /\ handler[h].row \in DOMAIN rows \cup {0}
  <2>1. HandlerTrue(h) /\ handler[h] \in Handling  BY RowsAre DEF ReadingsInv
  <2> QED  BY <2>1 DEF HandlerTrue
<1>2. date' = date /\ UNCHANGED <<view, checks>> /\ lost' \subseteq lost \cup DOMAIN rows
  BY <1>1 DEF handleSignupInput, startAnonDiscovery, CopyResult, startTelegramSignup, EnqueueReading, ListCopy, HandlerFails
<1>3. CASE startAnonDiscovery(h)  BY <1>2, <1>3, PagesBounded DEF startAnonDiscovery, createPendingOnboarding
<1>4. CASE CopyResult(h)
  <2>1. PICK x : rows' = [rows EXCEPT ![handler[h].row].result = x, ![handler[h].row].error = FALSE]
    BY <1>4 DEF CopyResult, updatePendingDiscoveryResult
  <2>2. DOMAIN rows' = DOMAIN rows /\ Len(rows') = Len(rows)  BY <2>1, RowFilled
  <2> QED  BY <1>2, <2>2, PagesBounded
<1>5. CASE startTelegramSignup(h)
  <2>1. \E e : rows' = [rows EXCEPT ![handler[h].row] = e]  BY <1>5 DEF startTelegramSignup
  <2>2. DOMAIN rows' = DOMAIN rows /\ Len(rows') = Len(rows)  BY <2>1, RowSet
  <2> QED  BY <1>2, <2>2, PagesBounded
<1>6. CASE rows' = rows  BY <1>2, <1>6, PagesBounded
<1> QED  BY <1>3, <1>4, <1>5, <1>6 DEF handleSignupInput, EnqueueReading, ListCopy, HandlerFails

LEMMA WorkerBounded ==
    ASSUME ReadingsInv, RowsBounded,
           \/ \E r \in DOMAIN rows : Confirm(r) \/ TakeJob(r)
           \/ \E reads, costs \in BOOLEAN : discover(reads, costs)
           \/ CannotRead \/ tellTelegramSignup \/ WorkerFails
    PROVE  RowsBounded'
<1>1. worker # Resting => worker.step # "free" \/ worker.row = 0
  BY DEF ReadingsInv, WorkerTrue
<1>2. worker.step # "free" => worker.row \in DOMAIN rows  BY DEF ReadingsInv, WorkerTrue
<1>3. worker.step = "free" => worker = Resting
  <2>1. worker \in [row : Nat, step : {"free", "refused", "reading", "tell"}] /\ (worker.step = "free" => worker.row = 0)
    BY DEF ReadingsInv, ReadingsTyped, WorkerTrue
  <2> QED  BY <2>1 DEF Resting
<1>4. date' = date /\ UNCHANGED <<view, checks>> /\ lost' \subseteq lost \cup DOMAIN rows
  BY <1>2, <1>3 DEF Confirm, TakeJob, discover, CannotRead, tellTelegramSignup, WorkerFails
<1>5. CASE \E r \in DOMAIN rows : Confirm(r)
  <2>1. PICK r \in DOMAIN rows : rows' = [rows EXCEPT ![r].used = TRUE]  BY <1>5 DEF Confirm
  <2>2. \E e : rows' = [rows EXCEPT ![r] = e]  BY <2>1
  <2>3. DOMAIN rows' = DOMAIN rows /\ Len(rows') = Len(rows)  BY <2>2, RowSet
  <2> QED  BY <1>4, <2>3, PagesBounded
<1>6. CASE \E reads, costs \in BOOLEAN : discover(reads, costs)
  <2>1. \/ \E x : rows' = [rows EXCEPT ![worker.row].result = x, ![worker.row].error = FALSE]
        \/ \E e : rows' = [rows EXCEPT ![worker.row] = e]
    BY <1>6 DEF discover, updatePendingDiscoveryResult, recordPendingDiscoveryFailure
  <2>2. DOMAIN rows' = DOMAIN rows /\ Len(rows') = Len(rows)  BY <2>1, RowFilled, RowSet
  <2> QED  BY <1>4, <2>2, PagesBounded
<1>7. CASE CannotRead
  <2>1. \E e : rows' = [rows EXCEPT ![worker.row] = e]  BY <1>7 DEF CannotRead, recordPendingDiscoveryFailure
  <2>2. DOMAIN rows' = DOMAIN rows /\ Len(rows') = Len(rows)  BY <2>1, RowSet
  <2> QED  BY <1>4, <2>2, PagesBounded
<1>8. CASE rows' = rows  BY <1>4, <1>8, PagesBounded
<1> QED  BY <1>5, <1>6, <1>7, <1>8 DEF TakeJob, tellTelegramSignup, WorkerFails

LEMMA VisitorBounded ==
    ASSUME ReadingsInv, RowsBounded, NEW v \in Visitors,
           poll(v) \/ \E s \in Sites, fails \in BOOLEAN : startDiscovery(v, s, fails)
    PROVE  RowsBounded'
<1>1. DOMAIN view = Visitors \cup Members  BY DEF ReadingsInv, ReadingsTyped
<1>2. CASE poll(v)
  <2>1. PICK page : /\ view' = [view EXCEPT ![v] = page]
                    /\ page \in {Page("failed", 0), Page("review", view[v].row), view[v]}
    BY <1>2 DEF poll
  <2>2. page.row \in {0, view[v].row}  BY <2>1 DEF Page
  <2> QED  BY <1>1, <1>2, <2>1, <2>2 DEF poll, RowsBounded
<1>3. ASSUME NEW s \in Sites, NEW fails \in BOOLEAN, startDiscovery(v, s, fails) PROVE RowsBounded'
  <2>1. PICK row : /\ rows' = Append(rows, row) /\ Len(rows) < MaxRows
                   /\ view' = view \/ view' = [view EXCEPT ![v] = Page("reading", Len(rows) + 1)]
                   /\ lost' \subseteq lost \cup {Len(rows) + 1} /\ date' = date /\ checks' = checks
    BY <1>3 DEF startDiscovery
  <2>2. DOMAIN rows \subseteq DOMAIN rows' /\ Len(rows') <= MaxRows  BY <2>1, RowsGrow DEF RowsBounded
  <2>3. Len(rows) + 1 \in DOMAIN rows'  BY <2>1, RowLast
  <2>4. Page("reading", Len(rows) + 1).row = Len(rows) + 1  BY DEF Page
  <2>5. ASSUME NEW p \in Visitors \cup Members PROVE view'[p].row \in DOMAIN rows' \cup {0}
    BY <1>1, <2>1, <2>2, <2>3, <2>4 DEF RowsBounded
  <2> QED  BY <2>1, <2>2, <2>3, <2>5 DEF RowsBounded
<1> QED  BY <1>2, <1>3

LEMMA MemberBounded ==
    ASSUME ReadingsInv, RowsBounded, NEW m \in Members,
           \/ AskDiscovery(m) \/ SaveReview(m)
           \/ \E s \in Sites : StartAsMember(m, s)
           \/ \E dropped \in BOOLEAN : checkDiscovery(m, dropped)
    PROVE  RowsBounded'
<1>1. DOMAIN view = Visitors \cup Members /\ DOMAIN checks = Members  BY DEF ReadingsInv, ReadingsTyped
<1>2. view[m].row \in DOMAIN rows \cup {0}  BY DEF RowsBounded
<1>3. CASE AskDiscovery(m)
  <2>1. PICK n : checks' = [checks EXCEPT ![m] = @ \cup {<<view[m].row, n>>}]  BY <1>3 DEF AskDiscovery
  <2>2. ASSUME NEW k \in Members, NEW c \in checks'[k] PROVE c \in checks[k] \/ c = <<view[m].row, n>>
    BY <1>1, <2>1, <2>2
  <2>3. <<view[m].row, n>>[1] = view[m].row  OBVIOUS
  <2>4. \A k \in Members : \A c \in checks'[k] : c[1] \in DOMAIN rows \cup {0}
    BY <1>2, <2>2, <2>3 DEF RowsBounded
  <2> QED  BY <1>3, <2>4 DEF AskDiscovery, RowsBounded
<1>4. CASE SaveReview(m)
  <2>1. view' = [view EXCEPT ![m] = Page("saved", view[m].row)]  BY <1>4 DEF SaveReview
  <2>2. Page("saved", view[m].row).row = view[m].row  BY DEF Page
  <2> QED  BY <1>1, <1>4, <2>1, <2>2 DEF SaveReview, RowsBounded
<1>5. ASSUME NEW s \in Sites, StartAsMember(m, s) PROVE RowsBounded'
  <2>1. PICK row : /\ rows' = Append(rows, row) /\ Len(rows) < MaxRows
                   /\ view' = [view EXCEPT ![m] = Page("reading", Len(rows) + 1)]
                   /\ UNCHANGED <<date, checks, lost>>
    BY <1>5 DEF StartAsMember, createPendingOnboarding
  <2>2. DOMAIN rows \subseteq DOMAIN rows' /\ Len(rows') <= MaxRows  BY <2>1, RowsGrow DEF RowsBounded
  <2>3. Len(rows) + 1 \in DOMAIN rows'  BY <2>1, RowLast
  <2>4. Page("reading", Len(rows) + 1).row = Len(rows) + 1  BY DEF Page
  <2>5. ASSUME NEW p \in Visitors \cup Members PROVE view'[p].row \in DOMAIN rows' \cup {0}
    BY <1>1, <2>1, <2>2, <2>3, <2>4 DEF RowsBounded
  <2> QED  BY <2>1, <2>2, <2>5 DEF RowsBounded
<1>6. ASSUME NEW dropped \in BOOLEAN, checkDiscovery(m, dropped) PROVE RowsBounded'
  <2>1. PICK c \in checks[m] :
            /\ checks' = [checks EXCEPT ![m] = @ \ {c}]
            /\ \/ UNCHANGED view
               \/ \E n \in {Page("input", 0)} \cup PageAfter(c[1]) : view' = [view EXCEPT ![m] = n]
            /\ UNCHANGED <<date, rows, lost>>
    BY <1>6 DEF checkDiscovery
  <2>2. c[1] \in DOMAIN rows \cup {0}  BY DEF RowsBounded
  <2>3. ASSUME NEW n \in {Page("input", 0)} \cup PageAfter(c[1]) PROVE n.row \in DOMAIN rows \cup {0}
    <3>1. n \in {Page("input", 0), Page("review", c[1])}  BY <2>3 DEF PageAfter
    <3> QED  BY <2>2, <3>1 DEF Page
  <2>4. ASSUME NEW p \in Visitors \cup Members PROVE view'[p].row \in DOMAIN rows \cup {0}
    BY <1>1, <2>1, <2>3 DEF RowsBounded
  <2>5. \A k \in Members : checks'[k] \subseteq checks[k]  BY <1>1, <2>1
  <2> QED  BY <2>1, <2>4, <2>5 DEF RowsBounded
<1> QED  BY <1>3, <1>4, <1>5, <1>6

LEMMA RowsBoundedNext ==
    ASSUME ReadingsInv, RowsBounded, [ReadingsNext]_readingsVars PROVE RowsBounded'
<1>1. CASE UNCHANGED readingsVars  BY <1>1 DEF readingsVars, RowsBounded
<1>2. CASE NightFalls
  <2>1. date' \in 0 .. LastDay  BY <1>2, ReadingsAssumption DEF NightFalls, RowsBounded
  <2> QED  BY <1>2, <2>1 DEF NightFalls, RowsBounded
<1> QED  BY <1>1, <1>2, BotBounded, WorkerBounded, VisitorBounded, MemberBounded DEF ReadingsNext

\* Whatever fails between the steps, whoever waits, and whatever was said or lost,
\* is about a row that was made (pending.ts, onboarding.ts).
THEOREM ReadingsTypes == ReadingsSpec => []ReadingsTypeOK
<1>1. ReadingsInit => RowsBounded
  <2> SUFFICES ASSUME ReadingsInit PROVE RowsBounded  OBVIOUS
  <2>1. Len(rows) = 0 /\ LastDay \in Nat /\ MaxRows \in Nat  BY ReadingsAssumption DEF ReadingsInit
  <2>2. Page("input", 0).row = 0  BY DEF Page
  <2> QED  BY <2>1, <2>2 DEF ReadingsInit, RowsBounded
<1>2. ReadingsInv /\ RowsBounded /\ [ReadingsNext]_readingsVars => RowsBounded'  BY RowsBoundedNext
<1>3. ReadingsInv /\ RowsBounded => ReadingsTypeOK
  <2> SUFFICES ASSUME ReadingsInv, RowsBounded PROVE ReadingsTypeOK  OBVIOUS
  <2>1. \A r \in DOMAIN rows : rows[r].owner \in Chatters \cup {none} /\ rows[r].result \in Sites \cup {none}
    <3>1. \A r \in DOMAIN rows : rows[r] \in Row  BY RowsAre
    <3> QED  BY <3>1 DEF Row
  <2>2. worker.row \in DOMAIN rows \cup {0}
    BY DEF ReadingsInv, WorkerTrue
  <2>3. \A h \in Updates : handler[h].row \in DOMAIN rows \cup {0}  BY DEF ReadingsInv, HandlerTrue
  <2>4. Cardinality(spent) <= MaxRows
    <3>1. Len(rows) \in Nat /\ DOMAIN rows = 1 .. Len(rows) /\ Cardinality(spent) \in Nat  BY RowsAre
    <3>2. PICK n \in Nat : n = Len(rows)  BY <3>1
    <3>3. IsFiniteSet(1 .. n) /\ Cardinality(1 .. n) = n
      <4>1. 1 \in Int /\ n \in Int  OBVIOUS
      <4>2. IsFiniteSet(1 .. n) /\ Cardinality(1 .. n) = IF 1 > n THEN 0 ELSE n - 1 + 1  BY <4>1, FS_Interval
      <4> QED  BY <4>2
    <3>4. spent \subseteq 1 .. n  BY <3>1, <3>2 DEF ReadingsInv, ReadingsTyped
    <3>5. Cardinality(spent) <= n  BY <3>3, <3>4, FS_Subset
    <3> QED  BY <3>1, <3>2, <3>5, ReadingsAssumption DEF RowsBounded
  <2> QED  BY <2>1, <2>2, <2>3, <2>4 DEF ReadingsInv, ReadingsTyped, RowsBounded, ReadingsTypeOK
<1> QED  BY <1>1, <1>2, <1>3, ReadingsInitTrue, ReadingsKept, PTL DEF ReadingsSpec

=============================================================================
