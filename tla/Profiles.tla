------------------------------ MODULE Profiles ------------------------------
(***************************************************************************)
(* Watch profiles of one tenant: making, saving and removing them, adding  *)
(* competitors, the plan's limit on targets and the versions that say what *)
(* was watched when (packages/domain/src/profiles, plans/limits.ts).       *)
(*                                                                         *)
(* Every writer is one transaction at READ COMMITTED: it sees what is      *)
(* committed at each statement and its own writes, and its writes are seen *)
(* when it commits.  Row locks and unique indexes make it wait, or fail.   *)
(***************************************************************************)
EXTENDS Integers, FiniteSets

CONSTANTS
    ProfileIds,     \* profiles the tenant may come to have
    Names,          \* targets, by name
    Selves,         \* targets of kind "self": the business itself
    Writers,        \* transactions that may be open at once
    TargetLimits,   \* plans, by the targets they allow
    ProfileLimit,   \* profiles the plan allows
    MaxVersion      \* bound on versions

ASSUME ProfilesAssumption ==
    /\ Selves \subseteq Names /\ TargetLimits \subseteq Nat /\ TargetLimits # {}
    /\ ProfileLimit \in Nat /\ MaxVersion \in Nat \ {0}
    /\ IsFiniteSet(ProfileIds) /\ IsFiniteSet(Names)

VARIABLES
    limit,          \* targets the tenant's plan allows now
    alive,          \* profiles made and not removed
    gone,           \* profiles removed
    targets,        \* watch_targets, by name
    version,        \* the newest watch_profile_versions row: its number ...
    snapshot,       \* ... and the targets it says were watched
    writer,         \* the transactions
    sideBySide,     \* history: two writers were open at once
    addedBeside,    \* history: ... and one of them was adding competitors
    cutBack         \* history: the plan was changed for a smaller one

stored == <<alive, gone, targets, version, snapshot>>
aside == <<sideBySide, addedBeside, cutBack>>
profilesVars == <<limit, stored, writer, aside>>

NoWriter == [op |-> "idle", kind |-> "save", profile |-> "none",
             desired |-> {}, existing |-> {}, seen |-> {}, number |-> 0]

ProfilesTypeOK ==
    /\ limit \in TargetLimits /\ alive \subseteq ProfileIds /\ gone \subseteq ProfileIds
    /\ targets \in [ProfileIds -> SUBSET Names]
    /\ version \in [ProfileIds -> 0 .. MaxVersion] /\ snapshot \in [ProfileIds -> SUBSET Names]
    /\ writer \in [Writers -> [op: {"idle", "lock", "read", "write", "view", "number", "insert", "commit"},
                               kind: {"create", "save", "add"}, profile: ProfileIds \cup {"none"},
                               desired: SUBSET Names, existing: SUBSET Names, seen: SUBSET Names,
                               number: 0 .. MaxVersion]]
    /\ sideBySide \in BOOLEAN /\ addedBeside \in BOOLEAN /\ cutBack \in BOOLEAN
    /\ alive \cap gone = {}

ProfilesInit ==
    /\ limit \in TargetLimits /\ alive = {} /\ gone = {}
    /\ targets = [p \in ProfileIds |-> {}]
    /\ version = [p \in ProfileIds |-> 0] /\ snapshot = [p \in ProfileIds |-> {}]
    /\ writer = [w \in Writers |-> NoWriter]
    /\ sideBySide = FALSE /\ addedBeside = FALSE /\ cutBack = FALSE

-----------------------------------------------------------------------------
(* What a transaction sees and holds *)

Open == {w \in Writers : writer[w].op # "idle"}

\* The other transactions of a writer's profile.
Rivals(w) == {v \in Open \ {w} : writer[v].profile = writer[w].profile}

Go(w, row) == writer' = [writer EXCEPT ![w] = row]

Rows(w) == writer[w].desired \cup writer[w].existing

HasWritten(w) == writer[w].op \in {"view", "number", "insert", "commit"}

\* Mutant: the profile's row is updated last, and locked no sooner.
LockedLast(w) == writer[w].kind = "save" /\ writer[w].op = "commit"

\* A save updates the profile's row first, and holds it until it ends.
HoldsRow(w) == writer[w].kind = "save" /\ writer[w].op \notin {"idle", "lock"}

\* What is stored, as the transaction that has written sees it.
View(w) ==
    (targets[writer[w].profile] \ (writer[w].existing \ writer[w].desired))
        \cup (writer[w].desired \ writer[w].existing)

-----------------------------------------------------------------------------
(* The plan *)

setTenantPlan(n) ==
    /\ limit' = n /\ cutBack' = (cutBack \/ n < limit)
    /\ UNCHANGED <<stored, writer, sideBySide, addedBeside>>

\* Mutant: only the profile at hand is counted.
NoneElsewhere(p) == 0

countTargetsOutside(p) == Cardinality({t \in (alive \ {p}) \X Names : t[2] \in targets[t[1]]})

\* The targets of the other profiles are counted with the business itself, those
\* at hand as the caller counts them.
assertProfileWithinPlan(p, count) ==
    /\ p \notin alive => Cardinality(alive) < ProfileLimit
    /\ countTargetsOutside(p) + count <= limit

-----------------------------------------------------------------------------
(* The writers *)

\* The checks that open a transaction: its profile, and the plan.
Begin(w, row) ==
    /\ writer[w].op = "idle"
    /\ Go(w, row)
    /\ sideBySide' = (sideBySide \/ Open # {})
    /\ addedBeside' = (addedBeside \/ \E v \in Open : "add" \in {row.kind, writer[v].kind})
    /\ UNCHANGED <<limit, stored, cutBack>>

\* createWatchProfile counts every target, createProfileFromDiscovery leaves the
\* business itself out.  Nobody sees any of it before it commits.
createWatchProfile(w, p, desired, discovered) ==
    /\ p \notin alive \cup gone /\ \A v \in Open : writer[v].profile # p
    /\ assertProfileWithinPlan(p, Cardinality(IF discovered THEN desired \ Selves ELSE desired))
    /\ Begin(w, [NoWriter EXCEPT !.op = "commit", !.kind = "create", !.profile = p, !.desired = desired,
                                 !.seen = desired, !.number = 1])

saveWatchProfile(w, p, desired) ==
    /\ p \in alive /\ assertProfileWithinPlan(p, Cardinality(desired))
    /\ Begin(w, [NoWriter EXCEPT !.op = "lock", !.profile = p, !.desired = desired])

\* What is there stays; with nothing new there is nothing to do.
addCompetitors(w, p, new) ==
    /\ p \in alive /\ new \cap Selves = {} /\ ~(new \subseteq targets[p])
    /\ assertProfileWithinPlan(p, Cardinality(targets[p] \cup new))
    /\ Begin(w, [NoWriter EXCEPT !.op = "read", !.kind = "add", !.profile = p,
                                 !.desired = targets[p] \cup new])

End(w) == Go(w, NoWriter) /\ UNCHANGED <<limit, stored, aside>>

LockRow(w) ==
    /\ writer[w].op = "lock" /\ \A v \in Rivals(w) : ~HoldsRow(v)
    /\ writer[w].profile \in alive
    /\ Go(w, [writer[w] EXCEPT !.op = "read"])
    /\ UNCHANGED <<limit, stored, aside>>

NotFound(w) ==
    /\ writer[w].op \in {"lock", "view"} /\ writer[w].profile \notin alive
    /\ writer[w].kind # "create"
    /\ End(w)

\* syncTargets reads what is stored ...
ReadStored(w) ==
    /\ writer[w].op = "read"
    /\ Go(w, [writer[w] EXCEPT !.op = "write", !.existing = targets[writer[w].profile]])
    /\ UNCHANGED <<limit, stored, aside>>

\* ... and brings it in line, waiting for any row a rival has written.
RowsFree(w) == \A v \in Rivals(w) : HasWritten(v) => Rows(v) \cap Rows(w) = {}

syncTargets(w) ==
    /\ writer[w].op = "write" /\ RowsFree(w)
    /\ (writer[w].desired \ writer[w].existing) \cap targets[writer[w].profile] = {}
    /\ Go(w, [writer[w] EXCEPT !.op = "view"])
    /\ UNCHANGED <<limit, stored, aside>>

\* The unique index on the name refuses what a rival has inserted meanwhile.
NameTaken(w) ==
    /\ writer[w].op = "write" /\ RowsFree(w)
    /\ (writer[w].desired \ writer[w].existing) \cap targets[writer[w].profile] # {}
    /\ End(w)

\* recordVersionIfChanged: the targets are read back from the database ...
buildSelectionSnapshot(w) ==
    /\ writer[w].op = "view" /\ writer[w].profile \in alive
    /\ Go(w, [writer[w] EXCEPT !.op = "number", !.seen = View(w)])
    /\ UNCHANGED <<limit, stored, aside>>

\* ... then the newest version is; one that says the same is good enough.
findCurrentSnapshot(w) ==
    LET p == writer[w].profile
    IN  /\ writer[w].op = "number" /\ version[p] < MaxVersion
        /\ Go(w, IF snapshot[p] = writer[w].seen THEN [writer[w] EXCEPT !.op = "commit"]
                 ELSE [writer[w] EXCEPT !.op = "insert", !.number = version[p] + 1])
        /\ UNCHANGED <<limit, stored, aside>>

\* A rival with the same number and not yet committed is waited for.
NumberFree(w) ==
    \A v \in Rivals(w) : writer[v].op = "commit" => writer[v].number # writer[w].number

InsertVersion(w) ==
    /\ writer[w].op = "insert" /\ NumberFree(w)
    /\ version[writer[w].profile] < writer[w].number
    /\ Go(w, [writer[w] EXCEPT !.op = "commit"])
    /\ UNCHANGED <<limit, stored, aside>>

NumberTaken(w) ==
    /\ writer[w].op = "insert" /\ NumberFree(w)
    /\ version[writer[w].profile] >= writer[w].number
    /\ End(w)

\* A new version is pointed at from the profile's row, which takes its lock.
Commit(w) ==
    LET p == writer[w].profile
    IN  /\ writer[w].op = "commit"
        /\ writer[w].number > 0 => \A v \in Rivals(w) : ~HoldsRow(v)
        /\ alive' = IF writer[w].kind = "create" THEN alive \cup {p} ELSE alive
        /\ targets' = [targets EXCEPT ![p] = View(w)]
        /\ version' = [version EXCEPT ![p] = IF writer[w].number > 0 THEN writer[w].number ELSE @]
        /\ snapshot' = [snapshot EXCEPT ![p] = IF writer[w].number > 0 THEN writer[w].seen ELSE @]
        /\ Go(w, NoWriter)
        /\ UNCHANGED <<limit, gone, aside>>

\* The process dies, or the database picks the transaction to end a deadlock.
RollBack(w) == writer[w].op # "idle" /\ End(w)

\* Mutant: the row is marked, and still listed.
MarkedOnly(p) ==
    /\ p \in alive /\ gone' = gone \cup {p}
    /\ UNCHANGED <<limit, alive, targets, version, snapshot, writer, aside>>

\* One statement, which waits for the profile's row.
deleteWatchProfile(p) ==
    /\ p \in alive /\ \A w \in Open : writer[w].profile = p => ~HoldsRow(w)
    /\ alive' = alive \ {p} /\ gone' = gone \cup {p}
    /\ UNCHANGED <<limit, targets, version, snapshot, writer, aside>>

WriterStep(w) ==
    \/ LockRow(w) \/ NotFound(w) \/ ReadStored(w) \/ syncTargets(w) \/ NameTaken(w)
    \/ buildSelectionSnapshot(w) \/ findCurrentSnapshot(w) \/ InsertVersion(w) \/ NumberTaken(w)
    \/ Commit(w) \/ RollBack(w)

ProfilesNext ==
    \/ \E n \in TargetLimits \ {limit} : setTenantPlan(n)
    \/ \E p \in ProfileIds : deleteWatchProfile(p)
    \/ \E w \in Writers : WriterStep(w)
    \/ \E w \in Writers, p \in ProfileIds, set \in SUBSET Names :
           \/ \E discovered \in BOOLEAN : createWatchProfile(w, p, set, discovered)
           \/ saveWatchProfile(w, p, set)
           \/ addCompetitors(w, p, set)

ProfilesSpec == ProfilesInit /\ [][ProfilesNext]_profilesVars

-----------------------------------------------------------------------------
(* Properties *)

\* Profiles made and saved one at a time, by either form and by the command for
\* competitors, never pass the plan, the business itself left out, however the
\* targets are spread over profiles (limits.ts:83).
WithinPlan ==
    ~sideBySide /\ ~cutBack =>
        /\ Cardinality(alive) <= ProfileLimit
        /\ Cardinality({t \in alive \X (Names \ Selves) : t[2] \in targets[t[1]]}) <= limit

\* The newest version of a profile says what is stored, through saves that run
\* side by side, fail or are refused, and profiles removed under them; only
\* adding competitors beside another writer is left out (write.ts:193).
VersionTellsTruth ==
    ~addedBeside => \A p \in alive : snapshot[p] = targets[p]

=============================================================================
