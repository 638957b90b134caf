----------------------------- MODULE BackupStore -----------------------------
(***************************************************************************)
(* Backup, retention and restore: runs started by the sidecar's cron or by *)
(* the CLI, in any number of processes and without a lock between them,    *)
(* write bundles to one destination and prune it; an operator restores a   *)
(* bundle or drills it.                                                    *)
(*                                                                         *)
(* A bundle is named by the second its run started in.  Of an artifact's   *)
(* bytes it matters which run wrote them, which state of the store they    *)
(* hold and whether they are whole, so a checksum is the identity of the   *)
(* run that wrote the bytes.                                               *)
(***************************************************************************)
EXTENDS Naturals, FiniteSets

CONSTANTS
    Runs,            \* invocations of run_backup
    NoRun,
    NoObject,        \* no object at the destination; an empty target
    Production,      \* what a target holds before it is restored
    Damaged,         \* what a restore that failed half way leaves
    Managed,         \* scope: the stores Précis backs up
    Keep, Days,      \* retention per store, 0: the key is not set
    Period,          \* schedule.cron: every multiple of Period
    Local,           \* destination.type is 'local': no atomic puts
    Worm,            \* the destination may deny a delete
    Requests,        \* what the operator asks for, {} for all stores
    MaxClock,        \* bound: seconds
    MaxChanges,      \* bound: loads between a dump and the count of its rows
    MaxFailures,     \* bound: stores, puts and deletes that fail
    MaxProbeErrors,  \* bound: outages in which size_of fails on what is there
    MaxRestores,     \* bound: restores and drills
    LastRestore      \* bound: the last second with one

Stores == {"postgres", "clickhouse", "instance", "files"}
Databases == {"postgres", "clickhouse"}
Targets == Databases \union {"files"}
Ids == 1 .. MaxClock

\* run_backup attempts the stores in this order, whatever becomes of each, and
\* skips those of external scope.
Position == [postgres |-> 1, clickhouse |-> 2, instance |-> 3, files |-> 4]
First(S) == CHOOSE s \in S : \A t \in S : Position[s] <= Position[t]
Following(s) ==
    LET rest == {t \in Managed : Position[t] > Position[s]}
    IN  IF rest = {} THEN "manifest" ELSE First(rest)

\* The stores a process pushes itself and a restore fetches.
Fetched == {"postgres", "instance", "files"}

ASSUME RetentionAssumption == Keep \in [Stores -> Nat] /\ Days \in [Stores -> Nat]
ASSUME ScopeAssumption ==
    Managed \subseteq Stores /\ "instance" \in Managed
ASSUME CronAssumption == {Period, MaxClock} \subseteq Nat \ {0}
ASSUME SwitchAssumption == Local \in BOOLEAN /\ Worm \in BOOLEAN
ASSUME ObjectsAssumption == NoObject \notin [by : Runs \union {NoRun}, whole : BOOLEAN]
ASSUME RequestsAssumption ==
    \A q \in Requests : /\ q.want \subseteq Stores
                       /\ {q.drill, q.force, q.keep} \subseteq BOOLEAN

VARIABLES
    clock,     \* the second it is
    artifact,  \* [Stores -> [Ids -> bytes or NoObject]], at the destination
    manifest,  \* [Ids -> [by, whole] or NoObject], at the destination
    run,       \* [Runs -> what an invocation has got to]
    daemon,    \* the sidecar
    op,        \* the operator's restore or drill
    target,    \* [Targets -> what it holds]
    side,      \* [Databases -> what a drill's side database holds]
    spent      \* how much of each bound is used up

vars == <<clock, artifact, manifest, run, daemon, op, target, side, spent>>
destination == <<artifact, manifest>>
operator == <<op, target, side>>

Spend(what) == spent' = [spent EXCEPT ![what] = @ + 1]
Failing == spent.failures < MaxFailures /\ Spend("failures")

-----------------------------------------------------------------------------
(* Bytes and manifests *)

Bytes(r) == [by |-> r, whole |-> TRUE]
Torn(r) == [by |-> r, whole |-> FALSE]

NewRun == [pc |-> "new", id |-> 0, result |-> [s \in Stores |-> IF s \in Managed THEN "none" ELSE "skipped"],
           counted |-> {}, changed |-> {},
           names |-> {}, todo |-> {}, doomed |-> {}, gone |-> {}]

\* A manifest's content is what its run found out; it is written once.
Names(r, s) == run[r].result[s] = "success"

\* The artifact is the one whose checksum run r wrote in its manifest.
Intact(r, s) ==
    artifact[s][run[r].id] = Bytes(r)

Readable(i) == manifest[i] # NoObject /\ manifest[i].whole

-----------------------------------------------------------------------------
(* The clock, the databases and the sidecar *)

NoOp == [pc |-> "idle", of |-> NoRun, drill |-> FALSE, force |-> FALSE, want |-> {},
         keep |-> FALSE, left |-> {}, got |-> [s \in Fetched |-> NoObject],
        verdict |-> [s \in Databases |-> "none"]]

Init ==
    /\ clock = 1
    /\ artifact = [s \in Stores |-> [i \in Ids |-> NoObject]]
    /\ manifest = [i \in Ids |-> NoObject]
    /\ run = [r \in Runs |-> NewRun]
    /\ daemon = [since |-> 0, previous |-> 0, job |-> NoRun, fires |-> 0]
    /\ \/ /\ target = [t \in Targets |-> Production]
          /\ side = [s \in Databases |-> [by |-> NoRun, whole |-> TRUE]]
       \/ /\ target = [t \in Targets |-> NoObject]
          /\ side = [s \in Databases |-> NoObject]
    /\ op = NoOp
    /\ spent = [failures |-> 0, changes |-> 0, probes |-> 0, restores |-> 0]

Advance ==
    /\ clock < MaxClock
    /\ spent.restores = 0 \/ clock < LastRestore
    /\ clock' = clock + 1
    /\ UNCHANGED <<destination, run, daemon, operator, spent>>

Occurrences == {c \in Ids : c % Period = 0}

\* Mutant of Due: after a run the trigger is asked for the next time from now.
DueFromNow(c) ==
    LET after == IF daemon.previous = 0 THEN daemon.since ELSE daemon.previous
    IN  /\ c \in Occurrences /\ c > after
        /\ IF daemon.previous # 0 THEN c = clock
           ELSE c <= clock /\ \A d \in Occurrences : d > after => c <= d

\* get_next_fire_time(previous, now): the occurrence after the last one fired,
\* although a long run may have let it pass; after a restart, the next to come.
Due(c) ==
    LET after == IF daemon.previous = 0 THEN daemon.since ELSE daemon.previous
    IN  /\ c \in Occurrences /\ c > after /\ c <= clock
        /\ \A d \in Occurrences : d > after => c <= d

\* run_backup up to its first store.
Begin(r) ==
    /\ run[r].pc = "new"
    /\ run' = [run EXCEPT ![r].pc = First(Managed), ![r].id = clock]

StartByCli(r) ==
    /\ Begin(r)
    /\ UNCHANGED <<clock, destination, daemon, operator, spent>>

Fire(r) ==
    /\ daemon.job = NoRun
    /\ \E c \in Occurrences :
          /\ Due(c)
          /\ daemon' = [daemon EXCEPT !.previous = c, !.job = r, !.fires = @ + 1]
    /\ Begin(r)
    /\ UNCHANGED <<clock, destination, operator, spent>>

\* The run returned or raised; the loop goes on either way.
RunReturns ==
    /\ daemon.job # NoRun
    /\ run[daemon.job].pc \in {"done", "raised"}
    /\ daemon' = [daemon EXCEPT !.job = NoRun]
    /\ UNCHANGED <<clock, destination, run, operator, spent>>

\* A new sidecar after a signal or a crash: it keeps no state.
Restart ==
    /\ IF daemon.job = NoRun THEN Failing
       ELSE run[daemon.job].pc = "crashed" /\ UNCHANGED spent
    /\ daemon' = [since |-> clock, previous |-> 0, job |-> NoRun, fires |-> 0]
    /\ daemon' # daemon
    /\ UNCHANGED <<clock, destination, run, operator>>

-----------------------------------------------------------------------------
(* One run: the stores *)

Ends(r, s, outcome) ==
    run' = [run EXCEPT ![r].result[s] = outcome, ![r].pc = Following(s)]
Put(s, i, bytes) == artifact' = [artifact EXCEPT ![s][i] = bytes]

\* Dump or tar, then put: the checksum is taken of the local file.
Push(r) ==
    /\ run[r].pc \in Fetched \intersect Managed
    /\ Put(run[r].pc, run[r].id, Bytes(r))
    /\ Ends(r, run[r].pc, "success")
    /\ UNCHANGED <<clock, manifest, daemon, operator, spent>>

\* ClickHouse writes its artifact itself and refuses a name that is taken.
BackupClickHouse(r) ==
    /\ run[r].pc = "clickhouse" /\ "clickhouse" \in Managed
    /\ artifact["clickhouse"][run[r].id] = NoObject
    /\ Put("clickhouse", run[r].id, Bytes(r))
    /\ Ends(r, "clickhouse", "success")
    /\ UNCHANGED <<clock, manifest, daemon, operator, spent>>

\* What a failing store leaves: nothing, a file half copied, or a backup that
\* ClickHouse went on with after the client had given up.
Leftovers(r, s) ==
    IF s = "clickhouse"
    THEN IF artifact[s][run[r].id] = NoObject THEN {Bytes(r)} ELSE {}
    ELSE IF Local THEN {Torn(r)} ELSE {}

\* Mutant of StoreFails: the exit status of pg_dump or tar is not looked at.
StoreFailsUnnoticed(r) ==
    /\ run[r].pc \in Managed
    /\ Failing
    /\ \E b \in Leftovers(r, run[r].pc) : Put(run[r].pc, run[r].id, b)
    /\ Ends(r, run[r].pc, "success")
    /\ UNCHANGED <<clock, manifest, daemon, operator>>

\* The failure is recorded and the next store attempted.
StoreFails(r) ==
    /\ run[r].pc \in Managed
    /\ IF run[r].pc = "clickhouse" /\ artifact["clickhouse"][run[r].id] # NoObject
       THEN UNCHANGED spent ELSE Failing
    /\ \/ UNCHANGED artifact
       \/ \E b \in Leftovers(r, run[r].pc) : Put(run[r].pc, run[r].id, b)
    /\ Ends(r, run[r].pc, "failed")
    /\ UNCHANGED <<clock, manifest, daemon, operator>>

\* The rows of the managed databases are counted, or cannot be.  A load changes
\* both, so one that came between the two dumps has changed PostgreSQL since
\* its dump, a later one both.  The manifest is put last.
PushManifest(r) ==
    /\ run[r].pc = "manifest"
    /\ manifest' = [manifest EXCEPT ![run[r].id] = [by |-> r, whole |-> TRUE]]
    /\ \E counted \in {{}, Databases \intersect Managed} : \E changed \in {{}, {"postgres"}, Databases} :
          /\ changed \subseteq counted
          /\ run' = [run EXCEPT ![r].pc = "plan", ![r].counted = counted,
                                ![r].changed = changed]
          /\ \/ counted = {} /\ Failing
             \/ counted # {} /\ changed = {} /\ UNCHANGED spent
             \/ changed # {} /\ spent.changes < MaxChanges /\ Spend("changes")
    /\ UNCHANGED <<clock, artifact, daemon, operator>>

\* A put of the manifest that fails ends the run with an exception.
ManifestFails(r) ==
    /\ run[r].pc = "manifest"
    /\ Failing
    /\ \/ UNCHANGED manifest
       \/ /\ Local
          /\ manifest' = [manifest EXCEPT ![run[r].id] = [by |-> r, whole |-> FALSE]]
    /\ run' = [run EXCEPT ![r].pc = "raised"]
    /\ UNCHANGED <<clock, artifact, daemon, operator>>

\* The process dies, perhaps within a put.
Crash(r) ==
    /\ run[r].pc \in Managed \union {"manifest", "prune"}
    /\ Failing
    /\ \/ UNCHANGED destination
       \/ /\ run[r].pc \in Managed
          /\ \E b \in Leftovers(r, run[r].pc) : Put(run[r].pc, run[r].id, b)
          /\ UNCHANGED manifest
       \/ /\ run[r].pc = "manifest" /\ Local
          /\ manifest' = [manifest EXCEPT ![run[r].id] = [by |-> r, whole |-> FALSE]]
          /\ UNCHANGED artifact
    /\ run' = [run EXCEPT ![r].pc = "crashed"]
    /\ UNCHANGED <<clock, daemon, operator>>

-----------------------------------------------------------------------------
(* One run: retention *)

\* The bundles listed that have an artifact of the store, newest first.
Rank(listed, s, i) == Cardinality({j \in listed : j > i /\ Names(manifest[j].by, s)})

\* Too many or too old, and not of this run.
Expired(r, listed, s, i) ==
    /\ Names(manifest[i].by, s)
    /\ i # run[r].id
    /\ \/ Keep[s] > 0 /\ Rank(listed, s, i) >= Keep[s]
       \/ Days[s] > 0 /\ i + Days[s] < clock

\* The manifests are read once; one that cannot be read is left alone.
PlanPrune(r) ==
    /\ run[r].pc = "plan"
    /\ LET listed == {i \in Ids : Readable(i)}
           doomed == {d \in listed \X Stores : Expired(r, listed, d[2], d[1])}
       IN  run' = [run EXCEPT ![r].pc = IF doomed = {} THEN "done" ELSE "prune",
                              ![r].doomed = doomed,
                              ![r].todo = {d[1] : d \in doomed},
                              ![r].names = {d \in listed \X Stores :
                                               Names(manifest[d[1]].by, d[2])}]
    /\ UNCHANGED <<clock, destination, daemon, operator, spent>>

\* dest.delete of an artifact, which a locked bucket denies.
PruneArtifact(r) ==
    /\ run[r].pc = "prune"
    /\ \E d \in run[r].doomed :
          \/ /\ Put(d[2], d[1], NoObject)
             /\ run' = [run EXCEPT ![r].doomed = @ \ {d}, ![r].gone = @ \union {d}]
          \/ /\ Worm
             /\ run' = [run EXCEPT ![r].doomed = @ \ {d}]
             /\ UNCHANGED artifact
    /\ UNCHANGED <<clock, manifest, daemon, operator, spent>>

\* Mutant of Remaining: stores kept without a bound are not asked about.
RemainingBounded(r, i) ==
    {s \in Stores : /\ <<i, s>> \in run[r].names
                    /\ <<i, s>> \notin run[r].gone
                    /\ Keep[s] > 0
                    /\ artifact[s][i] # NoObject}

\* The artifacts of bundle i that its manifest names and that are still there.
Remaining(r, i) ==
    {s \in Stores : /\ <<i, s>> \in run[r].names
                    /\ <<i, s>> \notin run[r].gone
                    /\ artifact[s][i] # NoObject}

\* The manifest goes when none of its artifacts is left; _exists takes an
\* error of size_of for an absence.
PruneManifest(r) ==
    /\ run[r].pc = "prune"
    /\ \E i \in run[r].todo :
          /\ \A d \in run[r].doomed : d[1] # i
          /\ run' = [run EXCEPT ![r].todo = @ \ {i},
                                ![r].pc = IF run[r].todo = {i} THEN "done" ELSE @]
          /\ \/ Remaining(r, i) # {} /\ UNCHANGED <<manifest, spent>>
             \/ /\ Remaining(r, i) = {} /\ UNCHANGED spent
                /\ \/ manifest' = [manifest EXCEPT ![i] = NoObject]
                   \/ Worm /\ UNCHANGED manifest
             \/ /\ Remaining(r, i) # {}
                /\ spent.probes < MaxProbeErrors /\ Spend("probes")
                /\ manifest' = [manifest EXCEPT ![i] = NoObject]
    /\ UNCHANGED <<clock, artifact, daemon, operator>>

\* Pruning never fails the run; what it raises ends it there.
PruneRaises(r) ==
    /\ run[r].pc = "prune"
    /\ Failing
    /\ run' = [run EXCEPT ![r].pc = "done"]
    /\ UNCHANGED <<clock, destination, daemon, operator>>

-----------------------------------------------------------------------------
(* Restore and drill *)

Available(i) == {s \in Stores : Names(manifest[i].by, s)}

\* A restore goes on when a phase has no store left: all are fetched before any
\* is applied, and the outcome is recorded when none is left.
Settled(o) ==
    IF o.left # {} \/ o.pc \notin {"fetch", "apply", "drill"} THEN o
    ELSE IF o.pc = "fetch"
    THEN [o EXCEPT !.pc = IF o.drill THEN "drill" ELSE "apply",
                   !.left = IF o.drill THEN o.want \intersect Databases ELSE o.want]
    ELSE [NoOp EXCEPT !.pc = "done"]

\* restore_bundle up to its guards: the manifest read, the stores chosen among
\* those with a successful artifact.  A drill needs one of the databases.
BeginRestore ==
    /\ op.pc \in {"idle", "done", "raised"}
    /\ spent.restores < MaxRestores /\ clock <= LastRestore /\ Spend("restores")
    /\ \E i \in Ids, q \in Requests :
          /\ Readable(i)
          /\ LET want == IF q.want = {} THEN Available(i) ELSE q.want IN
                /\ want # {} /\ want \subseteq Available(i)
                /\ q.drill => want \intersect Databases # {}
                /\ op' = Settled([NoOp EXCEPT !.pc = "fetch", !.of = manifest[i].by,
                                      !.drill = q.drill, !.force = q.force, !.keep = q.keep,
                                      !.want = want, !.left = want \intersect Fetched])
    /\ UNCHANGED <<clock, destination, run, daemon, target, side>>

Raise == op' = [NoOp EXCEPT !.pc = "raised"]

\* Mutant of Fetch: no checksum is compared.
FetchUnchecked ==
    /\ op.pc = "fetch" /\ op.left # {}
    /\ LET s == First(op.left) IN
          IF artifact[s][run[op.of].id] # NoObject
          THEN op' = Settled([op EXCEPT !.left = @ \ {s},
                                       !.got[s] = artifact[s][run[op.of].id]])
          ELSE Raise
    /\ UNCHANGED <<clock, destination, run, daemon, target, side, spent>>

\* _fetch_and_verify: all fetched stores before any is touched; a missing
\* object or another checksum ends the restore.
Fetch ==
    /\ op.pc = "fetch" /\ op.left # {}
    /\ LET s == First(op.left) IN
          IF Intact(op.of, s)
          THEN op' = Settled([op EXCEPT !.left = @ \ {s},
                                       !.got[s] = artifact[s][run[op.of].id]])
          ELSE Raise
    /\ UNCHANGED <<clock, destination, run, daemon, target, side, spent>>

Apply(s) == op.pc = "apply" /\ op.left # {} /\ s = First(op.left)
StoreDone(s) == op' = Settled([op EXCEPT !.pc = "apply", !.left = @ \ {s}])
Refused(s) == target[s] # NoObject /\ ~ op.force
Set(s, what) == target' = [target EXCEPT ![s] = what]

\* A target with tables is refused without --force, else pg_restore --clean.
RestorePostgres ==
    /\ Apply("postgres")
    /\ \/ Refused("postgres") /\ Raise /\ UNCHANGED <<target, spent>>
       \/ /\ ~ Refused("postgres")
          /\ Set("postgres", op.got["postgres"]) /\ StoreDone("postgres")
          /\ UNCHANGED spent
       \/ ~ Refused("postgres") /\ Failing /\ Set("postgres", Damaged) /\ Raise
    /\ UNCHANGED <<clock, destination, run, daemon, side>>

\* The guard, then DROP DATABASE of each database.
DropClickHouse ==
    /\ Apply("clickhouse")
    /\ IF Refused("clickhouse") THEN Raise /\ UNCHANGED target
       ELSE Set("clickhouse", NoObject) /\ op' = [op EXCEPT !.pc = "restore"]
    /\ UNCHANGED <<clock, destination, run, daemon, side, spent>>

\* What RESTORE finds on the backup disk: whatever object has the run's name.
OnDisk(r) == {a \in {artifact["clickhouse"][run[r].id]} \ {NoObject} : a.whole}

RestoreClickHouse ==
    /\ op.pc = "restore"
    /\ \/ /\ \E a \in OnDisk(op.of) : Set("clickhouse", a)
          /\ StoreDone("clickhouse")
          /\ UNCHANGED spent
       \/ OnDisk(op.of) = {} /\ Raise /\ UNCHANGED <<target, spent>>
       \/ Failing /\ Set("clickhouse", Damaged) /\ Raise
    /\ UNCHANGED <<clock, destination, run, daemon, side>>

\* The instance is extracted beside the live one, and so are the files
\* without --force.
Extract ==
    /\ \E s \in {"instance", "files"} :
          /\ Apply(s)
          /\ IF s = "files" /\ op.force THEN Set(s, op.got[s]) ELSE UNCHANGED target
          /\ StoreDone(s)
    /\ UNCHANGED <<clock, destination, run, daemon, side, spent>>

Drilling(s, pc) == op.pc = pc /\ op.left # {} /\ s = First(op.left)
DrillFails(s) ==
    op' = [op EXCEPT !.pc = "clean", !.verdict[s] = "failed"]

\* A side database left by an earlier drill is dropped, the artifact restored
\* into a new one.
DrillRestore(s) ==
    /\ Drilling(s, "drill")
    /\ LET found == IF s = "postgres" THEN {op.got[s]} ELSE OnDisk(op.of) IN
       \/ /\ \E a \in found : side' = [side EXCEPT ![s] = a]
          /\ op' = [op EXCEPT !.pc = "count"] /\ UNCHANGED spent
       \/ /\ IF found = {} THEN UNCHANGED spent ELSE Failing
          /\ side' = [side EXCEPT ![s] = NoObject] /\ DrillFails(s)
    /\ UNCHANGED <<clock, destination, run, daemon, target>>

\* Its rows are counted and compared with the manifest's baseline, where that
\* has any.  No two runs' dumps hold the same rows.
DrillCount(s) ==
    /\ Drilling(s, "count")
    /\ LET r == run[op.of]
           same == side[s].by = op.of /\ s \notin r.changed
       IN  op' = [op EXCEPT !.pc = "clean",
                            !.verdict[s] = IF s \in r.counted /\ ~ same THEN "differs"
                                           ELSE "agrees"]
    /\ UNCHANGED <<clock, destination, run, daemon, target, side, spent>>

\* The side database is dropped unless it is to be kept; a drop that fails is
\* logged.
DrillClean(s) ==
    /\ Drilling(s, "clean")
    /\ op' = Settled([op EXCEPT !.pc = "drill", !.left = @ \ {s}])
    /\ \/ op.keep /\ UNCHANGED <<side, spent>>
       \/ ~ op.keep /\ side' = [side EXCEPT ![s] = NoObject] /\ UNCHANGED spent
       \/ ~ op.keep /\ Failing /\ UNCHANGED side
    /\ UNCHANGED <<clock, destination, run, daemon, target>>

\* The operator's process dies.
RestoreDies ==
    /\ op.pc \in {"apply", "restore", "drill", "count", "clean"}
    /\ Failing
    /\ Raise
    /\ UNCHANGED <<clock, destination, run, daemon, target, side>>

-----------------------------------------------------------------------------
(* Specification *)

RunStep(r) ==
    \/ Push(r) \/ BackupClickHouse(r) \/ StoreFails(r)
    \/ PushManifest(r) \/ ManifestFails(r)
    \/ PlanPrune(r) \/ PruneArtifact(r) \/ PruneManifest(r) \/ PruneRaises(r)

Next ==
    \/ Advance \/ RunReturns \/ Restart
    \/ \E r \in Runs : StartByCli(r) \/ Fire(r) \/ RunStep(r) \/ Crash(r)
    \/ BeginRestore \/ Fetch \/ RestorePostgres
    \/ DropClickHouse \/ RestoreClickHouse \/ Extract \/ RestoreDies
    \/ \E s \in Databases : DrillRestore(s) \/ DrillCount(s) \/ DrillClean(s)

Spec == Init /\ [][Next]_vars

-----------------------------------------------------------------------------
(* Properties *)

\* No other run started in the same second.
Alone(r) == \A q \in Runs \ {r} : run[q].pc = "new" \/ run[q].id # run[r].id
NoCollision == \A r \in Runs : Alone(r)

\* manifest.py: pushed after every artifact has landed, so a manifest at the
\* destination means the bundle is complete.  Each artifact a readable manifest
\* names is there, with the bytes its checksum was taken of, unless a run
\* has deleted it by retention: no crash, failure or other run changes that.
ManifestMeansComplete ==
    \A i \in Ids : \A s \in Stores :
        (Readable(i) /\ Names(manifest[i].by, s) /\ Alone(manifest[i].by)) =>
            \/ Intact(manifest[i].by, s)
            \/ artifact[s][i] = NoObject /\ \E r \in Runs : <<i, s>> \in run[r].gone

\* Without an age bound, retention never takes a store's newest artifact: a
\* series of runs in which the store failed pushes no good copy out, and
\* neither do prunes of several runs at once.  (Bundles of one second share
\* their keys: with two of them, what a prune has listed may be written anew.)
NewestCopyKept ==
    NoCollision =>
        \A s \in Stores :
            LET good == {i \in Ids : Readable(i) /\ Names(manifest[i].by, s)}
            IN  \A i \in good :
                    (Days[s] = 0 /\ \A j \in good : j <= i) => artifact[s][i] # NoObject

\* prune.py: a manifest is deleted only when every artifact it references is
\* gone, denied deletes and deletes by other runs included: an artifact without
\* its manifest is found by nobody, not even by a later prune.
ManifestGoesLast ==
    [][\A i \in Ids :
          (NoCollision /\ Readable(i) /\ manifest'[i] = NoObject) =>
              \A s \in Stores : Names(manifest[i].by, s) => artifact'[s][i] = NoObject]_vars

\* What retention takes, whatever the runs that share the destination do.
RetentionIsSafe == []NewestCopyKept /\ ManifestGoesLast

\* A restore changes no target before every artifact it fetches has the
\* manifest's checksum, none that holds data unless it was forced, and a drill
\* changes none at all.
TouchedAfterChecks ==
    [][\A t \in Targets : target'[t] # target[t] =>
          /\ \A s \in op.want \intersect Fetched : op.got[s] = Bytes(op.of)
          /\ op.force \/ target[t] = NoObject
          /\ ~ op.drill]_vars

\* A restore that ends without an error has put back, into each database it
\* was asked for, the bytes of the run whose manifest it read.  (ClickHouse's
\* are taken by the name of the bundle, so this is about a bundle that shares
\* its name with no other.)
RestoredIsBundle ==
    [][(op.pc \in {"apply", "restore"} /\ op'.pc = "done" /\ Alone(op.of)) =>
          \A s \in op.want \intersect Databases : target'[s] = Bytes(op.of)]_vars

\* What a drill says is about the bundle it was asked to drill, whatever other
\* drills have left behind and whatever other runs and prunes do meanwhile: its
\* counts differ only if the database was written to between the dump and the
\* count of its rows, and agree only if it was not.
DrillTells ==
    \A s \in Databases :
        LET r == run[op.of]
        IN  /\ (op.verdict[s] = "differs" /\ Alone(op.of)) => s \in r.changed
            /\ op.verdict[s] = "agrees" => s \notin r.changed

\* What an operator's command does to a target, and what it tells of one.
RestoreIsFaithful == TouchedAfterChecks /\ RestoredIsBundle /\ []DrillTells

\* The sidecar fires every occurrence of its schedule once, in order, for as
\* long as it lives: a run longer than the period delays the next ones, it does
\* not swallow them.
NoFireSkipped ==
    daemon.previous # 0 =>
        daemon.fires = Cardinality({c \in Occurrences : daemon.since < c /\ c <= daemon.previous})
=============================================================================
