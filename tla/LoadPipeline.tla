---------------------------- MODULE LoadPipeline ----------------------------
(***************************************************************************)
(* One ingestion load from its load_history row to the release of its      *)
(* lock: orchestrator.run_binding and what it calls in ibis_executor,      *)
(* checks, swap and pg_lock, for loads that run concurrently in several    *)
(* processes (push API, scheduler, watcher, CLI) on one ClickHouse and one *)
(* platform Postgres.                                                      *)
(*                                                                         *)
(* Every ClickHouse command and every Postgres statement is a step of its  *)
(* own; any of them may fail, the process may die between any two, and a   *)
(* staging insert lands block by block.                                    *)
(***************************************************************************)
EXTENDS Naturals

CONSTANTS
    Loads,           \* load ids, one per call of run_binding
    NoLoad,          \* no load: a free lock
    NoJob,           \* no arguments: a load that has not been asked for
    Bindings,        \* binding ids, as the processes' registries name them
    Targets,         \* live tables
    Target,          \* [Bindings -> Targets], binding.target
    Snapshots,       \* the bindings of kind 'snapshot'; the others are 'period'
    Checked,         \* the bindings that declare data-quality checks
    Periods,         \* accounting periods
    NoPeriod,        \* the period argument of a snapshot load
    Parts,           \* the blocks in which a complete extract lands in staging
    MaxLockLosses,   \* bound: lock connections that die under a running load
    MaxLateInserts   \* bound: inserts the server goes on with after its client
                     \* gave up or died

ASSUME LoadsAssumption == NoLoad \notin Loads
ASSUME TargetAssumption == Target \in [Bindings -> Targets]
ASSUME KindsAssumption == Snapshots \subseteq Bindings /\ Checked \subseteq Bindings
ASSUME PeriodsAssumption == NoPeriod \notin Periods
ASSUME PartsAssumption == Parts # {}
ASSUME BoundsAssumption == MaxLockLosses \in Nat /\ MaxLateInserts \in Nat

\* The registry refuses two bindings with one target.  It sees one registry at
\* a time: it says nothing of two processes that loaded different versions.
TargetsUnique == \A b, c \in Bindings : Target[b] = Target[c] => b = c

VARIABLES
    pc,           \* [Loads -> stage of run_binding]
    job,          \* [Loads -> the arguments of run_binding]
    outcome,      \* [Loads -> the status the load is about to be finalised with]
    extracted,    \* [Loads -> the blocks the source query returned]
    verdict,      \* [Loads -> the outcome of the data-quality checks, in memory]
    unsent,       \* [Loads -> blocks of an insert the server has yet to land]
    history,      \* [Loads -> load_history row]
    lock,         \* [Bindings -> the load whose connection holds the advisory lock]
    staging,      \* [Slices -> rows], staging.<x>
    live,         \* [Slices -> rows], live.<x>
    published,    \* the loads whose REPLACE PARTITION / EXCHANGE was executed
    lockLosses,   \* lock connections lost so far
    lateInserts   \* inserts left to the server so far

task == <<job, outcome, extracted, verdict>>
tables == <<staging, live, published>>
faults == <<lockLosses, lateInserts>>
vars == <<pc, task, unsent, history, lock, tables, faults>>

-----------------------------------------------------------------------------
(* Types and helpers *)

Jobs ==
    {j \in [binding : Bindings, period : Periods \union {NoPeriod},
            stop : {"none", "extract", "validate"}] :
        (j.period = NoPeriod) <=> (j.binding \in Snapshots)}

ASSUME NoJobAssumption == NoJob \notin Jobs

Slices == Targets \X (Periods \union {NoPeriod})
Rows == Loads \X Parts
Whole(l) == {l} \X Parts

Binding(l) == job[l].binding
Slice(l) == <<Target[job[l].binding], job[l].period>>

\* Statuses load_history can end with (failed_dbt is never written here).
Failures == {"failed_extract", "failed_validation", "failed_recon",
             "failed_checks", "failed_swap", "failed_other"}
Terminal == Failures \union {"success"}

HistoryRow ==
    [status : Terminal \union {"absent", "running"},
     landed : {"null", "zero", "some"},
     verdict : {"none", "passed", "blocked"},
     swapped : BOOLEAN]

NoRow == [status |-> "absent", landed |-> "null", verdict |-> "none",
          swapped |-> FALSE]

\* The stages between the acquisition of the lock and its release, in order.
Extracting == {"clear", "query", "insert", "reconcile"}
Validating == {"record_extract", "validate", "checks", "record_checks"}
Swapping == {"swap", "drop", "record_swap", "refresh"}
Critical == Extracting \union Validating \union Swapping
                \union {"finalise", "release", "unwind"}
\* done: returned; raised: an exception left run_binding; crashed: process gone.
Ended == {"done", "raised", "crashed"}
Stages == {"new", "lock", "conflict"} \union Critical \union Ended

\* The stages in which a load issues commands against the staging or live table.
AtTables == Extracting \union Validating \union {"swap", "drop"}

Goto(l, stage) == pc' = [pc EXCEPT ![l] = stage]

\* An inner except branch: the load is finalised with the status it is given.
FinishAs(l, status) ==
    /\ outcome' = [outcome EXCEPT ![l] = status]
    /\ Goto(l, "finalise")

-----------------------------------------------------------------------------
(* Start, lock *)

Init ==
    /\ pc = [l \in Loads |-> "new"]
    /\ job = [l \in Loads |-> NoJob]
    /\ outcome = [l \in Loads |-> "running"]
    /\ extracted = [l \in Loads |-> {}]
    /\ verdict = [l \in Loads |-> "none"]
    /\ unsent = [l \in Loads |-> {}]
    /\ history = [l \in Loads |-> NoRow]
    /\ lock = [b \in Bindings |-> NoLoad]
    /\ staging = [s \in Slices |-> {}]
    /\ live = [s \in Slices |-> {}]
    /\ published = {}
    /\ lockLosses = 0
    /\ lateInserts = 0

\* run_binding: the load_history row comes first, before the lock.
RunBinding(l) ==
    /\ pc[l] = "new"
    /\ \E j \in Jobs : job' = [job EXCEPT ![l] = j]
    /\ history' = [history EXCEPT ![l].status = "running"]
    /\ Goto(l, "lock")
    /\ UNCHANGED <<outcome, extracted, verdict, unsent, lock, tables, faults>>

\* Mutant of AcquireLock: a lock key that names the period as well.
AcquireLockPerPeriod(l) ==
    /\ pc[l] = "lock"
    /\ \A m \in Loads : lock[Binding(l)] = m => job[m].period # job[l].period
    /\ lock' = [lock EXCEPT ![Binding(l)] = l]
    /\ Goto(l, "clear")
    /\ UNCHANGED <<task, unsent, history, tables, faults>>

\* pg_try_advisory_lock returned true within the blocking timeout.
AcquireLock(l) ==
    /\ pc[l] = "lock"
    /\ lock[Binding(l)] = NoLoad
    /\ lock' = [lock EXCEPT ![Binding(l)] = l]
    /\ Goto(l, "clear")
    /\ UNCHANGED <<task, unsent, history, tables, faults>>

\* The lock is still held when the blocking timeout has passed.
LockBusy(l) ==
    /\ pc[l] = "lock"
    /\ lock[Binding(l)] # NoLoad
    /\ Goto(l, "conflict")
    /\ UNCHANGED <<task, unsent, history, lock, tables, faults>>

\* Mutant of FinaliseConflict: the loser returns and leaves its row running.
FinaliseConflictForgotten(l) ==
    /\ pc[l] = "conflict"
    /\ Goto(l, "done")
    /\ UNCHANGED <<task, unsent, history, lock, tables, faults>>

\* The losing load is finalised without ever having held the lock.
FinaliseConflict(l) ==
    /\ pc[l] = "conflict"
    /\ history' = [history EXCEPT ![l].status = "failed_other"]
    /\ Goto(l, "done")
    /\ UNCHANGED <<task, unsent, lock, tables, faults>>

\* acquire() or the conflict's statements raise: nothing catches it, there is
\* no lock to release yet.
RaiseUnlocked(l) ==
    /\ pc[l] \in {"lock", "conflict"}
    /\ Goto(l, "raised")
    /\ UNCHANGED <<task, unsent, history, lock, tables, faults>>

-----------------------------------------------------------------------------
(* Stage 1: extract *)

\* Mutant of ClearStaging: the slice is not cleared before the insert.
ClearStagingSkipped(l) ==
    /\ pc[l] = "clear"
    /\ Goto(l, "query")
    /\ UNCHANGED <<task, unsent, history, lock, tables, faults>>

\* DROP PARTITION / TRUNCATE of the staging slice the load is about to write.
ClearStaging(l) ==
    /\ pc[l] = "clear"
    /\ staging' = [staging EXCEPT ![Slice(l)] = {}]
    /\ Goto(l, "query")
    /\ UNCHANGED <<task, unsent, history, lock, live, published, faults>>

\* The source query: no rows skips the insert.
QuerySource(l) ==
    /\ pc[l] = "query"
    /\ \/ /\ extracted' = [extracted EXCEPT ![l] = Parts]
          /\ unsent' = [unsent EXCEPT ![l] = Parts]
          /\ Goto(l, "insert")
       \/ /\ Goto(l, "reconcile")
          /\ UNCHANGED <<extracted, unsent>>
    /\ UNCHANGED <<job, outcome, verdict, history, lock, tables, faults>>

\* ClickHouse lands one block of an insert, whatever became of its client.
LandBlock(l) ==
    \E p \in unsent[l] :
        /\ staging' = [staging EXCEPT ![Slice(l)] = @ \union {<<l, p>>}]
        /\ unsent' = [unsent EXCEPT ![l] = @ \ {p}]
        /\ UNCHANGED <<pc, task, history, lock, live, published, faults>>

\* insert_df returns when the last block has landed.
InsertReturns(l) ==
    /\ pc[l] = "insert"
    /\ unsent[l] = {}
    /\ Goto(l, "reconcile")
    /\ UNCHANGED <<task, unsent, history, lock, tables, faults>>

\* What becomes of an insert in flight when its client goes: the server gives
\* it up, or goes on with it.
AbandonInsert(l) ==
    \/ /\ unsent' = [unsent EXCEPT ![l] = {}]
       /\ UNCHANGED lateInserts
    \/ /\ unsent[l] # {}
       /\ lateInserts < MaxLateInserts
       /\ lateInserts' = lateInserts + 1
       /\ UNCHANGED unsent

\* Any exception of the extract stage: backend, clear, query, insert, or the
\* read of a reconcile check's source total.
ExtractFails(l) ==
    /\ pc[l] \in Extracting
    /\ AbandonInsert(l)
    /\ FinishAs(l, "failed_extract")
    /\ UNCHANGED <<job, extracted, verdict, history, lock, tables, lockLosses>>

\* The source totals of the reconcile checks have been read.
ReadSourceTotals(l) ==
    /\ pc[l] = "reconcile"
    /\ Goto(l, "record_extract")
    /\ UNCHANGED <<task, unsent, history, lock, tables, faults>>

-----------------------------------------------------------------------------
(* Stage 2: record the extract, zero-row guard, shape, checks *)

\* record_extract; then an early stop, the zero-row guard, or validation.
RecordExtract(l) ==
    /\ pc[l] = "record_extract"
    /\ history' = [history EXCEPT ![l].landed =
                       IF extracted[l] = {} THEN "zero" ELSE "some"]
    /\ \/ /\ job[l].stop = "extract"
          /\ FinishAs(l, "success")
       \/ /\ job[l].stop # "extract"
          /\ extracted[l] = {}
          /\ FinishAs(l, "failed_validation")
       \/ /\ job[l].stop # "extract"
          /\ extracted[l] # {}
          /\ Goto(l, "validate")
          /\ UNCHANGED outcome
    /\ UNCHANGED <<job, extracted, verdict, unsent, lock, tables, faults>>

\* What follows a load that passed validation: an early stop or the swap.
AfterValidation(l) ==
    IF job[l].stop = "validate"
    THEN FinishAs(l, "success")
    ELSE Goto(l, "swap") /\ UNCHANGED outcome

\* The column shapes of live and staging agree; checks follow if declared.
ShapePasses(l) ==
    /\ pc[l] = "validate"
    /\ \/ /\ Binding(l) \in Checked
          /\ Goto(l, "checks")
          /\ UNCHANGED outcome
       \/ /\ Binding(l) \notin Checked
          /\ AfterValidation(l)
    /\ UNCHANGED <<job, extracted, verdict, unsent, history, lock, tables, faults>>

ShapeFails(l) ==
    /\ pc[l] = "validate"
    /\ FinishAs(l, "failed_recon")
    /\ UNCHANGED <<job, extracted, verdict, unsent, history, lock, tables, faults>>

\* The check queries ran over the rows tagged with this load id.
RunChecks(l) ==
    /\ pc[l] = "checks"
    /\ \E v \in {"passed", "blocked"} : verdict' = [verdict EXCEPT ![l] = v]
    /\ Goto(l, "record_checks")
    /\ UNCHANGED <<job, outcome, extracted, unsent, history, lock, tables, faults>>

ChecksRaise(l) ==
    /\ pc[l] = "checks"
    /\ FinishAs(l, "failed_recon")
    /\ UNCHANGED <<job, extracted, verdict, unsent, history, lock, tables, faults>>

\* Mutant of RecordChecks: the verdict is recorded and not acted on.
RecordChecksOnly(l) ==
    /\ pc[l] = "record_checks"
    /\ history' = [history EXCEPT ![l].verdict = verdict[l]]
    /\ AfterValidation(l)
    /\ UNCHANGED <<job, extracted, verdict, unsent, lock, tables, faults>>

\* record_checks; a blocking verdict ends the load before the swap.
RecordChecks(l) ==
    /\ pc[l] = "record_checks"
    /\ history' = [history EXCEPT ![l].verdict = verdict[l]]
    /\ IF verdict[l] = "blocked"
       THEN FinishAs(l, "failed_checks")
       ELSE AfterValidation(l)
    /\ UNCHANGED <<job, extracted, verdict, unsent, lock, tables, faults>>

-----------------------------------------------------------------------------
(* Stage 3: swap *)

\* Mutant of Promote: ATTACH PARTITION FROM, which adds to the live partition.
PromoteByAttach(l) ==
    /\ pc[l] = "swap"
    /\ live' = [live EXCEPT ![Slice(l)] = @ \union staging[Slice(l)]]
    /\ published' = published \union {l}
    /\ Goto(l, IF Binding(l) \in Snapshots THEN "record_swap" ELSE "drop")
    /\ UNCHANGED <<task, unsent, history, lock, staging, faults>>

\* REPLACE PARTITION copies the staging partition over the live one;
\* EXCHANGE TABLES trades the two tables.
Promote(l) ==
    /\ pc[l] = "swap"
    /\ live' = [live EXCEPT ![Slice(l)] = staging[Slice(l)]]
    /\ published' = published \union {l}
    /\ \/ /\ Binding(l) \in Snapshots
          /\ staging' = [staging EXCEPT ![Slice(l)] = live[Slice(l)]]
          /\ Goto(l, "record_swap")
       \/ /\ Binding(l) \notin Snapshots
          /\ Goto(l, "drop")
          /\ UNCHANGED staging
    /\ UNCHANGED <<task, unsent, history, lock, faults>>

\* The promoted period is cleared from staging.
DropStaging(l) ==
    /\ pc[l] = "drop"
    /\ staging' = [staging EXCEPT ![Slice(l)] = {}]
    /\ Goto(l, "record_swap")
    /\ UNCHANGED <<task, unsent, history, lock, live, published, faults>>

\* swap_committed_at is set before the derived mappings are refreshed.
RecordSwap(l) ==
    /\ pc[l] = "record_swap"
    /\ history' = [history EXCEPT ![l].swapped = TRUE]
    /\ \/ /\ Binding(l) \in Snapshots
          /\ Goto(l, "refresh")
          /\ UNCHANGED outcome
       \/ /\ Binding(l) \notin Snapshots
          /\ FinishAs(l, "success")
    /\ UNCHANGED <<job, extracted, verdict, unsent, lock, tables, faults>>

\* The hierarchy mappings have been rebuilt (module HierarchyRefresh).
RefreshHierarchies(l) ==
    /\ pc[l] = "refresh"
    /\ FinishAs(l, "success")
    /\ UNCHANGED <<job, extracted, verdict, unsent, history, lock, tables, faults>>

\* Any exception of the swap stage, before or after live has changed.
SwapFails(l) ==
    /\ pc[l] \in Swapping
    /\ FinishAs(l, "failed_swap")
    /\ UNCHANGED <<job, extracted, verdict, unsent, history, lock, tables, faults>>

-----------------------------------------------------------------------------
(* Finalise, release *)

Finalise(l) ==
    /\ pc[l] = "finalise"
    /\ history' = [history EXCEPT ![l].status = outcome[l]]
    /\ Goto(l, "release")
    /\ UNCHANGED <<task, unsent, lock, tables, faults>>

\* An exception no inner branch catches: a Postgres statement between the
\* stages, an error of validate that is neither ValidationError nor
\* RuntimeError.  Only the finally clause runs.
RaiseLocked(l) ==
    /\ pc[l] \in {"record_extract", "validate", "record_checks", "finalise"}
    /\ Goto(l, "unwind")
    /\ UNCHANGED <<task, unsent, history, lock, tables, faults>>

\* The finally clause: unlock, close the connection, swallow what they raise.
\* Closing releases whatever this connection still holds.
Release(l) ==
    /\ pc[l] \in {"release", "unwind"}
    /\ lock' = [b \in Bindings |-> IF lock[b] = l THEN NoLoad ELSE lock[b]]
    /\ Goto(l, IF pc[l] = "release" THEN "done" ELSE "raised")
    /\ UNCHANGED <<task, unsent, history, tables, faults>>

-----------------------------------------------------------------------------
(* Faults *)

\* The process dies.  Its connections are noticed later.
Crash(l) ==
    /\ pc[l] \notin {"new"} \union Ended
    /\ AbandonInsert(l)
    /\ Goto(l, "crashed")
    /\ UNCHANGED <<task, history, lock, tables, lockLosses>>

\* Mutant of ReapSession: a lock row that outlives the session that wrote it.
ReapSessionNever(l) ==
    /\ pc[l] = "crashed"
    /\ FALSE
    /\ UNCHANGED vars

\* Postgres ends the session of a dead process, and with it its lock.
ReapSession(l) ==
    /\ pc[l] = "crashed"
    /\ \E b \in Bindings : lock[b] = l
    /\ lock' = [b \in Bindings |-> IF lock[b] = l THEN NoLoad ELSE lock[b]]
    /\ UNCHANGED <<pc, task, unsent, history, tables, faults>>

\* The lock's connection dies while its load goes on: nothing on the load's
\* path uses the connection before release, so the load does not notice.
LoseLock(l) ==
    /\ pc[l] \in Critical
    /\ lock[Binding(l)] = l
    /\ lockLosses < MaxLockLosses
    /\ lock' = [lock EXCEPT ![Binding(l)] = NoLoad]
    /\ lockLosses' = lockLosses + 1
    /\ UNCHANGED <<pc, task, unsent, history, tables, lateInserts>>

-----------------------------------------------------------------------------
(* Specification *)

\* What run_binding does of its own accord, failures included.
Step(l) ==
    \/ AcquireLock(l) \/ LockBusy(l) \/ FinaliseConflict(l) \/ RaiseUnlocked(l)
    \/ ClearStaging(l) \/ QuerySource(l) \/ InsertReturns(l)
    \/ ReadSourceTotals(l) \/ ExtractFails(l)
    \/ RecordExtract(l) \/ ShapePasses(l) \/ ShapeFails(l)
    \/ RunChecks(l) \/ ChecksRaise(l) \/ RecordChecks(l)
    \/ Promote(l) \/ DropStaging(l) \/ RecordSwap(l) \/ RefreshHierarchies(l)
    \/ SwapFails(l) \/ Finalise(l) \/ RaiseLocked(l) \/ Release(l)

Next ==
    \E l \in Loads :
        \/ RunBinding(l)
        \/ Step(l)
        \/ LandBlock(l)
        \/ Crash(l)
        \/ ReapSession(l)
        \/ LoseLock(l)

Spec == Init /\ [][Next]_vars

\* What the scheduling gives: a process that does not die goes on with its
\* load, ClickHouse goes on with an insert, Postgres notices a dead client.
\* Nothing makes a trigger fire, a process die or a connection drop.
Fairness ==
    \A l \in Loads :
        /\ WF_vars(Step(l))
        /\ WF_vars(LandBlock(l))
        /\ WF_vars(ReapSession(l))

FairSpec == Spec /\ Fairness

-----------------------------------------------------------------------------
(* Properties *)

TypeOK ==
    /\ pc \in [Loads -> Stages]
    /\ job \in [Loads -> Jobs \union {NoJob}]
    /\ outcome \in [Loads -> Terminal \union {"running"}]
    /\ extracted \in [Loads -> {{}, Parts}]
    /\ verdict \in [Loads -> {"none", "passed", "blocked"}]
    /\ unsent \in [Loads -> SUBSET Parts]
    /\ history \in [Loads -> HistoryRow]
    /\ lock \in [Bindings -> Loads \union {NoLoad}]
    /\ staging \in [Slices -> SUBSET Rows]
    /\ live \in [Slices -> SUBSET Rows]
    /\ published \in SUBSET Loads
    /\ lockLosses \in 0 .. MaxLockLosses
    /\ lateInserts \in 0 .. MaxLateInserts

\* docs/configuration/ingestion.md: the per-binding advisory lock serialises
\* loads, so two loads cannot write one table at the same time, whatever their
\* periods and whichever processes run them.  It takes a lock that does not
\* lose its connection: run doc_lock_held drops that assumption.
OneLoadPerTarget ==
    \A l, m \in Loads :
        (l # m /\ pc[l] \in AtTables /\ pc[m] \in AtTables)
            => Target[Binding(l)] # Target[Binding(m)]

\* A reader of a live slice sees nothing or the complete extract of one load:
\* never part of an extract, never the rows of two loads, never an extract
\* wiped out by an empty one.
LiveIsWhole ==
    \A s \in Slices :
        \/ live[s] = {}
        \/ \E l \in published : live[s] = Whole(l) /\ Slice(l) = s

\* No row becomes visible before the checks its binding declares have passed
\* and the passed verdict stands in load_history: a verdict formed over one
\* load's rows is never used to promote another's.
OnlyVettedRowsLive ==
    \A s \in Slices : \A r \in live[s] :
        Binding(r[1]) \in Checked => history[r[1]].verdict = "passed"

\* The audit row tells the truth: a load that ran to success published its
\* extract, with rows landed, verdict and swap on record; a load refused
\* before the swap published nothing; a recorded swap took place; a call that
\* returned left no row in 'running'.  Faults do not change this.
AuditTrailHonest ==
    \A l \in Loads :
        /\ (history[l].status = "success" /\ job[l].stop = "none") =>
               /\ l \in published
               /\ history[l].swapped
               /\ history[l].landed = "some"
               /\ Binding(l) \in Checked => history[l].verdict = "passed"
        /\ history[l].status \in Failures \ {"failed_swap"} => l \notin published
        /\ history[l].swapped => l \in published
        /\ pc[l] = "done" => history[l].status \in Terminal

\* When a load is written down as a success, what a reader sees in its slice
\* is that load: no other load has replaced it between swap and finalise.
SuccessIsLive ==
    [][\A l \in Loads :
          (history[l].status = "running" /\ history'[l].status = "success"
              /\ job[l].stop = "none")
          => live'[Slice(l)] = Whole(l)]_vars

\* A lock held by a load that has ended is the lock of a crashed process that
\* Postgres has yet to notice, and nobody holds the lock of another binding.
\* Faults do not change this.
LockAccountable ==
    \A b \in Bindings :
        lock[b] # NoLoad =>
            /\ pc[lock[b]] \in Critical \union {"crashed"}
            /\ Binding(lock[b]) = b

\* The refinement: what pipelines do to the live tables, LiveTables allows.
Promise == INSTANCE LiveTables WITH
               Loads <- Loads, Slices <- Slices, Parts <- Parts,
               live <- live, published <- published
RefinesLiveTables == Promise!Spec

-----------------------------------------------------------------------------
(* Properties after faults, and under fairness *)

\* Load l is about to clear its slice with nobody else at work on it, now or
\* later: it holds the lock, no insert is left over and no fault is to come.
AloneAt(l) ==
    /\ pc[l] = "clear"
    /\ lock[Binding(l)] = l
    /\ \A m \in Loads \ {l} : pc[m] \notin AtTables /\ unsent[m] = {}
    /\ lockLosses = MaxLockLosses

\* Whatever faults have left in staging or live, re-running the period by
\* itself repairs it: what that load promotes is its own extract, whole.
RerunRepairs ==
    \A l \in Loads :
        [](AloneAt(l) => [](pc[l] = "drop" => live[Slice(l)] = Whole(l)))

\* However a load ends (success, failure, exception, crash), its binding's
\* lock comes free: a later trigger is not shut out for good.
LockComesFree ==
    \A b \in Bindings : \A l \in Loads : lock[b] = l ~> lock[b] # l
=============================================================================
