# Précis MCP: TLA+ models, model checking and proofs

This directory holds a formal model of Précis MCP, a read-only FP&A server over
ClickHouse (or Databricks) with an ingestion pipeline, a backup sidecar and an
administration of its own. The modules are translated from the source; each
definition's lines are listed in `PROJECT.json` under `map`, every hazard of the
code at its line under `hazards`.

## 1. The system

| Component | State it keeps | Operations | Interacts with | Module |
|---|---|---|---|---|
| Load pipeline (`ingestion/orchestrator.py`, `ibis_executor.py`, `validate.py`, `checks.py`, `swap.py`, `pg_lock.py`, `load_history.py`) | `staging.*` and `live.*` in ClickHouse, the `load_history` row and a session advisory lock in Postgres, one call's local variables | `run_binding`: insert_attempt, acquire, clear, query, insert, record, validate, check, swap, refresh, finalise, release | every trigger calls it; readers of `live.*` see its result | `LoadPipeline` |
| Triggers (`scheduler.py`, `watcher.py`, `run_routes.py`, `upload_routes.py`, `admin_cli.py`) | none of their own except an in-memory idempotency map; they read `load_history` | tick, fire, push, upload, admin re-trigger | call `run_binding`; several processes | `Triggers` |
| Registry, admin API, connections (`registry.py`, `wiring.py`, `admin_routes.py`, `engine/ibis_registry.py`) | YAML files, an in-memory registry per process, a cache of source connections | load, reload, create/update/delete with rollback, connect | tells the pipeline target, kind and checks of a binding | `InstanceConfig` |
| Catalogue (`engine/catalogue.py`, `context_validation.py`, `filter_resolver.py`) | immutable once loaded | parse, merge, validate; statements, filters, axes, views asked of it | every reader | `CatalogueRules` |
| Provisioning, hierarchies (`clickhouse_init.py` and its runners, `engine/ragged_views.py`, `analytical/provisioning.py`) | views and `semantic.*_materialized` tables, `semantic.scenarios` | provision, refresh, preflight | last step of a snapshot load; an operator's command | `Deployment`, `RaggedHierarchy` |
| Query engine, scope (`engine/resolver.py`, `retriever.py`, `ibis_retriever.py`, `transformer.py`, `scope_enforcer.py`, `inspect.py`) | none: one request's plan and figures | plan, scope, retrieve, transform, drill, discover | reads catalogue, registry of scenarios, live data | `ReportEngine`, `ScenarioKeys` |
| Tables and sheets (`engine/formatter.py`, `table_builder.py`, `excel/*`) | none | render, save, extract | a report's figures | `FinancialTable` |
| Read service (`mcp_external/server.py`, `dispatch.py`, `auth.py`, `concurrency.py`, `datasets.py`, `engine/scenario_registry.py`) | two semaphores, a cache of scenarios with a TTL and a lock, permissions of a request, snapshots in Redis | authenticate, gate, take and give back slots, execute, commit, fetch | threads and tasks of one process, writers in others | `ReadService` |
| Client pool (`analytical/resources.py`) | idle list, count, closed flag; active set per request | acquire, release, query, cancel, close | threads of one process | `ClientPool` |
| Artifacts (`artifacts/*`) | `files`, `artifact_uploads`, `artifact_blob_gc` rows; blobs and staging files on disk | begin/receive/complete upload, create, update, delete, garbage collection, orphan reconciliation | MCP tools and HTTP routes of several workers, one cleanup task per worker | `ArtifactStore` |
| Backup (`backup/*`) | bundles and manifests at a destination | run, prune, restore, drill | a daemon and the CLI, no lock between them | `BackupStore` |
| Administration (`admin_ops.py`, `keycloak_admin.py`, `keycloak_operator.py`) | users and profiles in Postgres, accounts and a provisioning client in Keycloak | create, disable, define, assign, reconcile | two stores without a common transaction | `Accounts` |

The behaviours that are hard to get right: loads of one binding started by
several processes; a lock that is only as alive as its Postgres connection; a
ClickHouse without transactions, in which every stage is a separate command;
process death between any two commands; a client that times out while the
server goes on; retries over what an earlier attempt left behind; caches filled
by a read that a write overtakes; compensation that may itself fail; and, in
the pure parts, several pieces of code that must agree on one notion (what a
filter restricts, which facts a figure holds, what a scenario key means).

What makes each component correct:

- *Pipeline*: one writer per table; a reader of a live slice sees one load's
  complete, vetted extract; the audit row tells the truth; a failed attempt
  never prevents or spoils the next one.
- *Triggers*: a window, a file or an idempotency key leads to the loads it
  stands for, not to none and not to two; a window's periods are loaded but for
  those a death or a failed insert takes.
- *Registry*: what is served is consistent; an answer of the API tells what
  became of the files and of memory; no query uses a connection made from a
  declaration that was replaced.
- *Catalogue and provisioning*: what is accepted can be computed with; the
  preflight passes exactly a warehouse the readers can use; once things have
  settled every mapping is current; filters, axes and searches agree.
- *Query engine*: every figure is the facts its labels name, within the scope
  of the caller, on either backend and through any fork; what is drilled into
  adds up; a sheet shows the report.
- *Read service*: caps hold, every call is answered, a caller sees its own
  writes, and permissions are those read for the request.
- *Artifacts*: a committed row has its bytes; bytes are accounted for or
  collected; the quota holds.
- *Backup*: a manifest names only what can be restored; retention keeps what
  it promises; a restore replaces what it says and nothing else.
- *Pool*: bounds hold, waiters are woken, nothing leaks on failure.
- *Administration*: a user's row and account come together, a disabled user is
  out, and the history shows what is in force.

## 2. Modules

| Module | Models | Notes |
|---|---|---|
| `LiveTables` | what ingestion promises to a reader of `live.*` | abstract specification: one action, `Publish(l, s)` |
| `LoadPipeline` | `run_binding` and what it calls, for any number of concurrent loads | implements `LiveTables` (`Promise == INSTANCE LiveTables WITH ...`) |
| `WarehouseProofs` | theorems about the pipeline, the mappings, the catalogue, the preflight and filters | EXTENDS `LoadPipeline`, `Deployment` |
| `Triggers`, `TriggersProofs` | the scheduler, the watcher and the API server around `run_binding` | processes that share only `load_history`, the locks and the drop store |
| `InstanceConfig`, `InstanceConfigProofs` | the integration directory, the registries read from it, the connections made from them | its `ServedIsConsistent` establishes the `TargetsUnique` that `LoadPipeline` assumes |
| `CatalogueRules` | reading, merging and validating the catalogue, and what readers ask of it | pure operators |
| `RaggedHierarchy` | edges, nodes and the rollup of a hierarchy of unequal depth | pure operators |
| `Deployment` | the provisioner, the server's catalogue, snapshot loads, mapping rebuilds, the preflight and the read tools' checks | EXTENDS `CatalogueRules`, `RaggedHierarchy` |
| `ScenarioKeys` | what a scenario key stands for, and the vocabulary a caller sees | pure operators |
| `ReportEngine` | a report from the question to its figures | EXTENDS `ScenarioKeys` |
| `FinancialTable` | the figures as lines, a table, a sheet, an extract | EXTENDS `ReportEngine` |
| `ReadService`, `ReadServiceProofs` | one process answering batches of tool calls; the proofs also cover the reports | EXTENDS `ScenarioKeys`; the proofs EXTEND `FinancialTable` too |
| `ClientPool`, `ClientPoolProofs` | the pool of native clients and the request-owned handles on it | threads, two conditions, timeouts, cancellation, shutdown |
| `ArtifactStore`, `ArtifactStoreProofs` | one owner's files: rows in Postgres, bytes on a disk | transactions that fail or seem to, dying processes, cleanup |
| `BackupStore`, `BackupStoreProofs` | bundles at a destination, retention, restore, drill, the sidecar | runs without a lock, a destination that fails half way |
| `Accounts`, `AccountsProofs` | administration over Postgres and Keycloak | refused steps, lost answers, dying processes |
| `MC*` | instances for TLC | model values, functions for constants, symmetry |

Components that share code or state are composed by EXTENDS as the table says;
the others meet at one interface. `Triggers` sees of `run_binding` that its row
is inserted, that it gets the binding's lock or not, and that it ends or
raises: the steps `RunBinding`, `AcquireLock` / `LockBusy`, `Finalise` and
`RaiseLocked` / `RaiseUnlocked` of `LoadPipeline`. `Deployment` sees of a
snapshot load that its rows are published and the mappings rebuilt after:
`Promote` and `RefreshHierarchies`. `ReadService` sees of the query engine that
it resolves the scenarios of a call and answers or fails.

Properties come at the end of each module. An operator whose comment begins
with "Mutant" is a plausible bug of the definition it stands before and is used by no
specification: replacing the one by the other makes TLC find the property that
`PROJECT.json` lists with it violated.

### LoadPipeline

`pc[l]` is the stage of the call that runs load `l`, named after the step it is
about to take; `job[l]` its arguments; `history[l]` its `load_history` row;
`lock[b]` the load whose connection holds the binding's advisory lock;
`staging` and `live` the contents of the tables by slice (a period of a
period-keyed table, the whole of a snapshot table), as sets of rows
`<<load id, block>>`. A row's load id is the `_load_id` column, and a *block*
is the unit in which an insert becomes visible: an extract is `Parts`, the
zero-row extract is `{}`.

| Action | Code |
|---|---|
| `RunBinding` | argument checks and `insert_attempt` (orchestrator 295-331) |
| `AcquireLock`, `LockBusy`, `FinaliseConflict`, `RaiseUnlocked` | `PgAdvisoryLock.acquire` and the lock-conflict return (361-386) |
| `ClearStaging`, `QuerySource`, `LandBlock`, `InsertReturns`, `ReadSourceTotals`, `ExtractFails` | `ibis_executor.execute` and the extract stage (390-437) |
| `RecordExtract` | `record_extract`, `stop_after == "extract"`, the zero-row guard (439-487) |
| `ShapePasses`, `ShapeFails`, `RunChecks`, `ChecksRaise`, `RecordChecks` | validation and the data-quality gate (489-580) |
| `Promote`, `DropStaging`, `RecordSwap`, `RefreshHierarchies`, `SwapFails` | the swap stage (582-609) and `swap.py` |
| `Finalise`, `RaiseLocked`, `Release` | the last status, an exception no inner branch catches, the finally clause (610-635) |
| `Crash`, `ReapSession`, `LoseLock`, `AbandonInsert` | the environment: process death, Postgres noticing it, a lost lock connection, an insert the server finishes or drops |

A command whose answer is lost is the command followed by the failure of its
stage (`Promote` then `SwapFails`). Only for the staging insert, the one long
command, does the model also have the server execute it after the client has
gone (`MaxLateInserts`). `stop = "none"` stands for `stop_after` None and
`"swap"`, which are the same code path. The content of check queries, reconcile
totals and shapes is abstracted to their verdict; a passed verdict may carry
warnings. The registry's uniqueness of targets is an assumption on the
constants (`TargetsUnique`) that the instances satisfy.

### Triggers

`proc[p]` is what a process is doing: a daemon between ticks, at a binding,
selecting periods, or inside `run_binding` for one of the orders it has yet to
carry out (`todo`). `rows` is `load_history`, oldest first, a row naming its
binding, period, file, trigger kind and the cron window of its insertion.
`pushed` and `seen` are the idempotency maps of an API server, in its memory
only. `setting` is the deployment of a behaviour: which services run, what is
asked of them, and how many failures and crashes there are; the daemons are
separate services, so each behaviour needs only those that can disturb each
other.

| Action | Code |
|---|---|
| `Tick`, `ShouldFire`, `SelectPeriods`, `TickDone` | `Scheduler.tick`, `should_fire`, `select_periods`: lookback and watermark |
| `ListKeys`, `ListFails`, `ReadProcessed`, `InferenceRaises` | the watcher's cycle over a binding, with its two reads kept apart |
| `InsertAttempt`, `InsertFails`, `Acquire`, `Conflict`, `Finish`, `Raise`, `Return`, `Dispatched` | a call of `run_binding`, and its caller after it |
| `Push`, `Upload`, `Put`, `PutFails` | the run and upload routes |
| `Advance`, `Crash`, `Restart` | the environment: the next cron window, process death, the supervisor |

Time is a cron window, a month is `WindowsPerMonth` of them; periods are the
integers that order them as their text does, with room for an adjustment period
behind each month, on which a watermark binding raises. The strategies
`explicit` and `snapshot` select a constant set and are left out. There is one
scheduler and one watcher in the instances: the properties say so, and two
replicas can fire a window twice, since nothing but the history row, read
before the load, keeps them apart. The API server is busy with one request at a
time: the push handler awaits nothing, and an upload awaits only the reading of
its body, before it looks at its key. `fired` is a history variable: what became of each period a
scheduler took on, the row inserted for it or that it was given up. `ProcessesAssumption` is the deployment's:
schedulers, watchers and servers are different services.

### InstanceConfig

`disk[f]` is what the file of an entity holds (absent, readable with a body, or
broken), the temporary files included; each process has the registry it last
published; `cached` holds the source connections and the declaration each was
made from. An entity is abstracted to what the rules of the registry tell
apart.

| Action | Code |
|---|---|
| `CreateSource` ... `DeleteBinding`, `ReloadRegistry` | the admin handlers up to their first file operation (`admin_routes.py` 77-453) |
| `WriteTemp`, `FillTemp`, `WriteFails`, `RenameTemp`, `UnlinkFile` | `_write_entity_yaml`, the unlink of a delete |
| `ApiReadsSources`, `ApiLoads`, `UndoChange`, `RestoreBytes`, `ApiLoadsAgain` | `_safe_reload_with_rollback` and the audit row |
| `ReloadReads`, `ReloadSwaps` | `IntegrationRegistryRef.reload` in the tool server; its two reads of the directory kept apart |
| `SetIntegrationRegistry`, `LoadDefaultRegistry`, `ResolveSource`, `Connect`, `ConnectFails` | `IbisRegistry` |
| `ApiCrashes`, `ApiRestarts`, `EditFile`, `ClearOrphan` | the environment |

The admin handlers are coroutines that await nothing, so one runs at a time,
while other processes see its file operations one by one. A file is named after
the entity it declares; an entity declared in another file is not modelled.

### CatalogueRules, RaggedHierarchy and Deployment

A catalogue file is a sequence of records with the fields it sets; the parsers
merge the defaults under them, as `load_catalogue` does. `Accepted` is
`load_and_validate`. `store` maps each relation of the warehouse to the
instance whose definition it has; `closures` holds the rows of each materialised
rollup; `owed` is what has been published or redefined since the last complete
rebuild.

| Action | Code |
|---|---|
| `ColdStart`, `Reload` | `_load_initial_catalogue`, `_CatalogueRef.reload` |
| `Provision`, `RefreshCommand`, `Publish` | the plan of `clickhouse_init.py`, `cmd_hierarchy_refresh`, a snapshot load |
| `CreateTable`, `CreateView`, `SeedScenarios`, `ReadCatalogue`, `BuildClosure`, `ReplaceClosure`, `Complete`, `Stop` | a job, statement by statement, stopped by the first that fails |
| `Ask`, `Search` | the checks of filters and axes of a report call; `search_hierarchy` with `filter_resolver.py` behind it |
| `Edit`, `Answered` | the operator replaces the directory; the caller has its answer |

The instances are every graph of three metrics, three statements and three
dimensions, an instance with every section of the catalogue, and twenty-five
ways to break one rule of it.

### ScenarioKeys, ReportEngine and FinancialTable

A figure is not a number but the facts it adds, `<<"sum", S>>`, so that a fact
counted twice, missed, or let in by the wrong scenario, window, scope or fork
shows. A formula is kept as a term over such figures. What a report should say
(`MeantFigure`, `MeantKeys`) is defined from the question alone, never from the
plan: the facts moved forward for a prior period, in the row, in the window,
asked for and admitted.

| Action | Code |
|---|---|
| `Plan` | `resolve` with its gates (`resolver.py`, `dispatch.py`) |
| `Scope` | `resolve_filters`, `enforce_cross_scenario_scope`, the forks |
| `Retrieve` | both retrievers, realignment of shifted periods |
| `Present` | `transform`, `format_response` |
| `Drill`, `Discover` | `inspect_rows`; `search_hierarchy` under the union of the scopes |
| `Render`, `Save`, `Extract` | `_render_financial_table` with the four layouts of `table_builder.py`; `report_to_excel`; `extract_to_excel` |

### ReadService

A request is a batch of calls; its authentication and the gate of each call run
on the event loop, one request at a time (`loop`), the tools in threads. `lock`
is the registry cache's lock, `snapshots` what Redis holds.

| Action | Code |
|---|---|
| `Arrive`, `Authenticate`, `AuthenticateFails` | `_authenticate`, `load_permissions` |
| `Gate`, `PassGate` | `process_tool_call`, `_permission_gate` |
| `TakeUser`, `NoUserSlot`, `TakeGlobal`, `NoGlobalSlot`, `Leave` | `ReadConcurrencyLimiter.acquire` |
| `Query` with `Hit`, `Publish`, `LoadFails` | `get_scenario_registry` |
| `Execute`, `ExecuteFails` | the read tools |
| `Watch`, `Commit`, `Fetch`, `Renew` | `cache_read_result`, `fetch_cached_read_result` |
| `Expire`, `Lapse`, `LocalWrite`, `LocalInvalidate`, `RemoteWrite`, `ChangeProfile` | the clock, other threads and processes |

The writes modelled are inserts of scenarios. `NamesAssumption` says that no
alias equals another row's id and that no name is spelt like a generated key.
The code checks aliases on their own and never against ids, so this is a
condition on what a deployment stores; without it a key could mean one scenario
to the gate and, after an insert, another to the engine.

### ClientPool

`pc[t]` says where thread `t` is in `PooledQueries._run` and
`ClientPool.acquire` / `release`; a step is what a thread does while it holds a
condition, or one call of a native client. `idle`, `count`, `closed` are the
pool's fields, `inflight`, `active` and `quit` (`_closed`) a handle's.

| Action | Code |
|---|---|
| `Query`, `Register`, `Return`, `Unregister`, `Leave` | `PooledQueries._run` |
| `TakeIdle`, `TakeExpired`, `CloseExpired`, `Reserve`, `Build`, `BuildFails`, `Wait`, `TimeOut`, `Busy`, `PoolIsClosed` | `ClientPool.acquire` |
| `Release`, `Discard` | `ClientPool.release` |
| `BeginCancel`, `CancelOne`, `EndCancel`, `CloseHandle`, `HandleClosed` | `PooledQueries.cancel`, `close` |
| `ClosePool`, `Retire` | `ClientPool.close`, at shutdown or when `get_pool` replaces the pool |

`Notify` follows Python's condition: a waiter whose time is up stays on the
list until it has the lock again, so a notification may be spent on it. Such a
waiter is `late`, and `lapsed` once notified; `NoLostWakeup` shows that it
makes no difference, because it looks for a client once more before it gives
up. The idle list is a set: which client is taken does not matter to any
property. The executor that runs the threads is not modelled.

### ArtifactStore

`file[f]`, `path[f]`, `gc`, `upload[u]` and `result[u]` are the tables of one
owner; `disk` is the set of paths that exist. `lock` is the worker whose
transaction holds the owner's `pg_advisory_xact_lock`; `work[w]` and `put[u]`
say where a tool call and the reception of an upload are; `sweep` is what
`reconcile_orphans` has yet to unlink.

| Action | Code |
|---|---|
| `BeginUpload`, `PutStart`, `PutReplace`, `PutMark`, `PutFails`, `PutReopen`, `PutAbandon` | the reservation and the upload route |
| `BeginComplete`, `BeginCreate`, `EnterCreate`, `RefuseCreate`, `Write`, `WriteFails`, `CommitCreate`, `Unstage` | `complete_upload`, `create_file` |
| `OpenFile`, `EnterUpdate`, `RefuseUpdate`, `CommitUpdate` | an edit of a file, `update_file_blob` |
| `CommitFails`, `CommitUncertain`, `Undo` | the exception handlers around the transactions |
| `Retire`, `Expire`, `Collect`, `PurgeFile`, `PurgeUpload`, `PurgeFails`, `Reconcile`, `Sweep` | deletion, `gc_expired`, `_collect_retired`, `reconcile_orphans` |
| `Crash`, `PutDies` | process death |

Every file has the size one, so the quota is a number of files. Two versions
have different bytes, so that the comparison of digests is one of paths. The
cleanup rechecks each row under the lock, so the order and the age of its
listing do not matter, and each item is an action of its own. The hour that an
orphan must have aged is read as: a transaction and a sweep together take less
than an hour, hence a path that a transaction under way has written is no
orphan. Reading a file, download tokens and access stamps are not modelled, nor
is the update without an expected digest, which no caller uses.

### BackupStore

A bundle is named by the second its run started in, so two runs of one second
share every key. Of an object it matters which run wrote it, which state of the
store it holds and whether it is whole; a checksum is therefore the identity of
the run that wrote the bytes. What is promised of a bundle's bytes after its run
is of bundles whose name no other run took (`Alone`, `NoCollision`): two runs of
one second write, list and delete the same keys, and with three runs TLC finds a
prune that deletes what another run has just written under a name it had listed.

| Action | Code |
|---|---|
| `StartByCli`, `Fire`, `RunReturns`, `Restart` | `op_run`; the sidecar's loop and its start |
| `Push`, `BackupClickHouse`, `StoreFails` | one store of `run_backup` |
| `PushManifest`, `ManifestFails` | the manifest, last |
| `PlanPrune`, `PruneArtifact`, `PruneManifest`, `PruneRaises` | `prune_bundles` |
| `BeginRestore`, `Fetch`, `RestorePostgres`, `DropClickHouse`, `RestoreClickHouse`, `Extract`, `RestoreDies` | `restore_bundle` |
| `DrillRestore`, `DrillCount`, `DrillClean` | `_run_drill` |
| `Advance`, `Crash` | the clock, which also changes the stores; process death |

### Accounts

Each SQL statement commits on its own and each request to Keycloak stands
alone. A step may be refused, may be done with its answer lost, and the process
may die before it; `budget` says how often in a behaviour, `happened` records
it. The lookup and the request of a `KeycloakAdmin` call are one step. The realm
is told by its defects, and `Steps` is `reconcile_provisioner`, request by
request.

| Action | Code |
|---|---|
| `CreateUser`, `CreateAccount`, `InsertUser`, `UndoAccount` | `create_user` |
| `DisableUser`, `DisableAccount`, `DisableRow` | `disable_user` |
| `CreateProfile`, `InsertProfile`, `UpdateProfile`, `ReplaceProfile`, `DeleteProfile`, `RemoveProfile`, `Record` | profiles and `profile_audit` |
| `AssignProfile`, `BindProfile`, `RevokeProfile`, `UnbindProfile` | assignment |
| `BeginReconcile`, `ReconcileStep`, `Drift`, `Settle`, `Enroll` | `reconcile_provisioner`, changes made by hand, `enroll_application_user` |
| `LogIn`, `LogOut`, `Crash` | the environment |

## 3. Runs

| Run | Bounds | Shows |
|---|---|---|
| `pipeline` | 2 loads, a checked period binding and a snapshot binding, 2 periods, 2 blocks, no lost locks, no late inserts | `OneLoadPerTarget`, `OnlyVettedRowsLive`, refinement of `LiveTables` |
| `pipeline_faults` | 2 loads, 1 binding, 1 period, 1 block, 1 lost lock, 1 late insert, fairness | `AuditTrailHonest`, `RerunRepairs`, `LockComesFree` whatever happens to locks and inserts |
| `triggers` | three settings: a scheduler with a failure and a crash over a change of month; a scheduler beside a server that pushes the adjustment period; a watcher beside a server with 3 files of which one cannot be parsed, 2 uploads, 1 push, 1 failure, 1 crash | `NoDoubleFire`, `FileFiresOnce`, `TriggersKeepUp` |
| `pool` | 3 threads of one handle, 3 clients, capacity 1, 1 expiry | `ExclusiveLoans`, `NothingLeaks`, `NoLostWakeup`, `ShutdownEnds` |
| `artifacts` | 2 workers, 1 reservation, 3 versions, a quota of 1, 1 commit that seems to fail | `RowsHaveBytes`, `QuotaKept`, `BytesAreReclaimed` |
| `backup` | 2 runs, 3 stores, seconds 0 to 4 (to 2 with a restore), an occurrence each, 1 change of the stores, 1 failure, 1 restore, a local destination and write-once object locks | `ManifestMeansComplete`, `NoFireSkipped`, `RetentionIsSafe`, `RestoreIsFaithful` |
| `report` | some 1 200 questions over 3 domains (period, week and quarter native; ClickHouse and federated; versioned and not), 6 metrics of every roll-up, a division, a tree, 3 scopes | `FiguresMeanTheirLabels`, `ScopesHold`, `AcceptedIsAnswered`, `DrillExplainsFigure`, `SheetsShowReport` |
| `reads` | 2 requests of up to 2 calls, 2 contents of the registry, 1 snapshot, 2 tries, 1 change of profile, three settings of owners and caps | `OwnWritesSeen`, `CapsKept`, `GrantsHold`, `EveryCallAnswered` |
| `config` | 1 source, 2 bindings, 2 targets, 2 revisions, 1 query thread, 2 requests, 1 edit, 1 reload, 1 crash | `ServedIsConsistent`, `AnswersTell`, `ReloadDropsConnections` |
| `catalogue` | the 1 564 instances above, of which one provisioned, edited and loaded; no two jobs overlap, 1 edit, 1 unexplained failure | `ServedIsSound`, `FiltersTell`, `PreflightTells`, `SettledClosuresAreCurrent` |
| `identity` | 2 operators, a new and an old user, 1 profile, five budgets of calls and faults | `CreationIsWhole`, `LockedOut`, `EnabledIsRepaired`, `InForceIsRecorded` |
| `doc_closing_quarter` | `report`'s instance, questions about a balance by quarter | the finding of section 5 |

*Pipeline.* Two loads are enough for every conflict the code distinguishes: a
load meets another that holds its lock, or left rows in its slice. Two blocks
are the least for a partial insert; two periods the least for a lock per period
to differ from a lock per binding; a checked and an unchecked binding, one of
each kind, reach both arms of every branch on kind and checks. What faults can
break is local to a slice, so one binding suffices there. Symmetry in loads and
blocks is used in the safety run only. `CHECK_DEADLOCK FALSE`: when every load
has ended, nothing is left to do.

*Triggers.* The second window is the least for a window to be missed and
another fired; the adjustment period is the one value on which the watermark
raises; one crash is enough to lose a half-done tick and the idempotency maps.
Two whole files are the least for one to be taken for the other, and the broken
one stands for all that the format reader raises on.

*Pool.* One place and three threads: one lends, one waits, and a third may take
what the second was woken for. With one handle a cancellation can reach the
next borrower only if the handle's condition is not held, which is the hazard.
`CHECK_DEADLOCK FALSE`: a closed handle takes no more queries.

*Artifacts.* Two workers race over one file and one reservation; three versions
are a file, its replacement and a second file or a third version; a quota of
one makes both the refused and the accepted side of every check reachable,
since an update discounts what it replaces.

*Backup.* Two runs are a daemon's and one by hand, or two of one second; the
retention of the shipped `backup.yml` is scaled down so that a second bundle
already lets a first one go. Symmetry in runs: no property is a liveness one.
A run of the sidecar may last past three occurrences, so that the one that is due
after it is told apart from the one that comes next (`NoFireSkipped`). A restore or a
drill begins by the second 2 and is followed by nothing later (`LastRestore`): which
occurrence fires does not depend on it.

*Report.* Each dimension of a question (metrics, grain, window, breakdown,
grains of rows, blocks, filters, scopes, domain) takes every value that the code
branches on; they are combined freely where the code combines them and singly
where it does not. Every state is one stage of one question.

*Reads.* Two requests are the least for a wait at either semaphore; the three
settings are caps that never bind, a cap of the user that binds, and one of the
process that binds between users. `CHECK_DEADLOCK FALSE`: all is answered.

*Config.* Two bindings over one target are the least for a conflict of targets;
one reload in the tool server runs beside two API requests and an edit, the
least for a read of the directory to fall between two file operations.

*Catalogue.* The instance that is provisioned has a leaf with inner levels of both
kinds, one of them a table of its own that lacks a member the rows have, and a
formula over metrics of two domains. Three nodes reach a self-loop, a two-cycle, a three-cycle, a
diamond's half and a chain. With overlapping jobs `SettledClosuresAreCurrent`
does not hold (section 5), hence `Serialised`.

*Identity.* `unwritten` is a history variable: the versions of a definition whose
writer was kept from its history row. Two operators are the least for a race over one name; each budget
makes one kind of operation frequent and keeps the others possible.

Fairness. *Pipeline*: weak fairness of a load's own steps, since a process that
does not die goes on with its call and every wait in it is bounded by a
timeout; of an insert the server has accepted; and of Postgres noticing a dead
session. No fairness makes a trigger fire, a process crash or a connection
drop. `RerunRepairs` says that from a state in which a load is about to clear
its slice, holds the lock and nobody else is at work on the table, it ends up
promoting its own extract whole, whatever earlier attempts and late inserts
have left. *Triggers*: the daemons loop for ever and their service is restarted
(`restart: unless-stopped` in the compose file); a load that began ends or
raises. *Pool*: threads run, native calls return (the one backend that is
pooled sets statement and socket timeouts), and `Busy` is strongly fair because
`acquire` computes its deadline once: a thread that is woken in vain again and
again runs out of time. *Artifacts*: a call or a transfer that began ends
unless its process dies, reservations expire by the clock, and the cleanup task
comes back every minute; its failures are steps of the environment that may
happen any number of times without disabling it. *Reads*: a request's own steps
are weakly fair, since the event loop and the threads run on and every wait for
a slot is bounded. The other modules state no fairness and no liveness.

## 4. Proofs

`WarehouseProofs` proves first, for all constants and with any number of faults:
`TypeCorrect`; `LockIsAccountable`, inductive together with `TypeOK` because
only `RunBinding` changes a load's arguments and it does so before any lock;
`AuditTrailIsHonest`, from the stage-by-stage invariant `AuditOf(l)`, which
says at each stage what the row must read. It is local to a load, so the proof
needs one case per action (`AuditStep`) and the lemma that a step leaves other
loads' own state alone (`OthersUntouched`).

It then proves what readers may rely on, under `Faultless`: no
lock connection lost, no late insert, unique targets. The assumption is needed:
with `MaxLockLosses = 1` in `pipeline.cfg`, TLC finds two loads of one binding
at work on one table (`pg_lock.py` does not look at its connection again until
the release). `LiveIsWhole` is not inductive: that a promoted staging slice is
whole follows only from the slice having been cleared by the same load and
touched by no other since. The inductive invariant `IInv` adds that a load in
its critical section holds its binding's lock, so that two such loads have
different targets (`DistinctTargets`), that only the insert a load waits for
still lands blocks, and what the staging slice holds at each stage
(`StagingOwned`). Preservation is split into the step's own load (`OwnStep`),
the other loads (`OtherStep`, by `LockKept` and `TablesTouched`) and the live
tables (`WholenessKept`, by `LiveStep`). From it: `OneLoadPerTargetHolds`,
`LiveIsWholeHolds`, `OnlyVettedRowsLiveHolds` (with the audit invariant),
`SuccessIsLiveHolds` and `Refinement`.

The rest of `WarehouseProofs` is about `Deployment`, for any directories, rows
and number of jobs. `RollupIsUnder` is about data alone: the rounds that
materialise a rollup give the leaves with everything above them, the least
relation closed under the edges, also where they form cycles; the argument is
that no node needs more rounds than there are nodes. `MappingsFollowTheRows`
proves `SettledClosuresAreCurrent` for jobs that do not overlap (`Serialised`,
which the docstring of `provisioning.py` asks of the deployment; section 5 has
what happens otherwise). It is not inductive: between two rebuilds the rows and
the definitions move on, and a job that stops half-way has rebuilt some
mappings. `DeploymentInv` says of every hierarchy that, unless something is owed
to it, its view and its mapping are those of now (`Books`), and of a job that
rebuilds what it has done and what it has still to do of it (`Tracked`), so that
striking what it covers off the books is right when it ends. The nodes of a generated
hierarchy are those of its node list but for the orphans (`Orphans`, `MappedListed`):
the list joins a level's own table and the edges do not. `ServedComputes`
proves `ServedIsSound`: the topological check that refuses circular formulas
refuses exactly the graphs from which something remains when the nodes nothing left
refers to are peeled off again and again, hence in an accepted catalogue metrics
can be computed, and every statement reaches metrics. `PreflightIsRight` proves
`PreflightTells` from `ProvisionInv`, which follows a provisioning before and
after it reads the catalogue (`Early`, `Late`) and holds whether or not jobs
overlap. `FiltersAreHonoured` proves `FiltersHonoured`, the half of
`FiltersTell` that is about reports. The code takes a metric over several domains
to be of one of them, whichever it meets first; the theorem holds for every
choice (`MetricDomains`, `DomainsAre`), and says of a dropped filter only what
holds for all of them. Its lemma `AncestorsAre` says that the
breadth-first walk of `_compute_transitive_closure` finds exactly what the
parents lead to: its invariant (`WalkInv`) is that the parents of whatever has
left the queue have been seen, and that n dimensions have left it after n steps,
so that the queue is empty when there is a step for each dimension. The
hypothesis `Anchored`, that a derived dimension at or above a bound one is above
some leaf, is what `_resolve_derived_filter` relies on and the validation does
not ask (section 5). `FiltersTellTheSame` adds the other half, `SearchTells`, for
jobs that do not overlap: what a search offers is what a filter can use, and it keeps
back nothing usable but the orphans.
`MembersInv` extends the books to the node lists (`Lists`), says that what a job
still has to make is of some directory's layer (`Sourced`), and that a rollup
has its mapping and a mapping its rows (`Made`). A search's answer is of the
warehouse as it is when it is read (`SearchAnswered`). Then there is one lemma
for each kind of dimension: of a leaf, what a hierarchy over it adds to the
table's members is permitted, since no other leaf is below a leaf (`LeafAlone`);
a derived one is searched and resolved by the same way; and an inner node is
listed exactly when it leads to a leaf and is no orphan, because each level of a row is above the
row's leaf (`RowsRise`, `InnerListed`). Its hypotheses beyond `Anchored` are
about the definitions and the rows, and the instances of `catalogue` satisfy
them: no other statement of any directory makes a relation called like a mapping
or its rollup (`NamesOwn`), the levels of a hierarchy are not called `all`, nor
like the leaf except the last (`LevelsNamed`), and no edge leads up to a leaf
(`LeavesAreLast`); section 5 says what happens otherwise. The assumptions on the
constants are that definitions are finite, that the tables a catalogue names exist, that `backend_kind` has one of
the two values of its type (`catalogue.py:31`; the loader does not check it),
and that the relations made for two hierarchies have different names
(`NamesApart`), which nothing in the code enforces.

`ClientPoolProofs` proves the safety properties of the pool for any finite sets
of threads and clients, any handles and any capacity. That a client is in one
place (`LoansExclusive`) and that an open one is in some place
(`NoSessionForgotten`) are two halves of what the invariant says of places.
The two that matter most are about numbers: `_count` is what is idle
plus what is charged to threads (building, on loan or being returned), which
gives `CapacityKept`; and `WakeupsKept`, whose strengthening says that while a
thread waits, the charged places and the threads that have been told to look
again together make up the capacity at least. `QuietWhenClosed` needs that
`_inflight` counts exactly the threads that entered through the handle;
`CancelStaysHome` needs that `active` is what the handle's threads have
registered and that nothing leaves it while `cancel()` has the condition.

`ArtifactStoreProofs` proves the safety properties of the store for any number
of workers, uploads and versions, any quota and any number of commits that
seem to fail; the only assumptions are that blobs, uploads and partial files
have different paths and that the uploads are finitely many. Whether a row has
its bytes depends on who may unlink a path, so the invariant is about claims: a
path is minted once (`MintInv`), and belongs to one row, to the list of retired
versions, to one call or to the sweep (`PathInv`). From the second it follows
that whatever unlinks a path does not take it from a live row (`BytesInv`),
with the one exception that `uncertain` records. `WorkInv` says what a call in
a transaction may rely on because it holds the owner's lock; `UploadInv` ties a
reservation to the transfer that serves it; `QuotaInv` says that a transaction
has made sure of the room it will use, and that only a commit or a new
reservation adds to what is taken (`Shrinks`, `Enters`, `Grows`). The action
properties follow from `RowSteps`: a path or a result changes only by a
commit's `InsertFile` or `ReplaceFile`, or by the purge of a file.

`ReadServiceProofs` begins with a fact about scenario keys that needs no state:
whatever a key means in one version of the registry it means in every later one
(`KeysKeepMeaning`, from `NamesAssumption`). `LocalWritesAreSeen` needs of the
registry only that what is published was read after the writes that have
returned (`RegistryOrder`). `CapsAreKept` counts slots by the stage of each
request (`Slots`), with one lemma per way the sets of holders change, and keeps
the quota by what a writer may rely on: as long as nobody has touched the keys
it watches, there is room for one more (`Quota`). `GrantsAreRespected` follows
from `Standing`, an account of what a request has been granted and has run at
each stage: between the gate and the engine the scope is that of the scenarios
the gate looked up, in whichever version it saw, and `KeysKeepMeaning` carries
it over to the version the engine sees. The assumptions are those of the module:
finitely many requests, numbers for caps, and names as above.

The second half of `ReadServiceProofs` is about reports, for any facts,
registry, catalogue, scopes and questions. `ScopesAreKept` proves `ScopesHold`
and, beyond it, that all a report adds and a drill returns is of scenarios the
caller may read. The permission is asked for the scenarios in the caller's
keys, while the queries are made from public keys, comparisons taken apart and
forks put in: `ReportInv` keeps that whatever is to be read was asked permission
for (`PlanIsInvolved`), which needs that the public key of what a key stands for
stands for the same (`ResolvedAgain`), and that the filters in use are those
every scenario's scope leaves (`FiltersAreShared`; the check compares the
cardinality of their set with one). Then each retriever only adds facts the
filters leave (`RetrievedWithin`), and those are what the scope admits
(`LeftIsAdmitted`). `TableImplementsReport` and `ShownScopesAreKept` carry this
over to tables and sheets. `DrillIsTheFigure` proves `DrillExplainsFigure`. Its
invariant `Course` says what every stage has made of the question: that a
plain block's query survives the merging of queries, what it has read, and
that moving the keys of other blocks leaves its total alone. The condition in
it, `ByMonth`, is needed, since a federated window compares codes as text
(section 5).

`FiguresAreMeant` proves `FiguresMeanTheirLabels`, both its halves, for the
requests `Told` admits: any metrics and formulas, in any number of blocks, forked,
shifted or compared, under any filters, scopes and grains, broken down by any
axes but a ragged hierarchy, with balances asked for by the month. The argument follows one figure backwards. The
query of a part survives the merging of queries (`PartIsPlanned`) and reads
the facts meant and no others (`ReadIsMeant`), since the conditions the
retriever builds from resolved filters are what the request and the scope say in
their own words. Each backend's rows are those facts group by group: on
ClickHouse with the tables of the several roll-ups merged by key
(`ClickHouseIs`), federated by adding up the detail rows, which is right for sums
because the groups of a row partition it. Moving the keys of a shifted part
forward is one to one on the rows it may have (`PartTells`), so no two rows fall
on one key and every fact stands under the label its moved self has. A balance
adds the facts at the end of the window, or of the row's own month where the row
names one (`ClosingTells`, `RetrievedAdds`), and that is the last period the label
names (`LastIs`). The rows of a report are then
exactly the labels with a figure (`RawRows`), and the formulas follow from their
bases (`BasesTell`, `FormulaFigures`). The
conditions are those of section 5: a federated request is by the month
(`ByMonth`), a year is not compared with the prior period and the prior year at
once (`Apart`), a prior period is not broken down coarser than the filter
(`Plainly`), and a balance has months as its domain's native periods and no other
time in its breakdown (`Balanced`, `Monthly`). `MembersAreKnown`, that the facts'
members are in the dimension tables, is what a `referential` check asks of a load
(`checks.py:239`); without it a scope that denies some members would admit a fact
of no known member that the retriever's list of permitted ones leaves out.

`AcceptedAreAnswered` proves `AcceptedIsAnswered` for any facts. A comparison finds
both sides because each was planned and none was lost to another's query, and a
formula finds its inputs where a row that has a flow has its balance too: in the
total, and in rows that are a time of their own (`Dated`).

The assumptions are that the registry is one `ScenarioRegistry` accepts, that
federated domains have no drafts (`catalogue.py:1367`) and axes are those the
model has, that facts have all their columns and the calendar has a week once,
and what `run_metric` and `run_table` make of their arguments (`AsksAssumption`;
`read_tools.py:842`, `:951`).

`AccountsProofs` proves the four properties of the administration for any
operators, users, profiles and faults. `AccountInv` says that at most one
creation answers for an account without a row (`Answered`); it is not enough to
compare accounts with rows when all is quiet, since two creations of one user
may both be under way. `RealmInv` says what is left to repair at each step of a
reconcile (`Left`), which is why the client is enabled last. `HistoryInv` keeps
for each definition in force its history row, the writer that is about to
append it, or that this writer was kept from it (`unwritten`): two statements
without a transaction promise no more, and the order of the rows is not that of the
writes; `LockInv` needs the rows only, as no operation makes a disabled user
active again.

`TriggersProofs` proves that a window and a file fire once, for any bindings,
files, requests and numbers of failures, in deployments with one scheduler and
one watcher: `OneOf(Schedulers)` and `OneOf(Watchers)` are hypotheses of the
theorems, since with two of a kind the property does not hold (section 2 and the
hazard at `scheduler.py:125`). The strengthening says what a process may rely on
between reading the history and adding to it: what a scheduler is about to load
is of no row of this window but of the ones it has added in this tick
(`StillDue`), and what a watcher is about to fire has no row (`StillNew`). The
loads of other services add rows that are of another kind and disturb neither.

`BackupStoreProofs` proves all four properties of backups for any number of
runs, stores, seconds, failures and crashes. `ManifestsAreComplete` rests on
`PushedInv`: a run that has pushed to a store is past it, and nobody else has
its keys. `RetentionTakesNoLastCopy` is about deletions decided long before they
happen. `PruneInv` says of each planned deletion without an age bound that a newer
copy has a manifest (`Successor`); another prune may delete that copy, but only
because it has seen a newer one still (`SuccessorStays`), so the newest stays
(`NewestStays`). Its hypothesis `MaxProbeErrors = 0` is needed: `_exists` takes
any error for absence (section 5). `RestoresAreFaithful` follows from `OpInv`, an
account of what has been fetched, checked, put back and looked at in each phase
of a restore and of a drill. `EveryOccurrenceFires` counts: the next occurrence
due is the least after the one last fired (`DueIsNext`).

`InstanceConfigProofs` proves the three properties of the integration registries
for any entities, threads and budgets. `RegistriesAreConsistent` is inductive
with the types alone: whatever a load has read, it is checked as a whole before
it is published. `AnswersAreTrue` needs `ChangeInv`, an account of the request at
each stage: what has been written, what will be put back, and what the half of
the registry already read says of the entity (`Reads`), so that the answer holds
although the two directories are read one after the other. A deleted entity may
still be served, but only because a dead write's temporary file declares it
(`Outlived`); this exception is part of the invariant. `ConnectionsAreCurrent`
adds what the threads are connecting to (`ConnInv`). The assumptions are that
sources and bindings have different ids and that the marks for a missing, broken
or torn file are no contents.

Some theorems state properties that no run repeats, since the prover covers
every instance: the type invariants, `LockAccountable`, `LiveIsWhole`,
`SuccessIsLive`, the pool's `WithinCapacity`, `CancelReachesOwnLoans` and
`ClosedHandleIsQuiet`, the store's `UploadedHasBytes`, `OneFilePerUpload` and
`NoLostUpdate`.

Several of these proofs argue by induction over data (keys, rounds of a rollup,
formulas over formulas). The library's induction theorems cannot be
instantiated with the provers at hand, so such an argument takes a smallest
counterexample (`LeastOf`, `SmallestOf`), and a recursive function is unfolded
by exhibiting one that satisfies its equation.

From TLC only: every liveness property (`RerunRepairs`, `LockComesFree`,
`TriggersKeepUp`, the second half of `ShutdownEnds`, `BytesAreReclaimed`,
`EveryCallAnswered`), since liveness under fairness is beyond the prover;
`FinancialTable.SheetsShowReport`, whose layouts are folds over the lines, and
the lines of `report` are of every shape the layouts tell apart; and of
`ReportEngine.FiguresMeanTheirLabels` the balances by other grains than the
month and the ragged breakdowns, of `AcceptedIsAnswered` formulas over rows
without a time.

## 5. Findings

One is a run that TLC ends with a violation, quoted in full in `PROJECT.json`:

| Run | What the code does |
|---|---|
| `doc_closing_quarter` | a balance asked for by quarter in a domain of months comes out empty, where the documentation has closing balances at every grain |

Met while modelling, each at its line, and without a run of its own. Where a
property would otherwise fail, its statement or the instance's bounds exclude
the case, as noted.

*Ingestion.*
- The status `failed_swap` does not mean that live is untouched, as
  `troubleshooting.md` says: what fails may come after `REPLACE PARTITION`.
- A load that has lost its lock connection goes on, so two loads may write one
  table (`MaxLockLosses = 0` in `pipeline`).
- The upload route remembers an idempotency key before it stores the file
  (`upload_routes.py:210`); after a failed store the retry is answered 202 and
  nothing is loaded.
- The scheduler selects periods by the UTC month where `period_selection.py:83`
  expects the binding's own time.
- A file that the format reader cannot parse ends every tick of the watcher
  (`watcher.py:172`, `:245`); files and bindings behind it wait until it is gone
  (`EachFileFires` asks for files none such is before).
- Rebuilds that overlap leave the older mapping (`orchestrator.py:596`;
  `Serialised`).

- A scheduler that dies, or fails to insert, between two periods of a window
  leaves the rest of them to the next window, since the row of the first counts as
  the window's attempt; so does the row of an earlier window's tick that outlasts
  it (`scheduler.py:125`, `:176`; `Whole`, `StandsFor`).

*Registry and admin API.*
- A rejected create removes a file the operator put there meanwhile
  (`admin_routes.py:636`).
- The rollback's write is not atomic, and a temporary file matches the pattern
  the registry loads.
- A connection being made while the registry is reloaded is cached after the
  reload (`ibis_registry.py:70`).

*Storage.*
- A commit that succeeds and is reported as failed has its bytes unlinked
  (`registry.py:185`; `uncertain`).
- A restore of the databases is not verified before it touches the target
  (`restore.py:384`).
- Run ids have the resolution of a second and runs take no lock, so two runs of
  one second share a bundle: one may describe the other's bytes, and a prune may
  take what is being written anew (`runner.py:246`; `Alone`, `NoCollision`).
- A manifest may go while an artifact it names survives, when its size cannot
  be asked for (`prune.py:33`; `MaxProbeErrors = 0`).

*Query engine.*
- A prior year and a prior period that coincide are merged and only one of them
  is filed (`resolver.py:853`).
- A closing balance over prior weeks adds all of them; a prior period broken
  down coarser than the filter is not moved back; a closing balance's last
  period ignores the filter on drafts; with two time axes and subtotals, balances
  are missing from the subtotals; a formula over a balance missing from a row
  fails the report. The questions of `report` leave these out.
- Federated filters compare `period` as text whatever the grain.
- Aliases such as `a_vs` are accepted, and their uniqueness is not checked by
  `create_scenario`.
- In a table, detail lines of one metric drop the totals of the others; a
  subtotal below the leftmost dimension has no row; a variance with one side
  missing is blank in a line and not in its total; equal display names share a
  cell (`Names` is assumed injective).

*Catalogue and provisioning.*
- A statement over two domains is answered from the first (`resolver.py:743`).
- A metric over two domains is taken to be of one of them, which one depending on
  the order of a set, so a filter that concerns only the other is dropped with a
  warning in one process and kept in the next (`context_validation.py:121`).
- A key that a level's own table does not have gets edges and a mapping but no
  node (`ragged_views.py:96`, `:189`): a filter resolves what no search finds.
  `clickhouse_init.py:127` warns of such keys; the shipped `client_portfolio`
  (`dimensions.yml:308`) has such a level (`Orphans`).
- A dimension shared by two leaves is resolved through the first only
  (`filter_resolver.py:119`).
- A derived dimension that no leaf leads to may be bound to a domain: the
  validation accepts it, a report keeps a filter on it, and resolving that filter
  always fails (`filter_resolver.py:113`; `Anchored` excludes it).
- Where a hierarchy has a node below a leaf, or a level's node has a leaf's id, a
  search offers that leaf for what is below it (`read_tools.py:1149`); the rows
  of `catalogue` have none (`LeavesAreLast`).
- A level called `all` is never found, and an inner level that is the leaf
  dimension itself is offered as leaves (`read_tools.py:1146`, `:1183`); nothing
  refuses either (`LevelsNamed`).
- A view of the directory may be called like a hierarchy's mapping and stand in
  its place (`NamesOwn`).
- A refresh without provisioning after an edit rebuilds from the old edges view
  (`owed` keeps the definitions); seeding compares ids only; views that are
  dropped from the directory stay.

*Administration.*
- A lost answer of Keycloak leaves an account although the docstring of
  `create_user` (`admin_ops.py:334`) says it is rolled back (`happened`).
- A profile is written by one statement and recorded by the next
  (`admin_ops.py:486`), so a death between the two leaves a definition in force
  that no row shows, and two updates may be recorded in the other order
  (`unwritten`).
- A profile's history may end with a deletion the foreign key refused
  (`admin_ops.py:515`), and an update of a profile deleted meanwhile is recorded.

## 6. Not modelled

| Part | Why |
|---|---|
| File readers, date and number parsing, DDL text | the content of one file or statement; no state another step depends on |
| Per-field validation of registry entities | abstracted to readable or broken |
| Commit modifiers, query extensions, day grain, sort and label formatting of reports | each multiplies the questions without a branch the others lack |
| Workbook lifecycle, regions, cell styles, the Excel add-in, UI widgets | formatting of one answer |
| Token verification, the OAuth proxy, login, password policy | the identity provider's protocol |
| Write and admin tools of the dispatcher, security audit, message framing | wrappers around operations modelled elsewhere |
| Backup listing, initialisation, configuration parsing, notification | no effect on bundles |
| Catalogue search text and limits, integrity warnings, the Databricks startup check | wording, or advisory only |
| Sample data, migrations, deployment scripts | one-shot scripts |
| `refresh_permissions` | no caller in the repository |
| The API's own rebind of its source connections (`admin_routes.py:94`) | another cache of the same kind in the API's process; `ReloadDropsConnections` is of the tool server's |
| `create_user`'s `on_db_insert` hook (`admin_ops.py:386`) | no caller in the repository passes one |

What would come next: `FiguresAreMeant` for ragged breakdowns and for balances by
other grains than the month, and the commit modifiers as one more branch of the
forks.
