-------------------------- MODULE BackupStoreProofs --------------------------
(***************************************************************************)
(* A manifest at the destination means a complete bundle, retention takes  *)
(* what it may and no more, a restore does what it was asked and a drill   *)
(* tells the truth: for any number of runs, stores, failures and crashes.  *)
(***************************************************************************)
EXTENDS BackupStore, FiniteSetTheorems, TLAPS

-----------------------------------------------------------------------------
(* The inductive invariants.                                               *)

Objects == [by : Runs \union {NoRun}, whole : BOOLEAN]
Pairs == Ids \X Stores

\* A run puts nothing more.
Past(r) == run[r].pc \in {"plan", "prune", "done", "raised", "crashed"}

RunRecord ==
    [pc : Managed \union {"new", "manifest", "plan", "prune", "done", "raised", "crashed"},
     id : Nat, result : [Stores -> {"none", "skipped", "success", "failed"}],
     counted : SUBSET Databases, changed : SUBSET Databases,
     names : SUBSET Pairs, todo : SUBSET Ids, doomed : SUBSET Pairs, gone : SUBSET Pairs]

TypeInv ==
    /\ clock \in Ids
    /\ artifact \in [Stores -> [Ids -> Objects \union {NoObject}]]
    /\ manifest \in [Ids -> Objects \union {NoObject}]
    /\ run \in [Runs -> RunRecord]
    /\ target \in [Targets -> Objects \union {NoObject, Production, Damaged}]
    /\ side \in [Databases -> Objects \union {NoObject}]
    /\ spent \in [{"failures", "changes", "probes", "restores"} -> Nat]

\* A run succeeds in its stores in their order, and what it counted is settled
\* with its manifest.
OrderInv ==
    \A r \in Runs :
        /\ run[r].pc = "new" => run[r] = NewRun
        /\ run[r].pc # "new" => run[r].id \in Ids
        /\ \A s \in Stores : Names(r, s) =>
              /\ s \in Managed
              /\ run[r].pc \in Managed => Position[s] < Position[run[r].pc]
        /\ run[r].changed \subseteq run[r].counted

\* A manifest is its writer's, who puts nothing more.
ManifestInv ==
    \A i \in Ids : manifest[i] # NoObject =>
        /\ manifest[i].by \in Runs /\ run[manifest[i].by].id = i
        /\ Past(manifest[i].by)

\* What a run has pushed stays until retention takes it.
PushedInv ==
    \A r \in Runs : \A s \in Stores :
        (Names(r, s) /\ Alone(r)) =>
            \/ Intact(r, s)
            \/ /\ artifact[s][run[r].id] = NoObject
               /\ \E q \in Runs : <<run[r].id, s>> \in run[q].gone

\* Retention, of runs that share no name: what one deletes without an age
\* bound has a newer copy with a manifest, nobody writes it again, and what it
\* has read of a manifest is all that the manifest names.
Successor(i, s) ==
    \E j \in Ids : j > i /\ Readable(j) /\ Names(manifest[j].by, s)
PruneInv ==
    NoCollision =>
        \A r \in Runs :
            /\ \A i \in Ids, s \in Stores :
                  /\ <<i, s>> \in run[r].doomed \union run[r].gone =>
                        /\ Days[s] = 0 => Successor(i, s)
                        /\ \E p \in Runs : run[p].id = i /\ Past(p)
                  /\ <<i, s>> \in run[r].gone => artifact[s][i] = NoObject
            /\ run[r].pc = "prune" =>
                  \A i \in run[r].todo :
                      \E p \in Runs :
                          /\ run[p].id = i /\ Past(p)
                          /\ \A s \in Stores : Names(p, s) => <<i, s>> \in run[r].names

\* The operator's command.
Restoring == {"apply", "restore"}
Drills == {"drill", "count", "clean"}
OpRecord ==
    [pc : {"idle", "done", "raised", "fetch"} \union Restoring \union Drills,
     of : Runs \union {NoRun}, drill : BOOLEAN, force : BOOLEAN,
     want : SUBSET Stores, keep : BOOLEAN, left : SUBSET Stores,
     got : [Fetched -> Objects \union {NoObject}],
     verdict : [Databases -> {"none", "failed", "differs", "agrees"}]]

\* It works on a bundle that a run has finished, with what that run named.
Active == {"fetch"} \union Restoring \union Drills
Works(o) ==
    o.pc \in Active =>
        /\ o.of \in Runs /\ Past(o.of)
        /\ o.want # {} /\ \A s \in o.want : Names(o.of, s)
        /\ o.left \subseteq o.want
        /\ IF o.pc = "fetch"
           THEN /\ o.left \subseteq Fetched
                /\ o.drill => o.want \intersect Databases # {}
           ELSE /\ o.drill <=> o.pc \in Drills
                /\ o.drill => o.left \subseteq Databases

\* All is fetched and verified before the first store is touched.
Fetches(o) ==
    o.pc \in Active =>
        \A s \in o.want \intersect Fetched :
            (o.pc = "fetch" => s \notin o.left) => o.got[s] = Bytes(o.of)

\* What a restore has put back into targets t so far, and what a drill is
\* looking at in side databases d.
Progresses(o, t, d) ==
    /\ o.pc = "restore" => First(o.left) = "clickhouse" /\ t["clickhouse"] = NoObject
    /\ (o.pc \in Restoring /\ Alone(o.of)) =>
          \A s \in (o.want \intersect Databases) \ o.left : t[s] = Bytes(o.of)
    /\ (o.pc = "count" /\ Alone(o.of)) => d[First(o.left)].by = o.of

\* What a drill has told so far.
Tells(o) ==
    /\ o.pc \notin Active => \A s \in Databases : o.verdict[s] = "none"
    /\ \A s \in Databases :
          /\ (o.verdict[s] = "differs" /\ Alone(o.of)) => s \in run[o.of].changed
          /\ o.verdict[s] = "agrees" => s \notin run[o.of].changed

\* An operator's command, between two of its steps or within one.
Fine(o, t, d) == o \in OpRecord /\ Works(o) /\ Fetches(o) /\ Progresses(o, t, d) /\ Tells(o)
Busy(o) == o.pc \in Active => o.left # {}
OpInv == Fine(op, target, side) /\ Busy(op)

\* The sidecar has fired what lies between its start and its last occurrence.
DaemonInv ==
    /\ daemon.since \in Nat /\ daemon.previous \in Nat /\ daemon.fires \in Nat
    /\ DOMAIN daemon = {"since", "previous", "job", "fires"}
    /\ IF daemon.previous = 0 THEN daemon.fires = 0
       ELSE /\ daemon.previous \in Ids /\ daemon.since < daemon.previous
            /\ NoFireSkipped

-----------------------------------------------------------------------------
(* The stores in their order.                                              *)

\* Of any stores there is a first one: run_backup's order is total.
LEMMA FirstIsLeast ==
    ASSUME NEW S \in SUBSET Stores, S # {}
    PROVE  First(S) \in S /\ \A t \in S : Position[First(S)] <= Position[t]
<1>1. \E s \in S : \A t \in S : Position[s] <= Position[t]
  <2>1. Position["postgres"] = 1 /\ Position["clickhouse"] = 2
        /\ Position["instance"] = 3 /\ Position["files"] = 4
    BY DEF Position
  <2>2. \A t \in S : t = "postgres" \/ t = "clickhouse" \/ t = "instance" \/ t = "files"
    BY DEF Stores
  <2>3. CASE "postgres" \in S
    BY <2>1, <2>2, <2>3
  <2>4. CASE "postgres" \notin S /\ "clickhouse" \in S
    BY <2>1, <2>2, <2>4
  <2>5. CASE "postgres" \notin S /\ "clickhouse" \notin S /\ "instance" \in S
    BY <2>1, <2>2, <2>5
  <2>6. CASE "postgres" \notin S /\ "clickhouse" \notin S /\ "instance" \notin S
    BY <2>1, <2>2, <2>6
  <2> QED BY <2>3, <2>4, <2>5, <2>6
<1> QED BY <1>1 DEF First

\* After a store comes a later one, or the manifest.
LEMMA FollowingIsLater ==
    ASSUME NEW s \in Managed
    PROVE  \/ Following(s) = "manifest"
           \/ Following(s) \in Managed /\ Position[s] < Position[Following(s)]
<1> DEFINE rest == {t \in Managed : Position[t] > Position[s]}
<1>1. rest \in SUBSET Stores
  BY ScopeAssumption
<1>2. CASE rest = {}
  BY <1>2 DEF Following
<1>3. CASE rest # {}
  <2>1. First(rest) \in rest
    BY <1>1, <1>3, FirstIsLeast
  <2>2. Following(s) = First(rest)
    BY <1>3 DEF Following
  <2> QED BY <2>1, <2>2, ScopeAssumption DEF Position, Stores
<1> QED BY <1>2, <1>3

\* The names of the stores are no names of other steps.
LEMMA StoresAreNoSteps ==
    /\ First(Managed) \in Managed
    /\ \A s \in Managed :
          /\ s \in Stores
          /\ s \notin {"new", "manifest", "plan", "prune", "done", "raised", "crashed"}
<1>1. First(Managed) \in Managed
  BY ScopeAssumption, FirstIsLeast
<1>2. ASSUME NEW s \in Managed
      PROVE  /\ s \in Stores
             /\ s \notin {"new", "manifest", "plan", "prune", "done", "raised", "crashed"}
  BY ScopeAssumption DEF Stores
<1> QED BY <1>1, <1>2

\* What a run writes are bytes of its own.
LEMMA WritesOwnBytes ==
    ASSUME NEW r \in Runs, NEW s \in Stores
    PROVE  /\ Bytes(r) \in Objects /\ Torn(r) \in Objects /\ Leftovers(r, s) \subseteq Objects
           /\ Bytes(r) # NoObject /\ Torn(r) # NoObject
<1>1. Bytes(r) \in Objects /\ Torn(r) \in Objects
  BY DEF Bytes, Torn, Objects
<1>2. NoObject \notin Objects
  BY ObjectsAssumption DEF Objects
<1> QED BY <1>1, <1>2 DEF Leftovers

-----------------------------------------------------------------------------
(* Types.                                                                  *)

LEMMA NewRunType == NewRun \in RunRecord /\ \A s \in Stores : NewRun.result[s] # "success"
BY ScopeAssumption DEF NewRun, RunRecord

Pcs == Managed \union {"new", "manifest", "plan", "prune", "done", "raised", "crashed"}

\* The record of a run after each kind of step.
LEMMA RunRecordUpdates ==
    ASSUME NEW v \in RunRecord, NEW pc \in Pcs
    PROVE  /\ [v EXCEPT !.pc = pc] \in RunRecord
           /\ \A i \in Nat : [v EXCEPT !.pc = pc, !.id = i] \in RunRecord
           /\ \A s \in Stores, o \in {"success", "failed"} :
                 [v EXCEPT !.result[s] = o, !.pc = pc] \in RunRecord
           /\ \A c, d \in SUBSET Databases :
                 [v EXCEPT !.pc = pc, !.counted = c, !.changed = d] \in RunRecord
           /\ \A d, n \in SUBSET Pairs, t \in SUBSET Ids :
                 [v EXCEPT !.pc = pc, !.doomed = d, !.todo = t, !.names = n] \in RunRecord
           /\ \A d, g \in SUBSET Pairs :
                 /\ [v EXCEPT !.doomed = d, !.gone = g] \in RunRecord
                 /\ [v EXCEPT !.doomed = d] \in RunRecord
           /\ \A t \in SUBSET Ids : [v EXCEPT !.todo = t, !.pc = pc] \in RunRecord
<1> USE DEF RunRecord, Pcs
<1>1. [v EXCEPT !.pc = pc] \in RunRecord
  OBVIOUS
<1>2. ASSUME NEW i \in Nat PROVE [v EXCEPT !.pc = pc, !.id = i] \in RunRecord
  OBVIOUS
<1>3. ASSUME NEW s \in Stores, NEW o \in {"success", "failed"}
      PROVE  [v EXCEPT !.result[s] = o, !.pc = pc] \in RunRecord
  OBVIOUS
<1>4. ASSUME NEW c \in SUBSET Databases, NEW d \in SUBSET Databases
      PROVE  [v EXCEPT !.pc = pc, !.counted = c, !.changed = d] \in RunRecord
  OBVIOUS
<1>5. ASSUME NEW d \in SUBSET Pairs, NEW n \in SUBSET Pairs, NEW t \in SUBSET Ids
      PROVE  [v EXCEPT !.pc = pc, !.doomed = d, !.todo = t, !.names = n] \in RunRecord
  OBVIOUS
<1>6. ASSUME NEW d \in SUBSET Pairs, NEW g \in SUBSET Pairs
      PROVE  /\ [v EXCEPT !.doomed = d, !.gone = g] \in RunRecord
             /\ [v EXCEPT !.doomed = d] \in RunRecord
  OBVIOUS
<1>7. ASSUME NEW t \in SUBSET Ids PROVE [v EXCEPT !.todo = t, !.pc = pc] \in RunRecord
  OBVIOUS
<1> HIDE DEF RunRecord
<1> QED BY <1>1, <1>2, <1>3, <1>4, <1>5, <1>6, <1>7

\* A step that a run takes is a step of its own record.
LEMMA RunTypeStep ==
    ASSUME run \in [Runs -> RunRecord], clock \in Ids,
           NEW r \in Runs, Begin(r) \/ RunStep(r) \/ Crash(r)
    PROVE  /\ run' \in [Runs -> RunRecord]
           /\ \A q \in Runs : q # r => run'[q] = run[q]
<1> DEFINE c == run[r]
<1>1. c \in RunRecord
  OBVIOUS
<1>2. c.pc \in Pcs /\ c.gone \in SUBSET Pairs /\ c.doomed \in SUBSET Pairs /\ c.todo \in SUBSET Ids
  BY <1>1 DEF RunRecord, Pcs
<1>3. {First(Managed), "manifest", "plan", "prune", "done", "raised", "crashed"} \subseteq Pcs
  BY StoresAreNoSteps DEF Pcs
<1>4. SUFFICES \E v \in RunRecord : run' = [run EXCEPT ![r] = v]
  OBVIOUS
<1>5. CASE Begin(r)
  <2>1. run' = [run EXCEPT ![r] = [c EXCEPT !.pc = First(Managed), !.id = clock]]
    BY <1>5 DEF Begin
  <2>2. clock \in Nat
    BY CronAssumption DEF Ids
  <2> QED BY <1>1, <1>3, <2>1, <2>2, RunRecordUpdates
<1>6. ASSUME NEW s \in Managed, NEW o \in {"success", "failed"}, Ends(r, s, o)
      PROVE  \E v \in RunRecord : run' = [run EXCEPT ![r] = v]
  <2>1. run' = [run EXCEPT ![r] = [c EXCEPT !.result[s] = o, !.pc = Following(s)]]
    BY <1>6 DEF Ends
  <2>2. Following(s) \in Pcs /\ s \in Stores
    BY FollowingIsLater, StoresAreNoSteps DEF Pcs
  <2> QED BY <1>1, <2>1, <2>2, RunRecordUpdates
<1>7. CASE Push(r)
  BY <1>6, <1>7 DEF Push
<1>8. CASE BackupClickHouse(r)
  BY <1>6, <1>8 DEF BackupClickHouse
<1>9. CASE StoreFails(r)
  BY <1>6, <1>9 DEF StoreFails
<1>10. CASE PushManifest(r)
  <2>1. PICK counted \in SUBSET Databases, changed \in SUBSET Databases :
          run' = [run EXCEPT ![r].pc = "plan", ![r].counted = counted, ![r].changed = changed]
    BY <1>10 DEF PushManifest
  <2>2. run' = [run EXCEPT ![r] = [c EXCEPT !.pc = "plan", !.counted = counted, !.changed = changed]]
    BY <2>1
  <2> QED BY <1>1, <1>3, <2>2, RunRecordUpdates
<1>11. ASSUME NEW pc \in Pcs, run' = [run EXCEPT ![r].pc = pc]
       PROVE  \E v \in RunRecord : run' = [run EXCEPT ![r] = v]
  <2>1. run' = [run EXCEPT ![r] = [c EXCEPT !.pc = pc]]
    BY <1>11
  <2> QED BY <1>1, <2>1, RunRecordUpdates
<1>12. CASE ManifestFails(r)
  BY <1>3, <1>11, <1>12 DEF ManifestFails
<1>13. CASE PruneRaises(r)
  BY <1>3, <1>11, <1>13 DEF PruneRaises
<1>14. CASE Crash(r)
  BY <1>3, <1>11, <1>14 DEF Crash
<1>15. CASE PlanPrune(r)
  <2> DEFINE listed == {i \in Ids : Readable(i)}
             doomed == {d \in listed \X Stores : Expired(r, listed, d[2], d[1])}
             names == {d \in listed \X Stores : Names(manifest[d[1]].by, d[2])}
             todo == {d[1] : d \in doomed}
             pc == IF doomed = {} THEN "done" ELSE "prune"
  <2>1. doomed \in SUBSET Pairs /\ names \in SUBSET Pairs /\ todo \in SUBSET Ids /\ pc \in Pcs
    BY <1>3 DEF Pairs
  <2>2. run' = [run EXCEPT ![r].pc = pc, ![r].doomed = doomed, ![r].todo = todo, ![r].names = names]
    BY <1>15 DEF PlanPrune
  <2> HIDE DEF doomed, names, todo, pc
  <2>3. run' = [run EXCEPT ![r] = [c EXCEPT !.pc = pc, !.doomed = doomed, !.todo = todo, !.names = names]]
    BY <2>2
  <2> QED BY <1>1, <2>1, <2>3, RunRecordUpdates
<1>16. CASE PruneArtifact(r)
  <2>1. PICK d \in run[r].doomed :
           \/ run' = [run EXCEPT ![r].doomed = @ \ {d}, ![r].gone = @ \union {d}]
           \/ run' = [run EXCEPT ![r].doomed = @ \ {d}]
    BY <1>16 DEF PruneArtifact
  <2>2. \/ run' = [run EXCEPT ![r] = [c EXCEPT !.doomed = c.doomed \ {d}, !.gone = c.gone \union {d}]]
        \/ run' = [run EXCEPT ![r] = [c EXCEPT !.doomed = c.doomed \ {d}]]
    BY <2>1
  <2>3. c.doomed \ {d} \in SUBSET Pairs /\ c.gone \union {d} \in SUBSET Pairs
    BY <1>2, <2>1
  <2> QED BY <1>1, <1>2, <2>2, <2>3, RunRecordUpdates
<1>17. CASE PruneManifest(r)
  <2>1. PICK i \in run[r].todo :
          run' = [run EXCEPT ![r].todo = @ \ {i}, ![r].pc = IF run[r].todo = {i} THEN "done" ELSE @]
    BY <1>17 DEF PruneManifest
  <2> DEFINE pc == IF c.todo = {i} THEN "done" ELSE c.pc
  <2>2. run' = [run EXCEPT ![r] = [c EXCEPT !.todo = c.todo \ {i}, !.pc = pc]]
    BY <2>1
  <2>3. pc \in Pcs /\ c.todo \ {i} \in SUBSET Ids
    BY <1>2, <1>3
  <2> HIDE DEF pc
  <2> QED BY <1>1, <2>2, <2>3, RunRecordUpdates
<1> QED BY <1>5, <1>7, <1>8, <1>9, <1>10, <1>12, <1>13, <1>14, <1>15, <1>16, <1>17 DEF RunStep

\* What a step of a run does at the destination: it puts an artifact of the
\* store it is at, deletes one that it has found expired, puts its manifest or
\* deletes one, or nothing.
Stored(r) ==
    /\ run[r].pc \in Managed
    /\ \E b \in {Bytes(r), Torn(r)} : Put(run[r].pc, run[r].id, b)
Deleted(r) ==
    /\ run[r].pc = "prune"
    /\ \E d \in run[r].doomed :
          /\ Put(d[2], d[1], NoObject)
          /\ run' = [run EXCEPT ![r].doomed = @ \ {d}, ![r].gone = @ \union {d}]
Published(r) ==
    /\ run[r].pc = "manifest"
    /\ \E whole \in BOOLEAN : manifest' = [manifest EXCEPT ![run[r].id] = [by |-> r, whole |-> whole]]
Withdrawn(r) ==
    /\ run[r].pc = "prune"
    /\ \E i \in run[r].todo :
          /\ manifest' = [manifest EXCEPT ![i] = NoObject]
          /\ Remaining(r, i) = {} \/ spent.probes < MaxProbeErrors

LEMMA DestinationSteps ==
    ASSUME NEW r \in Runs, RunStep(r) \/ Crash(r)
    PROVE  /\ UNCHANGED artifact \/ Stored(r) \/ Deleted(r)
           /\ UNCHANGED manifest \/ Published(r) \/ Withdrawn(r)
           /\ UNCHANGED <<clock, daemon, operator>>
<1> USE DEF destination, operator
<1>1. ASSUME NEW b \in Leftovers(r, run[r].pc) PROVE b \in {Bytes(r), Torn(r)}
  BY DEF Leftovers
<1>2. CASE Push(r)
  BY <1>2 DEF Push, Stored
<1>3. CASE BackupClickHouse(r)
  BY <1>3 DEF BackupClickHouse, Stored
<1>4. CASE StoreFails(r)
  BY <1>1, <1>4 DEF StoreFails, Stored
<1>5. CASE PushManifest(r)
  BY <1>5 DEF PushManifest, Published
<1>6. CASE ManifestFails(r)
  BY <1>6 DEF ManifestFails, Published
<1>7. CASE PlanPrune(r)
  BY <1>7 DEF PlanPrune
<1>8. CASE PruneArtifact(r)
  BY <1>8 DEF PruneArtifact, Deleted
<1>9. CASE PruneManifest(r)
  BY <1>9 DEF PruneManifest, Withdrawn
<1>10. CASE PruneRaises(r)
  BY <1>10 DEF PruneRaises
<1>11. CASE Crash(r)
  BY <1>1, <1>11 DEF Crash, Stored, Published
<1> QED BY <1>2, <1>3, <1>4, <1>5, <1>6, <1>7, <1>8, <1>9, <1>10, <1>11 DEF RunStep

\* The other steps leave the destination and the runs alone.
OperatorStep ==
    \/ BeginRestore \/ Fetch \/ RestorePostgres
    \/ DropClickHouse \/ RestoreClickHouse \/ Extract \/ RestoreDies
    \/ \E s \in Databases : DrillRestore(s) \/ DrillCount(s) \/ DrillClean(s)
DaemonStep == Advance \/ RunReturns \/ Restart

LEMMA OtherSteps ==
    /\ OperatorStep => UNCHANGED <<clock, destination, run, daemon>>
    /\ DaemonStep => UNCHANGED <<destination, run, operator>>
    /\ \A r \in Runs : StartByCli(r) \/ Fire(r) => Begin(r) /\ UNCHANGED <<clock, destination, operator>>
<1> USE DEF destination, operator
<1>1. ASSUME OperatorStep PROVE UNCHANGED <<clock, destination, run, daemon>>
  BY <1>1 DEF OperatorStep, BeginRestore, Fetch, RestorePostgres, DropClickHouse, RestoreClickHouse,
     Extract, RestoreDies, DrillRestore, DrillCount, DrillClean
<1>2. ASSUME DaemonStep PROVE UNCHANGED <<destination, run, operator>>
  BY <1>2 DEF DaemonStep, Advance, RunReturns, Restart
<1>3. ASSUME NEW r \in Runs, StartByCli(r) \/ Fire(r)
      PROVE  Begin(r) /\ UNCHANGED <<clock, destination, operator>>
  BY <1>3 DEF StartByCli, Fire
<1> QED BY <1>1, <1>2, <1>3

\* The steps, by who takes them.
LEMMA StepKinds ==
    ASSUME [Next]_vars
    PROVE  \/ UNCHANGED vars
           \/ OperatorStep
           \/ DaemonStep
           \/ \E r \in Runs : StartByCli(r) \/ Fire(r)
           \/ \E r \in Runs : RunStep(r) \/ Crash(r)
BY DEF Next, OperatorStep, DaemonStep

\* What is spent is counted.
LEMMA SpentTypeStep ==
    ASSUME TypeInv, [Next]_vars
    PROVE  spent' \in [{"failures", "changes", "probes", "restores"} -> Nat]
<1>1. SUFFICES ASSUME UNCHANGED spent \/ \E what \in {"failures", "changes", "probes", "restores"} : Spend(what)
               PROVE  spent' \in [{"failures", "changes", "probes", "restores"} -> Nat]
  <2> USE DEF Failing
  <2>1. CASE UNCHANGED vars
    BY <1>1, <2>1 DEF vars
  <2>2. CASE OperatorStep
    BY <1>1, <2>2 DEF OperatorStep, BeginRestore, Fetch, RestorePostgres, DropClickHouse, RestoreClickHouse,
       Extract, RestoreDies, DrillRestore, DrillCount, DrillClean
  <2>3. CASE DaemonStep
    BY <1>1, <2>3 DEF DaemonStep, Advance, RunReturns, Restart
  <2>4. CASE \E r \in Runs : StartByCli(r) \/ Fire(r)
    BY <1>1, <2>4 DEF StartByCli, Fire
  <2>5. CASE \E r \in Runs : RunStep(r) \/ Crash(r)
    BY <1>1, <2>5 DEF RunStep, Push, BackupClickHouse, StoreFails, PushManifest, ManifestFails,
       PlanPrune, PruneArtifact, PruneManifest, PruneRaises, Crash
  <2> QED BY <2>1, <2>2, <2>3, <2>4, <2>5, StepKinds
<1> QED BY <1>1 DEF TypeInv, Spend

\* The destination's types, over a step of a run.
LEMMA DestinationTypeStep ==
    ASSUME TypeInv, OrderInv, NEW r \in Runs, RunStep(r) \/ Crash(r)
    PROVE  /\ artifact' \in [Stores -> [Ids -> Objects \union {NoObject}]]
           /\ manifest' \in [Ids -> Objects \union {NoObject}]
<1>1. run[r] \in RunRecord
  BY DEF TypeInv
<1>2. run[r].todo \subseteq Ids /\ run[r].doomed \subseteq Pairs
  BY <1>1 DEF RunRecord
<1>3. ASSUME NEW s \in Stores, NEW i \in Ids, NEW b \in Objects \union {NoObject}, Put(s, i, b)
      PROVE  artifact' \in [Stores -> [Ids -> Objects \union {NoObject}]]
  BY <1>3 DEF Put, TypeInv
<1>4. ASSUME Stored(r)
      PROVE  artifact' \in [Stores -> [Ids -> Objects \union {NoObject}]]
  <2>1. run[r].pc \in Stores /\ run[r].id \in Ids
    BY <1>4, StoresAreNoSteps DEF Stored, OrderInv
  <2> QED BY <1>3, <1>4, <2>1, WritesOwnBytes DEF Stored
<1>5. ASSUME Deleted(r)
      PROVE  artifact' \in [Stores -> [Ids -> Objects \union {NoObject}]]
  BY <1>2, <1>3, <1>5 DEF Deleted, Pairs
<1>6. ASSUME NEW i \in Ids, NEW m \in Objects \union {NoObject}, manifest' = [manifest EXCEPT ![i] = m]
      PROVE  manifest' \in [Ids -> Objects \union {NoObject}]
  BY <1>6 DEF TypeInv
<1>7. ASSUME Published(r)
      PROVE  manifest' \in [Ids -> Objects \union {NoObject}]
  <2>1. run[r].id \in Ids
    BY <1>7 DEF Published, OrderInv
  <2>2. \A whole \in BOOLEAN : [by |-> r, whole |-> whole] \in Objects
    BY DEF Objects
  <2> QED BY <1>6, <1>7, <2>1, <2>2 DEF Published
<1>8. ASSUME Withdrawn(r)
      PROVE  manifest' \in [Ids -> Objects \union {NoObject}]
  BY <1>2, <1>6, <1>8 DEF Withdrawn
<1>9. /\ artifact' = artifact => artifact' \in [Stores -> [Ids -> Objects \union {NoObject}]]
      /\ manifest' = manifest => manifest' \in [Ids -> Objects \union {NoObject}]
  BY DEF TypeInv
<1> QED BY <1>4, <1>5, <1>7, <1>8, <1>9, DestinationSteps

\* An object at the destination is the bytes of some run.
Contents == Objects \union {NoObject}

LEMMA OpRecordUpdates ==
    ASSUME NEW v \in OpRecord
    PROVE  /\ NoOp \in OpRecord /\ Settled(v) \in OpRecord
           /\ \A pc \in {"idle", "done", "raised", "fetch"} \union Restoring \union Drills :
                 /\ [v EXCEPT !.pc = pc] \in OpRecord
                 /\ [NoOp EXCEPT !.pc = pc] \in OpRecord
                 /\ \A l \in SUBSET Stores : [v EXCEPT !.pc = pc, !.left = l] \in OpRecord
                 /\ \A s \in Databases, o \in {"failed", "differs", "agrees"} :
                       [v EXCEPT !.pc = pc, !.verdict[s] = o] \in OpRecord
           /\ \A l \in SUBSET Stores, s \in Fetched, b \in Contents :
                 [v EXCEPT !.left = l, !.got[s] = b] \in OpRecord
           /\ \A r \in Runs, q \in Requests, w \in SUBSET Stores, l \in SUBSET Stores :
                 [NoOp EXCEPT !.pc = "fetch", !.of = r, !.drill = q.drill, !.force = q.force,
                              !.keep = q.keep, !.want = w, !.left = l] \in OpRecord
<1> DEFINE Opcs == {"idle", "done", "raised", "fetch"} \union Restoring \union Drills
<1>1. NoOp \in OpRecord
  BY DEF NoOp, OpRecord
<1>2. ASSUME NEW w \in OpRecord, NEW pc \in Opcs PROVE [w EXCEPT !.pc = pc] \in OpRecord
  BY DEF OpRecord
<1>3. ASSUME NEW w \in OpRecord, NEW pc \in Opcs, NEW l \in SUBSET Stores
      PROVE  [w EXCEPT !.pc = pc, !.left = l] \in OpRecord
  BY DEF OpRecord
<1>4. ASSUME NEW pc \in Opcs, NEW s \in Databases, NEW o \in {"failed", "differs", "agrees"}
      PROVE  [v EXCEPT !.pc = pc, !.verdict[s] = o] \in OpRecord
  BY DEF OpRecord
<1>5. ASSUME NEW l \in SUBSET Stores, NEW s \in Fetched, NEW b \in Contents
      PROVE  [v EXCEPT !.left = l, !.got[s] = b] \in OpRecord
  BY DEF OpRecord, Contents
<1>6. ASSUME NEW r \in Runs, NEW q \in Requests, NEW w \in SUBSET Stores, NEW l \in SUBSET Stores
      PROVE  [NoOp EXCEPT !.pc = "fetch", !.of = r, !.drill = q.drill, !.force = q.force,
                          !.keep = q.keep, !.want = w, !.left = l] \in OpRecord
  <2>1. q.drill \in BOOLEAN /\ q.force \in BOOLEAN /\ q.keep \in BOOLEAN
    BY RequestsAssumption
  <2> QED BY <1>1, <2>1 DEF OpRecord
<1>7. Settled(v) \in OpRecord
  <2>1. v.want \in SUBSET Stores
    BY DEF OpRecord
  <2>2. v.want \intersect Databases \in SUBSET Stores
    BY <2>1
  <2>3. {"drill", "apply", "done"} \subseteq Opcs
    BY DEF Restoring, Drills
  <2>4. CASE v.left # {} \/ v.pc \notin {"fetch", "apply", "drill"}
    BY <2>4 DEF Settled
  <2>5. CASE ~ (v.left # {} \/ v.pc \notin {"fetch", "apply", "drill"}) /\ v.pc = "fetch"
    <3>1. CASE v.drill
      BY <1>3, <2>2, <2>3, <2>5, <3>1 DEF Settled
    <3>2. CASE ~ v.drill
      BY <1>3, <2>1, <2>3, <2>5, <3>2 DEF Settled
    <3> QED BY <3>1, <3>2
  <2>6. CASE ~ (v.left # {} \/ v.pc \notin {"fetch", "apply", "drill"}) /\ v.pc # "fetch"
    BY <1>1, <1>2, <2>3, <2>6 DEF Settled
  <2> QED BY <2>4, <2>5, <2>6
<1> HIDE DEF Opcs
<1> QED BY <1>1, <1>2, <1>3, <1>4, <1>5, <1>6, <1>7 DEF Opcs

\* The operator's types, over a step of the operator.
Kinds(o, t, d) ==
    /\ o \in OpRecord
    /\ t \in [Targets -> Contents \union {Production, Damaged}]
    /\ d \in [Databases -> Contents]

LEMMA OperatorTypeStep ==
    ASSUME TypeInv, OrderInv, ManifestInv, op \in OpRecord, Works(op), OperatorStep
    PROVE  Kinds(op', target', side')
<1> USE DEF Contents
<1>1. op.got \in [Fetched -> Contents] /\ op.left \in SUBSET Stores
  BY DEF OpRecord
<1>2. Kinds(op, target, side)
  BY DEF Kinds, TypeInv
<1>3. ASSUME Raise PROVE op' \in OpRecord
  BY <1>3, OpRecordUpdates DEF Raise
<1>4. ASSUME NEW s, NEW pc \in {"apply", "drill"}, op' = Settled([op EXCEPT !.pc = pc, !.left = @ \ {s}])
      PROVE  op' \in OpRecord
  <2>1. op.left \ {s} \in SUBSET Stores
    BY <1>1
  <2>2. [op EXCEPT !.pc = pc, !.left = op.left \ {s}] \in OpRecord
    BY <2>1, OpRecordUpdates DEF Restoring, Drills
  <2> QED BY <1>4, <2>2, OpRecordUpdates
<1>5. ASSUME NEW t \in Targets, NEW b \in Contents \union {Production, Damaged}, Set(t, b)
      PROVE  target' \in [Targets -> Contents \union {Production, Damaged}]
  BY <1>2, <1>5 DEF Set, Kinds
<1>6. ASSUME NEW s \in Databases, NEW b \in Contents, side' = [side EXCEPT ![s] = b]
      PROVE  side' \in [Databases -> Contents]
  BY <1>2, <1>6 DEF Kinds
<1>7. ASSUME NEW r \in Runs, Past(r), NEW a \in OnDisk(r) PROVE a \in Contents
  <2>1. run[r].id \in Ids
    BY <1>7 DEF OrderInv, Past
  <2> QED BY <2>1 DEF OnDisk, TypeInv, Stores
<1>8. op.pc \in {"restore", "drill", "count", "clean"} => op.of \in Runs
  BY DEF Works, Active, Restoring, Drills
<1>9. Databases \subseteq Targets
  BY DEF Targets
<1>10. CASE BeginRestore
  <2>1. PICK i \in Ids, q \in Requests :
          /\ Readable(i)
          /\ LET want == IF q.want = {} THEN Available(i) ELSE q.want IN
                /\ want \subseteq Available(i)
                /\ op' = Settled([NoOp EXCEPT !.pc = "fetch", !.of = manifest[i].by,
                                      !.drill = q.drill, !.force = q.force, !.keep = q.keep,
                                      !.want = want, !.left = want \intersect Fetched])
    BY <1>10 DEF BeginRestore
  <2> DEFINE want == IF q.want = {} THEN Available(i) ELSE q.want
  <2>2. manifest[i].by \in Runs
    BY <2>1 DEF Readable, ManifestInv
  <2>3. want \in SUBSET Stores
    BY <2>1 DEF Available
  <2> HIDE DEF want
  <2>4. want \intersect Fetched \in SUBSET Stores
    BY <2>3
  <2>5. op' = Settled([NoOp EXCEPT !.pc = "fetch", !.of = manifest[i].by,
                                      !.drill = q.drill, !.force = q.force, !.keep = q.keep,
                                      !.want = want, !.left = want \intersect Fetched])
    BY <2>1 DEF want
  <2>6. [NoOp EXCEPT !.pc = "fetch", !.of = manifest[i].by, !.drill = q.drill, !.force = q.force,
                     !.keep = q.keep, !.want = want, !.left = want \intersect Fetched] \in OpRecord
    BY <2>2, <2>3, <2>4, OpRecordUpdates
  <2>7. op' \in OpRecord
    BY <2>5, <2>6, OpRecordUpdates
  <2> QED BY <1>2, <1>10, <2>7 DEF BeginRestore, Kinds
<1>11. CASE Fetch
  <2> DEFINE s == First(op.left)
             b == artifact[s][run[op.of].id]
  <2>1. s \in Fetched /\ s \in Stores
    BY <1>1, <1>11, FirstIsLeast DEF Fetch, Works, Active
  <2>2. op.of \in Runs /\ Past(op.of)
    BY <1>11 DEF Fetch, Works, Active
  <2>3. CASE Intact(op.of, s)
    <3>1. b \in Contents
      BY <2>2, <2>3, WritesOwnBytes, <2>1 DEF Intact
    <3>2. op.left \ {s} \in SUBSET Stores
      BY <1>1
    <3>3. op' = Settled([op EXCEPT !.left = op.left \ {s}, !.got[s] = b])
      BY <1>11, <2>3 DEF Fetch
    <3> HIDE DEF s, b
    <3>4. [op EXCEPT !.left = op.left \ {s}, !.got[s] = b] \in OpRecord
      BY <2>1, <3>1, <3>2, OpRecordUpdates
    <3> QED BY <1>2, <1>11, <3>3, <3>4, OpRecordUpdates DEF Fetch, Kinds
  <2>4. CASE ~ Intact(op.of, s)
    <3>1. Raise
      BY <1>11, <2>4 DEF Fetch
    <3> QED BY <1>2, <1>3, <1>11, <3>1 DEF Fetch, Kinds
  <2> QED BY <2>3, <2>4
<1>12. CASE RestorePostgres
  <2>1. "postgres" \in Targets /\ op.got["postgres"] \in Contents
    BY <1>1 DEF Targets, Databases, Fetched
  <2>2. target' \in [Targets -> Contents \union {Production, Damaged}] /\ UNCHANGED side
    BY <1>2, <1>5, <1>12, <2>1 DEF RestorePostgres, Kinds
  <2>3. op' \in OpRecord
    BY <1>3, <1>4, <1>12 DEF RestorePostgres, StoreDone
  <2> QED BY <1>2, <2>2, <2>3 DEF Kinds
<1>13. CASE DropClickHouse
  <2>1. "clickhouse" \in Targets
    BY DEF Targets, Databases
  <2>2. target' \in [Targets -> Contents \union {Production, Damaged}] /\ UNCHANGED side
    BY <1>2, <1>5, <1>13, <2>1 DEF DropClickHouse, Kinds
  <2>3. [op EXCEPT !.pc = "restore"] \in OpRecord
    BY OpRecordUpdates DEF Restoring
  <2>4. op' \in OpRecord
    BY <1>3, <1>13, <2>3 DEF DropClickHouse
  <2> QED BY <1>2, <2>2, <2>4 DEF Kinds
<1>14. CASE RestoreClickHouse
  <2>1. "clickhouse" \in Targets
    BY DEF Targets, Databases
  <2>2. op.of \in Runs /\ Past(op.of)
    BY <1>14 DEF RestoreClickHouse, Works, Active, Restoring
  <2>3. \A a \in OnDisk(op.of) : a \in Contents
    BY <1>7, <2>2
  <2>4. target' \in [Targets -> Contents \union {Production, Damaged}] /\ UNCHANGED side
    BY <1>2, <1>5, <1>14, <2>1, <2>3 DEF RestoreClickHouse, Kinds
  <2>5. op' \in OpRecord
    BY <1>3, <1>4, <1>14 DEF RestoreClickHouse, StoreDone
  <2> QED BY <1>2, <2>4, <2>5 DEF Kinds
<1>15. CASE Extract
  <2>1. PICK s \in {"instance", "files"} :
          /\ IF s = "files" /\ op.force THEN Set(s, op.got[s]) ELSE UNCHANGED target
          /\ StoreDone(s)
    BY <1>15 DEF Extract
  <2>2. "files" \in Targets /\ op.got["files"] \in Contents
    BY <1>1 DEF Targets, Fetched
  <2>3. target' \in [Targets -> Contents \union {Production, Damaged}]
    BY <1>2, <1>5, <2>1, <2>2 DEF Kinds
  <2>4. op' \in OpRecord
    BY <1>4, <2>1 DEF StoreDone
  <2> QED BY <1>2, <1>15, <2>3, <2>4 DEF Extract, Kinds
<1>16. CASE RestoreDies
  BY <1>2, <1>3, <1>16 DEF RestoreDies, Kinds
<1>17. ASSUME NEW s \in Databases, DrillRestore(s) \/ DrillCount(s) \/ DrillClean(s)
       PROVE  Kinds(op', target', side')
  <2>1. UNCHANGED target
    BY <1>17 DEF DrillRestore, DrillCount, DrillClean
  <2>2. op.of \in Runs /\ Past(op.of)
    BY <1>17 DEF DrillRestore, DrillCount, DrillClean, Drilling, Works, Active, Drills
  <2>3. CASE DrillRestore(s)
    <3>1. \A a \in OnDisk(op.of) : a \in Contents
      BY <1>7, <2>2
    <3>2. s = "postgres" => op.got[s] \in Contents
      BY <1>1 DEF Fetched
    <3>3. side' \in [Databases -> Contents]
      BY <1>6, <2>3, <3>1, <3>2 DEF DrillRestore
    <3>4. [op EXCEPT !.pc = "count"] \in OpRecord /\ [op EXCEPT !.pc = "clean", !.verdict[s] = "failed"] \in OpRecord
      BY OpRecordUpdates DEF Drills
    <3>5. op' \in OpRecord
      BY <2>3, <3>4 DEF DrillRestore, DrillFails
    <3> QED BY <1>2, <2>1, <3>3, <3>5 DEF Kinds
  <2>4. CASE DrillCount(s)
    <3>1. PICK o \in {"failed", "differs", "agrees"} :
                op' = [op EXCEPT !.pc = "clean", !.verdict[s] = o]
      BY <2>4 DEF DrillCount
    <3>2. op' \in OpRecord
      BY <3>1, OpRecordUpdates DEF Drills
    <3> QED BY <1>2, <2>1, <2>4, <3>2 DEF DrillCount, Kinds
  <2>5. CASE DrillClean(s)
    <3>1. op' \in OpRecord
      BY <1>4, <2>5 DEF DrillClean
    <3>2. side' \in [Databases -> Contents]
      BY <1>2, <1>6, <2>5 DEF DrillClean, Kinds
    <3> QED BY <1>2, <2>1, <3>1, <3>2 DEF Kinds
  <2> QED BY <1>17, <2>3, <2>4, <2>5
<1> QED BY <1>10, <1>11, <1>12, <1>13, <1>14, <1>15, <1>16, <1>17 DEF OperatorStep

-----------------------------------------------------------------------------
(* How a run goes on.                                                      *)

\* What no step takes back: a run keeps its bundle's name, what retention has
\* taken, and, once it puts nothing more, what it found out.
GoesOn(q) ==
    /\ run[q].pc # "new" => run'[q].pc # "new" /\ run'[q].id = run[q].id
    /\ run[q].gone \subseteq run'[q].gone
    /\ Past(q) => /\ Past(q)'
                  /\ run'[q].result = run[q].result
                  /\ run'[q].counted = run[q].counted /\ run'[q].changed = run[q].changed

\* Only the run that moves can have come by a success, in the store it was at.
LEMMA RunGoesOn ==
    ASSUME TypeInv, OrderInv, NEW r \in Runs, Begin(r) \/ RunStep(r) \/ Crash(r)
    PROVE  /\ OrderInv' /\ \A q \in Runs : GoesOn(q)
           /\ \A q \in Runs, s \in Stores :
                 Names(q, s)' => \/ Names(q, s)
                                 \/ q = r /\ s = run[r].pc /\ (Push(r) \/ BackupClickHouse(r))
<1> DEFINE Own == /\ run'[r].pc # "new" /\ run'[r].id \in Ids
                  /\ run'[r].changed \subseteq run'[r].counted
                  /\ \A s \in Stores : run'[r].result[s] = "success" =>
                        /\ s \in Managed
                        /\ run'[r].pc \in Managed => Position[s] < Position[run'[r].pc]
                        /\ \/ run[r].result[s] = "success"
                           \/ s = run[r].pc /\ (Push(r) \/ BackupClickHouse(r))
                  /\ GoesOn(r)
<1>1. run' \in [Runs -> RunRecord] /\ \A q \in Runs : q # r => run'[q] = run[q]
  BY RunTypeStep DEF TypeInv
<1>2. SUFFICES Own
  <2>1. ASSUME NEW q \in Runs, q # r PROVE GoesOn(q) /\ (\A s \in Stores : Names(q, s)' => Names(q, s))
    BY <1>1, <2>1 DEF GoesOn, Past, Names
  <2>2. ASSUME NEW q \in Runs
        PROVE  /\ (run[q].pc = "new" => run[q] = NewRun)'
               /\ (run[q].pc # "new" => run[q].id \in Ids)'
               /\ (\A s \in Stores : Names(q, s) =>
                      /\ s \in Managed
                      /\ run[q].pc \in Managed => Position[s] < Position[run[q].pc])'
               /\ (run[q].changed \subseteq run[q].counted)'
    <3>1. CASE q = r
      BY <1>2, <3>1 DEF Names
    <3>2. CASE q # r
      BY <1>1, <3>2 DEF OrderInv, Names
    <3> QED BY <3>1, <3>2
  <2>3. OrderInv'
    BY <2>2 DEF OrderInv
  <2>4. \A s \in Stores : Names(r, s)' => Names(r, s) \/ (s = run[r].pc /\ (Push(r) \/ BackupClickHouse(r)))
    BY <1>2 DEF Names
  <2> QED BY <1>2, <2>1, <2>3, <2>4
<1> USE DEF GoesOn, Past
<1>3. run[r] \in RunRecord /\ run \in [Runs -> RunRecord] /\ clock \in Ids
  BY DEF TypeInv
<1>4. /\ run[r].pc = "new" => run[r] = NewRun
      /\ run[r].pc # "new" => run[r].id \in Ids
      /\ \A s \in Stores : run[r].result[s] = "success" =>
            /\ s \in Managed
            /\ run[r].pc \in Managed => Position[s] < Position[run[r].pc]
      /\ run[r].changed \subseteq run[r].counted
  BY DEF OrderInv, Names
<1>5. CASE Begin(r)
  <2>1. run[r] = NewRun /\ run[r].pc = "new" /\ run' = [run EXCEPT ![r].pc = First(Managed), ![r].id = clock]
    BY <1>4, <1>5 DEF Begin
  <2>2. run'[r].pc = First(Managed) /\ run'[r].id = clock /\ run'[r].result = NewRun.result
        /\ run'[r].changed = NewRun.changed /\ run'[r].counted = NewRun.counted /\ run'[r].gone = run[r].gone
    BY <1>3, <2>1 DEF RunRecord
  <2>3. First(Managed) # "new" /\ \A s \in Stores : NewRun.result[s] # "success"
    BY StoresAreNoSteps, NewRunType
  <2>4. NewRun.changed = {}
    BY DEF NewRun
  <2> QED BY <1>3, <2>1, <2>2, <2>3, <2>4
<1>6. ASSUME NEW t \in Managed, t = run[r].pc, NEW o \in {"success", "failed"}, Ends(r, t, o),
             o = "success" => Push(r) \/ BackupClickHouse(r)
      PROVE  Own
  <2>1. run'[r].pc = Following(t) /\ run'[r].id = run[r].id /\ run'[r].result = [run[r].result EXCEPT ![t] = o]
        /\ run'[r].changed = run[r].changed /\ run'[r].counted = run[r].counted /\ run'[r].gone = run[r].gone
    BY <1>3, <1>6 DEF Ends, RunRecord
  <2>2. t \in Stores /\ t \notin {"new", "plan", "prune", "done", "raised", "crashed"}
    BY StoresAreNoSteps
  <2>3. ~ Past(r) /\ run[r].pc # "new"
    BY <1>6, <2>2
  <2>4. Following(t) # "new" /\ Following(t) \in Managed => Position[t] < Position[Following(t)]
    BY FollowingIsLater, StoresAreNoSteps
  <2>5. Following(t) # "new"
    BY FollowingIsLater, StoresAreNoSteps
  <2>6. run[r].result \in [Stores -> {"none", "skipped", "success", "failed"}]
    BY <1>3 DEF RunRecord
  <2>7. ASSUME NEW s \in Stores, run'[r].result[s] = "success"
        PROVE  /\ s \in Managed
               /\ run'[r].pc \in Managed => Position[s] < Position[run'[r].pc]
               /\ \/ run[r].result[s] = "success"
                  \/ s = run[r].pc /\ (Push(r) \/ BackupClickHouse(r))
    <3>1. CASE s = t
      BY <1>6, <2>1, <2>2, <2>4, <2>5, <2>6, <2>7, <3>1
    <3>2. CASE s # t
      <4>1. run[r].result[s] = "success" /\ s \in Managed /\ Position[s] < Position[t]
        BY <1>4, <1>6, <2>1, <2>6, <2>7, <3>2
      <4>2. {Position[s], Position[t]} \subseteq Nat /\ \A u \in Managed : Position[u] \in Nat
        <5>1. Position \in [Stores -> Nat]
          BY DEF Position, Stores
        <5> HIDE DEF Position
        <5> QED BY <2>2, <5>1, StoresAreNoSteps
      <4> QED BY <2>1, <2>4, <2>5, <4>1, <4>2
    <3> QED BY <3>1, <3>2
  <2> QED BY <1>4, <2>1, <2>3, <2>5, <2>7
<1>7. CASE Push(r)
  BY <1>6, <1>7 DEF Push
<1>8. CASE BackupClickHouse(r)
  BY <1>6, <1>8 DEF BackupClickHouse
<1>9. CASE StoreFails(r)
  BY <1>6, <1>9 DEF StoreFails
<1>10. ASSUME run'[r].result = run[r].result, run'[r].id = run[r].id, run[r].pc # "new",
              run'[r].counted = run[r].counted, run'[r].changed = run[r].changed,
              run[r].gone \subseteq run'[r].gone, Past(r)'
       PROVE  Own
  <2>1. run'[r].pc \notin Managed /\ run'[r].pc # "new"
    BY <1>10, StoresAreNoSteps
  <2> QED BY <1>4, <1>10, <2>1
<1>11. CASE PushManifest(r)
  <2>1. PICK counted \in SUBSET Databases, changed \in SUBSET Databases :
          /\ changed \subseteq counted
          /\ run' = [run EXCEPT ![r].pc = "plan", ![r].counted = counted, ![r].changed = changed]
          /\ run[r].pc = "manifest"
    BY <1>11 DEF PushManifest
  <2>2. run'[r].pc = "plan" /\ run'[r].id = run[r].id /\ run'[r].result = run[r].result
        /\ run'[r].changed = changed /\ run'[r].counted = counted /\ run'[r].gone = run[r].gone
    BY <1>3, <2>1 DEF RunRecord
  <2>3. "plan" \notin Managed
    BY StoresAreNoSteps
  <2> QED BY <1>4, <2>1, <2>2, <2>3
<1>12. ASSUME NEW pc, run' = [run EXCEPT ![r].pc = pc], pc \in {"raised", "done", "crashed"}, run[r].pc # "new"
       PROVE  Own
  <2>1. run'[r].pc = pc /\ run'[r].id = run[r].id /\ run'[r].result = run[r].result
        /\ run'[r].changed = run[r].changed /\ run'[r].counted = run[r].counted /\ run'[r].gone = run[r].gone
    BY <1>3, <1>12 DEF RunRecord
  <2> QED BY <1>10, <1>12, <2>1
<1>13. CASE ManifestFails(r)
  BY <1>12, <1>13 DEF ManifestFails
<1>14. CASE PruneRaises(r)
  BY <1>12, <1>14 DEF PruneRaises
<1>15. CASE Crash(r)
  <2>1. run[r].pc # "new"
    BY <1>15, StoresAreNoSteps DEF Crash
  <2> QED BY <1>12, <1>15, <2>1 DEF Crash
<1>16. CASE PlanPrune(r)
  <2> DEFINE listed == {i \in Ids : Readable(i)}
             doomed == {d \in listed \X Stores : Expired(r, listed, d[2], d[1])}
             names == {d \in listed \X Stores : Names(manifest[d[1]].by, d[2])}
             todo == {d[1] : d \in doomed}
             pc == IF doomed = {} THEN "done" ELSE "prune"
  <2>1. pc \in {"done", "prune"}
    OBVIOUS
  <2>2. run' = [run EXCEPT ![r].pc = pc, ![r].doomed = doomed, ![r].todo = todo, ![r].names = names]
        /\ run[r].pc = "plan"
    BY <1>16 DEF PlanPrune
  <2> HIDE DEF doomed, names, todo, pc
  <2>3. run'[r].pc = pc /\ run'[r].id = run[r].id /\ run'[r].result = run[r].result
        /\ run'[r].changed = run[r].changed /\ run'[r].counted = run[r].counted /\ run'[r].gone = run[r].gone
    BY <1>3, <2>2 DEF RunRecord
  <2> QED BY <1>10, <2>1, <2>2, <2>3
<1>17. CASE PruneArtifact(r)
  <2>1. PICK d \in run[r].doomed :
           \/ run' = [run EXCEPT ![r].doomed = @ \ {d}, ![r].gone = @ \union {d}]
           \/ run' = [run EXCEPT ![r].doomed = @ \ {d}]
    BY <1>17 DEF PruneArtifact
  <2>2. run'[r].pc = run[r].pc /\ run'[r].id = run[r].id /\ run'[r].result = run[r].result
        /\ run'[r].changed = run[r].changed /\ run'[r].counted = run[r].counted
        /\ run[r].gone \subseteq run'[r].gone
    BY <1>3, <2>1 DEF RunRecord
  <2>3. run[r].pc = "prune"
    BY <1>17 DEF PruneArtifact
  <2> QED BY <1>10, <2>2, <2>3
<1>18. CASE PruneManifest(r)
  <2>1. PICK i \in run[r].todo :
          run' = [run EXCEPT ![r].todo = @ \ {i}, ![r].pc = IF run[r].todo = {i} THEN "done" ELSE @]
    BY <1>18 DEF PruneManifest
  <2>2. run[r].pc = "prune"
    BY <1>18 DEF PruneManifest
  <2>3. run'[r].pc \in {"done", "prune"} /\ run'[r].id = run[r].id /\ run'[r].result = run[r].result
        /\ run'[r].changed = run[r].changed /\ run'[r].counted = run[r].counted /\ run'[r].gone = run[r].gone
    BY <1>3, <2>1, <2>2 DEF RunRecord
  <2> QED BY <1>10, <2>2, <2>3
<1> QED BY <1>5, <1>7, <1>8, <1>9, <1>11, <1>13, <1>14, <1>15, <1>16, <1>17, <1>18 DEF RunStep

\* Runs that share a name go on sharing it.
LEMMA AloneBefore ==
    ASSUME OrderInv, \A q \in Runs : GoesOn(q)
    PROVE  (\A q \in Runs : Alone(q)' => Alone(q)) /\ (NoCollision' => NoCollision)
<1>1. ASSUME NEW q \in Runs, Alone(q)' PROVE Alone(q)
  <2>1. ASSUME NEW p \in Runs, p # q, run[p].pc # "new", run[p].id = run[q].id PROVE FALSE
    <3>1. CASE run[q].pc = "new"
      <4>1. run[q] = NewRun /\ run[p].id \in Ids
        BY <2>1, <3>1 DEF OrderInv
      <4>2. NewRun.id = 0
        BY DEF NewRun
      <4> QED BY <2>1, <4>1, <4>2 DEF Ids
    <3>2. CASE run[q].pc # "new"
      BY <1>1, <2>1, <3>2 DEF GoesOn, Alone
    <3> QED BY <3>1, <3>2
  <2> QED BY <2>1 DEF Alone
<1> QED BY <1>1 DEF NoCollision

\* A name that is not shared names one run.
LEMMA AloneIsOnly ==
    ASSUME NEW p \in Runs, NEW q \in Runs, Alone(p), run[q].pc # "new", run[q].id = run[p].id
    PROVE  q = p
BY DEF Alone

\* The manifests, over a step of a run.
LEMMA ManifestStep ==
    ASSUME TypeInv, OrderInv, ManifestInv, NEW r \in Runs, RunStep(r) \/ Crash(r)
    PROVE  ManifestInv'
<1>1. \A q \in Runs : GoesOn(q)
  BY RunGoesOn
<1>2. ASSUME NEW q \in Runs, Past(q) PROVE run'[q].id = run[q].id /\ Past(q)'
  BY <1>1, <1>2 DEF GoesOn, Past
<1>3. run[r] \in RunRecord
  BY DEF TypeInv
<1>4. ASSUME run[r].pc = "manifest" PROVE Past(r)'
  <2>1. ASSUME NEW pc, run' = [run EXCEPT ![r].pc = pc], pc \in {"plan", "raised", "crashed"}
        PROVE  Past(r)'
    <3>1. run'[r].pc = pc
      BY <1>3, <2>1 DEF TypeInv, RunRecord
    <3> QED BY <2>1, <3>1 DEF Past
  <2>2. CASE PushManifest(r)
    <3>1. PICK counted, changed :
            run' = [run EXCEPT ![r].pc = "plan", ![r].counted = counted, ![r].changed = changed]
      BY <2>2 DEF PushManifest
    <3>2. run'[r].pc = "plan"
      BY <1>3, <3>1 DEF TypeInv, RunRecord
    <3> QED BY <3>2 DEF Past
  <2>3. CASE ManifestFails(r) \/ Crash(r)
    BY <2>1, <2>3 DEF ManifestFails, Crash
  <2>4. CASE Push(r) \/ BackupClickHouse(r) \/ StoreFails(r)
    BY <1>4, <2>4, StoresAreNoSteps DEF Push, BackupClickHouse, StoreFails
  <2>5. CASE PlanPrune(r) \/ PruneArtifact(r) \/ PruneManifest(r) \/ PruneRaises(r)
    BY <1>4, <2>5 DEF PlanPrune, PruneArtifact, PruneManifest, PruneRaises
  <2> QED BY <2>2, <2>3, <2>4, <2>5 DEF RunStep
<1>5. SUFFICES ASSUME NEW i \in Ids, manifest'[i] # NoObject
               PROVE  \E p \in Runs : p = manifest'[i].by /\ run'[p].id = i /\ Past(p)'
  <2>1. ASSUME NEW i \in Ids, manifest'[i] # NoObject
        PROVE  manifest'[i].by \in Runs /\ run'[manifest'[i].by].id = i /\ Past(manifest[i].by)'
    <3>1. PICK p \in Runs : p = manifest'[i].by /\ run'[p].id = i /\ Past(p)'
      BY <1>5, <2>1
    <3> QED BY <3>1 DEF Past
  <2> QED BY <2>1 DEF ManifestInv
<1>6. CASE manifest'[i] = manifest[i]
  <2>1. PICK p \in Runs : p = manifest[i].by /\ run[p].id = i /\ Past(p)
    BY <1>5, <1>6 DEF ManifestInv
  <2> QED BY <1>2, <1>6, <2>1
<1>7. CASE manifest'[i] # manifest[i]
  <2>1. CASE Published(r)
    <3>1. i = run[r].id /\ manifest'[i].by = r /\ run[r].pc = "manifest"
      BY <1>7, <2>1 DEF Published, TypeInv
    <3>2. run'[r].id = run[r].id
      BY <1>1, <3>1 DEF GoesOn
    <3> QED BY <1>4, <3>1, <3>2
  <2>2. CASE Withdrawn(r)
    BY <1>5, <1>7, <2>2 DEF Withdrawn, TypeInv
  <2>3. CASE UNCHANGED manifest
    BY <1>7, <2>3
  <2> QED BY <2>1, <2>2, <2>3, DestinationSteps
<1> QED BY <1>6, <1>7

\* What is pushed stays, over a step of a run.
LEMMA PushedStep ==
    ASSUME TypeInv, OrderInv, PushedInv, NEW r \in Runs, RunStep(r) \/ Crash(r)
    PROVE  PushedInv'
<1>1. \A q \in Runs : GoesOn(q)
  BY RunGoesOn
<1>2. run[r] \in RunRecord /\ run \in [Runs -> RunRecord]
  BY DEF TypeInv
<1>3. SUFFICES ASSUME NEW q \in Runs, NEW s \in Stores, Names(q, s)', Alone(q)'
               PROVE  \/ Intact(q, s)'
                      \/ /\ artifact'[s][run'[q].id] = NoObject
                         /\ \E p \in Runs : <<run'[q].id, s>> \in run'[p].gone
  BY DEF PushedInv
<1>4. Alone(q)
  BY <1>1, <1>3, AloneBefore
<1>5. CASE Names(q, s)
  <2>1. run[q].pc # "new"
    BY <1>5, NewRunType DEF OrderInv, Names
  <2> DEFINE i == run[q].id
  <2>2. run'[q].id = i /\ i \in Ids
    BY <1>1, <2>1 DEF GoesOn, OrderInv
  <2>3. \/ artifact[s][i] = Bytes(q)
        \/ artifact[s][i] = NoObject /\ \E p \in Runs : <<i, s>> \in run[p].gone
    BY <1>4, <1>5 DEF PushedInv, Intact
  <2>4. \A p \in Runs : <<i, s>> \in run[p].gone => <<i, s>> \in run'[p].gone
    BY <1>1 DEF GoesOn
  <2>5. CASE artifact'[s][i] = artifact[s][i]
    BY <2>2, <2>3, <2>4, <2>5 DEF Intact, Bytes
  <2>6. CASE artifact'[s][i] # artifact[s][i]
    <3>1. CASE Stored(r)
      <4>1. i = run[r].id /\ s = run[r].pc /\ run[r].pc \in Managed
        BY <2>2, <2>6, <3>1 DEF Stored, Put, TypeInv
      <4>2. q = r
        BY <1>4, <4>1, AloneIsOnly, StoresAreNoSteps
      <4>3. Position[s] < Position[s] /\ Position[s] \in Nat
        <5>1. Position \in [Stores -> Nat]
          BY DEF Position, Stores
        <5> QED BY <1>5, <4>1, <4>2, <5>1 DEF OrderInv
      <4> QED BY <4>3
    <3>2. CASE Deleted(r)
      <4>1. PICK d \in run[r].doomed :
              /\ Put(d[2], d[1], NoObject)
              /\ run' = [run EXCEPT ![r].doomed = @ \ {d}, ![r].gone = @ \union {d}]
        BY <3>2 DEF Deleted
      <4>2. d \in Pairs
        BY <1>2 DEF RunRecord
      <4>3. d = <<i, s>> /\ artifact'[s][i] = NoObject
        BY <2>2, <2>6, <4>1, <4>2 DEF Put, TypeInv, Pairs
      <4>4. d \in run'[r].gone
        BY <1>2, <4>1 DEF RunRecord
      <4> QED BY <2>2, <4>3, <4>4
    <3> QED BY <2>6, <3>1, <3>2, DestinationSteps
  <2> QED BY <2>5, <2>6
<1>6. CASE ~ Names(q, s)
  <2>1. q = r /\ s = run[r].pc /\ (Push(r) \/ BackupClickHouse(r))
    BY <1>3, <1>6, RunGoesOn
  <2>2. Put(s, run[r].id, Bytes(r)) /\ s \in Managed
    BY <2>1 DEF Push, BackupClickHouse
  <2>3. run[r].id \in Ids /\ run'[r].id = run[r].id
    BY <1>1, <2>1, <2>2, StoresAreNoSteps DEF OrderInv, GoesOn
  <2>4. artifact'[s][run'[r].id] = Bytes(r)
    BY <2>2, <2>3 DEF Put, TypeInv
  <2> QED BY <2>1, <2>4 DEF Intact, Bytes
<1> QED BY <1>5, <1>6

-----------------------------------------------------------------------------
(* Retention.                                                              *)

\* A run adds to what it will delete in one step only, and what is gone it has
\* deleted.
LEMMA PruneGoesOn ==
    ASSUME TypeInv, NEW r \in Runs, Begin(r) \/ RunStep(r) \/ Crash(r), ~ PlanPrune(r), NEW q \in Runs
    PROVE  /\ run'[q].doomed \union run'[q].gone \subseteq run[q].doomed \union run[q].gone
           /\ run'[q].pc = "prune" =>
                 run[q].pc = "prune" /\ run'[q].todo \subseteq run[q].todo /\ run'[q].names = run[q].names
           /\ \A d \in run'[q].gone : d \notin run[q].gone => d \in Pairs /\ Put(d[2], d[1], NoObject)
<1> DEFINE Goal == /\ run'[q].doomed \union run'[q].gone \subseteq run[q].doomed \union run[q].gone
                   /\ run'[q].pc = "prune" =>
                         run[q].pc = "prune" /\ run'[q].todo \subseteq run[q].todo /\ run'[q].names = run[q].names
                   /\ \A d \in run'[q].gone : d \notin run[q].gone => d \in Pairs /\ Put(d[2], d[1], NoObject)
<1>1. CASE q # r
  BY <1>1, RunTypeStep DEF TypeInv
<1>2. CASE q = r
  <2>1. run[r] \in RunRecord /\ run \in [Runs -> RunRecord]
    BY DEF TypeInv
  <2>2. ASSUME run'[r].doomed = run[r].doomed, run'[r].gone = run[r].gone, run'[r].pc # "prune"
        PROVE  Goal
    BY <1>2, <2>2
  <2>3. CASE Begin(r)
    <3>1. run'[r].doomed = run[r].doomed /\ run'[r].gone = run[r].gone /\ run'[r].pc = First(Managed)
      BY <2>1, <2>3 DEF Begin, RunRecord
    <3> QED BY <2>2, <3>1, StoresAreNoSteps
  <2>4. ASSUME NEW s \in Managed, NEW o, Ends(r, s, o) PROVE Goal
    <3>1. run'[r].doomed = run[r].doomed /\ run'[r].gone = run[r].gone /\ run'[r].pc = Following(s)
      BY <2>1, <2>4 DEF Ends, RunRecord
    <3>2. Following(s) # "prune"
      BY FollowingIsLater, StoresAreNoSteps
    <3> QED BY <2>2, <3>1, <3>2
  <2>5. CASE Push(r) \/ BackupClickHouse(r) \/ StoreFails(r)
    BY <2>4, <2>5 DEF Push, BackupClickHouse, StoreFails
  <2>6. CASE PushManifest(r)
    <3>1. PICK counted, changed :
            run' = [run EXCEPT ![r].pc = "plan", ![r].counted = counted, ![r].changed = changed]
      BY <2>6 DEF PushManifest
    <3>2. run'[r].doomed = run[r].doomed /\ run'[r].gone = run[r].gone /\ run'[r].pc = "plan"
      BY <2>1, <3>1 DEF RunRecord
    <3> QED BY <2>2, <3>2
  <2>7. CASE ManifestFails(r) \/ Crash(r) \/ PruneRaises(r)
    <3>1. PICK pc \in {"raised", "crashed", "done"} : run' = [run EXCEPT ![r].pc = pc]
      BY <2>7 DEF ManifestFails, Crash, PruneRaises
    <3>2. run'[r].doomed = run[r].doomed /\ run'[r].gone = run[r].gone /\ run'[r].pc = pc
      BY <2>1, <3>1 DEF RunRecord
    <3> QED BY <2>2, <3>2
  <2>8. CASE PruneArtifact(r)
    <3>1. PICK d \in run[r].doomed :
             \/ Put(d[2], d[1], NoObject)
                /\ run' = [run EXCEPT ![r].doomed = @ \ {d}, ![r].gone = @ \union {d}]
             \/ run' = [run EXCEPT ![r].doomed = @ \ {d}]
      BY <2>8 DEF PruneArtifact
    <3>2. /\ run'[r].doomed = run[r].doomed \ {d} /\ run'[r].pc = run[r].pc
          /\ run'[r].todo = run[r].todo /\ run'[r].names = run[r].names
          /\ \/ run'[r].gone = run[r].gone \union {d} /\ Put(d[2], d[1], NoObject)
             \/ run'[r].gone = run[r].gone
      BY <2>1, <3>1 DEF RunRecord
    <3>3. d \in Pairs
      BY <2>1 DEF RunRecord
    <3> QED BY <1>2, <3>2, <3>3
  <2>9. CASE PruneManifest(r)
    <3>1. PICK i \in run[r].todo :
            /\ run' = [run EXCEPT ![r].todo = @ \ {i}, ![r].pc = IF run[r].todo = {i} THEN "done" ELSE @]
            /\ run[r].pc = "prune"
      BY <2>9 DEF PruneManifest
    <3>2. /\ run'[r].doomed = run[r].doomed /\ run'[r].gone = run[r].gone
          /\ run'[r].todo = run[r].todo \ {i} /\ run'[r].names = run[r].names
      BY <2>1, <3>1 DEF RunRecord
    <3> QED BY <1>2, <3>1, <3>2
  <2> QED BY <2>3, <2>5, <2>6, <2>7, <2>8, <2>9 DEF RunStep
<1> QED BY <1>1, <1>2

\* No step takes the newer copy that allowed a deletion: a manifest that goes
\* has lost its artifacts before, and they had newer copies then.
LEMMA SuccessorStays ==
    ASSUME TypeInv, OrderInv, ManifestInv, PushedInv, PruneInv, NoCollision, MaxProbeErrors = 0,
           NEW r \in Runs, RunStep(r) \/ Crash(r),
           NEW s \in Stores, Days[s] = 0, NEW i \in Ids, Successor(i, s)
    PROVE  Successor(i, s)'
<1>1. \A q \in Runs : GoesOn(q)
  BY RunGoesOn
<1>2. ASSUME NEW j \in Ids, j > i, Readable(j), Names(manifest[j].by, s), manifest'[j] = manifest[j]
      PROVE  Successor(i, s)'
  <2>1. PICK p \in Runs : p = manifest[j].by /\ Past(p)
    BY <1>2 DEF Readable, ManifestInv
  <2>2. run'[p].result[s] = "success"
    BY <1>1, <1>2, <2>1 DEF GoesOn, Names
  <2>3. p = manifest'[j].by
    BY <1>2, <2>1
  <2> QED BY <1>2, <2>2, <2>3 DEF Successor, Readable, Names
<1>3. PICK j \in Ids : j > i /\ Readable(j) /\ Names(manifest[j].by, s)
  BY DEF Successor
<1>4. PICK p \in Runs : p = manifest[j].by /\ Past(p) /\ run[p].id = j
  BY <1>3 DEF Readable, ManifestInv
<1>5. CASE manifest'[j] = manifest[j]
  BY <1>2, <1>3, <1>5
<1>6. CASE manifest'[j] # manifest[j]
  <2>1. CASE Published(r)
    <3>1. j = run[r].id /\ run[r].pc = "manifest"
      BY <1>6, <2>1 DEF Published, TypeInv
    <3>2. r # p
      BY <1>4, <3>1 DEF Past
    <3> QED BY <1>4, <3>1, <3>2 DEF NoCollision, Alone
  <2>2. CASE Withdrawn(r)
    <3>1. j \in run[r].todo /\ Remaining(r, j) = {} /\ run[r].pc = "prune"
          /\ manifest' = [manifest EXCEPT ![j] = NoObject]
      <4>1. ~ (spent.probes < 0) /\ spent.probes \in Nat
        BY DEF TypeInv
      <4>2. PICK k \in run[r].todo :
              /\ manifest' = [manifest EXCEPT ![k] = NoObject]
              /\ Remaining(r, k) = {} \/ spent.probes < MaxProbeErrors
        BY <2>2 DEF Withdrawn
      <4>3. k = j
        BY <1>6, <4>2 DEF TypeInv
      <4> QED BY <2>2, <4>1, <4>2, <4>3 DEF Withdrawn
    <3>2. PICK q \in Runs : /\ run[q].id = j /\ Past(q)
                            /\ \A t \in Stores : Names(q, t) => <<j, t>> \in run[r].names
      BY <3>1 DEF PruneInv
    <3>3. q = p
      BY <1>4, <3>2, AloneIsOnly DEF NoCollision, Past
    <3>4. <<j, s>> \in run[r].names
      BY <1>3, <1>4, <3>2, <3>3
    <3>5. <<j, s>> \in run[r].gone \/ artifact[s][j] = NoObject
      BY <3>1, <3>4 DEF Remaining
    <3>6. \E u \in Runs : <<j, s>> \in run[u].gone
      <4>1. CASE <<j, s>> \in run[r].gone
        BY <4>1
      <4>2. CASE artifact[s][j] = NoObject
        <5>1. Names(p, s) /\ Alone(p)
          BY <1>3, <1>4 DEF NoCollision
        <5>2. ~ Intact(p, s)
          BY <1>4, <4>2, WritesOwnBytes DEF Intact
        <5> QED BY <1>4, <5>1, <5>2 DEF PushedInv
      <4> QED BY <3>5, <4>1, <4>2
    <3>7. Successor(j, s)
      BY <3>6 DEF PruneInv
    <3>8. PICK k \in Ids : k > j /\ Readable(k) /\ Names(manifest[k].by, s)
      BY <3>7 DEF Successor
    <3>9. k > i /\ k # j
      BY <1>3, <3>8 DEF Ids
    <3>10. manifest'[k] = manifest[k]
      BY <3>1, <3>9 DEF TypeInv
    <3> QED BY <1>2, <3>8, <3>9, <3>10
  <2> QED BY <1>6, <2>1, <2>2, DestinationSteps
<1> QED BY <1>5, <1>6

\* What retention plans to delete has a newer copy, and it has listed all that
\* the manifests it may delete name.
LEMMA PlanIsSafe ==
    ASSUME TypeInv, ManifestInv, NEW r \in Runs, PlanPrune(r)
    PROVE  /\ \A q \in Runs : run'[q].gone = run[q].gone
           /\ UNCHANGED destination
           /\ \A i \in Ids, s \in Stores : <<i, s>> \in run'[r].doomed =>
                 /\ Days[s] = 0 => Successor(i, s)
                 /\ \E p \in Runs : run[p].id = i /\ Past(p)
           /\ \A i \in run'[r].todo : \E p \in Runs :
                 /\ run[p].id = i /\ Past(p)
                 /\ \A s \in Stores : Names(p, s) => <<i, s>> \in run'[r].names
<1> DEFINE listed == {i \in Ids : Readable(i)}
           doomed == {d \in listed \X Stores : Expired(r, listed, d[2], d[1])}
           names == {d \in listed \X Stores : Names(manifest[d[1]].by, d[2])}
           todo == {d[1] : d \in doomed}
           pc == IF doomed = {} THEN "done" ELSE "prune"
<1>1. run' = [run EXCEPT ![r].pc = pc, ![r].doomed = doomed, ![r].todo = todo, ![r].names = names]
  BY DEF PlanPrune
<1>2. ASSUME NEW i \in listed
      PROVE  \E p \in Runs : p = manifest[i].by /\ run[p].id = i /\ Past(p)
  BY <1>2 DEF Readable, ManifestInv
<1>3. ASSUME NEW i \in Ids, NEW s \in Stores, <<i, s>> \in doomed, Days[s] = 0
      PROVE  Successor(i, s)
  <2> DEFINE newer == {j \in listed : j > i /\ Names(manifest[j].by, s)}
  <2>1. Expired(r, listed, s, i)
    BY <1>3
  <2>2. Keep[s] > 0 /\ Cardinality(newer) >= Keep[s] /\ Keep[s] \in Nat
    BY <1>3, <2>1, RetentionAssumption DEF Expired, Rank
  <2>3. newer # {}
    BY <2>2, FS_EmptySet
  <2> QED BY <2>3 DEF Successor
<1>4. ASSUME NEW i \in Ids, NEW s \in Stores, <<i, s>> \in doomed
      PROVE  \E p \in Runs : run[p].id = i /\ Past(p)
  BY <1>2, <1>4
<1>5. ASSUME NEW i \in todo
      PROVE  \E p \in Runs :
                 /\ run[p].id = i /\ Past(p)
                 /\ \A s \in Stores : Names(p, s) => <<i, s>> \in names
  <2>1. i \in listed
    BY <1>5
  <2> QED BY <1>2, <2>1
<1> HIDE DEF doomed, names, todo, pc
<1>6. /\ run'[r].doomed = doomed /\ run'[r].todo = todo /\ run'[r].names = names
      /\ run'[r].gone = run[r].gone /\ \A q \in Runs : q # r => run'[q] = run[q]
  BY <1>1 DEF TypeInv, RunRecord
<1>7. UNCHANGED destination
  BY DEF PlanPrune
<1> QED BY <1>3, <1>4, <1>5, <1>6, <1>7

\* Retention, over a step of a run.
LEMMA PruneStep ==
    ASSUME TypeInv, OrderInv, ManifestInv, PushedInv, PruneInv, MaxProbeErrors = 0,
           NEW r \in Runs, RunStep(r) \/ Crash(r)
    PROVE  PruneInv'
<1>1. \A q \in Runs : GoesOn(q)
  BY RunGoesOn
<1>2. SUFFICES ASSUME NoCollision' PROVE PruneInv'
  BY DEF PruneInv
<1>3. NoCollision
  BY <1>1, <1>2, AloneBefore
<1>4. \A p \in Runs : Past(p) => Past(p)' /\ run'[p].id = run[p].id /\ run'[p].result = run[p].result
  BY <1>1 DEF GoesOn, Past
<1>5. ASSUME NEW q \in Runs, NEW i \in Ids, NEW s \in Stores
      PROVE  <<i, s>> \in run'[q].doomed \union run'[q].gone =>
                 /\ Days[s] = 0 => Successor(i, s)'
                 /\ \E p \in Runs : run'[p].id = i /\ Past(p)'
  <2>1. SUFFICES ASSUME Days[s] = 0 => Successor(i, s),
                        \E p \in Runs : run[p].id = i /\ Past(p)
                 PROVE  /\ Days[s] = 0 => Successor(i, s)'
                        /\ \E p \in Runs : run'[p].id = i /\ Past(p)'
    <3>1. ASSUME <<i, s>> \in run'[q].doomed \union run'[q].gone,
                 <<i, s>> \notin run[q].doomed \union run[q].gone
          PROVE  (Days[s] = 0 => Successor(i, s)) /\ \E p \in Runs : run[p].id = i /\ Past(p)
      <4>1. PlanPrune(r)
        BY <3>1, PruneGoesOn
      <4>2. q = r
        BY <3>1, <4>1, RunTypeStep DEF TypeInv, RunStep
      <4> QED BY <3>1, <4>1, <4>2, PlanIsSafe
    <3>2. <<i, s>> \in run[q].doomed \union run[q].gone =>
             (Days[s] = 0 => Successor(i, s)) /\ \E p \in Runs : run[p].id = i /\ Past(p)
      BY <1>3 DEF PruneInv
    <3> QED BY <2>1, <3>1, <3>2
  <2>2. Days[s] = 0 => Successor(i, s)'
    BY <1>3, <2>1, SuccessorStays
  <2> QED BY <1>4, <2>1, <2>2
<1>6. ASSUME NEW q \in Runs, NEW i \in Ids, NEW s \in Stores, <<i, s>> \in run'[q].gone
      PROVE  artifact'[s][i] = NoObject
  <2>1. CASE <<i, s>> \in run[q].gone
    <3>1. artifact[s][i] = NoObject /\ \E p \in Runs : run[p].id = i /\ Past(p)
      BY <1>3, <2>1 DEF PruneInv
    <3>2. PICK p \in Runs : run[p].id = i /\ Past(p)
      BY <3>1
    <3>3. CASE Stored(r)
      <4>1. run[r].id # i
        <5>1. r # p /\ run[r].pc # "new"
          BY <3>2, <3>3, StoresAreNoSteps DEF Stored, Past
        <5> QED BY <1>3, <3>2, <5>1, AloneIsOnly DEF NoCollision
      <4> QED BY <3>1, <3>3, <4>1 DEF Stored, Put, TypeInv
    <3>4. CASE Deleted(r)
      BY <3>1, <3>4 DEF Deleted, Put, TypeInv
    <3> QED BY <3>1, <3>3, <3>4, DestinationSteps
  <2>2. CASE <<i, s>> \notin run[q].gone
    <3>1. ~ PlanPrune(r)
      BY <1>6, <2>2, PlanIsSafe
    <3>2. Put(s, i, NoObject)
      <4> DEFINE d == <<i, s>>
      <4>1. d \in run'[q].gone /\ d \notin run[q].gone /\ d[1] = i /\ d[2] = s
        BY <1>6, <2>2
      <4> HIDE DEF d
      <4>2. Put(d[2], d[1], NoObject)
        BY <3>1, <4>1, PruneGoesOn
      <4> QED BY <4>1, <4>2
    <3> QED BY <3>2 DEF Put, TypeInv
  <2> QED BY <2>1, <2>2
<1>7. ASSUME NEW q \in Runs, run'[q].pc = "prune", NEW i \in run'[q].todo
      PROVE  \E p \in Runs :
                 /\ run'[p].id = i /\ Past(p)'
                 /\ \A s \in Stores : Names(p, s)' => <<i, s>> \in run'[q].names
  <2>1. PICK p \in Runs : /\ run[p].id = i /\ Past(p)
                          /\ \A s \in Stores : Names(p, s) => <<i, s>> \in run'[q].names
    <3>1. CASE PlanPrune(r) /\ q = r
      BY <1>7, <3>1, PlanIsSafe
    <3>2. CASE ~ (PlanPrune(r) /\ q = r)
      <4>1. run[q].pc = "prune" /\ i \in run[q].todo /\ run'[q].names = run[q].names
        <5>1. CASE ~ PlanPrune(r)
          BY <1>7, <5>1, PruneGoesOn
        <5>2. CASE q # r
          BY <1>7, <5>2, RunTypeStep DEF TypeInv
        <5> QED BY <3>2, <5>1, <5>2
      <4> QED BY <1>3, <4>1 DEF PruneInv
    <3> QED BY <3>1, <3>2
  <2>2. \A s \in Stores : Names(p, s)' => Names(p, s)
    BY <1>4, <2>1 DEF Names
  <2> QED BY <1>4, <2>1, <2>2
<1> QED
  <2>1. ASSUME NEW q \in Runs
        PROVE  /\ \A i \in Ids, s \in Stores :
                    /\ <<i, s>> \in run'[q].doomed \union run'[q].gone =>
                          /\ Days[s] = 0 => Successor(i, s)'
                          /\ \E p \in Runs : run'[p].id = i /\ Past(p)'
                    /\ <<i, s>> \in run'[q].gone => artifact'[s][i] = NoObject
               /\ run'[q].pc = "prune" =>
                    \A i \in run'[q].todo :
                        \E p \in Runs :
                            /\ run'[p].id = i /\ Past(p)'
                            /\ \A s \in Stores : Names(p, s)' => <<i, s>> \in run'[q].names
    BY <1>5, <1>6, <1>7
  <2> QED BY <2>1 DEF PruneInv

\* A run that begins changes nothing of this.
LEMMA BeginStep ==
    ASSUME TypeInv, OrderInv, ManifestInv, PushedInv,
           NEW r \in Runs, Begin(r), UNCHANGED destination
    PROVE  ManifestInv' /\ PushedInv' /\ (PruneInv => PruneInv')
<1>1. \A q \in Runs : GoesOn(q)
  BY RunGoesOn
<1>2. \A p \in Runs : Past(p) => Past(p)' /\ run'[p].id = run[p].id /\ run'[p].result = run[p].result
  BY <1>1 DEF GoesOn, Past
<1>3. artifact' = artifact /\ manifest' = manifest
  BY DEF destination
<1>4. ASSUME NEW i \in Ids, manifest[i] # NoObject
      PROVE  \E p \in Runs : p = manifest[i].by /\ run[p].id = i /\ Past(p)
  BY <1>4 DEF ManifestInv
<1>5. ManifestInv'
  <2>1. ASSUME NEW i \in Ids, manifest'[i] # NoObject
        PROVE  manifest'[i].by \in Runs /\ run'[manifest'[i].by].id = i /\ Past(manifest[i].by)'
    <3>1. PICK p \in Runs : p = manifest[i].by /\ run[p].id = i /\ Past(p)
      BY <1>3, <1>4, <2>1
    <3> QED BY <1>2, <1>3, <3>1 DEF Past
  <2> QED BY <2>1 DEF ManifestInv
<1>6. ~ Push(r) /\ ~ BackupClickHouse(r)
  BY StoresAreNoSteps DEF Begin, Push, BackupClickHouse
<1>7. \A q \in Runs, s \in Stores : Names(q, s)' => Names(q, s) /\ run[q].pc # "new"
  <2>1. \A q \in Runs, s \in Stores : Names(q, s) => run[q].pc # "new"
    BY NewRunType DEF OrderInv, Names
  <2> QED BY <1>6, <2>1, RunGoesOn
<1>8. PushedInv'
  <2>1. ASSUME NEW q \in Runs, NEW s \in Stores, Names(q, s)', Alone(q)'
        PROVE  \/ Intact(q, s)'
               \/ /\ artifact'[s][run'[q].id] = NoObject
                  /\ \E p \in Runs : <<run'[q].id, s>> \in run'[p].gone
    <3>1. Names(q, s) /\ Alone(q) /\ run'[q].id = run[q].id
      BY <1>1, <1>7, <2>1, AloneBefore DEF GoesOn
    <3>2. \/ artifact[s][run[q].id] = Bytes(q)
          \/ artifact[s][run[q].id] = NoObject /\ \E p \in Runs : <<run[q].id, s>> \in run[p].gone
      BY <3>1 DEF PushedInv, Intact
    <3>3. \A p \in Runs : <<run[q].id, s>> \in run[p].gone => <<run[q].id, s>> \in run'[p].gone
      BY <1>1 DEF GoesOn
    <3> QED BY <1>3, <3>1, <3>2, <3>3 DEF Intact, Bytes
  <2> QED BY <2>1 DEF PushedInv
<1>9. ~ PlanPrune(r)
  BY DEF Begin, PlanPrune
<1>10. ASSUME NEW i \in Ids, NEW s \in Stores, Successor(i, s) PROVE Successor(i, s)'
  <2>1. PICK j \in Ids : j > i /\ Readable(j) /\ Names(manifest[j].by, s)
    BY <1>10 DEF Successor
  <2>2. PICK p \in Runs : p = manifest[j].by /\ Past(p)
    BY <1>4, <2>1 DEF Readable
  <2>3. run'[p].result[s] = "success" /\ p = manifest'[j].by
    BY <1>2, <1>3, <2>1, <2>2 DEF Names
  <2> QED BY <1>3, <2>1, <2>3 DEF Successor, Readable, Names
<1>11. ASSUME PruneInv PROVE PruneInv'
  <2>1. SUFFICES ASSUME NoCollision' PROVE PruneInv'
    BY DEF PruneInv
  <2>2. NoCollision
    BY <1>1, <2>1, AloneBefore
  <2>3. ASSUME NEW q \in Runs, NEW i \in Ids, NEW s \in Stores
        PROVE  /\ <<i, s>> \in run'[q].doomed \union run'[q].gone =>
                     /\ Days[s] = 0 => Successor(i, s)'
                     /\ \E p \in Runs : run'[p].id = i /\ Past(p)'
               /\ <<i, s>> \in run'[q].gone => artifact'[s][i] = NoObject
    <3>1. run'[q].doomed \union run'[q].gone \subseteq run[q].doomed \union run[q].gone
      BY <1>9, PruneGoesOn
    <3>2. run'[q].gone = run[q].gone
      BY DEF Begin, TypeInv, RunRecord
    <3>3. <<i, s>> \in run[q].doomed \union run[q].gone =>
             (Days[s] = 0 => Successor(i, s)) /\ \E p \in Runs : run[p].id = i /\ Past(p)
      BY <1>11, <2>2 DEF PruneInv
    <3>4. <<i, s>> \in run[q].gone => artifact[s][i] = NoObject
      BY <1>11, <2>2 DEF PruneInv
    <3> QED BY <1>2, <1>3, <1>10, <3>1, <3>2, <3>3, <3>4
  <2>4. ASSUME NEW q \in Runs, run'[q].pc = "prune", NEW i \in run'[q].todo
        PROVE  \E p \in Runs :
                   /\ run'[p].id = i /\ Past(p)'
                   /\ \A s \in Stores : Names(p, s)' => <<i, s>> \in run'[q].names
    <3>1. run[q].pc = "prune" /\ i \in run[q].todo /\ run'[q].names = run[q].names
      BY <1>9, <2>4, PruneGoesOn
    <3>2. PICK p \in Runs : /\ run[p].id = i /\ Past(p)
                            /\ \A s \in Stores : Names(p, s) => <<i, s>> \in run[q].names
      BY <1>11, <2>2, <3>1 DEF PruneInv
    <3> QED BY <1>2, <1>7, <3>1, <3>2
  <2>5. ASSUME NEW q \in Runs
        PROVE  /\ \A i \in Ids, s \in Stores :
                    /\ <<i, s>> \in run'[q].doomed \union run'[q].gone =>
                          /\ Days[s] = 0 => Successor(i, s)'
                          /\ \E p \in Runs : run'[p].id = i /\ Past(p)'
                    /\ <<i, s>> \in run'[q].gone => artifact'[s][i] = NoObject
               /\ run'[q].pc = "prune" =>
                    \A i \in run'[q].todo :
                        \E p \in Runs :
                            /\ run'[p].id = i /\ Past(p)'
                            /\ \A s \in Stores : Names(p, s)' => <<i, s>> \in run'[q].names
    BY <2>3, <2>4
  <2> QED BY <2>5 DEF PruneInv
<1> QED BY <1>5, <1>8, <1>11

-----------------------------------------------------------------------------
(* Restore and drill.                                                      *)

LEMMA PcsDiffer ==
    /\ Active \intersect {"idle", "done", "raised"} = {}
    /\ Restoring \subseteq Active /\ Drills \subseteq Active
    /\ Restoring \intersect Drills = {} /\ "fetch" \notin Restoring \union Drills
    /\ {"apply", "restore"} \subseteq Restoring /\ {"drill", "count", "clean"} \subseteq Drills
    /\ "fetch" \in Active
BY DEF Active, Restoring, Drills

\* A command that has ended has nothing to answer for.
LEMMA EndedIsFine ==
    ASSUME NEW o, NEW t, NEW d, NEW pc \in {"done", "raised"}, o = [NoOp EXCEPT !.pc = pc]
    PROVE  Fine(o, t, d) /\ Busy(o)
<1>0. NoOp \in OpRecord
  BY DEF NoOp, OpRecord
<1>1. o \in OpRecord
  BY <1>0, OpRecordUpdates
<1>2. o.pc = pc /\ o.verdict = [s \in Databases |-> "none"]
  BY DEF NoOp
<1>3. o.pc \notin Active /\ o.pc \notin Restoring /\ o.pc # "restore" /\ o.pc # "count"
  BY <1>2 DEF Active, Restoring, Drills
<1>4. \A s \in Databases : o.verdict[s] = "none"
  BY <1>2
<1> QED BY <1>1, <1>3, <1>4 DEF Fine, Works, Fetches, Progresses, Tells, Busy

\* A phase with no store left goes over into the next one.
LEMMA SettledIsFine ==
    ASSUME NEW o, NEW t, NEW d, Fine(o, t, d), o.pc \in {"fetch", "apply", "drill"}
    PROVE  Fine(Settled(o), t, d) /\ Busy(Settled(o))
<1>1. CASE o.left # {}
  BY <1>1 DEF Settled, Busy
<1>2. CASE o.left = {} /\ o.pc = "fetch"
  <2> DEFINE v == Settled(o)
  <2>1. v \in OpRecord
    BY OpRecordUpdates DEF Fine
  <2>2. v = [o EXCEPT !.pc = IF o.drill THEN "drill" ELSE "apply",
                      !.left = IF o.drill THEN o.want \intersect Databases ELSE o.want]
    BY <1>2 DEF Settled
  <2>3. /\ v.pc = IF o.drill THEN "drill" ELSE "apply"
        /\ v.left = IF o.drill THEN o.want \intersect Databases ELSE o.want
        /\ v.of = o.of /\ v.want = o.want /\ v.drill = o.drill /\ v.got = o.got /\ v.verdict = o.verdict
    BY <2>2 DEF Fine, OpRecord
  <2> HIDE DEF v
  <2>4. v.pc \in Active /\ v.pc # "fetch" /\ (v.pc \in Drills <=> o.drill)
        /\ v.pc # "restore" /\ v.pc # "count" /\ (v.pc \in Restoring => ~ o.drill)
    BY <2>3 DEF Active, Restoring, Drills
  <2>5. /\ o.of \in Runs /\ Past(o.of) /\ o.want # {} /\ \A s \in o.want : Names(o.of, s)
        /\ o.drill => o.want \intersect Databases # {}
        /\ \A s \in o.want \intersect Fetched : o.got[s] = Bytes(o.of)
    BY <1>2, PcsDiffer DEF Fine, Works, Fetches
  <2>6. Works(v) /\ Busy(v)
    BY <2>3, <2>4, <2>5 DEF Works, Busy
  <2>7. Fetches(v) /\ Progresses(v, t, d)
    BY <2>3, <2>4, <2>5 DEF Fetches, Progresses
  <2>8. Tells(v)
    BY <2>3, <2>4 DEF Fine, Tells
  <2> QED BY <2>1, <2>6, <2>7, <2>8 DEF Fine, v
<1>3. CASE o.left = {} /\ o.pc # "fetch"
  <2>1. Settled(o) = [NoOp EXCEPT !.pc = "done"]
    BY <1>3 DEF Settled
  <2> QED BY <2>1, EndedIsFine
<1> QED BY <1>1, <1>2, <1>3

\* What a step of the operator may do to the targets.
Touching ==
    \A t \in Targets : target'[t] # target[t] =>
        /\ \A s \in op.want \intersect Fetched : op.got[s] = Bytes(op.of)
        /\ op.force \/ target[t] = NoObject
        /\ ~ op.drill
Restored ==
    (op.pc \in {"apply", "restore"} /\ op'.pc = "done" /\ Alone(op.of)) =>
        \A s \in op.want \intersect Databases : target'[s] = Bytes(op.of)

\* What RESTORE finds is the bundle's, if its name is not shared.
LEMMA OnDiskIsOwn ==
    ASSUME PushedInv, NEW r \in Runs, Alone(r), Names(r, "clickhouse"), NEW a \in OnDisk(r)
    PROVE  a = Bytes(r)
<1>1. "clickhouse" \in Stores
  BY DEF Stores
<1>2. a = artifact["clickhouse"][run[r].id] /\ a # NoObject
  BY DEF OnDisk
<1> QED BY <1>1, <1>2 DEF PushedInv, Intact

\* A restore begins with nothing fetched.
LEMMA BeginRestoreIsFine ==
    ASSUME TypeInv, OrderInv, ManifestInv, OpInv, BeginRestore
    PROVE  Fine(op', target', side') /\ Busy(op') /\ Touching /\ Restored
<1>1. PICK i \in Ids, q \in Requests :
        /\ Readable(i)
        /\ LET want == IF q.want = {} THEN Available(i) ELSE q.want IN
              /\ want # {} /\ want \subseteq Available(i)
              /\ q.drill => want \intersect Databases # {}
              /\ op' = Settled([NoOp EXCEPT !.pc = "fetch", !.of = manifest[i].by,
                                    !.drill = q.drill, !.force = q.force, !.keep = q.keep,
                                    !.want = want, !.left = want \intersect Fetched])
  BY DEF BeginRestore
<1> DEFINE want == IF q.want = {} THEN Available(i) ELSE q.want
<1>2. PICK p \in Runs : p = manifest[i].by /\ Past(p)
  BY <1>1 DEF Readable, ManifestInv
<1>3. want # {} /\ want \in SUBSET Stores /\ (q.drill => want \intersect Databases # {})
      /\ \A s \in want : Names(p, s)
  BY <1>1, <1>2 DEF Available
<1> DEFINE v == [NoOp EXCEPT !.pc = "fetch", !.of = p, !.drill = q.drill, !.force = q.force, !.keep = q.keep,
                             !.want = want, !.left = want \intersect Fetched]
<1>4. op' = Settled(v)
  BY <1>1, <1>2
<1> HIDE DEF want
<1>5. NoOp \in OpRecord /\ want \intersect Fetched \in SUBSET Stores
  BY <1>3 DEF NoOp, OpRecord
<1>6. v \in OpRecord
  BY <1>3, <1>5, OpRecordUpdates
<1>7. v.pc = "fetch" /\ v.of = p /\ v.drill = q.drill /\ v.want = want /\ v.left = want \intersect Fetched
      /\ v.verdict = [s \in Databases |-> "none"]
  BY <1>5 DEF OpRecord, NoOp
<1> HIDE DEF v
<1>8. Works(v)
  BY <1>2, <1>3, <1>7 DEF Works
<1>9. Fetches(v)
  BY <1>7 DEF Fetches
<1>10. Progresses(v, target, side) /\ Tells(v)
  <2>1. "fetch" \notin Restoring /\ "fetch" \in Active
    BY PcsDiffer
  <2>2. \A s \in Databases : v.verdict[s] = "none"
    BY <1>7
  <2> QED BY <1>7, <2>1, <2>2 DEF Progresses, Tells
<1>11. Fine(op', target, side) /\ Busy(op')
  BY <1>4, <1>6, <1>7, <1>8, <1>9, <1>10, SettledIsFine DEF Fine
<1>12. target' = target /\ side' = side /\ op.pc \in {"idle", "done", "raised"}
  BY DEF BeginRestore
<1> QED BY <1>11, <1>12 DEF Touching, Restored

\* A restore that has fetched a store has verified it.
LEMMA FetchIsFine ==
    ASSUME TypeInv, OrderInv, ManifestInv, OpInv, Fetch
    PROVE  Fine(op', target', side') /\ Busy(op') /\ Touching /\ Restored
<1>1. op.pc = "fetch" /\ op.left # {} /\ target' = target /\ side' = side
  BY DEF Fetch
<1>2. Touching /\ Restored
  BY <1>1 DEF Touching, Restored
<1>3. op \in OpRecord /\ Works(op) /\ Fetches(op) /\ Tells(op)
  BY DEF OpInv, Fine
<1> DEFINE s == First(op.left)
<1>4. s \in op.left /\ s \in Fetched
  <2>1. op.left \in SUBSET Stores
    BY <1>3 DEF OpRecord
  <2>2. s \in op.left
    BY <1>1, <2>1, FirstIsLeast
  <2> QED BY <1>1, <1>3, <2>2, PcsDiffer DEF Works
<1>5. CASE Intact(op.of, s)
  <2> DEFINE v == [op EXCEPT !.left = op.left \ {s}, !.got[s] = artifact[s][run[op.of].id]]
  <2>1. op' = Settled(v) /\ artifact[s][run[op.of].id] = Bytes(op.of) /\ op.of \in Runs
    BY <1>1, <1>3, <1>5, PcsDiffer DEF Fetch, Intact, Works
  <2> HIDE DEF s
  <2>2. v \in OpRecord
    <3>1. op.left \ {s} \in SUBSET Stores /\ Bytes(op.of) \in Contents
      BY <1>3, <2>1 DEF OpRecord, Contents, Bytes, Objects
    <3> QED BY <1>3, <1>4, <2>1, <3>1, OpRecordUpdates
  <2>3. /\ v.pc = op.pc /\ v.of = op.of /\ v.want = op.want /\ v.drill = op.drill /\ v.verdict = op.verdict
        /\ v.left = op.left \ {s} /\ v.got = [op.got EXCEPT ![s] = Bytes(op.of)]
    BY <1>3, <2>1 DEF OpRecord
  <2>4. op.got \in [Fetched -> Objects \union {NoObject}]
    BY <1>3 DEF OpRecord
  <2> HIDE DEF v
  <2>5. Works(v)
    BY <1>1, <1>3, <2>3 DEF Works
  <2>6. Fetches(v)
    BY <1>1, <1>3, <1>4, <2>3, <2>4 DEF Fetches
  <2>7. Progresses(v, target, side) /\ Tells(v)
    BY <1>1, <1>3, <2>3, PcsDiffer DEF Progresses, Tells
  <2> QED BY <1>1, <1>2, <2>1, <2>2, <2>3, <2>5, <2>6, <2>7, SettledIsFine DEF Fine
<1>6. CASE ~ Intact(op.of, s)
  <2>1. op' = [NoOp EXCEPT !.pc = "raised"]
    BY <1>6 DEF Fetch, Raise
  <2> QED BY <1>2, <2>1, EndedIsFine
<1> QED BY <1>5, <1>6

\* A command that ends in an exception has put nothing back.
LEMMA RaiseIsFine ==
    ASSUME Raise
    PROVE  Fine(op', target', side') /\ Busy(op') /\ Restored
<1>1. op' = [NoOp EXCEPT !.pc = "raised"]
  BY DEF Raise
<1>2. op'.pc = "raised"
  BY <1>1 DEF NoOp
<1> QED BY <1>1, <1>2, EndedIsFine DEF Restored

\* A store restored is one less that is left.
LEMMA StoreDoneIsFine ==
    ASSUME OpInv, op.pc \in {"apply", "restore"}, NEW s, s = First(op.left), StoreDone(s), side' = side,
           \A t \in Databases : t # s => target'[t] = target[t],
           (s \in Databases /\ Alone(op.of)) => target'[s] = Bytes(op.of)
    PROVE  Fine(op', target', side') /\ Busy(op') /\ Restored
<1>1. op \in OpRecord /\ Works(op) /\ Fetches(op) /\ Tells(op) /\ Progresses(op, target, side)
  BY DEF OpInv, Fine
<1> DEFINE v == [op EXCEPT !.pc = "apply", !.left = op.left \ {s}]
<1>2. op' = Settled(v)
  BY DEF StoreDone
<1>3. v \in OpRecord
  <2>1. op.left \ {s} \in SUBSET Stores
    BY <1>1 DEF OpRecord
  <2> QED BY <1>1, <2>1, OpRecordUpdates, PcsDiffer
<1>4. /\ v.pc = "apply" /\ v.of = op.of /\ v.want = op.want /\ v.drill = op.drill /\ v.verdict = op.verdict
      /\ v.left = op.left \ {s} /\ v.got = op.got
  BY <1>1 DEF OpRecord
<1> HIDE DEF v
<1>5. op.pc \in Active /\ op.pc \in Restoring /\ op.pc \notin Drills /\ op.pc # "fetch"
      /\ "apply" \in Active /\ "apply" \in Restoring /\ "apply" \notin Drills /\ "apply" # "fetch"
  BY PcsDiffer DEF Active, Restoring, Drills
<1>6. Works(v) /\ Fetches(v) /\ Tells(v)
  BY <1>1, <1>4, <1>5 DEF Works, Fetches, Tells
<1>7. Progresses(v, target', side')
  BY <1>1, <1>4, <1>5 DEF Progresses
<1>8. Fine(v, target', side')
  BY <1>3, <1>6, <1>7 DEF Fine
<1>9. ASSUME op'.pc = "done", Alone(op.of)
      PROVE  \A t \in op.want \intersect Databases : target'[t] = Bytes(op.of)
  <2>1. v.left = {}
    <3>1. v.left # {} => Settled(v) = v
      BY DEF Settled
    <3> QED BY <1>2, <1>4, <1>9, <3>1
  <2> QED BY <1>4, <1>5, <1>7, <1>9, <2>1 DEF Progresses
<1> QED BY <1>2, <1>4, <1>8, <1>9, SettledIsFine DEF Restored

\* What a restore does, it does to the store that is next, after all checks.
LEMMA RestoreIsFine ==
    ASSUME TypeInv, OrderInv, ManifestInv, PushedInv, OpInv,
           RestorePostgres \/ DropClickHouse \/ RestoreClickHouse \/ Extract
    PROVE  Fine(op', target', side') /\ Busy(op') /\ Touching /\ Restored
<1>1. op \in OpRecord /\ Works(op) /\ Fetches(op) /\ Tells(op) /\ Progresses(op, target, side)
  BY DEF OpInv, Fine
<1>2. op.pc \in {"apply", "restore"} /\ side' = side
  BY DEF RestorePostgres, DropClickHouse, RestoreClickHouse, Extract, Apply
<1>3. op.pc \in Active /\ op.pc \in Restoring /\ op.pc \notin Drills /\ op.pc # "fetch"
  BY <1>2 DEF Active, Restoring, Drills
<1>4. /\ ~ op.drill /\ op.left \subseteq op.want /\ op.left # {}
      /\ \A s \in op.want \intersect Fetched : op.got[s] = Bytes(op.of)
      /\ op.of \in Runs /\ \A s \in op.want : Names(op.of, s)
      /\ op.left \in SUBSET Stores
  BY <1>1, <1>3 DEF Works, Fetches, Busy, OpInv, OpRecord
<1>5. First(op.left) \in op.left
  BY <1>4, FirstIsLeast
<1>6. ASSUME NEW s \in Targets, NEW what, Set(s, what)
      PROVE  target'[s] = what /\ \A t \in Targets : t # s => target'[t] = target[t]
  BY <1>6 DEF Set, TypeInv
<1>7. ASSUME NEW s \in Targets, NEW what, Set(s, what), op.force \/ target[s] = NoObject
      PROVE  Touching
  BY <1>4, <1>6, <1>7 DEF Touching
<1>8. Databases \subseteq Targets
  BY DEF Targets
<1>9. CASE RestorePostgres
  <2>1. "postgres" \in Targets /\ "postgres" \in Databases /\ "postgres" \in Fetched
        /\ "postgres" = First(op.left) /\ op.pc = "apply"
    BY <1>9 DEF RestorePostgres, Apply, Targets, Databases, Fetched
  <2>2. CASE Raise /\ UNCHANGED target
    BY <2>2, RaiseIsFine DEF Touching
  <2>3. CASE /\ ~ Refused("postgres")
             /\ Set("postgres", op.got["postgres"]) /\ StoreDone("postgres")
    <3>1. Touching
      BY <1>7, <2>1, <2>3 DEF Refused
    <3>2. target'["postgres"] = Bytes(op.of)
      BY <1>4, <1>5, <1>6, <2>1, <2>3
    <3>3. \A t \in Databases : t # "postgres" => target'[t] = target[t]
      BY <1>6, <1>8, <2>1, <2>3
    <3> QED BY <1>2, <2>1, <2>3, <3>1, <3>2, <3>3, StoreDoneIsFine
  <2>4. CASE ~ Refused("postgres") /\ Set("postgres", Damaged) /\ Raise
    BY <1>7, <2>1, <2>4, RaiseIsFine DEF Refused
  <2> QED BY <1>9, <2>2, <2>3, <2>4 DEF RestorePostgres
<1>10. CASE DropClickHouse
  <2>1. "clickhouse" \in Targets /\ "clickhouse" = First(op.left) /\ op.pc = "apply"
    BY <1>10 DEF DropClickHouse, Apply, Targets, Databases
  <2>2. CASE Refused("clickhouse")
    BY <1>10, <2>2, RaiseIsFine DEF DropClickHouse, Touching
  <2>3. CASE ~ Refused("clickhouse")
    <3>1. Set("clickhouse", NoObject) /\ op' = [op EXCEPT !.pc = "restore"]
      BY <1>10, <2>3 DEF DropClickHouse
    <3>2. Touching
      BY <1>7, <2>1, <2>3, <3>1 DEF Refused
    <3>3. op' \in OpRecord
      BY <1>1, <3>1, OpRecordUpdates, PcsDiffer
    <3>4. /\ op'.pc = "restore" /\ op'.of = op.of /\ op'.want = op.want /\ op'.drill = op.drill
          /\ op'.verdict = op.verdict /\ op'.left = op.left /\ op'.got = op.got
      BY <1>1, <3>1 DEF OpRecord
    <3>5. "restore" \in Active /\ "restore" \in Restoring /\ "restore" \notin Drills
          /\ "restore" # "fetch" /\ "restore" # "count" /\ "restore" # "done"
      BY PcsDiffer DEF Drills
    <3>6. Works(op') /\ Fetches(op') /\ Tells(op')
      BY <1>1, <1>3, <3>4, <3>5 DEF Works, Fetches, Tells
    <3>7. Progresses(op', target', side')
      <4>1. target'["clickhouse"] = NoObject /\ \A t \in Databases : t # "clickhouse" => target'[t] = target[t]
        BY <1>6, <1>8, <2>1, <3>1
      <4> QED BY <1>1, <1>3, <1>5, <2>1, <3>4, <3>5, <4>1 DEF Progresses
    <3>8. Busy(op')
      BY <1>4, <3>4 DEF Busy
    <3> QED BY <3>2, <3>3, <3>4, <3>5, <3>6, <3>7, <3>8 DEF Fine, Restored
  <2> QED BY <2>2, <2>3
<1>11. CASE RestoreClickHouse
  <2>1. "clickhouse" \in Targets /\ "clickhouse" \in Databases /\ op.pc = "restore"
    BY <1>11 DEF RestoreClickHouse, Targets, Databases
  <2>2. "clickhouse" = First(op.left) /\ target["clickhouse"] = NoObject
    BY <1>1, <2>1 DEF Progresses
  <2>3. CASE \E a \in OnDisk(op.of) : Set("clickhouse", a) /\ StoreDone("clickhouse")
    <3>1. PICK a \in OnDisk(op.of) : Set("clickhouse", a) /\ StoreDone("clickhouse")
      BY <2>3
    <3>2. Alone(op.of) => a = Bytes(op.of)
      BY <1>4, <1>5, <2>2, OnDiskIsOwn
    <3>3. target'["clickhouse"] = a /\ \A t \in Databases : t # "clickhouse" => target'[t] = target[t]
      BY <1>6, <1>8, <2>1, <3>1
    <3>4. Touching
      BY <1>7, <2>1, <2>2, <3>1
    <3> QED BY <1>2, <2>2, <3>1, <3>2, <3>3, <3>4, StoreDoneIsFine
  <2>4. CASE Raise /\ UNCHANGED target
    BY <2>4, RaiseIsFine DEF Touching
  <2>5. CASE Set("clickhouse", Damaged) /\ Raise
    BY <1>7, <2>1, <2>2, <2>5, RaiseIsFine
  <2> QED BY <1>11, <2>3, <2>4, <2>5 DEF RestoreClickHouse
<1>12. CASE Extract
  <2>1. PICK s \in {"instance", "files"} :
          /\ Apply(s)
          /\ IF s = "files" /\ op.force THEN Set(s, op.got[s]) ELSE UNCHANGED target
          /\ StoreDone(s)
    BY <1>12 DEF Extract
  <2>2. s = First(op.left) /\ s \notin Databases /\ "files" \in Targets
    BY <2>1 DEF Apply, Databases, Targets
  <2>3. Touching /\ \A t \in Databases : target'[t] = target[t]
    <3>1. CASE s = "files" /\ op.force
      BY <1>6, <1>7, <1>8, <2>1, <2>2, <3>1
    <3>2. CASE ~ (s = "files" /\ op.force)
      BY <2>1, <3>2 DEF Touching
    <3> QED BY <3>1, <3>2
  <2> QED BY <1>2, <2>1, <2>2, <2>3, StoreDoneIsFine
<1> QED BY <1>9, <1>10, <1>11, <1>12

\* A drill tells what it has seen of the bundle it was asked to drill.
LEMMA DrillIsFine ==
    ASSUME TypeInv, OrderInv, ManifestInv, PushedInv, OpInv, NEW s \in Databases,
           DrillRestore(s) \/ DrillCount(s) \/ DrillClean(s)
    PROVE  Fine(op', target', side') /\ Busy(op') /\ Touching /\ Restored
<1>1. op \in OpRecord /\ Works(op) /\ Fetches(op) /\ Tells(op) /\ Progresses(op, target, side)
  BY DEF OpInv, Fine
<1>2. op.pc \in {"drill", "count", "clean"} /\ op.left # {} /\ s = First(op.left) /\ target' = target
  BY DEF DrillRestore, DrillCount, DrillClean, Drilling
<1>3. Touching /\ Restored
  BY <1>2 DEF Touching, Restored
<1>4. op.pc \in Active /\ op.pc \notin Restoring /\ op.pc \in Drills /\ op.pc # "fetch"
  BY <1>2 DEF Active, Restoring, Drills
<1>5. /\ op.drill /\ op.left \subseteq op.want /\ op.left \subseteq Databases
      /\ \A u \in op.want \intersect Fetched : op.got[u] = Bytes(op.of)
      /\ op.of \in Runs /\ \A u \in op.want : Names(op.of, u)
      /\ op.left \in SUBSET Stores
  BY <1>1, <1>4 DEF Works, Fetches, OpRecord
<1>6. s \in op.left
  BY <1>2, <1>5, FirstIsLeast
<1>7. ASSUME NEW pc \in {"count", "clean"}, NEW o, o \in OpRecord, o.pc = pc, o.of = op.of, o.want = op.want,
             o.drill = op.drill, o.left = op.left, o.got = op.got
      PROVE  Works(o) /\ Fetches(o) /\ Busy(o) /\ (Progresses(o, target', side')
                \/ (pc = "count" /\ Alone(op.of) /\ side'[s].by # op.of))
  <2>1. o.pc \in Active /\ o.pc \notin Restoring /\ o.pc \in Drills /\ o.pc # "fetch" /\ o.pc # "restore"
    BY <1>7 DEF Active, Restoring, Drills
  <2>2. Works(o) /\ Fetches(o) /\ Busy(o)
    BY <1>1, <1>2, <1>4, <1>7, <2>1 DEF Works, Fetches, Busy
  <2> QED BY <1>2, <1>7, <2>1, <2>2 DEF Progresses
<1>8. ASSUME NEW pc \in {"count", "clean"}, NEW o, o \in OpRecord, o.pc = pc, o.verdict = op.verdict, o.of = op.of
      PROVE  Tells(o)
  <2>1. o.pc \in Active
    BY <1>8 DEF Active, Drills
  <2> QED BY <1>1, <1>8, <2>1 DEF Tells
<1>9. CASE DrillRestore(s)
  <2> DEFINE found == IF s = "postgres" THEN {op.got[s]} ELSE OnDisk(op.of)
  <2>1. CASE \E a \in found : side' = [side EXCEPT ![s] = a] /\ op' = [op EXCEPT !.pc = "count"]
    <3>1. PICK a \in found : side' = [side EXCEPT ![s] = a] /\ op' = [op EXCEPT !.pc = "count"]
      BY <2>1
    <3>2. side'[s] = a
      BY <3>1 DEF TypeInv
    <3>3. Alone(op.of) => a = Bytes(op.of)
      <4>1. CASE s = "postgres"
        BY <1>5, <1>6, <4>1 DEF Fetched
      <4>2. CASE s # "postgres"
        <5>1. s = "clickhouse" /\ a \in OnDisk(op.of)
          BY <4>2 DEF Databases
        <5> QED BY <1>5, <1>6, <5>1, OnDiskIsOwn
      <4> QED BY <4>1, <4>2
    <3>4. Alone(op.of) => side'[s].by = op.of
      BY <3>2, <3>3 DEF Bytes
    <3>5. op' \in OpRecord
      BY <1>1, <3>1, OpRecordUpdates, PcsDiffer
    <3>6. /\ op'.pc = "count" /\ op'.of = op.of /\ op'.want = op.want /\ op'.drill = op.drill
          /\ op'.verdict = op.verdict /\ op'.left = op.left /\ op'.got = op.got
      BY <1>1, <3>1 DEF OpRecord
    <3>7. Works(op') /\ Fetches(op') /\ Busy(op') /\ Progresses(op', target', side')
      BY <1>7, <3>4, <3>5, <3>6
    <3>8. Tells(op')
      BY <1>8, <3>5, <3>6
    <3> QED BY <1>3, <3>5, <3>7, <3>8 DEF Fine
  <2>2. CASE op' = [op EXCEPT !.pc = "clean", !.verdict[s] = "failed"]
    <3>1. op' \in OpRecord
      BY <1>1, <2>2, OpRecordUpdates, PcsDiffer
    <3>2. /\ op'.pc = "clean" /\ op'.of = op.of /\ op'.want = op.want /\ op'.drill = op.drill
          /\ op'.verdict = [op.verdict EXCEPT ![s] = "failed"] /\ op'.left = op.left /\ op'.got = op.got
      BY <1>1, <2>2 DEF OpRecord
    <3>3. Works(op') /\ Fetches(op') /\ Busy(op') /\ Progresses(op', target', side')
      BY <1>7, <3>1, <3>2
    <3>4. op'.pc \in Active /\ op.verdict \in [Databases -> {"none", "failed", "differs", "agrees"}]
      BY <1>1, <3>2 DEF Active, Drills, OpRecord
    <3>5. Tells(op')
      BY <1>1, <3>2, <3>4 DEF Tells
    <3> QED BY <1>3, <3>1, <3>3, <3>5 DEF Fine
  <2> QED BY <1>9, <2>1, <2>2 DEF DrillRestore, DrillFails
<1>10. CASE DrillCount(s)
  <2> DEFINE same == side[s].by = op.of /\ s \notin run[op.of].changed
  <2>1. PICK o \in {"failed", "differs", "agrees"} :
          /\ o = IF s \in run[op.of].counted /\ ~ same THEN "differs" ELSE "agrees"
          /\ op' = [op EXCEPT !.pc = "clean", !.verdict[s] = o]
    BY <1>10 DEF DrillCount
  <2>2. op' \in OpRecord
    BY <1>1, <2>1, OpRecordUpdates, PcsDiffer
  <2>3. /\ op'.pc = "clean" /\ op'.of = op.of /\ op'.want = op.want /\ op'.drill = op.drill
        /\ op'.verdict = [op.verdict EXCEPT ![s] = o] /\ op'.left = op.left /\ op'.got = op.got
    BY <1>1, <2>1 DEF OpRecord
  <2>4. Works(op') /\ Fetches(op') /\ Busy(op') /\ Progresses(op', target', side')
    BY <1>7, <2>2, <2>3
  <2>5. op'.pc \in Active /\ op.verdict \in [Databases -> {"none", "failed", "differs", "agrees"}]
    BY <1>1, <2>3 DEF Active, Drills, OpRecord
  <2>6. run[op.of].changed \subseteq run[op.of].counted
    BY <1>5 DEF OrderInv
  <2>7. op.pc = "count"
    BY <1>10 DEF DrillCount, Drilling
  <2>8. Alone(op.of) => side[s].by = op.of
    BY <1>1, <1>2, <2>7 DEF Progresses
  <2>9. /\ (o = "differs" /\ Alone(op.of)) => s \in run[op.of].changed
        /\ o = "agrees" => s \notin run[op.of].changed
    BY <2>1, <2>6, <2>8
  <2> HIDE DEF same
  <2>10. Tells(op')
    BY <1>1, <2>3, <2>5, <2>9 DEF Tells
  <2> QED BY <1>3, <2>2, <2>4, <2>10 DEF Fine
<1>11. CASE DrillClean(s)
  <2> DEFINE v == [op EXCEPT !.pc = "drill", !.left = op.left \ {s}]
  <2>1. op' = Settled(v)
    BY <1>11 DEF DrillClean
  <2>2. v \in OpRecord
    <3>1. op.left \ {s} \in SUBSET Stores
      BY <1>5
    <3> QED BY <1>1, <3>1, OpRecordUpdates, PcsDiffer
  <2>3. /\ v.pc = "drill" /\ v.of = op.of /\ v.want = op.want /\ v.drill = op.drill /\ v.verdict = op.verdict
        /\ v.left = op.left \ {s} /\ v.got = op.got
    BY <1>1 DEF OpRecord
  <2> HIDE DEF v
  <2>4. "drill" \in Active /\ "drill" \notin Restoring /\ "drill" \in Drills
    BY DEF Active, Restoring, Drills
  <2>5. Works(v) /\ Fetches(v) /\ Tells(v) /\ Progresses(v, target', side')
    BY <1>1, <1>4, <1>5, <2>3, <2>4 DEF Works, Fetches, Tells, Progresses
  <2> QED BY <1>3, <2>1, <2>2, <2>3, <2>5, SettledIsFine DEF Fine
<1> QED BY <1>9, <1>10, <1>11

\* The steps of the operator.
LEMMA OperatorStepIsFine ==
    ASSUME TypeInv, OrderInv, ManifestInv, PushedInv, OpInv, OperatorStep
    PROVE  Fine(op', target', side') /\ Busy(op') /\ Touching /\ Restored
<1>1. CASE RestoreDies
  <2>1. Raise /\ target' = target
    BY <1>1 DEF RestoreDies
  <2> QED BY <2>1, RaiseIsFine DEF Touching
<1> QED BY <1>1, BeginRestoreIsFine, FetchIsFine, RestoreIsFine, DrillIsFine DEF OperatorStep

\* What the runs do changes nothing of what a command relies on.
LEMMA OpStays ==
    ASSUME OpInv, OrderInv, UNCHANGED operator, \A q \in Runs : GoesOn(q)
    PROVE  OpInv'
<1>1. op' = op /\ target' = target /\ side' = side
  BY DEF operator
<1>2. op \in OpRecord /\ Works(op) /\ Fetches(op) /\ Tells(op) /\ Progresses(op, target, side) /\ Busy(op)
  BY DEF OpInv, Fine
<1>3. op.pc \in Active =>
         /\ op.of \in Runs /\ Past(op.of) /\ Past(op.of)'
         /\ run'[op.of].result = run[op.of].result /\ run'[op.of].changed = run[op.of].changed
  BY <1>1, <1>2 DEF Works, GoesOn, Past
<1>4. op.pc \in Active => (Alone(op.of)' => Alone(op.of))
  <2>1. ASSUME NEW q \in Runs, q = op.of, op.pc \in Active, Alone(op.of)' PROVE Alone(op.of)
    <3>1. Alone(q)'
      BY <1>1, <2>1 DEF Alone
    <3> QED BY <2>1, <3>1, AloneBefore
  <2> QED BY <1>3, <2>1
<1>5. Works(op)'
  BY <1>1, <1>2, <1>3 DEF Works, Names
<1>6. Fetches(op)'
  BY <1>1, <1>2 DEF Fetches, Bytes
<1>7. Progresses(op, target, side)'
  <2>1. op.pc \in Restoring => op.pc \in Active
    BY PcsDiffer
  <2>2. op.pc = "count" => op.pc \in Active
    BY DEF Active, Drills
  <2> QED BY <1>1, <1>2, <1>4, <2>1, <2>2 DEF Progresses, Bytes
<1>8. Tells(op)'
  <2>1. CASE op.pc \in Active
    BY <1>1, <1>2, <1>3, <1>4, <2>1 DEF Tells
  <2>2. CASE op.pc \notin Active
    BY <1>1, <1>2, <2>2 DEF Tells
  <2> QED BY <2>1, <2>2
<1> QED BY <1>1, <1>2, <1>5, <1>6, <1>7, <1>8 DEF OpInv, Fine, Busy

-----------------------------------------------------------------------------
(* The inductive invariant.                                                *)

Inv == TypeInv /\ OrderInv /\ ManifestInv /\ PushedInv /\ OpInv

LEMMA InvInit == Init => Inv
<1>1. SUFFICES ASSUME Init PROVE Inv
  OBVIOUS
<1>2. TypeInv
  <2>1. NewRun \in RunRecord /\ 1 \in Ids
    BY NewRunType, CronAssumption DEF Ids
  <2>2. [by |-> NoRun, whole |-> TRUE] \in Objects
    BY DEF Objects
  <2>3. clock \in Ids /\ run \in [Runs -> RunRecord]
    BY <1>1, <2>1 DEF Init
  <2>4. /\ artifact \in [Stores -> [Ids -> Objects \union {NoObject}]]
        /\ manifest \in [Ids -> Objects \union {NoObject}]
    BY <1>1 DEF Init
  <2>5. /\ target \in [Targets -> Objects \union {NoObject, Production, Damaged}]
        /\ side \in [Databases -> Objects \union {NoObject}]
    BY <1>1, <2>2 DEF Init
  <2>6. spent = [failures |-> 0, changes |-> 0, probes |-> 0, restores |-> 0]
    BY <1>1 DEF Init
  <2>7. spent \in [{"failures", "changes", "probes", "restores"} -> Nat]
    BY <2>6
  <2> QED BY <2>3, <2>4, <2>5, <2>7 DEF TypeInv
<1>3. \A r \in Runs : run[r] = NewRun
  BY <1>1 DEF Init
<1>4. NewRun.pc = "new" /\ NewRun.changed = {} /\ \A s \in Stores : NewRun.result[s] # "success"
  <2>1. NewRun.pc = "new" /\ NewRun.changed = {}
    BY DEF NewRun
  <2> QED BY <2>1, NewRunType
<1>5. OrderInv /\ PushedInv
  BY <1>3, <1>4 DEF OrderInv, PushedInv, Names
<1>6. ManifestInv
  BY <1>1 DEF Init, ManifestInv
<1>7. OpInv
  <2>1. op = NoOp /\ NoOp \in OpRecord
    BY <1>1 DEF Init, NoOp, OpRecord
  <2>2. op.pc = "idle" /\ op.verdict = [s \in Databases |-> "none"]
    BY <2>1 DEF NoOp
  <2>3. op.pc \notin Active /\ op.pc \notin Restoring /\ op.pc # "restore" /\ op.pc # "count"
    BY <2>2 DEF Active, Restoring, Drills
  <2>4. \A s \in Databases : op.verdict[s] = "none"
    BY <2>2
  <2> QED BY <2>1, <2>3, <2>4 DEF OpInv, Fine, Works, Fetches, Progresses, Tells, Busy
<1> QED BY <1>2, <1>5, <1>6, <1>7 DEF Inv

LEMMA InvStep ==
    ASSUME Inv, [Next]_vars
    PROVE  Inv'
<1> USE DEF Inv
<1>1. spent' \in [{"failures", "changes", "probes", "restores"} -> Nat]
  BY SpentTypeStep
<1>2. ASSUME UNCHANGED <<clock, destination, run, operator>> PROVE Inv'
  <2>1. TypeInv' /\ OrderInv' /\ ManifestInv' /\ PushedInv'
    BY <1>1, <1>2 DEF destination, operator, TypeInv, OrderInv, ManifestInv, PushedInv, Names, Past, Alone, Intact, Bytes
  <2>2. OpInv'
    BY <1>2, OpStays DEF GoesOn, Past
  <2> QED BY <2>1, <2>2
<1>3. CASE UNCHANGED vars
  BY <1>2, <1>3 DEF vars, destination, operator
<1>4. CASE OperatorStep
  <2>1. UNCHANGED <<clock, artifact, manifest, run>>
    BY <1>4, OtherSteps DEF destination
  <2>2. Fine(op', target', side') /\ Busy(op')
    BY <1>4, OperatorStepIsFine
  <2>3. OpInv'
    BY <2>1, <2>2 DEF OpInv, Fine, Busy, Works, Fetches, Progresses, Tells, Past, Names, Alone, Bytes
  <2>4. Kinds(op', target', side')
    BY <1>4, OperatorTypeStep DEF OpInv, Fine
  <2>5. TypeInv'
    BY <1>1, <2>1, <2>4 DEF TypeInv, Kinds, Contents
  <2>6. OrderInv' /\ ManifestInv' /\ PushedInv'
    BY <2>1 DEF OrderInv, ManifestInv, PushedInv, Names, Past, Alone, Intact, Bytes
  <2> QED BY <2>3, <2>5, <2>6
<1>5. CASE DaemonStep
  <2>1. UNCHANGED <<destination, run, operator>> /\ clock' \in Ids
    BY <1>5, OtherSteps, CronAssumption DEF DaemonStep, Advance, RunReturns, Restart, TypeInv, Ids
  <2>2. OrderInv' /\ ManifestInv' /\ PushedInv'
    BY <2>1 DEF destination, OrderInv, ManifestInv, PushedInv, Names, Past, Alone, Intact, Bytes
  <2>3. TypeInv'
    BY <1>1, <2>1 DEF destination, operator, TypeInv
  <2>4. OpInv'
    BY <2>1, OpStays DEF GoesOn, Past
  <2> QED BY <2>2, <2>3, <2>4
<1>6. CASE \E r \in Runs : StartByCli(r) \/ Fire(r)
  <2>1. PICK r \in Runs : Begin(r) /\ UNCHANGED <<clock, destination, operator>>
    BY <1>6, OtherSteps
  <2>2. ManifestInv' /\ PushedInv'
    BY <2>1, BeginStep
  <2>3. run' \in [Runs -> RunRecord]
    BY <2>1, RunTypeStep DEF TypeInv
  <2>4. TypeInv'
    BY <1>1, <2>1, <2>3 DEF destination, operator, TypeInv
  <2>5. OrderInv' /\ \A q \in Runs : GoesOn(q)
    BY <2>1, RunGoesOn
  <2>6. OpInv'
    BY <2>1, <2>5, OpStays
  <2> QED BY <2>2, <2>4, <2>5, <2>6
<1>7. CASE \E r \in Runs : RunStep(r) \/ Crash(r)
  <2>1. PICK r \in Runs : RunStep(r) \/ Crash(r)
    BY <1>7
  <2>2. ManifestInv' /\ PushedInv'
    BY <2>1, ManifestStep, PushedStep
  <2>3. run' \in [Runs -> RunRecord]
    BY <2>1, RunTypeStep DEF TypeInv
  <2>4. UNCHANGED <<clock, operator>>
    BY <2>1, DestinationSteps
  <2>5. TypeInv'
    BY <1>1, <2>1, <2>3, <2>4, DestinationTypeStep DEF operator, TypeInv
  <2>6. OrderInv' /\ \A q \in Runs : GoesOn(q)
    BY <2>1, RunGoesOn
  <2>7. OpInv'
    BY <2>4, <2>6, OpStays
  <2> QED BY <2>2, <2>5, <2>6, <2>7
<1> QED BY <1>3, <1>4, <1>5, <1>6, <1>7, StepKinds

LEMMA InvHolds == Spec => []Inv
<1>1. Inv /\ [Next]_vars => Inv'
  BY InvStep
<1> QED BY InvInit, <1>1, PTL DEF Spec

-----------------------------------------------------------------------------
(* The theorems.                                                           *)

\* Each artifact that a readable manifest names is there with the bytes its
\* checksum was taken of, unless retention has deleted it, whatever crashes,
\* failures and other runs do: PushedInv, which no step breaks because a run
\* that has succeeded in a store is past it and no other run has its keys.
THEOREM ManifestsAreComplete == Spec => []ManifestMeansComplete
<1>1. Inv => ManifestMeansComplete
  <2>1. SUFFICES ASSUME Inv, NEW i \in Ids, NEW s \in Stores,
                        Readable(i), Names(manifest[i].by, s), Alone(manifest[i].by)
                 PROVE  \/ Intact(manifest[i].by, s)
                        \/ artifact[s][i] = NoObject /\ \E r \in Runs : <<i, s>> \in run[r].gone
    BY DEF ManifestMeansComplete
  <2>2. manifest[i].by \in Runs /\ run[manifest[i].by].id = i
    BY <2>1 DEF Inv, ManifestInv, Readable
  <2> QED BY <2>1, <2>2 DEF Inv, PushedInv
<1> QED BY <1>1, InvHolds, PTL

LEMMA PruneInvInit == Init => PruneInv
<1>1. SUFFICES ASSUME Init PROVE PruneInv
  OBVIOUS
<1>2. NewRun.pc = "new" /\ NewRun.doomed = {} /\ NewRun.gone = {}
  BY DEF NewRun
<1>3. \A r \in Runs : run[r] = NewRun
  BY <1>1 DEF Init
<1> QED BY <1>2, <1>3 DEF PruneInv

LEMMA PruneInvStep ==
    ASSUME MaxProbeErrors = 0, Inv, PruneInv, [Next]_vars
    PROVE  PruneInv'
<1>1. ASSUME UNCHANGED <<artifact, manifest, run>> PROVE PruneInv'
  BY <1>1 DEF PruneInv, NoCollision, Alone, Successor, Readable, Names, Past
<1>2. CASE UNCHANGED vars \/ OperatorStep \/ DaemonStep
  <2>1. UNCHANGED <<artifact, manifest, run>>
    BY <1>2, OtherSteps DEF vars, destination
  <2> QED BY <1>1, <2>1
<1>3. CASE \E r \in Runs : StartByCli(r) \/ Fire(r)
  BY <1>3, OtherSteps, BeginStep DEF Inv
<1>4. CASE \E r \in Runs : RunStep(r) \/ Crash(r)
  BY <1>4, PruneStep DEF Inv
<1> QED BY <1>2, <1>3, <1>4, StepKinds

\* A store's newest artifact stays: if retention had taken it, there would be
\* a newer one with a manifest.
LEMMA NewestStays == Inv /\ PruneInv => NewestCopyKept
<1>1. SUFFICES ASSUME Inv, PruneInv, NoCollision, NEW s \in Stores, Days[s] = 0,
                      NEW i \in Ids, Readable(i), Names(manifest[i].by, s),
                      \A j \in Ids : Readable(j) /\ Names(manifest[j].by, s) => j <= i,
                      artifact[s][i] = NoObject
               PROVE  FALSE
  BY DEF NewestCopyKept
<1>2. PICK p \in Runs : p = manifest[i].by /\ run[p].id = i
  BY <1>1 DEF Inv, ManifestInv, Readable
<1>3. Alone(p) /\ Names(p, s) /\ ~ Intact(p, s)
  BY <1>1, <1>2, WritesOwnBytes DEF NoCollision, Intact
<1>4. PICK q \in Runs : <<i, s>> \in run[q].gone
  BY <1>1, <1>2, <1>3 DEF Inv, PushedInv
<1>5. Successor(i, s)
  BY <1>1, <1>4 DEF PruneInv
<1>6. PICK j \in Ids : j > i /\ Readable(j) /\ Names(manifest[j].by, s)
  BY <1>5 DEF Successor
<1> QED BY <1>1, <1>6 DEF Ids

\* A manifest that goes leaves none of its artifacts behind: a run deletes it
\* only when of all that it names, which the run has listed, nothing is left.
LEMMA ManifestLeavesNothing ==
    ASSUME MaxProbeErrors = 0, Inv, PruneInv, [Next]_vars, NoCollision,
           NEW i \in Ids, Readable(i), manifest'[i] = NoObject,
           NEW s \in Stores, Names(manifest[i].by, s)
    PROVE  artifact'[s][i] = NoObject
<1>1. manifest'[i] # manifest[i]
  BY DEF Readable
<1>2. PICK r \in Runs : RunStep(r) \/ Crash(r)
  BY <1>1, StepKinds, OtherSteps DEF vars, destination
<1>3. ~ Published(r)
  <2>1. SUFFICES ASSUME Published(r) PROVE FALSE
    OBVIOUS
  <2>2. PICK w \in BOOLEAN : manifest' = [manifest EXCEPT ![run[r].id] = [by |-> r, whole |-> w]]
    BY <2>1 DEF Published
  <2>3. [by |-> r, whole |-> w] \in Objects /\ NoObject \notin Objects
    BY ObjectsAssumption DEF Objects
  <2> QED BY <1>1, <2>2, <2>3 DEF Inv, TypeInv
<1>4. Withdrawn(r)
  BY <1>1, <1>2, <1>3, DestinationSteps
<1>5. i \in run[r].todo /\ Remaining(r, i) = {} /\ run[r].pc = "prune"
  <2>1. ~ (spent.probes < 0)
    BY DEF Inv, TypeInv
  <2>2. PICK k \in run[r].todo :
          /\ manifest' = [manifest EXCEPT ![k] = NoObject]
          /\ Remaining(r, k) = {} \/ spent.probes < MaxProbeErrors
    BY <1>4 DEF Withdrawn
  <2>3. k = i
    BY <1>1, <2>2 DEF Inv, TypeInv
  <2> QED BY <1>4, <2>1, <2>2, <2>3 DEF Withdrawn
<1>6. PICK p \in Runs : p = manifest[i].by /\ Past(p) /\ run[p].id = i
  BY DEF Inv, ManifestInv, Readable
<1>7. PICK q \in Runs : /\ run[q].id = i /\ Past(q)
                        /\ \A t \in Stores : Names(q, t) => <<i, t>> \in run[r].names
  BY <1>5 DEF PruneInv
<1>8. q = p
  BY <1>6, <1>7, AloneIsOnly DEF NoCollision, Past
<1>9. <<i, s>> \in run[r].gone \/ artifact[s][i] = NoObject
  BY <1>5, <1>6, <1>7, <1>8 DEF Remaining
<1>10. artifact[s][i] = NoObject
  BY <1>9 DEF PruneInv
<1>11. (~ Stored(r) /\ ~ Deleted(r)) \/ artifact'[s][i] = NoObject
  <2>1. ~ Stored(r)
    BY <1>5, StoresAreNoSteps DEF Stored
  <2>2. ASSUME Deleted(r) PROVE artifact'[s][i] = NoObject
    BY <1>10, <2>2 DEF Deleted, Put, Inv, TypeInv
  <2> QED BY <2>1, <2>2
<1> QED BY <1>2, <1>10, <1>11, DestinationSteps

\* As long as no two runs share their bundle's name and no probe fails on an
\* artifact that is there, retention takes no store's newest copy where it has
\* no age bound, and no manifest before the artifacts it names: PruneInv, which
\* says of every planned deletion that a newer copy has a manifest, and keeps
\* it when that manifest is deleted in turn.
THEOREM RetentionTakesNoLastCopy ==
    ASSUME MaxProbeErrors = 0
    PROVE  Spec => RetentionIsSafe
<1>1. Inv /\ PruneInv /\ [Next]_vars => PruneInv'
  BY PruneInvStep
<1>2. Inv /\ PruneInv /\ [Next]_vars =>
         [\A i \in Ids :
            (NoCollision /\ Readable(i) /\ manifest'[i] = NoObject) =>
                \A s \in Stores : Names(manifest[i].by, s) => artifact'[s][i] = NoObject]_vars
  BY ManifestLeavesNothing
<1> QED BY <1>1, <1>2, PruneInvInit, NewestStays, InvHolds, PTL DEF Spec, RetentionIsSafe, ManifestGoesLast

\* A restore touches a target after all checks, and none with data unless it
\* was forced; when it ends well, each database holds the bundle it was asked
\* for; a drill touches no target and tells the truth: OpInv, the account of
\* what is fetched, put back and looked at in each phase.
THEOREM RestoresAreFaithful == Spec => RestoreIsFaithful
<1>1. Inv => DrillTells
  BY DEF Inv, OpInv, Fine, Tells, DrillTells
<1>2. Inv /\ [Next]_vars => Touching /\ Restored
  <2>1. SUFFICES ASSUME Inv, [Next]_vars PROVE Touching /\ Restored
    OBVIOUS
  <2>2. ASSUME UNCHANGED operator PROVE Touching /\ Restored
    <3>1. op' = op /\ target' = target
      BY <2>2 DEF operator
    <3> QED BY <3>1 DEF Touching, Restored
  <2>3. CASE OperatorStep
    BY <2>1, <2>3, OperatorStepIsFine DEF Inv
  <2>4. CASE ~ OperatorStep
    <3>1. UNCHANGED operator
      BY <2>1, <2>4, StepKinds, OtherSteps, DestinationSteps DEF vars, operator
    <3> QED BY <2>2, <3>1
  <2> QED BY <2>3, <2>4
<1>3. Inv /\ [Next]_vars =>
        [\A t \in Targets : target'[t] # target[t] =>
            /\ \A s \in op.want \intersect Fetched : op.got[s] = Bytes(op.of)
            /\ op.force \/ target[t] = NoObject
            /\ ~ op.drill]_vars
  BY <1>2 DEF Touching
<1>4. Inv /\ [Next]_vars =>
        [(op.pc \in {"apply", "restore"} /\ op'.pc = "done" /\ Alone(op.of)) =>
            \A s \in op.want \intersect Databases : target'[s] = Bytes(op.of)]_vars
  BY <1>2 DEF Restored
<1> QED BY <1>1, <1>3, <1>4, InvHolds, PTL
    DEF Spec, RestoreIsFaithful, TouchedAfterChecks, RestoredIsBundle

\* What the sidecar has fired between its start and an occurrence.
Fired(since, until) == {c \in Occurrences : since < c /\ c <= until}

\* The next occurrence due adds one to them.
LEMMA DueIsNext ==
    ASSUME DaemonInv, NEW c \in Occurrences, Due(c)
    PROVE  /\ c \in Ids /\ daemon.since < c
           /\ daemon.fires + 1 = Cardinality(Fired(daemon.since, c))
<1> DEFINE after == IF daemon.previous = 0 THEN daemon.since ELSE daemon.previous
<1>1. c > after /\ \A d \in Occurrences : d > after => c <= d
  BY DEF Due
<1>2. Occurrences \subseteq Ids /\ Ids \subseteq Nat
  BY CronAssumption DEF Occurrences, Ids
<1>3. IsFiniteSet(Occurrences)
  <2>1. MaxClock \in Int /\ 1 \in Int
    BY CronAssumption
  <2>2. IsFiniteSet(1 .. MaxClock)
    BY <2>1, FS_Interval
  <2> QED BY <1>2, <2>2, FS_Subset DEF Ids
<1>4. CASE daemon.previous = 0
  <2>1. after = daemon.since /\ daemon.since \in Nat
    BY <1>4 DEF DaemonInv
  <2>2. ASSUME NEW d \in Occurrences PROVE daemon.since < d /\ d <= c <=> d = c
    <3>1. c \in Nat /\ d \in Nat /\ c > daemon.since /\ (d > daemon.since => c <= d)
      BY <1>1, <1>2, <2>1
    <3> QED BY <2>1, <3>1
  <2>3. Fired(daemon.since, c) = {c}
    BY <2>2 DEF Fired
  <2>4. daemon.fires = 0
    BY <1>4 DEF DaemonInv
  <2>5. Cardinality({c}) = 1
    BY FS_Singleton
  <2> QED BY <1>1, <1>2, <2>1, <2>4, <2>3, <2>5
<1>5. CASE daemon.previous # 0
  <2> DEFINE old == Fired(daemon.since, daemon.previous)
  <2>1. daemon.previous \in Nat /\ daemon.since \in Nat /\ daemon.since < daemon.previous
        /\ daemon.fires = Cardinality(old)
    BY <1>5 DEF DaemonInv, NoFireSkipped, Fired
  <2>2. after = daemon.previous
    BY <1>5
  <2>3. ASSUME NEW d \in Occurrences
        PROVE  daemon.since < d /\ d <= c <=> (daemon.since < d /\ d <= daemon.previous) \/ d = c
    <3>1. c \in Nat /\ d \in Nat /\ c > daemon.previous /\ (d > daemon.previous => c <= d)
      BY <1>1, <1>2, <2>2
    <3> QED BY <2>1, <3>1
  <2>4. c \in Nat /\ c > daemon.previous
    BY <1>1, <1>2, <2>2
  <2>5. Fired(daemon.since, c) = old \union {c} /\ c \notin old
    <3>1. \A d : d \in Fired(daemon.since, c) <=> d \in old \/ d = c
      BY <2>3 DEF Fired
    <3>2. c \notin old
      BY <2>1, <2>4 DEF Fired
    <3> HIDE DEF old
    <3> QED BY <3>1, <3>2
  <2>6. IsFiniteSet(old)
    BY <1>3, FS_Subset DEF Fired
  <2> HIDE DEF old
  <2>7. Cardinality(old \union {c}) = Cardinality(old) + 1
    BY <2>5, <2>6, FS_AddElement
  <2>8. daemon.since < c
    BY <1>1, <1>2, <1>5, <2>1
  <2> QED BY <1>2, <2>1, <2>5, <2>7, <2>8
<1> QED BY <1>4, <1>5

LEMMA DaemonStepHolds ==
    ASSUME Inv, DaemonInv, [Next]_vars
    PROVE  DaemonInv'
<1>1. ASSUME UNCHANGED daemon PROVE DaemonInv'
  BY <1>1 DEF DaemonInv, NoFireSkipped
<1>2. CASE UNCHANGED vars \/ OperatorStep
  BY <1>1, <1>2, OtherSteps DEF vars
<1>3. CASE \E r \in Runs : RunStep(r) \/ Crash(r)
  BY <1>1, <1>3, DestinationSteps
<1>4. ASSUME NEW r \in Runs, StartByCli(r) PROVE DaemonInv'
  BY <1>1, <1>4 DEF StartByCli
<1>5. ASSUME NEW r \in Runs, Fire(r) PROVE DaemonInv'
  <2>1. PICK c \in Occurrences :
          Due(c) /\ daemon' = [daemon EXCEPT !.previous = c, !.job = r, !.fires = @ + 1]
    BY <1>5 DEF Fire
  <2>2. DOMAIN daemon = {"since", "previous", "job", "fires"}
    BY DEF DaemonInv
  <2>3. /\ DOMAIN daemon' = {"since", "previous", "job", "fires"}
        /\ daemon'.since = daemon.since /\ daemon'.previous = c /\ daemon'.fires = daemon.fires + 1
    BY <2>1, <2>2
  <2>4. c \in Ids /\ daemon.since < c /\ daemon.fires + 1 = Cardinality(Fired(daemon.since, c))
    BY <2>1, DueIsNext
  <2>5. c \in Nat /\ c # 0 /\ daemon.since \in Nat /\ daemon.fires + 1 \in Nat
    BY <2>4, CronAssumption DEF Ids, DaemonInv
  <2>6. NoFireSkipped'
    BY <2>3, <2>4 DEF NoFireSkipped, Fired
  <2> QED BY <2>3, <2>4, <2>5, <2>6 DEF DaemonInv
<1>6. CASE Advance
  BY <1>1, <1>6 DEF Advance
<1>7. CASE RunReturns
  <2>1. daemon' = [daemon EXCEPT !.job = NoRun]
    BY <1>7 DEF RunReturns
  <2>2. /\ DOMAIN daemon' = DOMAIN daemon /\ daemon'.since = daemon.since
        /\ daemon'.previous = daemon.previous /\ daemon'.fires = daemon.fires
    BY <2>1 DEF DaemonInv
  <2> QED BY <2>2 DEF DaemonInv, NoFireSkipped
<1>8. CASE Restart
  <2>1. daemon' = [since |-> clock, previous |-> 0, job |-> NoRun, fires |-> 0]
    BY <1>8 DEF Restart
  <2>2. clock \in Nat
    BY CronAssumption DEF Inv, TypeInv, Ids
  <2> QED BY <2>1, <2>2 DEF DaemonInv
<1> QED BY <1>2, <1>3, <1>4, <1>5, <1>6, <1>7, <1>8, StepKinds DEF DaemonStep

\* The sidecar fires each occurrence of its schedule once, in order, however
\* long its runs take: the next one due is the least after the last one fired,
\* so that what it has fired is what lies between its start and that one.
THEOREM EveryOccurrenceFires == Spec => []NoFireSkipped
<1>1. Init => DaemonInv
  <2>1. ASSUME Init PROVE DaemonInv
    <3>1. daemon = [since |-> 0, previous |-> 0, job |-> NoRun, fires |-> 0]
      BY <2>1 DEF Init
    <3> QED BY <3>1 DEF DaemonInv
  <2> QED BY <2>1
<1>2. DaemonInv => NoFireSkipped
  BY DEF DaemonInv, NoFireSkipped
<1> QED BY <1>1, <1>2, DaemonStepHolds, InvHolds, PTL DEF Spec

=============================================================================
